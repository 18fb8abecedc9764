-------------------------------- MODULE Imap --------------------------------
(***************************************************************************)
(* The mailbox as IMAP connections share it with webmail, ActiveSync and   *)
(* delivery (imap/server.go, mailbox.go, fetch.go, proto.go;               *)
(* store/messages.go; api/user.go message; eas/misc.go MoveItems and       *)
(* EmptyFolderContents).                                                   *)
(*                                                                         *)
(* Every command reads its folder once and then works through what it      *)
(* read, one statement at a time: the row of a message, then the records   *)
(* of the change feed that tell devices of it.  Nothing locks the folder.  *)
(* A UID is the id of the row; sequence numbers are positions in the list  *)
(* as it is at that command.  Of the feed the model keeps the last record  *)
(* of each message in each folder (module EasSync has the whole feed).     *)
(***************************************************************************)
EXTENDS Naturals, FiniteSets, Sequences

CONSTANTS
  Boxes, NoBox,
  Inbox,      \* where mail is delivered
  Conns,      \* IMAP connections
  Apps,       \* handlers of the other protocols
  StoreOps,   \* the STORE items and flags that are tried: <<item, flags>>
  MaxMsgs,    \* bound: messages
  MaxCmds,    \* bound: commands that change something
  MaxFaults   \* bound: statements that fail, crashes

ASSUME ImapAssumption ==
  /\ NoBox \notin Boxes /\ Inbox \in Boxes
  /\ Conns \cap Apps = {}
  /\ StoreOps \subseteq {"FLAGS", "+FLAGS", "-FLAGS"} \X SUBSET {"seen", "flagged", "deleted"}
  /\ MaxMsgs \in Nat \ {0} /\ MaxCmds \in Nat /\ MaxFaults \in Nat
  /\ MaxCmds <= MaxMsgs    \* every message that is inserted has an id

VARIABLES
  rows,     \* the messages table; the id of a message is its index
  last,     \* the kind of the last change record per folder and message
  sess,     \* per connection: what it selected and what its client was told
  job,      \* the command in progress of every connection and handler
  tainted,  \* messages two commands wrote at the same time, or a record of which was lost
  cmds, faults

vars == <<rows, last, sess, job, tainted, cmds, faults>>

Ids == 1..MaxMsgs
Star == 0
Actors == Conns \cup Apps
Kinds == {"add", "change", "delete"}

\* ghost: MoveItems moved the message after it was deleted (history, not a column).
Row == [box : Boxes, read : BOOLEAN, flagged : BOOLEAN, deleted : BOOLEAN, ghost : BOOLEAN]

\* told: the messages the client has numbers for; shifted: something left the folder or
\* was moved in among them; next: the UIDNEXT that IDLE compares with.
Session == [user : BOOLEAN, selected : Boxes \cup {NoBox}, told : SUBSET Ids,
            shifted : BOOLEAN, idle : BOOLEAN, next : Nat]

\* snap is the folder as the command read it, ids what it has still to write, at the
\* message it is recording.
Job == [cmd : {"none", "store", "move", "moveitems", "empty", "read", "append"},
        pc : {"free", "list", "write", "log", "logAdd"},
        box : Boxes \cup {NoBox}, dst : Boxes \cup {NoBox},
        op : {"FLAGS", "+FLAGS", "-FLAGS"} \X SUBSET {"seen", "flagged", "deleted"},
        snap : Seq(Row), ids : SUBSET Ids, at : Nat]

\* Shapes; a message is always in a folder that exists (moveMessages, cmdMoveItems).
TypeOK ==
  /\ rows \in Seq(Row) /\ Len(rows) <= MaxMsgs
  /\ last \in [Boxes \X Ids -> Kinds \cup {"none"}]
  /\ sess \in [Conns -> Session]
  /\ job \in [Actors -> Job]
  /\ tainted \subseteq Ids
  /\ cmds \in Nat /\ faults \in Nat

(***************************************************************************)
(* The queries.                                                            *)
(***************************************************************************)

MessagesForIMAP(f) == {i \in DOMAIN rows : rows[i].box = f /\ ~rows[i].deleted}

\* MAX(id) + 1 over the folder, deleted rows included; 1 when there is none.
NextUID(f) ==
  LET used == {i \in DOMAIN rows : rows[i].box = f} IN
  IF used = {} THEN 1 ELSE 1 + CHOOSE i \in used : \A k \in used : k <= i

\* The sequence number of message i in a list ordered by id.
Number(list, i) == Cardinality({k \in list : k <= i})

\* parseSeqSet and contains, for one range; * is the highest number (or UID), and a range
\* may be written either way round.
Contains(r, value, max) ==
  LET lo == IF r[1] = Star THEN max ELSE r[1]
      hi == IF r[2] = Star THEN max ELSE r[2]
  IN (lo <= value /\ value <= hi) \/ (hi <= value /\ value <= lo)

\* The messages of folder f that a command names.
Matched(f, r, uidMode) ==
  LET list == MessagesForIMAP(f)
      lastUID == IF list = {} THEN 0 ELSE CHOOSE i \in list : \A k \in list : k <= i
  IN {i \in list : IF uidMode THEN Contains(r, i, lastUID)
                              ELSE Contains(r, Number(list, i), Cardinality(list))}

(***************************************************************************)
(* Connections.                                                            *)
(***************************************************************************)

Closed == [user |-> FALSE, selected |-> NoBox, told |-> {}, shifted |-> FALSE,
           idle |-> FALSE, next |-> 0]

Free == [cmd |-> "none", pc |-> "free", box |-> NoBox, dst |-> NoBox, op |-> <<"FLAGS", {}>>,
         snap |-> <<>>, ids |-> {}, at |-> 0]

Init ==
  /\ rows = <<>>
  /\ last = [p \in Boxes \X Ids |-> "none"]
  /\ sess = [c \in Conns |-> Closed]
  /\ job = [a \in Actors |-> Free]
  /\ tainted = {}
  /\ cmds = 0 /\ faults = 0

\* A connection handles one command at a time; IDLE ends before the next one.
Ready(c) == sess[c].user /\ ~sess[c].idle /\ job[c].pc = "free"
Selected(c) == Ready(c) /\ sess[c].selected # NoBox

Login(c) ==
  /\ ~sess[c].user
  /\ sess' = [sess EXCEPT ![c].user = TRUE]
  /\ UNCHANGED <<rows, last, job, tainted, cmds, faults>>

SelectCountsDeleted(c, f) ==
  /\ Ready(c)
  /\ sess' = [sess EXCEPT ![c].selected = f, ![c].told = {i \in DOMAIN rows : rows[i].box = f},
                          ![c].shifted = FALSE]
  /\ UNCHANGED <<rows, last, job, tainted, cmds, faults>>

\* SELECT and EXAMINE (no command looks at readOnly), with the FETCH of the UIDs that
\* follows; a folder whose list cannot be read is not selected.
Select(c, f) ==
  /\ Ready(c)
  /\ sess' = [sess EXCEPT ![c].selected = f, ![c].told = MessagesForIMAP(f),
                          ![c].shifted = FALSE]
  /\ UNCHANGED <<rows, last, job, tainted, cmds, faults>>

\* FETCH 1:* (UID FLAGS) and UID SEARCH ALL number the folder as it is now.
Fetch(c) ==
  /\ Selected(c)
  /\ sess' = [sess EXCEPT ![c].told = MessagesForIMAP(sess[c].selected), ![c].shifted = FALSE]
  /\ UNCHANGED <<rows, last, job, tainted, cmds, faults>>

\* CLOSE forgets the folder; EXPUNGE and LOGOUT change nothing.
Close(c) ==
  /\ Selected(c)
  /\ sess' = [sess EXCEPT ![c] = [Closed EXCEPT !.user = TRUE]]
  /\ UNCHANGED <<rows, last, job, tainted, cmds, faults>>

Disconnect(c) ==
  /\ sess[c].user /\ job[c].pc = "free"
  /\ sess' = [sess EXCEPT ![c] = Closed]
  /\ UNCHANGED <<rows, last, job, tainted, cmds, faults>>

\* (The first NextUID may fail; IDLE then compares with 0.)
IdleUnread(c) ==
  /\ faults < MaxFaults
  /\ Selected(c)
  /\ sess' = [sess EXCEPT ![c].idle = TRUE, ![c].next = 0]
  /\ faults' = faults + 1
  /\ UNCHANGED <<rows, last, job, tainted, cmds>>

Idle(c) ==
  /\ Selected(c)
  /\ sess' = [sess EXCEPT ![c].idle = TRUE, ![c].next = NextUID(sess[c].selected)]
  /\ UNCHANGED <<rows, last, job, tainted, cmds, faults>>

\* What the client knows after "* n EXISTS": its numbers and those that follow them.
Exists(s) == [s EXCEPT !.told = IF s.shifted THEN @ ELSE MessagesForIMAP(s.selected)]

IdlePollCount(c) ==
  LET s == sess[c] IN
  /\ s.idle
  /\ Cardinality(MessagesForIMAP(s.selected)) > s.next
  /\ sess' = [sess EXCEPT ![c] = [Exists(s) EXCEPT !.next = NextUID(s.selected)]]
  /\ UNCHANGED <<rows, last, job, tainted, cmds, faults>>

\* Every 200 ms; only a higher UIDNEXT is reported.
IdlePoll(c) ==
  LET s == sess[c] IN
  /\ s.idle
  /\ NextUID(s.selected) > s.next
  /\ sess' = [sess EXCEPT ![c] = [Exists(s) EXCEPT !.next = NextUID(s.selected)]]
  /\ UNCHANGED <<rows, last, job, tainted, cmds, faults>>

\* The list cannot be read: nothing is written, and the new UIDNEXT is kept all the same.
IdlePollFails(c) ==
  LET s == sess[c] IN
  /\ faults < MaxFaults
  /\ s.idle
  /\ NextUID(s.selected) > s.next
  /\ sess' = [sess EXCEPT ![c].next = NextUID(s.selected)]
  /\ faults' = faults + 1
  /\ UNCHANGED <<rows, last, job, tainted, cmds>>

\* DONE, or 29 minutes are over.
IdleEnds(c) ==
  /\ sess[c].idle
  /\ sess' = [sess EXCEPT ![c].idle = FALSE, ![c].next = 0]
  /\ UNCHANGED <<rows, last, job, tainted, cmds, faults>>

(***************************************************************************)
(* Commands: reading the folder.                                           *)
(***************************************************************************)

Begin(a, j) ==
  /\ cmds < MaxCmds
  /\ cmds' = cmds + 1
  /\ job' = [job EXCEPT ![a] = j]
  /\ UNCHANGED <<rows, last, sess, tainted, faults>>

\* A command that matches nothing is over at once.
Listed(cmd, f, dst, op, ids) ==
  IF ids = {} THEN Free
  ELSE [Free EXCEPT !.cmd = cmd, !.pc = "write", !.box = f, !.dst = dst, !.op = op,
                    !.snap = rows, !.ids = ids]

Ranges == (Ids \cup {Star}) \X (Ids \cup {Star})

Store(c, r, uidMode, op) ==
  /\ Selected(c)
  /\ Begin(c, Listed("store", sess[c].selected, NoBox, op,
                     Matched(sess[c].selected, r, uidMode)))

Move(c, r, uidMode, f) ==
  /\ Selected(c)
  /\ Begin(c, Listed("move", sess[c].selected, f, <<"FLAGS", {}>>,
                     Matched(sess[c].selected, r, uidMode)))

Appending(f, flags) ==
  [Free EXCEPT !.cmd = "append", !.pc = "write", !.box = f, !.op = <<"FLAGS", flags>>]

\* Of the flags a client names, \Seen and \Flagged count.
AppendMessage(c, f, flags) ==
  /\ Ready(c)
  /\ Begin(c, Appending(f, flags))

\* Delivery (module Delivery has its details).
Deliver(a) ==
  /\ job[a].pc = "free"
  /\ Begin(a, Appending(Inbox, {}))

\* ActiveSync MoveItems: the message must be in the folder the device names; whether it
\* was deleted is not asked.
MoveItems(a, i, f) ==
  /\ job[a].pc = "free"
  /\ i \in DOMAIN rows
  /\ rows[i].box # f
  /\ Begin(a, Listed("moveitems", rows[i].box, f, <<"FLAGS", {}>>, {i}))

\* ActiveSync EmptyFolderContents.
EmptyFolder(a, f) ==
  /\ job[a].pc = "free"
  /\ Begin(a, Listed("empty", f, NoBox, <<"FLAGS", {}>>, MessagesForIMAP(f)))

\* Webmail opens a message that is not read yet.
MarkRead(a, i) ==
  /\ job[a].pc = "free"
  /\ i \in DOMAIN rows
  /\ ~rows[i].deleted /\ ~rows[i].read
  /\ Begin(a, Listed("read", rows[i].box, NoBox, <<"FLAGS", {}>>, {i}))

(***************************************************************************)
(* Commands: writing.                                                      *)
(***************************************************************************)

\* The columns STORE computes from the row it read.
Apply(row, op) ==
  LET base == IF op[1] = "FLAGS"
              THEN [row EXCEPT !.read = FALSE, !.flagged = FALSE, !.deleted = FALSE] ELSE row
      set(flag, old) == IF flag \in op[2] THEN op[1] # "-FLAGS" ELSE old
  IN [base EXCEPT !.read = set("seen", @), !.flagged = set("flagged", @),
                  !.deleted = set("deleted", @)]

WrittenToTrash(j, i) ==
  CASE j.cmd = "store" -> Apply(j.snap[i], j.op)
    [] j.cmd = "read" -> [rows[i] EXCEPT !.read = TRUE]
    [] OTHER -> [rows[i] EXCEPT !.box = j.dst]

\* UpdateMessage writes every column back, as read and computed; the others write one.
Written(j, i) ==
  CASE j.cmd = "store" -> Apply(j.snap[i], j.op)
    [] j.cmd \in {"move", "moveitems"} -> [rows[i] EXCEPT !.box = j.dst, !.ghost = rows[i].deleted]
    [] j.cmd = "empty" -> [rows[i] EXCEPT !.deleted = TRUE]
    [] OTHER -> [rows[i] EXCEPT !.read = TRUE]

Busy(i) == \E a \in Actors : job[a].pc \in {"log", "logAdd"} /\ job[a].at = i

\* Another command is recording the message, or moved or deleted it since it was read.
Collides(j, i) ==
  \/ Busy(i)
  \/ rows[i].box # j.snap[i].box \/ rows[i].deleted # j.snap[i].deleted

\* Views that are not what their clients believe once row i becomes new: i leaves the
\* folder, or comes in below the highest number.
Shifts(s, i, new) ==
  \/ i \in s.told /\ (new.box # s.selected \/ new.deleted)
  \/ i \notin s.told /\ new.box = s.selected /\ ~new.deleted /\ \E k \in s.told : i < k

Shifted(i, new) ==
  sess' = [c \in Conns |->
             IF sess[c].selected # NoBox /\ Shifts(sess[c], i, new)
             THEN [sess[c] EXCEPT !.shifted = TRUE] ELSE sess[c]]

First(ids) == CHOOSE i \in ids : \A k \in ids : i <= k

\* The next message of the command, in the order of ids.
Write(a) ==
  LET j == job[a]
      i == First(j.ids)
      new == Written(j, i)
  IN
  /\ j.pc = "write" /\ j.cmd # "append"
  /\ rows' = [rows EXCEPT ![i] = new]
  /\ tainted' = tainted \cup (IF Collides(j, i) THEN {i} ELSE {})
  /\ Shifted(i, new)
  /\ job' = [job EXCEPT ![a].pc = "log", ![a].at = i, ![a].ids = @ \ {i}]
  /\ UNCHANGED <<last, cmds, faults>>

Appended(j) == Apply([box |-> j.box, read |-> FALSE, flagged |-> FALSE, deleted |-> FALSE,
                      ghost |-> FALSE], j.op)

\* InsertMessage and the attachments.
Insert(a) ==
  LET j == job[a]
      new == Appended(j)
  IN
  /\ j.pc = "write" /\ j.cmd = "append"
  /\ Len(rows) < MaxMsgs
  /\ rows' = Append(rows, new)
  /\ Shifted(Len(rows) + 1, new)
  /\ job' = [job EXCEPT ![a].pc = "log", ![a].at = Len(rows) + 1]
  /\ UNCHANGED <<last, tainted, cmds, faults>>

\* The row is there, but its source cannot be stored: the command is refused, and the
\* message stays without a record.
InsertHalf(a) ==
  LET j == job[a]
      new == Appended(j)
  IN
  /\ faults < MaxFaults
  /\ j.pc = "write" /\ j.cmd = "append"
  /\ Len(rows) < MaxMsgs
  /\ faults' = faults + 1
  /\ rows' = Append(rows, new)
  /\ Shifted(Len(rows) + 1, new)
  /\ tainted' = tainted \cup {Len(rows) + 1}
  /\ job' = [job EXCEPT ![a] = Free]
  /\ UNCHANGED <<last, cmds>>

\* After the last record of a message: the next message, or the answer.
NextMessage(j) == IF j.ids = {} THEN Free ELSE [j EXCEPT !.pc = "write", !.at = 0]

\* The statement fails: STORE and MOVE go on with the next message, the others answer an
\* error.
WriteFails(a) ==
  LET j == job[a] IN
  /\ faults < MaxFaults
  /\ j.pc = "write"
  /\ faults' = faults + 1
  /\ job' = [job EXCEPT ![a] =
       IF j.cmd \in {"store", "move"} THEN NextMessage([j EXCEPT !.ids = @ \ {First(j.ids)}])
                                      ELSE Free]
  /\ UNCHANGED <<rows, last, sess, tainted, cmds>>

(***************************************************************************)
(* Commands: the records.                                                  *)
(***************************************************************************)

Kind(j) ==
  CASE j.cmd = "append" -> "add"
    [] j.cmd \in {"move", "moveitems", "empty"} -> "delete"
    [] j.cmd = "store" /\ Apply(j.snap[j.at], j.op).deleted /\ ~j.snap[j.at].deleted -> "delete"
    [] OTHER -> "change"

MovesOn(j) == j.cmd \in {"move", "moveitems"}

RecordedOnce(j) == NextMessage(j)

\* A move leaves its folder for good only with a second record.
Recorded(j) == IF MovesOn(j) THEN [j EXCEPT !.pc = "logAdd"] ELSE NextMessage(j)

AddChange(a) ==
  LET j == job[a] IN
  /\ j.pc = "log"
  /\ last' = [last EXCEPT ![<<j.box, j.at>>] = Kind(j)]
  /\ job' = [job EXCEPT ![a] = Recorded(j)]
  /\ UNCHANGED <<rows, sess, tainted, cmds, faults>>

AddChangeDst(a) ==
  LET j == job[a] IN
  /\ j.pc = "logAdd"
  /\ last' = [last EXCEPT ![<<j.dst, j.at>>] = "add"]
  /\ job' = [job EXCEPT ![a] = NextMessage(j)]
  /\ UNCHANGED <<rows, sess, tainted, cmds, faults>>

\* AddChange fails; every command ignores that.
AddChangeFails(a) ==
  LET j == job[a] IN
  /\ faults < MaxFaults
  /\ j.pc \in {"log", "logAdd"}
  /\ faults' = faults + 1
  /\ tainted' = tainted \cup {j.at}
  /\ job' = [job EXCEPT ![a] = IF j.pc = "log" THEN Recorded(j) ELSE NextMessage(j)]
  /\ UNCHANGED <<rows, last, sess, cmds>>

\* The process dies: connections close, commands stop where they are.
Crash ==
  /\ faults < MaxFaults
  /\ faults' = faults + 1
  /\ sess' = [c \in Conns |-> Closed]
  /\ tainted' = tainted \cup {i \in Ids : Busy(i)}
  /\ job' = [a \in Actors |-> Free]
  /\ UNCHANGED <<rows, last, cmds>>

Working(a) == Write(a) \/ Insert(a) \/ AddChange(a) \/ AddChangeDst(a)

Next ==
  \/ \E c \in Conns :
       \/ Login(c) \/ Fetch(c) \/ Close(c) \/ Disconnect(c)
       \/ Idle(c) \/ IdleUnread(c) \/ IdlePoll(c) \/ IdlePollFails(c) \/ IdleEnds(c)
       \/ \E f \in Boxes : Select(c, f) \/ \E flags \in SUBSET {"seen", "flagged"} : AppendMessage(c, f, flags)
       \/ \E r \in Ranges, uidMode \in BOOLEAN :
            \/ \E op \in StoreOps : Store(c, r, uidMode, op)
            \/ \E f \in Boxes : Move(c, r, uidMode, f)
  \/ \E a \in Apps :
       \/ Deliver(a)
       \/ \E i \in Ids : MarkRead(a, i) \/ \E f \in Boxes : MoveItems(a, i, f)
       \/ \E f \in Boxes : EmptyFolder(a, f)
  \/ \E a \in Actors : Working(a) \/ WriteFails(a) \/ InsertHalf(a) \/ AddChangeFails(a)
  \/ Crash

Spec == Init /\ [][Next]_vars

\* A command that began runs on, and IDLE looks every 200 ms.
Fairness ==
  /\ \A a \in Actors : WF_vars(Working(a))
  /\ \A c \in Conns : WF_vars(IdlePoll(c))

FairSpec == Spec /\ Fairness

(***************************************************************************)
(* Properties.                                                             *)
(***************************************************************************)

Live(f, i) == i \in MessagesForIMAP(f)

\* Table and feed agree: a message that lives in a folder was last announced there as
\* added or changed, one that left it (moved, flagged \Deleted, emptied) as deleted.
\* Excepted are messages that two commands wrote at the same time, a STORE's write-back of
\* a row that changed in between included, and those a record of which was lost (tainted).
\* And there is one case in which the two disagree with a single client at work: MoveItems
\* does not ask whether the message was deleted, and announces it in its new folder as
\* added although it does not live there (ghost).
FeedTells ==
  \A i \in DOMAIN rows : i \notin tainted /\ ~Busy(i) =>
    \A f \in Boxes : last[<<f, i>>] \in {"add", "change"}
                      <=> Live(f, i) \/ (rows[i].box = f /\ rows[i].ghost)

\* The server never sends EXPUNGE, so a client's sequence numbers must stay right by
\* themselves: as long as nothing left the folder and nothing was moved in among the
\* messages it has numbers for, arrivals only add numbers at the end.
NumbersHold ==
  \A c \in Conns : LET s == sess[c] IN
    s.selected # NoBox /\ ~s.shifted =>
      \A i \in s.told : /\ Live(s.selected, i)
                        /\ Number(s.told, i) = Number(MessagesForIMAP(s.selected), i)

\* Moved in below the UIDNEXT that IDLE compares with (only a higher UIDNEXT makes it look):
\* no EXISTS tells of such a message until a later one raises UIDNEXT.
Overtaken(c, i) == i < sess[c].next

\* A message that arrives in the folder a client idles in is announced if it is not
\* overtaken: always when it was delivered or appended, since its UID is the highest, but
\* not always when it was moved in, which an IDLE client is not told of.  (Unless IDLE ends,
\* the message leaves again, the client's numbers are void or the store failed.)
IdleTells ==
  \A c \in Conns, i \in Ids :
    (sess[c].idle /\ Live(sess[c].selected, i) /\ i \notin sess[c].told /\ ~Overtaken(c, i))
      ~> \/ ~sess[c].idle \/ ~Live(sess[c].selected, i) \/ i \in sess[c].told
         \/ sess[c].shifted \/ faults > 0

=============================================================================
