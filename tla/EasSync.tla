------------------------------ MODULE EasSync ------------------------------
(***************************************************************************)
(* The ActiveSync Sync command of one folder: internal/eas/sync.go over    *)
(* the tables messages|contacts|events, changes, sync_states, sync_items.  *)
(*                                                                         *)
(* A writer (delivery, webmail, IMAP, another device) first updates the    *)
(* item's row and then, in a second statement, appends a record to the     *)
(* folder's change feed.  A Sync handler checks the device's SyncKey,      *)
(* applies the device's own command, reads a window of the feed, loads the *)
(* rows, keeps sync_items, saves the new key and position, and answers.    *)
(* Every store statement is a step of its own, so writers, handlers of     *)
(* other devices, administrators and crashes fall between them.            *)
(*                                                                         *)
(* The device is external: it keeps the key and the items it was sent,     *)
(* polls, repeats a request whose answer it gave up on, and starts again   *)
(* with key 0 when it is told Status 3.                                    *)
(***************************************************************************)
EXTENDS Naturals, Sequences, FiniteSets

CONSTANTS
  Devices,    \* the account's devices
  Items,      \* the server ids that can exist
  NoItem,     \* no item
  Tries,      \* how many handlers of one device can run at the same time
  Class,      \* the folder's class: "Email", or "PIM" (Contacts, Calendar)
  Old,        \* the items older than the FilterType of the initial sync
  Window,     \* WindowSize
  Uploads,    \* the commands the devices use: "Add", "Change", "Delete", "Fetch"
  Env,        \* what the surroundings do: "lose", "dberror", "crash", "prune", "reset"
  MaxSeq,     \* bound: no writer starts once this many records exist or are due
  MaxRev,     \* bound: the item contents ever written
  MaxKey,     \* bound: no upload under a greater SyncKey
  MaxFaults   \* bound: the faults ("lose", "dberror", "crash", "reset") of a behaviour

ASSUME EasSyncAssumption ==
  /\ NoItem \notin Items
  /\ Class \in {"Email", "PIM"}
  /\ Old \subseteq Items
  /\ Tries # {} /\ Window \in Nat \ {0}
  /\ MaxSeq \in Nat /\ MaxRev \in Nat /\ MaxKey \in Nat /\ MaxFaults \in Nat

VARIABLES
  row,     \* messages, contacts, events: where each item is, its deleted flag, its content
  fresh,   \* the last content written (contents are numbered)
  feed,    \* changes: feed[s] is the record with seq s
  low,     \* changes: the records 1..low have been pruned
  due,     \* the writers between their row update and their AddChange
  state,   \* sync_states: key 0 where the device has no row
  known,   \* sync_items
  dev,     \* the devices
  req,     \* the handlers
  wiping,  \* the devices whose reset by an administrator is half done
  faults   \* the faults so far

vars == <<row, fresh, feed, low, due, state, known, dev, req, wiping, faults>>

Kinds == {"add", "change", "delete"}
Ops == {"none", "Add", "Change", "Delete", "Fetch"}
Acks == {"none", "ok", "gone", "err"}

Row == [at : {"nowhere", "here", "away"}, deleted : BOOLEAN, rev : Nat]
Change == [item : Items, kind : Kinds, by : Devices \cup {"server"}]
SyncState == [key : Nat, seq : Nat]
Command == [name : {"none", "Add", "Change", "Delete"}, rev : Nat]

\* The device: its SyncKey, the position its initial sync read up to, the content
\* it holds of each item (0: none), and the items it created and the ones it
\* deleted that the server's sync_items is wrong about.
Device ==
  [key : Nat, first : Nat, copy : [Items -> Nat],
   made : SUBSET Items, dropped : SUBSET Items]

\* A handler: what the request carried (key, op, item, moves, base), whether the
\* device still waits for it, and the locals of syncCollection.
Handler ==
  [pc : {"idle", "start", "forget", "begin", "load", "write", "log", "known", "fetch",
         "emit", "save", "reply"},
   live : BOOLEAN, key : Nat, op : Ops, item : Items \cup {NoItem}, moves : BOOLEAN,
   base : Nat, snap : Row, st : SyncState, rev : Nat, ack : Acks, skip : SUBSET Nat,
   kn : SUBSET Items, todo : SUBSET Nat, last : Nat, more : BOOLEAN,
   out : [Items -> Command], status : {0, 1, 3, 5}]

Slots == Devices \X Tries

NoRow == [at |-> "nowhere", deleted |-> FALSE, rev |-> 0]
NoCommand == [name |-> "none", rev |-> 0]
Silent == [i \in Items |-> NoCommand]
NoState == [key |-> 0, seq |-> 0]

Idle ==
  [pc |-> "idle", live |-> FALSE, key |-> 0, op |-> "none", item |-> NoItem,
   moves |-> FALSE, base |-> 0, snap |-> NoRow, st |-> NoState, rev |-> 0,
   ack |-> "none", skip |-> {}, kn |-> {}, todo |-> {}, last |-> 0, more |-> FALSE,
   out |-> Silent, status |-> 0]

NewDevice ==
  [key |-> 0, first |-> 0, copy |-> [i \in Items |-> 0], made |-> {}, dropped |-> {}]

\* Shapes: handlers only work on records and items that exist (syncCollection).
TypeOK ==
  /\ row \in [Items -> Row]
  /\ fresh \in Nat
  /\ feed \in Seq(Change)
  /\ low \in Nat
  /\ due \subseteq Change
  /\ state \in [Devices -> SyncState]
  /\ known \in [Devices -> SUBSET Items]
  /\ dev \in [Devices -> Device]
  /\ req \in [Slots -> Handler]
  /\ wiping \subseteq Devices
  /\ faults \in Nat

Init ==
  /\ row = [i \in Items |-> NoRow]
  /\ fresh = 0
  /\ feed = <<>>
  /\ low = 0
  /\ due = {}
  /\ state = [d \in Devices |-> NoState]
  /\ known = [d \in Devices |-> {}]
  /\ dev = [d \in Devices |-> NewDevice]
  /\ req = [h \in Slots |-> Idle]
  /\ wiping = {}
  /\ faults = 0

----------------------------------------------------------------------------
\* The change feed

Live(i) == row[i].at = "here" /\ ~row[i].deleted

\* The records ChangesSince finds after a position.
After(s) == {t \in DOMAIN feed : t > s /\ t > low}

AddChange(c) == feed' = Append(feed, c)

\* Bounds on the writers: room in the feed, and a content left.
Room == Len(feed) + Cardinality(due) < MaxSeq
Writable == fresh < MaxRev

----------------------------------------------------------------------------
\* Writers other than a Sync upload.  Each updates the row and owes the feed a
\* record, which Record appends.

Owe(i, k) ==
  LET c == [item |-> i, kind |-> k, by |-> "server"]
  IN  /\ Room
      /\ c \notin due
      /\ due' = due \cup {c}

\* deliver.ToUser, the inbound API, APPEND, webmail "new event/contact".
Deliver(i) ==
  /\ row[i].at = "nowhere"
  /\ Writable
  /\ Owe(i, "add")
  /\ fresh' = fresh + 1
  /\ row' = [row EXCEPT ![i] = [at |-> "here", deleted |-> FALSE, rev |-> fresh']]
  /\ UNCHANGED <<feed, low, state, known, dev, req, wiping, faults>>

\* Webmail marks read or edits, IMAP STORE, an iMIP reply: to a row still as it was
\* read, ...
Edit(i) ==
  /\ Live(i)
  /\ Writable
  /\ Owe(i, "change")
  /\ fresh' = fresh + 1
  /\ row' = [row EXCEPT ![i].rev = fresh']
  /\ UNCHANGED <<feed, low, state, known, dev, req, wiping, faults>>

\* ... or, where all its columns are written back (webmail edit, STORE), to one that
\* was deleted or moved since it was read: that is undone.
Rewrite(i) ==
  /\ row[i].at # "nowhere"
  /\ ~Live(i)
  /\ Writable
  /\ Owe(i, "change")
  /\ fresh' = fresh + 1
  /\ row' = [row EXCEPT ![i] = [at |-> "here", deleted |-> FALSE, rev |-> fresh']]
  /\ UNCHANGED <<feed, low, state, known, dev, req, wiping, faults>>

\* EmptyFolderContents, IMAP \Deleted, webmail delete.
Remove(i) ==
  /\ Live(i)
  /\ Owe(i, "delete")
  /\ row' = [row EXCEPT ![i].deleted = TRUE]
  /\ UNCHANGED <<fresh, feed, low, state, known, dev, req, wiping, faults>>

\* MoveItems and IMAP MOVE, out of the folder.
MoveAway(i) ==
  /\ Class = "Email"
  /\ row[i].at = "here"
  /\ Owe(i, "delete")
  /\ row' = [row EXCEPT ![i].at = "away"]
  /\ UNCHANGED <<fresh, feed, low, state, known, dev, req, wiping, faults>>

\* ... and into it.
MoveBack(i) ==
  /\ Class = "Email"
  /\ row[i].at = "away"
  /\ Owe(i, "add")
  /\ row' = [row EXCEPT ![i].at = "here"]
  /\ UNCHANGED <<fresh, feed, low, state, known, dev, req, wiping, faults>>

Record(c) ==
  /\ c \in due
  /\ due' = due \ {c}
  /\ AddChange(c)
  /\ UNCHANGED <<row, fresh, low, state, known, dev, req, wiping, faults>>

----------------------------------------------------------------------------
\* The device asks

Waiting(d) == \E t \in Tries : req[<<d, t>>].live

\* One command with the request, or none.  deletesAsMoves is the device's choice.
SendSync(d, t, op, i, moves) ==
  /\ req[<<d, t>>].pc = "idle"
  /\ ~Waiting(d)
  /\ (i = NoItem) <=> (op \in {"none", "Add"})
  /\ i \in Items => dev[d].copy[i] # 0
  /\ op # "none" => op \in Uploads /\ dev[d].key \in 1 .. MaxKey /\ Room
  /\ op \in {"Add", "Change"} => Writable
  /\ moves => op = "Delete" /\ Class = "Email"
  /\ req' = [req EXCEPT ![<<d, t>>] =
               [Idle EXCEPT !.pc = "start", !.live = TRUE, !.key = dev[d].key, !.op = op,
                            !.item = i, !.moves = moves,
                            !.base = IF i \in Items THEN dev[d].copy[i] ELSE 0]]
  /\ UNCHANGED <<row, fresh, feed, low, due, state, known, dev, wiping, faults>>

\* The device stops waiting; the handler does not notice and runs to its end.
GiveUp(h) ==
  /\ "lose" \in Env
  /\ faults < MaxFaults
  /\ req[h].live
  /\ req' = [req EXCEPT ![h].live = FALSE]
  /\ faults' = faults + 1
  /\ UNCHANGED <<row, fresh, feed, low, due, state, known, dev, wiping>>

----------------------------------------------------------------------------
\* syncCollection

\* The first statement after the key check.
Proceed(op) == IF op = "none" THEN "known" ELSE "load"

\* An initial sync drops the device's state, ...
Restart(h) ==
  /\ req[h].pc = "start"
  /\ req[h].key = 0
  /\ state' = [state EXCEPT ![h[1]] = NoState]
  /\ req' = [req EXCEPT ![h].pc = "forget"]
  /\ UNCHANGED <<row, fresh, feed, low, due, known, dev, wiping, faults>>

ForgetAllItemsSkipped(h) ==
  /\ req[h].pc = "forget"
  /\ req' = [req EXCEPT ![h].pc = "begin"]
  /\ UNCHANGED <<row, fresh, feed, low, due, state, known, dev, wiping, faults>>

\* ... forgets what it had ...
ForgetAllItems(h) ==
  /\ req[h].pc = "forget"
  /\ known' = [known EXCEPT ![h[1]] = {}]
  /\ req' = [req EXCEPT ![h].pc = "begin"]
  /\ UNCHANGED <<row, fresh, feed, low, due, state, dev, wiping, faults>>

\* ... and starts at seq 0 with key 1.
Begin(h) ==
  LET st == [key |-> 1, seq |-> 0]
  IN  /\ req[h].pc = "begin"
      /\ state' = [state EXCEPT ![h[1]] = st]
      /\ req' = [req EXCEPT ![h].pc = Proceed(req[h].op), ![h].st = st]
      /\ UNCHANGED <<row, fresh, feed, low, due, known, dev, wiping, faults>>

Continue(h) ==
  LET d == h[1]
  IN  /\ req[h].pc = "start"
      /\ req[h].key # 0
      /\ state[d].key = req[h].key
      /\ req' = [req EXCEPT ![h].pc = Proceed(req[h].op), ![h].st = state[d]]
      /\ UNCHANGED <<row, fresh, feed, low, due, state, known, dev, wiping, faults>>

RefuseAsError(h) ==
  /\ req[h].pc = "start" /\ req[h].key # 0 /\ state[h[1]].key # req[h].key
  /\ req' = [req EXCEPT ![h].pc = "reply", ![h].status = 5]
  /\ UNCHANGED <<row, fresh, feed, low, due, state, known, dev, wiping, faults>>

\* Another key than the saved one, or no saved one: Status 3.
Refuse(h) ==
  /\ req[h].pc = "start"
  /\ req[h].key # 0
  /\ state[h[1]].key # req[h].key
  /\ req' = [req EXCEPT ![h].pc = "reply", ![h].status = 3]
  /\ UNCHANGED <<row, fresh, feed, low, due, state, known, dev, wiping, faults>>

\* applyClientCommands reads the row and checks its folder, not its deleted flag.
\* Add has no row to read.
Load(h) ==
  LET r == req[h]
  IN  /\ r.pc = "load"
      /\ r.op # "Fetch"
      /\ req' = [req EXCEPT
           ![h] = IF r.op = "Add" THEN [r EXCEPT !.pc = "write"]
                  ELSE IF row[r.item].at = "here"
                         THEN [r EXCEPT !.pc = "write", !.snap = row[r.item]]
                         ELSE [r EXCEPT !.pc = "known", !.ack = "gone"]]
      /\ UNCHANGED <<row, fresh, feed, low, due, state, known, dev, wiping, faults>>

\* Fetch writes nothing: the item is in the response, if it is there.
LoadFetch(h) ==
  LET r == req[h]
  IN  /\ r.pc = "load"
      /\ r.op = "Fetch"
      /\ req' = [req EXCEPT ![h].pc = "known", ![h].snap = row[r.item],
                            ![h].ack = IF Live(r.item) THEN "ok" ELSE "gone"]
      /\ UNCHANGED <<row, fresh, feed, low, due, state, known, dev, wiping, faults>>

\* The row cannot be read: answered as if it were not there.
LoadFails(h) ==
  /\ "dberror" \in Env
  /\ faults < MaxFaults
  /\ req[h].pc = "load"
  /\ req[h].op # "Add"
  /\ req' = [req EXCEPT ![h].pc = "known", ![h].ack = "gone"]
  /\ faults' = faults + 1
  /\ UNCHANGED <<row, fresh, feed, low, due, state, known, dev, wiping>>

WriteAdd(h) ==
  /\ req[h].pc = "write"
  /\ req[h].op = "Add"
  /\ \E i \in Items :
       /\ row[i].at = "nowhere"
       /\ fresh' = fresh + 1
       /\ row' = [row EXCEPT ![i] = [at |-> "here", deleted |-> FALSE, rev |-> fresh']]
       /\ req' = [req EXCEPT ![h].pc = "log", ![h].item = i, ![h].rev = fresh']
  /\ UNCHANGED <<feed, low, due, state, known, dev, wiping, faults>>

\* The insert fails (here: no id is left): the Add is answered with Status 6.
WriteAddFails(h) ==
  /\ req[h].pc = "write"
  /\ req[h].op = "Add"
  /\ \A i \in Items : row[i].at # "nowhere"
  /\ req' = [req EXCEPT ![h].pc = "known", ![h].ack = "err"]
  /\ UNCHANGED <<row, fresh, feed, low, due, state, known, dev, wiping, faults>>

\* UpdateMessage writes every column of the row read by Load; UpdateContact and
\* UpdateEvent write what the device sent, with deleted = 0.
WriteChange(h) ==
  /\ req[h].pc = "write"
  /\ req[h].op = "Change"
  /\ fresh' = fresh + 1
  /\ row' = [row EXCEPT ![req[h].item] =
               [at |-> "here",
                deleted |-> IF Class = "Email" THEN req[h].snap.deleted ELSE FALSE,
                rev |-> fresh']]
  /\ req' = [req EXCEPT ![h].pc = "log", ![h].rev = fresh']
  /\ UNCHANGED <<feed, low, due, state, known, dev, wiping, faults>>

\* deleteItem: a message is moved to the trash or flagged, a contact or event is
\* written back as it was read with deleted = 1.
WriteDelete(h) ==
  /\ req[h].pc = "write"
  /\ req[h].op = "Delete"
  /\ row' = [row EXCEPT ![req[h].item] =
               IF Class # "Email" THEN [req[h].snap EXCEPT !.deleted = TRUE]
               ELSE IF req[h].moves THEN [@ EXCEPT !.at = "away"]
               ELSE [@ EXCEPT !.deleted = TRUE]]
  /\ req' = [req EXCEPT ![h].pc = "log"]
  /\ UNCHANGED <<fresh, feed, low, due, state, known, dev, wiping, faults>>

KindOfUnknown(op) == IF op = "Delete" THEN "softdelete" ELSE "change"
KindOf(op) == CASE op = "Add" -> "add" [] op = "Change" -> "change" [] OTHER -> "delete"

\* The record of the device's own command is skipped in this response.
Log(h) ==
  /\ req[h].pc = "log"
  /\ AddChange([item |-> req[h].item, kind |-> KindOf(req[h].op), by |-> h[1]])
  /\ req' = [req EXCEPT ![h].pc = "known", ![h].ack = "ok", ![h].skip = {Len(feed')}]
  /\ UNCHANGED <<row, fresh, low, due, state, known, dev, wiping, faults>>

\* The statement fails: Status 6, and nothing was written.
WriteFails(h) ==
  /\ "dberror" \in Env
  /\ faults < MaxFaults
  /\ req[h].pc = "write"
  /\ req' = [req EXCEPT ![h].pc = "known", ![h].ack = "err"]
  /\ faults' = faults + 1
  /\ UNCHANGED <<row, fresh, feed, low, due, state, known, dev, wiping>>

\* AddChange fails: only an Add is answered with Status 6; the row stays written.
LogFails(h) ==
  /\ "dberror" \in Env
  /\ faults < MaxFaults
  /\ req[h].pc = "log"
  /\ req' = [req EXCEPT ![h].pc = "known", ![h].ack = IF req[h].op = "Add" THEN "err" ELSE "ok"]
  /\ faults' = faults + 1
  /\ UNCHANGED <<row, fresh, feed, low, due, state, known, dev, wiping>>

----------------------------------------------------------------------------
\* serverChanges

KnownItems(h) ==
  /\ req[h].pc = "known"
  /\ req' = [req EXCEPT ![h].pc = "fetch", ![h].kn = known[h[1]]]
  /\ UNCHANGED <<row, fresh, feed, low, due, state, known, dev, wiping, faults>>

\* At most window*4 + len(skipped) records are read.
Batch(st, skip) ==
  {s \in After(st.seq) :
     Cardinality({t \in After(st.seq) : t <= s}) <= Window * 4 + Cardinality(skip)}

\* The distinct items the loop has collected when it reaches record s.
Collected(batch, skip, s) == {feed[t].item : t \in {u \in batch \ skip : u < s}}

\* The loop stops at the first record that is not skipped once the window is full.
Taken(batch, skip) ==
  {s \in batch : \A t \in batch \ skip :
                   t <= s => Cardinality(Collected(batch, skip, t)) < Window}

\* One entry per item, at its first record.
Firsts(taken, skip) ==
  {s \in taken \ skip : \A t \in taken \ skip : t < s => feed[t].item # feed[s].item}

FetchFromZero(h) ==
  LET r == req[h]
      taken == Taken(Batch(r.st, r.skip), r.skip)
  IN  /\ r.pc = "fetch"
      /\ \E last \in taken \cup {0} :
           /\ \A s \in taken : s <= last
           /\ req' = [req EXCEPT ![h].pc = "emit", ![h].todo = Firsts(taken, r.skip),
                                 ![h].last = last]
      /\ UNCHANGED <<row, fresh, feed, low, due, state, known, dev, wiping, faults>>

FetchToEnd(h) ==
  LET r == req[h]
      taken == Taken(Batch(r.st, r.skip), r.skip)
  IN  /\ r.pc = "fetch"
      /\ req' = [req EXCEPT ![h].pc = "emit", ![h].todo = Firsts(taken, r.skip),
                            ![h].last = Len(feed)]
      /\ UNCHANGED <<row, fresh, feed, low, due, state, known, dev, wiping, faults>>

Fetch(h) ==
  LET r == req[h]
      taken == Taken(Batch(r.st, r.skip), r.skip)
  IN  /\ r.pc = "fetch"
      /\ \E last \in taken \cup {r.st.seq} :
           /\ \A s \in taken : s <= last
           /\ req' = [req EXCEPT ![h].pc = "emit", ![h].todo = Firsts(taken, r.skip),
                                 ![h].last = last]
      /\ UNCHANGED <<row, fresh, feed, low, due, state, known, dev, wiping, faults>>

\* The records of the batch that are about the same item as record s.
SameItem(r, s) == {t \in s .. r.last : t \notin r.skip /\ feed[t].item = feed[s].item}

ItemCommandFilters(r, i, k) ==
  IF k # "delete" /\ Live(i)
    THEN IF Class = "Email" /\ i \in Old
           THEN NoCommand
           ELSE [name |-> IF i \in r.kn THEN "Change" ELSE "Add", rev |-> row[i].rev]
    ELSE IF i \in r.kn THEN [name |-> "Delete", rev |-> 0] ELSE NoCommand

\* itemCommand: the command for item i whose last record in the batch is of kind k.
\* The row is loaded now, unless the record says delete.
ItemCommand(r, i, k) ==
  IF k # "delete" /\ Live(i)
    THEN IF r.key = 0 /\ Class = "Email" /\ i \in Old
           THEN NoCommand
           ELSE [name |-> IF i \in r.kn THEN "Change" ELSE "Add", rev |-> row[i].rev]
    ELSE IF i \in r.kn THEN [name |-> "Delete", rev |-> 0] ELSE NoCommand

RememberForgets(items, i, name) == IF name = "Delete" THEN items \ {i} ELSE items

\* MarkItemKnown, ForgetItem.
Remember(items, i, name) ==
  CASE name \in {"Add", "Change"} -> items \cup {i}
    [] name = "Delete" -> items \ {i}
    [] OTHER -> items

\* Record s is the next to be answered, t the last one about its item.
Turn(r, s, t) == (\A u \in r.todo : s <= u) /\ (\A u \in SameItem(r, s) : u <= t)

Emit(h) ==
  LET r == req[h]
  IN  /\ r.pc = "emit"
      /\ \E s \in r.todo : \E t \in SameItem(r, s) :
           LET i == feed[s].item
               c == ItemCommand(r, i, feed[t].kind)
           IN  /\ Turn(r, s, t)
               /\ known' = [known EXCEPT ![h[1]] = Remember(@, i, c.name)]
               /\ req' = [req EXCEPT ![h].todo = @ \ {s}, ![h].out[i] = c]
      /\ UNCHANGED <<row, fresh, feed, low, due, state, dev, wiping, faults>>

\* MarkItemKnown or ForgetItem fails: the command is sent all the same.
MarkFails(h) ==
  LET r == req[h]
  IN  /\ "dberror" \in Env
      /\ faults < MaxFaults
      /\ r.pc = "emit"
      /\ \E s \in r.todo : \E t \in SameItem(r, s) :
           LET i == feed[s].item
               c == ItemCommand(r, i, feed[t].kind)
           IN  /\ Turn(r, s, t)
               /\ c # NoCommand
               /\ req' = [req EXCEPT ![h].todo = @ \ {s}, ![h].out[i] = c]
      /\ faults' = faults + 1
      /\ UNCHANGED <<row, fresh, feed, low, due, state, known, dev, wiping>>

\* The item cannot be loaded: it is passed over.
EmitFails(h) ==
  /\ "dberror" \in Env
  /\ faults < MaxFaults
  /\ req[h].pc = "emit"
  /\ \E s \in req[h].todo :
       /\ \A u \in req[h].todo : s <= u
       /\ req' = [req EXCEPT ![h].todo = @ \ {s}]
  /\ faults' = faults + 1
  /\ UNCHANGED <<row, fresh, feed, low, due, state, known, dev, wiping>>

\* HasChangesAfter, the last read of serverChanges.
More(h) ==
  /\ req[h].pc = "emit"
  /\ req[h].todo = {}
  /\ req' = [req EXCEPT ![h].pc = "save", ![h].more = After(req[h].last) # {}]
  /\ UNCHANGED <<row, fresh, feed, low, due, state, known, dev, wiping, faults>>

\* The key moves only when the position did, a command was applied, or more waits.
NextKey(r) ==
  IF r.last # r.st.seq \/ r.ack # "none" \/ r.more THEN r.st.key + 1 ELSE r.st.key

Save(h) ==
  LET st == [key |-> NextKey(req[h]), seq |-> req[h].last]
  IN  /\ req[h].pc = "save"
      /\ state' = [state EXCEPT ![h[1]] = st]
      /\ req' = [req EXCEPT ![h].pc = "reply", ![h].st = st, ![h].status = 1]
      /\ UNCHANGED <<row, fresh, feed, low, due, known, dev, wiping, faults>>

\* A statement that is not about one item fails: Status 5, and neither key nor
\* commands are sent.
SyncFails(h) ==
  /\ "dberror" \in Env
  /\ faults < MaxFaults
  /\ \/ req[h].pc \in {"start", "forget", "begin", "known", "fetch", "save"}
     \/ req[h].pc = "emit" /\ req[h].todo = {}
  /\ req' = [req EXCEPT ![h].pc = "reply", ![h].status = 5, ![h].out = Silent]
  /\ faults' = faults + 1
  /\ UNCHANGED <<row, fresh, feed, low, due, state, known, dev, wiping>>

----------------------------------------------------------------------------
\* The device receives

\* What the device holds of i after its own command was acknowledged: it has the
\* content it fetched or wrote, unless the server merged that into a row the device
\* had not seen yet.
Acknowledged(v, r, i) ==
  IF r.item # i THEN v
  ELSE CASE r.op = "Add" /\ r.ack = "ok" -> r.rev
         [] r.op = "Change" /\ r.ack = "ok" ->
              IF Class = "PIM" \/ r.snap.rev = r.base THEN r.rev ELSE v
         [] r.op = "Fetch" /\ r.ack = "ok" -> r.snap.rev
         [] r.op = "Delete" /\ r.ack \in {"ok", "gone"} -> 0
         [] OTHER -> v

\* A Change of an item the device does not hold has nothing to change.
Applied(v, c) ==
  CASE c.name = "Add" -> c.rev
    [] c.name = "Change" /\ v # 0 -> c.rev
    [] c.name = "Delete" -> 0
    [] OTHER -> v

Told(r) == {i \in Items : r.out[i].name # "none"}
Made(r) == {i \in Items : r.item = i /\ r.op = "Add" /\ r.ack = "ok"}
Deleted(r) == {i \in Items : r.item = i /\ r.op = "Delete" /\ r.ack \in {"ok", "gone"}}

Updated(v, r) ==
  [key |-> r.st.key,
   first |-> IF r.key = 0 THEN r.last ELSE v.first,
   copy |-> [i \in Items |-> Applied(Acknowledged(v.copy[i], r, i), r.out[i])],
   made |-> ((v.made \cup Made(r)) \ Deleted(r)) \ Told(r),
   dropped |-> (v.dropped \cup (Deleted(r) \ v.made))
                 \ {i \in Items : r.out[i].name \in {"Add", "Delete"}}]

Receive(h) ==
  LET d == h[1]
  IN  /\ req[h].pc = "reply"
      /\ dev' = [dev EXCEPT ![d] =
                   IF ~req[h].live \/ req[h].status = 5 THEN @
                   ELSE IF req[h].status = 3 THEN NewDevice
                   ELSE Updated(@, req[h])]
      /\ req' = [req EXCEPT ![h] = Idle]
      /\ UNCHANGED <<row, fresh, feed, low, due, state, known, wiping, faults>>

----------------------------------------------------------------------------
\* The administrator and the machine

\* PruneChanges: up to the lowest position of any device with a sync state.
Prune ==
  /\ "prune" \in Env
  /\ \E d \in Devices :
       /\ state[d].key # 0
       /\ \A e \in Devices : state[e].key # 0 => state[d].seq <= state[e].seq
       /\ state[d].seq > low
       /\ low' = state[d].seq
  /\ UNCHANGED <<row, fresh, feed, due, state, known, dev, req, wiping, faults>>

\* ResetDeviceSync, also the first half of DeleteDevice: the items, then the states.
ResetItems(d) ==
  /\ "reset" \in Env
  /\ faults < MaxFaults
  /\ known' = [known EXCEPT ![d] = {}]
  /\ wiping' = wiping \cup {d}
  /\ faults' = faults + 1
  /\ UNCHANGED <<row, fresh, feed, low, due, state, dev, req>>

ResetStates(d) ==
  /\ d \in wiping
  /\ state' = [state EXCEPT ![d] = NoState]
  /\ wiping' = wiping \ {d}
  /\ UNCHANGED <<row, fresh, feed, low, due, known, dev, req, faults>>

\* The process dies: handlers, writers and resets stop where they are.
Crash ==
  /\ "crash" \in Env
  /\ faults < MaxFaults
  /\ due' = {}
  /\ req' = [h \in Slots |-> Idle]
  /\ wiping' = {}
  /\ faults' = faults + 1
  /\ UNCHANGED <<row, fresh, feed, low, state, known, dev>>

----------------------------------------------------------------------------
Handle(h) ==
  \/ Restart(h) \/ ForgetAllItems(h) \/ Begin(h) \/ Continue(h) \/ Refuse(h)
  \/ Load(h) \/ LoadFetch(h) \/ WriteAdd(h) \/ WriteAddFails(h) \/ WriteChange(h)
  \/ WriteDelete(h) \/ Log(h) \/ KnownItems(h) \/ Fetch(h) \/ Emit(h) \/ More(h) \/ Save(h)

Fails(h) ==
  SyncFails(h) \/ LoadFails(h) \/ WriteFails(h) \/ LogFails(h) \/ EmitFails(h) \/ MarkFails(h)

Poll(d) == \E t \in Tries : SendSync(d, t, "none", NoItem, FALSE)

Next ==
  \/ \E i \in Items : Deliver(i) \/ Edit(i) \/ Rewrite(i) \/ Remove(i) \/ MoveAway(i) \/ MoveBack(i)
  \/ \E c \in due : Record(c)
  \/ \E d \in Devices, t \in Tries, op \in Ops, i \in Items \cup {NoItem}, m \in BOOLEAN :
       SendSync(d, t, op, i, m)
  \/ \E h \in Slots : Handle(h) \/ Receive(h) \/ GiveUp(h) \/ Fails(h)
  \/ \E d \in Devices : ResetItems(d) \/ ResetStates(d)
  \/ Prune
  \/ Crash

Spec == Init /\ [][Next]_vars

\* A started handler or writer runs on (unless the process dies), an answer that
\* is not lost arrives, and a device polls again.  Nothing forces a user, an
\* administrator or a fault to act.
Fairness ==
  /\ WF_vars(\E c \in due : Record(c))
  /\ \A h \in Slots : WF_vars(Handle(h)) /\ WF_vars(Receive(h))
  /\ \A d \in Devices : WF_vars(Poll(d))

FairSpec == Spec /\ Fairness

----------------------------------------------------------------------------
\* Properties

\* No handler of the device is running, and the key it holds is the saved one.
InStep(d) ==
  /\ \A t \in Tries : req[<<d, t>>].pc = "idle"
  /\ dev[d].key # 0
  /\ dev[d].key = state[d].key

\* A record of i will still reach the device: it lies after the saved position,
\* or the statement that appends it is still to come.
Pending(d, i) ==
  \/ \E s \in After(state[d].seq) : feed[s].item = i
  \/ \E c \in due : c.item = i
  \/ \E h \in Slots : req[h].pc = "log" /\ req[h].item = i

\* What the device was last told about i is that it was deleted: nothing but its own
\* records, which it is not told of, follows the record of a deletion.
ToldDeleted(d, i) ==
  \E s \in DOMAIN feed :
    /\ feed[s].item = i /\ feed[s].kind = "delete"
    /\ \A t \in DOMAIN feed : feed[t].item = i /\ t > s => feed[t].by = d

\* There were records of i, and all have been removed from the feed (PruneChanges).
Pruned(i) ==
  LET records == {s \in DOMAIN feed : feed[s].item = i}
  IN  records # {} /\ \A s \in records : s <= low

\* No update is lost (syncCollection, serverChanges): when a device's key is the
\* saved one and nothing about an item is still to come, the device holds the
\* item's current content.  Excepted are items it was last told are deleted, items
\* it deleted itself and that came back, old items whose only records are those the
\* initial sync read, where its filter left them out, and items it does not hold
\* that have no record left: an initial sync is served from the feed alone, so a device
\* that starts after PruneChanges never gets those, against the comment of PruneChanges
\* ("nothing a client may still need is removed", store/maintenance.go:3-5).
NothingLost ==
  \A d \in Devices, i \in Items :
    InStep(d) /\ Live(i) /\ ~Pending(d, i) =>
      \/ dev[d].copy[i] = row[i].rev
      \/ ToldDeleted(d, i)
      \/ i \in dev[d].dropped
      \/ i \in Old /\ \A s \in DOMAIN feed : feed[s].item = i => s <= dev[d].first
      \/ dev[d].copy[i] = 0 /\ Pruned(i)

\* No item outlives its deletion (itemCommand, ForgetItem): a device in step that
\* still holds an item deleted or moved elsewhere is going to be told, unless the
\* device created the item and the server never announced it.
NoZombie ==
  \A d \in Devices, i \in Items :
    InStep(d) /\ ~Live(i) /\ dev[d].copy[i] # 0 => Pending(d, i) \/ i \in dev[d].made

\* sync_items is what the device holds (itemCommand, MarkItemKnown), apart from the
\* items the device itself created or deleted.
KnownMatches ==
  \A d \in Devices :
    InStep(d) =>
      known[d] = ({i \in Items : dev[d].copy[i] # 0} \ dev[d].made) \cup dev[d].dropped

\* Between two initial syncs a device's saved position never moves back, nor does
\* its key (Save).
NeverBack ==
  [][\A d \in Devices :
       state'[d].key > 1 /\ state[d].key # 0 =>
         state'[d].seq >= state[d].seq /\ state'[d].key >= state[d].key]_vars

\* A device that keeps polling gets its key accepted and ends up caught up, again
\* and again, whatever was lost, refused or interrupted on the way.
CatchesUp ==
  \A d \in Devices : []<>(InStep(d) /\ After(state[d].seq) = {})

=============================================================================
