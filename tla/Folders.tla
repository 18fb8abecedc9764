------------------------------ MODULE Folders ------------------------------
(***************************************************************************)
(* The folder hierarchy of one account and the devices that follow it      *)
(* (eas/folders.go, store/folders.go; imap/mailbox.go CREATE, DELETE and   *)
(* RENAME; the calendars of webmail in api/user.go, api/me.go and          *)
(* api/calendars.go; junkFolder and DeleteSubFolders in eas/misc.go).      *)
(*                                                                         *)
(* Every change of a folder gives it the next value of the account's       *)
(* folder_seq in the same transaction, and a device's SyncKey is a value   *)
(* of that counter.  FolderSync answers with the counter as it was when    *)
(* the request was authenticated and with the folders as they are later.   *)
(* FolderCreate, FolderDelete and FolderUpdate read the counter again      *)
(* after their change, and that becomes the device's key: what others      *)
(* changed between its old key and this one is never told (jumped).        *)
(***************************************************************************)
EXTENDS Naturals, Sequences

CONSTANTS
  Devices, NoDev,
  Handlers,     \* requests that can be in progress
  Names,
  InboxName, CalendarName, SpamName,
  Types,        \* the folder types devices create: 1, 8, 12, ...
  MaxFolders,   \* bound: folders
  MaxCmds,      \* bound: commands that change the hierarchy
  MaxFaults     \* bound: lost answers, failed statements, crashes

ASSUME FoldersAssumption ==
  /\ NoDev \notin Devices
  /\ {InboxName, CalendarName, SpamName} \subseteq Names /\ InboxName # CalendarName
  /\ Types \subseteq Nat
  /\ MaxFolders \in Nat /\ MaxFolders >= 2 /\ MaxCmds \in Nat /\ MaxFaults \in Nat

VARIABLES
  folders,    \* the folders table; the id of a folder is its index
  folderSeq,  \* users.folder_seq
  public,     \* folders with calendar_public = 1
  dev,        \* what every device holds
  req,        \* requests in progress
  cmds, faults

vars == <<folders, folderSeq, public, dev, req, cmds, faults>>

Ids == 1..MaxFolders
Folder == [parent : Nat, name : Names, type : Nat, seq : Nat, deleted : BOOLEAN]
Entry == [parent : Nat, name : Names]
NoEntry == [parent |-> 0, name |-> "none"]

\* jumped: folders changed by others between the device's old key and the key it got with
\* the answer to a change of its own.
Device == [key : Nat, view : [Ids -> Entry \cup {NoEntry}], jumped : SUBSET Ids]

\* seq is user.FolderSeq as authentication read it, or the key read again at the end; was
\* is the folder as last read or written here, clean says nobody wrote it in between.
Request == [cmd : {"none", "sync", "create", "delete", "update"},
            pc : {"free", "list", "write", "reparent", "key", "answer"},
            dev : Devices \cup {NoDev}, since : Nat, seq : Nat,
            id : Nat, more : SUBSET Ids, parent : Nat, name : Names, type : Nat,
            was : Folder, clean : BOOLEAN, list : Seq(Folder)]

\* Shapes; and only calendars are ever public, whatever handlers race.
TypeOK ==
  /\ folders \in Seq(Folder) /\ Len(folders) \in 2..MaxFolders
  /\ folderSeq \in Nat
  /\ public \subseteq {f \in DOMAIN folders : folders[f].type = 8}
  /\ dev \in [Devices -> Device]
  /\ req \in [Handlers -> Request]
  /\ cmds \in Nat /\ faults \in Nat

(***************************************************************************)
(* store/folders.go.                                                       *)
(***************************************************************************)

IsSystemFolder(type) == type \in {2, 3, 4, 5, 6, 8, 9, 12}

Live(f) == f \in DOMAIN folders /\ ~folders[f].deleted
FolderByName(f, name) == Live(f) /\ folders[f].name = name
FolderByType(f, type) == Live(f) /\ folders[f].type = type

\* idx_folders_unique covers tombstones too: the name of a deleted folder stays taken.
Duplicate(id, parent, name) ==
  \E f \in DOMAIN folders : f # id /\ folders[f].parent = parent /\ folders[f].name = name

NewFolder(parent, name, type, seq) ==
  [parent |-> parent, name |-> name, type |-> type, seq |-> seq, deleted |-> FALSE]

TouchKeepsSeq(id, row) ==
  /\ folderSeq' = folderSeq + 1
  /\ folders' = [folders EXCEPT ![id] = [row EXCEPT !.seq = folders[id].seq]]

\* touchFolder: the change and the next number, in one transaction.
Touch(id, row) ==
  /\ folderSeq' = folderSeq + 1
  /\ folders' = [folders EXCEPT ![id] = [row EXCEPT !.seq = folderSeq + 1]]

(***************************************************************************)
(* Requests.                                                               *)
(***************************************************************************)

Inbox == NewFolder(0, InboxName, 2, 1)
Free == [cmd |-> "none", pc |-> "free", dev |-> NoDev, since |-> 0, seq |-> 0, id |-> 0,
         more |-> {}, parent |-> 0, name |-> InboxName, type |-> 0, was |-> Inbox,
         clean |-> TRUE, list |-> <<>>]

\* CreateUser provisions the default folders; two of them stand for all.
Init ==
  /\ folders = <<Inbox, NewFolder(0, CalendarName, 8, 2)>>
  /\ folderSeq = 2
  /\ public = {}
  /\ dev = [d \in Devices |-> [key |-> 0, view |-> [f \in Ids |-> NoEntry], jumped |-> {}]]
  /\ req = [h \in Handlers |-> Free]
  /\ cmds = 0 /\ faults = 0

\* A device sends one request about the hierarchy at a time.
Waits(d) == \E h \in Handlers : req[h].dev = d

RefusedUnder(since, seq) == since < seq
Refused(since, seq) == since > seq

FolderSync(d, h) ==
  /\ ~Waits(d) /\ req[h].pc = "free"
  /\ req' = [req EXCEPT ![h] = [Free EXCEPT
       !.cmd = "sync", !.dev = d, !.since = dev[d].key, !.seq = folderSeq,
       !.pc = IF Refused(dev[d].key, folderSeq) THEN "answer" ELSE "list"]]
  /\ UNCHANGED <<folders, folderSeq, public, dev, cmds, faults>>

Begin(h, r) ==
  /\ req[h].pc = "free"
  /\ cmds < MaxCmds
  /\ cmds' = cmds + 1
  /\ req' = [req EXCEPT ![h] = r]
  /\ UNCHANGED <<folders, folderSeq, public, dev, faults>>

Creating(d, parent, name, type) ==
  [Free EXCEPT !.cmd = "create", !.pc = "write", !.dev = d, !.parent = parent, !.name = name,
               !.type = type]

Deleting(d, id, more) ==
  [Free EXCEPT !.cmd = "delete", !.pc = "write", !.dev = d, !.id = id, !.more = more,
               !.was = folders[id]]

Updating(d, id, parent, name) ==
  [Free EXCEPT !.cmd = "update", !.pc = "write", !.dev = d, !.id = id, !.parent = parent,
               !.name = name, !.was = folders[id]]

FolderCreate(d, h, parent, name, type) ==
  /\ ~Waits(d)
  /\ parent = 0 \/ Live(parent)
  /\ Begin(h, Creating(d, parent, name, type))

\* The device names folders it shows; deleted and system folders are refused.
Changeable(d, id) == dev[d].view[id] # NoEntry /\ Live(id) /\ ~IsSystemFolder(folders[id].type)

FolderDelete(d, h, id) ==
  /\ ~Waits(d)
  /\ Changeable(d, id)
  /\ Begin(h, Deleting(d, id, {}))

\* Any parent is taken, one that is deleted or the folder itself included.
FolderUpdate(d, h, id, parent, name) ==
  /\ ~Waits(d)
  /\ Changeable(d, id)
  /\ dev[d].view[id] # [parent |-> parent, name |-> name]
  /\ Begin(h, Updating(d, id, parent, name))

CreateMailbox(h, name) ==
  /\ ~\E f \in Ids : FolderByName(f, name)
  /\ Begin(h, Creating(NoDev, 0, name, 1))

\* The mailbox found is the first one of that name; only the inbox is protected.
FindFolder(f) == Live(f) /\ \A g \in 1..(f - 1) : ~FolderByName(g, folders[f].name)

DeleteMailbox(h, f) ==
  /\ FindFolder(f) /\ folders[f].type # 2
  /\ Begin(h, Deleting(NoDev, f, {}))

RenameMailbox(h, f, name) ==
  /\ FindFolder(f) /\ folders[f].type # 2
  /\ Begin(h, Updating(NoDev, f, folders[f].parent, name))

CreateCalendar(h, name) ==
  /\ ~\E f \in Ids : FolderByName(f, name)
  /\ Begin(h, Creating(NoDev, 0, name, 8))

RenameCalendar(h, f, name) ==
  /\ FolderByType(f, 8)
  /\ Begin(h, Updating(NoDev, f, folders[f].parent, name))

\* MoveItems without a destination.
JunkFolder(h) ==
  /\ ~\E f \in Ids : FolderByType(f, 12)
  /\ Begin(h, Creating(NoDev, 0, SpamName, 12))

\* EmptyFolderContents with DeleteSubFolders: children of any type, one after the other.
DeleteSubFolders(h, parent) ==
  LET children == {f \in DOMAIN folders : Live(f) /\ folders[f].parent = parent} IN
  /\ Live(parent)
  /\ \E id \in children : Begin(h, Deleting(NoDev, id, children \ {id}))

SetFolderPublicAny(f, on) ==
  /\ Live(f)
  /\ public' = IF on THEN public \cup {f} ELSE public \ {f}
  /\ cmds < MaxCmds
  /\ cmds' = cmds + 1
  /\ UNCHANGED <<folders, folderSeq, dev, req, faults>>

\* The owner (webmail, /api/me) and the operator; the folder gets no new number.
SetFolderPublic(f, on) ==
  /\ FolderByType(f, 8)
  /\ public' = IF on THEN public \cup {f} ELSE public \ {f}
  /\ cmds < MaxCmds
  /\ cmds' = cmds + 1
  /\ UNCHANGED <<folders, folderSeq, dev, req, faults>>

(***************************************************************************)
(* What handlers do next.                                                  *)
(***************************************************************************)

ListFolders(h) ==
  /\ req[h].pc = "list"
  /\ req' = [req EXCEPT ![h].pc = "answer", ![h].list = folders]
  /\ UNCHANGED <<folders, folderSeq, public, dev, cmds, faults>>

\* Devices are answered with a key; IMAP and webmail are not.
Written(r, row) ==
  IF r.dev = NoDev THEN Free
  ELSE [r EXCEPT !.pc = "key", !.was = row, !.clean = @ /\ folders[r.id] = r.was]

InsertFolder(h) ==
  LET r == req[h]
      row == NewFolder(r.parent, r.name, r.type, folderSeq + 1)
  IN
  /\ r.cmd = "create" /\ r.pc = "write"
  /\ ~Duplicate(0, r.parent, r.name)
  /\ Len(folders) < MaxFolders
  /\ folderSeq' = folderSeq + 1
  /\ folders' = Append(folders, row)
  /\ req' = [req EXCEPT ![h] = IF r.dev = NoDev THEN Free
               ELSE [r EXCEPT !.pc = "key", !.id = Len(folders) + 1, !.was = row]]
  /\ UNCHANGED <<public, dev, cmds, faults>>

DeleteFolder(h) ==
  LET r == req[h]
      row == [folders[r.id] EXCEPT !.deleted = TRUE, !.seq = folderSeq + 1]
  IN
  /\ r.cmd = "delete" /\ r.pc = "write"
  /\ Touch(r.id, row)
  /\ req' = [req EXCEPT ![h] =
       IF r.more = {} THEN Written(r, row)
       ELSE LET id == CHOOSE f \in r.more : TRUE
            IN [r EXCEPT !.id = id, !.more = @ \ {id}, !.was = folders[id]]]
  /\ UNCHANGED <<public, dev, cmds, faults>>

\* RenameFolder, when the name differs from the one that was read.
RenameFolder(h) ==
  LET r == req[h]
      row == [folders[r.id] EXCEPT !.name = r.name, !.seq = folderSeq + 1]
  IN
  /\ r.cmd = "update" /\ r.pc = "write" /\ r.name # r.was.name
  /\ ~Duplicate(r.id, folders[r.id].parent, r.name)
  /\ Touch(r.id, row)
  /\ req' = [req EXCEPT ![h] =
       IF r.parent = r.was.parent THEN Written(r, row)
       ELSE [r EXCEPT !.pc = "reparent", !.was = row, !.clean = @ /\ folders[r.id] = r.was]]
  /\ UNCHANGED <<public, dev, cmds, faults>>

RenameSkipped(h) ==
  LET r == req[h] IN
  /\ r.cmd = "update" /\ r.pc = "write" /\ r.name = r.was.name
  /\ req' = [req EXCEPT ![h] =
       IF r.parent # r.was.parent THEN [r EXCEPT !.pc = "reparent"]
       ELSE IF r.dev = NoDev THEN Free ELSE [r EXCEPT !.pc = "key"]]
  /\ UNCHANGED <<folders, folderSeq, public, dev, cmds, faults>>

ReparentFolder(h) ==
  LET r == req[h]
      row == [folders[r.id] EXCEPT !.parent = r.parent, !.seq = folderSeq + 1]
  IN
  /\ r.pc = "reparent"
  /\ ~Duplicate(r.id, r.parent, folders[r.id].name)
  /\ Touch(r.id, row)
  /\ req' = [req EXCEPT ![h] = Written(r, row)]
  /\ UNCHANGED <<public, dev, cmds, faults>>

\* A duplicate (or a full table) refuses the change; the transaction is rolled back.  A
\* rename that was done stays done.
Refuse(h) ==
  LET r == req[h] IN
  /\ \/ /\ r.cmd = "create" /\ r.pc = "write"
        /\ Duplicate(0, r.parent, r.name) \/ Len(folders) = MaxFolders
     \/ /\ r.cmd = "update" /\ r.pc = "write" /\ r.name # r.was.name
        /\ Duplicate(r.id, folders[r.id].parent, r.name)
     \/ /\ r.pc = "reparent"
        /\ Duplicate(r.id, r.parent, folders[r.id].name)
  /\ req' = [req EXCEPT ![h] = Free]
  /\ UNCHANGED <<folders, folderSeq, public, dev, cmds, faults>>

\* folderSyncKey.
FolderSyncKey(h) ==
  /\ req[h].pc = "key"
  /\ req' = [req EXCEPT ![h].pc = "answer", ![h].seq = folderSeq]
  /\ UNCHANGED <<folders, folderSeq, public, dev, cmds, faults>>

FolderSyncKeyFails(h) ==
  /\ faults < MaxFaults
  /\ req[h].pc = "key"
  /\ faults' = faults + 1
  /\ req' = [req EXCEPT ![h].pc = "answer", ![h].seq = 1]
  /\ UNCHANGED <<folders, folderSeq, public, dev, cmds>>

\* A statement fails: the handler answers an error.
StatementFails(h) ==
  /\ faults < MaxFaults
  /\ req[h].pc \in {"list", "write", "reparent"}
  /\ faults' = faults + 1
  /\ req' = [req EXCEPT ![h] = Free]
  /\ UNCHANGED <<folders, folderSeq, public, dev, cmds>>

(***************************************************************************)
(* Answers, at the device.                                                 *)
(***************************************************************************)

\* The Add and Delete elements: everything live for key 0, else what has a higher number.
Sent(r, f) == f \in DOMAIN r.list /\ (IF r.since = 0 THEN ~r.list[f].deleted
                                                     ELSE r.list[f].seq > r.since)

EntryOf(row) == IF row.deleted THEN NoEntry ELSE [parent |-> row.parent, name |-> row.name]

\* Status 9 makes the device start again; an initial sync starts from nothing.
Synced(s, r) ==
  IF Refused(r.since, r.seq) THEN [s EXCEPT !.key = 0] ELSE
  [key |-> IF r.seq < 1 THEN 1 ELSE r.seq,
   view |-> [f \in Ids |-> IF Sent(r, f) THEN EntryOf(r.list[f])
                           ELSE IF r.since = 0 THEN NoEntry ELSE s.view[f]],
   jumped |-> IF r.since = 0 THEN {} ELSE s.jumped \ {f \in Ids : Sent(r, f)}]

\* The device shows its own change and takes the key.
Own(r, f) == f = r.id /\ r.clean /\ folders[f].seq = r.was.seq

Changed(s, r) ==
  [key |-> r.seq,
   view |-> [s.view EXCEPT ![r.id] =
               IF r.cmd = "delete" THEN NoEntry ELSE [parent |-> r.parent, name |-> r.name]],
   jumped |-> {f \in Ids : /\ f \in DOMAIN folders /\ ~Own(r, f)
                           /\ f \in s.jumped \/ f = r.id
                              \/ (s.key < folders[f].seq /\ folders[f].seq <= r.seq)}]

Answered(h) ==
  LET r == req[h] IN
  /\ r.pc = "answer" /\ r.dev # NoDev
  /\ dev' = [dev EXCEPT ![r.dev] = IF r.cmd = "sync" THEN Synced(@, r) ELSE Changed(@, r)]
  /\ req' = [req EXCEPT ![h] = Free]
  /\ UNCHANGED <<folders, folderSeq, public, cmds, faults>>

\* The device stops waiting, at any point; the handler finishes what it does.
GiveUp(h) ==
  /\ faults < MaxFaults
  /\ req[h].dev # NoDev
  /\ faults' = faults + 1
  /\ req' = [req EXCEPT ![h] =
       IF @.pc \in {"write", "reparent"} THEN [@ EXCEPT !.dev = NoDev] ELSE Free]
  /\ UNCHANGED <<folders, folderSeq, public, dev, cmds>>

Crash ==
  /\ faults < MaxFaults
  /\ faults' = faults + 1
  /\ req' = [h \in Handlers |-> Free]
  /\ UNCHANGED <<folders, folderSeq, public, dev, cmds>>

Working(h) ==
  \/ ListFolders(h) \/ InsertFolder(h) \/ DeleteFolder(h) \/ RenameFolder(h)
  \/ RenameSkipped(h) \/ ReparentFolder(h) \/ Refuse(h) \/ FolderSyncKey(h)
  \/ Answered(h)

Next ==
  \/ \E d \in Devices, h \in Handlers :
       \/ FolderSync(d, h)
       \/ \E parent \in 0..MaxFolders, name \in Names :
            \/ \E type \in Types : FolderCreate(d, h, parent, name, type)
            \/ \E id \in Ids : FolderUpdate(d, h, id, parent, name)
       \/ \E id \in Ids : FolderDelete(d, h, id)
  \/ \E h \in Handlers :
       \/ \E name \in Names : CreateMailbox(h, name) \/ CreateCalendar(h, name)
       \/ \E f \in Ids : DeleteMailbox(h, f) \/ DeleteSubFolders(h, f)
       \/ \E f \in Ids, name \in Names : RenameMailbox(h, f, name) \/ RenameCalendar(h, f, name)
       \/ JunkFolder(h)
       \/ Working(h)
       \/ FolderSyncKeyFails(h) \/ StatementFails(h) \/ GiveUp(h)
  \/ \E f \in Ids, on \in BOOLEAN : SetFolderPublic(f, on)
  \/ Crash

Spec == Init /\ [][Next]_vars

\* Handlers run on, and devices keep asking.
Fairness ==
  /\ \A h \in Handlers : WF_vars(Working(h))
  /\ \A d \in Devices : WF_vars(\E h \in Handlers : FolderSync(d, h))

FairSpec == Spec /\ Fairness

(***************************************************************************)
(* Properties.                                                             *)
(***************************************************************************)

\* A device's key is a promise: of every folder whose number is not above the key it
\* shows the name and the parent the table has, and nothing when the folder is deleted,
\* although key and list of a FolderSync are read at different moments, answers get lost
\* and others write meanwhile.  The exceptions are the folders it jumped over.
Told ==
  \A d \in Devices, f \in DOMAIN folders :
    dev[d].key # 0 /\ folders[f].seq <= dev[d].key /\ f \notin dev[d].jumped =>
      dev[d].view[f] = EntryOf(folders[f])

\* A device that keeps asking shows the true hierarchy in the end (but for the folders it
\* jumped over), and its key stays good.
Converges ==
  <>[](\A d \in Devices, f \in DOMAIN folders :
         f \notin dev[d].jumped => dev[d].view[f] = EntryOf(folders[f]))

=============================================================================
