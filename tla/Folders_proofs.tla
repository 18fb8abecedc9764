--------------------------- MODULE Folders_proofs ---------------------------
(***************************************************************************)
(* Proofs about Folders, for any numbers of devices, handlers, folders,    *)
(* names, commands and faults.                                             *)
(*                                                                         *)
(* Parts of the inductive invariant that speak of a request take it, the   *)
(* table and the counter as parameters, so that the same lemma serves the  *)
(* request of every handler.                                               *)
(***************************************************************************)
EXTENDS Folders, SequenceTheorems, TLAPS

USE FoldersAssumption

Commands == {"create", "delete", "update"}

\* Every number in the table was given out, and the counter never starts over.
Numbered(fs, n) ==
  /\ n >= 2
  /\ \A f \in 1..Len(fs) : 1 <= fs[f].seq /\ fs[f].seq <= n

\* Where a request can stand.
Placed(r) ==
  /\ r.pc = "list" => r.cmd = "sync"
  /\ r.pc \in {"write", "key"} => r.cmd \in Commands
  /\ r.pc = "reparent" => r.cmd = "update"
  /\ r.pc = "answer" => r.cmd # "none"
  /\ r.cmd = "sync" => r.dev \in Devices /\ r.pc \in {"list", "answer"}

\* The folders a request names exist.
Points(r, fs) ==
  /\ r.id \in 0..Len(fs)
  /\ r.cmd \in {"delete", "update"} => r.id # 0
  /\ r.cmd = "create" /\ r.pc \in {"key", "answer"} => r.id # 0
  /\ r.more \subseteq 1..Len(fs)

\* A FolderSync: its key is the device's, and the list it answers with has every folder
\* that its new key covers as the table has it.
SyncOK(r, fs, n, dv) ==
  r.cmd = "sync" =>
    /\ r.since = dv[r.dev].key /\ r.since <= r.seq /\ 2 <= r.seq /\ r.seq <= n
    /\ r.pc = "answer" =>
         \A f \in 1..Len(fs) :
           fs[f].seq <= r.seq => f \in 1..Len(r.list) /\ r.list[f] = fs[f]

\* A device's own change: while the number it saw or gave stands, so does the row, and a
\* row nobody else wrote is what the device will show.
ChangeOK(r, fs, n) ==
  r.dev # NoDev /\ r.cmd \in Commands =>
    /\ r.more = {}
    /\ r.was.seq <= n
    /\ r.pc = "answer" => r.seq <= n
    /\ r.id # 0 /\ fs[r.id].seq = r.was.seq => fs[r.id] = r.was
    /\ r.clean /\ r.cmd = "update" => ~r.was.deleted
    /\ r.clean /\ r.pc = "reparent" => r.was.name = r.name
    /\ r.clean /\ r.pc \in {"key", "answer"} =>
         IF r.cmd = "delete" THEN r.was.deleted
         ELSE r.was.parent = r.parent /\ r.was.name = r.name /\ ~r.was.deleted

RequestOK(r, fs, n, dv) ==
  Placed(r) /\ Points(r, fs) /\ SyncOK(r, fs, n, dv) /\ ChangeOK(r, fs, n)

\* A device waits for one answer, and no device is ahead of its account.
OneRequest ==
  \A h, g \in Handlers : req[h].dev # NoDev /\ req[g].dev = req[h].dev => h = g

KeysOK == \A d \in Devices : dev[d].key <= folderSeq

IInv ==
  /\ TypeOK /\ Numbered(folders, folderSeq) /\ KeysOK /\ OneRequest
  /\ \A h \in Handlers : RequestOK(req[h], folders, folderSeq, dev)
  /\ Told

(***************************************************************************)
(* The table.                                                              *)
(***************************************************************************)

\* ft follows fs: rows are added or rewritten with the number n + 1 and keep their type.
Later(fs, ft, n) ==
  /\ Len(fs) <= Len(ft)
  /\ \A f \in 1..Len(ft) : ft[f].seq = n + 1 \/ (f <= Len(fs) /\ ft[f] = fs[f])
  /\ \A f \in 1..Len(fs) : ft[f].type = fs[f].type

LEMMA Tables ==
  ASSUME NEW fs \in Seq(Folder)
  PROVE  Len(fs) \in Nat /\ DOMAIN fs = 1..Len(fs) /\ \A f \in 1..Len(fs) : fs[f] \in Folder
  BY LenProperties

LEMMA NumberedLater ==
  ASSUME NEW fs \in Seq(Folder), NEW ft \in Seq(Folder), NEW n \in Nat,
         Numbered(fs, n), Later(fs, ft, n)
  PROVE  Numbered(ft, n + 1)
<1>1. Len(fs) \in Nat /\ Len(ft) \in Nat /\ \A f \in 1..Len(fs) : fs[f] \in Folder
  BY Tables
<1>2. ASSUME NEW f \in 1..Len(ft) PROVE 1 <= ft[f].seq /\ ft[f].seq <= n + 1
  <2>1. CASE ft[f].seq = n + 1
    BY <2>1
  <2>2. CASE f <= Len(fs) /\ ft[f] = fs[f]
    <3>0. f \in 1..Len(fs)
      BY <1>1, <2>2
    <3>1. fs[f].seq \in Nat
      BY <1>1, <3>0 DEF Folder
    <3>2. 1 <= fs[f].seq /\ fs[f].seq <= n
      BY <3>0 DEF Numbered
    <3>3. QED
      BY <2>2, <3>1, <3>2
  <2>3. QED
    BY <2>1, <2>2 DEF Later
<1>3. QED
  BY <1>2 DEF Numbered

\* What one handler writes leaves what the others rely on.
LEMMA RequestLater ==
  ASSUME NEW fs \in Seq(Folder), NEW ft \in Seq(Folder), NEW n \in Nat,
         Numbered(fs, n), Later(fs, ft, n),
         NEW r \in Request, NEW dv, RequestOK(r, fs, n, dv)
  PROVE  RequestOK(r, ft, n + 1, dv)
<1>1. /\ Len(fs) \in Nat /\ Len(ft) \in Nat
      /\ \A f \in 1..Len(fs) : fs[f] \in Folder
      /\ \A f \in 1..Len(ft) : ft[f] \in Folder
  BY Tables
<1>2. r.seq \in Nat /\ r.was \in Folder /\ r.id \in Nat
  BY DEF Request
<1>3. Points(r, ft)
  BY <1>1, <1>2 DEF RequestOK, Points, Later
<1>4. SyncOK(r, ft, n + 1, dv)
  <2> SUFFICES ASSUME r.cmd = "sync" PROVE SyncOK(r, ft, n + 1, dv)
    BY DEF SyncOK
  <2>1. r.seq <= n /\ SyncOK(r, fs, n, dv)
    BY DEF RequestOK, SyncOK
  <2>2. \A f \in 1..Len(ft) : ft[f].seq <= r.seq => f \in 1..Len(fs) /\ ft[f] = fs[f]
    BY <1>1, <1>2, <2>1 DEF Later
  <2>3. r.seq <= n + 1
    BY <1>2, <2>1
  <2>4. QED
    BY <2>1, <2>2, <2>3 DEF SyncOK
<1>5. ChangeOK(r, ft, n + 1)
  <2> SUFFICES ASSUME r.dev # NoDev, r.cmd \in Commands PROVE ChangeOK(r, ft, n + 1)
    BY DEF ChangeOK
  <2>1. r.was.seq <= n /\ r.was.seq \in Nat /\ ChangeOK(r, fs, n)
    BY <1>2 DEF RequestOK, ChangeOK, Folder
  <2>2. r.id # 0 /\ ft[r.id].seq = r.was.seq => fs[r.id].seq = r.was.seq /\ ft[r.id] = fs[r.id]
    BY <1>1, <1>2, <1>3, <2>1 DEF Later, Points
  <2>3. r.was.seq <= n + 1 /\ (r.pc = "answer" => r.seq <= n + 1)
    BY <1>2, <2>1 DEF ChangeOK
  <2>4. QED
    BY <2>1, <2>2, <2>3 DEF ChangeOK
<1>6. QED
  BY <1>3, <1>4, <1>5 DEF RequestOK

(***************************************************************************)
(* Requests.                                                               *)
(***************************************************************************)

LEMMA FreeIsOK ==
  /\ Free \in Request /\ Free.dev = NoDev
  /\ \A fs \in Seq(Folder) : \A n, dv : RequestOK(Free, fs, n, dv)
<1>1. Inbox \in Folder
  BY DEF Inbox, NewFolder, Folder
<1>2. <<>> \in Seq(Folder)
  BY EmptySeq
<1>3. Free \in Request
  BY <1>1, <1>2 DEF Free, Request
<1>4. Free.dev = NoDev /\ Free.pc = "free" /\ Free.cmd = "none" /\ Free.id = 0 /\ Free.more = {}
  BY DEF Free
<1>5. ASSUME NEW fs \in Seq(Folder), NEW n, NEW dv PROVE RequestOK(Free, fs, n, dv)
  <2>1. Len(fs) \in Nat
    BY Tables
  <2>2. Points(Free, fs)
    BY <1>4, <2>1 DEF Points
  <2>3. Placed(Free)
    BY <1>4 DEF Placed
  <2>4. SyncOK(Free, fs, n, dv) /\ ChangeOK(Free, fs, n)
    BY <1>4 DEF SyncOK, ChangeOK
  <2>5. QED
    BY <2>2, <2>3, <2>4 DEF RequestOK
<1>6. QED
  BY <1>3, <1>4, <1>5

LEMMA Parts ==
  ASSUME IInv
  PROVE  /\ folders \in Seq(Folder) /\ Len(folders) \in 2..MaxFolders
         /\ DOMAIN folders = 1..Len(folders)
         /\ \A f \in 1..Len(folders) : folders[f] \in Folder
         /\ folderSeq \in Nat /\ cmds \in Nat /\ faults \in Nat
         /\ req \in [Handlers -> Request] /\ dev \in [Devices -> Device]
         /\ Numbered(folders, folderSeq) /\ KeysOK /\ OneRequest /\ Told
         /\ \A h \in Handlers : RequestOK(req[h], folders, folderSeq, dev)
  BY Tables DEF IInv, TypeOK

\* A step that only moves the request of handler h.
LEMMA Moves ==
  ASSUME IInv, NEW h \in Handlers, NEW r \in Request,
         req' = [req EXCEPT ![h] = r], RequestOK(r, folders, folderSeq, dev),
         r.dev # NoDev => \A g \in Handlers : g # h => req[g].dev # r.dev,
         UNCHANGED <<folders, folderSeq, public, dev>>, cmds' \in Nat, faults' \in Nat
  PROVE  IInv'
<1> USE Parts
<1>1. req'[h] = r /\ \A g \in Handlers : g # h => req'[g] = req[g]
  OBVIOUS
<1>2. TypeOK'
  BY DEF IInv, TypeOK
<1>3. OneRequest'
  BY <1>1 DEF OneRequest
<1>4. \A g \in Handlers : RequestOK(req'[g], folders', folderSeq', dev')
  BY <1>1
<1>5. QED
  BY <1>2, <1>3, <1>4 DEF IInv, KeysOK, Told, EntryOf

\* A step in which handler h writes the table.
LEMMA Writes ==
  ASSUME IInv, NEW h \in Handlers, NEW r \in Request,
         req' = [req EXCEPT ![h] = r], RequestOK(r, folders', folderSeq + 1, dev),
         r.dev \in {req[h].dev, NoDev},
         folders' \in Seq(Folder), Len(folders') <= MaxFolders,
         Later(folders, folders', folderSeq), folderSeq' = folderSeq + 1,
         UNCHANGED <<public, dev, cmds, faults>>
  PROVE  IInv'
<1> USE Parts
<1>1. req'[h] = r /\ \A g \in Handlers : g # h => req'[g] = req[g]
  OBVIOUS
<1>2. /\ Len(folders') \in Nat /\ DOMAIN folders' = 1..Len(folders')
      /\ \A f \in 1..Len(folders') : folders'[f] \in Folder
  BY Tables
<1>3. TypeOK'
  <2>1. Len(folders') \in 2..MaxFolders
    BY <1>2 DEF Later
  <2>2. public \subseteq {f \in 1..Len(folders) : folders[f].type = 8}
    BY DEF IInv, TypeOK
  <2>3. public' \subseteq {f \in DOMAIN folders' : folders'[f].type = 8}
    BY <1>2, <2>2 DEF Later
  <2>4. req' \in [Handlers -> Request]
    OBVIOUS
  <2>5. QED
    BY <2>1, <2>3, <2>4 DEF TypeOK
<1>4. OneRequest'
  BY <1>1 DEF OneRequest
<1>5. Numbered(folders', folderSeq')
  BY NumberedLater
<1>6. \A g \in Handlers : RequestOK(req'[g], folders', folderSeq', dev')
  <2> TAKE g \in Handlers
  <2>1. CASE g = h
    BY <1>1, <2>1
  <2>2. CASE g # h
    <3>1. req[g] \in Request /\ RequestOK(req[g], folders, folderSeq, dev)
      OBVIOUS
    <3>2. RequestOK(req[g], folders', folderSeq + 1, dev)
      BY <3>1, RequestLater
    <3>3. QED
      BY <1>1, <2>2, <3>2
  <2>3. QED
    BY <2>1, <2>2
<1>7. KeysOK'
  BY DEF KeysOK, Device
<1>8. Told'
  <2> SUFFICES ASSUME NEW d \in Devices, NEW f \in DOMAIN folders',
                      dev[d].key # 0, folders'[f].seq <= dev[d].key, f \notin dev[d].jumped
               PROVE  dev[d].view[f] = EntryOf(folders'[f])
    BY DEF Told, EntryOf
  <2>1. dev[d].key \in Nat /\ dev[d].key <= folderSeq
    BY DEF KeysOK, Device
  <2>2. f \in 1..Len(folders) /\ folders'[f] = folders[f]
    BY <1>2, <2>1 DEF Later
  <2>3. QED
    BY <2>2 DEF Told
<1>9. QED
  BY <1>3, <1>4, <1>5, <1>6, <1>7, <1>8 DEF IInv

(***************************************************************************)
(* Requests that begin.                                                    *)
(***************************************************************************)

LEMMA CreatingOK ==
  ASSUME IInv, NEW d \in Devices \cup {NoDev}, NEW parent \in Nat, NEW name \in Names,
         NEW type \in Nat
  PROVE  /\ Creating(d, parent, name, type) \in Request
         /\ Creating(d, parent, name, type).dev = d
         /\ RequestOK(Creating(d, parent, name, type), folders, folderSeq, dev)
<1> DEFINE r == Creating(d, parent, name, type)
<1> USE Parts
<1>1. r \in Request
  BY FreeIsOK DEF Creating, Request
<1>2. /\ r.cmd = "create" /\ r.pc = "write" /\ r.dev = d /\ r.id = 0 /\ r.more = {}
      /\ r.was = Inbox
  BY DEF Creating, Free
<1> HIDE DEF r
<1>3. Placed(r) /\ SyncOK(r, folders, folderSeq, dev)
  BY <1>2 DEF Placed, SyncOK, Commands
<1>4. Points(r, folders)
  BY <1>2 DEF Points
<1>5. ChangeOK(r, folders, folderSeq)
  <2>1. r.was.seq <= folderSeq
    BY <1>2 DEF Inbox, NewFolder, Numbered
  <2>2. QED
    BY <1>2, <2>1 DEF ChangeOK
<1>6. QED
  BY <1>1, <1>2, <1>3, <1>4, <1>5 DEF RequestOK, r

LEMMA DeletingOK ==
  ASSUME IInv, NEW d \in Devices \cup {NoDev}, NEW id \in 1..Len(folders),
         NEW more \in SUBSET (1..Len(folders)), d # NoDev => more = {}
  PROVE  /\ Deleting(d, id, more) \in Request
         /\ Deleting(d, id, more).dev = d
         /\ RequestOK(Deleting(d, id, more), folders, folderSeq, dev)
<1> DEFINE r == Deleting(d, id, more)
<1> USE Parts
<1>1. r \in Request
  <2>1. more \in SUBSET Ids /\ id \in Nat
    BY DEF Ids
  <2>2. QED
    BY <2>1, FreeIsOK DEF Deleting, Request
<1>2. /\ r.cmd = "delete" /\ r.pc = "write" /\ r.dev = d /\ r.id = id /\ r.more = more
      /\ r.was = folders[id]
  BY DEF Deleting, Free
<1> HIDE DEF r
<1>3. Placed(r) /\ SyncOK(r, folders, folderSeq, dev)
  BY <1>2 DEF Placed, SyncOK, Commands
<1>4. Points(r, folders)
  BY <1>2 DEF Points
<1>5. ChangeOK(r, folders, folderSeq)
  <2>1. r.was.seq <= folderSeq
    BY <1>2 DEF Numbered
  <2>2. QED
    BY <1>2, <2>1 DEF ChangeOK
<1>6. QED
  BY <1>1, <1>2, <1>3, <1>4, <1>5 DEF RequestOK, r

LEMMA UpdatingOK ==
  ASSUME IInv, NEW d \in Devices \cup {NoDev}, NEW id, Live(id), NEW parent \in Nat,
         NEW name \in Names
  PROVE  /\ Updating(d, id, parent, name) \in Request
         /\ Updating(d, id, parent, name).dev = d
         /\ RequestOK(Updating(d, id, parent, name), folders, folderSeq, dev)
<1> DEFINE r == Updating(d, id, parent, name)
<1> USE Parts
<1>0. id \in 1..Len(folders) /\ ~folders[id].deleted /\ id \in Nat
  BY DEF Live
<1>1. r \in Request
  BY <1>0, FreeIsOK DEF Updating, Request
<1>2. /\ r.cmd = "update" /\ r.pc = "write" /\ r.dev = d /\ r.id = id /\ r.more = {}
      /\ r.was = folders[id]
  BY DEF Updating, Free
<1> HIDE DEF r
<1>3. Placed(r) /\ SyncOK(r, folders, folderSeq, dev)
  BY <1>2 DEF Placed, SyncOK, Commands
<1>4. Points(r, folders)
  BY <1>0, <1>2 DEF Points
<1>5. ChangeOK(r, folders, folderSeq)
  <2>1. r.was.seq <= folderSeq
    BY <1>0, <1>2 DEF Numbered
  <2>2. QED
    BY <1>0, <1>2, <2>1 DEF ChangeOK
<1>6. QED
  BY <1>1, <1>2, <1>3, <1>4, <1>5 DEF RequestOK, r

LEMMA BeginKeeps ==
  ASSUME IInv, NEW h \in Handlers, NEW r \in Request, Begin(h, r),
         RequestOK(r, folders, folderSeq, dev), r.dev # NoDev => ~Waits(r.dev)
  PROVE  IInv'
<1>1. /\ req' = [req EXCEPT ![h] = r] /\ cmds' = cmds + 1
      /\ UNCHANGED <<folders, folderSeq, public, dev, faults>>
  BY DEF Begin
<1>2. cmds' \in Nat /\ faults' \in Nat
  BY <1>1, Parts
<1>3. r.dev # NoDev => \A g \in Handlers : g # h => req[g].dev # r.dev
  BY DEF Waits
<1>4. QED
  BY <1>1, <1>2, <1>3, Moves

\* The devices' requests.
LEMMA DeviceKeeps ==
  ASSUME IInv, NEW d \in Devices, NEW h \in Handlers,
         \/ FolderSync(d, h)
         \/ \E parent \in 0..MaxFolders, name \in Names :
              \/ \E type \in Types : FolderCreate(d, h, parent, name, type)
              \/ \E id \in Ids : FolderUpdate(d, h, id, parent, name)
         \/ \E id \in Ids : FolderDelete(d, h, id)
  PROVE  IInv'
<1> USE Parts
<1>1. CASE FolderSync(d, h)
  <2> DEFINE r == [Free EXCEPT !.cmd = "sync", !.dev = d, !.since = dev[d].key,
                   !.seq = folderSeq,
                   !.pc = IF Refused(dev[d].key, folderSeq) THEN "answer" ELSE "list"]
  <2>1. dev[d].key \in Nat /\ dev[d].key <= folderSeq
    BY DEF KeysOK, Device
  <2>2. ~Refused(dev[d].key, folderSeq)
    BY <2>1 DEF Refused
  <2>3. r \in Request
    BY <2>1, FreeIsOK DEF Request
  <2>4. /\ r.cmd = "sync" /\ r.pc = "list" /\ r.dev = d /\ r.since = dev[d].key
        /\ r.seq = folderSeq /\ r.id = 0 /\ r.more = {}
    BY <2>2 DEF Free
  <2>5. req' = [req EXCEPT ![h] = r] /\ UNCHANGED <<folders, folderSeq, public, dev, cmds, faults>>
    BY <1>1 DEF FolderSync
  <2>6. \A g \in Handlers : req[g].dev # d
    BY <1>1 DEF FolderSync, Waits
  <2> HIDE DEF r
  <2>7. Placed(r) /\ Points(r, folders) /\ ChangeOK(r, folders, folderSeq)
    BY <2>4 DEF Placed, Points, ChangeOK, Commands
  <2>8. SyncOK(r, folders, folderSeq, dev)
    BY <2>1, <2>4 DEF SyncOK, Numbered
  <2>9. RequestOK(r, folders, folderSeq, dev)
    BY <2>7, <2>8 DEF RequestOK
  <2>10. QED
    BY <2>3, <2>4, <2>5, <2>6, <2>9, Moves
<1>2. ASSUME NEW parent \in 0..MaxFolders, NEW name \in Names, NEW type \in Types,
             FolderCreate(d, h, parent, name, type)
      PROVE  IInv'
  <2>1. ~Waits(d) /\ Begin(h, Creating(d, parent, name, type))
    BY <1>2 DEF FolderCreate
  <2>2. parent \in Nat /\ type \in Nat /\ d \in Devices \cup {NoDev}
    OBVIOUS
  <2> DEFINE r == Creating(d, parent, name, type)
  <2>3. r \in Request /\ r.dev = d /\ RequestOK(r, folders, folderSeq, dev)
    BY <2>2, CreatingOK
  <2> HIDE DEF r
  <2>4. Begin(h, r)
    BY <2>1 DEF r
  <2>5. QED
    BY <2>1, <2>3, <2>4, BeginKeeps
<1>3. ASSUME NEW parent \in 0..MaxFolders, NEW name \in Names, NEW id \in Ids,
             FolderUpdate(d, h, id, parent, name)
      PROVE  IInv'
  <2>1. ~Waits(d) /\ Live(id) /\ Begin(h, Updating(d, id, parent, name))
    BY <1>3 DEF FolderUpdate, Changeable
  <2>2. parent \in Nat /\ d \in Devices \cup {NoDev}
    OBVIOUS
  <2> DEFINE r == Updating(d, id, parent, name)
  <2>3. r \in Request /\ r.dev = d /\ RequestOK(r, folders, folderSeq, dev)
    BY <2>1, <2>2, UpdatingOK
  <2> HIDE DEF r
  <2>4. Begin(h, r)
    BY <2>1 DEF r
  <2>5. QED
    BY <2>1, <2>3, <2>4, BeginKeeps
<1>4. ASSUME NEW id \in Ids, FolderDelete(d, h, id) PROVE IInv'
  <2>1. ~Waits(d) /\ Begin(h, Deleting(d, id, {})) /\ id \in 1..Len(folders)
    BY <1>4 DEF FolderDelete, Changeable, Live
  <2>2. QED
    BY <2>1, DeletingOK, BeginKeeps
<1>5. QED
  BY <1>1, <1>2, <1>3, <1>4

\* IMAP, webmail and the other commands.
LEMMA OthersKeep ==
  ASSUME IInv, NEW h \in Handlers,
         \/ \E name \in Names : CreateMailbox(h, name) \/ CreateCalendar(h, name)
         \/ \E f \in Ids : DeleteMailbox(h, f) \/ DeleteSubFolders(h, f)
         \/ \E f \in Ids, name \in Names : RenameMailbox(h, f, name) \/ RenameCalendar(h, f, name)
         \/ JunkFolder(h)
  PROVE  IInv'
<1> USE Parts
<1>1. ASSUME NEW name \in Names, NEW type \in Nat, Begin(h, Creating(NoDev, 0, name, type))
      PROVE  IInv'
  BY <1>1, CreatingOK, BeginKeeps
<1>2. ASSUME NEW f, NEW name \in Names, Live(f), Begin(h, Updating(NoDev, f, folders[f].parent, name))
      PROVE  IInv'
  <2>1. folders[f].parent \in Nat
    BY <1>2 DEF Live, Folder
  <2>2. QED
    BY <1>2, <2>1, UpdatingOK, BeginKeeps
<1>3. ASSUME NEW f, FindFolder(f), Begin(h, Deleting(NoDev, f, {})) PROVE IInv'
  <2>1. f \in 1..Len(folders)
    BY <1>3 DEF FindFolder, Live
  <2>2. QED
    BY <1>3, <2>1, DeletingOK, BeginKeeps
<1>4. ASSUME NEW f \in Ids, DeleteSubFolders(h, f) PROVE IInv'
  <2> DEFINE children == {g \in DOMAIN folders : Live(g) /\ folders[g].parent = f}
  <2>1. PICK id \in children : Begin(h, Deleting(NoDev, id, children \ {id}))
    BY <1>4 DEF DeleteSubFolders
  <2>2. id \in 1..Len(folders) /\ children \ {id} \in SUBSET (1..Len(folders))
    OBVIOUS
  <2>3. QED
    BY <2>1, <2>2, DeletingOK, BeginKeeps
<1>5. QED
  BY <1>1, <1>2, <1>3, <1>4 DEF CreateMailbox, CreateCalendar, JunkFolder, DeleteMailbox,
     RenameMailbox, RenameCalendar, FindFolder, FolderByType

(***************************************************************************)
(* What handlers do next.                                                  *)
(***************************************************************************)

LEMMA TouchLater ==
  ASSUME IInv, NEW id \in 1..Len(folders), NEW row \in Folder,
         row.type = folders[id].type, row.seq = folderSeq + 1, Touch(id, row)
  PROVE  /\ folders' \in Seq(Folder) /\ Len(folders') = Len(folders) /\ Len(folders') <= MaxFolders
         /\ folders'[id] = row /\ folderSeq' = folderSeq + 1
         /\ Later(folders, folders', folderSeq)
<1> USE Parts
<1>1. [row EXCEPT !.seq = folderSeq + 1] = row
  BY DEF Folder
<1>2. folders' = [folders EXCEPT ![id] = row] /\ folderSeq' = folderSeq + 1
  BY <1>1 DEF Touch
<1>3. folders' \in Seq(Folder) /\ Len(folders') = Len(folders)
  BY <1>2, ExceptSeq
<1>4. folders'[id] = row /\ \A f \in 1..Len(folders) : f # id => folders'[f] = folders[f]
  BY <1>2
<1>5. Later(folders, folders', folderSeq)
  BY <1>3, <1>4 DEF Later
<1>6. QED
  BY <1>2, <1>3, <1>4, <1>5

\* The request of a handler, before it moves.
LEMMA Handled ==
  ASSUME IInv, NEW h \in Handlers
  PROVE  /\ req[h] \in Request /\ Placed(req[h]) /\ Points(req[h], folders)
         /\ SyncOK(req[h], folders, folderSeq, dev) /\ ChangeOK(req[h], folders, folderSeq)
  BY Parts DEF RequestOK

\* A handler may always drop its request.
LEMMA Drops ==
  ASSUME IInv, NEW h \in Handlers, req' = [req EXCEPT ![h] = Free],
         UNCHANGED <<folders, folderSeq, public, dev>>, cmds' \in Nat, faults' \in Nat
  PROVE  IInv'
  BY Moves, FreeIsOK, Parts

LEMMA ListFoldersKeeps ==
  ASSUME IInv, NEW h \in Handlers, ListFolders(h)
  PROVE  IInv'
<1> USE Parts, Handled
<1> DEFINE r == [req[h] EXCEPT !.pc = "answer", !.list = folders]
<1>1. req' = [req EXCEPT ![h] = r] /\ UNCHANGED <<folders, folderSeq, public, dev, cmds, faults>>
  BY DEF ListFolders
<1>2. /\ r \in Request /\ r.cmd = req[h].cmd /\ r.dev = req[h].dev /\ r.pc = "answer"
      /\ r.list = folders /\ r.since = req[h].since /\ r.seq = req[h].seq
      /\ r.id = req[h].id /\ r.more = req[h].more
  BY DEF Request
<1>3. req[h].cmd = "sync"
  BY DEF ListFolders, Placed
<1> HIDE DEF r
<1>4. Placed(r) /\ Points(r, folders) /\ ChangeOK(r, folders, folderSeq)
  BY <1>2, <1>3 DEF Placed, Points, ChangeOK, Commands
<1>5. SyncOK(r, folders, folderSeq, dev)
  BY <1>2, <1>3 DEF SyncOK
<1>6. r.dev # NoDev => \A g \in Handlers : g # h => req[g].dev # r.dev
  BY <1>2 DEF OneRequest
<1>7. QED
  BY <1>1, <1>2, <1>4, <1>5, <1>6, Moves DEF RequestOK

LEMMA InsertFolderKeeps ==
  ASSUME IInv, NEW h \in Handlers, InsertFolder(h)
  PROVE  IInv'
<1> USE Parts, Handled
<1> DEFINE row == NewFolder(req[h].parent, req[h].name, req[h].type, folderSeq + 1)
           k == [req[h] EXCEPT !.pc = "key", !.id = Len(folders) + 1, !.was = row]
           r == IF req[h].dev = NoDev THEN Free ELSE k
<1>1. /\ req[h].cmd = "create" /\ req[h].pc = "write" /\ Len(folders) < MaxFolders
      /\ folderSeq' = folderSeq + 1 /\ folders' = Append(folders, row)
      /\ req' = [req EXCEPT ![h] = r] /\ UNCHANGED <<public, dev, cmds, faults>>
  BY DEF InsertFolder
<1>2. /\ row \in Folder /\ row.seq = folderSeq + 1 /\ row.parent = req[h].parent
      /\ row.name = req[h].name /\ ~row.deleted
  <2>1. req[h].parent \in Nat /\ req[h].name \in Names /\ req[h].type \in Nat
    BY DEF Request
  <2>2. row = [parent |-> req[h].parent, name |-> req[h].name, type |-> req[h].type,
               seq |-> folderSeq + 1, deleted |-> FALSE]
    BY DEF NewFolder
  <2> HIDE DEF row
  <2>3. row \in Folder
    BY <2>1, <2>2 DEF Folder
  <2>4. QED
    BY <2>2, <2>3
<1> HIDE DEF row
<1>3. /\ folders' \in Seq(Folder) /\ Len(folders') = Len(folders) + 1
      /\ folders'[Len(folders) + 1] = row
      /\ \A f \in 1..Len(folders) : folders'[f] = folders[f]
  BY <1>1, <1>2, AppendProperties
<1>4. Later(folders, folders', folderSeq) /\ Len(folders') <= MaxFolders
  BY <1>1, <1>2, <1>3 DEF Later
<1>5. r \in Request /\ r.dev \in {req[h].dev, NoDev} /\ RequestOK(r, folders', folderSeq + 1, dev)
  <2>1. CASE req[h].dev = NoDev
    BY <1>3, <2>1, FreeIsOK
  <2>2. CASE req[h].dev # NoDev
    <3>0. Len(folders) + 1 \in Nat
      OBVIOUS
    <3>1. k \in Request
      BY <1>2, <3>0, Handled DEF Request
    <3>2. /\ k.cmd = "create" /\ k.pc = "key" /\ k.dev = req[h].dev /\ k.id = Len(folders) + 1
          /\ k.was = row /\ k.more = req[h].more /\ k.parent = req[h].parent
          /\ k.name = req[h].name
      BY <1>1 DEF Request
    <3>3. r = k
      BY <2>2
    <3> HIDE DEF r, k
    <3>4. Placed(k) /\ SyncOK(k, folders', folderSeq + 1, dev)
      BY <3>2 DEF Placed, SyncOK, Commands
    <3>5. Points(k, folders')
      BY <1>3, <3>2 DEF Points
    <3>6. k.more = {}
      BY <1>1, <2>2, <3>2 DEF ChangeOK, Commands
    <3>7. ChangeOK(k, folders', folderSeq + 1)
      BY <1>2, <1>3, <3>2, <3>6 DEF ChangeOK, Commands
    <3>8. QED
      BY <3>1, <3>2, <3>3, <3>4, <3>5, <3>7 DEF RequestOK
  <2>3. QED
    BY <2>1, <2>2
<1> HIDE DEF r, k
<1>6. QED
  BY <1>1, <1>3, <1>4, <1>5, Writes

\* The last write of a command: the request goes on to read the key, or is done.
LEMMA WrittenRequest ==
  ASSUME NEW r \in Request, NEW row \in Folder, NEW pc \in {"key", "reparent"}, NEW c \in BOOLEAN
  PROVE  /\ [r EXCEPT !.pc = pc, !.was = row, !.clean = c] \in Request
         /\ [r EXCEPT !.pc = pc, !.was = row, !.clean = c].clean = c
  BY DEF Request

LEMMA WrittenKeeps ==
  ASSUME IInv, NEW h \in Handlers, NEW row \in Folder,
         req[h].cmd \in {"delete", "update"},
         row.type = folders[req[h].id].type, row.seq = folderSeq + 1,
         req[h].dev # NoDev /\ req[h].clean /\ folders[req[h].id] = req[h].was =>
           IF req[h].cmd = "delete" THEN row.deleted
           ELSE row.parent = req[h].parent /\ row.name = req[h].name /\ ~row.deleted,
         Touch(req[h].id, row), req' = [req EXCEPT ![h] = Written(req[h], row)],
         UNCHANGED <<public, dev, cmds, faults>>
  PROVE  IInv'
<1> USE Parts, Handled
<1> DEFINE c == req[h].clean /\ folders[req[h].id] = req[h].was
           k == [req[h] EXCEPT !.pc = "key", !.was = row, !.clean = c]
<1>1. req[h].id \in 1..Len(folders)
  BY DEF Points
<1>2. /\ folders' \in Seq(Folder) /\ Len(folders') = Len(folders)
      /\ Len(folders') <= MaxFolders /\ folders'[req[h].id] = row /\ folderSeq' = folderSeq + 1
      /\ Later(folders, folders', folderSeq)
  BY <1>1, TouchLater
<1>3. CASE req[h].dev = NoDev
  <2>1. Written(req[h], row) = Free
    BY <1>3 DEF Written
  <2>2. RequestOK(Free, folders', folderSeq + 1, dev) /\ Free \in Request /\ Free.dev = NoDev
    BY <1>2, FreeIsOK
  <2>3. QED
    BY <1>2, <2>1, <2>2, Writes
<1>4. CASE req[h].dev # NoDev
  <2>1. Written(req[h], row) = k
    BY <1>4 DEF Written
  <2>2. c \in BOOLEAN
    BY DEF Request
  <2> HIDE DEF c
  <2>3. k \in Request /\ k.clean = c
    <3>1. req[h] \in Request
      OBVIOUS
    <3>2. \A b \in BOOLEAN : LET q == [req[h] EXCEPT !.pc = "key", !.was = row, !.clean = b]
                              IN  q \in Request /\ q.clean = b
      BY <3>1, WrittenRequest
    <3>3. QED
      BY <2>2, <3>2
  <2>4. /\ k.cmd = req[h].cmd /\ k.pc = "key" /\ k.dev = req[h].dev /\ k.id = req[h].id
        /\ k.was = row /\ k.more = req[h].more /\ k.parent = req[h].parent
        /\ k.name = req[h].name
    BY DEF Request
  <2>5. k.clean = c
    BY <2>3
  <2> HIDE DEF k
  <2>6. Placed(k) /\ SyncOK(k, folders', folderSeq + 1, dev)
    BY <2>4 DEF Placed, SyncOK, Commands
  <2>7. Points(k, folders')
    BY <1>2, <2>4 DEF Points
  <2>8. k.more = {}
    BY <1>4, <2>4 DEF ChangeOK, Commands
  <2>9. k.clean => IF k.cmd = "delete" THEN k.was.deleted
                   ELSE k.was.parent = k.parent /\ k.was.name = k.name /\ ~k.was.deleted
    BY <1>4, <2>4, <2>5 DEF c
  <2>10. ChangeOK(k, folders', folderSeq + 1)
    BY <1>2, <2>4, <2>8, <2>9 DEF ChangeOK, Commands
  <2>11. QED
    BY <1>2, <2>1, <2>3, <2>4, <2>6, <2>7, <2>10, Writes DEF RequestOK
<1>5. QED
  BY <1>3, <1>4

LEMMA DeleteFolderKeeps ==
  ASSUME IInv, NEW h \in Handlers, DeleteFolder(h)
  PROVE  IInv'
<1> USE Parts, Handled
<1> DEFINE row == [folders[req[h].id] EXCEPT !.deleted = TRUE, !.seq = folderSeq + 1]
<1>1. /\ req[h].cmd = "delete" /\ req[h].pc = "write" /\ Touch(req[h].id, row)
      /\ UNCHANGED <<public, dev, cmds, faults>>
  BY DEF DeleteFolder
<1>2. req[h].id \in 1..Len(folders)
  BY <1>1 DEF Points
<1>3. /\ row \in Folder /\ row.seq = folderSeq + 1 /\ row.type = folders[req[h].id].type
      /\ row.deleted
  <2>1. folderSeq + 1 \in Nat
    OBVIOUS
  <2>2. QED
    BY <1>2, <2>1 DEF Folder
<1>4. CASE req[h].more = {}
  <2>1. req' = [req EXCEPT ![h] = Written(req[h], row)]
    BY <1>4 DEF DeleteFolder
  <2> HIDE DEF row
  <2>2. QED
    BY <1>1, <1>3, <2>1, WrittenKeeps
<1>5. CASE req[h].more # {}
  <2> DEFINE id == CHOOSE f \in req[h].more : TRUE
             k == [req[h] EXCEPT !.id = id, !.more = @ \ {id}, !.was = folders[id]]
  <2>1. req' = [req EXCEPT ![h] = k]
    BY <1>5 DEF DeleteFolder
  <2>2. id \in req[h].more
    BY <1>5
  <2> HIDE DEF row, id
  <2>3. id \in 1..Len(folders) /\ req[h].more \subseteq 1..Len(folders)
    BY <2>2 DEF Points
  <2>4. id \in Nat /\ req[h].more \ {id} \in SUBSET Ids /\ folders[id] \in Folder
    BY <2>3 DEF Request
  <2>5. k \in Request
    BY <2>4 DEF Request
  <2>6. /\ k.cmd = "delete" /\ k.pc = "write" /\ k.dev = req[h].dev /\ k.id = id
        /\ k.more = req[h].more \ {id}
    BY <1>1 DEF Request
  <2>7. req[h].dev = NoDev
    BY <1>1, <1>5 DEF ChangeOK, Commands
  <2> HIDE DEF k
  <2>8. /\ folders' \in Seq(Folder) /\ Len(folders') = Len(folders)
        /\ Len(folders') <= MaxFolders
        /\ folderSeq' = folderSeq + 1 /\ Later(folders, folders', folderSeq)
    BY <1>1, <1>2, <1>3, TouchLater
  <2>9. Placed(k) /\ SyncOK(k, folders', folderSeq + 1, dev) /\ ChangeOK(k, folders', folderSeq + 1)
    BY <2>6, <2>7 DEF Placed, SyncOK, ChangeOK, Commands
  <2>10. Points(k, folders')
    BY <2>3, <2>6, <2>8 DEF Points
  <2>11. QED
    BY <1>1, <2>1, <2>5, <2>6, <2>8, <2>9, <2>10, Writes DEF RequestOK
<1>6. QED
  BY <1>4, <1>5

LEMMA RenameFolderKeeps ==
  ASSUME IInv, NEW h \in Handlers, RenameFolder(h)
  PROVE  IInv'
<1> USE Parts, Handled
<1> DEFINE old == folders[req[h].id]
           row == [old EXCEPT !.name = req[h].name, !.seq = folderSeq + 1]
           c == req[h].clean /\ old = req[h].was
           k == [req[h] EXCEPT !.pc = "reparent", !.was = row, !.clean = c]
<1>1. /\ req[h].cmd = "update" /\ req[h].pc = "write" /\ Touch(req[h].id, row)
      /\ UNCHANGED <<public, dev, cmds, faults>>
  BY DEF RenameFolder
<1>2. req[h].id \in 1..Len(folders) /\ old \in Folder /\ req[h].name \in Names
  BY <1>1 DEF Points, Request
<1> HIDE DEF old
<1>3. /\ row \in Folder /\ row.seq = folderSeq + 1 /\ row.type = old.type
      /\ row.name = req[h].name /\ row.parent = old.parent
  <2>1. folderSeq + 1 \in Nat
    OBVIOUS
  <2>2. QED
    BY <1>2, <2>1 DEF Folder
<1>4. row.deleted = old.deleted
  BY <1>2 DEF Folder
<1>5. c /\ req[h].dev # NoDev => ~row.deleted
  BY <1>1, <1>4, Zenon DEF ChangeOK, Commands
<1>6. CASE req[h].parent = req[h].was.parent
  <2>1. req' = [req EXCEPT ![h] = Written(req[h], row)]
    BY <1>6 DEF RenameFolder, old
  <2> HIDE DEF row
  <2>2. c /\ req[h].dev # NoDev => row.parent = req[h].parent /\ row.name = req[h].name /\ ~row.deleted
    BY <1>3, <1>5, <1>6
  <2>3. QED
    BY <1>1, <1>3, <2>1, <2>2, WrittenKeeps DEF old
<1>7. CASE req[h].parent # req[h].was.parent
  <2>1. req' = [req EXCEPT ![h] = k]
    BY <1>7 DEF RenameFolder, old
  <2>2. c \in BOOLEAN
    BY DEF Request
  <2> HIDE DEF c, row
  <2>3. k \in Request /\ k.clean = c
    <3>1. req[h] \in Request /\ row \in Folder
      BY <1>3
    <3>2. \A b \in BOOLEAN : LET q == [req[h] EXCEPT !.pc = "reparent", !.was = row, !.clean = b]
                              IN  q \in Request /\ q.clean = b
      BY <3>1, WrittenRequest
    <3>3. QED
      BY <2>2, <3>2
  <2>4. /\ k.cmd = "update" /\ k.pc = "reparent" /\ k.dev = req[h].dev /\ k.id = req[h].id
        /\ k.was = row /\ k.more = req[h].more /\ k.name = req[h].name
    BY <1>1 DEF Request
  <2>5. k.clean = c
    BY <2>3
  <2> HIDE DEF k
  <2>6. /\ folders' \in Seq(Folder) /\ Len(folders') = Len(folders)
        /\ Len(folders') <= MaxFolders /\ folders'[req[h].id] = row /\ folderSeq' = folderSeq + 1
        /\ Later(folders, folders', folderSeq)
    BY <1>1, <1>2, <1>3, TouchLater DEF old
  <2>7. Placed(k) /\ SyncOK(k, folders', folderSeq + 1, dev)
    BY <2>4 DEF Placed, SyncOK, Commands
  <2>8. Points(k, folders')
    BY <1>2, <2>4, <2>6 DEF Points
  <2>9. ChangeOK(k, folders', folderSeq + 1)
    <3> SUFFICES ASSUME k.dev # NoDev PROVE ChangeOK(k, folders', folderSeq + 1)
      BY DEF ChangeOK
    <3>1. k.more = {}
      BY <1>1, <2>4 DEF ChangeOK, Commands
    <3>2. k.clean => ~k.was.deleted
      BY <1>5, <2>4, <2>5
    <3>3. QED
      BY <1>3, <2>4, <2>6, <3>1, <3>2 DEF ChangeOK, Commands
  <2>10. QED
    BY <1>1, <2>1, <2>3, <2>4, <2>6, <2>7, <2>8, <2>9, Writes DEF RequestOK
<1>8. QED
  BY <1>6, <1>7

LEMMA RenameSkippedKeeps ==
  ASSUME IInv, NEW h \in Handlers, RenameSkipped(h)
  PROVE  IInv'
<1> USE Parts, Handled
<1>1. /\ req[h].cmd = "update" /\ req[h].pc = "write" /\ req[h].name = req[h].was.name
      /\ UNCHANGED <<folders, folderSeq, public, dev, cmds, faults>>
  BY DEF RenameSkipped
<1>2. ASSUME NEW pc \in {"reparent", "key"},
             pc = "key" => req[h].parent = req[h].was.parent,
             req' = [req EXCEPT ![h] = [req[h] EXCEPT !.pc = pc]]
      PROVE  IInv'
  <2> DEFINE k == [req[h] EXCEPT !.pc = pc]
  <2>1. k \in Request
    BY DEF Request
  <2>2. /\ k.cmd = "update" /\ k.pc = pc /\ k.dev = req[h].dev /\ k.id = req[h].id
        /\ k.was = req[h].was /\ k.more = req[h].more /\ k.name = req[h].name
        /\ k.parent = req[h].parent
    BY <1>1 DEF Request
  <2>3. k.clean = req[h].clean
    BY DEF Request
  <2>4. req' = [req EXCEPT ![h] = k]
    BY <1>2
  <2> HIDE DEF k
  <2>5. Placed(k) /\ SyncOK(k, folders, folderSeq, dev) /\ Points(k, folders)
    BY <1>1, <2>2 DEF Placed, SyncOK, Points, Commands
  <2>6. ChangeOK(k, folders, folderSeq)
    BY <1>1, <1>2, <2>2, <2>3 DEF ChangeOK, Commands
  <2>7. k.dev # NoDev => \A g \in Handlers : g # h => req[g].dev # k.dev
    BY <2>2 DEF OneRequest
  <2>8. QED
    BY <1>1, <2>1, <2>4, <2>5, <2>6, <2>7, Moves DEF RequestOK
<1>3. CASE req[h].parent # req[h].was.parent
  BY <1>2, <1>3 DEF RenameSkipped
<1>4. CASE req[h].parent = req[h].was.parent /\ req[h].dev = NoDev
  BY <1>1, <1>4, Drops DEF RenameSkipped
<1>5. CASE req[h].parent = req[h].was.parent /\ req[h].dev # NoDev
  BY <1>2, <1>5 DEF RenameSkipped
<1>6. QED
  BY <1>3, <1>4, <1>5

LEMMA ReparentFolderKeeps ==
  ASSUME IInv, NEW h \in Handlers, ReparentFolder(h)
  PROVE  IInv'
<1> USE Parts, Handled
<1> DEFINE old == folders[req[h].id]
           row == [old EXCEPT !.parent = req[h].parent, !.seq = folderSeq + 1]
<1>1. /\ req[h].pc = "reparent" /\ Touch(req[h].id, row)
      /\ req' = [req EXCEPT ![h] = Written(req[h], row)]
      /\ UNCHANGED <<public, dev, cmds, faults>>
  BY DEF ReparentFolder
<1>2. req[h].cmd = "update"
  BY <1>1 DEF Placed
<1>3. old \in Folder /\ req[h].parent \in Nat
  BY <1>2 DEF Points, Request
<1> HIDE DEF old
<1>4. /\ row \in Folder /\ row.seq = folderSeq + 1 /\ row.type = old.type
      /\ row.parent = req[h].parent /\ row.name = old.name
  <2>1. folderSeq + 1 \in Nat
    OBVIOUS
  <2>2. QED
    BY <1>3, <2>1 DEF Folder
<1>5. row.deleted = old.deleted
  BY <1>3 DEF Folder
<1> HIDE DEF row
<1>6. req[h].dev # NoDev /\ req[h].clean /\ old = req[h].was =>
        row.parent = req[h].parent /\ row.name = req[h].name /\ ~row.deleted
  BY <1>1, <1>2, <1>4, <1>5, Zenon DEF ChangeOK, Commands
<1>7. QED
  BY <1>1, <1>2, <1>4, <1>6, WrittenKeeps DEF old

\* Whether the key can be read or not, it is not above the account's counter.
LEMMA FolderSyncKeyKeeps ==
  ASSUME IInv, NEW h \in Handlers, FolderSyncKey(h) \/ FolderSyncKeyFails(h)
  PROVE  IInv'
<1> USE Parts, Handled
<1>1. PICK n \in Nat : n <= folderSeq /\ req' = [req EXCEPT ![h].pc = "answer", ![h].seq = n]
  BY DEF FolderSyncKey, FolderSyncKeyFails, Numbered
<1>2. /\ req[h].pc = "key" /\ UNCHANGED <<folders, folderSeq, public, dev>>
      /\ cmds' \in Nat /\ faults' \in Nat
  BY DEF FolderSyncKey, FolderSyncKeyFails
<1> DEFINE k == [req[h] EXCEPT !.pc = "answer", !.seq = n]
<1>3. k \in Request /\ req' = [req EXCEPT ![h] = k]
  BY <1>1 DEF Request
<1>4. /\ k.cmd = req[h].cmd /\ k.pc = "answer" /\ k.dev = req[h].dev /\ k.id = req[h].id
      /\ k.was = req[h].was /\ k.more = req[h].more /\ k.name = req[h].name
      /\ k.parent = req[h].parent /\ k.seq = n
  BY DEF Request
<1>5. k.clean = req[h].clean
  BY DEF Request
<1> HIDE DEF k
<1>6. req[h].cmd \in Commands
  BY <1>2 DEF Placed
<1>7. Placed(k) /\ SyncOK(k, folders, folderSeq, dev) /\ Points(k, folders)
  BY <1>2, <1>4, <1>6 DEF Placed, SyncOK, Points, Commands
<1>8. ChangeOK(k, folders, folderSeq)
  BY <1>1, <1>2, <1>4, <1>5 DEF ChangeOK, Commands
<1>9. k.dev # NoDev => \A g \in Handlers : g # h => req[g].dev # k.dev
  BY <1>4 DEF OneRequest
<1>10. QED
  BY <1>2, <1>3, <1>7, <1>8, <1>9, Moves DEF RequestOK

LEMMA GiveUpKeeps ==
  ASSUME IInv, NEW h \in Handlers, GiveUp(h)
  PROVE  IInv'
<1> USE Parts, Handled
<1>1. UNCHANGED <<folders, folderSeq, public, dev>> /\ cmds' \in Nat /\ faults' \in Nat
  BY DEF GiveUp
<1>2. CASE req[h].pc \in {"write", "reparent"}
  <2> DEFINE k == [req[h] EXCEPT !.dev = NoDev]
  <2>1. k \in Request /\ req' = [req EXCEPT ![h] = k]
    BY <1>2 DEF GiveUp, Request
  <2>2. /\ k.cmd = req[h].cmd /\ k.pc = req[h].pc /\ k.dev = NoDev /\ k.id = req[h].id
        /\ k.more = req[h].more
    BY DEF Request
  <2> HIDE DEF k
  <2>3. req[h].cmd \in Commands
    BY <1>2 DEF Placed, Commands
  <2>4. /\ Placed(k) /\ SyncOK(k, folders, folderSeq, dev) /\ Points(k, folders)
        /\ ChangeOK(k, folders, folderSeq)
    BY <1>2, <2>2, <2>3 DEF Placed, SyncOK, Points, ChangeOK, Commands
  <2>5. QED
    BY <1>1, <2>1, <2>2, <2>4, Moves DEF RequestOK
<1>3. CASE req[h].pc \notin {"write", "reparent"}
  BY <1>1, <1>3, Drops DEF GiveUp
<1>4. QED
  BY <1>2, <1>3

LEMMA DropKeeps ==
  ASSUME IInv, NEW h \in Handlers, Refuse(h) \/ StatementFails(h)
  PROVE  IInv'
<1>1. CASE Refuse(h)
  <2>1. /\ req' = [req EXCEPT ![h] = Free]
        /\ UNCHANGED <<folders, folderSeq, public, dev, cmds, faults>>
    BY <1>1 DEF Refuse
  <2>2. QED
    BY <2>1, Parts, Drops
<1>2. CASE StatementFails(h)
  <2>1. /\ req' = [req EXCEPT ![h] = Free] /\ faults' = faults + 1
        /\ UNCHANGED <<folders, folderSeq, public, dev, cmds>>
    BY <1>2 DEF StatementFails
  <2>2. cmds' \in Nat /\ faults' \in Nat
    BY <2>1, Parts
  <2>3. QED
    BY <2>1, <2>2, Drops
<1>3. QED
  BY <1>1, <1>2

LEMMA CrashKeeps ==
  ASSUME IInv, Crash
  PROVE  IInv'
<1> USE Parts
<1>1. \A h \in Handlers : req'[h] = Free
  BY DEF Crash
<1>2. TypeOK'
  BY FreeIsOK DEF IInv, TypeOK, Crash
<1>3. OneRequest'
  BY <1>1, FreeIsOK DEF OneRequest
<1>4. \A h \in Handlers : RequestOK(req'[h], folders', folderSeq', dev')
  BY <1>1, FreeIsOK DEF Crash
<1>5. QED
  BY <1>2, <1>3, <1>4 DEF IInv, KeysOK, Told, EntryOf, Crash

LEMMA SetFolderPublicKeeps ==
  ASSUME IInv, NEW f \in Ids, NEW on \in BOOLEAN, SetFolderPublic(f, on)
  PROVE  IInv'
<1> USE Parts
<1>1. UNCHANGED <<folders, folderSeq, dev, req, faults>> /\ cmds' \in Nat
  BY DEF SetFolderPublic
<1>2. public \subseteq {g \in DOMAIN folders : folders[g].type = 8}
  BY DEF IInv, TypeOK
<1>3. f \in DOMAIN folders /\ folders[f].type = 8
  BY DEF SetFolderPublic, FolderByType, Live
<1>4. public' \subseteq public \cup {f}
  BY DEF SetFolderPublic
<1>5. public' \subseteq {g \in DOMAIN folders : folders[g].type = 8}
  BY <1>2, <1>3, <1>4
<1>6. TypeOK'
  BY <1>1, <1>5 DEF IInv, TypeOK
<1>7. QED
  BY <1>1, <1>6 DEF IInv, KeysOK, OneRequest, Told, EntryOf

(***************************************************************************)
(* Answers.                                                                *)
(***************************************************************************)

\* An answer changes one device; the other requests are of other devices.
LEMMA Answers ==
  ASSUME IInv, NEW h \in Handlers, NEW d \in Devices, NEW s \in Device,
         req[h].dev = d, dev' = [dev EXCEPT ![d] = s], req' = [req EXCEPT ![h] = Free],
         s.key <= folderSeq,
         \A f \in 1..Len(folders) :
           s.key # 0 /\ folders[f].seq <= s.key /\ f \notin s.jumped =>
             s.view[f] = EntryOf(folders[f]),
         UNCHANGED <<folders, folderSeq, public, cmds, faults>>
  PROVE  IInv'
<1> USE Parts
<1>1. req'[h] = Free /\ \A g \in Handlers : g # h => req'[g] = req[g]
  OBVIOUS
<1>2. dev'[d] = s /\ \A e \in Devices : e # d => dev'[e] = dev[e]
  OBVIOUS
<1>3. TypeOK'
  BY FreeIsOK DEF IInv, TypeOK
<1>4. OneRequest'
  BY <1>1, FreeIsOK DEF OneRequest
<1>5. KeysOK'
  BY <1>2 DEF KeysOK
<1>6. ASSUME NEW g \in Handlers PROVE RequestOK(req'[g], folders, folderSeq, dev')
  <2>1. CASE g = h
    BY <1>1, <2>1, FreeIsOK
  <2>2. CASE g # h
    <3>1. req'[g] = req[g] /\ RequestOK(req[g], folders, folderSeq, dev)
      BY <1>1, <2>2
    <3>2. req[g].dev # d
      BY <2>2 DEF OneRequest
    <3>3. SyncOK(req[g], folders, folderSeq, dev')
      BY <1>2, <3>1, <3>2 DEF RequestOK, SyncOK, Placed
    <3>4. QED
      BY <3>1, <3>3 DEF RequestOK
  <2>3. QED
    BY <2>1, <2>2
<1>7. Told'
  <2> SUFFICES ASSUME NEW e \in Devices, NEW f \in DOMAIN folders,
                      dev'[e].key # 0, folders[f].seq <= dev'[e].key, f \notin dev'[e].jumped
               PROVE  dev'[e].view[f] = EntryOf(folders[f])
    BY DEF Told, EntryOf
  <2>1. CASE e = d
    BY <1>2, <2>1
  <2>2. CASE e # d
    BY <1>2, <2>2 DEF Told
  <2>3. QED
    BY <2>1, <2>2
<1>8. QED
  BY <1>3, <1>4, <1>5, <1>6, <1>7 DEF IInv

LEMMA EntryType ==
  ASSUME NEW row \in Folder
  PROVE  EntryOf(row) \in Entry \cup {NoEntry}
  BY DEF EntryOf, Folder, Entry

\* FolderSync: what its new key covers is in the list, or was covered by the old one.
LEMMA SyncAnswered ==
  ASSUME IInv, NEW h \in Handlers, Answered(h), req[h].cmd = "sync"
  PROVE  IInv'
<1> USE Parts, Handled
<1> DEFINE r == req[h]  d == req[h].dev  s == Synced(dev[d], r)
<1>1. /\ r.pc = "answer" /\ d \in Devices /\ dev' = [dev EXCEPT ![d] = s]
      /\ req' = [req EXCEPT ![h] = Free] /\ UNCHANGED <<folders, folderSeq, public, cmds, faults>>
  BY DEF Answered, Placed
<1>2. /\ r.since = dev[d].key /\ r.since <= r.seq /\ 2 <= r.seq /\ r.seq <= folderSeq
      /\ \A f \in 1..Len(folders) :
           folders[f].seq <= r.seq => f \in 1..Len(r.list) /\ r.list[f] = folders[f]
  BY <1>1 DEF SyncOK
<1>3. r \in Request /\ r.since \in Nat /\ r.seq \in Nat /\ r.list \in Seq(Folder) /\ dev[d] \in Device
  BY <1>1 DEF Request
<1>4. DOMAIN r.list = 1..Len(r.list) /\ \A f \in 1..Len(r.list) : r.list[f] \in Folder
  BY <1>3, Tables
<1>5. s = [key |-> r.seq,
           view |-> [f \in Ids |-> IF Sent(r, f) THEN EntryOf(r.list[f])
                                   ELSE IF r.since = 0 THEN NoEntry ELSE dev[d].view[f]],
           jumped |-> IF r.since = 0 THEN {} ELSE dev[d].jumped \ {f \in Ids : Sent(r, f)}]
  <2>1. ~Refused(r.since, r.seq) /\ ~(r.seq < 1)
    BY <1>2, <1>3 DEF Refused
  <2>2. QED
    BY <2>1 DEF Synced
<1>6. s \in Device
  <2>1. \A f \in Ids : (IF Sent(r, f) THEN EntryOf(r.list[f])
                         ELSE IF r.since = 0 THEN NoEntry ELSE dev[d].view[f]) \in Entry \cup {NoEntry}
    <3> TAKE f \in Ids
    <3>1. Sent(r, f) => EntryOf(r.list[f]) \in Entry \cup {NoEntry}
      BY <1>4, EntryType DEF Sent
    <3>2. dev[d].view[f] \in Entry \cup {NoEntry}
      BY <1>3 DEF Device
    <3>3. QED
      BY <3>1, <3>2
  <2>2. (IF r.since = 0 THEN {} ELSE dev[d].jumped \ {f \in Ids : Sent(r, f)}) \in SUBSET Ids
    BY <1>3 DEF Device
  <2> HIDE DEF s
  <2>3. QED
    BY <1>3, <1>5, <2>1, <2>2 DEF Device
<1>7. ASSUME NEW f \in 1..Len(folders), folders[f].seq <= s.key, f \notin s.jumped
      PROVE  s.view[f] = EntryOf(folders[f])
  <2>1. f \in Ids
    BY DEF Ids
  <2>2. s.key = r.seq /\ s.view[f] = (IF Sent(r, f) THEN EntryOf(r.list[f])
                                      ELSE IF r.since = 0 THEN NoEntry ELSE dev[d].view[f])
    BY <1>5, <2>1
  <2>3. f \in DOMAIN r.list /\ r.list[f] = folders[f]
    BY <1>2, <1>4, <1>7, <2>2
  <2>4. CASE Sent(r, f)
    BY <2>2, <2>3, <2>4
  <2>5. CASE ~Sent(r, f) /\ r.since = 0
    <3>1. folders[f].deleted
      BY <2>3, <2>5 DEF Sent
    <3>2. s.view[f] = NoEntry
      BY <2>2, <2>5
    <3>3. QED
      BY <3>1, <3>2 DEF EntryOf
  <2>6. CASE ~Sent(r, f) /\ r.since # 0
    <3>1. folders[f].seq \in Nat
      BY DEF Folder
    <3>2. folders[f].seq <= dev[d].key /\ dev[d].key # 0
      BY <1>2, <1>3, <2>3, <2>6, <3>1 DEF Sent
    <3>3. f \notin dev[d].jumped
      BY <1>5, <1>7, <2>6
    <3>4. s.view[f] = dev[d].view[f]
      BY <2>2, <2>6
    <3>5. QED
      BY <1>1, <3>2, <3>3, <3>4 DEF Told
  <2>7. QED
    BY <2>4, <2>5, <2>6
<1>8. s.key <= folderSeq
  BY <1>2, <1>5
<1> HIDE DEF s
<1>9. QED
  BY <1>1, <1>6, <1>7, <1>8, Answers

\* A change of the device's own: the folder it wrote shows as it wrote it, and every other
\* folder was covered by the old key or is jumped over.
LEMMA ChangeAnswered ==
  ASSUME IInv, NEW h \in Handlers, Answered(h), req[h].cmd # "sync"
  PROVE  IInv'
<1> USE Parts, Handled
<1> DEFINE r == req[h]  d == req[h].dev  s == Changed(dev[d], r)
           own == IF r.cmd = "delete" THEN NoEntry ELSE [parent |-> r.parent, name |-> r.name]
<1>1. /\ r.pc = "answer" /\ d # NoDev /\ dev' = [dev EXCEPT ![d] = s]
      /\ req' = [req EXCEPT ![h] = Free] /\ UNCHANGED <<folders, folderSeq, public, cmds, faults>>
  BY DEF Answered
<1>2. r.cmd \in Commands /\ d \in Devices /\ r.id \in 1..Len(folders)
  BY <1>1 DEF Placed, Points, Request, Commands
<1>3. /\ r.seq <= folderSeq
      /\ folders[r.id].seq = r.was.seq => folders[r.id] = r.was
      /\ r.clean => IF r.cmd = "delete" THEN r.was.deleted
                    ELSE r.was.parent = r.parent /\ r.was.name = r.name /\ ~r.was.deleted
  BY <1>1, <1>2 DEF ChangeOK
<1>4. r.seq \in Nat /\ dev[d] \in Device /\ r.parent \in Nat /\ r.name \in Names /\ r.id \in Ids
  BY <1>2 DEF Request, Ids
<1>5. /\ s.key = r.seq /\ s.view = [dev[d].view EXCEPT ![r.id] = own]
      /\ s.jumped = {f \in Ids : /\ f \in DOMAIN folders /\ ~Own(r, f)
                                 /\ f \in dev[d].jumped \/ f = r.id
                                    \/ (dev[d].key < folders[f].seq /\ folders[f].seq <= r.seq)}
  BY DEF Changed
<1>6. s \in Device
  <2>1. own \in Entry \cup {NoEntry}
    BY <1>4 DEF Entry
  <2> HIDE DEF own
  <2>2. s.view \in [Ids -> Entry \cup {NoEntry}]
    BY <1>4, <1>5, <2>1 DEF Device
  <2>3. s = [key |-> s.key, view |-> s.view, jumped |-> s.jumped]
    BY DEF Changed
  <2> HIDE DEF s
  <2>4. s.jumped \in SUBSET Ids
    BY <1>5
  <2>5. QED
    BY <1>4, <1>5, <2>2, <2>3, <2>4 DEF Device
<1> HIDE DEF s
<1>7. ASSUME NEW f \in 1..Len(folders), folders[f].seq <= s.key, f \notin s.jumped
      PROVE  s.view[f] = EntryOf(folders[f])
  <2>1. f \in Ids /\ f \in DOMAIN folders /\ folders[f].seq \in Nat /\ dev[d].key \in Nat
    <3>1. f \in Ids /\ f \in DOMAIN folders
      BY DEF Ids
    <3>2. folders[f].seq \in Nat
      BY DEF Folder
    <3>3. dev[d].key \in Nat
      BY <1>4 DEF Device
    <3>4. QED
      BY <3>1, <3>2, <3>3
  <2>2. CASE Own(r, f)
    <3>1. f = r.id /\ r.clean /\ folders[f] = r.was
      BY <1>3, <2>2 DEF Own
    <3>2. s.view[f] = own
      BY <1>4, <1>5, <3>1 DEF Device
    <3>3. own = EntryOf(folders[f])
      BY <1>3, <3>1 DEF EntryOf
    <3>4. QED
      BY <3>2, <3>3
  <2>3. CASE ~Own(r, f)
    <3>1. f \notin dev[d].jumped /\ f # r.id /\ folders[f].seq <= dev[d].key
      BY <1>4, <1>5, <1>7, <2>1, <2>3
    <3>2. dev[d].key # 0
      BY <2>1, <3>1 DEF Numbered
    <3>3. s.view[f] = dev[d].view[f]
      BY <1>4, <1>5, <2>1, <3>1 DEF Device
    <3>4. QED
      BY <1>2, <2>1, <3>1, <3>2, <3>3 DEF Told
  <2>4. QED
    BY <2>2, <2>3
<1>8. QED
  BY <1>1, <1>2, <1>3, <1>5, <1>6, <1>7, Answers

(***************************************************************************)
(* The theorems.                                                           *)
(***************************************************************************)

LEMMA InitIInv == Init => IInv
<1> SUFFICES ASSUME Init PROVE IInv
  OBVIOUS
<1> DEFINE cal == NewFolder(0, CalendarName, 8, 2)
<1>1. /\ Inbox \in Folder /\ Inbox.seq = 1 /\ cal \in Folder /\ cal.seq = 2
  BY DEF Inbox, NewFolder, Folder
<1>2. folders = <<Inbox, cal>> /\ folderSeq = 2 /\ public = {} /\ cmds = 0 /\ faults = 0
  BY DEF Init
<1> HIDE DEF cal
<1>3. folders \in Seq(Folder) /\ Len(folders) = 2 /\ folders[1] = Inbox /\ folders[2] = cal
  BY <1>1, <1>2
<1>4. \A d \in Devices : dev[d] \in Device /\ dev[d].key = 0
  BY DEF Init, Device
<1>5. \A h \in Handlers : req[h] = Free
  BY DEF Init
<1>6. TypeOK
  <2>1. dev \in [Devices -> Device]
    BY <1>4 DEF Init
  <2>2. req \in [Handlers -> Request]
    BY FreeIsOK DEF Init
  <2>3. QED
    BY <1>2, <1>3, <2>1, <2>2 DEF TypeOK
<1>7. Numbered(folders, folderSeq)
  BY <1>1, <1>2, <1>3 DEF Numbered
<1>8. KeysOK /\ Told /\ OneRequest
  BY <1>2, <1>4, <1>5, FreeIsOK DEF KeysOK, Told, OneRequest
<1>9. \A h \in Handlers : RequestOK(req[h], folders, folderSeq, dev)
  BY <1>3, <1>5, FreeIsOK
<1>10. QED
  BY <1>6, <1>7, <1>8, <1>9 DEF IInv

LEMMA NextIInv == IInv /\ [Next]_vars => IInv'
<1> SUFFICES ASSUME IInv, [Next]_vars PROVE IInv'
  OBVIOUS
<1>1. ASSUME NEW h \in Handlers, Working(h) PROVE IInv'
  <2>1. CASE Answered(h)
    BY <2>1, SyncAnswered, ChangeAnswered
  <2>2. QED
    BY <1>1, <2>1, ListFoldersKeeps, InsertFolderKeeps, DeleteFolderKeeps, RenameFolderKeeps,
       RenameSkippedKeeps, ReparentFolderKeeps, DropKeeps, FolderSyncKeyKeeps DEF Working
<1>2. ASSUME NEW h \in Handlers, FolderSyncKeyFails(h) \/ StatementFails(h) \/ GiveUp(h)
      PROVE  IInv'
  BY <1>2, FolderSyncKeyKeeps, DropKeeps, GiveUpKeeps
<1>3. ASSUME UNCHANGED vars PROVE IInv'
  BY <1>3 DEF vars, IInv, TypeOK, KeysOK, OneRequest, Told, EntryOf
<1>4. QED
  BY <1>1, <1>2, <1>3, DeviceKeeps, OthersKeep, SetFolderPublicKeeps, CrashKeeps DEF Next

LEMMA Inductive == Spec => []IInv
  BY InitIInv, NextIInv, PTL DEF Spec

\* Type correctness of the hierarchy, and only calendars are public: no race of a rename,
\* a delete and SetFolderPublic publishes a folder of another type.
THEOREM TypeCorrect == Spec => []TypeOK
<1>1. IInv => TypeOK
  BY DEF IInv
<1>2. QED
  BY <1>1, Inductive, PTL

\* A device's folder key is a promise about every folder it covers, however FolderSync,
\* commands of other clients, lost answers, failed statements and crashes interleave.
THEOREM KeysTell == Spec => []Told
<1>1. IInv => Told
  BY DEF IInv
<1>2. QED
  BY <1>1, Inductive, PTL

\* No device holds a key above its account's folder_seq, and none is about to get one: the
\* key of a command whose folderSyncKey failed included.
NeverAhead ==
  /\ \A d \in Devices : dev[d].key <= folderSeq
  /\ \A h \in Handlers :
       /\ req[h].cmd = "sync" => ~Refused(req[h].since, req[h].seq)
       /\ req[h].dev # NoDev /\ req[h].pc = "answer" => req[h].seq <= folderSeq

\* A device that follows the account never gets status 9 from FolderSync: although the
\* account row was read before the key is compared with it, the comparison only ever
\* refuses keys that this account did not give out.
THEOREM NeverRefused == Spec => []NeverAhead
<1>1. IInv => NeverAhead
  <2> SUFFICES ASSUME IInv PROVE NeverAhead
    OBVIOUS
  <2>1. ASSUME NEW h \in Handlers
        PROVE  /\ req[h].cmd = "sync" => ~Refused(req[h].since, req[h].seq)
               /\ req[h].dev # NoDev /\ req[h].pc = "answer" => req[h].seq <= folderSeq
    <3>1. req[h].since \in Nat /\ req[h].seq \in Nat
      BY Handled DEF Request
    <3>2. req[h].pc = "answer" => req[h].cmd \in Commands \cup {"sync"}
      BY Handled DEF Placed, Commands, Request
    <3>3. QED
      BY <3>1, <3>2, Handled DEF SyncOK, ChangeOK, Refused
  <2>2. QED
    BY <2>1, Parts DEF NeverAhead, KeysOK
<1>2. QED
  BY <1>1, Inductive, PTL
=============================================================================
