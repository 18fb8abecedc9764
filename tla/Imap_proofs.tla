----------------------------- MODULE Imap_proofs -----------------------------
(***************************************************************************)
(* Proofs about Imap, for any numbers of folders, connections, handlers,   *)
(* messages, commands and faults.                                          *)
(*                                                                         *)
(* Two arguments, on top of the types.  The feed: while a command writes   *)
(* down what it did to a message, table and feed agree but for the folders *)
(* whose record is still to come (RecordOK), and a message that two        *)
(* commands record at once is tainted (OneRecorder).  The numbers: what a  *)
(* client has numbers for is the beginning of its folder (Beginning).      *)
(***************************************************************************)
EXTENDS Imap, SequenceTheorems, WellFoundedInduction, TLAPS

USE ImapAssumption

Recording(j) == j.pc \in {"log", "logAdd"}

\* Only what was deleted can be a ghost.
Sound(row) == row.deleted \/ ~row.ghost

\* Every command but MoveItems looks for messages that are not deleted.
Listable(cmd, row) == Sound(row) /\ (row.deleted => cmd = "moveitems")

\* A command in progress names rows and folders that exist.
JobOK(j, n) ==
  /\ j.pc # "free" => j.cmd # "none" /\ j.box \in Boxes
  /\ j.pc # "list"
  /\ j.cmd \in {"move", "moveitems"} => j.dst \in Boxes
  /\ j.pc = "logAdd" => MovesOn(j)
  /\ j.pc = "write" /\ j.cmd # "append" => j.ids # {}
  /\ j.cmd = "append" => j.ids = {} /\ j.op[1] = "FLAGS" /\ "deleted" \notin j.op[2]
  /\ Len(j.snap) <= n
  /\ j.ids \subseteq 1..Len(j.snap)
  /\ \A i \in j.ids : j.snap[i].box = j.box /\ Listable(j.cmd, j.snap[i])
  /\ Recording(j) => j.at \in 1..n /\ (j.cmd # "append" => j.at \in 1..Len(j.snap))

Announced(la, f, i) == la[<<f, i>>] \in {"add", "change"}

LiveIn(row, f) == row.box = f /\ ~row.deleted

\* Devices are shown what lives in a folder, and ghosts.
Shown(row, f) == row.box = f /\ (~row.deleted \/ row.ghost)

\* Table and feed agree about message i, except in the folders of F.
Agree(row, la, i, F) == \A f \in Boxes \ F : Shown(row, f) <=> Announced(la, f, i)

\* What the records still to come will repair.
RecordOK(j, row, la) ==
  IF MovesOn(j)
  THEN Shown(row, j.dst) /\ Agree(row, la, j.at, IF j.pc = "log" THEN {j.box, j.dst} ELSE {j.dst})
  ELSE /\ Shown(row, j.box) <=> Kind(j) \in {"add", "change"}
       /\ Agree(row, la, j.at, {j.box})

RecordsOK(rs, la, jb, ta) ==
  \A a \in Actors : Recording(jb[a]) /\ jb[a].at \notin ta => RecordOK(jb[a], rs[jb[a].at], la)

\* A message that two commands record at the same time is tainted.
OneRecorder(jb, ta) ==
  \A a, b \in Actors :
    a # b /\ Recording(jb[a]) /\ Recording(jb[b]) /\ jb[a].at = jb[b].at => jb[a].at \in ta

\* Nothing was announced of a message that does not exist yet.
Unborn(rs, la) == \A f \in Boxes, i \in Ids : i > Len(rs) => ~Announced(la, f, i)

Recorders(jb, i) == {a \in Actors : Recording(jb[a]) /\ jb[a].at = i}

Agreement(rs, la, jb, ta) ==
  \A i \in 1..Len(rs) : i \notin ta /\ Recorders(jb, i) = {} => Agree(rs[i], la, i, {})

FeedOK(rs, la, jb, ta) ==
  /\ \A a \in Actors : JobOK(jb[a], Len(rs))
  /\ RecordsOK(rs, la, jb, ta) /\ OneRecorder(jb, ta) /\ Unborn(rs, la)
  /\ Agreement(rs, la, jb, ta)
  /\ \A i \in 1..Len(rs) : Sound(rs[i])

\* The messages a client has numbers for are the first ones of its folder.
Beginning(s, rs) ==
  s.selected # NoBox /\ ~s.shifted =>
    /\ \A i \in s.told : i \in 1..Len(rs) /\ LiveIn(rs[i], s.selected)
    /\ \A i \in 1..Len(rs) : LiveIn(rs[i], s.selected) /\ i \notin s.told => \A k \in s.told : k < i

IInv ==
  /\ TypeOK
  /\ FeedOK(rows, last, job, tainted)
  /\ \A c \in Conns : Beginning(sess[c], rows)

(***************************************************************************)
(* Numbers and rows.                                                       *)
(***************************************************************************)

LEMMA Least ==
  ASSUME NEW S \in SUBSET Nat, S # {}
  PROVE  \E x \in S : \A y \in S : x <= y
<1>1. PICK x \in S : \A y \in S : ~(<<y, x>> \in OpToRel(<, Nat))
  BY NatLessThanWellFounded, WFMin
<1>2. ASSUME NEW y \in S PROVE x <= y
  <2>1. <<y, x>> \in Nat \X Nat
    OBVIOUS
  <2>2. ~(y < x)
    BY <1>1, <2>1 DEF OpToRel
  <2>3. QED
    BY <2>2
<1>3. QED
  BY <1>2

LEMMA Greatest ==
  ASSUME NEW n \in Nat, NEW S \in SUBSET (1..n), S # {}
  PROVE  \E x \in S : \A y \in S : y <= x
<1> DEFINE T == {n - y : y \in S}
<1>1. T \in SUBSET Nat /\ T # {}
  <2>1. \A y \in S : n - y \in Nat
    OBVIOUS
  <2>2. QED
    BY <2>1, Zenon
<1>2. PICK t \in T : \A u \in T : t <= u
  BY <1>1, Least
<1>3. PICK x \in S : t = n - x
  OBVIOUS
<1>4. ASSUME NEW y \in S PROVE y <= x
  <2>1. n - y \in T /\ y \in Nat /\ x \in Nat
    OBVIOUS
  <2>2. n - x <= n - y
    BY <1>2, <1>3, <2>1
  <2>3. QED
    BY <2>1, <2>2
<1>5. QED
  BY <1>4

LEMMA FirstIn ==
  ASSUME NEW ids \in SUBSET Nat, ids # {}
  PROVE  First(ids) \in ids
  BY Least DEF First

LEMMA Tables ==
  ASSUME NEW rs \in Seq(Row)
  PROVE  Len(rs) \in Nat /\ DOMAIN rs = 1..Len(rs) /\ \A i \in 1..Len(rs) : rs[i] \in Row
  BY LenProperties

LEMMA NextUIDType ==
  ASSUME rows \in Seq(Row), NEW f
  PROVE  NextUID(f) \in Nat
<1> DEFINE used == {i \in DOMAIN rows : rows[i].box = f}
           top == CHOOSE i \in used : \A k \in used : k <= i
<1>1. used \in SUBSET (1..Len(rows)) /\ Len(rows) \in Nat
  BY Tables
<1>2. NextUID(f) = IF used = {} THEN 1 ELSE 1 + top
  BY DEF NextUID
<1>3. used # {} => top \in used
  <2> HIDE DEF used
  <2>1. used # {} => \E i \in used : \A k \in used : k <= i
    BY <1>1, Greatest
  <2>2. QED
    BY <2>1
<1> HIDE DEF used, top
<1>4. used # {} => top \in Nat
  <2>1. used # {} => top \in 1..Len(rows)
    BY <1>1, <1>3
  <2>2. QED
    BY <1>1, <2>1
<1>5. QED
  BY <1>2, <1>4

(***************************************************************************)
(* Steps on the feed.                                                      *)
(***************************************************************************)

LEMMA JobOKLater ==
  ASSUME NEW j, NEW n \in Nat, NEW m \in Nat, n <= m, Len(j.snap) \in Nat, JobOK(j, n)
  PROVE  JobOK(j, m)
  BY DEF JobOK

\* A command begins, fails, or loses a record: what it leaves unrecorded is tainted.
LEMMA Loses ==
  ASSUME NEW rs, NEW la, NEW jb \in [Actors -> Job], NEW ta, NEW tb, FeedOK(rs, la, jb, ta),
         NEW a \in Actors, NEW j, JobOK(j, Len(rs)), ta \subseteq tb,
         Recording(jb[a]) => jb[a].at \in tb, Recording(j) => j.at \in tb
  PROVE  FeedOK(rs, la, [jb EXCEPT ![a] = j], tb)
<1> DEFINE jc == [jb EXCEPT ![a] = j]
<1>1. jc[a] = j /\ \A b \in Actors : b # a => jc[b] = jb[b]
  OBVIOUS
<1> HIDE DEF jc
<1>2. \A b \in Actors : JobOK(jc[b], Len(rs))
  BY <1>1 DEF FeedOK
<1>3. RecordsOK(rs, la, jc, tb)
  BY <1>1 DEF FeedOK, RecordsOK
<1>4. OneRecorder(jc, tb)
  BY <1>1 DEF FeedOK, OneRecorder
<1>5. ASSUME NEW i, i \notin tb, Recorders(jc, i) = {} PROVE i \notin ta /\ Recorders(jb, i) = {}
  BY <1>1, <1>5 DEF Recorders
<1>6. Agreement(rs, la, jc, tb)
  BY <1>5 DEF FeedOK, Agreement
<1>7. QED
  BY <1>2, <1>3, <1>4, <1>6 DEF FeedOK, jc

\* A command adds a record of the message it is at.
LEMMA Records ==
  ASSUME NEW rs, NEW la, NEW lb, NEW jb \in [Actors -> Job], NEW ta, FeedOK(rs, la, jb, ta),
         NEW a \in Actors, NEW j, JobOK(j, Len(rs)), Len(rs) \in Nat, Len(rs) <= MaxMsgs,
         Recording(jb[a]),
         \A f \in Boxes, i \in Ids : i # jb[a].at => lb[<<f, i>>] = la[<<f, i>>],
         Recording(j) => j.at = jb[a].at,
         jb[a].at \notin ta => IF Recording(j) THEN RecordOK(j, rs[j.at], lb)
                                               ELSE Agree(rs[jb[a].at], lb, jb[a].at, {})
  PROVE  FeedOK(rs, lb, [jb EXCEPT ![a] = j], ta)
<1> DEFINE jc == [jb EXCEPT ![a] = j]
<1>1. jc[a] = j /\ \A b \in Actors : b # a => jc[b] = jb[b]
  OBVIOUS
<1> HIDE DEF jc
<1>2. \A b \in Actors : JobOK(jc[b], Len(rs)) /\ JobOK(jb[b], Len(rs))
  BY <1>1 DEF FeedOK
<1>3. 1..Len(rs) \subseteq Ids /\ jb[a].at \in 1..Len(rs)
  BY <1>2 DEF Ids, JobOK
<1>4. OneRecorder(jc, ta)
  BY <1>1 DEF FeedOK, OneRecorder
<1>5. ASSUME NEW i \in Ids, i # jb[a].at, NEW row, NEW F PROVE Agree(row, la, i, F) <=> Agree(row, lb, i, F)
  BY <1>5 DEF Agree, Announced
<1>6. RecordsOK(rs, lb, jc, ta)
  <2> SUFFICES ASSUME NEW b \in Actors, Recording(jc[b]), jc[b].at \notin ta
               PROVE  RecordOK(jc[b], rs[jc[b].at], lb)
    BY DEF RecordsOK
  <2>1. CASE b = a
    BY <1>1, <2>1
  <2>2. CASE b # a
    <3>1. jc[b] = jb[b] /\ jb[b].at # jb[a].at /\ RecordOK(jb[b], rs[jb[b].at], la)
      BY <1>1, <2>2 DEF FeedOK, OneRecorder, RecordsOK
    <3>2. jb[b].at \in Ids
      BY <1>2, <1>3, <3>1 DEF JobOK
    <3>3. QED
      BY <1>5, <3>1, <3>2 DEF RecordOK
  <2>3. QED
    BY <2>1, <2>2
<1>7. Unborn(rs, lb)
  BY <1>3 DEF FeedOK, Unborn, Announced
<1>8. Agreement(rs, lb, jc, ta)
  <2> SUFFICES ASSUME NEW i \in 1..Len(rs), i \notin ta, Recorders(jc, i) = {}
               PROVE  Agree(rs[i], lb, i, {})
    BY DEF Agreement
  <2>1. CASE i = jb[a].at
    BY <1>1, <2>1 DEF Recorders
  <2>2. CASE i # jb[a].at
    <3>1. Recorders(jb, i) = {}
      BY <1>1, <2>2 DEF Recorders
    <3>2. Agree(rs[i], la, i, {})
      BY <3>1 DEF FeedOK, Agreement
    <3>3. QED
      BY <1>3, <1>5, <2>2, <3>2
  <2>3. QED
    BY <2>1, <2>2
<1>9. QED
  BY <1>2, <1>4, <1>6, <1>7, <1>8 DEF FeedOK, jc

\* A command writes or inserts row i; it records that next, or i is tainted.
LEMMA WritesRow ==
  ASSUME NEW rs, NEW ru, NEW la, NEW jb \in [Actors -> Job], NEW ta, NEW tb,
         FeedOK(rs, la, jb, ta), Len(rs) \in Nat, Len(ru) \in Nat,
         Len(rs) <= Len(ru), NEW i \in 1..Len(ru), Sound(ru[i]),
         \A k \in 1..Len(ru) : k # i => k <= Len(rs) /\ ru[k] = rs[k],
         NEW a \in Actors, NEW j, JobOK(j, Len(ru)), ~Recording(jb[a]),
         ta \subseteq tb, Recorders(jb, i) # {} => i \in tb,
         IF Recording(j) THEN j.at = i /\ (i \notin tb => RecordOK(j, ru[i], la)) ELSE i \in tb
  PROVE  FeedOK(ru, la, [jb EXCEPT ![a] = j], tb)
<1> DEFINE jc == [jb EXCEPT ![a] = j]
<1>1. jc[a] = j /\ \A b \in Actors : b # a => jc[b] = jb[b]
  OBVIOUS
<1> HIDE DEF jc
<1>2. ASSUME NEW b \in Actors PROVE JobOK(jc[b], Len(ru))
  <2>1. CASE b = a
    BY <1>1, <2>1
  <2>2. CASE b # a
    <3>1. JobOK(jb[b], Len(rs)) /\ Len(jb[b].snap) \in Nat
      BY Tables DEF FeedOK, Job
    <3>2. QED
      BY <1>1, <2>2, <3>1, JobOKLater
  <2>3. QED
    BY <2>1, <2>2
<1>3. RecordsOK(ru, la, jc, tb)
  <2> SUFFICES ASSUME NEW b \in Actors, Recording(jc[b]), jc[b].at \notin tb
               PROVE  RecordOK(jc[b], ru[jc[b].at], la)
    BY DEF RecordsOK
  <2>1. CASE b = a
    BY <1>1, <2>1
  <2>2. CASE b # a
    <3>1. jc[b] = jb[b] /\ jb[b].at # i /\ RecordOK(jb[b], rs[jb[b].at], la)
      BY <1>1, <2>2 DEF FeedOK, RecordsOK, Recorders
    <3>2. jb[b].at \in 1..Len(rs)
      BY <3>1 DEF FeedOK, JobOK
    <3>3. ru[jb[b].at] = rs[jb[b].at]
      BY <3>1, <3>2
    <3>4. QED
      BY <3>1, <3>3
  <2>3. QED
    BY <2>1, <2>2
<1>4. OneRecorder(jc, tb)
  <2> SUFFICES ASSUME NEW b \in Actors, NEW c \in Actors, b # c, Recording(jc[b]),
                      Recording(jc[c]), jc[b].at = jc[c].at
               PROVE  jc[b].at \in tb
    BY DEF OneRecorder
  <2>1. CASE b # a /\ c # a
    BY <1>1, <2>1 DEF FeedOK, OneRecorder
  <2>2. CASE b = a \/ c = a
    <3>1. PICK e \in Actors : e # a /\ Recording(jb[e]) /\ jb[e].at = j.at /\ Recording(j)
      BY <1>1, <2>2
    <3>2. e \in Recorders(jb, i)
      BY <3>1 DEF Recorders
    <3>3. QED
      BY <1>1, <2>2, <3>1, <3>2
  <2>3. QED
    BY <2>1, <2>2
<1>5. Unborn(ru, la)
  BY DEF FeedOK, Unborn, Ids
<1>6. Agreement(ru, la, jc, tb)
  <2> SUFFICES ASSUME NEW k \in 1..Len(ru), k \notin tb, Recorders(jc, k) = {}
               PROVE  Agree(ru[k], la, k, {})
    BY DEF Agreement
  <2>1. k # i
    BY <1>1 DEF Recorders
  <2>2. k \in 1..Len(rs) /\ ru[k] = rs[k]
    BY <2>1
  <2>3. Recorders(jb, k) = {}
    BY <1>1 DEF Recorders
  <2>4. QED
    BY <2>2, <2>3 DEF FeedOK, Agreement
<1>7. \A k \in 1..Len(ru) : Sound(ru[k])
  <2>1. ASSUME NEW k \in 1..Len(ru), k # i PROVE Sound(ru[k])
    <3>1. k \in 1..Len(rs) /\ ru[k] = rs[k]
      BY <2>1
    <3>2. QED
      BY <3>1 DEF FeedOK
  <2>2. QED
    BY <2>1
<1>8. QED
  BY <1>2, <1>3, <1>4, <1>5, <1>6, <1>7 DEF FeedOK, jc

(***************************************************************************)
(* Connections.                                                            *)
(***************************************************************************)

LEMMA Parts ==
  ASSUME IInv
  PROVE  /\ rows \in Seq(Row) /\ Len(rows) \in Nat /\ Len(rows) <= MaxMsgs
         /\ DOMAIN rows = 1..Len(rows) /\ \A i \in 1..Len(rows) : rows[i] \in Row
         /\ sess \in [Conns -> Session] /\ job \in [Actors -> Job]
         /\ tainted \subseteq Ids /\ cmds \in Nat /\ faults \in Nat
         /\ FeedOK(rows, last, job, tainted)
         /\ \A c \in Conns : Beginning(sess[c], rows)
         /\ \A f : NextUID(f) \in Nat /\ MessagesForIMAP(f) \subseteq Ids
<1>1. rows \in Seq(Row) /\ Len(rows) <= MaxMsgs
  BY DEF IInv, TypeOK
<1>2. Len(rows) \in Nat /\ DOMAIN rows = 1..Len(rows) /\ \A i \in 1..Len(rows) : rows[i] \in Row
  BY <1>1, Tables
<1>3. \A f : NextUID(f) \in Nat /\ MessagesForIMAP(f) \subseteq Ids
  <2> TAKE f
  <2>1. NextUID(f) \in Nat
    BY <1>1, NextUIDType
  <2>2. MessagesForIMAP(f) \subseteq 1..Len(rows)
    BY <1>2 DEF MessagesForIMAP
  <2>3. 1..Len(rows) \subseteq Ids
    BY <1>1, <1>2 DEF Ids
  <2>4. QED
    BY <2>1, <2>2, <2>3
<1>4. QED
  BY <1>1, <1>2, <1>3 DEF IInv, TypeOK

\* A step of one connection that writes nothing.
LEMMA Sees ==
  ASSUME IInv, NEW c \in Conns, NEW s \in Session, sess' = [sess EXCEPT ![c] = s],
         Beginning(s, rows), UNCHANGED <<rows, last, job, tainted>>, cmds' \in Nat, faults' \in Nat
  PROVE  IInv'
<1> USE Parts
<1>1. sess'[c] = s /\ \A e \in Conns : e # c => sess'[e] = sess[e]
  OBVIOUS
<1>2. TypeOK'
  BY DEF IInv, TypeOK
<1>3. \A e \in Conns : Beginning(sess'[e], rows')
  BY <1>1
<1>4. FeedOK(rows', last', job', tainted')
  OBVIOUS
<1>5. QED
  BY <1>2, <1>3, <1>4 DEF IInv

\* A view that was just listed, and one that was not looked at.
LEMMA Views ==
  ASSUME IInv
  PROVE  /\ \A s : s.told = MessagesForIMAP(s.selected) => Beginning(s, rows)
         /\ \A s, t : /\ Beginning(t, rows)
                      /\ s.selected = t.selected /\ s.told = t.told /\ s.shifted = t.shifted
                      => Beginning(s, rows)
         /\ \A s : s.selected = NoBox => Beginning(s, rows)
<1>1. ASSUME NEW s, s.told = MessagesForIMAP(s.selected) PROVE Beginning(s, rows)
  BY <1>1, Parts DEF Beginning, MessagesForIMAP, LiveIn
<1>2. QED
  BY <1>1 DEF Beginning

LEMMA ConnectionKeeps ==
  ASSUME IInv, NEW c \in Conns,
         \/ Login(c) \/ Fetch(c) \/ Close(c) \/ Disconnect(c)
         \/ Idle(c) \/ IdleUnread(c) \/ IdlePoll(c) \/ IdlePollFails(c) \/ IdleEnds(c)
         \/ \E f \in Boxes : Select(c, f)
  PROVE  IInv'
<1> USE Parts
<1>1. sess[c] \in Session /\ Beginning(sess[c], rows)
  OBVIOUS
<1>2. ASSUME NEW s \in Session, Beginning(s, rows), sess' = [sess EXCEPT ![c] = s],
             UNCHANGED <<rows, last, job, tainted, cmds>>, faults' \in {faults, faults + 1}
      PROVE  IInv'
  <2>1. cmds' \in Nat /\ faults' \in Nat
    BY <1>2
  <2>2. QED
    BY <1>2, <2>1, Sees
<1>3. CASE Login(c)
  <2> DEFINE s == [sess[c] EXCEPT !.user = TRUE]
  <2>1. s \in Session /\ s.selected = sess[c].selected /\ s.told = sess[c].told
    BY <1>1 DEF Session
  <2>2. s.shifted = sess[c].shifted
    BY <1>1 DEF Session
  <2>3. Beginning(s, rows)
    BY <1>1, <2>1, <2>2, Views
  <2>4. sess' = [sess EXCEPT ![c] = s]
    BY <1>3 DEF Login
  <2>5. QED
    BY <1>2, <1>3, <2>1, <2>3, <2>4 DEF Login
<1>4. CASE \E f \in Boxes : Select(c, f)
  <2>1. PICK f \in Boxes : Select(c, f)
    BY <1>4
  <2> DEFINE s == [sess[c] EXCEPT !.selected = f, !.told = MessagesForIMAP(f), !.shifted = FALSE]
  <2>2. s \in Session /\ s.told = MessagesForIMAP(s.selected)
    BY <1>1 DEF Session
  <2>3. sess' = [sess EXCEPT ![c] = s]
    BY <2>1 DEF Select
  <2>4. QED
    BY <1>2, <2>1, <2>2, <2>3, Views DEF Select
<1>5. CASE Fetch(c)
  <2> DEFINE s == [sess[c] EXCEPT !.told = MessagesForIMAP(sess[c].selected), !.shifted = FALSE]
  <2>2. s \in Session /\ s.told = MessagesForIMAP(s.selected)
    BY <1>1 DEF Session
  <2>3. sess' = [sess EXCEPT ![c] = s]
    BY <1>5 DEF Fetch
  <2>4. QED
    BY <1>2, <1>5, <2>2, <2>3, Views DEF Fetch
<1>6. CASE Close(c) \/ Disconnect(c)
  <2> DEFINE s == [Closed EXCEPT !.user = TRUE]
  <2>1. Closed \in Session /\ Closed.selected = NoBox /\ s \in Session /\ s.selected = NoBox
    BY DEF Closed, Session
  <2>2. Beginning(Closed, rows) /\ Beginning(s, rows)
    BY <2>1, Views
  <2>3. CASE Close(c)
    BY <1>2, <2>1, <2>2, <2>3 DEF Close
  <2>4. CASE Disconnect(c)
    BY <1>2, <2>1, <2>2, <2>4 DEF Disconnect
  <2>5. QED
    BY <1>6, <2>3, <2>4
<1>7. CASE Idle(c) \/ IdleUnread(c) \/ IdlePollFails(c) \/ IdleEnds(c)
  <2>1. PICK b \in BOOLEAN, n \in Nat : sess' = [sess EXCEPT ![c] = [sess[c] EXCEPT !.idle = b, !.next = n]]
    <3>1. CASE Idle(c)
      <4>1. sess' = [sess EXCEPT ![c] = [sess[c] EXCEPT !.idle = TRUE, !.next = NextUID(sess[c].selected)]]
        BY <3>1 DEF Idle
      <4>2. QED
        BY <4>1
    <3>2. CASE IdleUnread(c)
      <4>1. sess' = [sess EXCEPT ![c] = [sess[c] EXCEPT !.idle = TRUE, !.next = 0]]
        BY <3>2 DEF IdleUnread
      <4>2. QED
        BY <4>1
    <3>3. CASE IdlePollFails(c)
      <4>1. [sess[c] EXCEPT !.next = NextUID(sess[c].selected)]
              = [sess[c] EXCEPT !.idle = sess[c].idle, !.next = NextUID(sess[c].selected)]
        BY <1>1 DEF Session
      <4>2. sess' = [sess EXCEPT ![c] = [sess[c] EXCEPT !.next = NextUID(sess[c].selected)]]
        BY <3>3 DEF IdlePollFails
      <4>3. sess[c].idle \in BOOLEAN
        BY <1>1 DEF Session
      <4>4. QED
        BY <4>1, <4>2, <4>3
    <3>4. CASE IdleEnds(c)
      <4>1. sess' = [sess EXCEPT ![c] = [sess[c] EXCEPT !.idle = FALSE, !.next = 0]]
        BY <3>4 DEF IdleEnds
      <4>2. QED
        BY <4>1
    <3>5. QED
      BY <1>7, <3>1, <3>2, <3>3, <3>4
  <2> DEFINE s == [sess[c] EXCEPT !.idle = b, !.next = n]
  <2>2. s \in Session /\ s.selected = sess[c].selected /\ s.told = sess[c].told
    BY <1>1 DEF Session
  <2>3. s.shifted = sess[c].shifted
    BY <1>1 DEF Session
  <2>4. Beginning(s, rows)
    BY <1>1, <2>2, <2>3, Views
  <2> HIDE DEF s
  <2>5. sess' = [sess EXCEPT ![c] = s]
    BY <2>1 DEF s
  <2>6. QED
    BY <1>2, <1>7, <2>2, <2>4, <2>5 DEF Idle, IdleUnread, IdlePollFails, IdleEnds
<1>8. CASE IdlePoll(c)
  <2> DEFINE new == IF sess[c].shifted THEN sess[c].told ELSE MessagesForIMAP(sess[c].selected)
             s == [sess[c] EXCEPT !.told = new, !.next = NextUID(sess[c].selected)]
  <2>1. new \in SUBSET Ids
    BY <1>1 DEF Session
  <2>2. sess' = [sess EXCEPT ![c] = s]
    BY <1>8 DEF IdlePoll, Exists
  <2> HIDE DEF new
  <2>3. s \in Session /\ s.selected = sess[c].selected /\ s.told = new
    BY <1>1, <2>1 DEF Session
  <2>4. s.shifted = sess[c].shifted
    BY <1>1 DEF Session
  <2>5. Beginning(s, rows)
    <3>1. CASE sess[c].shifted
      BY <2>4, <3>1 DEF Beginning
    <3>2. CASE ~sess[c].shifted
      BY <2>3, <3>2, Views DEF new
    <3>3. QED
      BY <3>1, <3>2
  <2> HIDE DEF s
  <2>6. QED
    BY <1>2, <1>8, <2>2, <2>3, <2>5 DEF IdlePoll
<1>9. QED
  BY <1>3, <1>4, <1>5, <1>6, <1>7, <1>8

(***************************************************************************)
(* Commands begin.                                                         *)
(***************************************************************************)

Ops == {"FLAGS", "+FLAGS", "-FLAGS"} \X SUBSET {"seen", "flagged", "deleted"}

LEMMA JobParts ==
  ASSUME IInv, NEW a \in Actors
  PROVE  job[a] \in Job /\ JobOK(job[a], Len(rows)) /\ Len(job[a].snap) \in Nat
<1>1. job[a] \in Job /\ JobOK(job[a], Len(rows))
  BY Parts DEF FeedOK
<1>2. job[a].snap \in Seq(Row)
  BY <1>1 DEF Job
<1>3. QED
  BY <1>1, <1>2, Tables

LEMMA FreeIsOK ==
  Free \in Job /\ ~Recording(Free) /\ Free.pc = "free" /\ \A n \in Nat : JobOK(Free, n)
<1>1. <<>> \in Seq(Row) /\ Len(<<>>) = 0
  BY EmptySeq
<1>2. Free \in Job
  BY <1>1 DEF Free, Job
<1>3. Free.pc = "free" /\ Free.cmd = "none" /\ Free.ids = {} /\ Free.snap = <<>>
  BY DEF Free
<1>4. QED
  BY <1>1, <1>2, <1>3 DEF JobOK, Recording

\* A step that only moves one command, recording nothing.
LEMMA Works ==
  ASSUME IInv, NEW a \in Actors, NEW j \in Job, job' = [job EXCEPT ![a] = j],
         JobOK(j, Len(rows)), ~Recording(job[a]), ~Recording(j),
         UNCHANGED <<rows, last, sess, tainted>>, cmds' \in Nat, faults' \in Nat
  PROVE  IInv'
<1> USE Parts
<1>1. FeedOK(rows, last, job', tainted)
  BY Loses
<1>2. TypeOK'
  BY DEF IInv, TypeOK
<1>3. QED
  BY <1>1, <1>2 DEF IInv

LEMMA BeginKeeps ==
  ASSUME IInv, NEW a \in Actors, job[a].pc = "free", NEW j \in Job, JobOK(j, Len(rows)),
         ~Recording(j), Begin(a, j)
  PROVE  IInv'
<1>1. /\ job' = [job EXCEPT ![a] = j] /\ cmds' = cmds + 1
      /\ UNCHANGED <<rows, last, sess, tainted, faults>>
  BY DEF Begin
<1>2. cmds' \in Nat /\ faults' \in Nat /\ ~Recording(job[a])
  BY <1>1, Parts DEF Recording
<1>3. QED
  BY <1>1, <1>2, Works

\* A command that read a folder.
LEMMA ListedOK ==
  ASSUME IInv, NEW cmd \in {"store", "move", "moveitems", "empty", "read"}, NEW f \in Boxes,
         NEW dst \in Boxes \cup {NoBox}, cmd \in {"move", "moveitems"} => dst \in Boxes,
         NEW op \in Ops, NEW ids,
         \A i \in ids : i \in DOMAIN rows /\ rows[i].box = f /\ (rows[i].deleted => cmd = "moveitems")
  PROVE  /\ Listed(cmd, f, dst, op, ids) \in Job
         /\ JobOK(Listed(cmd, f, dst, op, ids), Len(rows))
         /\ ~Recording(Listed(cmd, f, dst, op, ids))
<1> USE Parts
<1>1. CASE ids = {}
  BY <1>1, FreeIsOK DEF Listed
<1>2. CASE ids # {}
  <2> DEFINE j == [Free EXCEPT !.cmd = cmd, !.pc = "write", !.box = f, !.dst = dst, !.op = op,
                               !.snap = rows, !.ids = ids]
  <2>1. ids \subseteq 1..Len(rows) /\ 1..Len(rows) \subseteq Ids
    BY DEF Ids
  <2>2. ids \in SUBSET Ids
    BY <2>1
  <2>3. j \in Job
    BY <2>2, FreeIsOK DEF Job, Ops
  <2>4. /\ j.cmd = cmd /\ j.pc = "write" /\ j.box = f /\ j.dst = dst /\ j.ids = ids
        /\ j.snap = rows
    BY FreeIsOK DEF Free
  <2>5. Listed(cmd, f, dst, op, ids) = j
    BY <1>2 DEF Listed
  <2> HIDE DEF j
  <2>6. ~Recording(j) /\ j.cmd \notin {"none", "append"}
    BY <2>4 DEF Recording
  <2>7. Len(j.snap) <= Len(rows) /\ j.ids \subseteq 1..Len(j.snap) /\ \A i \in j.ids : j.snap[i].box = j.box /\ Listable(j.cmd, j.snap[i])
    <3>1. \A i \in ids : rows[i].box = f /\ Listable(cmd, rows[i])
      BY <2>1 DEF FeedOK, Listable
    <3>2. Len(rows) <= Len(rows)
      OBVIOUS
    <3>3. QED
      BY <2>1, <2>4, <3>1, <3>2, Zenon
  <2>8. JobOK(j, Len(rows))
    BY <1>2, <2>4, <2>6, <2>7 DEF JobOK
  <2>9. QED
    BY <2>3, <2>5, <2>6, <2>8
<1>3. QED
  BY <1>1, <1>2

LEMMA ListedKeeps ==
  ASSUME IInv, NEW a \in Actors, job[a].pc = "free",
         NEW cmd \in {"store", "move", "moveitems", "empty", "read"}, NEW f \in Boxes,
         NEW dst \in Boxes \cup {NoBox}, cmd \in {"move", "moveitems"} => dst \in Boxes,
         NEW op \in Ops, NEW ids,
         \A i \in ids : i \in DOMAIN rows /\ rows[i].box = f /\ (rows[i].deleted => cmd = "moveitems"),
         Begin(a, Listed(cmd, f, dst, op, ids))
  PROVE  IInv'
<1> DEFINE j == Listed(cmd, f, dst, op, ids)
<1>1. j \in Job /\ JobOK(j, Len(rows)) /\ ~Recording(j)
  BY ListedOK
<1>2. Begin(a, j)
  OBVIOUS
<1> HIDE DEF j
<1>3. QED
  BY <1>1, <1>2, BeginKeeps

LEMMA AppendingKeeps ==
  ASSUME IInv, NEW a \in Actors, job[a].pc = "free", NEW f \in Boxes,
         NEW flags \in SUBSET {"seen", "flagged"}, Begin(a, Appending(f, flags))
  PROVE  IInv'
<1> DEFINE j == Appending(f, flags)
<1> USE Parts
<1>1. j \in Job
  BY FreeIsOK DEF Appending, Job
<1>2. /\ j.cmd = "append" /\ j.pc = "write" /\ j.box = f /\ j.op = <<"FLAGS", flags>>
      /\ j.ids = {} /\ j.snap = <<>>
  BY DEF Appending, Free
<1>3. j.op[1] = "FLAGS" /\ j.op[2] = flags
  BY <1>2
<1>4. Len(<<>>) = 0
  OBVIOUS
<1>5. Begin(a, j)
  OBVIOUS
<1> HIDE DEF j
<1>6. JobOK(j, Len(rows)) /\ ~Recording(j)
  BY <1>2, <1>3, <1>4 DEF JobOK, Recording
<1>7. QED
  BY <1>1, <1>5, <1>6, BeginKeeps

\* The commands of connections.
LEMMA CommandsKeep ==
  ASSUME IInv, NEW c \in Conns,
         \/ \E f \in Boxes, flags \in SUBSET {"seen", "flagged"} : AppendMessage(c, f, flags)
         \/ \E r \in Ranges, uidMode \in BOOLEAN :
              \/ \E op \in StoreOps : Store(c, r, uidMode, op)
              \/ \E f \in Boxes : Move(c, r, uidMode, f)
  PROVE  IInv'
<1> USE Parts
<1>0. c \in Actors /\ sess[c].selected \in Boxes \cup {NoBox}
  BY DEF Actors, Session
<1>1. ASSUME NEW f \in Boxes, NEW flags \in SUBSET {"seen", "flagged"}, AppendMessage(c, f, flags)
      PROVE  IInv'
  BY <1>0, <1>1, AppendingKeeps DEF AppendMessage, Ready
<1>2. ASSUME NEW r, NEW uidMode PROVE \A i \in Matched(sess[c].selected, r, uidMode) :
                                        /\ i \in DOMAIN rows /\ rows[i].box = sess[c].selected
                                        /\ ~rows[i].deleted
  BY DEF Matched, MessagesForIMAP
<1>3. ASSUME NEW r, NEW uidMode, NEW op \in StoreOps, Store(c, r, uidMode, op) PROVE IInv'
  <2>1. /\ job[c].pc = "free" /\ sess[c].selected \in Boxes
        /\ Begin(c, Listed("store", sess[c].selected, NoBox, op,
                           Matched(sess[c].selected, r, uidMode)))
    BY <1>0, <1>3 DEF Store, Selected, Ready
  <2>2. op \in Ops
    BY DEF Ops
  <2>3. QED
    BY <1>0, <1>2, <2>1, <2>2, ListedKeeps
<1>4. ASSUME NEW r, NEW uidMode, NEW f \in Boxes, Move(c, r, uidMode, f) PROVE IInv'
  <2>1. /\ job[c].pc = "free" /\ sess[c].selected \in Boxes
        /\ Begin(c, Listed("move", sess[c].selected, f, <<"FLAGS", {}>>,
                           Matched(sess[c].selected, r, uidMode)))
    BY <1>0, <1>4 DEF Move, Selected, Ready
  <2>2. <<"FLAGS", {}>> \in Ops
    BY DEF Ops
  <2>3. QED
    BY <1>0, <1>2, <2>1, <2>2, ListedKeeps
<1>5. QED
  BY <1>1, <1>3, <1>4

\* Delivery, ActiveSync and webmail.
LEMMA AppsKeep ==
  ASSUME IInv, NEW a \in Apps,
         \/ Deliver(a)
         \/ \E i \in Ids : MarkRead(a, i) \/ \E f \in Boxes : MoveItems(a, i, f)
         \/ \E f \in Boxes : EmptyFolder(a, f)
  PROVE  IInv'
<1> USE Parts
<1>0. a \in Actors /\ <<"FLAGS", {}>> \in Ops
  BY DEF Actors, Ops
<1>1. CASE Deliver(a)
  BY <1>0, <1>1, AppendingKeeps DEF Deliver
<1>2. ASSUME NEW i \in Ids, MarkRead(a, i) PROVE IInv'
  <2>1. /\ job[a].pc = "free" /\ i \in DOMAIN rows /\ ~rows[i].deleted
        /\ Begin(a, Listed("read", rows[i].box, NoBox, <<"FLAGS", {}>>, {i}))
    BY <1>2 DEF MarkRead
  <2>2. rows[i].box \in Boxes
    BY <2>1 DEF Row
  <2>3. QED
    BY <1>0, <2>1, <2>2, ListedKeeps
<1>3. ASSUME NEW i \in Ids, NEW f \in Boxes, MoveItems(a, i, f) PROVE IInv'
  <2>1. /\ job[a].pc = "free" /\ i \in DOMAIN rows
        /\ Begin(a, Listed("moveitems", rows[i].box, f, <<"FLAGS", {}>>, {i}))
    BY <1>3 DEF MoveItems
  <2>2. rows[i].box \in Boxes
    BY <2>1 DEF Row
  <2>3. QED
    BY <1>0, <2>1, <2>2, ListedKeeps
<1>4. ASSUME NEW f \in Boxes, EmptyFolder(a, f) PROVE IInv'
  <2>1. /\ job[a].pc = "free"
        /\ Begin(a, Listed("empty", f, NoBox, <<"FLAGS", {}>>, MessagesForIMAP(f)))
    BY <1>4 DEF EmptyFolder
  <2>2. \A i \in MessagesForIMAP(f) : i \in DOMAIN rows /\ rows[i].box = f /\ ~rows[i].deleted
    BY DEF MessagesForIMAP
  <2>3. QED
    BY <1>0, <2>1, <2>2, ListedKeeps
<1>5. QED
  BY <1>1, <1>2, <1>3, <1>4

(***************************************************************************)
(* Commands write.                                                         *)
(***************************************************************************)

\* STORE keeps a message in its folder, and without \Deleted it sets no such flag.
LEMMA ApplyType ==
  ASSUME NEW row \in Row, NEW op \in Ops
  PROVE  /\ Apply(row, op) \in Row /\ Apply(row, op).box = row.box
         /\ Apply(row, op).ghost = row.ghost
         /\ op[1] = "FLAGS" /\ "deleted" \notin op[2] => ~Apply(row, op).deleted
<1> DEFINE set(flag, old) == IF flag \in op[2] THEN op[1] # "-FLAGS" ELSE old
           base == IF op[1] = "FLAGS"
                   THEN [row EXCEPT !.read = FALSE, !.flagged = FALSE, !.deleted = FALSE] ELSE row
           x == set("seen", base.read)
           y == set("flagged", base.flagged)
           z == set("deleted", base.deleted)
<1>1. base \in Row /\ base.box = row.box /\ base.ghost = row.ghost
  BY DEF Row
<1>2. op[1] = "FLAGS" => base.deleted = FALSE
  BY DEF Row
<1>3. Apply(row, op) = [base EXCEPT !.read = x, !.flagged = y, !.deleted = z]
  BY DEF Apply
<1>4. base.read \in BOOLEAN /\ base.flagged \in BOOLEAN /\ base.deleted \in BOOLEAN
  BY <1>1 DEF Row
<1> HIDE DEF base
<1>5. x \in BOOLEAN /\ y \in BOOLEAN /\ z \in BOOLEAN
  BY <1>4, Zenon
<1>6. op[1] = "FLAGS" /\ "deleted" \notin op[2] => z = FALSE
  BY <1>2, Zenon
<1> HIDE DEF x, y, z
<1>7. Apply(row, op) \in Row /\ Apply(row, op).box = base.box /\ Apply(row, op).deleted = z
      /\ Apply(row, op).ghost = base.ghost
  <2>1. PICK b1 \in BOOLEAN, b2 \in BOOLEAN, b3 \in BOOLEAN :
          Apply(row, op) = [base EXCEPT !.read = b1, !.flagged = b2, !.deleted = b3] /\ b3 = z
    BY <1>3, <1>5, Zenon
  <2> DEFINE n == [base EXCEPT !.read = b1, !.flagged = b2, !.deleted = b3]
  <2>2. n \in Row /\ n.box = base.box /\ n.deleted = b3 /\ n.ghost = base.ghost
    BY <1>1 DEF Row
  <2>3. Apply(row, op) = n /\ b3 = z
    BY <2>1
  <2> HIDE DEF n
  <2>4. QED
    BY <2>2, <2>3, Zenon
<1>8. QED
  BY <1>1, <1>6, <1>7

\* What clients believe, when row i is written or inserted.
LEMMA Shifting ==
  ASSUME IInv, NEW ru \in Seq(Row), Len(rows) <= Len(ru), NEW i \in 1..Len(ru),
         \A k \in 1..Len(ru) : k # i => k <= Len(rows) /\ ru[k] = rows[k], Shifted(i, ru[i])
  PROVE  sess' \in [Conns -> Session] /\ \A c \in Conns : Beginning(sess'[c], ru)
<1> USE Parts
<1>0. Len(ru) \in Nat
  BY Tables
<1> DEFINE s(c) == IF sess[c].selected # NoBox /\ Shifts(sess[c], i, ru[i])
                   THEN [sess[c] EXCEPT !.shifted = TRUE] ELSE sess[c]
<1>1. sess' = [c \in Conns |-> s(c)]
  BY DEF Shifted
<1>2. ASSUME NEW c \in Conns PROVE s(c) \in Session /\ Beginning(s(c), ru)
  <2>1. sess[c] \in Session /\ Beginning(sess[c], rows)
    OBVIOUS
  <2>2. CASE sess[c].selected # NoBox /\ Shifts(sess[c], i, ru[i])
    <3>1. s(c) \in Session /\ s(c).shifted
      BY <2>1, <2>2 DEF Session
    <3>2. QED
      BY <3>1 DEF Beginning
  <2>3. CASE ~(sess[c].selected # NoBox /\ Shifts(sess[c], i, ru[i]))
    <3> DEFINE t == sess[c]
    <3>1. s(c) = t
      BY <2>3
    <3> HIDE DEF t, s
    <3> SUFFICES ASSUME t.selected # NoBox, ~t.shifted PROVE Beginning(t, ru)
      BY <2>1, <3>1 DEF Beginning, t
    <3>2. /\ \A k \in t.told : k \in 1..Len(rows) /\ LiveIn(rows[k], t.selected)
          /\ \A k \in 1..Len(rows) : LiveIn(rows[k], t.selected) /\ k \notin t.told => \A m \in t.told : m < k
      BY <2>1 DEF Beginning, t
    <3>3. ~Shifts(t, i, ru[i])
      BY <2>3 DEF t
    <3>4. i \in t.told => LiveIn(ru[i], t.selected)
      BY <3>3 DEF Shifts, LiveIn
    <3>5. i \notin t.told /\ LiveIn(ru[i], t.selected) => \A k \in t.told : k < i
      <4> SUFFICES ASSUME i \notin t.told, LiveIn(ru[i], t.selected), NEW k \in t.told PROVE k < i
        OBVIOUS
      <4>1. ~(i < k)
        BY <3>3 DEF Shifts, LiveIn
      <4>2. k \in Nat /\ i \in Nat /\ k # i
        BY <3>2, <1>0
      <4>3. QED
        BY <4>1, <4>2
    <3>6. ASSUME NEW k \in t.told PROVE k \in 1..Len(ru) /\ LiveIn(ru[k], t.selected)
      <4>1. k \in 1..Len(rows) /\ LiveIn(rows[k], t.selected)
        BY <3>2
      <4>2. k \in 1..Len(ru)
        BY <1>0, <4>1
      <4>3. QED
        BY <3>4, <4>1, <4>2
    <3>7. ASSUME NEW k \in 1..Len(ru), LiveIn(ru[k], t.selected), k \notin t.told
          PROVE  \A m \in t.told : m < k
      <4>1. CASE k = i
        BY <3>5, <3>7, <4>1
      <4>2. CASE k # i
        <5>1. k \in 1..Len(rows) /\ ru[k] = rows[k]
          BY <1>0, <4>2
        <5>2. QED
          BY <3>2, <3>7, <5>1
      <4>3. QED
        BY <4>1, <4>2
    <3>8. QED
      BY <3>6, <3>7 DEF Beginning
  <2>4. QED
    BY <2>2, <2>3
<1> HIDE DEF s
<1>3. QED
  BY <1>1, <1>2

LEMMA WrittenType ==
  ASSUME IInv, NEW a \in Actors, NEW i \in job[a].ids, job[a].pc = "write",
         job[a].cmd # "append"
  PROVE  /\ i \in 1..Len(rows) /\ i \in 1..Len(job[a].snap) /\ job[a].snap[i] \in Row
         /\ job[a].snap[i].box = job[a].box /\ Written(job[a], i) \in Row
         /\ Listable(job[a].cmd, job[a].snap[i]) /\ Sound(Written(job[a], i))
<1> USE Parts, JobParts
<1> DEFINE j == job[a]
<1>1. /\ i \in 1..Len(j.snap) /\ i \in 1..Len(rows) /\ j.snap[i].box = j.box
      /\ Listable(j.cmd, j.snap[i])
  BY DEF JobOK
<1>2. j.snap[i] \in Row /\ j.op \in Ops /\ rows[i] \in Row /\ Sound(rows[i])
  <2>1. j.snap \in Seq(Row) /\ j.op \in Ops
    BY DEF Job, Ops
  <2>2. QED
    BY <1>1, <2>1, Tables DEF FeedOK
<1>3. j.cmd \in {"store", "move", "moveitems", "empty", "read"}
  BY DEF Job, JobOK
<1>4. j.cmd \in {"move", "moveitems"} => j.dst \in Boxes
  BY DEF JobOK
<1> HIDE DEF j
<1>5. Written(j, i) \in Row /\ Sound(Written(j, i))
  <2>1. CASE j.cmd = "store"
    <3>1. ~j.snap[i].ghost
      BY <1>1, <1>2, <2>1 DEF Listable, Sound
    <3>2. Written(j, i) = Apply(j.snap[i], j.op)
      BY <2>1 DEF Written
    <3>3. Apply(j.snap[i], j.op) \in Row /\ Apply(j.snap[i], j.op).ghost = j.snap[i].ghost
      BY <1>2, ApplyType
    <3>4. QED
      BY <3>1, <3>2, <3>3 DEF Sound
  <2>2. CASE j.cmd \in {"move", "moveitems"}
    <3>1. Written(j, i) = [rows[i] EXCEPT !.box = j.dst, !.ghost = rows[i].deleted]
      BY <2>2 DEF Written
    <3>2. QED
      BY <1>2, <1>4, <2>2, <3>1 DEF Row, Sound
  <2>3. CASE j.cmd = "empty"
    BY <1>2, <2>3 DEF Written, Row, Sound
  <2>4. CASE j.cmd = "read"
    BY <1>2, <2>4 DEF Written, Row, Sound
  <2>5. QED
    BY <1>3, <2>1, <2>2, <2>3, <2>4
<1>6. QED
  BY <1>1, <1>2, <1>5 DEF j

\* A message that nobody else touched agrees, but for the records to come.
LEMMA WriteRecord ==
  ASSUME IInv, NEW a \in Actors, NEW i \in job[a].ids, job[a].pc = "write",
         job[a].cmd # "append", i \notin tainted, ~Collides(job[a], i), NEW j,
         j.cmd = job[a].cmd, j.pc = "log", j.at = i, j.box = job[a].box, j.dst = job[a].dst,
         j.snap = job[a].snap, j.op = job[a].op
  PROVE  RecordOK(j, Written(job[a], i), last)
<1> USE Parts, JobParts
<1> DEFINE old == rows[i]  new == Written(job[a], i)
<1>1. /\ i \in 1..Len(rows) /\ j.snap[i] \in Row /\ j.snap[i].box = j.box /\ new \in Row
      /\ old \in Row /\ Listable(j.cmd, j.snap[i]) /\ Sound(old)
  BY WrittenType DEF FeedOK
<1>2. old.box = j.box /\ old.deleted = j.snap[i].deleted /\ ~Busy(i)
  BY <1>1 DEF Collides
<1>3. j.cmd # "moveitems" => /\ j.snap[i].deleted = FALSE /\ j.snap[i].ghost = FALSE
                             /\ old.deleted = FALSE /\ old.ghost = FALSE
  <2>1. j.cmd # "moveitems" => ~j.snap[i].deleted
    BY <1>1 DEF Listable
  <2>2. /\ j.snap[i].deleted \in BOOLEAN /\ j.snap[i].ghost \in BOOLEAN
        /\ old.deleted \in BOOLEAN /\ old.ghost \in BOOLEAN
    BY <1>1 DEF Row
  <2>3. j.cmd # "moveitems" => ~old.deleted
    BY <1>2, <2>1, Zenon
  <2>4. QED
    BY <1>1, <2>1, <2>2, <2>3 DEF Listable, Sound
<1>4. Recorders(job, i) = {}
  BY <1>2 DEF Busy, Recorders, Recording
<1>5. \A f \in Boxes : f # j.box => ~Announced(last, f, i)
  <2>1. Agree(old, last, i, {})
    BY <1>1, <1>4 DEF FeedOK, Agreement
  <2>2. QED
    BY <1>2, <2>1 DEF Agree, Shown
<1>6. j.cmd \in {"store", "move", "moveitems", "empty", "read"}
  BY DEF Job, JobOK
<1>7. j.op \in Ops
  BY DEF Job, Ops
<1>8. CASE j.cmd \in {"move", "moveitems"}
  <2>1. new = [old EXCEPT !.box = j.dst, !.ghost = old.deleted]
    BY <1>8 DEF Written
  <2>2. new.box = j.dst /\ new.deleted = old.deleted /\ new.ghost = old.deleted
    BY <1>1, <2>1 DEF Row
  <2> HIDE DEF new, old
  <2>3. ~new.deleted \/ new.ghost
    BY <2>2, Zenon
  <2>4. QED
    BY <1>5, <1>8, <2>2, <2>3 DEF RecordOK, MovesOn, Agree, Shown, new
<1>9. CASE j.cmd \in {"store", "empty", "read"}
  <2>0. /\ j.snap[i].deleted = FALSE /\ j.snap[i].ghost = FALSE
        /\ old.deleted = FALSE /\ old.ghost = FALSE
    BY <1>3, <1>9
  <2>1. new.box = j.box /\ ~new.ghost /\ (~new.deleted <=> Kind(j) \in {"add", "change"})
    <3>1. CASE j.cmd = "store"
      <4> DEFINE n == Apply(j.snap[i], j.op)
      <4>1. new = n
        BY <3>1 DEF Written
      <4>2. n.box = j.box /\ n.ghost = j.snap[i].ghost
        BY <1>1, <1>7, ApplyType
      <4>3. Kind(j) = IF n.deleted /\ ~j.snap[i].deleted THEN "delete" ELSE "change"
        BY <3>1 DEF Kind
      <4> HIDE DEF n, new
      <4>4. QED
        BY <2>0, <4>1, <4>2, <4>3
    <3>2. CASE j.cmd = "empty"
      <4>1. new = [old EXCEPT !.deleted = TRUE] /\ Kind(j) = "delete"
        BY <3>2 DEF Written, Kind
      <4>2. new.box = old.box /\ new.deleted /\ new.ghost = old.ghost
        BY <1>1, <4>1 DEF Row
      <4> HIDE DEF new, old
      <4>3. QED
        BY <1>2, <2>0, <4>1, <4>2
    <3>3. CASE j.cmd = "read"
      <4>1. new = [old EXCEPT !.read = TRUE] /\ Kind(j) = "change"
        BY <3>3 DEF Written, Kind
      <4>2. new.box = old.box /\ new.deleted = old.deleted /\ new.ghost = old.ghost
        BY <1>1, <4>1 DEF Row
      <4> HIDE DEF new, old
      <4>3. ~new.deleted /\ ~new.ghost
        BY <2>0, <4>2, Zenon
      <4>4. QED
        BY <1>2, <4>1, <4>2, <4>3
    <3>4. QED
      BY <1>9, <3>1, <3>2, <3>3
  <2> HIDE DEF new, old
  <2>2. QED
    BY <1>5, <1>9, <2>1 DEF RecordOK, MovesOn, Agree, Shown, new
<1>10. QED
  BY <1>6, <1>8, <1>9

\* One handler writes row i.
LEMMA RowStep ==
  ASSUME IInv, rows' \in Seq(Row), Len(rows) <= Len(rows'), Len(rows') <= MaxMsgs,
         NEW i \in 1..Len(rows'),
         \A k \in 1..Len(rows') : k # i => k <= Len(rows) /\ rows'[k] = rows[k],
         Shifted(i, rows'[i]), job' \in [Actors -> Job], tainted' \subseteq Ids,
         FeedOK(rows', last, job', tainted'), UNCHANGED last, cmds' \in Nat, faults' \in Nat
  PROVE  IInv'
<1>1. sess' \in [Conns -> Session] /\ \A c \in Conns : Beginning(sess'[c], rows')
  BY Shifting
<1>2. TypeOK'
  BY <1>1 DEF IInv, TypeOK
<1>3. QED
  BY <1>1, <1>2 DEF IInv

LEMMA WriteKeeps ==
  ASSUME IInv, NEW a \in Actors, Write(a)
  PROVE  IInv'
<1> USE Parts, JobParts
<1> DEFINE i == First(job[a].ids)
           new == Written(job[a], i)
           j == [job[a] EXCEPT !.pc = "log", !.at = i, !.ids = @ \ {i}]
<1>1. /\ job[a].pc = "write" /\ job[a].cmd # "append" /\ rows' = [rows EXCEPT ![i] = new]
      /\ tainted' = tainted \cup (IF Collides(job[a], i) THEN {i} ELSE {})
      /\ Shifted(i, new) /\ job' = [job EXCEPT ![a] = j] /\ UNCHANGED <<last, cmds, faults>>
  BY DEF Write
<1>2. i \in job[a].ids
  <2>1. job[a].ids # {} /\ job[a].ids \in SUBSET Ids
    BY <1>1 DEF JobOK, Job
  <2>2. job[a].ids \in SUBSET Nat
    BY <2>1 DEF Ids
  <2>3. QED
    BY <2>1, <2>2, FirstIn
<1> HIDE DEF i
<1>3. i \in 1..Len(rows) /\ i \in 1..Len(job[a].snap) /\ new \in Row /\ Sound(new)
  BY <1>1, <1>2, WrittenType
<1>4. i \in Ids /\ i \in Nat
  BY <1>3 DEF Ids
<1>5. j \in Job
  <2>1. job[a] \in Job /\ job[a].ids \ {i} \in SUBSET Ids
    BY DEF Job
  <2>2. QED
    BY <1>4, <2>1 DEF Job
<1>6. /\ j.cmd = job[a].cmd /\ j.pc = "log" /\ j.at = i /\ j.box = job[a].box
      /\ j.dst = job[a].dst /\ j.snap = job[a].snap /\ j.op = job[a].op
      /\ j.ids = job[a].ids \ {i}
  BY DEF Job
<1>7. tainted \subseteq tainted' /\ tainted' \subseteq Ids
  BY <1>1, <1>4
<1>8. i \notin tainted' => RecordOK(j, new, last)
  <2> SUFFICES ASSUME i \notin tainted' PROVE RecordOK(j, new, last)
    OBVIOUS
  <2>1. i \notin tainted /\ ~Collides(job[a], i)
    BY <1>1
  <2> HIDE DEF j
  <2>2. QED
    BY <1>1, <1>2, <1>6, <2>1, WriteRecord
<1>9. /\ rows' \in Seq(Row) /\ Len(rows') = Len(rows) /\ rows'[i] = new
      /\ \A k \in 1..Len(rows) : k # i => rows'[k] = rows[k]
  BY <1>1, <1>3, ExceptSeq
<1>10. Recorders(job, i) # {} => i \in tainted'
  BY <1>1 DEF Recorders, Recording, Collides, Busy
<1>11. Recording(j) /\ ~Recording(job[a]) /\ JobOK(j, Len(rows))
  <2> HIDE DEF j
  <2>1. Recording(j) /\ ~Recording(job[a])
    BY <1>1, <1>6 DEF Recording
  <2>2. QED
    BY <1>1, <1>3, <1>6, <2>1 DEF JobOK
<1> HIDE DEF j, new
<1>12. FeedOK(rows', last, job', tainted')
  <2>1. /\ \A k \in 1..Len(rows') : k # i => k <= Len(rows) /\ rows'[k] = rows[k]
        /\ i \in 1..Len(rows') /\ Len(rows') \in Nat /\ Len(rows) <= Len(rows')
    BY <1>3, <1>9
  <2>2. /\ j.at = i /\ (i \notin tainted' => RecordOK(j, rows'[i], last))
        /\ JobOK(j, Len(rows')) /\ Sound(rows'[i])
    BY <1>3, <1>6, <1>8, <1>9, <1>11
  <2>3. FeedOK(rows', last, [job EXCEPT ![a] = j], tainted')
    BY <1>7, <1>10, <1>11, <2>1, <2>2, WritesRow
  <2>4. QED
    BY <1>1, <2>3
<1>13. job' \in [Actors -> Job] /\ tainted' \subseteq Ids /\ cmds' \in Nat /\ faults' \in Nat
  BY <1>1, <1>5, <1>7
<1>14. Len(rows') <= MaxMsgs /\ Len(rows) <= Len(rows') /\ i \in 1..Len(rows')
      /\ \A k \in 1..Len(rows') : k # i => k <= Len(rows) /\ rows'[k] = rows[k]
  BY <1>3, <1>9
<1>15. QED
  BY <1>1, <1>9, <1>12, <1>13, <1>14, RowStep

LEMMA InsertKeeps ==
  ASSUME IInv, NEW a \in Actors, Insert(a) \/ InsertHalf(a)
  PROVE  IInv'
<1> USE Parts, JobParts
<1> DEFINE i == Len(rows) + 1
           new == Appended(job[a])
           j == [job[a] EXCEPT !.pc = "log", !.at = i]
<1>1. /\ job[a].pc = "write" /\ job[a].cmd = "append" /\ Len(rows) < MaxMsgs
      /\ rows' = Append(rows, new) /\ Shifted(i, new) /\ UNCHANGED <<last, cmds>>
  BY DEF Insert, InsertHalf
<1>2. new \in Row /\ new.box = job[a].box /\ ~new.deleted /\ ~new.ghost
  <2> DEFINE blank == [box |-> job[a].box, read |-> FALSE, flagged |-> FALSE, deleted |-> FALSE,
                       ghost |-> FALSE]
  <2>1. job[a].op \in Ops /\ job[a].box \in Boxes /\ job[a].op[1] = "FLAGS" /\ "deleted" \notin job[a].op[2]
    BY <1>1 DEF Job, Ops, JobOK
  <2>2. blank \in Row /\ blank.box = job[a].box /\ blank.ghost = FALSE
    BY <2>1 DEF Row
  <2>3. new = Apply(blank, job[a].op)
    BY DEF Appended
  <2> HIDE DEF blank, new
  <2>4. QED
    BY <2>1, <2>2, <2>3, ApplyType
<1> HIDE DEF new
<1>3. /\ rows' \in Seq(Row) /\ Len(rows') = i /\ rows'[i] = new /\ Sound(rows'[i])
      /\ \A k \in 1..Len(rows) : rows'[k] = rows[k]
  BY <1>1, <1>2, AppendProperties DEF Sound
<1>4. i \in Ids /\ i \in Nat /\ i \in 1..Len(rows') /\ Len(rows) <= Len(rows') /\ Len(rows') <= MaxMsgs
      /\ Len(rows') \in Nat
  BY <1>1, <1>3 DEF Ids
<1>5. \A k \in 1..Len(rows') : k # i => k <= Len(rows) /\ rows'[k] = rows[k]
  BY <1>3
<1>6. j \in Job
  <2>1. job[a] \in Job /\ i \in Nat
    BY <1>4
  <2> HIDE DEF i
  <2>2. QED
    BY <2>1 DEF Job
<1>7. /\ j.cmd = "append" /\ j.pc = "log" /\ j.at = i /\ j.box = job[a].box
      /\ j.snap = job[a].snap /\ j.op = job[a].op /\ j.ids = job[a].ids
  BY <1>1 DEF Job
<1>8. Recorders(job, i) = {}
  <2>1. ASSUME NEW b \in Actors, Recording(job[b]) PROVE job[b].at # i
    <3>1. job[b].at \in 1..Len(rows)
      BY <2>1 DEF JobOK
    <3>2. QED
      BY <3>1
  <2>2. QED
    BY <2>1 DEF Recorders
<1> HIDE DEF i
<1>9. RecordOK(j, new, last)
  <2>1. \A f \in Boxes : ~Announced(last, f, i)
    BY <1>4 DEF FeedOK, Unborn, i
  <2>2. Kind(j) = "add" /\ ~MovesOn(j)
    BY <1>7 DEF Kind, MovesOn
  <2> HIDE DEF j
  <2>3. QED
    BY <1>2, <1>7, <2>1, <2>2 DEF RecordOK, Agree, Shown
<1>10. Recording(j) /\ ~Recording(job[a]) /\ JobOK(j, Len(rows'))
  <2> HIDE DEF j
  <2>1. Recording(j) /\ ~Recording(job[a])
    BY <1>1, <1>7 DEF Recording
  <2>2. QED
    BY <1>1, <1>4, <1>7, <2>1 DEF JobOK
<1> HIDE DEF j
<1>11. CASE Insert(a)
  <2>1. job' = [job EXCEPT ![a] = j] /\ UNCHANGED <<tainted, faults>>
    BY <1>11 DEF Insert, j, i
  <2>2. FeedOK(rows', last, [job EXCEPT ![a] = j], tainted)
    <3>1. j.at = i /\ RecordOK(j, rows'[i], last)
      BY <1>3, <1>7, <1>9
    <3>2. tainted \subseteq tainted /\ (Recorders(job, i) # {} => i \in tainted)
      BY <1>8
    <3>3. IF Recording(j) THEN j.at = i /\ (i \notin tainted => RecordOK(j, rows'[i], last))
                          ELSE i \in tainted
      BY <1>10, <3>1
    <3>4. QED
      BY <1>3, <1>4, <1>5, <1>10, <3>2, <3>3, WritesRow
  <2>3. job' \in [Actors -> Job] /\ FeedOK(rows', last, job', tainted') /\ cmds' \in Nat /\ faults' \in Nat
    BY <1>1, <1>6, <2>1, <2>2
  <2>4. QED
    BY <1>1, <1>3, <1>4, <1>5, <2>1, <2>3, RowStep
<1>12. CASE InsertHalf(a)
  <2>1. /\ job' = [job EXCEPT ![a] = Free] /\ tainted' = tainted \cup {i} /\ faults' = faults + 1
    BY <1>12 DEF InsertHalf, i
  <2>2. FeedOK(rows', last, [job EXCEPT ![a] = Free], tainted \cup {i})
    BY <1>3, <1>4, <1>5, <1>10, FreeIsOK, WritesRow
  <2>3. /\ job' \in [Actors -> Job] /\ FeedOK(rows', last, job', tainted') /\ cmds' \in Nat
        /\ faults' \in Nat /\ tainted' \subseteq Ids
    BY <1>1, <1>4, <2>1, <2>2, FreeIsOK
  <2>4. QED
    BY <1>1, <1>3, <1>4, <1>5, <2>3, RowStep
<1>13. QED
  BY <1>11, <1>12

(***************************************************************************)
(* Commands record, fail and stop.                                         *)
(***************************************************************************)

LEMMA NextMessageOK ==
  ASSUME NEW j \in Job, NEW n \in Nat, JobOK(j, n), j.cmd # "none", j.box \in Boxes,
         j.cmd = "append" => j.ids = {}
  PROVE  NextMessage(j) \in Job /\ JobOK(NextMessage(j), n) /\ ~Recording(NextMessage(j))
<1>1. CASE j.ids = {}
  BY <1>1, FreeIsOK DEF NextMessage
<1>2. CASE j.ids # {}
  <2> DEFINE k == [j EXCEPT !.pc = "write", !.at = 0]
  <2>1. k \in Job
    BY DEF Job
  <2>2. /\ k.cmd = j.cmd /\ k.pc = "write" /\ k.box = j.box /\ k.dst = j.dst /\ k.ids = j.ids
        /\ k.snap = j.snap /\ k.op = j.op
    BY DEF Job
  <2>3. NextMessage(j) = k
    BY <1>2 DEF NextMessage
  <2> HIDE DEF k
  <2>4. ~Recording(k)
    BY <2>2 DEF Recording
  <2>5. JobOK(k, n)
    BY <1>2, <2>2, <2>4 DEF JobOK
  <2>6. QED
    BY <2>1, <2>3, <2>4, <2>5
<1>3. QED
  BY <1>1, <1>2

LEMMA RecordedOK ==
  ASSUME IInv, NEW a \in Actors, job[a].pc = "log"
  PROVE  /\ Recorded(job[a]) \in Job /\ JobOK(Recorded(job[a]), Len(rows))
         /\ IF MovesOn(job[a])
            THEN /\ Recorded(job[a]).cmd = job[a].cmd /\ Recorded(job[a]).pc = "logAdd"
                 /\ Recorded(job[a]).at = job[a].at /\ Recorded(job[a]).dst = job[a].dst
            ELSE ~Recording(Recorded(job[a]))
<1> USE Parts, JobParts
<1> DEFINE j == job[a]  k == [j EXCEPT !.pc = "logAdd"]
<1>1. j.cmd # "none" /\ j.box \in Boxes /\ (j.cmd = "append" => j.ids = {})
  BY DEF JobOK
<1>2. CASE MovesOn(j)
  <2>0. j \in Job
    OBVIOUS
  <2>1. k \in Job
    BY <2>0 DEF Job
  <2>2. /\ k.cmd = j.cmd /\ k.pc = "logAdd" /\ k.box = j.box /\ k.dst = j.dst /\ k.ids = j.ids
        /\ k.snap = j.snap /\ k.op = j.op /\ k.at = j.at
    BY DEF Job
  <2>3. Recorded(j) = k
    BY <1>2 DEF Recorded
  <2> HIDE DEF k
  <2>4. JobOK(k, Len(rows))
    BY <1>2, <2>2 DEF JobOK, Recording, MovesOn
  <2>5. QED
    BY <1>2, <2>1, <2>2, <2>3, <2>4
<1>3. CASE ~MovesOn(j)
  BY <1>1, <1>3, NextMessageOK DEF Recorded
<1>4. QED
  BY <1>2, <1>3

\* A step that records, or fails to.
LEMMA FeedStep ==
  ASSUME IInv, NEW a \in Actors, NEW j \in Job, job' = [job EXCEPT ![a] = j],
         last' \in [Boxes \X Ids -> Kinds \cup {"none"}], tainted' \subseteq Ids,
         FeedOK(rows, last', [job EXCEPT ![a] = j], tainted'),
         UNCHANGED <<rows, sess>>, cmds' \in Nat, faults' \in Nat
  PROVE  IInv'
<1> USE Parts
<1>1. TypeOK'
  BY DEF IInv, TypeOK
<1>2. QED
  BY <1>1 DEF IInv

LEMMA AddChangeKeeps ==
  ASSUME IInv, NEW a \in Actors, AddChange(a)
  PROVE  IInv'
<1> USE Parts, JobParts
<1> DEFINE j == job[a]  k == Recorded(job[a])  row == rows[job[a].at]
<1>1. /\ j.pc = "log" /\ last' = [last EXCEPT ![<<j.box, j.at>>] = Kind(j)]
      /\ job' = [job EXCEPT ![a] = k] /\ UNCHANGED <<rows, sess, tainted, cmds, faults>>
  BY DEF AddChange
<1>2. Recording(j) /\ j.at \in 1..Len(rows) /\ j.box \in Boxes
  BY <1>1 DEF JobOK, Recording
<1>3. j.at \in Ids /\ last \in [Boxes \X Ids -> Kinds \cup {"none"}]
  BY <1>2 DEF Ids, IInv, TypeOK
<1>4. Kind(j) \in Kinds
  BY DEF Kind, Kinds
<1>5. /\ k \in Job /\ JobOK(k, Len(rows))
      /\ IF MovesOn(j) THEN k.cmd = j.cmd /\ k.pc = "logAdd" /\ k.at = j.at /\ k.dst = j.dst
                       ELSE ~Recording(k)
  BY <1>1, RecordedOK
<1> HIDE DEF k
<1>6. /\ last'[<<j.box, j.at>>] = Kind(j)
      /\ \A f \in Boxes, i \in Ids : i # j.at \/ f # j.box => last'[<<f, i>>] = last[<<f, i>>]
      /\ last' \in [Boxes \X Ids -> Kinds \cup {"none"}]
  BY <1>1, <1>2, <1>3, <1>4
<1>7. j.at \notin tainted => RecordOK(j, row, last)
  BY <1>2 DEF FeedOK, RecordsOK
<1>8. j.at \notin tainted => IF Recording(k) THEN RecordOK(k, rows[k.at], last')
                                             ELSE Agree(row, last', j.at, {})
  <2> SUFFICES ASSUME j.at \notin tainted
               PROVE  IF Recording(k) THEN RecordOK(k, rows[k.at], last')
                                      ELSE Agree(row, last', j.at, {})
    OBVIOUS
  <2>1. \A f \in Boxes : f # j.box => (Announced(last', f, j.at) <=> Announced(last, f, j.at))
    BY <1>3, <1>6 DEF Announced
  <2>2. Announced(last', j.box, j.at) <=> Kind(j) \in {"add", "change"}
    BY <1>6 DEF Announced
  <2>3. CASE MovesOn(j)
    <3>1. Recording(k) /\ k.at = j.at /\ k.dst = j.dst /\ MovesOn(k) /\ k.pc = "logAdd"
      BY <1>5, <2>3 DEF Recording, MovesOn
    <3>2. Kind(j) = "delete"
      BY <2>3 DEF Kind, MovesOn
    <3>3. Shown(row, j.dst) /\ Agree(row, last, j.at, {j.box, j.dst})
      BY <1>1, <1>7, <2>3 DEF RecordOK
    <3>4. Agree(row, last', j.at, {j.dst})
      <4> SUFFICES ASSUME NEW f \in Boxes, f # j.dst
                   PROVE  Shown(row, f) <=> Announced(last', f, j.at)
        BY DEF Agree
      <4>1. CASE f = j.box
        BY <2>2, <3>2, <3>3, <4>1 DEF Shown
      <4>2. CASE f # j.box
        BY <2>1, <3>3, <4>2 DEF Agree
      <4>3. QED
        BY <4>1, <4>2
    <3>5. QED
      BY <3>1, <3>3, <3>4 DEF RecordOK
  <2>4. CASE ~MovesOn(j)
    <3>1. /\ Shown(row, j.box) <=> Kind(j) \in {"add", "change"}
          /\ Agree(row, last, j.at, {j.box})
      BY <1>7, <2>4 DEF RecordOK
    <3>2. Agree(row, last', j.at, {})
      BY <2>1, <2>2, <3>1 DEF Agree
    <3>3. QED
      BY <1>5, <2>4, <3>2
  <2>5. QED
    BY <2>3, <2>4
<1>9. FeedOK(rows, last', [job EXCEPT ![a] = k], tainted)
  <2>1. \A f \in Boxes, i \in Ids : i # j.at => last'[<<f, i>>] = last[<<f, i>>]
    BY <1>6
  <2>2. Recording(k) => k.at = j.at
    BY <1>5
  <2>3. QED
    BY <1>2, <1>5, <1>8, <2>1, <2>2, Records
<1>10. cmds' \in Nat /\ faults' \in Nat /\ tainted' \subseteq Ids /\ tainted' = tainted
  BY <1>1
<1>11. FeedOK(rows, last', [job EXCEPT ![a] = k], tainted') /\ UNCHANGED <<rows, sess>>
  BY <1>1, <1>9, <1>10
<1>12. QED
  BY <1>1, <1>5, <1>6, <1>10, <1>11, FeedStep

LEMMA AddChangeDstKeeps ==
  ASSUME IInv, NEW a \in Actors, AddChangeDst(a)
  PROVE  IInv'
<1> USE Parts, JobParts
<1> DEFINE j == job[a]  k == NextMessage(job[a])  row == rows[job[a].at]
<1>1. /\ j.pc = "logAdd" /\ last' = [last EXCEPT ![<<j.dst, j.at>>] = "add"]
      /\ job' = [job EXCEPT ![a] = k] /\ UNCHANGED <<rows, sess, tainted, cmds, faults>>
  BY DEF AddChangeDst
<1>2. /\ Recording(j) /\ j.at \in 1..Len(rows) /\ MovesOn(j) /\ j.dst \in Boxes
      /\ j.box \in Boxes /\ j.cmd # "none"
  BY <1>1 DEF JobOK, Recording, MovesOn
<1>3. j.at \in Ids /\ last \in [Boxes \X Ids -> Kinds \cup {"none"}]
  BY <1>2 DEF Ids, IInv, TypeOK
<1>4. k \in Job /\ JobOK(k, Len(rows)) /\ ~Recording(k)
  BY <1>2, NextMessageOK DEF MovesOn
<1> HIDE DEF k
<1>5. /\ last'[<<j.dst, j.at>>] = "add"
      /\ \A f \in Boxes, i \in Ids : i # j.at \/ f # j.dst => last'[<<f, i>>] = last[<<f, i>>]
      /\ last' \in [Boxes \X Ids -> Kinds \cup {"none"}]
  BY <1>1, <1>2, <1>3 DEF Kinds
<1>6. j.at \notin tainted => Agree(row, last', j.at, {})
  <2> SUFFICES ASSUME j.at \notin tainted PROVE Agree(row, last', j.at, {})
    OBVIOUS
  <2>1. RecordOK(j, row, last)
    BY <1>2 DEF FeedOK, RecordsOK
  <2>2. Shown(row, j.dst) /\ Agree(row, last, j.at, {j.dst})
    BY <1>1, <1>2, <2>1 DEF RecordOK
  <2>3. QED
    BY <1>3, <1>5, <2>2 DEF Agree, Announced
<1>7. FeedOK(rows, last', [job EXCEPT ![a] = k], tainted)
  <2>1. \A f \in Boxes, i \in Ids : i # j.at => last'[<<f, i>>] = last[<<f, i>>]
    BY <1>5
  <2>2. QED
    BY <1>2, <1>4, <1>6, <2>1, Records
<1>8. cmds' \in Nat /\ faults' \in Nat /\ tainted' \subseteq Ids /\ tainted' = tainted
  BY <1>1
<1>9. FeedOK(rows, last', [job EXCEPT ![a] = k], tainted') /\ UNCHANGED <<rows, sess>>
  BY <1>1, <1>7, <1>8
<1>10. QED
  BY <1>1, <1>4, <1>5, <1>8, <1>9, FeedStep

LEMMA AddChangeFailsKeeps ==
  ASSUME IInv, NEW a \in Actors, AddChangeFails(a)
  PROVE  IInv'
<1> USE Parts, JobParts
<1> DEFINE j == job[a]  k == IF j.pc = "log" THEN Recorded(j) ELSE NextMessage(j)
<1>1. /\ j.pc \in {"log", "logAdd"} /\ tainted' = tainted \cup {j.at}
      /\ job' = [job EXCEPT ![a] = k] /\ faults' = faults + 1
      /\ UNCHANGED <<rows, last, sess, cmds>>
  BY DEF AddChangeFails
<1>2. j.at \in 1..Len(rows) /\ j.cmd # "none" /\ j.box \in Boxes /\ (j.cmd = "append" => j.ids = {})
  BY <1>1 DEF JobOK, Recording
<1>3. k \in Job /\ JobOK(k, Len(rows)) /\ (Recording(k) => k.at = j.at)
  <2>1. CASE j.pc = "log"
    BY <2>1, RecordedOK
  <2>2. CASE j.pc = "logAdd"
    BY <1>2, <2>2, NextMessageOK
  <2>3. QED
    BY <1>1, <2>1, <2>2
<1> HIDE DEF k
<1>4. j.at \in Ids
  BY <1>2 DEF Ids
<1>5. tainted' \subseteq Ids /\ tainted \subseteq tainted' /\ j.at \in tainted' /\ (Recording(k) => k.at \in tainted')
  BY <1>1, <1>3, <1>4
<1>6. FeedOK(rows, last, [job EXCEPT ![a] = k], tainted')
  BY <1>3, <1>5, Loses
<1>7. last' = last /\ last \in [Boxes \X Ids -> Kinds \cup {"none"}] /\ cmds' \in Nat /\ faults' \in Nat
  BY <1>1 DEF IInv, TypeOK
<1>8. QED
  BY <1>1, <1>3, <1>5, <1>6, <1>7, FeedStep

LEMMA WriteFailsKeeps ==
  ASSUME IInv, NEW a \in Actors, WriteFails(a)
  PROVE  IInv'
<1> USE Parts, JobParts
<1> DEFINE j == job[a]  rest == j.ids \ {First(j.ids)}  k == [j EXCEPT !.ids = rest]
<1>1. /\ j.pc = "write" /\ faults' = faults + 1 /\ UNCHANGED <<rows, last, sess, tainted, cmds>>
      /\ job' = [job EXCEPT ![a] = IF j.cmd \in {"store", "move"} THEN NextMessage(k) ELSE Free]
  BY DEF WriteFails
<1>2. cmds' \in Nat /\ faults' \in Nat /\ ~Recording(j)
  BY <1>1 DEF Recording
<1>3. ASSUME NEW m \in Job, JobOK(m, Len(rows)), ~Recording(m), job' = [job EXCEPT ![a] = m]
      PROVE  IInv'
  BY <1>1, <1>2, <1>3, Works
<1>4. CASE j.cmd \notin {"store", "move"}
  BY <1>1, <1>3, <1>4, FreeIsOK
<1>5. CASE j.cmd \in {"store", "move"}
  <2>1. rest \in SUBSET Ids
    BY DEF Job
  <2> HIDE DEF rest
  <2>2. j \in Job
    OBVIOUS
  <2>3. k \in Job
    BY <2>1, <2>2 DEF Job
  <2>4. /\ k.cmd = j.cmd /\ k.pc = "write" /\ k.box = j.box /\ k.dst = j.dst /\ k.ids = rest
        /\ k.snap = j.snap /\ k.op = j.op
    BY <1>1, <2>2 DEF Job
  <2> HIDE DEF k
  <2>5. NextMessage(k) \in Job /\ JobOK(NextMessage(k), Len(rows)) /\ ~Recording(NextMessage(k))
    <3>1. CASE rest = {}
      BY <2>4, <3>1, FreeIsOK DEF NextMessage
    <3>2. CASE rest # {}
      <4>1. k.cmd \notin {"none", "append"} /\ j.box \in Boxes /\ rest \subseteq j.ids
        BY <1>1, <1>5, <2>4 DEF JobOK, rest
      <4>2. JobOK(k, Len(rows))
        BY <2>4, <3>2, <4>1 DEF JobOK, Recording
      <4>3. QED
        BY <2>3, <2>4, <4>1, <4>2, NextMessageOK
    <3>3. QED
      BY <3>1, <3>2
  <2>6. job' = [job EXCEPT ![a] = NextMessage(k)]
    BY <1>1, <1>5
  <2>7. QED
    BY <1>3, <2>5, <2>6
<1>6. QED
  BY <1>4, <1>5

LEMMA CrashKeeps ==
  ASSUME IInv, Crash
  PROVE  IInv'
<1> USE Parts
<1>1. /\ \A a \in Actors : job'[a] = Free
      /\ \A c \in Conns : sess'[c] = Closed
      /\ tainted' = tainted \cup {i \in Ids : Busy(i)} /\ UNCHANGED <<rows, last, cmds>>
      /\ faults' = faults + 1
  BY DEF Crash
<1>2. Closed \in Session /\ Closed.selected = NoBox
  BY DEF Closed, Session
<1>3. TypeOK'
  BY <1>1, <1>2, FreeIsOK DEF IInv, TypeOK, Crash
<1>4. \A c \in Conns : Beginning(sess'[c], rows')
  BY <1>1, <1>2, Views
<1>5. FeedOK(rows, last, job', tainted')
  <2>1. \A a \in Actors : JobOK(job'[a], Len(rows)) /\ ~Recording(job'[a])
    BY <1>1, FreeIsOK
  <2>2. RecordsOK(rows, last, job', tainted') /\ OneRecorder(job', tainted')
    BY <2>1 DEF RecordsOK, OneRecorder
  <2>3. ASSUME NEW i \in 1..Len(rows), i \notin tainted' PROVE Agree(rows[i], last, i, {})
    <3>1. i \in Ids
      BY DEF Ids
    <3>2. i \notin tainted /\ ~Busy(i)
      BY <1>1, <2>3, <3>1
    <3>3. Recorders(job, i) = {}
      BY <3>2 DEF Busy, Recorders, Recording
    <3>4. QED
      BY <3>2, <3>3 DEF FeedOK, Agreement
  <2>4. Agreement(rows, last, job', tainted')
    BY <2>3 DEF Agreement
  <2>5. Unborn(rows, last)
    BY DEF FeedOK
  <2>6. QED
    BY <2>1, <2>2, <2>4, <2>5 DEF FeedOK
<1>6. FeedOK(rows', last', job', tainted')
  BY <1>1, <1>5
<1>7. QED
  BY <1>3, <1>4, <1>6 DEF IInv

(***************************************************************************)
(* The theorems.                                                           *)
(***************************************************************************)

LEMMA InitIInv == Init => IInv
<1> SUFFICES ASSUME Init PROVE IInv
  OBVIOUS
<1>1. rows = <<>> /\ rows \in Seq(Row) /\ Len(rows) = 0 /\ tainted = {} /\ cmds = 0 /\ faults = 0
  BY EmptySeq DEF Init
<1>2. /\ \A c \in Conns : sess[c] = Closed
      /\ \A a \in Actors : job[a] = Free
      /\ \A f \in Boxes, i \in Ids : last[<<f, i>>] = "none"
  BY DEF Init
<1>3. Closed \in Session /\ Closed.selected = NoBox
  BY DEF Closed, Session
<1>4. TypeOK
  BY <1>1, <1>3, FreeIsOK DEF TypeOK, Init
<1>5. FeedOK(rows, last, job, tainted)
  BY <1>1, <1>2, FreeIsOK DEF FeedOK, RecordsOK, OneRecorder, Unborn, Announced, Agreement
<1>6. \A c \in Conns : Beginning(sess[c], rows)
  BY <1>2, <1>3 DEF Beginning
<1>7. QED
  BY <1>4, <1>5, <1>6 DEF IInv

LEMMA NextIInv == IInv /\ [Next]_vars => IInv'
<1> SUFFICES ASSUME IInv, [Next]_vars PROVE IInv'
  OBVIOUS
<1>1. ASSUME NEW c \in Conns,
             \/ Login(c) \/ Fetch(c) \/ Close(c) \/ Disconnect(c)
             \/ Idle(c) \/ IdleUnread(c) \/ IdlePoll(c) \/ IdlePollFails(c) \/ IdleEnds(c)
             \/ \E f \in Boxes : Select(c, f) \/ \E flags \in SUBSET {"seen", "flagged"} : AppendMessage(c, f, flags)
             \/ \E r \in Ranges, uidMode \in BOOLEAN :
                  \/ \E op \in StoreOps : Store(c, r, uidMode, op)
                  \/ \E f \in Boxes : Move(c, r, uidMode, f)
      PROVE  IInv'
  BY <1>1, ConnectionKeeps, CommandsKeep
<1>2. ASSUME NEW a \in Actors, Working(a) \/ WriteFails(a) \/ InsertHalf(a) \/ AddChangeFails(a)
      PROVE  IInv'
  BY <1>2, WriteKeeps, InsertKeeps, AddChangeKeeps, AddChangeDstKeeps, WriteFailsKeeps,
     AddChangeFailsKeeps DEF Working
<1>3. ASSUME UNCHANGED vars PROVE IInv'
  BY <1>3 DEF vars, IInv, TypeOK
<1>4. QED
  BY <1>1, <1>2, <1>3, AppsKeep, CrashKeeps DEF Next

LEMMA Inductive == Spec => []IInv
  BY InitIInv, NextIInv, PTL DEF Spec

\* Type correctness: whatever commands race, a message stays in a folder that exists, and
\* the ids a command still has to write are rows.
THEOREM TypeCorrect == Spec => []TypeOK
<1>1. IInv => TypeOK
  BY DEF IInv
<1>2. QED
  BY <1>1, Inductive, PTL

\* The messages table and the change feed agree about every message that no two commands
\* wrote at the same time and whose records all got written, but that MoveItems announces a
\* message it moves after the message was deleted: STORE, MOVE, MoveItems,
\* EmptyFolderContents, APPEND, delivery and webmail together.
THEOREM FeedAgrees == Spec => []FeedTells
<1>1. IInv => FeedTells
  <2> SUFFICES ASSUME IInv, NEW i \in DOMAIN rows, i \notin tainted, ~Busy(i), NEW f \in Boxes
               PROVE  last[<<f, i>>] \in {"add", "change"}
                      <=> Live(f, i) \/ (rows[i].box = f /\ rows[i].ghost)
    BY DEF FeedTells
  <2>1. Recorders(job, i) = {} /\ i \in 1..Len(rows)
    BY Parts DEF Busy, Recorders, Recording
  <2>2. Agree(rows[i], last, i, {})
    BY <2>1, Parts DEF FeedOK, Agreement
  <2>3. QED
    BY <2>2 DEF Agree, Shown, Announced, Live, MessagesForIMAP
<1>2. QED
  BY <1>1, Inductive, PTL

\* Without a single EXPUNGE a client's sequence numbers stay those of the server, as long
\* as nothing left its folder or was moved in among the messages it has numbers for.
THEOREM NumbersStay == Spec => []NumbersHold
<1>1. IInv => NumbersHold
  <2> SUFFICES ASSUME IInv, NEW c \in Conns, sess[c].selected # NoBox, ~sess[c].shifted,
                      NEW i \in sess[c].told
               PROVE  /\ Live(sess[c].selected, i)
                      /\ Number(sess[c].told, i) = Number(MessagesForIMAP(sess[c].selected), i)
    BY DEF NumbersHold
  <2> DEFINE list == MessagesForIMAP(sess[c].selected)
  <2>1. /\ \A k \in sess[c].told : k \in 1..Len(rows) /\ k \in list
        /\ \A k \in list : k \notin sess[c].told => \A m \in sess[c].told : m < k
    BY Parts DEF Beginning, MessagesForIMAP, LiveIn
  <2>2. list \subseteq 1..Len(rows) /\ Len(rows) \in Nat
    BY Parts DEF MessagesForIMAP
  <2> HIDE DEF list
  <2>3. {k \in sess[c].told : k <= i} = {k \in list : k <= i}
    <3>1. ASSUME NEW k \in list, k <= i PROVE k \in sess[c].told
      <4>1. k \notin sess[c].told => i < k
        BY <2>1
      <4>2. k \in Nat /\ i \in Nat
        BY <2>1, <2>2
      <4>3. QED
        BY <3>1, <4>1, <4>2
    <3>2. QED
      BY <2>1, <3>1
  <2>4. QED
    BY <2>1, <2>3 DEF Live, Number, list
<1>2. QED
  BY <1>1, Inductive, PTL
=============================================================================
