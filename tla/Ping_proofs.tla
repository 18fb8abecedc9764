---------------------------- MODULE Ping_proofs ----------------------------
(***************************************************************************)
(* The registry of long polls is right for every number of accounts,       *)
(* devices, folders and overlapping requests.                              *)
(***************************************************************************)
EXTENDS Ping, TLAPS

\* The registry pingWait holds, for each key, a request of that key that has passed
\* acquirePing and whose channel is open; a request about to register has an open
\* channel too; and what a request looks at or is about to announce is a folder.
Registry ==
  /\ \A k \in Keys : pingWait[k] # NoPing =>
       /\ Registered(pingWait[k])
       /\ key[pingWait[k]] = k
       /\ closed[pingWait[k]] = 0
  /\ \A p \in Pings : pc[p] = "acquire" => closed[p] = 0
  /\ \A p \in Pings : pc[p] \in {"changes", "notify"} => seen[p].folder \in Folders

\* The inductive invariant.
IInv == TypeOK /\ Registry /\ Reachable /\ ClosedOnce

\* The inductive invariant holds at the start.
LEMMA InitIInv == Init => IInv
<1> SUFFICES ASSUME Init PROVE IInv
  OBVIOUS
<1>1. TypeOK
  BY DEF Init, TypeOK, Seqs, News, NoNews, Places
<1>2. Registry /\ Reachable /\ ClosedOnce
  BY DEF Init, Registry, Reachable, ClosedOnce, Registered
<1> QED
  BY <1>1, <1>2 DEF IInv

\* Every step keeps the types.
LEMMA NextTypeOK == IInv /\ [Next]_vars => TypeOK'
<1> SUFFICES ASSUME IInv, [Next]_vars PROVE TypeOK'
  OBVIOUS
<1> USE PingAssumption DEF IInv, TypeOK, Seqs, Places
<1>1. ASSUME NEW f \in Folders, Change(f) PROVE TypeOK'
  BY <1>1 DEF Change, local
<1>2. ASSUME NEW k \in Keys, OtherCommand(k) PROVE TypeOK'
  BY <1>2 DEF OtherCommand, CancelPing, world, local
<1>3. ASSUME NEW k \in Keys, NEW f \in Folders, NEW s \in -1 .. MaxSeq, SavePosition(k, f, s)
      PROVE  TypeOK'
  BY <1>3 DEF SavePosition, local
<1>4. ASSUME NEW k \in Keys, NEW f \in Folders, MuteEnds(k, f) PROVE TypeOK'
  BY <1>4 DEF MuteEnds, world, local
<1>5. ASSUME NEW p \in Pings, NEW k \in Keys, NEW fs \in SUBSET Folders, Begin(p, k, fs) PROVE TypeOK'
  BY <1>5 DEF Begin, world, local
<1>6. ASSUME NEW p \in Pings, AcquirePing(p) PROVE TypeOK'
  BY <1>6 DEF AcquirePing, world, local
<1>7. ASSUME NEW p \in Pings, NEW f \in Folders, Look(p, f) PROVE TypeOK'
  <2>1. [folder |-> f, seq |-> pos[key[p]][f]] \in News
    BY DEF News
  <2>2. pc' \in [Pings -> Places] /\ seen' \in [Pings -> News]
    BY <1>7, <2>1 DEF Look
  <2>3. left' \in [Pings -> SUBSET Folders]
    BY <1>7 DEF Look
  <2> QED
    BY <1>7, <2>2, <2>3 DEF Look, world
<1>8. ASSUME NEW p \in Pings, Notify(p) PROVE TypeOK'
  <2>1. seen[p].folder \in Folders /\ seen[p].seq \in {-1} \cup Nat
    BY <1>8 DEF Notify, Registry, News
  <2>2. NoNews \in News
    BY DEF NoNews, News
  <2>3. seen' \in [Pings -> News]
    BY <1>8, <2>2 DEF Notify
  <2>4. pc' \in [Pings -> Places] /\ answer' \in [Pings -> {0, 1, 2}]
    BY <1>8 DEF Notify
  <2>5. notified' \in [Keys -> [Folders -> Seqs]]
    <3>1. notified' = notified \/ notified' = [notified EXCEPT ![key[p]][seen[p].folder] = seen[p].seq]
      BY <1>8 DEF Notify
    <3>2. notified \in [Keys -> [Folders -> Seqs]] /\ key[p] \in Keys
      OBVIOUS
    <3>3. [notified[key[p]] EXCEPT ![seen[p].folder] = seen[p].seq] \in [Folders -> Seqs]
      BY <2>1, <3>2
    <3> HIDE DEF IInv, TypeOK, Seqs
    <3> QED
      BY <3>1, <3>2, <3>3
  <2> QED
    BY <1>8, <2>3, <2>4, <2>5 DEF Notify, world
<1>9. ASSUME NEW p \in Pings, HeartbeatOver(p) \/ Sleep(p) \/ Cancelled(p) \/ Disconnected(p)
      PROVE  TypeOK'
  BY <1>9 DEF HeartbeatOver, Sleep, Cancelled, Disconnected, world, local
<1>10. ASSUME NEW p \in Pings, Tick(p) PROVE TypeOK'
  BY <1>10 DEF Tick, world
<1>11. ASSUME NEW p \in Pings, ReleasePing(p) PROVE TypeOK'
  <2>1. pingWait' \in [Keys -> Pings \cup {NoPing}]
    BY <1>11 DEF ReleasePing
  <2>2. targets' \in [Pings -> SUBSET Folders] /\ left' \in [Pings -> SUBSET Folders]
    BY <1>11 DEF ReleasePing
  <2> QED
    BY <1>11, <2>1, <2>2 DEF ReleasePing, world
<1>12. ASSUME NEW p \in Pings, NEW f \in Folders, LookFails(p, f) PROVE TypeOK'
  BY <1>12 DEF LookFails, world
<1>14. ASSUME NEW p \in Pings, HasChangesAfterFails(p) \/ (\E f \in Folders : HasChangesAfter(p, f))
       PROVE  TypeOK'
  <2>1. NoNews \in News
    BY DEF NoNews, News
  <2>2. pc' \in [Pings -> Places] /\ seen' \in [Pings -> News]
    BY <1>14, <2>1 DEF HasChangesAfter, HasChangesAfterFails
  <2> QED
    BY <1>14, <2>2 DEF HasChangesAfter, HasChangesAfterFails, world
<1>13. ASSUME UNCHANGED vars PROVE TypeOK'
  BY <1>13 DEF vars
<1> QED
  BY <1>1, <1>2, <1>3, <1>4, <1>5, <1>6, <1>7, <1>8, <1>9, <1>10, <1>13, <1>11,
     <1>12, <1>14 DEF Next, Step

\* Every step keeps the registry and the channels right.
LEMMA NextRegistry == IInv /\ [Next]_vars => (Registry /\ Reachable /\ ClosedOnce)'
<1> DEFINE Good == Registry /\ Reachable /\ ClosedOnce
<1> SUFFICES ASSUME IInv, [Next]_vars PROVE Good'
  OBVIOUS
<1>t. /\ pingWait \in [Keys -> Pings \cup {NoPing}]
      /\ pc \in [Pings -> Places]
      /\ key \in [Pings -> Keys]
      /\ closed \in [Pings -> Nat]
      /\ seen \in [Pings -> News]
  BY DEF IInv, TypeOK
<1>i. Registry /\ Reachable /\ ClosedOnce
  BY DEF IInv
<1> USE PingAssumption, <1>t, <1>i DEF Registry, Reachable, ClosedOnce, Registered
<1>1. ASSUME NEW f \in Folders, Change(f) PROVE Good'
  BY <1>1 DEF Change, local
<1>2. ASSUME NEW k \in Keys, CancelPing(k), UNCHANGED <<pc, local>> PROVE Good'
  <2>1. \A p \in Pings : Registered(p)' <=> Registered(p)
    BY <1>2
  <2>2. \A p \in Pings : p # pingWait[k] => closed'[p] = closed[p]
    BY <1>2 DEF CancelPing
  <2>3. \A p \in Pings : p = pingWait[k] => closed[p] = 0 /\ closed'[p] = 1
    BY <1>2 DEF CancelPing
  <2>4. \A j \in Keys : pingWait'[j] = IF j = k THEN NoPing ELSE pingWait[j]
    BY <1>2 DEF CancelPing
  <2>5. Registry'
    BY <1>2, <2>1, <2>2, <2>3, <2>4 DEF local
  <2>6. Reachable' /\ ClosedOnce'
    BY <1>2, <2>1, <2>2, <2>3, <2>4 DEF local
  <2> QED
    BY <2>5, <2>6
<1>3. ASSUME NEW k \in Keys, NEW f \in Folders, MuteEnds(k, f) PROVE Good'
  BY <1>3 DEF MuteEnds, local
<1>4. ASSUME NEW k \in Keys, NEW f \in Folders, NEW s, SavePosition(k, f, s) PROVE Good'
  BY <1>4 DEF SavePosition, local
<1>5. ASSUME NEW p \in Pings, NEW f \in Folders, LookFails(p, f) PROVE Good'
  BY <1>5 DEF LookFails
<1>6. ASSUME NEW p \in Pings, NEW k \in Keys, NEW fs \in SUBSET Folders, Begin(p, k, fs) PROVE Good'
  BY <1>6 DEF Begin
<1>7. ASSUME NEW p \in Pings, AcquirePing(p) PROVE Good'
  <2> DEFINE k == key[p]
  <2>1. \A q \in Pings : Registered(q)' <=> (Registered(q) \/ q = p)
    BY <1>7 DEF AcquirePing
  <2>2. \A q \in Pings : q # pingWait[k] => closed'[q] = closed[q]
    BY <1>7 DEF AcquirePing
  <2>3. \A q \in Pings : q = pingWait[k] => closed[q] = 0 /\ closed'[q] = 1
    BY <1>7 DEF AcquirePing
  <2>4. \A j \in Keys : pingWait'[j] = IF j = k THEN p ELSE pingWait[j]
    BY <1>7 DEF AcquirePing
  <2>5. p # pingWait[k] /\ ~Registered(p) /\ closed[p] = 0
    BY <1>7 DEF AcquirePing
  <2>6. key' = key /\ seen' = seen /\ \A q \in Pings \ {p} : pc'[q] = pc[q]
    BY <1>7 DEF AcquirePing
  <2>7. pc'[p] = "poll"
    BY <1>7 DEF AcquirePing
  <2>8. Registry'
    BY <2>1, <2>2, <2>3, <2>4, <2>5, <2>6, <2>7
  <2>9. Reachable' /\ ClosedOnce'
    BY <2>1, <2>2, <2>3, <2>4, <2>5, <2>6
  <2> QED
    BY <2>8, <2>9
<1>8. ASSUME NEW p \in Pings, NEW f \in Folders, Look(p, f) PROVE Good'
  <2>1. \A q \in Pings : Registered(q)' <=> Registered(q)
    BY <1>8 DEF Look
  <2>2. \A q \in Pings : pc'[q] = "acquire" => pc[q] = "acquire"
    BY <1>8 DEF Look
  <2>3. \A q \in Pings : pc'[q] \in {"changes", "notify"} => seen'[q].folder \in Folders
    BY <1>8 DEF Look
  <2> QED
    BY <1>8, <2>1, <2>2, <2>3 DEF Look
<1>9. ASSUME NEW p \in Pings, NEW c \in {"poll", "wait", "release"}, Registered(p),
             pc' = [pc EXCEPT ![p] = c], UNCHANGED <<pingWait, key, closed>>,
             \A q \in Pings \ {p} : seen'[q] = seen[q]
      PROVE  Good'
  <2>1. \A q \in Pings : Registered(q)' <=> Registered(q)
    BY <1>9
  <2>2. \A q \in Pings : pc'[q] = "acquire" => pc[q] = "acquire"
    BY <1>9
  <2>3. \A q \in Pings : pc'[q] \in {"changes", "notify"} => q # p /\ pc[q] \in {"changes", "notify"}
    BY <1>9
  <2> QED
    BY <1>9, <2>1, <2>2, <2>3
<1>10. ASSUME NEW p \in Pings, Notify(p) PROVE Good'
  <2>1. \A q \in Pings \ {p} : seen'[q] = seen[q]
    BY <1>10 DEF Notify
  <2>2. pc' = [pc EXCEPT ![p] = "release"] \/ pc' = [pc EXCEPT ![p] = "poll"]
    BY <1>10 DEF Notify
  <2> QED
    BY <1>9, <1>10, <2>1, <2>2 DEF Notify
<1>11. ASSUME NEW p \in Pings, HeartbeatOver(p) \/ Sleep(p) \/ Cancelled(p) \/ Disconnected(p) \/ Tick(p)
       PROVE  Good'
  <2>1. /\ UNCHANGED <<pingWait, key, closed, seen>>
        /\ Registered(p)
        /\ \/ pc' = [pc EXCEPT ![p] = "release"]
           \/ pc' = [pc EXCEPT ![p] = "poll"]
           \/ pc' = [pc EXCEPT ![p] = "wait"]
    BY <1>11 DEF HeartbeatOver, Sleep, Cancelled, Disconnected, Tick, local
  <2> QED
    BY <1>9, <2>1
<1>12. ASSUME NEW p \in Pings, ReleasePing(p) PROVE Good'
  BY <1>12 DEF ReleasePing
<1>14. ASSUME NEW p \in Pings, HasChangesAfterFails(p) \/ (\E f \in Folders : HasChangesAfter(p, f))
       PROVE  Good'
  <2>1. CASE pc' = [pc EXCEPT ![p] = "poll"]
    <3>1. \A q \in Pings \ {p} : seen'[q] = seen[q]
      BY <1>14 DEF HasChangesAfter, HasChangesAfterFails
    <3> QED
      BY <1>9, <1>14, <2>1, <3>1 DEF HasChangesAfter, HasChangesAfterFails
  <2>2. CASE pc' = [pc EXCEPT ![p] = "notify"] /\ UNCHANGED seen
    BY <1>14, <2>2 DEF HasChangesAfter, HasChangesAfterFails
  <2> QED
    BY <1>14, <2>1, <2>2 DEF HasChangesAfter, HasChangesAfterFails
<1>13. ASSUME UNCHANGED vars PROVE Good'
  BY <1>13 DEF vars
<1> HIDE DEF Good
<1> QED
  BY <1>1, <1>2, <1>3, <1>6, <1>7, <1>8, <1>10, <1>12, <1>13, <1>14, <1>11, <1>4,
     <1>5 DEF Next, Step, OtherCommand

\* The inductive invariant holds in every behaviour.
LEMMA SpecIInv == Spec => []IInv
<1>1. IInv /\ [Next]_vars => IInv'
  BY NextTypeOK, NextRegistry DEF IInv
<1> QED
  BY InitIInv, <1>1, PTL DEF Spec

\* All variables keep their types: in particular a poll only ever watches, looks at
\* and announces existing folders (cmdPing).
THEOREM TypeCorrect == Spec => []TypeOK
BY SpecIInv, PTL DEF IInv

\* close is never called twice on a channel, so acquirePing and cancelPing cannot
\* panic the server, whatever requests overlap.
THEOREM ChannelsClosedOnce == Spec => []ClosedOnce
BY SpecIInv, PTL DEF IInv

\* A poll that has not been told to end is always the one in pingWait, so the next
\* command of its account and device ends it (cancelPing).
THEOREM PollsReachable == Spec => []Reachable
BY SpecIInv, PTL DEF IInv

\* At most one poll per account and device is held open (acquirePing, releasePing).
THEOREM OnePollPerKey == Spec => []SinglePoll
<1>1. IInv => SinglePoll
  BY DEF IInv, Reachable, SinglePoll
<1> QED
  BY SpecIInv, <1>1, PTL
=============================================================================
