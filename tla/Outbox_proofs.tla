--------------------------- MODULE Outbox_proofs ---------------------------
(***************************************************************************)
(* The outbox keeps its promises for every set of messages and every       *)
(* MaxAttempts: nothing accepted is lost, a stored path has its file, the  *)
(* attempts are bounded and duplicates need a fault.                       *)
(***************************************************************************)
EXTENDS Outbox, TLAPS

\* What the inductive invariant speaks about.
Started(m) == sub[m] \notin {"new", "insert"}
InBatch(m) == \E it \in batch : it.msg = m
InCur(m) == \E it \in cur : it.msg = m
Gone(m) == relay[m] > 0 \/ m \in hollow \/ m \in dropped

\* The worker handles each message of a batch once, and deletes only the message it
\* has just sent (Drain).
Shape ==
  /\ \A a, b \in batch \cup cur : a.msg = b.msg => a = b
  /\ batch \cap cur = {}
  /\ \A a, b \in cur : a = b
  /\ cur # {} => worker \in {"fail", "delete"}
  /\ worker = "idle" => batch = {}
  /\ deleters["worker"].pc # "idle" => worker = "delete"
  /\ \A m \in deleters["worker"].msg : InCur(m)
  /\ worker = "delete" /\ deleters["worker"].pc # "idle" =>
       \A it \in cur : it.msg \in deleters["worker"].msg
  /\ \A w \in Deleters : deleters[w].pc = "idle" => deleters[w].msg = {}

\* The life of a message: nothing refers to it before its row is inserted, its path
\* is set when its file is there, a row whose file is being removed is gone.
Life ==
  \A m \in Msgs :
    /\ ~Started(m) =>
         /\ ~outbox[m].here /\ tries[m] = 0 /\ ~InBatch(m) /\ ~InCur(m)
         /\ \A w \in Deleters : m \notin deleters[w].msg
    /\ sub[m] = "new" => relay[m] = 0
    /\ outbox[m].path => outbox[m].here /\ sub[m] = "accepted" /\ m \in blob
    /\ sub[m] = "path" => m \in blob
    /\ \A w \in Deleters : m \in deleters[w].msg =>
         /\ deleters[w].path => sub[m] = "accepted"
         /\ deleters[w].pc = "blob" => ~outbox[m].here

\* A row is deleted only after the relay took the message or an administrator
\* dropped it.
Kept ==
  \A m \in Msgs :
    /\ sub[m] \in {"put", "path"} /\ ~outbox[m].here => Gone(m)
    /\ sub[m] = "accepted" /\ ~outbox[m].path => Gone(m)
    /\ m \in deleters["worker"].msg => Gone(m)
    /\ worker = "delete" /\ InCur(m) => Gone(m)

\* A message that can be sent once more was taken at most once per fault.
Dup ==
  \A m \in Msgs :
    /\ relay[m] <= 1 + faults
    /\ \/ ~Started(m)
       \/ InBatch(m)
       \/ outbox[m].here /\ ~(worker = "delete" /\ InCur(m))
       => relay[m] <= faults

\* The attempts a row or a batch counts are those made, except one per fault and the
\* one being made.
Count ==
  /\ \A it \in batch \cup cur : it.attempts < MaxAttempts
  /\ \A it \in batch : tries[it.msg] <= it.attempts + faults
  /\ \A it \in cur : tries[it.msg] <= it.attempts + 1 + faults
  /\ \A m \in Msgs :
       /\ tries[m] <= MaxAttempts + faults
       /\ outbox[m].here => tries[m] <= outbox[m].attempts + 1 + faults
       /\ outbox[m].here /\ ~InCur(m) => tries[m] <= outbox[m].attempts + faults
       /\ outbox[m].here /\ ~outbox[m].failed => outbox[m].attempts < MaxAttempts

IInv == TypeOK /\ Shape /\ Life /\ Kept /\ Dup /\ Count

\* The inductive invariant holds at the start.
LEMMA InitIInv == Init => IInv
<1> SUFFICES ASSUME Init PROVE IInv
  OBVIOUS
<1> USE OutboxAssumption DEF Init
<1>1. TypeOK
  BY DEF TypeOK, Row, NoRow, Deleters, NoDelete
<1>2. Shape
  BY DEF Shape, Deleters, NoDelete, InCur
<1>3. Life /\ Kept
  BY DEF Life, Kept, Started, InBatch, InCur, NoRow, NoDelete, Deleters
<1>4. Dup /\ Count
  BY DEF Dup, Count, NoRow
<1> QED
  BY <1>1, <1>2, <1>3, <1>4 DEF IInv

\* A row stays a row when an attempt is counted, and when it is made due again.
LEMMA RetryOutboundRow ==
  ASSUME NEW r \in Row, NEW n \in Nat PROVE RetryOutbound(r, n) \in Row
<1> DEFINE f == n >= MaxAttempts
<1>1. f \in BOOLEAN
  OBVIOUS
<1>2. RetryOutbound(r, n) = [r EXCEPT !.attempts = n, !.failed = f, !.due = f]
  BY DEF RetryOutbound
<1> HIDE DEF f
<1> QED
  BY <1>1, <1>2 DEF Row

\* ... and when an administrator makes it due.
LEMMA RetryNowRow ==
  ASSUME NEW r \in Row PROVE [r EXCEPT !.failed = FALSE, !.attempts = 0, !.due = TRUE] \in Row
BY DEF Row

\* Every step keeps the types.
LEMMA NextTypeOK == IInv /\ [Next]_vars => TypeOK'
<1> SUFFICES ASSUME IInv, [Next]_vars PROVE TypeOK'
  OBVIOUS
<1> USE OutboxAssumption DEF IInv, TypeOK, Row, Item, Deleters
<1>1. ASSUME NEW m \in Msgs, SubmitRefused(m) PROVE TypeOK'
  BY <1>1 DEF SubmitRefused, store, counts, queue
<1>2. ASSUME NEW m \in Msgs, SubmitSent(m) PROVE TypeOK'
  BY <1>2 DEF SubmitSent, store, counts, queue
<1>3. ASSUME NEW m \in Msgs, SubmitFails(m) PROVE TypeOK'
  BY <1>3 DEF SubmitFails, store, counts, queue
<1>4. ASSUME NEW m \in Msgs, Insert(m) PROVE TypeOK'
  BY <1>4 DEF Insert, NewRow, store, counts, queue
<1>5. ASSUME NEW m \in Msgs, Put(m) PROVE TypeOK'
  BY <1>5 DEF Put, store, counts, queue
<1>6. ASSUME NEW m \in Msgs, EnqueueFails(m) PROVE TypeOK'
  BY <1>6 DEF EnqueueFails, store, counts, queue
<1>7. ASSUME NEW m \in Msgs, SetPath(m) PROVE TypeOK'
  BY <1>7 DEF SetPath, store, counts, queue
<1>8. ASSUME Drain PROVE TypeOK'
  BY <1>8 DEF Drain, Due, store, counts, queue
<1>9. ASSUME LoadRaw PROVE TypeOK'
  BY <1>9 DEF LoadRaw, store, counts, queue
<1>10. ASSUME NEW it \in batch, SendOK(it) PROVE TypeOK'
  BY <1>10 DEF SendOK, Attempt, Taken, store, counts, queue
<1>11. ASSUME NEW it \in batch, SendFails(it) PROVE TypeOK'
  BY <1>11 DEF SendFails, Attempt, store, counts, queue
<1>12. ASSUME NEW it \in batch, SendFailsLate(it) PROVE TypeOK'
  BY <1>12 DEF SendFailsLate, Attempt, Taken, store, counts, queue
<1>13. ASSUME BatchDone PROVE TypeOK'
  BY <1>13 DEF BatchDone, store, counts, queue
<1>14. ASSUME Fail PROVE TypeOK'
  <2>1. PICK it \in cur :
          outbox' = [outbox EXCEPT ![it.msg] =
                       IF @.here THEN RetryOutbound(@, it.attempts + 1) ELSE @]
    BY <1>14 DEF Fail
  <2>2. RetryOutbound(outbox[it.msg], it.attempts + 1) \in Row
    <3>1. it.attempts + 1 \in Nat /\ outbox[it.msg] \in Row
      OBVIOUS
    <3> HIDE DEF Row
    <3> QED
      BY <3>1, RetryOutboundRow
  <2>3. outbox' \in [Msgs -> Row]
    BY <2>1, <2>2
  <2> QED
    BY <1>14, <2>3 DEF Fail, counts
<1>15. ASSUME NEW m \in Msgs, TimePasses(m) PROVE TypeOK'
  BY <1>15 DEF TimePasses, store, counts, queue
<1>16. ASSUME DeleteDelivered PROVE TypeOK'
  BY <1>16 DEF DeleteDelivered, ReadPath, store, counts, queue
<1>17. ASSUME NEW w \in Deleters, DeleteRow(w) PROVE TypeOK'
  BY <1>17 DEF DeleteRow, NoRow, store, counts, queue
<1>18. ASSUME NEW w \in Deleters, RemoveBlob(w) PROVE TypeOK'
  BY <1>18 DEF RemoveBlob, Return, NoDelete, store, counts, queue
<1>19. ASSUME NEW m \in Msgs, RetryNow(m) PROVE TypeOK'
  <2>1. [outbox[m] EXCEPT !.failed = FALSE, !.attempts = 0, !.due = TRUE] \in Row
    BY RetryNowRow
  <2>2. outbox' = [outbox EXCEPT ![m] =
                     [outbox[m] EXCEPT !.failed = FALSE, !.attempts = 0, !.due = TRUE]]
    BY <1>19 DEF RetryNow
  <2>3. outbox' \in [Msgs -> Row]
    BY <2>1, <2>2
  <2> QED
    BY <1>19, <2>3 DEF RetryNow, queue
<1>20. ASSUME NEW m \in Msgs, Drop(m) PROVE TypeOK'
  BY <1>20 DEF Drop, ReadPath, store, counts, queue
<1>21. ASSUME Configure PROVE TypeOK'
  BY <1>21 DEF Configure, store, counts, queue
<1>22. ASSUME Crash PROVE TypeOK'
  BY <1>22 DEF Crash, NoDelete, store, counts, queue
<1>23. ASSUME FailUncounted PROVE TypeOK'
  BY <1>23 DEF FailUncounted, store
<1>24. ASSUME NEW w \in Deleters, DeleteFails(w) PROVE TypeOK'
  BY <1>24 DEF DeleteFails, Return, NoDelete, store
<1>25. ASSUME UNCHANGED vars PROVE TypeOK'
  BY <1>25 DEF vars
<1> QED
  BY <1>1, <1>2, <1>3, <1>4, <1>5, <1>6, <1>7, <1>8, <1>9, <1>10, <1>11, <1>12,
     <1>13, <1>14, <1>15, <1>16, <1>17, <1>18, <1>19, <1>20, <1>21, <1>22, <1>25,
     <1>23, <1>24 DEF Next, Submit, Work

\* Every step keeps the worker, its batch and its delete in step.
LEMMA NextShape == IInv /\ [Next]_vars => Shape'
<1> SUFFICES ASSUME IInv, [Next]_vars PROVE Shape'
  OBVIOUS
<1> USE DEF IInv, Shape, InCur, Deleters, TypeOK
<1>1. ASSUME NEW m \in Msgs, SubmitRefused(m) PROVE Shape'
  BY <1>1 DEF SubmitRefused, store, counts, queue
<1>2. ASSUME NEW m \in Msgs, SubmitSent(m) PROVE Shape'
  BY <1>2 DEF SubmitSent, store, counts, queue
<1>3. ASSUME NEW m \in Msgs, SubmitFails(m) PROVE Shape'
  BY <1>3 DEF SubmitFails, store, counts, queue
<1>4. ASSUME NEW m \in Msgs, Insert(m) PROVE Shape'
  BY <1>4 DEF Insert, NewRow, store, counts, queue
<1>5. ASSUME NEW m \in Msgs, Put(m) PROVE Shape'
  BY <1>5 DEF Put, store, counts, queue
<1>6. ASSUME NEW m \in Msgs, EnqueueFails(m) PROVE Shape'
  BY <1>6 DEF EnqueueFails, store, counts, queue
<1>7. ASSUME NEW m \in Msgs, SetPath(m) PROVE Shape'
  BY <1>7 DEF SetPath, store, counts, queue
<1>8. ASSUME Drain PROVE Shape'
  BY <1>8 DEF Drain, Due, store, counts, queue
<1>9. ASSUME LoadRaw PROVE Shape'
  BY <1>9 DEF LoadRaw, store, counts, queue
<1>10. ASSUME NEW it \in batch, SendOK(it) PROVE Shape'
  BY <1>10 DEF SendOK, Attempt, Taken, store, counts, queue
<1>11. ASSUME NEW it \in batch, SendFails(it) PROVE Shape'
  BY <1>11 DEF SendFails, Attempt, store, counts, queue
<1>12. ASSUME NEW it \in batch, SendFailsLate(it) PROVE Shape'
  BY <1>12 DEF SendFailsLate, Attempt, Taken, store, counts, queue
<1>13. ASSUME BatchDone PROVE Shape'
  BY <1>13 DEF BatchDone, store, counts, queue
<1>14. ASSUME Fail PROVE Shape'
  BY <1>14 DEF Fail, RetryOutbound, store, counts, queue
<1>15. ASSUME NEW m \in Msgs, TimePasses(m) PROVE Shape'
  BY <1>15 DEF TimePasses, store, counts, queue
<1>16. ASSUME DeleteDelivered PROVE Shape'
  BY <1>16 DEF DeleteDelivered, ReadPath, store, counts, queue
<1>17. ASSUME NEW w \in Deleters, DeleteRow(w) PROVE Shape'
  BY <1>17 DEF DeleteRow, NoRow, store, counts, queue
<1>18. ASSUME NEW w \in Deleters, RemoveBlob(w) PROVE Shape'
  BY <1>18 DEF RemoveBlob, Return, NoDelete, store, counts, queue
<1>19. ASSUME NEW m \in Msgs, RetryNow(m) PROVE Shape'
  BY <1>19 DEF RetryNow, store, counts, queue
<1>20. ASSUME NEW m \in Msgs, Drop(m) PROVE Shape'
  BY <1>20 DEF Drop, ReadPath, store, counts, queue
<1>21. ASSUME Configure PROVE Shape'
  BY <1>21 DEF Configure, store, counts, queue
<1>22. ASSUME Crash PROVE Shape'
  BY <1>22 DEF Crash, NoDelete, store, counts, queue
<1>23. ASSUME FailUncounted PROVE Shape'
  BY <1>23 DEF FailUncounted, store
<1>24. ASSUME NEW w \in Deleters, DeleteFails(w) PROVE Shape'
  BY <1>24 DEF DeleteFails, Return, NoDelete, store
<1>25. ASSUME UNCHANGED vars PROVE Shape'
  BY <1>25 DEF vars
<1> QED
  BY <1>1, <1>2, <1>3, <1>4, <1>5, <1>6, <1>7, <1>8, <1>9, <1>10, <1>11, <1>12,
     <1>13, <1>14, <1>15, <1>16, <1>17, <1>18, <1>19, <1>20, <1>21, <1>22, <1>25,
     <1>23, <1>24 DEF Next, Submit, Work

\* Every step keeps the life of a message in order.
LEMMA NextLife == IInv /\ [Next]_vars => Life'
<1> SUFFICES ASSUME IInv, [Next]_vars PROVE Life'
  OBVIOUS
<1>t. /\ outbox \in [Msgs -> Row]
      /\ sub \in [Msgs -> {"new", "insert", "put", "path", "accepted", "rejected"}]
      /\ relay \in [Msgs -> Nat] /\ tries \in [Msgs -> Nat] /\ faults \in Nat
      /\ batch \subseteq Item /\ cur \subseteq Item
      /\ deleters \in [Deleters -> [pc : {"idle", "row", "blob"}, msg : SUBSET Msgs, path : BOOLEAN]]
  BY DEF IInv, TypeOK
<1>s. Shape /\ Life
  BY DEF IInv
<1> USE <1>t, <1>s DEF Shape, Life, Started, InBatch, InCur, Row, Item, Deleters
<1>1. ASSUME NEW m \in Msgs, SubmitRefused(m) PROVE Life'
  BY <1>1 DEF SubmitRefused, store, counts, queue
<1>2. ASSUME NEW m \in Msgs, SubmitSent(m) PROVE Life'
  BY <1>2 DEF SubmitSent, store, counts, queue
<1>3. ASSUME NEW m \in Msgs, SubmitFails(m) PROVE Life'
  BY <1>3 DEF SubmitFails, store, counts, queue
<1>4. ASSUME NEW m \in Msgs, Insert(m) PROVE Life'
  BY <1>4 DEF Insert, NewRow, store, counts, queue
<1>5. ASSUME NEW m \in Msgs, Put(m) PROVE Life'
  BY <1>5 DEF Put, store, counts, queue
<1>6. ASSUME NEW m \in Msgs, EnqueueFails(m) PROVE Life'
  BY <1>6 DEF EnqueueFails, store, counts, queue
<1>7. ASSUME NEW m \in Msgs, SetPath(m) PROVE Life'
  BY <1>7 DEF SetPath, store, counts, queue
<1>8. ASSUME Drain PROVE Life'
  BY <1>8 DEF Drain, Due, store, counts, queue
<1>9. ASSUME LoadRaw PROVE Life'
  BY <1>9 DEF LoadRaw, store, counts, queue
<1>10. ASSUME NEW it \in batch, SendOK(it) PROVE Life'
  BY <1>10 DEF SendOK, Attempt, Taken, store, counts, queue
<1>11. ASSUME NEW it \in batch, SendFails(it) PROVE Life'
  BY <1>11 DEF SendFails, Attempt, store, counts, queue
<1>12. ASSUME NEW it \in batch, SendFailsLate(it) PROVE Life'
  BY <1>12 DEF SendFailsLate, Attempt, Taken, store, counts, queue
<1>13. ASSUME BatchDone PROVE Life'
  BY <1>13 DEF BatchDone, store, counts, queue
<1>14. ASSUME Fail PROVE Life'
  BY <1>14 DEF Fail, RetryOutbound, store, counts, queue
<1>15. ASSUME NEW m \in Msgs, TimePasses(m) PROVE Life'
  BY <1>15 DEF TimePasses, store, counts, queue
<1>16. ASSUME DeleteDelivered PROVE Life'
  BY <1>16 DEF DeleteDelivered, ReadPath, store, counts, queue
<1>17. ASSUME NEW w \in Deleters, DeleteRow(w) PROVE Life'
  BY <1>17 DEF DeleteRow, NoRow, store, counts, queue
<1>18. ASSUME NEW w \in Deleters, RemoveBlob(w) PROVE Life'
  BY <1>18 DEF RemoveBlob, Return, NoDelete, store, counts, queue
<1>19. ASSUME NEW m \in Msgs, RetryNow(m) PROVE Life'
  BY <1>19 DEF RetryNow, store, counts, queue
<1>20. ASSUME NEW m \in Msgs, Drop(m) PROVE Life'
  BY <1>20 DEF Drop, ReadPath, store, counts, queue
<1>21. ASSUME Configure PROVE Life'
  BY <1>21 DEF Configure, store, counts, queue
<1>22. ASSUME Crash PROVE Life'
  BY <1>22 DEF Crash, NoDelete, store, counts, queue
<1>23. ASSUME FailUncounted PROVE Life'
  BY <1>23 DEF FailUncounted, store
<1>24. ASSUME NEW w \in Deleters, DeleteFails(w) PROVE Life'
  BY <1>24 DEF DeleteFails, Return, NoDelete, store
<1>25. ASSUME UNCHANGED vars PROVE Life'
  BY <1>25 DEF vars
<1> QED
  BY <1>1, <1>2, <1>3, <1>4, <1>5, <1>6, <1>7, <1>8, <1>9, <1>10, <1>11, <1>12,
     <1>13, <1>14, <1>15, <1>16, <1>17, <1>18, <1>19, <1>20, <1>21, <1>22, <1>25,
     <1>23, <1>24 DEF Next, Submit, Work

\* No step deletes the row of a message that is not taken or dropped.
LEMMA NextKept == IInv /\ [Next]_vars => Kept'
<1> SUFFICES ASSUME IInv, [Next]_vars PROVE Kept'
  OBVIOUS
<1>t. /\ outbox \in [Msgs -> Row]
      /\ sub \in [Msgs -> {"new", "insert", "put", "path", "accepted", "rejected"}]
      /\ relay \in [Msgs -> Nat] /\ tries \in [Msgs -> Nat] /\ faults \in Nat
      /\ batch \subseteq Item /\ cur \subseteq Item
      /\ deleters \in [Deleters -> [pc : {"idle", "row", "blob"}, msg : SUBSET Msgs, path : BOOLEAN]]
  BY DEF IInv, TypeOK
<1>s. Shape /\ Life /\ Kept
  BY DEF IInv
<1> USE <1>t, <1>s DEF Shape, Life, Kept, Gone, Started, InBatch, InCur, Row, Item, Deleters
<1>1. ASSUME NEW m \in Msgs, SubmitRefused(m) PROVE Kept'
  BY <1>1 DEF SubmitRefused, store, counts, queue
<1>2. ASSUME NEW m \in Msgs, SubmitSent(m) PROVE Kept'
  BY <1>2 DEF SubmitSent, store, counts, queue
<1>3. ASSUME NEW m \in Msgs, SubmitFails(m) PROVE Kept'
  BY <1>3 DEF SubmitFails, store, counts, queue
<1>4. ASSUME NEW m \in Msgs, Insert(m) PROVE Kept'
  BY <1>4 DEF Insert, NewRow, store, counts, queue
<1>5. ASSUME NEW m \in Msgs, Put(m) PROVE Kept'
  BY <1>5 DEF Put, store, counts, queue
<1>6. ASSUME NEW m \in Msgs, EnqueueFails(m) PROVE Kept'
  BY <1>6 DEF EnqueueFails, store, counts, queue
<1>7. ASSUME NEW m \in Msgs, SetPath(m) PROVE Kept'
  BY <1>7 DEF SetPath, store, counts, queue
<1>8. ASSUME Drain PROVE Kept'
  BY <1>8 DEF Drain, Due, store, counts, queue
<1>9. ASSUME LoadRaw PROVE Kept'
  BY <1>9 DEF LoadRaw, store, counts, queue
<1>10. ASSUME NEW it \in batch, SendOK(it) PROVE Kept'
  BY <1>10 DEF SendOK, Attempt, Taken, store, counts, queue
<1>11. ASSUME NEW it \in batch, SendFails(it) PROVE Kept'
  BY <1>11 DEF SendFails, Attempt, store, counts, queue
<1>12. ASSUME NEW it \in batch, SendFailsLate(it) PROVE Kept'
  BY <1>12 DEF SendFailsLate, Attempt, Taken, store, counts, queue
<1>13. ASSUME BatchDone PROVE Kept'
  BY <1>13 DEF BatchDone, store, counts, queue
<1>14. ASSUME Fail PROVE Kept'
  BY <1>14 DEF Fail, RetryOutbound, store, counts, queue
<1>15. ASSUME NEW m \in Msgs, TimePasses(m) PROVE Kept'
  BY <1>15 DEF TimePasses, store, counts, queue
<1>16. ASSUME DeleteDelivered PROVE Kept'
  BY <1>16 DEF DeleteDelivered, ReadPath, store, counts, queue
<1>17. ASSUME NEW w \in Deleters, DeleteRow(w) PROVE Kept'
  BY <1>17 DEF DeleteRow, NoRow, store, counts, queue
<1>18. ASSUME NEW w \in Deleters, RemoveBlob(w) PROVE Kept'
  BY <1>18 DEF RemoveBlob, Return, NoDelete, store, counts, queue
<1>19. ASSUME NEW m \in Msgs, RetryNow(m) PROVE Kept'
  BY <1>19 DEF RetryNow, store, counts, queue
<1>20. ASSUME NEW m \in Msgs, Drop(m) PROVE Kept'
  BY <1>20 DEF Drop, ReadPath, store, counts, queue
<1>21. ASSUME Configure PROVE Kept'
  BY <1>21 DEF Configure, store, counts, queue
<1>22. ASSUME Crash PROVE Kept'
  BY <1>22 DEF Crash, NoDelete, store, counts, queue
<1>23. ASSUME FailUncounted PROVE Kept'
  BY <1>23 DEF FailUncounted, store
<1>24. ASSUME NEW w \in Deleters, DeleteFails(w) PROVE Kept'
  BY <1>24 DEF DeleteFails, Return, NoDelete, store
<1>25. ASSUME UNCHANGED vars PROVE Kept'
  BY <1>25 DEF vars
<1> QED
  BY <1>1, <1>2, <1>3, <1>4, <1>5, <1>6, <1>7, <1>8, <1>9, <1>10, <1>11, <1>12,
     <1>13, <1>14, <1>15, <1>16, <1>17, <1>18, <1>19, <1>20, <1>21, <1>22, <1>25,
     <1>23, <1>24 DEF Next, Submit, Work

\* No step lets a message be taken a second time without a fault.
LEMMA NextDup == IInv /\ [Next]_vars => Dup'
<1> SUFFICES ASSUME IInv, [Next]_vars PROVE Dup'
  OBVIOUS
<1>t. /\ outbox \in [Msgs -> Row]
      /\ relay \in [Msgs -> Nat] /\ tries \in [Msgs -> Nat] /\ faults \in Nat
      /\ batch \subseteq Item /\ cur \subseteq Item
      /\ sub \in [Msgs -> {"new", "insert", "put", "path", "accepted", "rejected"}]
      /\ deleters \in [Deleters -> [pc : {"idle", "row", "blob"}, msg : SUBSET Msgs, path : BOOLEAN]]
  BY DEF IInv, TypeOK
<1>s. Shape /\ Life /\ Dup
  BY DEF IInv
<1> USE <1>t, <1>s, OutboxAssumption DEF Shape, Life, Dup, Started, InBatch, InCur, Row, Item, Deleters
<1>1. ASSUME NEW m \in Msgs, SubmitRefused(m) PROVE Dup'
  BY <1>1 DEF SubmitRefused, store, counts, queue
<1>2. ASSUME NEW m \in Msgs, SubmitSent(m) PROVE Dup'
  BY <1>2 DEF SubmitSent, store, counts, queue
<1>3. ASSUME NEW m \in Msgs, SubmitFails(m) PROVE Dup'
  BY <1>3 DEF SubmitFails, store, counts, queue
<1>4. ASSUME NEW m \in Msgs, Insert(m) PROVE Dup'
  BY <1>4 DEF Insert, NewRow, store, counts, queue
<1>5. ASSUME NEW m \in Msgs, Put(m) PROVE Dup'
  BY <1>5 DEF Put, store, counts, queue
<1>6. ASSUME NEW m \in Msgs, EnqueueFails(m) PROVE Dup'
  BY <1>6 DEF EnqueueFails, store, counts, queue
<1>7. ASSUME NEW m \in Msgs, SetPath(m) PROVE Dup'
  BY <1>7 DEF SetPath, store, counts, queue
<1>8. ASSUME Drain PROVE Dup'
  BY <1>8 DEF Drain, Due, store, counts, queue
<1>9. ASSUME LoadRaw PROVE Dup'
  BY <1>9 DEF LoadRaw, store, counts, queue
<1>10. ASSUME NEW it \in batch, SendOK(it) PROVE Dup'
  BY <1>10 DEF SendOK, Attempt, Taken, store, counts, queue
<1>11. ASSUME NEW it \in batch, SendFails(it) PROVE Dup'
  BY <1>11 DEF SendFails, Attempt, store, counts, queue
<1>12. ASSUME NEW it \in batch, SendFailsLate(it) PROVE Dup'
  BY <1>12 DEF SendFailsLate, Attempt, Taken, store, counts, queue
<1>13. ASSUME BatchDone PROVE Dup'
  BY <1>13 DEF BatchDone, store, counts, queue
<1>14. ASSUME Fail PROVE Dup'
  BY <1>14 DEF Fail, RetryOutbound, store, counts, queue
<1>15. ASSUME NEW m \in Msgs, TimePasses(m) PROVE Dup'
  BY <1>15 DEF TimePasses, store, counts, queue
<1>16. ASSUME DeleteDelivered PROVE Dup'
  BY <1>16 DEF DeleteDelivered, ReadPath, store, counts, queue
<1>17. ASSUME NEW w \in Deleters, DeleteRow(w) PROVE Dup'
  BY <1>17 DEF DeleteRow, NoRow, store, counts, queue
<1>18. ASSUME NEW w \in Deleters, RemoveBlob(w) PROVE Dup'
  BY <1>18 DEF RemoveBlob, Return, NoDelete, store, counts, queue
<1>19. ASSUME NEW m \in Msgs, RetryNow(m) PROVE Dup'
  BY <1>19 DEF RetryNow, store, counts, queue
<1>20. ASSUME NEW m \in Msgs, Drop(m) PROVE Dup'
  BY <1>20 DEF Drop, ReadPath, store, counts, queue
<1>21. ASSUME Configure PROVE Dup'
  BY <1>21 DEF Configure, store, counts, queue
<1>22. ASSUME Crash PROVE Dup'
  BY <1>22 DEF Crash, NoDelete, store, counts, queue
<1>23. ASSUME FailUncounted PROVE Dup'
  BY <1>23 DEF FailUncounted, store
<1>24. ASSUME NEW w \in Deleters, DeleteFails(w) PROVE Dup'
  BY <1>24 DEF DeleteFails, Return, NoDelete, store
<1>25. ASSUME UNCHANGED vars PROVE Dup'
  BY <1>25 DEF vars
<1> QED
  BY <1>1, <1>2, <1>3, <1>4, <1>5, <1>6, <1>7, <1>8, <1>9, <1>10, <1>11, <1>12,
     <1>13, <1>14, <1>15, <1>16, <1>17, <1>18, <1>19, <1>20, <1>21, <1>22, <1>25,
     <1>23, <1>24 DEF Next, Submit, Work

\* No step makes an attempt that is not counted.
LEMMA NextCount == IInv /\ [Next]_vars => Count'
<1> SUFFICES ASSUME IInv, [Next]_vars PROVE Count'
  OBVIOUS
<1>t. /\ outbox \in [Msgs -> Row]
      /\ relay \in [Msgs -> Nat] /\ tries \in [Msgs -> Nat] /\ faults \in Nat
      /\ batch \subseteq Item /\ cur \subseteq Item
      /\ sub \in [Msgs -> {"new", "insert", "put", "path", "accepted", "rejected"}]
      /\ deleters \in [Deleters -> [pc : {"idle", "row", "blob"}, msg : SUBSET Msgs, path : BOOLEAN]]
  BY DEF IInv, TypeOK
<1>s. Shape /\ Life /\ Count
  BY DEF IInv
<1> USE <1>t, <1>s, OutboxAssumption DEF Shape, Life, Count, Started, InBatch, InCur, Row, Item, Deleters
<1>1. ASSUME NEW m \in Msgs, SubmitRefused(m) PROVE Count'
  BY <1>1 DEF SubmitRefused, store, counts, queue
<1>2. ASSUME NEW m \in Msgs, SubmitSent(m) PROVE Count'
  BY <1>2 DEF SubmitSent, store, counts, queue
<1>3. ASSUME NEW m \in Msgs, SubmitFails(m) PROVE Count'
  BY <1>3 DEF SubmitFails, store, counts, queue
<1>4. ASSUME NEW m \in Msgs, Insert(m) PROVE Count'
  BY <1>4 DEF Insert, NewRow, store, counts, queue
<1>5. ASSUME NEW m \in Msgs, Put(m) PROVE Count'
  BY <1>5 DEF Put, store, counts, queue
<1>6. ASSUME NEW m \in Msgs, EnqueueFails(m) PROVE Count'
  BY <1>6 DEF EnqueueFails, store, counts, queue
<1>7. ASSUME NEW m \in Msgs, SetPath(m) PROVE Count'
  BY <1>7 DEF SetPath, store, counts, queue
<1>8. ASSUME Drain PROVE Count'
  BY <1>8 DEF Drain, Due, store, counts, queue
<1>9. ASSUME LoadRaw PROVE Count'
  BY <1>9 DEF LoadRaw, store, counts, queue
<1>10. ASSUME NEW it \in batch, SendOK(it) PROVE Count'
  BY <1>10 DEF SendOK, Attempt, Taken, store, counts, queue
<1>11. ASSUME NEW it \in batch, SendFails(it) PROVE Count'
  BY <1>11 DEF SendFails, Attempt, store, counts, queue
<1>12. ASSUME NEW it \in batch, SendFailsLate(it) PROVE Count'
  BY <1>12 DEF SendFailsLate, Attempt, Taken, store, counts, queue
<1>13. ASSUME BatchDone PROVE Count'
  BY <1>13 DEF BatchDone, store, counts, queue
<1>14. ASSUME Fail PROVE Count'
  BY <1>14 DEF Fail, RetryOutbound, store, counts, queue
<1>15. ASSUME NEW m \in Msgs, TimePasses(m) PROVE Count'
  BY <1>15 DEF TimePasses, store, counts, queue
<1>16. ASSUME DeleteDelivered PROVE Count'
  BY <1>16 DEF DeleteDelivered, ReadPath, store, counts, queue
<1>17. ASSUME NEW w \in Deleters, DeleteRow(w) PROVE Count'
  BY <1>17 DEF DeleteRow, NoRow, store, counts, queue
<1>18. ASSUME NEW w \in Deleters, RemoveBlob(w) PROVE Count'
  BY <1>18 DEF RemoveBlob, Return, NoDelete, store, counts, queue
<1>19. ASSUME NEW m \in Msgs, RetryNow(m) PROVE Count'
  BY <1>19 DEF RetryNow, store, counts, queue
<1>20. ASSUME NEW m \in Msgs, Drop(m) PROVE Count'
  BY <1>20 DEF Drop, ReadPath, store, counts, queue
<1>21. ASSUME Configure PROVE Count'
  BY <1>21 DEF Configure, store, counts, queue
<1>22. ASSUME Crash PROVE Count'
  BY <1>22 DEF Crash, NoDelete, store, counts, queue
<1>23. ASSUME FailUncounted PROVE Count'
  BY <1>23 DEF FailUncounted, store
<1>24. ASSUME NEW w \in Deleters, DeleteFails(w) PROVE Count'
  BY <1>24 DEF DeleteFails, Return, NoDelete, store
<1>25. ASSUME UNCHANGED vars PROVE Count'
  BY <1>25 DEF vars
<1> QED
  BY <1>1, <1>2, <1>3, <1>4, <1>5, <1>6, <1>7, <1>8, <1>9, <1>10, <1>11, <1>12,
     <1>13, <1>14, <1>15, <1>16, <1>17, <1>18, <1>19, <1>20, <1>21, <1>22, <1>25,
     <1>23, <1>24 DEF Next, Submit, Work

\* The inductive invariant holds in every behaviour.
LEMMA SpecIInv == Spec => []IInv
<1>1. IInv /\ [Next]_vars => IInv'
  BY NextTypeOK, NextShape, NextLife, NextKept, NextDup, NextCount DEF IInv
<1> QED
  BY InitIInv, <1>1, PTL DEF Spec

\* All variables keep their types (store/outbox.go, outbound/worker.go).
THEOREM TypeCorrect == Spec => []TypeOK
BY SpecIInv, PTL DEF IInv

\* A message its sender was told is accepted is with the relay, stored with its
\* source, or was dropped by an administrator (EnqueueOutbound, DeleteOutbound).
THEOREM NothingAcceptedIsLost == Spec => []NoLoss
<1>1. IInv => NoLoss
  BY DEF IInv, Life, Kept, Gone, NoLoss
<1> QED
  BY SpecIInv, <1>1, PTL

\* A row with a path always has its file (EnqueueOutbound, DeleteOutbound), so
\* DueOutbound never fails for good.
THEOREM PathsHaveBlobs == Spec => []PathHasBlob
<1>1. IInv => PathHasBlob
  BY DEF IInv, Life, PathHasBlob
<1> QED
  BY SpecIInv, <1>1, PTL

\* Without faults the worker makes at most MaxAttempts attempts (fail), although it
\* counts from a row it read before an administrator changed it.
THEOREM AttemptsAreBounded == Spec => []AttemptsBounded
<1>1. IInv => AttemptsBounded
  BY DEF IInv, Count, AttemptsBounded
<1> QED
  BY SpecIInv, <1>1, PTL

\* Without faults the relay takes a message at most once (Drain, DeleteOutbound).
THEOREM DuplicatesNeedFaults == Spec => []DuplicateNeedsFault
<1>1. IInv => DuplicateNeedsFault
  BY DEF IInv, Dup, DuplicateNeedsFault
<1> QED
  BY SpecIInv, <1>1, PTL
=============================================================================
