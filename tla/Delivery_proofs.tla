--------------------------- MODULE Delivery_proofs ---------------------------
(***************************************************************************)
(* Proofs about Delivery, for any accounts, addresses, messages, handlers  *)
(* and bounds.                                                             *)
(*                                                                         *)
(* The invariant has one part per question, each inductive on top of the   *)
(* ones before it: what a handler may look like (HandlerOK), who waits for *)
(* whom (Nesting, Senders), which recipients a handler still has to reach  *)
(* (Covered), that a hopeless message reaches nobody (Hopeless), the       *)
(* rows of a run without faults (Finishing) and how many copies can come   *)
(* (Copied).                                                               *)
(***************************************************************************)
EXTENDS Delivery, SequenceTheorems, FiniteSetTheorems, TLAPS

Storing == {"check", "insert", "source", "attach", "change", "hook", "wait", "publish"}
HasRow == {"source", "attach", "change", "hook", "wait", "publish"}

Ok(h) == h.pc = "answer" /\ h.status = "ok"

\* What a handler may look like.
HandlerOK(h) ==
  /\ h.todo \subseteq Recipients(h.mail)
  /\ h.mail.via \in {"eas", "smtp", "web"} => Author(h.mail) \in Users
  /\ h.pc = "job" => ResolvesFirst(h)
  /\ h.mail.via = "auto" => ~h.mail.key
  /\ ~ResolvesFirst(h) => h.jobs = {} /\ h.bad = {}
  /\ h.mail.via # "inbound" => \A a \in h.jobs : Owner[a] # NoUser
  /\ ResolvesFirst(h) /\ h.pc # "resolve" => h.todo = {}
  /\ h.pc = "relay" => h.todo = {}
  /\ Ok(h) => h.todo = {} /\ h.jobs = {}
  /\ h.bad # {} => h.mail.via = "inbound" \/ h.pc = "resolve" \/ (h.pc = "answer" /\ ~Ok(h))
  /\ Ok(h) => h.bad = {}
  /\ h.box = "sent" => h.mail.via \in {"eas", "web"}
  /\ h.box = "sent" /\ h.mail.via = "eas" => h.jobs = {}
  /\ h.pc \in Storing => Target(h) \in Users
  /\ h.pc = "check" => h.mail.via # "web" /\ h.box = "inbox"
  /\ h.pc \in {"hook", "wait", "publish"} => h.box = "inbox"

\* The row a handler is storing.
RowOK(h, rs) ==
  h.pc \in HasRow =>
    /\ h.row \in 1..Len(rs)
    /\ rs[h.row].msg = h.msg /\ rs[h.row].box = h.box /\ (rs[h.row].reply <=> h.mail.via = "auto")

\* Level 2 is a notice for level 1, which waits for it; there is no level 3.
Nesting ==
  \A r \in Reqs :
    /\ req[<<r, 2>>].pc # "idle" =>
         /\ req[<<r, 1>>].pc = "wait" /\ req[<<r, 1>>].msg = req[<<r, 2>>].msg
         /\ LET v == req[<<r, 2>>].mail IN v.via = "auto" /\ v.auto /\ ~v.key
    /\ req[<<r, 3>>].pc = "idle"

Active(r, m) == req[<<r, 1>>].pc # "idle" /\ req[<<r, 1>>].msg = m

\* A handler serves the message its client sent, and only one of them is listened to.
Senders ==
  /\ \A r \in Reqs, m \in Msgs : Active(r, m) =>
       /\ req[<<r, 1>>].mail = mail[m] /\ Recipients(mail[m]) # {}
       /\ ~req[<<r, 1>>].deaf => client[m] = "waiting"
  /\ \A r, q \in Reqs, m \in Msgs :
       Active(r, m) /\ Active(q, m) /\ ~req[<<r, 1>>].deaf /\ ~req[<<q, 1>>].deaf => r = q

\* A notice never has a Message-ID that the duplicate check knows.
Keyed(rs) == \A i \in 1..Len(rs) : rs[i].key => ~rs[i].reply

\* The recipients a handler will still reach.
Pending(h) ==
  h.todo \cup h.jobs
    \cup (IF h.pc = "answer" \/ (ResolvesFirst(h) /\ h.pc \notin {"resolve", "relay"}) THEN {} ELSE h.ext)
    \cup (IF h.pc \in {"check", "insert"} /\ h.box = "inbox" THEN {h.at} ELSE {})

Promised(h) == h.pc # "idle" /\ h.bad = {} /\ (h.pc = "answer" => h.status = "ok")

\* Reached, of given tables.
ReachedIn(rs, rl, m, a) ==
  \/ rl[<<m, a>>] > 0
  \/ \E i \in 1..Len(rs) : rs[i].user = Owner[a] /\ rs[i].msg = m /\ ~rs[i].reply

\* A handler that may still answer ok has reached, or will reach, all its recipients.
Served(h, rs, rl) ==
  Promised(h) => \A a \in Recipients(h.mail) : a \in Pending(h) \/ ReachedIn(rs, rl, h.msg, a)

Covered == \A r \in Reqs : Served(req[<<r, 1>>], rows, relay)

\* The inbound API refuses a message as a whole when an address is unknown to it.
Unknown(v) == {a \in Recipients(v) : Owner[a] = NoUser /\ a \notin CatchAll}
Doomed(v) == v.via = "inbound" /\ (Recipients(v) = {} \/ Unknown(v) # {})

Hope(h) ==
  h.pc # "idle" /\ h.mail.via = "inbound" =>
    /\ "unknown" \in h.bad \/ h.status = "rejected" => Unknown(h.mail) # {}
    /\ Unknown(h.mail) # {} =>
         /\ h.pc \in {"resolve", "answer"}
         /\ h.pc = "resolve" /\ h.bad = {} => Unknown(h.mail) \cap h.todo # {}

Hopeless ==
  /\ \A m \in Msgs : Doomed(mail[m]) => \A a \in Addrs : ~Reached(m, a)
  /\ \A r \in Reqs : Hope(req[<<r, 1>>])

\* Without faults a row is complete or still in the hands of its handler.
Whole(row) == row.src /\ row.att /\ row.fed /\ (row.box = "inbox" => row.told)

Stage(h, row) ==
  /\ h.pc \in {"attach", "change", "hook", "wait", "publish"} => row.src
  /\ h.pc \in {"change", "hook", "wait", "publish"} => row.att
  /\ h.pc \in {"hook", "wait", "publish"} => row.fed

\* The row is in the hands of a handler.
Held(h, i, rs) == h.pc \in HasRow /\ h.row = i /\ Stage(h, rs[i])

Finishing ==
  faults = 0 =>
    /\ \A r \in Reqs : ~req[<<r, 1>>].deaf
    /\ \A i \in 1..Len(rows) : ~rows[i].reply =>
         Whole(rows[i]) \/ \E r \in Reqs : Held(req[<<r, 1>>], i, rows)
    /\ \A m \in Msgs : client[m] = "ok" => \A r \in Reqs : ~Active(r, m)

\* A handler of m whose client is gone, and one about to store a copy of m for account u.
DeafTo(h, m) == h.pc # "idle" /\ h.msg = m /\ h.deaf
Inserts(h, u, m) == h.pc = "insert" /\ h.msg = m /\ h.box = "inbox" /\ Owner[h.at] = u

\* The handlers of these kinds, and Copies(u, m, "inbox"), of given handlers q and rows rs.
Deaf(m, q) == {r \in Reqs : DeafTo(q[<<r, 1>>], m)}
Inserters(u, m, q) == {r \in Reqs : Inserts(q[<<r, 1>>], u, m)}
Inbox(u, m, rs) ==
  {i \in 1..Len(rs) : rs[i].user = u /\ rs[i].msg = m /\ rs[i].box = "inbox" /\ ~rs[i].reply}

\* The messages with a Message-ID of their own, and their rows.
Strict(v) == v.key /\ v.via # "web"
AllKeyed(m, rs) == \A i \in 1..Len(rs) : rs[i].msg = m /\ ~rs[i].reply => rs[i].key

\* A copy is stored or about to be stored once, and once more for every race n: for each
\* handler nobody listens to and each duplicate check that failed.
Bounded(m, v, q, rs, n) ==
  /\ Cardinality(Deaf(m, q)) <= n
  /\ Strict(v) =>
       /\ AllKeyed(m, rs)
       /\ \A u \in Users :
            Cardinality(Inbox(u, m, rs)) + Cardinality(Inserters(u, m, q)) <= 1 + n

Copied == \A m \in Msgs : Bounded(m, mail[m], req, rows, races[m])

\* One notice per day, counted from what is remembered.
Counted ==
  \A p \in Users \X Addrs : notices[p] <= days + restarts + (IF p \in oofLast THEN 1 ELSE 0)

\* The handlers, their rows and the notices.
Base ==
  /\ TypeOK
  /\ \A s \in Slots : HandlerOK(req[s]) /\ RowOK(req[s], rows)
  /\ Nesting /\ Keyed(rows) /\ Counted

\* What the clients are told.
Kept == Senders /\ Covered /\ Hopeless /\ Accepted

IInv == Base /\ Kept /\ Finishing /\ Copied

-----------------------------------------------------------------------------
(* The shapes of handlers and of what a step makes of them. *)

\* An empty slot and a handler that begins are handlers.
LEMMA IdleShape ==
  ASSUME NEW m \in Msgs, NEW v \in Mail
  PROVE  Idle(m, v) \in Handler
BY DEF Idle, Handler, Mail

LEMMA NoReqShape ==
  /\ NoReq \in Handler
  /\ NoReq.pc = "idle" /\ HandlerOK(NoReq)
<1>1. PICK x \in Msgs : x = (CHOOSE y \in Msgs : TRUE)
  BY DeliveryAssumption
<1>2. PICK b \in Batches : b = (CHOOSE y \in Batches : TRUE)
  BY DeliveryAssumption
<1>3. b[x] \in Mail /\ b[x].via # "auto" /\ (b[x].via # "inbound" => Author(b[x]) \in Users)
  BY DeliveryAssumption DEF Author
<1>4. NoReq = Idle(x, b[x])
  BY <1>1, <1>2 DEF NoReq
<1>5. NoReq \in Handler
  BY <1>3, <1>4, IdleShape
<1>6. NoReq.pc = "idle" /\ HandlerOK(NoReq)
  BY <1>3, <1>4 DEF Idle, HandlerOK, Ok, Storing, ResolvesFirst
<1> QED
  BY <1>5, <1>6

LEMMA FreshShape ==
  ASSUME NEW m \in Msgs, NEW v \in Mail, v.via = "auto" => ~v.key,
         v.via \in {"eas", "smtp", "web"} => Author(v) \in Users
  PROVE  /\ Fresh(m, v) \in Handler
         /\ HandlerOK(Fresh(m, v)) /\ Fresh(m, v).pc \notin HasRow \cup {"idle"}
         /\ Fresh(m, v).msg = m /\ Fresh(m, v).mail = v /\ ~Fresh(m, v).deaf
<1>1. Recipients(v) \in SUBSET Addrs
  BY DEF Recipients, Mail
<1>2. Idle(m, v) \in Handler
  BY IdleShape
<1>3. Fresh(m, v) \in Handler
  BY <1>1, <1>2 DEF Fresh, Handler
<1>4. Fresh(m, v).msg = m /\ Fresh(m, v).mail = v /\ ~Fresh(m, v).deaf
  BY DEF Fresh, Idle
<1>5. Fresh(m, v).pc \notin HasRow \cup {"idle"}
  BY DEF Fresh, Idle, HasRow
<1>6. HandlerOK(Fresh(m, v))
  BY DEF Fresh, Idle, HandlerOK, Ok, Storing, ResolvesFirst, Target, Author
<1> QED
  BY <1>3, <1>4, <1>5, <1>6

\* The steps that concern one handler only.
Simple(s) ==
  \/ ResolveLocal(s) \/ ResolveOther(s) \/ Routed(s) \/ Relay(s)
  \/ NextJob(s) \/ Forward(s) \/ JobsDone(s) \/ Check(s) \/ InsertRow(s) \/ SetPath(s)
  \/ InsertAttachment(s) \/ AddChange(s) \/ NoNotice(s) \/ Publish(s)
  \/ Failing(s)

\* What every step keeps of its handler.
Keeps(h, k) ==
  /\ k \in Handler
  /\ h.pc \notin {"idle", "answer", "wait"} /\ k.pc \notin {"idle", "wait"}
  /\ k.msg = h.msg /\ k.mail = h.mail /\ k.deaf = h.deaf

LEMMA FailureKeeps ==
  ASSUME NEW h \in Handler, h.pc \notin {"idle", "answer", "wait"}
  PROVE  /\ Keeps(h, StoreFailed(h)) /\ Keeps(h, StoredJob(h)) /\ Keeps(h, AfterChange(h))
         /\ \A st \in {"ok", "rejected", "failed"} : Keeps(h, Answered(h, st))
<1>1. \A st \in {"ok", "rejected", "failed"} : Keeps(h, Answered(h, st))
  BY DEF Keeps, Answered, Handler
<1>2. Keeps(h, StoredJob(h))
  BY <1>1 DEF Keeps, StoredJob, Handler
<1>3. Keeps(h, StoreFailed(h))
  BY <1>1 DEF Keeps, StoreFailed, Handler
<1>4. Keeps(h, AfterChange(h))
  BY <1>2 DEF Keeps, AfterChange, Handler
<1> QED
  BY <1>1, <1>2, <1>3, <1>4

LEMMA NoAccountKeeps ==
  ASSUME NEW h \in Handler, h.pc = "resolve", NEW a \in Addrs
  PROVE  Keeps(h, NoAccount(h, a))
<1> DEFINE rest == [h EXCEPT !.todo = @ \ {a}]
<1>1. rest \in Handler /\ Keeps(h, rest) /\ rest.pc = "resolve"
  BY DEF Keeps, Handler
<1>2. Keeps(rest, Answered(rest, "failed")) /\ Keeps(rest, Answered(rest, "rejected"))
  BY <1>1, FailureKeeps
<1>3. /\ Keeps(h, [rest EXCEPT !.jobs = @ \cup {a}]) /\ Keeps(h, [rest EXCEPT !.ext = @ \cup {a}])
      /\ Keeps(h, [rest EXCEPT !.bad = @ \cup {"unknown"}])
  BY DEF Keeps, Handler
<1>4. Keeps(h, Answered(rest, "failed")) /\ Keeps(h, Answered(rest, "rejected"))
  BY <1>1, <1>2 DEF Keeps
<1> HIDE DEF rest
<1>5. NoAccount(h, a) \in {Answered(rest, "failed"), Answered(rest, "rejected"),
        [rest EXCEPT !.jobs = @ \cup {a}], [rest EXCEPT !.ext = @ \cup {a}],
        [rest EXCEPT !.bad = @ \cup {"unknown"}]}
  BY Zenon DEF NoAccount, rest
<1> QED
  BY <1>3, <1>4, <1>5


\* Only the slot itself changes, and what it keeps.
Moved(s) ==
  /\ req' = [req EXCEPT ![s] = req'[s]]
  /\ Keeps(req[s], req'[s])
  /\ UNCHANGED <<mail, client, oofLast, notices, days, restarts>>

LEMMA StepMoves ==
  ASSUME TypeOK, NEW s \in Slots, NEW k, Step(s, k), Keeps(req[s], k),
         UNCHANGED <<mail, client, oofLast, notices, days, restarts>>
  PROVE  Moved(s) /\ req'[s] = k
<1>1. req' = [req EXCEPT ![s] = k] /\ req'[s] = k
  BY DEF Step, TypeOK
<1> QED
  BY <1>1 DEF Moved

LEMMA SimpleMoves ==
  ASSUME TypeOK, NEW s \in Slots, Simple(s)
  PROVE  Moved(s)
<1> DEFINE h == req[s]
<1>0. h \in Handler
  BY DEF TypeOK
<1>1. CASE ResolveLocal(s)
  <2>1. PICK a \in h.todo :
          Step(s, [h EXCEPT !.todo = @ \ {a},
                            !.jobs = IF ResolvesFirst(h) THEN @ \cup {a} ELSE @,
                            !.at = IF ResolvesFirst(h) THEN @ ELSE a,
                            !.box = "inbox",
                            !.pc = CASE ResolvesFirst(h) -> "resolve"
                                     [] h.mail.via = "smtp" -> "check"
                                     [] OTHER -> "insert"])
    BY <1>1 DEF ResolveLocal
  <2>2. a \in Addrs /\ h.pc = "resolve"
    BY <1>0, <1>1 DEF Handler, ResolveLocal
  <2> DEFINE pc == CASE ResolvesFirst(h) -> "resolve"
                     [] h.mail.via = "smtp" -> "check"
                     [] OTHER -> "insert"
             at == IF ResolvesFirst(h) THEN h.at ELSE a
             jobs == IF ResolvesFirst(h) THEN h.jobs \cup {a} ELSE h.jobs
  <2>3. pc \in {"resolve", "check", "insert"}
    OBVIOUS
  <2>4. at \in Addrs /\ jobs \in SUBSET Addrs
    BY <1>0, <2>2 DEF Handler
  <2>5. Step(s, [h EXCEPT !.todo = @ \ {a}, !.jobs = jobs, !.at = at, !.box = "inbox", !.pc = pc])
    BY <2>1, Zenon
  <2> HIDE DEF pc, at, jobs
  <2>6. Keeps(h, [h EXCEPT !.todo = @ \ {a}, !.jobs = jobs, !.at = at, !.box = "inbox", !.pc = pc])
    BY <1>0, <2>2, <2>3, <2>4 DEF Keeps, Handler
  <2> QED
    BY <1>1, <2>5, <2>6, StepMoves DEF ResolveLocal
<1>2. CASE ResolveOther(s)
  <2>1. PICK a \in h.todo : Step(s, NoAccount(h, a))
    BY <1>2 DEF ResolveOther
  <2>2. Keeps(h, NoAccount(h, a))
    BY <1>0, <1>2, NoAccountKeeps DEF Handler, ResolveOther
  <2> QED
    BY <1>2, <2>1, <2>2, StepMoves DEF ResolveOther
<1>3. CASE Routed(s)
  <2>1. PICK k \in {Answered(h, "rejected"), Answered(h, "failed"), Answered(h, "ok"),
                    [h EXCEPT !.pc = "relay"], [h EXCEPT !.pc = "job"]} : Step(s, k)
    BY <1>3, Zenon DEF Routed
  <2>2. h.pc = "resolve"
    BY <1>3 DEF Routed
  <2>3. Keeps(h, [h EXCEPT !.pc = "relay"]) /\ Keeps(h, [h EXCEPT !.pc = "job"])
    BY <1>0, <2>2 DEF Keeps, Handler
  <2>4. \A st \in {"ok", "rejected", "failed"} : Keeps(h, Answered(h, st))
    BY <1>0, <2>2, FailureKeeps
  <2>5. Keeps(h, k)
    BY <2>1, <2>3, <2>4
  <2> QED
    BY <1>3, <2>1, <2>5, StepMoves DEF Routed
<1>4. CASE Relay(s)
  <2>1. PICK k \in {Answered(h, "ok"), [h EXCEPT !.pc = "job"]} : Step(s, k)
    BY <1>4, Zenon DEF Relay
  <2>2. h.pc = "relay"
    BY <1>4 DEF Relay
  <2>3. Keeps(h, [h EXCEPT !.pc = "job"])
    BY <1>0, <2>2 DEF Keeps, Handler
  <2>4. Keeps(h, Answered(h, "ok"))
    BY <1>0, <2>2, FailureKeeps
  <2>5. Keeps(h, k)
    BY <2>1, <2>3, <2>4
  <2> QED
    BY <1>4, <2>1, <2>5, StepMoves DEF Relay
<1>5. CASE NextJob(s)
  <2>1. PICK a \in h.jobs : Step(s, [h EXCEPT !.jobs = @ \ {a}, !.at = a, !.box = "inbox",
                                            !.pc = "check"])
    BY <1>5 DEF NextJob
  <2>2. Keeps(h, [h EXCEPT !.jobs = @ \ {a}, !.at = a, !.box = "inbox", !.pc = "check"])
    BY <1>0, <1>5 DEF Keeps, Handler, NextJob
  <2> QED
    BY <1>5, <2>1, <2>2, StepMoves DEF NextJob
<1>6. CASE Forward(s)
  <2>1. PICK a \in h.jobs : Step(s, [h EXCEPT !.jobs = @ \ {a}])
    BY <1>6 DEF Forward
  <2>2. Keeps(h, [h EXCEPT !.jobs = @ \ {a}])
    BY <1>0, <1>6 DEF Keeps, Handler, Forward
  <2> QED
    BY <1>6, <2>1, <2>2, StepMoves DEF Forward
<1>7. CASE JobsDone(s)
  <2>1. PICK k \in {Answered(h, "failed"), Answered(h, "ok"),
                    [h EXCEPT !.pc = "insert", !.box = "sent"]} : Step(s, k)
    BY <1>7, Zenon DEF JobsDone
  <2>2. h.pc = "job"
    BY <1>7 DEF JobsDone
  <2>3. Keeps(h, [h EXCEPT !.pc = "insert", !.box = "sent"])
    BY <1>0, <2>2 DEF Keeps, Handler
  <2>4. \A st \in {"ok", "rejected", "failed"} : Keeps(h, Answered(h, st))
    BY <1>0, <2>2, FailureKeeps
  <2>5. Keeps(h, k)
    BY <2>1, <2>3, <2>4
  <2> QED
    BY <1>7, <2>1, <2>5, StepMoves DEF JobsDone
<1>8. CASE Check(s)
  <2>1. PICK k \in {StoredJob(h), [h EXCEPT !.pc = "insert"]} : Step(s, k)
    BY <1>8, Zenon DEF Check
  <2>2. h.pc = "check"
    BY <1>8 DEF Check
  <2>3. Keeps(h, [h EXCEPT !.pc = "insert"])
    BY <1>0, <2>2 DEF Keeps, Handler
  <2>4. Keeps(h, k)
    BY <1>0, <2>1, <2>2, <2>3, FailureKeeps
  <2> QED
    BY <1>8, <2>1, <2>4, StepMoves DEF Check
<1>9. CASE InsertRow(s)
  <2>1. Len(rows) + 1 \in Nat
    BY LenProperties DEF TypeOK
  <2>2. Keeps(h, [h EXCEPT !.pc = "source", !.row = Len(rows) + 1])
    BY <1>0, <1>9, <2>1 DEF Keeps, Handler, InsertRow
  <2> QED
    BY <1>9, <2>2, StepMoves DEF InsertRow
<1>10. CASE SetPath(s)
  <2>1. Keeps(h, [h EXCEPT !.pc = "attach"])
    BY <1>0, <1>10 DEF Keeps, Handler, SetPath
  <2> QED
    BY <1>10, <2>1, StepMoves DEF SetPath
<1>11. CASE InsertAttachment(s)
  <2>1. Keeps(h, [h EXCEPT !.pc = "change"])
    BY <1>0, <1>11 DEF Keeps, Handler, InsertAttachment
  <2> QED
    BY <1>11, <2>1, StepMoves DEF InsertAttachment
<1>12. CASE AddChange(s)
  <2>1. Keeps(h, AfterChange(h))
    BY <1>0, <1>12, FailureKeeps DEF AddChange
  <2> QED
    BY <1>12, <2>1, StepMoves DEF AddChange
<1>13. CASE NoNotice(s)
  <2>1. Keeps(h, [h EXCEPT !.pc = "publish"])
    BY <1>0, <1>13 DEF Keeps, Handler, NoNotice
  <2> QED
    BY <1>13, <2>1, StepMoves DEF NoNotice
<1>14. CASE Publish(s)
  <2>1. Keeps(h, StoredJob(h))
    BY <1>0, <1>14, FailureKeeps DEF Publish
  <2> QED
    BY <1>14, <2>1, StepMoves DEF Publish
<1>15. CASE ResolveFails(s)
  <2>1. PICK a \in h.todo :
          Step(s, IF h.mail.via = "inbound"
                  THEN [h EXCEPT !.todo = @ \ {a}, !.bad = @ \cup {"failed"}]
                  ELSE NoAccount(h, a))
    BY <1>15 DEF ResolveFails
  <2>2. Keeps(h, NoAccount(h, a))
    BY <1>0, <1>15, NoAccountKeeps DEF Handler, ResolveFails
  <2>3. Keeps(h, [h EXCEPT !.todo = @ \ {a}, !.bad = @ \cup {"failed"}])
    BY <1>0, <1>15 DEF Keeps, Handler, ResolveFails
  <2> QED
    BY <1>15, <2>1, <2>2, <2>3, StepMoves DEF ResolveFails
<1>16. CASE RelayFails(s)
  <2>1. Keeps(h, Answered(h, "failed"))
    BY <1>0, <1>16, FailureKeeps DEF RelayFails
  <2> QED
    BY <1>16, <2>1, StepMoves DEF RelayFails
<1>17. CASE ForwardFails(s)
  <2>1. PICK a \in h.jobs : Step(s, [h EXCEPT !.jobs = @ \ {a}, !.bad = @ \cup {"failed"}])
    BY <1>17 DEF ForwardFails
  <2>2. Keeps(h, [h EXCEPT !.jobs = @ \ {a}, !.bad = @ \cup {"failed"}])
    BY <1>0, <1>17 DEF Keeps, Handler, ForwardFails
  <2> QED
    BY <1>17, <2>1, <2>2, StepMoves DEF ForwardFails
<1>18. CASE CheckFails(s)
  <2>1. PICK k \in {StoreFailed(h), [h EXCEPT !.pc = "insert"]} : Step(s, k)
    BY <1>18, Zenon DEF CheckFails
  <2>2. Keeps(h, [h EXCEPT !.pc = "insert"])
    BY <1>0, <1>18 DEF Keeps, Handler, CheckFails
  <2>3. Keeps(h, k)
    BY <1>0, <1>18, <2>1, <2>2, FailureKeeps DEF CheckFails
  <2> QED
    BY <1>18, <2>1, <2>3, StepMoves DEF CheckFails
<1>19. CASE InsertFails(s)
  <2>1. Keeps(h, StoreFailed(h))
    BY <1>0, <1>19, FailureKeeps DEF InsertFails
  <2> QED
    BY <1>19, <2>1, StepMoves DEF InsertFails
<1>20. CASE RecordFails(s)
  <2>1. PICK k \in {StoreFailed(h), AfterChange(h), [h EXCEPT !.pc = "change"]} : Step(s, k)
    BY <1>20, Zenon DEF RecordFails
  <2>2. Keeps(h, [h EXCEPT !.pc = "change"])
    BY <1>0, <1>20 DEF Keeps, Handler, RecordFails
  <2>3. Keeps(h, k)
    BY <1>0, <1>20, <2>1, <2>2, FailureKeeps DEF RecordFails
  <2> QED
    BY <1>20, <2>1, <2>3, StepMoves DEF RecordFails
<1> QED
  BY <1>1, <1>2, <1>3, <1>4, <1>5, <1>6, <1>7, <1>8, <1>9, <1>10, <1>11, <1>12, <1>13, <1>14,
     <1>15, <1>16, <1>17, <1>18, <1>19, <1>20 DEF Simple, Failing


\* A step says what its handler is afterwards.
LEMMA StepTo ==
  ASSUME TypeOK, NEW s \in Slots, NEW k, Step(s, k)
  PROVE  req'[s] = k
BY DEF Step, TypeOK

-----------------------------------------------------------------------------
(* What a step does with the recipients of its handler. *)

\* The handler after a step: still as it should be; its row is the one it had; the
\* recipients in done are those it need not care for any more; a hopeless message stays in
\* front of the first statement that stores.
Sound(h, k, done) ==
  /\ HandlerOK(k)
  /\ k.pc \in HasRow => h.pc \in HasRow /\ k.row = h.row /\ k.box = h.box
  /\ Promised(k) => Promised(h) /\ Pending(h) \subseteq Pending(k) \cup done
  /\ Hope(h) => Hope(k)

\* The recipient being served.
Current(h) == IF h.pc \in {"check", "insert"} /\ h.box = "inbox" THEN {h.at} ELSE {}

\* The handler answers that something failed.
LEMMA SoundFailed ==
  ASSUME NEW h \in Handler, HandlerOK(h), h.pc \notin {"idle", "answer", "wait"}, NEW done,
         ResolvesFirst(h) => h.todo = {}
  PROVE  Sound(h, Answered(h, "failed"), done)
<1> DEFINE k == Answered(h, "failed")
<1>1. k.pc = "answer" /\ k.status = "failed" /\ k.mail = h.mail /\ k.todo = h.todo
      /\ k.jobs = h.jobs /\ k.bad = h.bad /\ k.box = h.box
  BY DEF Answered, Handler
<1> HIDE DEF k
<1>2. HandlerOK(k)
  BY <1>1 DEF HandlerOK, Ok, Storing, ResolvesFirst
<1>3. ~Promised(k) /\ k.pc \notin HasRow
  BY <1>1 DEF Promised, HasRow
<1>4. Hope(h) => Hope(k)
  BY <1>1 DEF Hope
<1> QED
  BY <1>2, <1>3, <1>4 DEF Sound, k

LEMMA SoundStored ==
  ASSUME NEW h \in Handler, HandlerOK(h), h.pc \in {"check", "change", "publish"},
         h.pc = "change" => h.box = "sent"
  PROVE  Sound(h, StoredJob(h), Current(h))
<1> DEFINE k == StoredJob(h)
<1>1. /\ k.mail = h.mail /\ k.todo = h.todo /\ k.jobs = h.jobs /\ k.bad = h.bad /\ k.box = h.box
      /\ k.ext = h.ext /\ k.at = h.at
  BY DEF StoredJob, Answered, Handler
<1>2. \/ h.box = "sent" /\ h.mail.via = "eas" /\ k.pc = "answer" /\ k.status = "ok"
      \/ h.box = "inbox" /\ ResolvesFirst(h) /\ k.pc = "job" /\ k.status = h.status
      \/ ~(h.box = "sent" /\ h.mail.via = "eas") /\ ~(h.box = "inbox" /\ ResolvesFirst(h))
         /\ k.pc = "resolve" /\ k.status = h.status
  BY DEF StoredJob, Answered, Handler
<1> HIDE DEF k
<1>3. h.box \in {"inbox", "sent"} /\ h.mail.via \in Paths
  BY DEF Handler, Mail
<1>4. HandlerOK(k)
  BY <1>1, <1>2, <1>3 DEF HandlerOK, Ok, Storing, ResolvesFirst
<1>5. k.pc \notin HasRow
  BY <1>2 DEF HasRow
<1>6. Promised(k) => Promised(h) /\ Pending(h) \subseteq Pending(k) \cup Current(h)
  BY <1>1, <1>2, <1>3 DEF Promised, Pending, Current, ResolvesFirst, HandlerOK
<1>7. Hope(h) => Hope(k)
  BY <1>1, <1>2 DEF Hope
<1> QED
  BY <1>4, <1>5, <1>6, <1>7 DEF Sound, k

LEMMA SoundStoreFailed ==
  ASSUME NEW h \in Handler, HandlerOK(h), h.pc \in {"check", "insert", "source", "attach", "change"}
  PROVE  Sound(h, StoreFailed(h), {})
<1>1. CASE h.mail.via = "inbound"
  <2> DEFINE k == [h EXCEPT !.pc = "job", !.bad = @ \cup {"failed"}]
  <2>1. /\ k.mail = h.mail /\ k.todo = h.todo /\ k.jobs = h.jobs /\ k.bad = h.bad \cup {"failed"}
        /\ k.box = h.box /\ k.ext = h.ext /\ k.pc = "job" /\ k.status = h.status
    BY DEF Handler
  <2>2. StoreFailed(h) = k
    BY <1>1 DEF StoreFailed
  <2> HIDE DEF k
  <2>3. HandlerOK(k)
    BY <1>1, <2>1 DEF HandlerOK, Ok, Storing, ResolvesFirst
  <2>4. ~Promised(k) /\ k.pc \notin HasRow
    BY <2>1 DEF Promised, HasRow
  <2>5. Hope(h) => Hope(k)
    BY <2>1 DEF Hope
  <2> QED
    BY <2>2, <2>3, <2>4, <2>5 DEF Sound
<1>2. CASE h.mail.via = "eas" /\ h.box = "sent"
  <2> DEFINE k == Answered(h, "ok")
  <2>1. /\ k.mail = h.mail /\ k.todo = h.todo /\ k.jobs = h.jobs /\ k.bad = h.bad
        /\ k.box = h.box /\ k.ext = h.ext /\ k.pc = "answer" /\ k.status = "ok"
    BY DEF Answered, Handler
  <2>2. StoreFailed(h) = k
    BY <1>2 DEF StoreFailed
  <2> HIDE DEF k
  <2>3. HandlerOK(k)
    BY <1>2, <2>1 DEF HandlerOK, Ok, Storing, ResolvesFirst
  <2>4. k.pc \notin HasRow
    BY <2>1 DEF HasRow
  <2>5. Hope(h) => Hope(k)
    BY <2>1 DEF Hope
  <2>6. Promised(k) => Promised(h) /\ Pending(h) \subseteq Pending(k) \cup {}
    BY <1>2, <2>1 DEF Promised, Pending, ResolvesFirst, HandlerOK
  <2> QED
    BY <2>2, <2>3, <2>4, <2>5, <2>6 DEF Sound
<1>3. CASE h.mail.via # "inbound" /\ ~(h.mail.via = "eas" /\ h.box = "sent")
  <2>1. ResolvesFirst(h) => h.todo = {}
    BY DEF HandlerOK
  <2> QED
    BY <1>3, <2>1, SoundFailed DEF StoreFailed
<1> QED
  BY <1>1, <1>2, <1>3


LEMMA SoundNoAccount ==
  ASSUME NEW h \in Handler, HandlerOK(h), h.pc = "resolve", NEW a \in h.todo,
         h.mail.via = "inbound" => Owner[a] = NoUser
  PROVE  Sound(h, NoAccount(h, a), {})
<1> DEFINE rest == [h EXCEPT !.todo = @ \ {a}]
<1>0. rest \in Handler /\ h.mail.via \in Paths /\ a \in Recipients(h.mail)
  BY DEF Handler, Mail, HandlerOK
<1>1. CASE h.mail.via = "inbound" /\ a \in CatchAll
  <2> DEFINE k == [rest EXCEPT !.jobs = @ \cup {a}]
  <2>1. /\ k.mail = h.mail /\ k.todo = h.todo \ {a} /\ k.jobs = h.jobs \cup {a} /\ k.bad = h.bad
        /\ k.box = h.box /\ k.ext = h.ext /\ k.pc = "resolve" /\ k.status = h.status
    BY DEF Handler
  <2>2. NoAccount(h, a) = k
    BY <1>1 DEF NoAccount
  <2> HIDE DEF k
  <2>3. HandlerOK(k)
    BY <1>1, <2>1 DEF HandlerOK, Ok, Storing, ResolvesFirst
  <2>4. k.pc \notin HasRow
    BY <2>1 DEF HasRow
  <2>5. a \notin Unknown(h.mail)
    BY <1>1 DEF Unknown
  <2>6. Hope(h) => Hope(k)
    BY <2>1, <2>5 DEF Hope
  <2>7. Promised(k) => Promised(h) /\ Pending(h) \subseteq Pending(k) \cup {}
    BY <2>1 DEF Promised, Pending, ResolvesFirst
  <2> QED
    BY <2>2, <2>3, <2>4, <2>6, <2>7 DEF Sound
<1>2. CASE h.mail.via # "inbound" /\ a \notin Hosted
  <2> DEFINE k == [rest EXCEPT !.ext = @ \cup {a}]
  <2>1. /\ k.mail = h.mail /\ k.todo = h.todo \ {a} /\ k.jobs = h.jobs /\ k.bad = h.bad
        /\ k.box = h.box /\ k.ext = h.ext \cup {a} /\ k.pc = "resolve" /\ k.status = h.status
    BY DEF Handler
  <2>2. NoAccount(h, a) = k
    BY <1>2 DEF NoAccount
  <2> HIDE DEF k
  <2>3. HandlerOK(k)
    BY <1>2, <2>1 DEF HandlerOK, Ok, Storing, ResolvesFirst
  <2>4. k.pc \notin HasRow
    BY <2>1 DEF HasRow
  <2>6. Hope(h) => Hope(k)
    BY <1>2, <2>1 DEF Hope
  <2>7. Promised(k) => Promised(h) /\ Pending(h) \subseteq Pending(k) \cup {}
    BY <2>1 DEF Promised, Pending, ResolvesFirst
  <2> QED
    BY <2>2, <2>3, <2>4, <2>6, <2>7 DEF Sound
<1>3. CASE \/ h.mail.via = "inbound" /\ a \notin CatchAll
           \/ h.mail.via \in {"eas", "auto"} /\ a \in Hosted
  <2> DEFINE k == [rest EXCEPT !.bad = @ \cup {"unknown"}]
  <2>1. /\ k.mail = h.mail /\ k.todo = h.todo \ {a} /\ k.jobs = h.jobs
        /\ k.bad = h.bad \cup {"unknown"}
        /\ k.box = h.box /\ k.ext = h.ext /\ k.pc = "resolve" /\ k.status = h.status
    BY DEF Handler
  <2>2. NoAccount(h, a) = k
    BY <1>3 DEF NoAccount
  <2> HIDE DEF k
  <2>3. HandlerOK(k)
    BY <1>3, <2>1 DEF HandlerOK, Ok, Storing, ResolvesFirst
  <2>4. ~Promised(k) /\ k.pc \notin HasRow
    BY <2>1 DEF HasRow, Promised
  <2>5. h.mail.via = "inbound" => a \in Unknown(h.mail)
    BY <1>0, <1>3 DEF Unknown
  <2>6. Hope(h) => Hope(k)
    BY <1>3, <2>1, <2>5 DEF Hope
  <2> QED
    BY <2>2, <2>3, <2>4, <2>6 DEF Sound
<1>4. CASE h.mail.via \notin {"inbound", "eas", "auto"} /\ a \in Hosted
  <2>1. PICK st \in {"rejected", "failed"} : NoAccount(h, a) = Answered(rest, st)
    BY <1>4 DEF NoAccount
  <2> DEFINE k == Answered(rest, st)
  <2>2. /\ k.mail = h.mail /\ k.todo = h.todo \ {a} /\ k.jobs = h.jobs /\ k.bad = h.bad
        /\ k.box = h.box /\ k.ext = h.ext /\ k.pc = "answer" /\ k.status # "ok"
    BY <2>1 DEF Handler, Answered
  <2>3. NoAccount(h, a) = k
    BY <2>1
  <2> HIDE DEF k
  <2>4. HandlerOK(k)
    BY <1>4, <2>2 DEF HandlerOK, Ok, Storing, ResolvesFirst
  <2>5. ~Promised(k) /\ k.pc \notin HasRow
    BY <2>2 DEF HasRow, Promised
  <2>6. Hope(h) => Hope(k)
    BY <1>4, <2>2 DEF Hope
  <2> QED
    BY <2>3, <2>4, <2>5, <2>6 DEF Sound
<1> QED
  BY <1>0, <1>1, <1>2, <1>3, <1>4 DEF Paths

\* The handler took its last recipient from the list.
LEMMA SoundRouted ==
  ASSUME TypeOK, NEW s \in Slots, HandlerOK(req[s]), Routed(s)
  PROVE  Sound(req[s], req'[s], {})
<1> DEFINE h == req[s]
<1>0. h \in Handler /\ h.pc = "resolve" /\ h.todo = {}
  BY DEF TypeOK, Routed
<1>1. h.bad \subseteq {"unknown", "failed"} /\ h.mail.via \in Paths
  BY <1>0 DEF Handler, Mail
<1>2. CASE h.bad # {}
  <2>1. \/ req'[s] = Answered(h, "failed")
        \/ req'[s] = Answered(h, "rejected") /\ h.mail.via = "inbound" /\ "unknown" \in h.bad
    <3>1. CASE "unknown" \in h.bad
      BY <3>1, StepTo DEF Routed
    <3>2. CASE "unknown" \notin h.bad
      <4>1. "failed" \in h.bad
        BY <1>1, <1>2, <3>2
      <4>2. Step(s, Answered(h, "failed"))
        BY <3>2, <4>1 DEF Routed
      <4> QED
        BY <4>2, StepTo
    <3> QED
      BY <3>1, <3>2
  <2>2. CASE req'[s] = Answered(h, "failed")
    BY <1>0, <2>2, SoundFailed
  <2>3. CASE req'[s] = Answered(h, "rejected") /\ h.mail.via = "inbound" /\ "unknown" \in h.bad
    <3> DEFINE k == Answered(h, "rejected")
    <3>1. /\ k.mail = h.mail /\ k.todo = h.todo /\ k.jobs = h.jobs /\ k.bad = h.bad
          /\ k.box = h.box /\ k.pc = "answer" /\ k.status = "rejected"
      BY <1>0 DEF Answered, Handler
    <3> HIDE DEF k
    <3>2. HandlerOK(k)
      BY <1>0, <3>1 DEF HandlerOK, Ok, Storing, ResolvesFirst
    <3>3. ~Promised(k) /\ k.pc \notin HasRow
      BY <3>1 DEF Promised, HasRow
    <3>4. Hope(h) => Hope(k)
      BY <1>0, <2>3, <3>1 DEF Hope
    <3> QED
      BY <2>3, <3>2, <3>3, <3>4 DEF Sound, k
  <2> QED
    BY <2>1, <2>2, <2>3
<1>3. CASE h.bad = {}
  <2> DEFINE k == req'[s]
  <2>1. \/ h.ext # {} /\ k = [h EXCEPT !.pc = "relay"]
        \/ h.ext = {} /\ ResolvesFirst(h) /\ k = [h EXCEPT !.pc = "job"]
        \/ h.ext = {} /\ ~ResolvesFirst(h) /\ k = Answered(h, "ok")
    <3>1. CASE h.ext # {}
      BY <1>3, <3>1, StepTo DEF Routed
    <3>2. CASE h.ext = {} /\ ResolvesFirst(h)
      BY <1>3, <3>2, StepTo DEF Routed
    <3>3. CASE h.ext = {} /\ ~ResolvesFirst(h)
      BY <1>3, <3>3, StepTo DEF Routed
    <3> QED
      BY <3>1, <3>2, <3>3
  <2>2. /\ k.mail = h.mail /\ k.todo = h.todo /\ k.jobs = h.jobs /\ k.bad = h.bad
        /\ k.box = h.box /\ k.ext = h.ext
    BY <1>0, <2>1 DEF Answered, Handler
  <2>3. \/ h.ext # {} /\ k.pc = "relay" /\ k.status = h.status
        \/ h.ext = {} /\ ResolvesFirst(h) /\ k.pc = "job" /\ k.status = h.status
        \/ h.ext = {} /\ ~ResolvesFirst(h) /\ k.pc = "answer" /\ k.status = "ok"
    BY <1>0, <2>1 DEF Answered, Handler
  <2> HIDE DEF k
  <2>4. HandlerOK(k)
    BY <1>0, <1>3, <2>2, <2>3 DEF HandlerOK, Ok, Storing, ResolvesFirst
  <2>5. k.pc \notin HasRow
    BY <2>3 DEF HasRow
  <2>6. Promised(k) => Promised(h) /\ Pending(h) \subseteq Pending(k) \cup {}
    BY <1>0, <1>3, <2>2, <2>3 DEF Promised, Pending, ResolvesFirst
  <2>7. Hope(h) => Hope(k)
    BY <1>0, <1>3, <2>2, <2>3 DEF Hope
  <2> QED
    BY <2>4, <2>5, <2>6, <2>7 DEF Sound, k
<1> QED
  BY <1>2, <1>3


\* A stored copy goes from one statement to the next.
LEMMA SoundGoes ==
  ASSUME NEW h \in Handler, HandlerOK(h), NEW p,
         \/ h.pc = "check" /\ p = "insert"
         \/ h.pc = "source" /\ p = "attach"
         \/ h.pc = "attach" /\ p = "change"
         \/ h.pc = "change" /\ p = "hook" /\ h.box = "inbox"
         \/ h.pc = "hook" /\ p \in {"wait", "publish"}
         \/ h.pc = "wait" /\ p = "publish"
  PROVE  Sound(h, [h EXCEPT !.pc = p], {})
<1> DEFINE k == [h EXCEPT !.pc = p]
<1>1. /\ k.mail = h.mail /\ k.todo = h.todo /\ k.jobs = h.jobs /\ k.bad = h.bad /\ k.box = h.box
      /\ k.ext = h.ext /\ k.at = h.at /\ k.pc = p /\ k.status = h.status /\ k.row = h.row
  BY DEF Handler
<1> HIDE DEF k
<1>2. HandlerOK(k)
  BY <1>1 DEF HandlerOK, Ok, Storing, ResolvesFirst, Target
<1>3. k.pc \in HasRow => h.pc \in HasRow /\ k.row = h.row /\ k.box = h.box
  BY <1>1 DEF HasRow
<1>4. Promised(k) => Promised(h) /\ Pending(h) \subseteq Pending(k) \cup {}
  BY <1>1 DEF Promised, Pending, ResolvesFirst
<1>5. Hope(h) => Hope(k)
  BY <1>1 DEF Hope
<1> QED
  BY <1>2, <1>3, <1>4, <1>5 DEF Sound, k

LEMMA SoundAfterChange ==
  ASSUME NEW h \in Handler, HandlerOK(h), h.pc = "change"
  PROVE  Sound(h, AfterChange(h), {})
<1>1. CASE h.box = "inbox"
  BY <1>1, SoundGoes DEF AfterChange
<1>2. CASE h.box # "inbox"
  <2>1. h.box = "sent" /\ Current(h) = {}
    BY <1>2 DEF Handler, Current
  <2> QED
    BY <1>2, <2>1, SoundStored DEF AfterChange
<1> QED
  BY <1>1, <1>2

LEMMA SoundResolveLocal ==
  ASSUME TypeOK, NEW s \in Slots, HandlerOK(req[s]), ResolveLocal(s)
  PROVE  Sound(req[s], req'[s], {})
<1> DEFINE h == req[s]
           k == req'[s]
<1>0. h \in Handler /\ h.pc = "resolve" /\ h.mail.via \in Paths
  BY DEF TypeOK, ResolveLocal, Handler, Mail
<1>1. PICK a \in h.todo :
        /\ Owner[a] # NoUser
        /\ k = [h EXCEPT !.todo = @ \ {a},
                         !.jobs = IF ResolvesFirst(h) THEN @ \cup {a} ELSE @,
                         !.at = IF ResolvesFirst(h) THEN @ ELSE a,
                         !.box = "inbox",
                         !.pc = CASE ResolvesFirst(h) -> "resolve"
                                  [] h.mail.via = "smtp" -> "check"
                                  [] OTHER -> "insert"]
  BY StepTo DEF ResolveLocal
<1>2. a \in Addrs /\ Owner[a] \in Users /\ Owner[a] # NoUser
  BY <1>0, <1>1, DeliveryAssumption DEF Handler
<1>3. /\ k.mail = h.mail /\ k.todo = h.todo \ {a} /\ k.bad = h.bad /\ k.box = "inbox"
      /\ k.ext = h.ext /\ k.status = h.status
  BY <1>0, <1>1 DEF Handler
<1>4. CASE ResolvesFirst(h)
  <2>1. k.pc = "resolve" /\ k.jobs = h.jobs \cup {a}
    <3> DEFINE pc == CASE ResolvesFirst(h) -> "resolve"
                       [] h.mail.via = "smtp" -> "check"
                       [] OTHER -> "insert"
               at == IF ResolvesFirst(h) THEN h.at ELSE a
               jobs == IF ResolvesFirst(h) THEN h.jobs \cup {a} ELSE h.jobs
    <3>1. pc = "resolve" /\ jobs = h.jobs \cup {a}
      BY <1>4 DEF ResolvesFirst
    <3>2. k = [h EXCEPT !.todo = @ \ {a}, !.jobs = jobs, !.at = at, !.box = "inbox", !.pc = pc]
      BY <1>1, Zenon
    <3> HIDE DEF pc, at, jobs
    <3> QED
      BY <1>0, <3>1, <3>2 DEF Handler
  <2> HIDE DEF k
  <2>2. HandlerOK(k)
    BY <1>0, <1>2, <1>3, <1>4, <2>1 DEF HandlerOK, Ok, Storing, ResolvesFirst
  <2>3. k.pc \notin HasRow
    BY <2>1 DEF HasRow
  <2>4. Promised(k) => Promised(h) /\ Pending(h) \subseteq Pending(k) \cup {}
    BY <1>0, <1>3, <1>4, <2>1 DEF Promised, Pending, ResolvesFirst
  <2>5. Hope(h) => Hope(k)
    BY <1>0, <1>1, <1>3, <2>1 DEF Hope, Unknown
  <2> QED
    BY <2>2, <2>3, <2>4, <2>5 DEF Sound, k
<1>5. CASE ~ResolvesFirst(h)
  <2>1. k.at = a /\ k.jobs = h.jobs
    BY <1>0, <1>1, <1>5 DEF Handler
  <2>2. k.pc \in {"check", "insert"} /\ (k.pc = "check" => h.mail.via = "smtp")
    BY <1>0, <1>1, <1>5 DEF Handler
  <2> HIDE DEF k
  <2>3. HandlerOK(k)
    BY <1>0, <1>2, <1>3, <1>5, <2>1, <2>2 DEF HandlerOK, Ok, Storing, ResolvesFirst, Target
  <2>4. k.pc \notin HasRow
    BY <2>2 DEF HasRow
  <2>5. Promised(k) => Promised(h) /\ Pending(h) \subseteq Pending(k) \cup {}
    BY <1>0, <1>3, <1>5, <2>1, <2>2 DEF Promised, Pending, ResolvesFirst
  <2>6. Hope(h) => Hope(k)
    BY <1>3, <1>5 DEF Hope, ResolvesFirst
  <2> QED
    BY <2>3, <2>4, <2>5, <2>6 DEF Sound, k
<1> QED
  BY <1>4, <1>5

LEMMA SoundResolveFails ==
  ASSUME TypeOK, NEW s \in Slots, HandlerOK(req[s]), ResolveFails(s)
  PROVE  Sound(req[s], req'[s], {})
<1> DEFINE h == req[s]
<1>0. h \in Handler /\ h.pc = "resolve"
  BY DEF TypeOK, ResolveFails
<1>1. PICK a \in h.todo :
        req'[s] = (IF h.mail.via = "inbound"
                   THEN [h EXCEPT !.todo = @ \ {a}, !.bad = @ \cup {"failed"}]
                   ELSE NoAccount(h, a))
  BY StepTo DEF ResolveFails
<1>2. CASE h.mail.via # "inbound"
  BY <1>0, <1>1, <1>2, SoundNoAccount
<1>3. CASE h.mail.via = "inbound"
  <2> DEFINE k == [h EXCEPT !.todo = @ \ {a}, !.bad = @ \cup {"failed"}]
  <2>1. /\ k.mail = h.mail /\ k.todo = h.todo \ {a} /\ k.jobs = h.jobs
        /\ k.bad = h.bad \cup {"failed"}
        /\ k.box = h.box /\ k.ext = h.ext /\ k.pc = "resolve" /\ k.status = h.status
    BY <1>0 DEF Handler
  <2>2. req'[s] = k
    BY <1>1, <1>3
  <2> HIDE DEF k
  <2>3. HandlerOK(k)
    BY <1>0, <1>3, <2>1 DEF HandlerOK, Ok, Storing, ResolvesFirst
  <2>4. ~Promised(k) /\ k.pc \notin HasRow
    BY <2>1 DEF HasRow, Promised
  <2>5. Hope(h) => Hope(k)
    BY <1>0, <2>1 DEF Hope
  <2> QED
    BY <2>2, <2>3, <2>4, <2>5 DEF Sound
<1> QED
  BY <1>2, <1>3

LEMMA SoundRelay ==
  ASSUME TypeOK, NEW s \in Slots, HandlerOK(req[s]), Relay(s)
  PROVE  Sound(req[s], req'[s], req[s].ext)
<1> DEFINE h == req[s]
           k == req'[s]
<1>0. h \in Handler /\ h.pc = "relay" /\ h.mail.via \in Paths
  BY DEF TypeOK, Relay, Handler, Mail
<1>1. k = IF ResolvesFirst(h) THEN [h EXCEPT !.pc = "job"] ELSE Answered(h, "ok")
  BY StepTo DEF Relay
<1>2. /\ k.mail = h.mail /\ k.todo = h.todo /\ k.jobs = h.jobs /\ k.bad = h.bad
      /\ k.box = h.box /\ k.ext = h.ext
  BY <1>0, <1>1 DEF Handler, Answered
<1>3. \/ ResolvesFirst(h) /\ k.pc = "job" /\ k.status = h.status
      \/ ~ResolvesFirst(h) /\ k.pc = "answer" /\ k.status = "ok"
  BY <1>0, <1>1 DEF Handler, Answered
<1> HIDE DEF k
<1>4. HandlerOK(k)
  BY <1>0, <1>2, <1>3 DEF HandlerOK, Ok, Storing, ResolvesFirst
<1>5. k.pc \notin HasRow
  BY <1>3 DEF HasRow
<1>6. Promised(k) => Promised(h) /\ Pending(h) \subseteq Pending(k) \cup h.ext
  BY <1>0, <1>2, <1>3 DEF Promised, Pending, ResolvesFirst
<1>7. Hope(h) => Hope(k)
  BY <1>0, <1>2, <1>3 DEF Hope
<1> QED
  BY <1>4, <1>5, <1>6, <1>7 DEF Sound, k

LEMMA SoundNextJob ==
  ASSUME TypeOK, NEW s \in Slots, HandlerOK(req[s]), NextJob(s)
  PROVE  Sound(req[s], req'[s], {})
<1> DEFINE h == req[s]
           k == req'[s]
<1>0. h \in Handler /\ h.pc = "job" /\ h.mail.via \in Paths
  BY DEF TypeOK, NextJob, Handler, Mail
<1>1. PICK a \in h.jobs :
        Owner[a] # NoUser /\ k = [h EXCEPT !.jobs = @ \ {a}, !.at = a, !.box = "inbox", !.pc = "check"]
  BY StepTo DEF NextJob
<1>2. a \in Addrs /\ Owner[a] \in Users
  BY <1>0, <1>1, DeliveryAssumption DEF Handler
<1>3. /\ k.mail = h.mail /\ k.todo = h.todo /\ k.jobs = h.jobs \ {a} /\ k.bad = h.bad
      /\ k.box = "inbox" /\ k.ext = h.ext /\ k.at = a /\ k.pc = "check" /\ k.status = h.status
  BY <1>0, <1>1 DEF Handler
<1> HIDE DEF k
<1>4. HandlerOK(k)
  BY <1>0, <1>2, <1>3 DEF HandlerOK, Ok, Storing, ResolvesFirst, Target
<1>5. k.pc \notin HasRow
  BY <1>3 DEF HasRow
<1>6. Promised(k) => Promised(h) /\ Pending(h) \subseteq Pending(k) \cup {}
  BY <1>0, <1>3 DEF Promised, Pending, ResolvesFirst, HandlerOK
<1>7. Hope(h) => Hope(k)
  BY <1>0, <1>3 DEF Hope
<1> QED
  BY <1>4, <1>5, <1>6, <1>7 DEF Sound, k

LEMMA SoundJobsDone ==
  ASSUME TypeOK, NEW s \in Slots, HandlerOK(req[s]), JobsDone(s)
  PROVE  Sound(req[s], req'[s], {})
<1> DEFINE h == req[s]
           k == req'[s]
<1>0. /\ h \in Handler /\ h.pc = "job" /\ h.jobs = {} /\ h.mail.via \in Paths
      /\ h.mail.from \in Addrs
  BY DEF TypeOK, JobsDone, Handler, Mail
<1>1. k = CASE h.bad # {} -> Answered(h, "failed")
            [] h.bad = {} /\ h.mail.via = "eas" -> [h EXCEPT !.pc = "insert", !.box = "sent"]
            [] OTHER -> Answered(h, "ok")
  BY StepTo, Zenon DEF JobsDone
<1>2. CASE h.bad # {}
  BY <1>0, <1>1, <1>2, SoundFailed DEF HandlerOK
<1>3. CASE h.bad = {}
  <2>1. /\ k.mail = h.mail /\ k.todo = h.todo /\ k.jobs = {} /\ k.bad = h.bad /\ k.ext = h.ext
    BY <1>0, <1>1, <1>3 DEF Handler, Answered
  <2>2. \/ h.mail.via = "eas" /\ k.pc = "insert" /\ k.box = "sent" /\ k.status = h.status
        \/ h.mail.via # "eas" /\ k.pc = "answer" /\ k.box = h.box /\ k.status = "ok"
    BY <1>0, <1>1, <1>3 DEF Handler, Answered
  <2> HIDE DEF k
  <2>3. h.mail.via = "eas" => Author(h.mail) \in Users
    BY DEF HandlerOK
  <2>4. HandlerOK(k)
    BY <1>0, <1>3, <2>1, <2>2, <2>3 DEF HandlerOK, Ok, Storing, ResolvesFirst, Target
  <2>5. k.pc \notin HasRow
    BY <2>2 DEF HasRow
  <2>6. Promised(k) => Promised(h) /\ Pending(h) \subseteq Pending(k) \cup {}
    BY <1>0, <1>3, <2>1, <2>2 DEF Promised, Pending, ResolvesFirst, HandlerOK
  <2>7. Hope(h) => Hope(k)
    BY <1>0, <2>1, <2>2 DEF Hope
  <2> QED
    BY <2>4, <2>5, <2>6, <2>7 DEF Sound, k
<1> QED
  BY <1>2, <1>3


-----------------------------------------------------------------------------
(* What is reached stays reached. *)

\* Rows are only added, and of a row only the four marks change, never back.
Grows(rs, rs2) ==
  /\ Len(rs) <= Len(rs2)
  /\ \A i \in 1..Len(rs) :
       /\ rs2[i].user = rs[i].user /\ rs2[i].box = rs[i].box /\ rs2[i].msg = rs[i].msg
       /\ rs2[i].reply = rs[i].reply /\ rs2[i].key = rs[i].key
       /\ rs[i].src => rs2[i].src
       /\ rs[i].att => rs2[i].att
       /\ rs[i].fed => rs2[i].fed
       /\ rs[i].told => rs2[i].told

\* What a handler does to the tables: it adds its row, marks its row, or neither.
Writes(h, rs, rs2) ==
  /\ rs2 \in Seq(Row)
  /\ Grows(rs, rs2)
  /\ \A i \in 1..Len(rs2) : i > Len(rs) => h.pc = "insert" /\ i = Len(rs) + 1 /\ rs2[i] = NewRow(h)
  /\ \A i \in 1..Len(rs) : rs2[i] # rs[i] => h.pc \in HasRow /\ i = h.row

\* Whether one count of the relay is at least another.
Counts(c, d) == d \in [Msgs \X Addrs -> Nat] /\ \A p \in Msgs \X Addrs : c[p] <= d[p]

LEMMA SentCounts ==
  ASSUME relay \in [Msgs \X Addrs -> Nat], NEW h \in Handler, NEW as \in SUBSET Addrs
  PROVE  /\ Counts(relay, Sent(h, as))
         /\ h.mail.via # "auto" => \A a \in as : Sent(h, as)[<<h.msg, a>>] > 0
         /\ h.mail.via = "auto" => Sent(h, as) = relay
         /\ \A p \in Msgs \X Addrs : p[1] # h.msg => Sent(h, as)[p] = relay[p]
<1> DEFINE one(p) == IF p[1] = h.msg /\ p[2] \in as /\ h.mail.via # "auto" THEN 1 ELSE 0
           S == [p \in Msgs \X Addrs |-> relay[p] + one(p)]
<1>1. Sent(h, as) = S
  BY DEF Sent
<1>2. \A p \in Msgs \X Addrs : one(p) \in Nat /\ relay[p] \in Nat /\ relay[p] + one(p) \in Nat
                               /\ relay[p] <= relay[p] + one(p)
  <2>1. \A p \in Msgs \X Addrs : one(p) \in {0, 1}
    OBVIOUS
  <2> HIDE DEF one
  <2> QED
    BY <2>1
<1>3. S \in [Msgs \X Addrs -> Nat] /\ \A p \in Msgs \X Addrs : S[p] = relay[p] + one(p)
  BY <1>2
<1>4. h.mail.via # "auto" => \A a \in as : S[<<h.msg, a>>] > 0
  <2> SUFFICES ASSUME h.mail.via # "auto", NEW a \in as PROVE S[<<h.msg, a>>] > 0
    OBVIOUS
  <2>1. <<h.msg, a>> \in Msgs \X Addrs
    BY DEF Handler
  <2>2. one(<<h.msg, a>>) = 1
    OBVIOUS
  <2> HIDE DEF S, one
  <2> QED
    BY <1>2, <1>3, <2>1, <2>2
<1>5. h.mail.via = "auto" => S = relay
  <2> SUFFICES ASSUME h.mail.via = "auto" PROVE S = relay
    OBVIOUS
  <2>1. \A p \in Msgs \X Addrs : one(p) = 0
    OBVIOUS
  <2> HIDE DEF S, one
  <2>2. \A p \in Msgs \X Addrs : S[p] = relay[p]
    BY <1>2, <1>3, <2>1
  <2> QED
    BY <1>3, <2>2
<1>6. \A p \in Msgs \X Addrs : p[1] # h.msg => S[p] = relay[p]
  <2>1. \A p \in Msgs \X Addrs : p[1] # h.msg => one(p) = 0
    OBVIOUS
  <2> HIDE DEF S, one
  <2> QED
    BY <1>2, <1>3, <2>1
<1> HIDE DEF S, one
<1> QED
  BY <1>1, <1>2, <1>3, <1>4, <1>5, <1>6 DEF Counts

LEMMA MarkWrites ==
  ASSUME NEW rs \in Seq(Row), NEW h \in Handler, h.pc \in HasRow, h.row \in 1..Len(rs),
         NEW rs2,
         \/ rs2 = [rs EXCEPT ![h.row].src = TRUE] \/ rs2 = [rs EXCEPT ![h.row].att = TRUE]
         \/ rs2 = [rs EXCEPT ![h.row].fed = TRUE] \/ rs2 = [rs EXCEPT ![h.row].told = TRUE]
  PROVE  Writes(h, rs, rs2) /\ Len(rs2) = Len(rs)
<1> DEFINE n == h.row
<1>0. rs[n] \in Row
  BY ElementOfSeq
<1>1. PICK w : /\ w \in Row /\ rs2 = [rs EXCEPT ![n] = w]
               /\ w.user = rs[n].user /\ w.box = rs[n].box /\ w.msg = rs[n].msg
               /\ w.reply = rs[n].reply /\ w.key = rs[n].key
               /\ (rs[n].src => w.src) /\ (rs[n].att => w.att) /\ (rs[n].fed => w.fed)
               /\ (rs[n].told => w.told)
  <2>1. CASE rs2 = [rs EXCEPT ![h.row].src = TRUE]
    <3> DEFINE w == [rs[n] EXCEPT !.src = TRUE]
    <3>1. rs2 = [rs EXCEPT ![n] = w]
      BY <2>1
    <3>2. w \in Row /\ w.user = rs[n].user /\ w.box = rs[n].box /\ w.msg = rs[n].msg
          /\ w.reply = rs[n].reply /\ w.key = rs[n].key
      BY <1>0 DEF Row
    <3>3. w.src /\ (rs[n].att => w.att) /\ (rs[n].fed => w.fed) /\ (rs[n].told => w.told)
      BY <1>0, Zenon DEF Row
    <3> QED
      BY <3>1, <3>2, <3>3, Zenon
  <2>2. CASE rs2 = [rs EXCEPT ![h.row].att = TRUE]
    <3> DEFINE w == [rs[n] EXCEPT !.att = TRUE]
    <3>1. rs2 = [rs EXCEPT ![n] = w]
      BY <2>2
    <3>2. w \in Row /\ w.user = rs[n].user /\ w.box = rs[n].box /\ w.msg = rs[n].msg
          /\ w.reply = rs[n].reply /\ w.key = rs[n].key
      BY <1>0 DEF Row
    <3>3. w.att /\ (rs[n].src => w.src) /\ (rs[n].fed => w.fed) /\ (rs[n].told => w.told)
      BY <1>0, Zenon DEF Row
    <3> QED
      BY <3>1, <3>2, <3>3, Zenon
  <2>3. CASE rs2 = [rs EXCEPT ![h.row].fed = TRUE]
    <3> DEFINE w == [rs[n] EXCEPT !.fed = TRUE]
    <3>1. rs2 = [rs EXCEPT ![n] = w]
      BY <2>3
    <3>2. w \in Row /\ w.user = rs[n].user /\ w.box = rs[n].box /\ w.msg = rs[n].msg
          /\ w.reply = rs[n].reply /\ w.key = rs[n].key
      BY <1>0 DEF Row
    <3>3. w.fed /\ (rs[n].src => w.src) /\ (rs[n].att => w.att) /\ (rs[n].told => w.told)
      BY <1>0, Zenon DEF Row
    <3> QED
      BY <3>1, <3>2, <3>3, Zenon
  <2>4. CASE rs2 = [rs EXCEPT ![h.row].told = TRUE]
    <3> DEFINE w == [rs[n] EXCEPT !.told = TRUE]
    <3>1. rs2 = [rs EXCEPT ![n] = w]
      BY <2>4
    <3>2. w \in Row /\ w.user = rs[n].user /\ w.box = rs[n].box /\ w.msg = rs[n].msg
          /\ w.reply = rs[n].reply /\ w.key = rs[n].key
      BY <1>0 DEF Row
    <3>3. w.told /\ (rs[n].src => w.src) /\ (rs[n].att => w.att) /\ (rs[n].fed => w.fed)
      BY <1>0, Zenon DEF Row
    <3> QED
      BY <3>1, <3>2, <3>3, Zenon
  <2> QED
    BY <2>1, <2>2, <2>3, <2>4
<1>2. rs2 \in Seq(Row) /\ Len(rs2) = Len(rs) /\ \A i \in 1..Len(rs) : rs2[i] = IF i = n THEN w ELSE rs[i]
  BY <1>1, ExceptSeq
<1>3. Len(rs) \in Nat
  BY LenProperties
<1>4. Grows(rs, rs2)
  BY <1>1, <1>2, <1>3 DEF Grows
<1> QED
  BY <1>2, <1>3, <1>4 DEF Writes

LEMMA NewRowShape ==
  ASSUME NEW h \in Handler, Target(h) \in Users
  PROVE  NewRow(h) \in Row
<1>1. (h.mail.key /\ h.mail.via # "web") \in BOOLEAN /\ (h.mail.via = "auto") \in BOOLEAN
  OBVIOUS
<1> QED
  BY <1>1 DEF NewRow, Row, Handler

LEMMA NewRowFields ==
  ASSUME NEW h
  PROVE  /\ NewRow(h).user = Target(h) /\ NewRow(h).box = h.box /\ NewRow(h).msg = h.msg
         /\ NewRow(h).reply <=> h.mail.via = "auto"
         /\ NewRow(h).key <=> h.mail.key /\ h.mail.via # "web"
BY Zenon DEF NewRow

LEMMA InsertWrites ==
  ASSUME NEW rs \in Seq(Row), NEW h \in Handler, h.pc = "insert", Target(h) \in Users
  PROVE  Writes(h, rs, Append(rs, NewRow(h)))
<1> DEFINE w == NewRow(h)
<1>1. w \in Row
  BY NewRowShape
<1> HIDE DEF w
<1>2. /\ Append(rs, w) \in Seq(Row) /\ Len(Append(rs, w)) = Len(rs) + 1
      /\ \A i \in 1..Len(rs) : Append(rs, w)[i] = rs[i]
      /\ Append(rs, w)[Len(rs) + 1] = w
  BY <1>1, AppendProperties
<1>3. Len(rs) \in Nat
  BY LenProperties
<1>4. Grows(rs, Append(rs, w))
  BY <1>2, <1>3 DEF Grows
<1>5. Writes(h, rs, Append(rs, w))
  BY <1>2, <1>3, <1>4 DEF Writes, w
<1> QED
  BY <1>5 DEF w

LEMMA SameWrites ==
  ASSUME NEW rs \in Seq(Row), NEW h
  PROVE  Writes(h, rs, rs)
<1>1. Len(rs) \in Nat
  BY LenProperties
<1> QED
  BY <1>1 DEF Writes, Grows


\* What a step of a handler does to rows and relay.
LEMMA SimpleWrites ==
  ASSUME TypeOK, NEW s \in Slots, HandlerOK(req[s]), RowOK(req[s], rows), Simple(s)
  PROVE  /\ Writes(req[s], rows, rows')
         /\ Counts(relay, relay')
         /\ \A p \in Msgs \X Addrs : relay'[p] # relay[p] =>
              /\ p[1] = req[s].msg /\ req[s].mail.via # "auto"
              /\ req[s].pc \in {"relay", "job"}
<1> DEFINE h == req[s]
<1>0. h \in Handler /\ rows \in Seq(Row) /\ relay \in [Msgs \X Addrs -> Nat]
  BY DEF TypeOK
<1>1. Counts(relay, relay)
  BY <1>0 DEF Counts
<1>2. Writes(h, rows, rows)
  BY <1>0, SameWrites
<1>3. CASE UNCHANGED <<rows, relay>>
  BY <1>1, <1>2, <1>3
<1>4. CASE Relay(s) \/ RelayFails(s) \/ Forward(s) \/ ForwardFails(s)
  <2>1. PICK as \in SUBSET Addrs : relay' = relay \/ relay' = Sent(h, as)
    <3>1. CASE Relay(s) \/ RelayFails(s)
      <4>1. h.ext \in SUBSET Addrs
        BY <1>0 DEF Handler
      <4> QED
        BY <3>1, <4>1 DEF Relay, RelayFails
    <3>2. CASE Forward(s) \/ ForwardFails(s)
      <4>1. PICK a \in h.jobs : relay' = relay \/ relay' = Sent(h, {a})
        BY <3>2 DEF Forward, ForwardFails
      <4>2. {a} \in SUBSET Addrs
        BY <1>0 DEF Handler
      <4> QED
        BY <4>1, <4>2
    <3> QED
      BY <1>4, <3>1, <3>2
  <2>2. rows' = rows /\ h.pc \in {"relay", "job"}
    BY <1>4 DEF Relay, RelayFails, Forward, ForwardFails
  <2>3. CASE relay' = relay
    BY <1>1, <1>2, <2>2, <2>3
  <2>4. CASE relay' = Sent(h, as)
    BY <1>0, <1>2, <2>2, <2>4, SentCounts
  <2> QED
    BY <2>1, <2>3, <2>4
<1>5. CASE InsertRow(s)
  <2>1. Target(h) \in Users /\ h.pc = "insert" /\ rows' = Append(rows, NewRow(h)) /\ relay' = relay
    BY <1>5 DEF InsertRow, HandlerOK, Storing
  <2> QED
    BY <1>0, <1>1, <2>1, InsertWrites
<1>6. CASE SetPath(s) \/ InsertAttachment(s) \/ AddChange(s) \/ Publish(s)
  <2>1. h.pc \in HasRow /\ relay' = relay
    BY <1>6 DEF SetPath, InsertAttachment, AddChange, Publish, HasRow
  <2>2. h.row \in 1..Len(rows)
    BY <2>1 DEF RowOK
  <2>3. \/ rows' = [rows EXCEPT ![h.row].src = TRUE] \/ rows' = [rows EXCEPT ![h.row].att = TRUE]
        \/ rows' = [rows EXCEPT ![h.row].fed = TRUE] \/ rows' = [rows EXCEPT ![h.row].told = TRUE]
    BY <1>6 DEF SetPath, InsertAttachment, AddChange, Publish
  <2> QED
    BY <1>0, <1>1, <2>1, <2>2, <2>3, MarkWrites
<1>7. \/ UNCHANGED <<rows, relay>> \/ InsertRow(s)
      \/ Relay(s) \/ RelayFails(s) \/ Forward(s) \/ ForwardFails(s)
      \/ SetPath(s) \/ InsertAttachment(s) \/ AddChange(s) \/ Publish(s)
  BY DEF Simple, Failing, ResolveLocal, ResolveOther, Routed, NextJob, JobsDone, Check, NoNotice,
         ResolveFails, CheckFails, InsertFails, RecordFails
<1> QED
  BY <1>3, <1>4, <1>5, <1>6, <1>7

\* A row of the same message and account means that the recipient is reached.
LEMMA RowReaches ==
  ASSUME NEW m, NEW a, NEW i \in 1..Len(rows),
         rows[i].user = Owner[a], rows[i].msg = m, ~rows[i].reply
  PROVE  Reached(m, a)
BY DEF Reached

LEMMA ReachedStays ==
  ASSUME Grows(rows, rows'), Counts(relay, relay'), TypeOK, rows' \in Seq(Row),
         NEW m \in Msgs, NEW a \in Addrs, Reached(m, a)
  PROVE  Reached(m, a)'
<1>0. Len(rows) \in Nat /\ Len(rows') \in Nat
  BY LenProperties DEF TypeOK
<1>1. CASE relay[<<m, a>>] > 0
  <2>1. <<m, a>> \in Msgs \X Addrs
    OBVIOUS
  <2>2. relay[<<m, a>>] \in Nat /\ relay'[<<m, a>>] \in Nat /\ relay[<<m, a>>] <= relay'[<<m, a>>]
    BY <2>1 DEF Counts, TypeOK
  <2>3. relay'[<<m, a>>] > 0
    BY <1>1, <2>2
  <2> QED
    BY <2>3 DEF Reached
<1>2. CASE \E i \in 1..Len(rows) : rows[i].user = Owner[a] /\ rows[i].msg = m /\ ~rows[i].reply
  <2>1. PICK i \in 1..Len(rows) : rows[i].user = Owner[a] /\ rows[i].msg = m /\ ~rows[i].reply
    BY <1>2
  <2>2. i \in 1..Len(rows') /\ rows'[i].user = Owner[a] /\ rows'[i].msg = m /\ ~rows'[i].reply
    BY <1>0, <2>1 DEF Grows
  <2> QED
    BY <2>2 DEF Reached
<1> QED
  BY <1>1, <1>2 DEF Reached

\* A step leaves its handler sound, and who is no longer on its list is reached.
Settles(s) ==
  \E done \in SUBSET Addrs :
    /\ Sound(req[s], req'[s], done)
    /\ req[s].mail.via # "auto" => \A a \in done : ReachedIn(rows', relay', req[s].msg, a)

LEMMA SettlesNow ==
  ASSUME NEW s, Sound(req[s], req'[s], {})
  PROVE  Settles(s)
BY DEF Settles

LEMMA SimpleSettles ==
  ASSUME TypeOK, NEW s \in Slots, HandlerOK(req[s]), RowOK(req[s], rows), Keyed(rows),
         Simple(s), ~InsertRow(s)
  PROVE  Settles(s)
<1> DEFINE h == req[s]
<1>0. h \in Handler /\ relay \in [Msgs \X Addrs -> Nat]
  BY DEF TypeOK
<1>1. CASE ResolveLocal(s)
  BY <1>1, SoundResolveLocal, SettlesNow
<1>2. CASE ResolveOther(s)
  <2>1. PICK a \in h.todo : Owner[a] = NoUser /\ req'[s] = NoAccount(h, a)
    BY <1>2, StepTo DEF ResolveOther
  <2>2. h.pc = "resolve"
    BY <1>2 DEF ResolveOther
  <2>3. Sound(h, req'[s], {})
    BY <1>0, <2>1, <2>2, SoundNoAccount
  <2> QED
    BY <2>3, SettlesNow
<1>3. CASE Routed(s)
  BY <1>3, SoundRouted, SettlesNow
<1>4. CASE Relay(s)
  <2>1. Sound(h, req'[s], h.ext)
    BY <1>4, SoundRelay
  <2>2. h.ext \in SUBSET Addrs /\ h.msg \in Msgs
    BY <1>0 DEF Handler
  <2>3. relay' = Sent(h, h.ext)
    BY <1>4 DEF Relay
  <2>4. h.mail.via # "auto" => \A a \in h.ext : relay'[<<h.msg, a>>] > 0
    BY <1>0, <2>2, <2>3, SentCounts
  <2>5. h.mail.via # "auto" => \A a \in h.ext : ReachedIn(rows', relay', h.msg, a)
    BY <2>4 DEF ReachedIn
  <2> QED
    BY <2>1, <2>2, <2>5 DEF Settles
<1>5. CASE NextJob(s)
  BY <1>5, SoundNextJob, SettlesNow
<1>6. CASE Forward(s)
  <2>1. PICK a \in h.jobs : relay' = Sent(h, {a}) /\ req'[s] = [h EXCEPT !.jobs = @ \ {a}]
    BY <1>6, StepTo DEF Forward
  <2> DEFINE k == req'[s]
  <2>2. /\ k.mail = h.mail /\ k.todo = h.todo /\ k.jobs = h.jobs \ {a} /\ k.bad = h.bad
        /\ k.box = h.box /\ k.ext = h.ext /\ k.pc = "job" /\ k.status = h.status /\ h.pc = "job"
    BY <1>0, <1>6, <2>1 DEF Handler, Forward
  <2> HIDE DEF k
  <2>3. HandlerOK(k)
    BY <2>2 DEF HandlerOK, Ok, Storing, ResolvesFirst
  <2>4. k.pc \notin HasRow
    BY <2>2 DEF HasRow
  <2>5. Promised(k) => Promised(h) /\ Pending(h) \subseteq Pending(k) \cup {a}
    BY <2>2 DEF Promised, Pending, ResolvesFirst
  <2>6. Hope(h) => Hope(k)
    BY <2>2 DEF Hope
  <2>7. Sound(h, k, {a})
    BY <2>3, <2>4, <2>5, <2>6 DEF Sound
  <2>8. {a} \in SUBSET Addrs /\ h.msg \in Msgs
    BY <1>0, <2>1 DEF Handler
  <2>9. h.mail.via # "auto" => relay'[<<h.msg, a>>] > 0
    BY <1>0, <2>1, <2>8, SentCounts
  <2>10. h.mail.via # "auto" => ReachedIn(rows', relay', h.msg, a)
    BY <2>9 DEF ReachedIn
  <2> QED
    BY <2>7, <2>8, <2>10 DEF Settles, k
<1>7. CASE JobsDone(s)
  BY <1>7, SoundJobsDone, SettlesNow
<1>8. CASE Check(s)
  <2>1. h.pc = "check" /\ UNCHANGED <<rows, relay>>
    BY <1>8 DEF Check
  <2>2. CASE MessageIDExists(Target(h), h)
    <3>1. Sound(h, req'[s], Current(h))
      BY <1>0, <1>8, <2>1, <2>2, StepTo, SoundStored DEF Check
    <3>2. Current(h) = {h.at} /\ Target(h) = Owner[h.at] /\ h.at \in Addrs
      BY <1>0, <2>1 DEF Current, HandlerOK, Target, Handler
    <3>3. Reached(h.msg, h.at)
      <4>1. PICK i \in 1..Len(rows) : rows[i].user = Target(h) /\ rows[i].msg = h.msg /\ rows[i].key
        BY <2>2 DEF MessageIDExists
      <4>2. ~rows[i].reply
        BY <4>1 DEF Keyed
      <4> QED
        BY <3>2, <4>1, <4>2, RowReaches
    <3>4. ReachedIn(rows', relay', h.msg, h.at)
      BY <2>1, <3>3 DEF Reached, ReachedIn
    <3> QED
      BY <3>1, <3>2, <3>4 DEF Settles
  <2>3. CASE ~MessageIDExists(Target(h), h)
    <3>1. req'[s] = [h EXCEPT !.pc = "insert"]
      BY <1>8, <2>3, StepTo DEF Check
    <3>2. Sound(h, req'[s], {})
      BY <1>0, <2>1, <3>1, SoundGoes
    <3> QED
      BY <3>2, SettlesNow
  <2> QED
    BY <2>2, <2>3
<1>10. CASE SetPath(s)
  <2>1. Sound(h, req'[s], {})
    BY <1>0, <1>10, StepTo, SoundGoes DEF SetPath
  <2> QED
    BY <2>1, SettlesNow
<1>11. CASE InsertAttachment(s)
  <2>1. Sound(h, req'[s], {})
    BY <1>0, <1>11, StepTo, SoundGoes DEF InsertAttachment
  <2> QED
    BY <2>1, SettlesNow
<1>12. CASE AddChange(s)
  <2>1. Sound(h, req'[s], {})
    BY <1>0, <1>12, StepTo, SoundAfterChange DEF AddChange
  <2> QED
    BY <2>1, SettlesNow
<1>13. CASE NoNotice(s)
  <2>1. Sound(h, req'[s], {})
    BY <1>0, <1>13, StepTo, SoundGoes DEF NoNotice
  <2> QED
    BY <2>1, SettlesNow
<1>14. CASE Publish(s)
  <2>1. h.pc = "publish" /\ req'[s] = StoredJob(h)
    BY <1>14, StepTo DEF Publish
  <2>2. Current(h) = {}
    BY <2>1 DEF Current
  <2>3. Sound(h, req'[s], {})
    BY <1>0, <2>1, <2>2, SoundStored
  <2> QED
    BY <2>3, SettlesNow
<1>15. CASE ResolveFails(s)
  BY <1>15, SoundResolveFails, SettlesNow
<1>16. CASE RelayFails(s)
  <2>1. h.pc = "relay" /\ req'[s] = Answered(h, "failed")
    BY <1>16, StepTo DEF RelayFails
  <2>2. Sound(h, req'[s], {})
    BY <1>0, <2>1, SoundFailed DEF HandlerOK
  <2> QED
    BY <2>2, SettlesNow
<1>17. CASE ForwardFails(s)
  <2>1. PICK a \in h.jobs : req'[s] = [h EXCEPT !.jobs = @ \ {a}, !.bad = @ \cup {"failed"}]
    BY <1>17, StepTo DEF ForwardFails
  <2>0. h.mail.via = "inbound"
    BY <1>17 DEF ForwardFails, HandlerOK
  <2> DEFINE k == req'[s]
  <2>2. /\ k.mail = h.mail /\ k.todo = h.todo /\ k.jobs = h.jobs \ {a}
        /\ k.bad = h.bad \cup {"failed"}
        /\ k.box = h.box /\ k.ext = h.ext /\ k.pc = "job" /\ k.status = h.status /\ h.pc = "job"
    BY <1>0, <1>17, <2>1 DEF Handler, ForwardFails
  <2> HIDE DEF k
  <2>3. HandlerOK(k)
    BY <2>0, <2>2 DEF HandlerOK, Ok, Storing, ResolvesFirst
  <2>4. k.pc \notin HasRow /\ ~Promised(k)
    BY <2>2 DEF HasRow, Promised
  <2>6. Hope(h) => Hope(k)
    BY <2>2 DEF Hope
  <2>7. Sound(h, k, {})
    BY <2>3, <2>4, <2>6 DEF Sound
  <2> QED
    BY <2>7, SettlesNow DEF k
<1>18. CASE CheckFails(s)
  <2>1. h.pc = "check"
    BY <1>18 DEF CheckFails
  <2>2. Sound(h, req'[s], {})
    <3>1. CASE h.mail.via = "inbound"
      BY <1>0, <1>18, <2>1, <3>1, StepTo, SoundStoreFailed DEF CheckFails
    <3>2. CASE h.mail.via # "inbound"
      <4>1. req'[s] = [h EXCEPT !.pc = "insert"]
        BY <1>18, <3>2, StepTo DEF CheckFails
      <4> QED
        BY <1>0, <2>1, <4>1, SoundGoes
    <3> QED
      BY <3>1, <3>2
  <2> QED
    BY <2>2, SettlesNow
<1>19. CASE InsertFails(s)
  <2>1. Sound(h, req'[s], {})
    BY <1>0, <1>19, StepTo, SoundStoreFailed DEF InsertFails
  <2> QED
    BY <2>1, SettlesNow
<1>20. CASE RecordFails(s)
  <2>1. \/ h.pc = "attach" /\ req'[s] = [h EXCEPT !.pc = "change"]
        \/ h.pc = "change" /\ req'[s] = AfterChange(h)
        \/ h.pc \in {"attach", "change"} /\ req'[s] = StoreFailed(h)
    <3>1. CASE h.mail.via = "inbound" /\ h.pc = "attach"
      BY <1>20, <3>1, StepTo DEF RecordFails
    <3>2. CASE h.mail.via = "inbound" /\ h.pc = "change"
      BY <1>20, <3>2, StepTo DEF RecordFails
    <3>3. CASE h.mail.via # "inbound"
      BY <1>20, <3>3, StepTo DEF RecordFails
    <3> QED
      BY <1>20, <3>1, <3>2, <3>3 DEF RecordFails
  <2>2. Sound(h, req'[s], {})
    BY <1>0, <2>1, SoundGoes, SoundAfterChange, SoundStoreFailed
  <2> QED
    BY <2>2, SettlesNow
<1> QED
  BY <1>1, <1>2, <1>3, <1>4, <1>5, <1>6, <1>7, <1>8, <1>10, <1>11, <1>12, <1>13, <1>14,
     <1>15, <1>16, <1>17, <1>18, <1>19, <1>20 DEF Simple, Failing


-----------------------------------------------------------------------------
(* Base is inductive. *)

LEMMA SlotParts ==
  ASSUME NEW s \in Slots
  PROVE  /\ s[1] \in Reqs /\ s[2] \in {1, 2, 3} /\ s = <<s[1], s[2]>>
         /\ \A r \in Reqs, l \in {1, 2, 3} : <<r, l>> \in Slots
BY DEF Slots, Levels

\* A row that a handler knows stays that row.
LEMMA RowStays ==
  ASSUME NEW h, NEW rs \in Seq(Row), NEW rs2 \in Seq(Row), RowOK(h, rs), Grows(rs, rs2)
  PROVE  RowOK(h, rs2)
<1>1. Len(rs) \in Nat /\ Len(rs2) \in Nat
  BY LenProperties
<1> QED
  BY <1>1 DEF RowOK, Grows

LEMMA KeyedStays ==
  ASSUME NEW h \in Handler, HandlerOK(h), NEW rs \in Seq(Row), NEW rs2 \in Seq(Row), Keyed(rs), Writes(h, rs, rs2)
  PROVE  Keyed(rs2)
<1> SUFFICES ASSUME NEW i \in 1..Len(rs2), rs2[i].key PROVE ~rs2[i].reply
  BY DEF Keyed
<1>0. Len(rs) \in Nat /\ Len(rs2) \in Nat
  BY LenProperties
<1>1. CASE i > Len(rs)
  <2>1. rs2[i] = NewRow(h)
    BY <1>1 DEF Writes
  <2>2. h.mail.key /\ h.mail.via # "auto"
    BY <2>1, NewRowFields DEF HandlerOK
  <2>3. NewRow(h).reply <=> h.mail.via = "auto"
    BY NewRowFields
  <2> QED
    BY <2>1, <2>2, <2>3
<1>2. CASE i <= Len(rs)
  <2>1. i \in 1..Len(rs)
    BY <1>0, <1>2
  <2> QED
    BY <2>1 DEF Writes, Grows, Keyed
<1> QED
  BY <1>0, <1>1, <1>2

\* The handler and the row after InsertRow.
LEMMA InsertedRow ==
  ASSUME TypeOK, NEW s \in Slots, HandlerOK(req[s]), InsertRow(s)
  PROVE  LET h == req[s] k == req'[s] IN
         /\ k = [h EXCEPT !.pc = "source", !.row = Len(rows) + 1]
         /\ k.mail = h.mail /\ k.msg = h.msg /\ k.todo = h.todo /\ k.jobs = h.jobs
         /\ k.bad = h.bad /\ k.box = h.box /\ k.ext = h.ext /\ k.at = h.at /\ k.pc = "source"
         /\ k.status = h.status /\ k.row = Len(rows) + 1 /\ h.pc = "insert"
         /\ HandlerOK(k) /\ RowOK(k, rows')
         /\ Len(rows') = Len(rows) + 1 /\ rows'[Len(rows) + 1] = NewRow(h)
         /\ Target(h) \in Users
<1> DEFINE h == req[s]
           k == req'[s]
<1>0. h \in Handler /\ rows \in Seq(Row) /\ Len(rows) \in Nat /\ h.pc = "insert"
  BY LenProperties DEF TypeOK, InsertRow
<1>1. k = [h EXCEPT !.pc = "source", !.row = Len(rows) + 1]
  BY StepTo DEF InsertRow
<1>2. /\ k.mail = h.mail /\ k.msg = h.msg /\ k.todo = h.todo /\ k.jobs = h.jobs
      /\ k.bad = h.bad /\ k.box = h.box /\ k.ext = h.ext /\ k.at = h.at /\ k.pc = "source"
      /\ k.status = h.status /\ k.row = Len(rows) + 1
  BY <1>0, <1>1 DEF Handler
<1>3. Target(h) \in Users
  BY <1>0 DEF HandlerOK, Storing
<1>4. rows' = Append(rows, NewRow(h)) /\ NewRow(h) \in Row
  BY <1>0, <1>3, NewRowShape DEF InsertRow
<1>5. Len(rows') = Len(rows) + 1 /\ rows'[Len(rows) + 1] = NewRow(h)
  BY <1>0, <1>4, AppendProperties
<1> HIDE DEF k
<1>6. HandlerOK(k)
  BY <1>0, <1>2 DEF HandlerOK, Ok, Storing, ResolvesFirst, Target
<1>7. k.row \in 1..Len(rows')
  BY <1>0, <1>2, <1>5
<1>8. RowOK(k, rows')
  BY <1>2, <1>5, <1>7, NewRowFields DEF RowOK
<1> QED
  BY <1>0, <1>1, <1>2, <1>3, <1>5, <1>6, <1>8 DEF k

LEMMA SimpleCounters ==
  ASSUME TypeOK, NEW s \in Slots, Simple(s)
  PROVE  /\ races' \in [Msgs -> Nat] /\ faults' \in Nat
         /\ \A m \in Msgs : races'[m] \in Nat /\ races[m] \in Nat /\ races[m] <= races'[m]
         /\ faults' = faults \/ (Failing(s) /\ faults' = faults + 1)
<1>1. faults \in Nat /\ races \in [Msgs -> Nat] /\ req[s].msg \in Msgs
  BY DEF TypeOK, Handler
<1>2. races' = races \/ races' = [races EXCEPT ![req[s].msg] = @ + 1]
  BY <1>1 DEF Simple, Failing, ResolveLocal, ResolveOther, Routed, NextJob, JobsDone, Check, NoNotice,
         ResolveFails, CheckFails, InsertFails, RecordFails, Relay, RelayFails, Forward,
         ForwardFails, InsertRow, SetPath, InsertAttachment, AddChange, Publish
<1>3. faults' = faults \/ (Failing(s) /\ faults' = faults + 1)
  BY DEF Simple, Failing, ResolveLocal, ResolveOther, Routed, NextJob, JobsDone, Check, NoNotice,
         ResolveFails, CheckFails, InsertFails, RecordFails, Relay, RelayFails, Forward,
         ForwardFails, InsertRow, SetPath, InsertAttachment, AddChange, Publish, Fault
<1>4. races[req[s].msg] + 1 \in Nat
  BY <1>1
<1>5. races' \in [Msgs -> Nat] /\ \A m \in Msgs : races[m] <= races'[m]
  BY <1>1, <1>2, <1>4
<1> QED
  BY <1>1, <1>3, <1>5

\* What every step of a single handler leaves for the invariants to use.
LEMMA SimpleStep ==
  ASSUME Base, NEW s \in Slots, Simple(s)
  PROVE  /\ Moved(s) /\ HandlerOK(req'[s]) /\ RowOK(req'[s], rows')
         /\ Writes(req[s], rows, rows') /\ Counts(relay, relay')
         /\ s[2] \in {1, 2}
<1>0. TypeOK /\ HandlerOK(req[s]) /\ RowOK(req[s], rows) /\ Keyed(rows) /\ Nesting
  BY DEF Base
<1>1. Moved(s)
  BY <1>0, SimpleMoves
<1>2. Writes(req[s], rows, rows') /\ Counts(relay, relay')
  BY <1>0, SimpleWrites
<1>3. HandlerOK(req'[s]) /\ RowOK(req'[s], rows')
  <2>1. CASE InsertRow(s)
    BY <1>0, <2>1, InsertedRow
  <2>2. CASE ~InsertRow(s)
    <3>1. Settles(s)
      BY <1>0, <2>2, SimpleSettles
    <3>2. /\ HandlerOK(req'[s])
          /\ req'[s].pc \in HasRow =>
               req[s].pc \in HasRow /\ req'[s].row = req[s].row /\ req'[s].box = req[s].box
      BY <3>1 DEF Settles, Sound
    <3>3. RowOK(req'[s], rows)
      BY <1>0, <1>1, <3>2 DEF RowOK, Moved, Keeps
    <3>4. rows \in Seq(Row) /\ rows' \in Seq(Row) /\ Grows(rows, rows')
      BY <1>0, <1>2 DEF TypeOK, Writes
    <3> QED
      BY <3>2, <3>3, <3>4, RowStays
  <2> QED
    BY <2>1, <2>2
<1>4. s[2] \in {1, 2}
  <2>1. req[s].pc # "idle"
    BY <1>1 DEF Moved, Keeps
  <2>2. s[1] \in Reqs /\ s[2] \in {1, 2, 3} /\ s = <<s[1], s[2]>>
    BY SlotParts
  <2>3. req[<<s[1], 3>>].pc = "idle"
    BY <1>0, <2>2 DEF Nesting
  <2> QED
    BY <2>1, <2>2, <2>3
<1> QED
  BY <1>1, <1>2, <1>3, <1>4


\* The hook of a client's message starts a notice; the hook of a notice does not.
LEMMA OofReplyStep ==
  ASSUME Base, NEW s \in Slots, OofReply(s)
  PROVE  \E r \in Reqs, F \in Handler :
           /\ s = <<r, 1>> /\ req[s].pc = "hook"
           /\ req' = [req EXCEPT ![<<r, 1>>] = [req[<<r, 1>>] EXCEPT !.pc = "wait"], ![<<r, 2>>] = F]
           /\ HandlerOK(F) /\ F.pc \notin HasRow \cup {"idle"} /\ F.msg = req[s].msg
           /\ F.mail.via = "auto" /\ F.mail.auto /\ ~F.mail.key
           /\ \E p \in Users \X Addrs :
                /\ p \notin oofLast /\ oofLast' = oofLast \cup {p}
                /\ notices' = [notices EXCEPT ![p] = @ + 1]
<1> DEFINE h == req[s]
           u == Target(h)
           v == Notice(u, h.mail.from)
<1>0. TypeOK /\ Nesting /\ HandlerOK(h) /\ h \in Handler
  BY DEF Base, TypeOK
<1>1. s[1] \in Reqs /\ s[2] \in {1, 2, 3} /\ s = <<s[1], s[2]>>
  BY SlotParts
<1>2. h.pc = "hook" /\ ~h.mail.auto /\ s[2] < 3
  BY DEF OofReply, Answers
<1>3. s[2] = 1
  <2>1. s[2] # 2
    <3> SUFFICES ASSUME s[2] = 2 PROVE FALSE
      OBVIOUS
    <3>1. s = <<s[1], 2>>
      BY <1>1
    <3>2. h.pc # "idle" => h.mail.auto
      BY <1>0, <1>1, <3>1 DEF Nesting
    <3> QED
      BY <1>2, <3>2
  <2> QED
    BY <1>1, <1>2, <2>1
<1>4. u \in Users /\ h.mail.from \in Addrs /\ h.msg \in Msgs
  BY <1>0, <1>2 DEF HandlerOK, Storing, Handler, Mail
<1>5. v \in Mail /\ v.via = "auto" /\ v.auto /\ ~v.key
  BY <1>4, DeliveryAssumption DEF Notice, Mail, Paths
<1> HIDE DEF u, v
<1>6. /\ Fresh(h.msg, v) \in Handler /\ HandlerOK(Fresh(h.msg, v))
      /\ Fresh(h.msg, v).pc \notin HasRow \cup {"idle"}
      /\ Fresh(h.msg, v).msg = h.msg /\ Fresh(h.msg, v).mail = v
  BY <1>4, <1>5, FreshShape
<1>7. s = <<s[1], 1>> /\ Inner(s) = <<s[1], 2>>
  BY <1>1, <1>3 DEF Inner
<1>8. req' = [req EXCEPT ![s].pc = "wait", ![Inner(s)] = Fresh(h.msg, v)]
  BY DEF OofReply, u, v
<1>9. req' = [req EXCEPT ![<<s[1], 1>>] = [req[<<s[1], 1>>] EXCEPT !.pc = "wait"],
                         ![<<s[1], 2>>] = Fresh(h.msg, v)]
  BY <1>7, <1>8, Zenon
<1>10. /\ <<u, h.mail.from>> \in Users \X Addrs /\ <<u, h.mail.from>> \notin oofLast
       /\ oofLast' = oofLast \cup {<<u, h.mail.from>>}
       /\ notices' = [notices EXCEPT ![<<u, h.mail.from>>] = @ + 1]
  BY <1>4 DEF OofReply, Answers, u
<1> QED
  BY <1>1, <1>2, <1>5, <1>6, <1>7, <1>9, <1>10

LEMMA OofReturnsStep ==
  ASSUME Base, NEW s \in Slots, s[2] < 3, OofReturns(s)
  PROVE  \E r \in Reqs :
           /\ s = <<r, 1>> /\ req[s].pc = "wait"
           /\ req' = [req EXCEPT ![<<r, 1>>] = [req[<<r, 1>>] EXCEPT !.pc = "publish"],
                                 ![<<r, 2>>] = NoReq]
<1>0. TypeOK /\ Nesting
  BY DEF Base
<1>1. s[1] \in Reqs /\ s[2] \in {1, 2, 3} /\ s = <<s[1], s[2]>>
  BY SlotParts
<1>2. req[Inner(s)].pc = "answer" /\ req[s].pc = "wait"
  BY DEF OofReturns
<1>3. s[2] # 2
  <2> SUFFICES ASSUME s[2] = 2 PROVE FALSE
    OBVIOUS
  <2>1. Inner(s) = <<s[1], 3>>
    BY DEF Inner
  <2> QED
    BY <1>0, <1>1, <1>2, <2>1 DEF Nesting
<1>4. s = <<s[1], 1>> /\ Inner(s) = <<s[1], 2>>
  BY <1>1, <1>3 DEF Inner
<1>5. req' = [req EXCEPT ![<<s[1], 1>>] = [req[<<s[1], 1>>] EXCEPT !.pc = "publish"],
                         ![<<s[1], 2>>] = NoReq]
  BY <1>4, Zenon DEF OofReturns
<1> QED
  BY <1>1, <1>2, <1>4, <1>5

\* An empty slot has no row.
LEMMA IdleRow ==
  ASSUME NEW h, NEW rs, h.pc \notin HasRow
  PROVE  RowOK(h, rs)
BY DEF RowOK

LEMMA BaseSimple ==
  ASSUME Base, NEW s \in Slots, Simple(s)
  PROVE  Base'
<1> DEFINE h == req[s]
           k == req'[s]
<1>0. TypeOK /\ Nesting /\ Keyed(rows) /\ Counted /\ h \in Handler /\ HandlerOK(h)
      /\ rows \in Seq(Row)
  BY DEF Base, TypeOK
<1>1. /\ Moved(s) /\ HandlerOK(k) /\ RowOK(k, rows') /\ s[2] \in {1, 2}
      /\ Writes(h, rows, rows') /\ Counts(relay, relay')
  BY SimpleStep
<1>2. /\ req' = [req EXCEPT ![s] = k] /\ k \in Handler
      /\ h.pc \notin {"idle", "answer", "wait"} /\ k.pc \notin {"idle", "wait"}
      /\ k.msg = h.msg /\ k.mail = h.mail /\ k.deaf = h.deaf
      /\ UNCHANGED <<mail, client, oofLast, notices, days, restarts>>
  BY <1>1 DEF Moved, Keeps
<1>3. rows' \in Seq(Row) /\ Grows(rows, rows') /\ relay' \in [Msgs \X Addrs -> Nat]
  BY <1>1 DEF Writes, Counts
<1>4. TypeOK'
  <2>1. req' \in [Slots -> Handler]
    BY <1>0, <1>2 DEF TypeOK
  <2> QED
    BY <1>0, <1>2, <1>3, <2>1, SimpleCounters DEF TypeOK
<1>5. \A t \in Slots : t # s => req'[t] = req[t]
  BY <1>0, <1>2 DEF TypeOK
<1> HIDE DEF h, k
<1>6. ASSUME NEW t \in Slots PROVE HandlerOK(req'[t]) /\ RowOK(req'[t], rows')
  <2>1. CASE t = s
    BY <1>1, <2>1 DEF k
  <2>2. CASE t # s
    <3>1. HandlerOK(req[t]) /\ RowOK(req[t], rows)
      BY DEF Base
    <3>2. RowOK(req[t], rows')
      BY <1>0, <1>3, <3>1, RowStays
    <3> QED
      BY <1>5, <2>2, <3>1, <3>2
  <2> QED
    BY <2>1, <2>2
<1>7. Nesting'
  <2> SUFFICES ASSUME NEW r \in Reqs
               PROVE  /\ req'[<<r, 2>>].pc # "idle" =>
                           /\ req'[<<r, 1>>].pc = "wait"
                           /\ req'[<<r, 1>>].msg = req'[<<r, 2>>].msg
                           /\ LET v == req'[<<r, 2>>].mail IN v.via = "auto" /\ v.auto /\ ~v.key
                      /\ req'[<<r, 3>>].pc = "idle"
    BY DEF Nesting
  <2>1. <<r, 1>> \in Slots /\ <<r, 2>> \in Slots /\ <<r, 3>> \in Slots
    BY SlotParts
  <2>2. /\ req[<<r, 2>>].pc # "idle" =>
             /\ req[<<r, 1>>].pc = "wait" /\ req[<<r, 1>>].msg = req[<<r, 2>>].msg
             /\ LET v == req[<<r, 2>>].mail IN v.via = "auto" /\ v.auto /\ ~v.key
        /\ req[<<r, 3>>].pc = "idle"
    BY <1>0 DEF Nesting
  <2>3. s # <<r, 3>>
    BY <1>1
  <2>4. CASE s = <<r, 1>>
    BY <1>2, <1>5, <2>1, <2>2, <2>3, <2>4 DEF h, k
  <2>5. CASE s = <<r, 2>>
    BY <1>2, <1>5, <2>1, <2>2, <2>3, <2>5 DEF h, k
  <2>6. CASE s # <<r, 1>> /\ s # <<r, 2>>
    BY <1>5, <2>1, <2>2, <2>3, <2>6
  <2> QED
    BY <2>4, <2>5, <2>6
<1>8. Keyed(rows')
  BY <1>0, <1>1, <1>3, KeyedStays
<1>9. Counted'
  BY <1>0, <1>2 DEF Counted
<1> QED
  BY <1>4, <1>6, <1>7, <1>8, <1>9 DEF Base


\* Only a client's handler changes, and its notice, if there is one, goes on.
LEMMA BaseSlot ==
  ASSUME Base, NEW r \in Reqs, NEW K \in Handler,
         req' = [req EXCEPT ![<<r, 1>>] = K], HandlerOK(K), RowOK(K, rows),
         req[<<r, 2>>].pc # "idle" => K.pc = "wait" /\ K.msg = req[<<r, 1>>].msg,
         UNCHANGED <<mail, rows, relay, oofLast, notices, days, restarts>>,
         client' \in [Msgs -> {"wants", "waiting", "ok", "rejected", "failed"}],
         races' \in [Msgs -> Nat], faults' \in Nat
  PROVE  Base'
<1>0. TypeOK /\ Nesting /\ Keyed(rows) /\ Counted
  BY DEF Base
<1>1. /\ <<r, 1>> \in Slots /\ req' \in [Slots -> Handler] /\ req'[<<r, 1>>] = K
      /\ \A t \in Slots : t # <<r, 1>> => req'[t] = req[t]
  BY <1>0, SlotParts DEF TypeOK, Slots, Levels
<1>2. TypeOK'
  BY <1>0, <1>1 DEF TypeOK
<1>3. ASSUME NEW t \in Slots PROVE HandlerOK(req'[t]) /\ RowOK(req'[t], rows')
  <2>1. HandlerOK(req[t]) /\ RowOK(req[t], rows) /\ rows' = rows
    BY DEF Base
  <2>2. CASE t = <<r, 1>>
    BY <1>1, <2>1, <2>2
  <2>3. CASE t # <<r, 1>>
    BY <1>1, <2>1, <2>3
  <2> QED
    BY <2>2, <2>3
<1>4. Nesting'
  <2> SUFFICES ASSUME NEW q \in Reqs
               PROVE  /\ req'[<<q, 2>>].pc # "idle" =>
                           /\ req'[<<q, 1>>].pc = "wait"
                           /\ req'[<<q, 1>>].msg = req'[<<q, 2>>].msg
                           /\ LET v == req'[<<q, 2>>].mail IN v.via = "auto" /\ v.auto /\ ~v.key
                      /\ req'[<<q, 3>>].pc = "idle"
    BY DEF Nesting
  <2>1. <<q, 1>> \in Slots /\ <<q, 2>> \in Slots /\ <<q, 3>> \in Slots
    BY DEF Slots, Levels
  <2>2. req'[<<q, 2>>] = req[<<q, 2>>] /\ req'[<<q, 3>>] = req[<<q, 3>>]
    BY <1>1, <2>1
  <2>3. q # r => req'[<<q, 1>>] = req[<<q, 1>>]
    BY <1>1, <2>1
  <2> QED
    BY <1>0, <1>1, <2>2, <2>3 DEF Nesting
<1> QED
  BY <1>0, <1>2, <1>3, <1>4 DEF Base, Counted

\* A notice begins or ends.
LEMMA BasePair ==
  ASSUME Base, NEW r \in Reqs, NEW F \in Handler, NEW p,
         req' = [req EXCEPT ![<<r, 1>>] = [req[<<r, 1>>] EXCEPT !.pc = p], ![<<r, 2>>] = F],
         \/ req[<<r, 1>>].pc = "hook" /\ p = "wait"
         \/ req[<<r, 1>>].pc = "wait" /\ p = "publish",
         HandlerOK(F), F.pc \notin HasRow,
         F.pc # "idle" => /\ p = "wait" /\ F.msg = req[<<r, 1>>].msg
                          /\ F.mail.via = "auto" /\ F.mail.auto /\ ~F.mail.key,
         UNCHANGED <<mail, client, rows, relay, races, days, restarts, faults>>,
         oofLast' \subseteq Users \X Addrs, notices' \in [Users \X Addrs -> Nat], Counted'
  PROVE  Base'
<1> DEFINE h == req[<<r, 1>>]
           K == [h EXCEPT !.pc = p]
<1>0. TypeOK /\ Nesting /\ Keyed(rows) /\ req \in [Slots -> Handler]
  BY DEF Base, TypeOK
<1>1. <<r, 1>> \in Slots /\ h \in Handler
  BY <1>0 DEF Slots, Levels
<1>2. HandlerOK(h) /\ RowOK(h, rows)
  BY <1>1 DEF Base
<1>3. K \in Handler /\ K.pc = p /\ K.msg = h.msg /\ K.mail = h.mail /\ K.row = h.row /\ K.box = h.box
  BY <1>1 DEF Handler
<1>4. Sound(h, K, {})
  BY <1>1, <1>2, SoundGoes
<1>5. HandlerOK(K) /\ RowOK(K, rows)
  BY <1>2, <1>3, <1>4 DEF Sound, RowOK
<1> HIDE DEF K
<1>6. /\ req' \in [Slots -> Handler] /\ req'[<<r, 1>>] = K /\ req'[<<r, 2>>] = F
      /\ \A t \in Slots : t # <<r, 1>> /\ t # <<r, 2>> => req'[t] = req[t]
  <2>1. req' = [req EXCEPT ![<<r, 1>>] = K, ![<<r, 2>>] = F]
    BY DEF K
  <2>2. <<r, 1>> \in Slots /\ <<r, 2>> \in Slots /\ <<r, 1>> # <<r, 2>>
    BY DEF Slots, Levels
  <2> QED
    BY <1>0, <1>3, <2>1, <2>2
<1>7. TypeOK'
  BY <1>0, <1>6 DEF TypeOK
<1>8. ASSUME NEW t \in Slots PROVE HandlerOK(req'[t]) /\ RowOK(req'[t], rows')
  <2>1. HandlerOK(req[t]) /\ RowOK(req[t], rows) /\ rows' = rows
    BY DEF Base
  <2>2. CASE t = <<r, 1>>
    BY <1>5, <1>6, <2>1, <2>2
  <2>3. CASE t = <<r, 2>>
    BY <1>6, <2>3, IdleRow
  <2>4. CASE t # <<r, 1>> /\ t # <<r, 2>>
    BY <1>6, <2>1, <2>4
  <2> QED
    BY <2>2, <2>3, <2>4
<1>9. Nesting'
  <2> SUFFICES ASSUME NEW q \in Reqs
               PROVE  /\ req'[<<q, 2>>].pc # "idle" =>
                           /\ req'[<<q, 1>>].pc = "wait"
                           /\ req'[<<q, 1>>].msg = req'[<<q, 2>>].msg
                           /\ LET v == req'[<<q, 2>>].mail IN v.via = "auto" /\ v.auto /\ ~v.key
                      /\ req'[<<q, 3>>].pc = "idle"
    BY DEF Nesting
  <2>1. <<q, 1>> \in Slots /\ <<q, 2>> \in Slots /\ <<q, 3>> \in Slots
    BY DEF Slots, Levels
  <2>2. req'[<<q, 3>>] = req[<<q, 3>>]
    BY <1>6, <2>1
  <2>3. q # r => req'[<<q, 1>>] = req[<<q, 1>>] /\ req'[<<q, 2>>] = req[<<q, 2>>]
    BY <1>6, <2>1
  <2>4. CASE q = r
    <3>1. req[<<r, 3>>].pc = "idle"
      BY <1>0 DEF Nesting
    <3> QED
      BY <1>3, <1>6, <2>2, <2>4, <3>1
  <2>5. CASE q # r
    BY <1>0, <2>2, <2>3, <2>5 DEF Nesting
  <2> QED
    BY <2>4, <2>5
<1> QED
  BY <1>0, <1>7, <1>8, <1>9 DEF Base

LEMMA BaseOofReply ==
  ASSUME Base, NEW s \in Slots, OofReply(s)
  PROVE  Base'
<1>0. TypeOK /\ Counted
  BY DEF Base
<1>1. PICK r \in Reqs, F \in Handler :
        /\ s = <<r, 1>> /\ req[s].pc = "hook"
        /\ req' = [req EXCEPT ![<<r, 1>>] = [req[<<r, 1>>] EXCEPT !.pc = "wait"], ![<<r, 2>>] = F]
        /\ HandlerOK(F) /\ F.pc \notin HasRow \cup {"idle"} /\ F.msg = req[s].msg
        /\ F.mail.via = "auto" /\ F.mail.auto /\ ~F.mail.key
        /\ \E p \in Users \X Addrs :
             /\ p \notin oofLast /\ oofLast' = oofLast \cup {p}
             /\ notices' = [notices EXCEPT ![p] = @ + 1]
  BY OofReplyStep
<1>2. PICK p \in Users \X Addrs :
        /\ p \notin oofLast /\ oofLast' = oofLast \cup {p}
        /\ notices' = [notices EXCEPT ![p] = @ + 1]
  BY <1>1
<1>3. UNCHANGED <<mail, client, rows, relay, races, days, restarts, faults>>
  BY DEF OofReply
<1>4. /\ \A x \in Users \X Addrs : notices[x] \in Nat
      /\ days \in Nat /\ restarts \in Nat /\ oofLast \subseteq Users \X Addrs
  BY <1>0 DEF TypeOK
<1>5. notices[p] + 1 \in Nat
  BY <1>4
<1>6. oofLast' \subseteq Users \X Addrs /\ notices' \in [Users \X Addrs -> Nat]
  BY <1>0, <1>2, <1>4, <1>5 DEF TypeOK
<1>7. Counted'
  <2> SUFFICES ASSUME NEW x \in Users \X Addrs
               PROVE  notices'[x] <= days' + restarts' + (IF x \in oofLast' THEN 1 ELSE 0)
    BY DEF Counted
  <2>1. notices[x] <= days + restarts + (IF x \in oofLast THEN 1 ELSE 0)
    BY <1>0 DEF Counted
  <2>2. CASE x = p
    <3>1. notices'[x] = notices[x] + 1 /\ x \in oofLast' /\ x \notin oofLast
      BY <1>0, <1>2, <2>2 DEF TypeOK
    <3> QED
      BY <1>3, <1>4, <2>1, <3>1
  <2>3. CASE x # p
    <3>1. notices'[x] = notices[x] /\ (x \in oofLast' <=> x \in oofLast)
      BY <1>0, <1>2, <2>3 DEF TypeOK
    <3> QED
      BY <1>3, <1>4, <2>1, <3>1
  <2> QED
    BY <2>2, <2>3
<1> QED
  BY <1>1, <1>3, <1>6, <1>7, BasePair

LEMMA BaseOofReturns ==
  ASSUME Base, NEW s \in Slots, s[2] < 3, OofReturns(s)
  PROVE  Base'
<1>0. TypeOK /\ Counted
  BY DEF Base
<1>1. PICK r \in Reqs :
        /\ s = <<r, 1>> /\ req[s].pc = "wait"
        /\ req' = [req EXCEPT ![<<r, 1>>] = [req[<<r, 1>>] EXCEPT !.pc = "publish"],
                              ![<<r, 2>>] = NoReq]
  BY OofReturnsStep
<1>2. UNCHANGED <<mail, client, rows, relay, oofLast, notices, races, days, restarts, faults>>
  BY DEF OofReturns
<1>3. NoReq \in Handler /\ HandlerOK(NoReq) /\ NoReq.pc = "idle" /\ NoReq.pc \notin HasRow
  BY NoReqShape DEF HasRow
<1>4. oofLast' \subseteq Users \X Addrs /\ notices' \in [Users \X Addrs -> Nat]
  BY <1>0, <1>2 DEF TypeOK
<1>5. Counted'
  BY <1>0, <1>2 DEF Counted
<1> QED
  BY <1>1, <1>2, <1>3, <1>4, <1>5, BasePair


\* The rest: clients, time and crashes.
LEMMA BaseStart ==
  ASSUME Base, NEW r \in Reqs, NEW m \in Msgs, Start(r, m)
  PROVE  Base'
<1>0. TypeOK /\ Nesting
  BY DEF Base
<1>1. /\ mail[m] \in Mail /\ mail[m].via # "auto"
      /\ mail[m].via # "inbound" => Author(mail[m]) \in Users
  BY <1>0, DeliveryAssumption DEF TypeOK, Author
<1> DEFINE K == Fresh(m, mail[m])
<1>2. K \in Handler /\ HandlerOK(K) /\ K.pc \notin HasRow
  BY <1>1, FreshShape
<1>3. RowOK(K, rows)
  BY <1>2, IdleRow
<1> HIDE DEF K
<1>4. req' = [req EXCEPT ![<<r, 1>>] = K]
  BY DEF Start, Step, K
<1>5. req[<<r, 2>>].pc = "idle"
  BY <1>0 DEF Start, Nesting
<1>6. /\ UNCHANGED <<mail, rows, relay, oofLast, notices, races, days, restarts, faults>>
      /\ client' = [client EXCEPT ![m] = "waiting"]
  BY DEF Start
<1>7. /\ client' \in [Msgs -> {"wants", "waiting", "ok", "rejected", "failed"}]
      /\ races' \in [Msgs -> Nat] /\ faults' \in Nat
  BY <1>0, <1>6 DEF TypeOK
<1> QED
  BY <1>2, <1>3, <1>4, <1>5, <1>6, <1>7, BaseSlot

LEMMA BaseAnswer ==
  ASSUME Base, NEW r \in Reqs, Receive(r) \/ LoseAnswer(r)
  PROVE  Base'
<1> DEFINE h == req[<<r, 1>>]
<1>0. TypeOK /\ Nesting
  BY DEF Base
<1>1. h \in Handler /\ h.pc = "answer"
  BY <1>0 DEF TypeOK, Slots, Levels, Receive, LoseAnswer
<1>2. NoReq \in Handler /\ HandlerOK(NoReq) /\ NoReq.pc = "idle" /\ NoReq.pc \notin HasRow
  BY NoReqShape DEF HasRow
<1>3. RowOK(NoReq, rows)
  BY <1>2, IdleRow
<1>4. /\ req' = [req EXCEPT ![<<r, 1>>] = NoReq]
      /\ UNCHANGED <<mail, rows, relay, oofLast, notices, races, days, restarts>>
  BY DEF Receive, LoseAnswer, Step
<1>5. client' \in [Msgs -> {"wants", "waiting", "ok", "rejected", "failed"}]
  <2>1. h.msg \in Msgs /\ h.status \in {"ok", "rejected", "failed"}
    BY <1>1 DEF Handler
  <2>2. client' = client \/ client' = [client EXCEPT ![h.msg] = h.status]
                         \/ client' = [client EXCEPT ![h.msg] = "failed"]
    BY DEF Receive, LoseAnswer
  <2> QED
    BY <1>0, <2>1, <2>2 DEF TypeOK
<1>6. races' \in [Msgs -> Nat] /\ faults' \in Nat
  BY <1>0, <1>4 DEF TypeOK, Receive, LoseAnswer, Fault
<1>7. req[<<r, 2>>].pc = "idle"
  BY <1>0, <1>1 DEF Nesting
<1> QED
  BY <1>2, <1>3, <1>4, <1>5, <1>6, <1>7, BaseSlot

LEMMA BaseGiveUp ==
  ASSUME Base, NEW r \in Reqs, GiveUp(r)
  PROVE  Base'
<1> DEFINE h == req[<<r, 1>>]
           K == [h EXCEPT !.deaf = TRUE]
<1>0. TypeOK /\ Nesting /\ <<r, 1>> \in Slots
  BY DEF Base, Slots, Levels
<1>1. h \in Handler /\ HandlerOK(h) /\ RowOK(h, rows)
  BY <1>0 DEF TypeOK, Base
<1>2. /\ K \in Handler /\ K.pc = h.pc /\ K.msg = h.msg /\ K.mail = h.mail /\ K.row = h.row
      /\ K.box = h.box /\ K.todo = h.todo /\ K.jobs = h.jobs /\ K.bad = h.bad
      /\ K.status = h.status /\ K.at = h.at
  BY <1>1 DEF Handler
<1> HIDE DEF K
<1>3. HandlerOK(K)
  BY <1>1, <1>2 DEF HandlerOK, Ok, Storing, ResolvesFirst, Target
<1>4. RowOK(K, rows)
  BY <1>1, <1>2 DEF RowOK
<1>5. req' = [req EXCEPT ![<<r, 1>>] = K]
  BY DEF GiveUp, K
<1>6. UNCHANGED <<mail, rows, relay, oofLast, notices, days, restarts>>
  BY DEF GiveUp
<1>7. h.msg \in Msgs /\ races[h.msg] + 1 \in Nat /\ faults + 1 \in Nat
  BY <1>0, <1>1 DEF TypeOK, Handler
<1>8. /\ client' = [client EXCEPT ![h.msg] = "failed"]
      /\ races' = [races EXCEPT ![h.msg] = @ + 1] /\ faults' = faults + 1
  BY DEF GiveUp, Fault
<1>9. /\ client' \in [Msgs -> {"wants", "waiting", "ok", "rejected", "failed"}]
      /\ races' \in [Msgs -> Nat] /\ faults' \in Nat
  BY <1>0, <1>7, <1>8 DEF TypeOK
<1>10. req[<<r, 2>>].pc # "idle" => K.pc = "wait" /\ K.msg = req[<<r, 1>>].msg
  BY <1>0, <1>2 DEF Nesting
<1> QED
  BY <1>2, <1>3, <1>4, <1>5, <1>6, <1>9, <1>10, BaseSlot

LEMMA BaseClient ==
  ASSUME Base, NEW m \in Msgs, StartRefused(m) \/ Retry(m)
  PROVE  Base'
<1>0. TypeOK
  BY DEF Base
<1>1. /\ UNCHANGED <<mail, req, rows, relay, oofLast, notices, races, days, restarts, faults>>
      /\ client' = [client EXCEPT ![m] = "rejected"] \/ client' = [client EXCEPT ![m] = "wants"]
  BY DEF StartRefused, Retry
<1>2. TypeOK'
  BY <1>0, <1>1 DEF TypeOK
<1> QED
  BY <1>1, <1>2 DEF Base, Nesting, Counted

LEMMA BaseDayPasses ==
  ASSUME Base, NEW p \in Users \X Addrs, DayPasses(p)
  PROVE  Base'
<1>0. TypeOK /\ Counted
  BY DEF Base
<1>1. /\ UNCHANGED <<mail, client, req, rows, relay, notices, races, restarts, faults>>
      /\ oofLast' = oofLast \ {p} /\ days' = days + 1
  BY DEF DayPasses
<1>2. TypeOK'
  BY <1>0, <1>1 DEF TypeOK
<1>3. Counted'
  <2> SUFFICES ASSUME NEW x \in Users \X Addrs
               PROVE  notices'[x] <= days' + restarts' + (IF x \in oofLast' THEN 1 ELSE 0)
    BY DEF Counted
  <2>1. /\ notices[x] <= days + restarts + (IF x \in oofLast THEN 1 ELSE 0)
        /\ notices[x] \in Nat /\ days \in Nat /\ restarts \in Nat
    BY <1>0 DEF Counted, TypeOK
  <2>2. x \in oofLast' => x \in oofLast
    BY <1>1
  <2> QED
    BY <1>1, <2>1, <2>2
<1> QED
  BY <1>1, <1>2, <1>3 DEF Base, Nesting

LEMMA BaseCrash ==
  ASSUME Base, Crash
  PROVE  Base'
<1>0. TypeOK /\ Counted
  BY DEF Base
<1>1. /\ UNCHANGED <<mail, rows, relay, notices, races, days>>
      /\ req' = [s \in Slots |-> NoReq] /\ oofLast' = {}
      /\ restarts' = restarts + 1 /\ faults' = faults + 1
      /\ client' = [m \in Msgs |-> IF client[m] = "waiting" THEN "failed" ELSE client[m]]
  BY DEF Crash, Fault
<1>2. NoReq \in Handler /\ HandlerOK(NoReq) /\ NoReq.pc = "idle" /\ NoReq.pc \notin HasRow
  BY NoReqShape DEF HasRow
<1>3. TypeOK'
  BY <1>0, <1>1, <1>2 DEF TypeOK
<1>4. \A s \in Slots : req'[s] = NoReq
  BY <1>1
<1>5. \A s \in Slots : HandlerOK(req'[s]) /\ RowOK(req'[s], rows')
  BY <1>2, <1>4, IdleRow
<1>6. Nesting'
  BY <1>2, <1>4 DEF Nesting, Slots, Levels
<1>7. Counted'
  <2> SUFFICES ASSUME NEW x \in Users \X Addrs
               PROVE  notices'[x] <= days' + restarts' + (IF x \in oofLast' THEN 1 ELSE 0)
    BY DEF Counted
  <2>1. /\ notices[x] <= days + restarts + (IF x \in oofLast THEN 1 ELSE 0)
        /\ notices[x] \in Nat /\ days \in Nat /\ restarts \in Nat
    BY <1>0 DEF Counted, TypeOK
  <2> QED
    BY <1>1, <2>1
<1>8. Keyed(rows')
  BY <1>1 DEF Base
<1> QED
  BY <1>3, <1>5, <1>6, <1>7, <1>8 DEF Base

LEMMA BaseInit == Init => Base
<1> SUFFICES ASSUME Init PROVE Base
  OBVIOUS
<1>1. NoReq \in Handler /\ HandlerOK(NoReq) /\ NoReq.pc = "idle" /\ NoReq.pc \notin HasRow
  BY NoReqShape DEF HasRow
<1>2. TypeOK
  BY <1>1 DEF Init, TypeOK
<1>3. \A s \in Slots : req[s] = NoReq
  BY DEF Init
<1>4. Nesting
  BY <1>1, <1>3 DEF Nesting, Slots, Levels
<1>5. Keyed(rows) /\ Counted
  BY DEF Init, Keyed, Counted
<1>6. \A s \in Slots : HandlerOK(req[s]) /\ RowOK(req[s], rows)
  BY <1>1, <1>3, IdleRow
<1> QED
  BY <1>2, <1>4, <1>5, <1>6 DEF Base

\* The steps of a handler are the simple ones and those of a notice.
LEMMA HandlingParts ==
  ASSUME NEW s \in Slots, Handling(s) \/ Failing(s)
  PROVE  Simple(s) \/ OofReply(s) \/ (s[2] < 3 /\ OofReturns(s))
BY DEF Handling, Simple

LEMMA BaseInvariant == Spec => []Base
<1>1. Init => Base
  BY BaseInit
<1>2. Base /\ [Next]_vars => Base'
  <2> SUFFICES ASSUME Base, [Next]_vars PROVE Base'
    OBVIOUS
  <2>1. CASE UNCHANGED vars
    BY <2>1 DEF vars, Base, TypeOK, Nesting, Counted
  <2>2. ASSUME NEW s \in Slots, Handling(s) \/ Failing(s) PROVE Base'
    BY <2>2, HandlingParts, BaseSimple, BaseOofReply, BaseOofReturns
  <2>3. ASSUME NEW r \in Reqs, NEW m \in Msgs, Start(r, m) PROVE Base'
    BY <2>3, BaseStart
  <2>4. ASSUME NEW m \in Msgs, StartRefused(m) \/ Retry(m) PROVE Base'
    BY <2>4, BaseClient
  <2>5. ASSUME NEW r \in Reqs, Receive(r) \/ LoseAnswer(r) \/ GiveUp(r) PROVE Base'
    BY <2>5, BaseAnswer, BaseGiveUp
  <2>6. ASSUME NEW p \in Users \X Addrs, DayPasses(p) PROVE Base'
    BY <2>6, BaseDayPasses
  <2>7. CASE Crash
    BY <2>7, BaseCrash
  <2> QED
    BY <2>1, <2>2, <2>3, <2>4, <2>5, <2>6, <2>7 DEF Next
<1> QED
  BY <1>1, <1>2, PTL DEF Spec

\* Every reachable state has the declared shape: no handler ever stores a row for an address
\* without an account (Inbound.ServeHTTP, sendComposed, deliverLocal, deliverReply).
THEOREM TypeCorrect == Spec => []TypeOK
<1>1. Base => TypeOK
  BY DEF Base
<1> QED
  BY <1>1, BaseInvariant, PTL

\* A correspondent gets one notice a day from an account (oofReply marks it before it sends),
\* for any number of handlers that run the hook at the same time.
THEOREM OneNotice == Spec => []OneNoticeADay
<1>1. Base => OneNoticeADay
  <2> SUFFICES ASSUME Base, NEW u \in Users, NEW a \in Addrs
               PROVE  notices[<<u, a>>] <= 1 + days + restarts
    BY DEF OneNoticeADay
  <2>1. <<u, a>> \in Users \X Addrs
    OBVIOUS
  <2>2. notices[<<u, a>>] <= days + restarts + (IF <<u, a>> \in oofLast THEN 1 ELSE 0)
    BY <2>1 DEF Base, Counted
  <2>3. notices[<<u, a>>] \in Nat /\ days \in Nat /\ restarts \in Nat
    BY <2>1 DEF Base, TypeOK
  <2> QED
    BY <2>2, <2>3
<1> QED
  BY <1>1, BaseInvariant, PTL

\* A notice is never answered by another: looksAutomated stops the hook of its delivery.
THEOREM NoticesStop == Spec => []NoticesEnd
<1>1. Base => NoticesEnd
  BY DEF Base, Nesting, NoticesEnd
<1> QED
  BY <1>1, BaseInvariant, PTL


-----------------------------------------------------------------------------
(* What a step of a handler means for its client's message. *)

\* The handler of a client before and after a step.
Progress(h, k, rs2, rl2) ==
  /\ h.pc \notin {"idle", "answer"} /\ k.pc # "idle"
  /\ k.msg = h.msg /\ k.mail = h.mail /\ k.deaf = h.deaf
  /\ Hope(h) => Hope(k)
  /\ h.mail.via # "auto" /\ Promised(k) =>
       Promised(h) /\ \A a \in Pending(h) : a \in Pending(k) \/ ReachedIn(rs2, rl2, h.msg, a)

\* Who is reached by a step that was not before: recipients of a message that is past its
\* lookups.
OnlyPast(h) ==
  \A m \in Msgs, a \in Addrs :
    ReachedIn(rows', relay', m, a) =>
      Reached(m, a) \/ (h.msg = m /\ h.pc \notin {"idle", "resolve", "answer"})

LEMMA SimpleProgress ==
  ASSUME Base, NEW s \in Slots, Simple(s)
  PROVE  Progress(req[s], req'[s], rows', relay')
<1> DEFINE h == req[s]
           k == req'[s]
<1>0. TypeOK /\ h \in Handler /\ HandlerOK(h) /\ RowOK(h, rows) /\ Keyed(rows)
  BY DEF Base, TypeOK
<1>1. Keeps(h, k)
  BY SimpleStep DEF Moved
<1>2. CASE InsertRow(s)
  <2>1. /\ k.mail = h.mail /\ k.msg = h.msg /\ k.todo = h.todo /\ k.jobs = h.jobs
        /\ k.bad = h.bad /\ k.box = h.box /\ k.ext = h.ext /\ k.at = h.at /\ k.pc = "source"
        /\ k.status = h.status /\ h.pc = "insert"
        /\ Len(rows') = Len(rows) + 1 /\ rows'[Len(rows) + 1] = NewRow(h)
    BY <1>0, <1>2, InsertedRow
  <2>2. Len(rows) \in Nat
    BY <1>0, LenProperties DEF TypeOK
  <2>3. h.box = "inbox" /\ h.mail.via # "auto" => ReachedIn(rows', relay', h.msg, h.at)
    <3> SUFFICES ASSUME h.box = "inbox", h.mail.via # "auto"
                 PROVE  ReachedIn(rows', relay', h.msg, h.at)
      OBVIOUS
    <3>1. NewRow(h).user = Owner[h.at] /\ NewRow(h).msg = h.msg /\ ~NewRow(h).reply
      BY NewRowFields DEF Target
    <3>2. Len(rows) + 1 \in 1..Len(rows')
      BY <2>1, <2>2
    <3> QED
      BY <2>1, <3>1, <3>2 DEF ReachedIn
  <2> HIDE DEF h, k
  <2>4. Hope(h) => Hope(k)
    BY <2>1 DEF Hope
  <2>5. Promised(k) => Promised(h)
    BY <2>1 DEF Promised
  <2>6. \A a \in Pending(h) : a \in Pending(k) \/ (h.box = "inbox" /\ a = h.at)
    BY <2>1 DEF Pending, ResolvesFirst
  <2>7. Progress(h, k, rows', relay')
    BY <1>1, <2>3, <2>4, <2>5, <2>6 DEF Progress, Keeps
  <2> QED
    BY <2>7 DEF h, k
<1>3. CASE ~InsertRow(s)
  <2>1. Settles(s)
    BY <1>0, <1>3, SimpleSettles
  <2>2. PICK done \in SUBSET Addrs :
          /\ Sound(h, k, done)
          /\ h.mail.via # "auto" => \A a \in done : ReachedIn(rows', relay', h.msg, a)
    BY <2>1 DEF Settles
  <2> HIDE DEF h, k
  <2>3. Progress(h, k, rows', relay')
    BY <1>1, <2>2 DEF Progress, Keeps, Sound
  <2> QED
    BY <2>3 DEF h, k
<1> QED
  BY <1>2, <1>3

LEMMA SimpleReaches ==
  ASSUME Base, NEW s \in Slots, Simple(s)
  PROVE  /\ req[s].mail.via # "auto" => OnlyPast(req[s])
         /\ req[s].mail.via = "auto" =>
              \A m \in Msgs, a \in Addrs : ReachedIn(rows', relay', m, a) => Reached(m, a)
<1> DEFINE h == req[s]
<1>0. TypeOK /\ HandlerOK(h) /\ RowOK(h, rows) /\ relay \in [Msgs \X Addrs -> Nat]
      /\ rows \in Seq(Row)
  BY DEF Base, TypeOK
<1>1. /\ Writes(h, rows, rows')
      /\ \A p \in Msgs \X Addrs : relay'[p] # relay[p] =>
           p[1] = h.msg /\ h.mail.via # "auto" /\ h.pc \in {"relay", "job"}
  BY <1>0, SimpleWrites
<1> HIDE DEF h
<1>2. ASSUME NEW m \in Msgs, NEW a \in Addrs, ReachedIn(rows', relay', m, a), ~Reached(m, a)
      PROVE  h.mail.via # "auto" /\ h.msg = m /\ h.pc \notin {"idle", "resolve", "answer"}
  <2>1. CASE relay'[<<m, a>>] > 0
    <3>1. relay'[<<m, a>>] # relay[<<m, a>>]
      BY <1>2, <2>1 DEF Reached
    <3>2. <<m, a>> \in Msgs \X Addrs /\ <<m, a>>[1] = m
      OBVIOUS
    <3> QED
      BY <1>1, <3>1, <3>2
  <2>2. CASE \E i \in 1..Len(rows') :
               rows'[i].user = Owner[a] /\ rows'[i].msg = m /\ ~rows'[i].reply
    <3>1. PICK i \in 1..Len(rows') :
            rows'[i].user = Owner[a] /\ rows'[i].msg = m /\ ~rows'[i].reply
      BY <2>2
    <3>2. Len(rows) \in Nat /\ Len(rows') \in Nat
      BY <1>0, <1>1, LenProperties DEF Writes
    <3>3. ~(i \in 1..Len(rows))
      <4> SUFFICES ASSUME i \in 1..Len(rows) PROVE FALSE
        OBVIOUS
      <4>1. rows[i].user = Owner[a] /\ rows[i].msg = m /\ ~rows[i].reply
        BY <1>1, <3>1 DEF Writes, Grows
      <4> QED
        BY <1>2, <4>1, RowReaches
    <3>4. i > Len(rows)
      BY <3>2, <3>3
    <3>5. h.pc = "insert" /\ rows'[i] = NewRow(h)
      BY <1>1, <3>4 DEF Writes
    <3> QED
      BY <3>1, <3>5, NewRowFields
  <2> QED
    BY <1>2, <2>1, <2>2 DEF ReachedIn
<1> QED
  BY <1>2 DEF OnlyPast, h

\* Any step of a handler, as the clients see it.
LEMMA HandlingStep ==
  ASSUME Base, NEW s \in Slots, Handling(s) \/ Failing(s)
  PROVE  \E r \in Reqs :
           /\ \A q \in Reqs : q # r => req'[<<q, 1>>] = req[<<q, 1>>]
           /\ \/ req'[<<r, 1>>] = req[<<r, 1>>]
              \/ Progress(req[<<r, 1>>], req'[<<r, 1>>], rows', relay')
           /\ OnlyPast(req[<<r, 1>>])
           /\ Grows(rows, rows') /\ Counts(relay, relay') /\ rows' \in Seq(Row)
           /\ UNCHANGED <<mail, client>>
<1>0. TypeOK /\ Nesting /\ Base /\ rows \in Seq(Row) /\ req \in [Slots -> Handler]
      /\ relay \in [Msgs \X Addrs -> Nat]
  BY DEF Base, TypeOK
<1>1. s[1] \in Reqs /\ s[2] \in {1, 2, 3} /\ s = <<s[1], s[2]>>
      /\ \A r \in Reqs, l \in {1, 2, 3} : <<r, l>> \in Slots
  BY SlotParts
<1>2. CASE Simple(s)
  <2>1. /\ req' = [req EXCEPT ![s] = req'[s]] /\ UNCHANGED <<mail, client>> /\ s[2] \in {1, 2}
        /\ Grows(rows, rows') /\ Counts(relay, relay') /\ rows' \in Seq(Row)
        /\ req[s].pc # "idle"
    BY <1>2, SimpleStep DEF Moved, Writes, Keeps
  <2>2. \A t \in Slots : t # s => req'[t] = req[t]
    BY <1>0, <2>1
  <2>3. ASSUME NEW q \in Reqs, q # s[1] PROVE req'[<<q, 1>>] = req[<<q, 1>>]
    <3>1. <<q, 1>> \in Slots /\ <<q, 1>> # s
      BY <2>3 DEF Slots, Levels
    <3> QED
      BY <2>2, <3>1
  <2>4. CASE s[2] = 1
    <3>1. s = <<s[1], 1>>
      BY <1>1, <2>4
    <3>2. Progress(req[s], req'[s], rows', relay')
      BY <1>2, SimpleProgress
    <3>3. OnlyPast(req[s])
      BY <1>2, SimpleReaches DEF OnlyPast
    <3> QED
      BY <1>1, <2>1, <2>3, <3>1, <3>2, <3>3
  <2>5. CASE s[2] = 2
    <3>1. s = <<s[1], 2>> /\ <<s[1], 1>> # s /\ <<s[1], 1>> \in Slots
      BY <1>1, <2>5 DEF Slots, Levels
    <3>2. req[s].mail.via = "auto"
      BY <1>0, <1>1, <2>1, <3>1 DEF Nesting
    <3>3. OnlyPast(req[<<s[1], 1>>])
      BY <1>2, <3>2, SimpleReaches DEF OnlyPast
    <3>4. req'[<<s[1], 1>>] = req[<<s[1], 1>>]
      BY <2>2, <3>1
    <3> QED
      BY <1>1, <2>1, <2>3, <3>3, <3>4
  <2> QED
    BY <2>1, <2>4, <2>5
<1>3. CASE OofReply(s) \/ (s[2] < 3 /\ OofReturns(s))
  <2>1. UNCHANGED <<mail, client, rows, relay>>
    BY <1>3 DEF OofReply, OofReturns
  <2>2. PICK r, F, p :
          /\ r \in Reqs
          /\ \/ req[<<r, 1>>].pc = "hook" /\ p = "wait"
             \/ req[<<r, 1>>].pc = "wait" /\ p = "publish"
          /\ req' = [req EXCEPT ![<<r, 1>>] = [req[<<r, 1>>] EXCEPT !.pc = p], ![<<r, 2>>] = F]
    <3>1. CASE OofReply(s)
      <4>1. PICK r \in Reqs, F \in Handler :
              /\ s = <<r, 1>> /\ req[s].pc = "hook"
              /\ req' = [req EXCEPT ![<<r, 1>>] = [req[<<r, 1>>] EXCEPT !.pc = "wait"],
                                    ![<<r, 2>>] = F]
        BY <3>1, OofReplyStep
      <4> QED
        BY <4>1
    <3>2. CASE s[2] < 3 /\ OofReturns(s)
      BY <3>2, OofReturnsStep
    <3> QED
      BY <1>3, <3>1, <3>2
  <2> DEFINE h == req[<<r, 1>>]
             k == [h EXCEPT !.pc = p]
  <2>3. <<r, 1>> \in Slots /\ <<r, 2>> \in Slots /\ <<r, 1>> # <<r, 2>>
        /\ \A q \in Reqs : <<q, 1>> \in Slots
    BY <2>2 DEF Slots, Levels
  <2>4. h \in Handler /\ HandlerOK(h)
    BY <1>0, <2>3 DEF Base
  <2>5. Sound(h, k, {})
    BY <2>2, <2>4, SoundGoes
  <2>6. k.msg = h.msg /\ k.mail = h.mail /\ k.deaf = h.deaf /\ k.pc = p
    BY <2>4 DEF Handler
  <2>7. req'[<<r, 1>>] = k
    BY <1>0, <2>2, <2>3
  <2>8. \A q \in Reqs : q # r => req'[<<q, 1>>] = req[<<q, 1>>]
    BY <1>0, <2>2, <2>3
  <2> HIDE DEF h, k
  <2>9. Progress(h, k, rows', relay')
    BY <2>2, <2>5, <2>6 DEF Progress, Sound, h
  <2>10. OnlyPast(h)
    BY <2>1 DEF OnlyPast, Reached, ReachedIn
  <2>11. Grows(rows, rows') /\ Counts(relay, relay') /\ rows' \in Seq(Row)
    BY <1>0, <2>1, SameWrites DEF Writes, Counts
  <2> QED
    BY <2>1, <2>2, <2>7, <2>8, <2>9, <2>10, <2>11 DEF h
<1> QED
  BY <1>2, <1>3, HandlingParts


-----------------------------------------------------------------------------
(* Kept is inductive. *)

LEMMA ReachedInIs ==
  ASSUME NEW m, NEW a
  PROVE  /\ Reached(m, a) <=> ReachedIn(rows, relay, m, a)
         /\ Reached(m, a)' <=> ReachedIn(rows', relay', m, a)
BY DEF Reached, ReachedIn

\* A client's message is not a notice, and its addresses are addresses.
LEMMA MailFacts ==
  ASSUME TypeOK, NEW m \in Msgs
  PROVE  /\ mail[m] \in Mail /\ mail[m].via # "auto"
         /\ Recipients(mail[m]) \subseteq Addrs
<1>1. mail[m] \in Mail /\ mail[m].via # "auto"
  BY DeliveryAssumption DEF TypeOK
<1>2. Recipients(mail[m]) \subseteq Addrs
  BY <1>1 DEF Recipients, Mail
<1> QED
  BY <1>1, <1>2

\* What is reached after any step that only adds.
LEMMA Adds ==
  ASSUME TypeOK, Grows(rows, rows'), Counts(relay, relay'), rows' \in Seq(Row)
  PROVE  \A m \in Msgs, a \in Addrs :
           ReachedIn(rows, relay, m, a) => ReachedIn(rows', relay', m, a)
<1> SUFFICES ASSUME NEW m \in Msgs, NEW a \in Addrs, ReachedIn(rows, relay, m, a)
             PROVE  ReachedIn(rows', relay', m, a)
  OBVIOUS
<1>1. Reached(m, a)
  BY ReachedInIs
<1>2. Reached(m, a)'
  BY <1>1, ReachedStays
<1> QED
  BY <1>2, ReachedInIs

LEMMA KeptHandling ==
  ASSUME Base, Kept, NEW s \in Slots, Handling(s) \/ Failing(s)
  PROVE  Kept'
<1>0. TypeOK /\ Senders /\ Covered /\ Hopeless /\ Accepted /\ req \in [Slots -> Handler]
  BY DEF Base, Kept, TypeOK
<1>1. PICK r \in Reqs :
        /\ \A q \in Reqs : q # r => req'[<<q, 1>>] = req[<<q, 1>>]
        /\ \/ req'[<<r, 1>>] = req[<<r, 1>>]
           \/ Progress(req[<<r, 1>>], req'[<<r, 1>>], rows', relay')
        /\ OnlyPast(req[<<r, 1>>])
        /\ Grows(rows, rows') /\ Counts(relay, relay') /\ rows' \in Seq(Row)
        /\ UNCHANGED <<mail, client>>
  BY HandlingStep
<1> DEFINE h == req[<<r, 1>>]
           k == req'[<<r, 1>>]
<1>2. \A m \in Msgs, a \in Addrs : ReachedIn(rows, relay, m, a) => ReachedIn(rows', relay', m, a)
  BY <1>0, <1>1, Adds
<1>3. \A q \in Reqs :
        /\ req[<<q, 1>>] \in Handler /\ req[<<q, 1>>].msg \in Msgs
        /\ req[<<q, 1>>].pc # "idle" => req[<<q, 1>>].mail = mail[req[<<q, 1>>].msg]
  <2>1. \A q \in Reqs : <<q, 1>> \in Slots
    BY DEF Slots, Levels
  <2>2. \A q \in Reqs : req[<<q, 1>>] \in Handler /\ req[<<q, 1>>].msg \in Msgs
    BY <1>0, <2>1 DEF Handler
  <2> QED
    BY <1>0, <2>2 DEF Senders, Active
<1>4. ASSUME NEW q \in Reqs
      PROVE  LET g == req[<<q, 1>>] f == req'[<<q, 1>>] IN
             /\ f.pc # "idle" <=> g.pc # "idle"
             /\ g.pc # "idle" => f.msg = g.msg /\ f.mail = g.mail /\ f.deaf = g.deaf
             /\ f = g \/ Progress(g, f, rows', relay')
  <2>1. CASE q = r
    BY <1>1, <2>1 DEF Progress
  <2>2. CASE q # r
    BY <1>1, <2>2
  <2> QED
    BY <2>1, <2>2
<1>5. \A q \in Reqs, m \in Msgs : Active(q, m)' <=> Active(q, m)
  BY <1>4 DEF Active
<1>6. Senders'
  <2>1. \A q \in Reqs, m \in Msgs : Active(q, m) =>
          req'[<<q, 1>>].mail = req[<<q, 1>>].mail /\ req'[<<q, 1>>].deaf = req[<<q, 1>>].deaf
    BY <1>4 DEF Active
  <2> HIDE DEF h, k
  <2>2. ASSUME NEW q \in Reqs, NEW m \in Msgs, Active(q, m)'
        PROVE  /\ req'[<<q, 1>>].mail = mail'[m] /\ Recipients(mail'[m]) # {}
               /\ ~req'[<<q, 1>>].deaf => client'[m] = "waiting"
    <3>1. Active(q, m)
      BY <1>5, <2>2
    <3> QED
      BY <1>0, <1>1, <2>1, <3>1 DEF Senders
  <2>3. ASSUME NEW q \in Reqs, NEW t \in Reqs, NEW m \in Msgs, Active(q, m)', Active(t, m)',
               ~req'[<<q, 1>>].deaf, ~req'[<<t, 1>>].deaf
        PROVE  q = t
    <3>1. Active(q, m) /\ Active(t, m)
      BY <1>5, <2>3
    <3> QED
      BY <1>0, <2>1, <2>3, <3>1 DEF Senders
  <2> QED
    BY <2>2, <2>3 DEF Senders
<1>7. ASSUME NEW q \in Reqs PROVE Served(req'[<<q, 1>>], rows', relay')
  <2> DEFINE g == req[<<q, 1>>]
             f == req'[<<q, 1>>]
  <2>1. Served(g, rows, relay) /\ g.msg \in Msgs
    BY <1>0, <1>3 DEF Covered
  <2> SUFFICES ASSUME Promised(f), NEW a \in Recipients(f.mail)
               PROVE  a \in Pending(f) \/ ReachedIn(rows', relay', f.msg, a)
    BY DEF Served
  <2>2. g.pc # "idle" /\ f.msg = g.msg /\ f.mail = g.mail
    BY <1>4 DEF Promised
  <2>3. a \in Addrs /\ g.mail.via # "auto"
    BY <1>0, <1>3, <2>1, <2>2, MailFacts
  <2>4. f = g \/ Progress(g, f, rows', relay')
    BY <1>4
  <2> HIDE DEF f, g
  <2>5. CASE f = g
    BY <1>2, <2>1, <2>2, <2>3, <2>5 DEF Served
  <2>6. CASE Progress(g, f, rows', relay')
    <3>1. Promised(g)
      BY <2>3, <2>6 DEF Progress
    <3>2. a \in Pending(g) \/ ReachedIn(rows, relay, g.msg, a)
      BY <2>1, <2>2, <3>1 DEF Served
    <3>3. a \in Pending(g) => a \in Pending(f) \/ ReachedIn(rows', relay', g.msg, a)
      BY <2>3, <2>6 DEF Progress
    <3> QED
      BY <1>2, <2>1, <2>2, <2>3, <3>2, <3>3
  <2> QED
    BY <2>4, <2>5, <2>6
<1>8. Hopeless'
  <2>1. ASSUME NEW m \in Msgs, Doomed(mail'[m]), NEW a \in Addrs PROVE ~Reached(m, a)'
    <3>1. Doomed(mail[m]) /\ ~Reached(m, a)
      BY <1>0, <1>1, <2>1 DEF Hopeless
    <3> SUFFICES ASSUME Reached(m, a)' PROVE FALSE
      OBVIOUS
    <3>2. h.msg = m /\ h.pc \notin {"idle", "resolve", "answer"}
      BY <1>1, <3>1, ReachedInIs DEF OnlyPast
    <3>3. h.mail = mail[m] /\ Recipients(mail[m]) # {}
      BY <1>0, <3>2 DEF Senders, Active
    <3>4. Hope(h)
      BY <1>0 DEF Hopeless
    <3> QED
      BY <3>1, <3>2, <3>3, <3>4 DEF Doomed, Hope
  <2>2. ASSUME NEW q \in Reqs PROVE Hope(req'[<<q, 1>>])
    <3>1. Hope(req[<<q, 1>>])
      BY <1>0 DEF Hopeless
    <3> QED
      BY <1>4, <3>1 DEF Progress
  <2> QED
    BY <2>1, <2>2 DEF Hopeless
<1>9. Accepted'
  <2> SUFFICES ASSUME NEW m \in Msgs, client'[m] = "ok", NEW a \in Recipients(mail'[m])
               PROVE  Reached(m, a)'
    BY DEF Accepted
  <2>1. Reached(m, a) /\ a \in Addrs
    BY <1>0, <1>1, MailFacts DEF Accepted
  <2> QED
    BY <1>2, <2>1, ReachedInIs
<1>10. Covered'
  BY <1>7 DEF Covered
<1> QED
  BY <1>6, <1>8, <1>9, <1>10 DEF Kept


\* A client's handler changes and nothing is written.
LEMMA KeptSlot ==
  ASSUME TypeOK, Kept, NEW r \in Reqs, NEW K, req' = [req EXCEPT ![<<r, 1>>] = K],
         UNCHANGED <<mail, rows, relay>>, Served(K, rows, relay), Hope(K), Senders',
         \A m \in Msgs : client'[m] = "ok" /\ client[m] # "ok" =>
           \A a \in Recipients(mail[m]) : Reached(m, a)
  PROVE  Kept'
<1>0. Covered /\ Hopeless /\ Accepted /\ req \in [Slots -> Handler]
  BY DEF Kept, TypeOK
<1>1. <<r, 1>> \in Slots /\ \A q \in Reqs : <<q, 1>> \in Slots
  BY DEF Slots, Levels
<1>2. req'[<<r, 1>>] = K /\ \A q \in Reqs : q # r => req'[<<q, 1>>] = req[<<q, 1>>]
  BY <1>0, <1>1
<1>3. Covered'
  <2> SUFFICES ASSUME NEW q \in Reqs PROVE Served(req'[<<q, 1>>], rows, relay)
    BY DEF Covered
  <2>1. Served(req[<<q, 1>>], rows, relay)
    BY <1>0 DEF Covered
  <2> QED
    BY <1>2, <2>1
<1>4. Hopeless'
  <2>1. ASSUME NEW q \in Reqs PROVE Hope(req'[<<q, 1>>])
    <3>1. Hope(req[<<q, 1>>])
      BY <1>0 DEF Hopeless
    <3> QED
      BY <1>2, <3>1
  <2>2. ASSUME NEW m \in Msgs, Doomed(mail'[m]), NEW a \in Addrs PROVE ~Reached(m, a)'
    <3>1. ~Reached(m, a)
      BY <1>0, <2>2 DEF Hopeless
    <3> QED
      BY <3>1 DEF Reached
  <2> QED
    BY <2>1, <2>2 DEF Hopeless
<1>5. Accepted'
  <2> SUFFICES ASSUME NEW m \in Msgs, client'[m] = "ok", NEW a \in Recipients(mail[m])
               PROVE  Reached(m, a)'
    BY DEF Accepted
  <2>1. Reached(m, a)
    BY <1>0 DEF Accepted
  <2> QED
    BY <2>1 DEF Reached
<1> QED
  BY <1>3, <1>4, <1>5 DEF Kept

\* The handler that its client listened to is gone or is not listened to any more.
LEMMA SendersSilent ==
  ASSUME TypeOK, Senders, NEW r \in Reqs, NEW K, req' = [req EXCEPT ![<<r, 1>>] = K],
         req[<<r, 1>>].pc # "idle",
         \/ K.pc = "idle"
         \/ K.deaf /\ K.msg = req[<<r, 1>>].msg /\ K.mail = req[<<r, 1>>].mail,
         mail' = mail,
         \A m \in Msgs : client'[m] = client[m] \/ (m = req[<<r, 1>>].msg /\ ~req[<<r, 1>>].deaf)
  PROVE  Senders'
<1> DEFINE h == req[<<r, 1>>]
<1>0. req \in [Slots -> Handler] /\ <<r, 1>> \in Slots /\ \A q \in Reqs : <<q, 1>> \in Slots
  BY DEF TypeOK, Slots, Levels
<1>1. req'[<<r, 1>>] = K /\ \A q \in Reqs : q # r => req'[<<q, 1>>] = req[<<q, 1>>]
  BY <1>0
<1>2. ASSUME NEW q \in Reqs, NEW m \in Msgs, Active(q, m)', ~req'[<<q, 1>>].deaf
      PROVE  q # r /\ Active(q, m) /\ ~req[<<q, 1>>].deaf
  BY <1>1, <1>2 DEF Active
<1>3. ASSUME NEW q \in Reqs, NEW m \in Msgs, Active(q, m)'
      PROVE  /\ req'[<<q, 1>>].mail = mail'[m] /\ Recipients(mail'[m]) # {}
             /\ ~req'[<<q, 1>>].deaf => client'[m] = "waiting"
  <2>1. Active(q, m)
    BY <1>1, <1>3 DEF Active
  <2>2. req[<<q, 1>>].mail = mail[m] /\ Recipients(mail[m]) # {}
        /\ (~req[<<q, 1>>].deaf => client[m] = "waiting")
    BY <2>1 DEF Senders
  <2>3. req'[<<q, 1>>].mail = req[<<q, 1>>].mail
    BY <1>1, <1>3 DEF Active
  <2>4. ASSUME ~req'[<<q, 1>>].deaf PROVE client'[m] = "waiting"
    <3>1. q # r /\ ~req[<<q, 1>>].deaf
      BY <1>2, <1>3, <2>4
    <3>2. ~(m = h.msg /\ ~h.deaf)
      BY <2>1, <3>1 DEF Senders, Active
    <3> QED
      BY <2>2, <3>1, <3>2
  <2> QED
    BY <2>2, <2>3, <2>4
<1>4. ASSUME NEW q \in Reqs, NEW t \in Reqs, NEW m \in Msgs, Active(q, m)', Active(t, m)',
             ~req'[<<q, 1>>].deaf, ~req'[<<t, 1>>].deaf
      PROVE  q = t
  <2>1. Active(q, m) /\ Active(t, m) /\ ~req[<<q, 1>>].deaf /\ ~req[<<t, 1>>].deaf
    BY <1>2, <1>4
  <2> QED
    BY <2>1 DEF Senders
<1> QED
  BY <1>3, <1>4 DEF Senders

\* The answer ok is given when all recipients are reached.
LEMMA OkReaches ==
  ASSUME Base, Kept, NEW r \in Reqs, Ok(req[<<r, 1>>])
  PROVE  \A a \in Recipients(mail[req[<<r, 1>>].msg]) : Reached(req[<<r, 1>>].msg, a)
<1> DEFINE h == req[<<r, 1>>]
<1>0. <<r, 1>> \in Slots /\ h \in Handler
  BY DEF Base, TypeOK, Slots, Levels
<1>1. HandlerOK(h) /\ h.msg \in Msgs
  BY <1>0 DEF Base, Handler
<1>2. h.pc = "answer" /\ h.status = "ok" /\ h.todo = {} /\ h.jobs = {} /\ h.bad = {}
  BY <1>1 DEF HandlerOK, Ok
<1>3. Promised(h) /\ Pending(h) = {}
  BY <1>2 DEF Promised, Pending
<1>4. h.mail = mail[h.msg]
  BY <1>1, <1>2 DEF Kept, Senders, Active
<1>5. Served(h, rows, relay)
  BY DEF Kept, Covered
<1>6. \A a \in Recipients(h.mail) : ReachedIn(rows, relay, h.msg, a)
  BY <1>3, <1>5 DEF Served
<1> QED
  BY <1>4, <1>6, ReachedInIs

LEMMA IdleServed ==
  ASSUME NEW h, h.pc = "idle"
  PROVE  Served(h, rows, relay) /\ Hope(h)
BY DEF Served, Promised, Hope

\* What an answer does to the client's knowledge.
LEMMA AnswerParts ==
  ASSUME Base, NEW r \in Reqs, Receive(r) \/ LoseAnswer(r)
  PROVE  LET h == req[<<r, 1>>] IN
         /\ h \in Handler /\ h.pc = "answer" /\ h.msg \in Msgs
         /\ req' = [req EXCEPT ![<<r, 1>>] = NoReq]
         /\ UNCHANGED <<mail, rows, relay>>
         /\ \A m \in Msgs : \/ client'[m] = client[m]
                            \/ m = h.msg /\ ~h.deaf /\ client'[m] \in {h.status, "failed"}
<1> DEFINE h == req[<<r, 1>>]
<1>0. TypeOK /\ <<r, 1>> \in Slots
  BY DEF Base, Slots, Levels
<1>1. h \in Handler /\ h.pc = "answer"
  BY <1>0 DEF TypeOK, Receive, LoseAnswer
<1>2. h.msg \in Msgs
  BY <1>1 DEF Handler
<1>3. req' = [req EXCEPT ![<<r, 1>>] = NoReq] /\ UNCHANGED <<mail, rows, relay>>
  BY DEF Receive, LoseAnswer, Step
<1>4. \/ client' = client
      \/ ~h.deaf /\ client' = [client EXCEPT ![h.msg] = h.status]
      \/ ~h.deaf /\ client' = [client EXCEPT ![h.msg] = "failed"]
  BY DEF Receive, LoseAnswer
<1>5. \A m \in Msgs : \/ client'[m] = client[m]
                      \/ m = h.msg /\ ~h.deaf /\ client'[m] \in {h.status, "failed"}
  BY <1>0, <1>2, <1>4 DEF TypeOK
<1> QED
  BY <1>1, <1>2, <1>3, <1>5

LEMMA KeptAnswer ==
  ASSUME Base, Kept, NEW r \in Reqs, Receive(r) \/ LoseAnswer(r)
  PROVE  Kept'
<1> DEFINE h == req[<<r, 1>>]
<1>0. TypeOK /\ Senders
  BY DEF Base, Kept
<1>1. /\ h.pc = "answer" /\ req' = [req EXCEPT ![<<r, 1>>] = NoReq]
      /\ UNCHANGED <<mail, rows, relay>>
      /\ \A m \in Msgs : \/ client'[m] = client[m]
                         \/ m = h.msg /\ ~h.deaf /\ client'[m] \in {h.status, "failed"}
  BY AnswerParts
<1>2. NoReq.pc = "idle"
  BY NoReqShape
<1>3. Served(NoReq, rows, relay) /\ Hope(NoReq)
  BY <1>2, IdleServed
<1>4. Senders'
  BY <1>0, <1>1, <1>2, SendersSilent
<1>5. ASSUME NEW m \in Msgs, client'[m] = "ok", client[m] # "ok"
      PROVE  \A a \in Recipients(mail[m]) : Reached(m, a)
  <2>1. m = h.msg /\ h.status = "ok"
    BY <1>1, <1>5
  <2>2. Ok(h)
    BY <1>1, <2>1 DEF Ok
  <2> QED
    BY <2>1, <2>2, OkReaches
<1> QED
  BY <1>0, <1>1, <1>3, <1>4, <1>5, KeptSlot

LEMMA KeptGiveUp ==
  ASSUME Base, Kept, NEW r \in Reqs, GiveUp(r)
  PROVE  Kept'
<1> DEFINE h == req[<<r, 1>>]
           K == [h EXCEPT !.deaf = TRUE]
<1>0. TypeOK /\ Senders /\ Covered /\ Hopeless /\ <<r, 1>> \in Slots
  BY DEF Base, Kept, Slots, Levels
<1>1. h \in Handler /\ h.msg \in Msgs /\ h.pc # "idle" /\ ~h.deaf
  BY <1>0 DEF TypeOK, GiveUp, Handler
<1>2. /\ K.pc = h.pc /\ K.msg = h.msg /\ K.mail = h.mail /\ K.ext = h.ext
      /\ K.box = h.box /\ K.todo = h.todo /\ K.jobs = h.jobs /\ K.bad = h.bad
      /\ K.status = h.status /\ K.at = h.at /\ K.deaf
  BY <1>1 DEF Handler
<1>3. req' = [req EXCEPT ![<<r, 1>>] = K] /\ UNCHANGED <<mail, rows, relay>>
      /\ client' = [client EXCEPT ![h.msg] = "failed"]
  BY DEF GiveUp
<1> HIDE DEF K
<1>4. Served(K, rows, relay)
  <2>1. Served(h, rows, relay)
    BY <1>0 DEF Covered
  <2>2. (Promised(K) <=> Promised(h)) /\ Pending(K) = Pending(h)
    BY <1>2 DEF Promised, Pending, ResolvesFirst
  <2> QED
    BY <1>2, <2>1, <2>2 DEF Served
<1>5. Hope(K)
  <2>1. Hope(h)
    BY <1>0 DEF Hopeless
  <2> QED
    BY <1>2, <2>1 DEF Hope
<1>6. \A m \in Msgs : /\ client'[m] = client[m] \/ (m = h.msg /\ ~h.deaf)
                      /\ ~(client'[m] = "ok" /\ client[m] # "ok")
  BY <1>0, <1>1, <1>3 DEF TypeOK
<1>7. Senders'
  BY <1>0, <1>1, <1>2, <1>3, <1>6, SendersSilent
<1> QED
  BY <1>0, <1>3, <1>4, <1>5, <1>6, <1>7, KeptSlot

LEMMA KeptStart ==
  ASSUME Base, Kept, NEW r \in Reqs, NEW m \in Msgs, Start(r, m)
  PROVE  Kept'
<1> DEFINE K == Fresh(m, mail[m])
<1>0. TypeOK /\ Senders /\ req \in [Slots -> Handler]
  BY DEF Base, Kept, TypeOK
<1>1. /\ req' = [req EXCEPT ![<<r, 1>>] = K] /\ UNCHANGED <<mail, rows, relay>>
      /\ client' = [client EXCEPT ![m] = "waiting"] /\ client[m] = "wants"
      /\ Recipients(mail[m]) # {}
  BY DEF Start, Step
<1>2. /\ K.pc \in {"resolve", "insert"} /\ (mail[m].via = "inbound" => K.pc = "resolve")
      /\ K.msg = m /\ K.mail = mail[m] /\ K.todo = Recipients(mail[m])
      /\ K.bad = {} /\ K.status = "ok" /\ ~K.deaf
  BY DEF Fresh, Idle
<1> HIDE DEF K
<1>3. Served(K, rows, relay)
  BY <1>2 DEF Served, Pending
<1>4. Hope(K)
  <2>1. Unknown(mail[m]) \subseteq Recipients(mail[m])
    BY DEF Unknown
  <2> QED
    BY <1>2, <2>1 DEF Hope
<1>5. \A x \in Msgs : client'[x] = IF x = m THEN "waiting" ELSE client[x]
  BY <1>0, <1>1 DEF TypeOK
<1>6. <<r, 1>> \in Slots /\ \A q \in Reqs : <<q, 1>> \in Slots
  BY DEF Slots, Levels
<1>7. req'[<<r, 1>>] = K /\ \A q \in Reqs : q # r => req'[<<q, 1>>] = req[<<q, 1>>]
  BY <1>0, <1>1, <1>6
<1>8. Senders'
  <2>1. ASSUME NEW q \in Reqs, NEW x \in Msgs, Active(q, x)'
        PROVE  /\ req'[<<q, 1>>].mail = mail'[x] /\ Recipients(mail'[x]) # {}
               /\ ~req'[<<q, 1>>].deaf => client'[x] = "waiting"
    <3>1. CASE q = r
      <4>1. x = m
        BY <1>2, <1>7, <2>1, <3>1 DEF Active
      <4> QED
        BY <1>1, <1>2, <1>5, <1>7, <3>1, <4>1
    <3>2. CASE q # r
      <4>1. Active(q, x) /\ req'[<<q, 1>>] = req[<<q, 1>>]
        BY <1>7, <2>1, <3>2 DEF Active
      <4> QED
        BY <1>0, <1>1, <1>5, <4>1 DEF Senders
    <3> QED
      BY <3>1, <3>2
  <2>2. ASSUME NEW q \in Reqs, NEW x \in Msgs, Active(q, x)', ~req'[<<q, 1>>].deaf
        PROVE  IF x = m THEN q = r ELSE q # r /\ Active(q, x) /\ ~req[<<q, 1>>].deaf
    <3>1. CASE q = r
      BY <1>2, <1>7, <2>2, <3>1 DEF Active
    <3>2. CASE q # r
      <4>1. Active(q, x) /\ ~req[<<q, 1>>].deaf
        BY <1>7, <2>2, <3>2 DEF Active
      <4>2. client[x] = "waiting"
        BY <1>0, <4>1 DEF Senders
      <4> QED
        BY <1>1, <3>2, <4>1, <4>2
    <3> QED
      BY <3>1, <3>2
  <2>3. ASSUME NEW q \in Reqs, NEW t \in Reqs, NEW x \in Msgs, Active(q, x)', Active(t, x)',
               ~req'[<<q, 1>>].deaf, ~req'[<<t, 1>>].deaf
        PROVE  q = t
    <3>1. CASE x = m
      BY <2>2, <2>3, <3>1
    <3>2. CASE x # m
      <4>1. Active(q, x) /\ Active(t, x) /\ ~req[<<q, 1>>].deaf /\ ~req[<<t, 1>>].deaf
        BY <2>2, <2>3, <3>2
      <4> QED
        BY <1>0, <4>1 DEF Senders
    <3> QED
      BY <3>1, <3>2
  <2> QED
    BY <2>1, <2>3 DEF Senders
<1>9. \A x \in Msgs : ~(client'[x] = "ok" /\ client[x] # "ok")
  BY <1>5
<1> QED
  BY <1>0, <1>1, <1>3, <1>4, <1>8, <1>9, KeptSlot

\* Steps that touch no handler and no table.
LEMMA KeptQuiet ==
  ASSUME Kept, UNCHANGED <<mail, req, rows, relay>>,
         \A m \in Msgs : \/ client'[m] = client[m]
                         \/ client[m] # "waiting" /\ client'[m] # "ok"
  PROVE  Kept'
<1>1. Senders'
  <2>1. \A q \in Reqs, m \in Msgs : Active(q, m)' <=> Active(q, m)
    BY DEF Active
  <2> QED
    BY <2>1 DEF Kept, Senders
<1>2. Covered'
  BY DEF Kept, Covered
<1>3. Hopeless'
  BY DEF Kept, Hopeless, Reached
<1>4. Accepted'
  BY DEF Kept, Accepted, Reached
<1> QED
  BY <1>1, <1>2, <1>3, <1>4 DEF Kept

LEMMA KeptCrash ==
  ASSUME Base, Kept, Crash
  PROVE  Kept'
<1>1. /\ UNCHANGED <<mail, rows, relay>> /\ req' = [s \in Slots |-> NoReq]
      /\ client' = [m \in Msgs |-> IF client[m] = "waiting" THEN "failed" ELSE client[m]]
  BY DEF Crash
<1>2. \A q \in Reqs : req'[<<q, 1>>].pc = "idle"
  BY <1>1, NoReqShape DEF Slots, Levels
<1>3. Senders'
  BY <1>2 DEF Senders, Active
<1>4. Covered'
  BY <1>2 DEF Covered, Served, Promised
<1>5. Hopeless'
  <2>1. \A q \in Reqs : Hope(req'[<<q, 1>>])
    BY <1>2 DEF Hope
  <2>2. \A m \in Msgs : Doomed(mail'[m]) => \A a \in Addrs : ~Reached(m, a)'
    BY <1>1 DEF Kept, Hopeless, Reached
  <2> QED
    BY <2>1, <2>2 DEF Hopeless
<1>6. Accepted'
  <2>1. \A m \in Msgs : client'[m] = "ok" => client[m] = "ok"
    BY <1>1
  <2> QED
    BY <1>1, <2>1 DEF Kept, Accepted, Reached
<1> QED
  BY <1>3, <1>4, <1>5, <1>6 DEF Kept

\* Nobody is reached before anything is sent.
LEMMA NobodyYet ==
  ASSUME Init
  PROVE  \A m \in Msgs, a \in Addrs : ~Reached(m, a)
<1> SUFFICES ASSUME NEW m \in Msgs, NEW a \in Addrs, Reached(m, a) PROVE FALSE
  OBVIOUS
<1>1. <<m, a>> \in Msgs \X Addrs /\ rows = <<>> /\ relay = [p \in Msgs \X Addrs |-> 0]
  BY DEF Init
<1>2. relay[<<m, a>>] = 0
  BY <1>1
<1> QED
  BY <1>1, <1>2 DEF Reached

LEMMA KeptInit == Init => Kept
<1> SUFFICES ASSUME Init PROVE Kept
  OBVIOUS
<1>1. \A q \in Reqs : req[<<q, 1>>].pc = "idle"
  BY NoReqShape DEF Init, Slots, Levels
<1>2. \A m \in Msgs, a \in Addrs : ~Reached(m, a)
  BY NobodyYet
<1>3. Senders /\ Covered
  BY <1>1 DEF Senders, Active, Covered, Served, Promised
<1>4. Hopeless
  BY <1>1, <1>2 DEF Hopeless, Hope
<1>5. Accepted
  BY DEF Accepted, Init
<1> QED
  BY <1>3, <1>4, <1>5 DEF Kept

LEMMA KeptInvariant == Spec => [](Base /\ Kept)
<1>1. Init => Kept
  BY KeptInit
<1>2. Base /\ Kept /\ [Next]_vars => Kept'
  <2> SUFFICES ASSUME Base, Kept, [Next]_vars PROVE Kept'
    OBVIOUS
  <2>0. TypeOK
    BY DEF Base
  <2>1. CASE UNCHANGED vars
    BY <2>1, KeptQuiet DEF vars
  <2>2. ASSUME NEW s \in Slots, Handling(s) \/ Failing(s) PROVE Kept'
    BY <2>2, KeptHandling
  <2>3. ASSUME NEW r \in Reqs, NEW m \in Msgs, Start(r, m) PROVE Kept'
    BY <2>3, KeptStart
  <2>4. ASSUME NEW m \in Msgs, StartRefused(m) \/ Retry(m) PROVE Kept'
    <3>1. /\ UNCHANGED <<mail, req, rows, relay>> /\ client[m] # "waiting"
          /\ client' = [client EXCEPT ![m] = "rejected"] \/ client' = [client EXCEPT ![m] = "wants"]
      BY <2>4 DEF StartRefused, Retry
    <3>2. \A x \in Msgs : \/ client'[x] = client[x]
                          \/ client[x] # "waiting" /\ client'[x] # "ok"
      BY <2>0, <3>1 DEF TypeOK
    <3> QED
      BY <3>1, <3>2, KeptQuiet
  <2>5. ASSUME NEW r \in Reqs, Receive(r) \/ LoseAnswer(r) \/ GiveUp(r) PROVE Kept'
    BY <2>5, KeptAnswer, KeptGiveUp
  <2>6. ASSUME NEW p \in Users \X Addrs, DayPasses(p) PROVE Kept'
    BY <2>6, KeptQuiet DEF DayPasses
  <2>7. CASE Crash
    BY <2>7, KeptCrash
  <2> QED
    BY <2>1, <2>2, <2>3, <2>4, <2>5, <2>6, <2>7 DEF Next
<1> QED
  BY <1>1, <1>2, BaseInvariant, PTL DEF Spec

\* Who was told that a message is accepted can rely on it, on all four paths: every recipient
\* has it or the relay took it, whatever failed, crashed or was repeated before (the answers
\* of Inbound.ServeHTTP, sendComposed, Server.handle and deliverReply).
THEOREM AcceptedReached == Spec => []Accepted
<1>1. Kept => Accepted
  BY DEF Kept
<1> QED
  BY <1>1, KeptInvariant, PTL


-----------------------------------------------------------------------------
(* The promise to senders is kept: Delivery implements MailPromise. *)

ReachedNow == {p \in Msgs \X Addrs : Reached(p[1], p[2])}
Verdict == [m \in Msgs |-> IF client[m] \in {"ok", "rejected"} THEN client[m] ELSE "open"]

\* Steps that change no verdict and no recipient's luck.
LEMMA PromiseStutter ==
  ASSUME mail' = mail, ReachedNow' = ReachedNow, Verdict' = Verdict
  PROVE  UNCHANGED Promise!vars
BY DEF Promise!vars, ReachedNow, Verdict

LEMMA PromiseReach ==
  ASSUME mail' = mail, ReachedNow \subseteq ReachedNow', Verdict' = Verdict
  PROVE  Promise!Next
<1>1. ReachedNow' \in SUBSET (Msgs \X Addrs)
  BY DEF ReachedNow
<1> QED
  BY <1>1 DEF Promise!Next, Promise!Reach, ReachedNow, Verdict

LEMMA PromiseAccept ==
  ASSUME NEW m \in Msgs, mail' = mail, ReachedNow' = ReachedNow, Verdict[m] = "open",
         \A a \in Recipients(mail[m]) : <<m, a>> \in ReachedNow,
         Verdict' = [Verdict EXCEPT ![m] = "ok"]
  PROVE  Promise!Next
<1>1. Promise!Accept(m)
  BY DEF Promise!Accept, ReachedNow, Verdict
<1> QED
  BY <1>1 DEF Promise!Next

LEMMA PromiseRefuse ==
  ASSUME NEW m \in Msgs, mail' = mail, ReachedNow' = ReachedNow, Verdict[m] = "open",
         mail[m].via = "inbound" => \A a \in Addrs : <<m, a>> \notin ReachedNow,
         Verdict' = [Verdict EXCEPT ![m] = "rejected"]
  PROVE  Promise!Next
<1>1. Promise!Refuse(m)
  BY DEF Promise!Refuse, ReachedNow, Verdict
<1> QED
  BY <1>1 DEF Promise!Next


\* How a change of what one client knows looks to the promise.
LEMMA VerdictOpen ==
  ASSUME \A m \in Msgs : \/ client'[m] = client[m]
                         \/ /\ client[m] \notin {"ok", "rejected"}
                            /\ client'[m] \notin {"ok", "rejected"}
  PROVE  Verdict' = Verdict
<1>1. \A m \in Msgs : (IF client'[m] \in {"ok", "rejected"} THEN client'[m] ELSE "open")
                      = (IF client[m] \in {"ok", "rejected"} THEN client[m] ELSE "open")
  OBVIOUS
<1> QED
  BY <1>1 DEF Verdict

LEMMA VerdictGiven ==
  ASSUME NEW m \in Msgs, NEW st \in {"ok", "rejected"}, client[m] \notin {"ok", "rejected"},
         \A x \in Msgs : client'[x] = IF x = m THEN st ELSE client[x]
  PROVE  Verdict[m] = "open" /\ Verdict' = [Verdict EXCEPT ![m] = st]
<1>1. Verdict[m] = "open"
  BY DEF Verdict
<1>2. \A x \in Msgs : (IF client'[x] \in {"ok", "rejected"} THEN client'[x] ELSE "open")
        = (IF x = m THEN st ELSE (IF client[x] \in {"ok", "rejected"} THEN client[x] ELSE "open"))
  OBVIOUS
<1>3. Verdict' = [x \in Msgs |-> IF x = m THEN st ELSE Verdict[x]]
  BY <1>2 DEF Verdict
<1>4. [Verdict EXCEPT ![m] = st] = [x \in Msgs |-> IF x = m THEN st ELSE Verdict[x]]
  BY DEF Verdict
<1> QED
  BY <1>1, <1>3, <1>4

LEMMA ReachedSame ==
  ASSUME UNCHANGED <<rows, relay>>
  PROVE  ReachedNow' = ReachedNow
BY DEF ReachedNow, Reached

\* A message that must be refused as a whole has reached nobody.
LEMMA RefusedReached ==
  ASSUME Kept, NEW m \in Msgs, mail[m].via = "inbound" => Doomed(mail[m])
  PROVE  mail[m].via = "inbound" => \A a \in Addrs : <<m, a>> \notin ReachedNow
BY DEF Kept, Hopeless, ReachedNow

\* The handler's answer is the first verdict on its message.
LEMMA WaitingClient ==
  ASSUME Base, Kept, NEW r \in Reqs, req[<<r, 1>>].pc # "idle", ~req[<<r, 1>>].deaf
  PROVE  /\ req[<<r, 1>>].msg \in Msgs /\ client[req[<<r, 1>>].msg] = "waiting"
         /\ req[<<r, 1>>].mail = mail[req[<<r, 1>>].msg]
<1>1. <<r, 1>> \in Slots
  BY DEF Slots, Levels
<1>2. req[<<r, 1>>].msg \in Msgs
  BY <1>1 DEF Base, TypeOK, Handler
<1> QED
  BY <1>2 DEF Kept, Senders, Active

LEMMA PromiseReceive ==
  ASSUME Base, Kept, NEW r \in Reqs, Receive(r)
  PROVE  Promise!Next \/ UNCHANGED Promise!vars
<1> DEFINE h == req[<<r, 1>>]
<1>0. TypeOK /\ h.pc = "answer" /\ mail' = mail /\ UNCHANGED <<rows, relay>>
  BY DEF Base, Receive
<1>1. ReachedNow' = ReachedNow
  BY <1>0, ReachedSame
<1>2. CASE h.deaf
  <2>1. client' = client
    BY <1>2 DEF Receive
  <2>2. Verdict' = Verdict
    BY <2>1, VerdictOpen
  <2> QED
    BY <1>0, <1>1, <2>2, PromiseStutter
<1>3. CASE ~h.deaf
  <2>1. h.msg \in Msgs /\ client[h.msg] = "waiting" /\ h.mail = mail[h.msg]
    BY <1>0, <1>3, WaitingClient
  <2>2. client' = [client EXCEPT ![h.msg] = h.status]
    BY <1>3 DEF Receive
  <2>3. \A x \in Msgs : client'[x] = IF x = h.msg THEN h.status ELSE client[x]
    BY <1>0, <2>1, <2>2 DEF TypeOK
  <2>4. h.status \in {"ok", "rejected", "failed"}
    BY <1>0 DEF TypeOK, Handler, Slots, Levels
  <2>5. CASE h.status = "failed"
    <3>1. Verdict' = Verdict
      BY <2>1, <2>3, <2>5, VerdictOpen
    <3> QED
      BY <1>0, <1>1, <3>1, PromiseStutter
  <2>6. CASE h.status = "ok"
    <3>1. Ok(h)
      BY <1>0, <2>6 DEF Ok
    <3>2. \A a \in Recipients(mail[h.msg]) : Reached(h.msg, a)
      BY <3>1, OkReaches
    <3>3. Recipients(mail[h.msg]) \subseteq Addrs
      BY <1>0, <2>1, MailFacts
    <3>4. \A a \in Recipients(mail[h.msg]) : <<h.msg, a>> \in ReachedNow
      BY <2>1, <3>2, <3>3 DEF ReachedNow
    <3>5. Verdict[h.msg] = "open" /\ Verdict' = [Verdict EXCEPT ![h.msg] = "ok"]
      BY <2>1, <2>3, <2>6, VerdictGiven
    <3> QED
      BY <1>0, <1>1, <2>1, <3>4, <3>5, PromiseAccept
  <2>7. CASE h.status = "rejected"
    <3>1. Hope(h)
      BY DEF Kept, Hopeless
    <3>2. mail[h.msg].via = "inbound" => Doomed(mail[h.msg])
      BY <1>0, <2>1, <2>7, <3>1 DEF Hope, Doomed
    <3>3. mail[h.msg].via = "inbound" => \A a \in Addrs : <<h.msg, a>> \notin ReachedNow
      BY <2>1, <3>2, RefusedReached
    <3>4. Verdict[h.msg] = "open" /\ Verdict' = [Verdict EXCEPT ![h.msg] = "rejected"]
      BY <2>1, <2>3, <2>7, VerdictGiven
    <3> QED
      BY <1>0, <1>1, <2>1, <3>3, <3>4, PromiseRefuse
  <2> QED
    BY <2>4, <2>5, <2>6, <2>7
<1> QED
  BY <1>2, <1>3

\* The remaining steps give no verdict, but for a message without recipients.
LEMMA PromiseOther ==
  ASSUME Base, Kept,
         \/ \E r \in Reqs, m \in Msgs : Start(r, m)
         \/ \E m \in Msgs : Retry(m)
         \/ \E r \in Reqs : LoseAnswer(r) \/ GiveUp(r)
         \/ \E p \in Users \X Addrs : DayPasses(p)
         \/ Crash
         \/ UNCHANGED vars
  PROVE  UNCHANGED Promise!vars
<1>0. TypeOK
  BY DEF Base
<1>1. mail' = mail /\ UNCHANGED <<rows, relay>>
  BY DEF Start, Retry, LoseAnswer, GiveUp, DayPasses, Crash, vars
<1>2. \A m \in Msgs : \/ client'[m] = client[m]
                      \/ /\ client[m] \notin {"ok", "rejected"}
                         /\ client'[m] \notin {"ok", "rejected"}
  <2>1. ASSUME NEW r \in Reqs, NEW m \in Msgs, Start(r, m)
        PROVE  client' = [client EXCEPT ![m] = "waiting"] /\ client[m] = "wants"
    BY <2>1 DEF Start
  <2>2. ASSUME NEW m \in Msgs, Retry(m)
        PROVE  client' = [client EXCEPT ![m] = "wants"] /\ client[m] = "failed"
    BY <2>2 DEF Retry
  <2>3. ASSUME NEW r \in Reqs, LoseAnswer(r) \/ GiveUp(r)
        PROVE  \E m \in Msgs : client' = [client EXCEPT ![m] = "failed"] /\ client[m] = "waiting"
    <3>1. req[<<r, 1>>].pc # "idle" /\ ~req[<<r, 1>>].deaf
          /\ client' = [client EXCEPT ![req[<<r, 1>>].msg] = "failed"]
      BY <2>3 DEF LoseAnswer, GiveUp
    <3> QED
      BY <3>1, WaitingClient
  <2>4. CASE Crash
    BY <2>4 DEF Crash
  <2>5. CASE client' = client
    BY <2>5
  <2>6. CASE \E m \in Msgs : \/ client' = [client EXCEPT ![m] = "waiting"] /\ client[m] = "wants"
                             \/ client' = [client EXCEPT ![m] = "wants"] /\ client[m] = "failed"
                             \/ client' = [client EXCEPT ![m] = "failed"] /\ client[m] = "waiting"
    BY <1>0, <2>6 DEF TypeOK
  <2>7. (\E p \in Users \X Addrs : DayPasses(p)) \/ UNCHANGED vars => client' = client
    BY DEF DayPasses, vars
  <2> QED
    BY <2>1, <2>2, <2>3, <2>4, <2>5, <2>6, <2>7
<1>3. Verdict' = Verdict
  BY <1>2, VerdictOpen
<1> QED
  BY <1>1, <1>3, ReachedSame, PromiseStutter

LEMMA PromiseRefused ==
  ASSUME Base, Kept, NEW m \in Msgs, StartRefused(m)
  PROVE  Promise!Next
<1>0. TypeOK
  BY DEF Base
<1>1. /\ mail' = mail /\ UNCHANGED <<rows, relay>> /\ client[m] = "wants"
      /\ Recipients(mail[m]) = {} /\ client' = [client EXCEPT ![m] = "rejected"]
  BY DEF StartRefused
<1>2. mail[m].via = "inbound" => Doomed(mail[m])
  BY <1>1 DEF Doomed
<1>3. \A x \in Msgs : client'[x] = IF x = m THEN "rejected" ELSE client[x]
  BY <1>0, <1>1 DEF TypeOK
<1>4. Verdict[m] = "open" /\ Verdict' = [Verdict EXCEPT ![m] = "rejected"]
  BY <1>1, <1>3, VerdictGiven
<1>5. mail[m].via = "inbound" => \A a \in Addrs : <<m, a>> \notin ReachedNow
  BY <1>2, RefusedReached
<1> QED
  BY <1>1, <1>4, <1>5, ReachedSame, PromiseRefuse

LEMMA PromiseHandling ==
  ASSUME Base, Kept, NEW s \in Slots, Handling(s) \/ Failing(s)
  PROVE  Promise!Next
<1>0. TypeOK
  BY DEF Base
<1>1. /\ Grows(rows, rows') /\ Counts(relay, relay') /\ rows' \in Seq(Row)
      /\ mail' = mail /\ client' = client
  BY HandlingStep
<1>2. ReachedNow \subseteq ReachedNow'
  <2> SUFFICES ASSUME NEW p \in Msgs \X Addrs, Reached(p[1], p[2])
               PROVE  Reached(p[1], p[2])'
    BY DEF ReachedNow
  <2>1. p[1] \in Msgs /\ p[2] \in Addrs
    OBVIOUS
  <2> QED
    BY <1>0, <1>1, <2>1, ReachedStays
<1>3. Verdict' = Verdict
  BY <1>1, VerdictOpen
<1> QED
  BY <1>1, <1>2, <1>3, PromiseReach

\* Delivery implements MailPromise: verdicts are final, an accepted message has reached every
\* recipient, and what the inbound API refuses (550 for an unknown address) has reached
\* nobody.
THEOREM ImplementsPromise == Spec => KeepsPromise
<1>1. Init => Promise!Init
  <2> SUFFICES ASSUME Init PROVE Promise!Init
    OBVIOUS
  <2>1. TypeOK /\ Base
    BY BaseInit DEF Base
  <2>2. [m \in Msgs |-> Recipients(mail[m])] \in [Msgs -> SUBSET Addrs]
    BY <2>1, MailFacts
  <2>3. \A m \in Msgs, a \in Addrs : ~Reached(m, a)
    BY NobodyYet
  <2>4. {p \in Msgs \X Addrs : Reached(p[1], p[2])} = {}
    BY <2>3
  <2>5. [m \in Msgs |-> IF client[m] \in {"ok", "rejected"} THEN client[m] ELSE "open"]
        = [m \in Msgs |-> "open"]
    BY DEF Init
  <2>6. {m \in Msgs : mail[m].via = "inbound"} \in SUBSET Msgs
    OBVIOUS
  <2> QED
    BY <2>2, <2>4, <2>5, <2>6 DEF Promise!Init
<1>2. Base /\ Kept /\ [Next]_vars => [Promise!Next]_(Promise!vars)
  <2> SUFFICES ASSUME Base, Kept, [Next]_vars PROVE Promise!Next \/ UNCHANGED Promise!vars
    OBVIOUS
  <2>1. ASSUME NEW s \in Slots, Handling(s) \/ Failing(s) PROVE Promise!Next
    BY <2>1, PromiseHandling
  <2>2. ASSUME NEW m \in Msgs, StartRefused(m) PROVE Promise!Next
    BY <2>2, PromiseRefused
  <2>3. ASSUME NEW r \in Reqs, Receive(r) PROVE Promise!Next \/ UNCHANGED Promise!vars
    BY <2>3, PromiseReceive
  <2> QED
    BY <2>1, <2>2, <2>3, PromiseOther DEF Next
<1> QED
  BY <1>1, <1>2, KeptInvariant, PTL DEF Spec, KeepsPromise, Promise!Spec


-----------------------------------------------------------------------------
(* Without faults every row is finished. *)

LEMMA StageMonotone ==
  ASSUME NEW rs \in Seq(Row), NEW rs2 \in Seq(Row), Grows(rs, rs2), NEW i \in 1..Len(rs)
  PROVE  /\ Whole(rs[i]) => Whole(rs2[i])
         /\ \A h : Held(h, i, rs) => Held(h, i, rs2)
BY DEF Grows, Whole, Stage, Held

LEMMA MarkedRow ==
  ASSUME NEW rs \in Seq(Row), NEW n \in 1..Len(rs)
  PROVE  /\ [rs EXCEPT ![n].src = TRUE][n] = [rs[n] EXCEPT !.src = TRUE]
         /\ [rs EXCEPT ![n].att = TRUE][n] = [rs[n] EXCEPT !.att = TRUE]
         /\ [rs EXCEPT ![n].fed = TRUE][n] = [rs[n] EXCEPT !.fed = TRUE]
         /\ [rs EXCEPT ![n].told = TRUE][n] = [rs[n] EXCEPT !.told = TRUE]
<1>1. n \in DOMAIN rs
  BY LenProperties
<1>2. \A w : [rs EXCEPT ![n] = w][n] = w
  BY <1>1
<1> QED
  BY <1>2, Zenon

\* A handler that goes on without a fault keeps its row, or leaves it complete.
LEMMA StageKept ==
  ASSUME Base, NEW s \in Slots, Simple(s), ~Failing(s), req[s].pc \in HasRow,
         Stage(req[s], rows[req[s].row])
  PROVE  Whole(rows'[req[s].row]) \/ Held(req'[s], req[s].row, rows')
<1> DEFINE h == req[s]
           n == h.row
           k == req'[s]
<1>0. /\ TypeOK /\ h \in Handler /\ HandlerOK(h) /\ RowOK(h, rows) /\ rows \in Seq(Row)
  BY DEF Base, TypeOK
<1>1. n \in 1..Len(rows) /\ rows[n].box = h.box /\ rows[n] \in Row
  <2>1. n \in 1..Len(rows) /\ rows[n].box = h.box
    BY <1>0 DEF RowOK
  <2> QED
    BY <1>0, <2>1, ElementOfSeq
<1>2. Grows(rows, rows') /\ rows' \in Seq(Row)
  BY SimpleStep DEF Writes
<1>3. /\ rows'[n].box = h.box
      /\ (rows[n].src => rows'[n].src) /\ (rows[n].att => rows'[n].att) /\ (rows[n].fed => rows'[n].fed)
  BY <1>1, <1>2 DEF Grows
<1>4. CASE SetPath(s)
  <2>1. rows'[n].src
    <3>1. rows' = [rows EXCEPT ![n].src = TRUE]
      BY <1>4 DEF SetPath
    <3>2. rows'[n] = [rows[n] EXCEPT !.src = TRUE]
      BY <1>0, <1>1, <3>1, MarkedRow
    <3> QED
      BY <1>1, <3>2 DEF Row
  <2>2. k.pc = "attach" /\ k.row = n
    BY <1>0, <1>4, StepTo DEF SetPath, Handler
  <2> QED
    BY <2>1, <2>2 DEF Held, Stage, HasRow
<1>5. CASE InsertAttachment(s)
  <2>1. rows'[n].att
    <3>1. rows' = [rows EXCEPT ![n].att = TRUE]
      BY <1>5 DEF InsertAttachment
    <3>2. rows'[n] = [rows[n] EXCEPT !.att = TRUE]
      BY <1>0, <1>1, <3>1, MarkedRow
    <3> QED
      BY <1>1, <3>2 DEF Row
  <2>2. k.pc = "change" /\ k.row = n
    BY <1>0, <1>5, StepTo DEF InsertAttachment, Handler
  <2>3. rows'[n].src
    BY <1>3, <1>5 DEF InsertAttachment, Stage
  <2> QED
    BY <2>1, <2>2, <2>3 DEF Held, Stage, HasRow
<1>6. CASE AddChange(s)
  <2>1. rows'[n].fed
    <3>1. rows' = [rows EXCEPT ![n].fed = TRUE]
      BY <1>6 DEF AddChange
    <3>2. rows'[n] = [rows[n] EXCEPT !.fed = TRUE]
      BY <1>0, <1>1, <3>1, MarkedRow
    <3> QED
      BY <1>1, <3>2 DEF Row
  <2>2. rows'[n].src /\ rows'[n].att
    BY <1>3, <1>6 DEF AddChange, Stage
  <2>3. CASE h.box = "inbox"
    <3>1. k.pc = "hook" /\ k.row = n
      BY <1>0, <1>6, <2>3, StepTo DEF AddChange, AfterChange, Handler
    <3> QED
      BY <2>1, <2>2, <3>1 DEF Held, Stage, HasRow
  <2>4. CASE h.box # "inbox"
    BY <1>3, <2>1, <2>2, <2>4 DEF Whole
  <2> QED
    BY <2>3, <2>4
<1>7. CASE NoNotice(s)
  <2>1. k.pc = "publish" /\ k.row = n
    BY <1>0, <1>7, StepTo DEF NoNotice, Handler
  <2>2. rows'[n].src /\ rows'[n].att /\ rows'[n].fed
    BY <1>3, <1>7 DEF NoNotice, Stage
  <2> QED
    BY <2>1, <2>2 DEF Held, Stage, HasRow
<1>8. CASE Publish(s)
  <2>1. rows'[n].told
    <3>1. rows' = [rows EXCEPT ![n].told = TRUE]
      BY <1>8 DEF Publish
    <3>2. rows'[n] = [rows[n] EXCEPT !.told = TRUE]
      BY <1>0, <1>1, <3>1, MarkedRow
    <3> QED
      BY <1>1, <3>2 DEF Row
  <2>2. rows'[n].src /\ rows'[n].att /\ rows'[n].fed
    BY <1>3, <1>8 DEF Publish, Stage
  <2> QED
    BY <2>1, <2>2 DEF Whole
<1>9. SetPath(s) \/ InsertAttachment(s) \/ AddChange(s) \/ NoNotice(s) \/ Publish(s)
  BY DEF Simple, HasRow, ResolveLocal, ResolveOther, Routed, Relay, NextJob, Forward, JobsDone,
         Check, InsertRow
<1> QED
  BY <1>4, <1>5, <1>6, <1>7, <1>8, <1>9

\* The rows after a step of a handler that does not fail.
RowsFinish(rs, f) ==
  \A i \in 1..Len(rs) : ~rs[i].reply => Whole(rs[i]) \/ \E r \in Reqs : Held(f[<<r, 1>>], i, rs)

LEMMA FinishSimple ==
  ASSUME Base, Senders, NEW s \in Slots, Simple(s), ~Failing(s), RowsFinish(rows, req)
  PROVE  RowsFinish(rows', req')
<1> DEFINE h == req[s]
           k == req'[s]
<1>0. /\ TypeOK /\ Nesting /\ RowOK(h, rows) /\ rows \in Seq(Row) /\ HandlerOK(h)
      /\ req \in [Slots -> Handler] /\ h \in Handler
  BY DEF Base, TypeOK
<1>1. /\ req' = [req EXCEPT ![s] = k] /\ Writes(h, rows, rows') /\ s[2] \in {1, 2}
      /\ h.pc # "idle" /\ RowOK(k, rows')
  BY SimpleStep DEF Moved, Keeps
<1>2. /\ Len(rows) \in Nat /\ Len(rows') \in Nat /\ rows' \in Seq(Row) /\ Grows(rows, rows')
  BY <1>0, <1>1, LenProperties DEF Writes
<1>3. \A t \in Slots : t # s => req'[t] = req[t]
  BY <1>0, <1>1
<1>4. s[1] \in Reqs /\ s = <<s[1], s[2]>> /\ \A q \in Reqs : <<q, 1>> \in Slots
  BY SlotParts DEF Slots, Levels
<1> SUFFICES ASSUME NEW i \in 1..Len(rows'), ~rows'[i].reply
             PROVE  Whole(rows'[i]) \/ \E r \in Reqs : Held(req'[<<r, 1>>], i, rows')
  BY DEF RowsFinish
<1>5. s[2] = 2 => h.mail.via = "auto"
  <2> SUFFICES ASSUME s[2] = 2 PROVE h.mail.via = "auto"
    OBVIOUS
  <2>1. s = <<s[1], 2>>
    BY <1>4
  <2> QED
    BY <1>0, <1>1, <1>4, <2>1 DEF Nesting
<1>6. CASE i \in 1..Len(rows)
  <2>1. ~rows[i].reply
    BY <1>2, <1>6 DEF Grows
  <2>2. CASE Whole(rows[i])
    BY <1>0, <1>2, <1>6, <2>2, StageMonotone
  <2>3. ASSUME NEW r \in Reqs, Held(req[<<r, 1>>], i, rows)
        PROVE  Whole(rows'[i]) \/ \E q \in Reqs : Held(req'[<<q, 1>>], i, rows')
    <3>1. CASE <<r, 1>> = s
      <4>1. h.pc \in HasRow /\ h.row = i /\ Stage(h, rows[h.row])
        BY <2>3, <3>1 DEF Held
      <4>2. Whole(rows'[i]) \/ Held(req'[s], i, rows')
        BY <4>1, StageKept
      <4> QED
        BY <3>1, <4>2
    <3>2. CASE <<r, 1>> # s
      <4>1. req'[<<r, 1>>] = req[<<r, 1>>]
        BY <1>3, <1>4, <3>2
      <4>2. Held(req[<<r, 1>>], i, rows')
        BY <1>0, <1>2, <1>6, <2>3, StageMonotone
      <4> QED
        BY <4>1, <4>2
    <3> QED
      BY <3>1, <3>2
  <2> QED
    BY <1>6, <2>1, <2>2, <2>3 DEF RowsFinish
<1>7. CASE ~(i \in 1..Len(rows))
  <2>1. i > Len(rows)
    BY <1>2, <1>7
  <2>2. h.pc = "insert" /\ i = Len(rows) + 1 /\ rows'[i] = NewRow(h)
    BY <1>1, <2>1 DEF Writes
  <2>3. h.mail.via # "auto"
    BY <2>2, NewRowFields
  <2>4. s = <<s[1], 1>>
    BY <1>1, <1>4, <1>5, <2>3
  <2>5. InsertRow(s)
    BY <2>2 DEF Simple, ResolveLocal, ResolveOther, Routed, Relay, NextJob, Forward, JobsDone,
                Check, SetPath, InsertAttachment, AddChange, NoNotice, Publish
  <2>6. k.pc = "source" /\ k.row = i
    BY <1>0, <2>2, <2>5, InsertedRow
  <2>7. Held(k, i, rows')
    BY <2>6 DEF Held, Stage, HasRow
  <2> QED
    BY <1>4, <2>4, <2>7
<1> QED
  BY <1>6, <1>7


\* The clients' side of Finishing, which steps of handlers do not touch.
LEMMA FinishHandling ==
  ASSUME Base, Kept, Finishing, NEW s \in Slots, Handling(s) \/ Failing(s)
  PROVE  Finishing'
<1> SUFFICES ASSUME faults' = 0
             PROVE  /\ \A r \in Reqs : ~req'[<<r, 1>>].deaf
                    /\ RowsFinish(rows', req')
                    /\ \A m \in Msgs : client'[m] = "ok" => \A r \in Reqs : ~Active(r, m)'
  BY DEF Finishing, RowsFinish
<1>0. TypeOK /\ Senders /\ faults \in Nat /\ req \in [Slots -> Handler] /\ rows \in Seq(Row)
  BY DEF Base, Kept, TypeOK
<1>1. ~Failing(s) /\ faults = 0
  <2>1. CASE Simple(s)
    <3>1. faults' = faults \/ (Failing(s) /\ faults' = faults + 1)
      BY <1>0, <2>1, SimpleCounters
    <3>2. Failing(s) => faults' = faults + 1
      BY DEF Failing, ResolveFails, RelayFails, ForwardFails, CheckFails, InsertFails,
             RecordFails, Fault
    <3> QED
      BY <1>0, <3>1, <3>2
  <2>2. CASE OofReply(s) \/ OofReturns(s)
    <3>1. faults' = faults
      BY <2>2 DEF OofReply, OofReturns
    <3>2. Failing(s) => faults' = faults + 1
      BY DEF Failing, ResolveFails, RelayFails, ForwardFails, CheckFails, InsertFails,
             RecordFails, Fault
    <3> QED
      BY <1>0, <3>1, <3>2
  <2> QED
    BY <2>1, <2>2, HandlingParts
<1>2. /\ \A r \in Reqs : ~req[<<r, 1>>].deaf
      /\ RowsFinish(rows, req)
      /\ \A m \in Msgs : client[m] = "ok" => \A r \in Reqs : ~Active(r, m)
  BY <1>1 DEF Finishing, RowsFinish
<1>3. PICK r \in Reqs :
        /\ \A q \in Reqs : q # r => req'[<<q, 1>>] = req[<<q, 1>>]
        /\ \/ req'[<<r, 1>>] = req[<<r, 1>>]
           \/ Progress(req[<<r, 1>>], req'[<<r, 1>>], rows', relay')
        /\ client' = client
  BY HandlingStep
<1>4. ASSUME NEW q \in Reqs
      PROVE  /\ req'[<<q, 1>>].deaf = req[<<q, 1>>].deaf /\ req'[<<q, 1>>].msg = req[<<q, 1>>].msg
             /\ req'[<<q, 1>>].pc # "idle" <=> req[<<q, 1>>].pc # "idle"
  <2>1. CASE q = r
    BY <1>3, <2>1 DEF Progress
  <2>2. CASE q # r
    BY <1>3, <2>2
  <2> QED
    BY <2>1, <2>2
<1>5. \A q \in Reqs, m \in Msgs : Active(q, m)' <=> Active(q, m)
  BY <1>4 DEF Active
<1>6. RowsFinish(rows', req')
  <2>1. CASE Simple(s)
    BY <1>0, <1>1, <1>2, <2>1, FinishSimple
  <2>2. CASE OofReply(s) \/ (s[2] < 3 /\ OofReturns(s))
    <3>1. rows' = rows
      BY <2>2 DEF OofReply, OofReturns
    <3>2. PICK q, F, p :
            /\ q \in Reqs
            /\ \/ req[<<q, 1>>].pc = "hook" /\ p = "wait"
               \/ req[<<q, 1>>].pc = "wait" /\ p = "publish"
            /\ req' = [req EXCEPT ![<<q, 1>>] = [req[<<q, 1>>] EXCEPT !.pc = p], ![<<q, 2>>] = F]
      <4>1. CASE OofReply(s)
        <5>1. PICK q \in Reqs, F \in Handler :
                /\ s = <<q, 1>> /\ req[s].pc = "hook"
                /\ req' = [req EXCEPT ![<<q, 1>>] = [req[<<q, 1>>] EXCEPT !.pc = "wait"],
                                      ![<<q, 2>>] = F]
          BY <4>1, OofReplyStep
        <5> QED
          BY <5>1
      <4>2. CASE s[2] < 3 /\ OofReturns(s)
        BY <4>2, OofReturnsStep
      <4> QED
        BY <2>2, <4>1, <4>2
    <3> DEFINE h == req[<<q, 1>>]
               k == [h EXCEPT !.pc = p]
    <3>3. <<q, 1>> \in Slots /\ <<q, 2>> \in Slots /\ <<q, 1>> # <<q, 2>>
          /\ \A t \in Reqs : <<t, 1>> \in Slots
      BY <3>2 DEF Slots, Levels
    <3>4. req'[<<q, 1>>] = k /\ \A t \in Reqs : t # q => req'[<<t, 1>>] = req[<<t, 1>>]
      BY <1>0, <3>2, <3>3
    <3>5. h \in Handler
      BY <1>0, <3>3
    <3>6. k.pc = p /\ k.row = h.row
      BY <3>5 DEF Handler
    <3> HIDE DEF h, k
    <3>7. \A i \in 1..Len(rows) : Held(h, i, rows) => Held(k, i, rows)
      BY <3>2, <3>6 DEF Held, Stage, HasRow, h
    <3> SUFFICES ASSUME NEW i \in 1..Len(rows), ~rows[i].reply
                 PROVE  Whole(rows[i]) \/ \E t \in Reqs : Held(req'[<<t, 1>>], i, rows)
      BY <3>1 DEF RowsFinish
    <3>8. ASSUME NEW t \in Reqs, Held(req[<<t, 1>>], i, rows) PROVE Held(req'[<<t, 1>>], i, rows)
      <4>1. CASE t = q
        BY <3>4, <3>7, <3>8, <4>1 DEF h
      <4>2. CASE t # q
        BY <3>4, <3>8, <4>2
      <4> QED
        BY <4>1, <4>2
    <3> QED
      BY <1>2, <3>8 DEF RowsFinish
  <2> QED
    BY <2>1, <2>2, HandlingParts
<1> QED
  BY <1>2, <1>3, <1>4, <1>5, <1>6

\* A handler without a row changes to another without one.
LEMMA FinishSlot ==
  ASSUME TypeOK, NEW r \in Reqs, NEW K, req' = [req EXCEPT ![<<r, 1>>] = K], rows' = rows,
         req[<<r, 1>>].pc \notin HasRow, RowsFinish(rows, req)
  PROVE  /\ RowsFinish(rows', req')
         /\ req'[<<r, 1>>] = K /\ \A q \in Reqs : q # r => req'[<<q, 1>>] = req[<<q, 1>>]
<1>1. req \in [Slots -> Handler] /\ <<r, 1>> \in Slots /\ \A q \in Reqs : <<q, 1>> \in Slots
  BY DEF TypeOK, Slots, Levels
<1>2. req'[<<r, 1>>] = K /\ \A q \in Reqs : q # r => req'[<<q, 1>>] = req[<<q, 1>>]
  BY <1>1
<1> SUFFICES ASSUME NEW i \in 1..Len(rows), ~rows[i].reply, ~Whole(rows[i])
             PROVE  \E q \in Reqs : Held(req'[<<q, 1>>], i, rows)
  BY <1>2 DEF RowsFinish
<1>3. PICK q \in Reqs : Held(req[<<q, 1>>], i, rows)
  BY DEF RowsFinish
<1>4. q # r
  BY <1>3 DEF Held
<1> QED
  BY <1>2, <1>3, <1>4

LEMMA FinishClients ==
  ASSUME Base, Kept, Finishing, NEW r \in Reqs,
         (\E m \in Msgs : Start(r, m)) \/ Receive(r)
  PROVE  Finishing'
<1>0. TypeOK /\ Senders
  BY DEF Base, Kept
<1>1. faults' = faults /\ rows' = rows
  BY DEF Start, Receive
<1> SUFFICES ASSUME faults = 0
             PROVE  /\ \A q \in Reqs : ~req'[<<q, 1>>].deaf
                    /\ RowsFinish(rows', req')
                    /\ \A m \in Msgs : client'[m] = "ok" => \A q \in Reqs : ~Active(q, m)'
  BY <1>1 DEF Finishing, RowsFinish
<1>2. /\ \A q \in Reqs : ~req[<<q, 1>>].deaf
      /\ RowsFinish(rows, req)
      /\ \A m \in Msgs : client[m] = "ok" => \A q \in Reqs : ~Active(q, m)
  BY DEF Finishing, RowsFinish
<1>3. ASSUME NEW m \in Msgs, Start(r, m)
      PROVE  /\ \A q \in Reqs : ~req'[<<q, 1>>].deaf
             /\ RowsFinish(rows', req')
             /\ \A x \in Msgs : client'[x] = "ok" => \A q \in Reqs : ~Active(q, x)'
  <2> DEFINE K == Fresh(m, mail[m])
  <2>1. req' = [req EXCEPT ![<<r, 1>>] = K] /\ req[<<r, 1>>].pc = "idle"
        /\ client' = [client EXCEPT ![m] = "waiting"]
    BY <1>3 DEF Start, Step
  <2>2. K.msg = m /\ ~K.deaf
    BY DEF Fresh, Idle
  <2> HIDE DEF K
  <2>3. req[<<r, 1>>].pc \notin HasRow
    BY <2>1 DEF HasRow
  <2>4. RowsFinish(rows', req') /\ req'[<<r, 1>>] = K
        /\ \A q \in Reqs : q # r => req'[<<q, 1>>] = req[<<q, 1>>]
    BY <1>0, <1>1, <1>2, <2>1, <2>3, FinishSlot
  <2>5. \A x \in Msgs : client'[x] = IF x = m THEN "waiting" ELSE client[x]
    BY <1>0, <2>1 DEF TypeOK
  <2>6. ASSUME NEW x \in Msgs, client'[x] = "ok", NEW q \in Reqs PROVE ~Active(q, x)'
    <3>1. x # m /\ client[x] = "ok"
      BY <2>5, <2>6
    <3> QED
      BY <1>2, <2>2, <2>4, <3>1 DEF Active
  <2>7. \A q \in Reqs : ~req'[<<q, 1>>].deaf
    BY <1>2, <2>2, <2>4
  <2> QED
    BY <2>4, <2>6, <2>7
<1>4. CASE Receive(r)
  <2> DEFINE h == req[<<r, 1>>]
  <2>1. req' = [req EXCEPT ![<<r, 1>>] = NoReq] /\ h.pc = "answer"
        /\ client' = [client EXCEPT ![h.msg] = h.status]
    BY <1>2, <1>4 DEF Receive, Step
  <2>2. NoReq.pc = "idle" /\ ~NoReq.deaf
    BY NoReqShape DEF NoReq, Idle
  <2>3. h.pc \notin HasRow
    BY <2>1 DEF HasRow
  <2>4. RowsFinish(rows', req') /\ req'[<<r, 1>>] = NoReq
        /\ \A q \in Reqs : q # r => req'[<<q, 1>>] = req[<<q, 1>>]
    BY <1>0, <1>1, <1>2, <2>1, <2>3, FinishSlot
  <2>5. h.msg \in Msgs
    BY <1>0 DEF TypeOK, Handler, Slots, Levels
  <2>6. \A x \in Msgs : x # h.msg => client'[x] = client[x]
    BY <1>0, <2>1, <2>5 DEF TypeOK
  <2>7. ASSUME NEW x \in Msgs, client'[x] = "ok", NEW q \in Reqs PROVE ~Active(q, x)'
    <3> SUFFICES ASSUME Active(q, x)' PROVE FALSE
      OBVIOUS
    <3>1. q # r /\ Active(q, x)
      BY <2>2, <2>4 DEF Active
    <3>2. CASE x = h.msg
      <4>1. Active(r, x)
        BY <2>1, <3>2 DEF Active
      <4> QED
        BY <1>0, <1>2, <3>1, <4>1 DEF Senders
    <3>3. CASE x # h.msg
      BY <1>2, <2>6, <2>7, <3>1, <3>3
    <3> QED
      BY <3>2, <3>3
  <2>8. \A q \in Reqs : ~req'[<<q, 1>>].deaf
    BY <1>2, <2>2, <2>4
  <2> QED
    BY <2>4, <2>7, <2>8
<1> QED
  BY <1>3, <1>4

LEMMA FinishInvariant == Spec => [](Base /\ Kept /\ Finishing)
<1>1. Init => Finishing
  <2> SUFFICES ASSUME Init PROVE Finishing
    OBVIOUS
  <2>1. \A q \in Reqs : req[<<q, 1>>].pc = "idle" /\ ~req[<<q, 1>>].deaf
    <3>1. NoReq.pc = "idle" /\ ~NoReq.deaf
      BY NoReqShape DEF NoReq, Idle
    <3> QED
      BY <3>1 DEF Init, Slots, Levels
  <2>2. rows = <<>> /\ \A m \in Msgs : client[m] = "wants"
    BY DEF Init
  <2> QED
    BY <2>1, <2>2 DEF Finishing
<1>2. Base /\ Kept /\ Finishing /\ [Next]_vars => Finishing'
  <2> SUFFICES ASSUME Base, Kept, Finishing, [Next]_vars PROVE Finishing'
    OBVIOUS
  <2>0. TypeOK
    BY DEF Base
  <2>1. CASE UNCHANGED vars
    <3>1. UNCHANGED <<req, rows, client, faults>>
      BY <2>1 DEF vars
    <3> QED
      BY <3>1 DEF Finishing, Active
  <2>2. ASSUME NEW s \in Slots, Handling(s) \/ Failing(s) PROVE Finishing'
    BY <2>2, FinishHandling
  <2>3. ASSUME NEW r \in Reqs, (\E m \in Msgs : Start(r, m)) \/ Receive(r) PROVE Finishing'
    BY <2>3, FinishClients
  <2>4. ASSUME NEW m \in Msgs, StartRefused(m) \/ Retry(m) PROVE Finishing'
    <3>1. UNCHANGED <<req, rows, faults>>
          /\ (client' = [client EXCEPT ![m] = "rejected"] \/ client' = [client EXCEPT ![m] = "wants"])
      BY <2>4 DEF StartRefused, Retry
    <3>2. \A x \in Msgs : client'[x] = "ok" => client[x] = "ok"
      BY <2>0, <3>1 DEF TypeOK
    <3> QED
      BY <3>1, <3>2 DEF Finishing, Active
  <2>5. (\E r \in Reqs : LoseAnswer(r) \/ GiveUp(r)) \/ Crash => Finishing'
    <3>1. (\E r \in Reqs : LoseAnswer(r) \/ GiveUp(r)) \/ Crash => faults' = faults + 1
      BY DEF LoseAnswer, GiveUp, Crash, Fault
    <3>2. faults + 1 # 0
      BY <2>0 DEF TypeOK
    <3> QED
      BY <3>1, <3>2 DEF Finishing
  <2>6. ASSUME NEW p \in Users \X Addrs, DayPasses(p) PROVE Finishing'
    <3>1. UNCHANGED <<req, rows, client, faults>>
      BY <2>6 DEF DayPasses
    <3> QED
      BY <3>1 DEF Finishing, Active
  <2> QED
    BY <2>1, <2>2, <2>3, <2>4, <2>5, <2>6 DEF Next
<1> QED
  BY <1>1, <1>2, KeptInvariant, PTL DEF Spec

\* As long as nothing failed, every copy of an accepted message has its source and its
\* attachments, devices are told of it and the inbox hook ran (ToUser, deliverLocal): no path
\* answers ok before the last statement of its last copy.
THEOREM CopiesComplete == Spec => []Complete
<1>1. Base /\ Finishing => Complete
  <2> SUFFICES ASSUME Base, Finishing, NEW m \in Msgs, client[m] = "ok", faults = 0,
                      NEW i \in 1..Len(rows), rows[i].msg = m, ~rows[i].reply
               PROVE  Whole(rows[i])
    BY DEF Complete, Whole
  <2>1. ASSUME NEW r \in Reqs, Held(req[<<r, 1>>], i, rows) PROVE FALSE
    <3>1. <<r, 1>> \in Slots
      BY DEF Slots, Levels
    <3>2. RowOK(req[<<r, 1>>], rows)
      BY <3>1 DEF Base
    <3>3. req[<<r, 1>>].msg = m /\ req[<<r, 1>>].pc # "idle"
      BY <2>1, <3>2 DEF RowOK, Held, HasRow
    <3> QED
      BY <3>3 DEF Finishing, Active
  <2> QED
    BY <2>1 DEF Finishing
<1> QED
  BY <1>1, FinishInvariant, PTL


-----------------------------------------------------------------------------
(* Counting copies. *)

\* Who is about to store an inbox copy has just looked for duplicates, or could not look.
LEMMA InserterStep ==
  ASSUME Base, NEW s \in Slots, Simple(s), req'[s].pc = "insert", req'[s].box = "inbox",
         req[s].mail.via # "web"
  PROVE  /\ req[s].pc = "check" /\ req'[s].at = req[s].at
         /\ \/ races'[req[s].msg] = races[req[s].msg] + 1
            \/ ~MessageIDExists(Target(req[s]), req[s])
<1> DEFINE h == req[s]
           k == req'[s]
<1>0. TypeOK /\ h \in Handler /\ HandlerOK(h) /\ h.msg \in Msgs /\ races \in [Msgs -> Nat]
  BY DEF Base, TypeOK, Handler
<1>1. /\ StoredJob(h).pc # "insert" /\ StoreFailed(h).pc # "insert" /\ AfterChange(h).pc # "insert"
      /\ \A st : Answered(h, st).pc # "insert"
  <2>1. \A st : Answered(h, st).pc = "answer"
    BY <1>0 DEF Answered, Handler
  <2>2. StoredJob(h).pc \in {"answer", "job", "resolve"}
    BY <1>0, <2>1 DEF StoredJob, Handler
  <2>3. StoreFailed(h).pc \in {"answer", "job"}
    BY <1>0, <2>1 DEF StoreFailed, Handler
  <2>4. AfterChange(h).pc \in {"answer", "job", "resolve", "hook"}
    BY <1>0, <2>2 DEF AfterChange, Handler
  <2> QED
    BY <2>1, <2>2, <2>3, <2>4
<1>2. \A a : h.pc = "resolve" => NoAccount(h, a).pc # "insert"
  <2> SUFFICES ASSUME NEW a, h.pc = "resolve" PROVE NoAccount(h, a).pc # "insert"
    OBVIOUS
  <2> DEFINE rest == [h EXCEPT !.todo = @ \ {a}]
  <2>1. rest.pc = "resolve" /\ \A st : Answered(rest, st).pc = "answer"
    BY <1>0 DEF Handler, Answered
  <2>2. /\ [rest EXCEPT !.jobs = @ \cup {a}].pc = "resolve"
        /\ [rest EXCEPT !.ext = @ \cup {a}].pc = "resolve"
        /\ [rest EXCEPT !.bad = @ \cup {"unknown"}].pc = "resolve"
    BY <1>0 DEF Handler
  <2> HIDE DEF rest
  <2>3. NoAccount(h, a) \in {Answered(rest, "failed"), Answered(rest, "rejected"),
          [rest EXCEPT !.jobs = @ \cup {a}], [rest EXCEPT !.ext = @ \cup {a}],
          [rest EXCEPT !.bad = @ \cup {"unknown"}]}
    BY Zenon DEF NoAccount, rest
  <2> QED
    BY <2>1, <2>2, <2>3
<1>3. ~ResolveLocal(s)
  <2> SUFFICES ASSUME ResolveLocal(s) PROVE FALSE
    OBVIOUS
  <2>1. PICK a \in h.todo :
          k = [h EXCEPT !.todo = @ \ {a},
                        !.jobs = IF ResolvesFirst(h) THEN @ \cup {a} ELSE @,
                        !.at = IF ResolvesFirst(h) THEN @ ELSE a,
                        !.box = "inbox",
                        !.pc = CASE ResolvesFirst(h) -> "resolve"
                                 [] h.mail.via = "smtp" -> "check"
                                 [] OTHER -> "insert"]
    BY <1>0, StepTo DEF ResolveLocal
  <2> DEFINE pc == CASE ResolvesFirst(h) -> "resolve"
                     [] h.mail.via = "smtp" -> "check"
                     [] OTHER -> "insert"
  <2>2. k.pc = pc
    BY <1>0, <2>1 DEF Handler
  <2>3. h.mail.via \in Paths
    BY <1>0 DEF Handler, Mail
  <2>4. pc # "insert"
    BY <2>3 DEF ResolvesFirst, Paths
  <2> QED
    BY <2>2, <2>4
<1>4. ~ResolveOther(s) /\ ~ResolveFails(s)
  <2>1. ASSUME ResolveOther(s) PROVE FALSE
    BY <1>0, <1>2, <2>1, StepTo DEF ResolveOther
  <2>2. ASSUME ResolveFails(s) PROVE FALSE
    <3>1. PICK a \in h.todo : k = (IF h.mail.via = "inbound"
                                   THEN [h EXCEPT !.todo = @ \ {a}, !.bad = @ \cup {"failed"}]
                                   ELSE NoAccount(h, a))
      BY <1>0, <2>2, StepTo DEF ResolveFails
    <3>2. h.pc = "resolve"
      BY <2>2 DEF ResolveFails
    <3>3. [h EXCEPT !.todo = @ \ {a}, !.bad = @ \cup {"failed"}].pc = "resolve"
      BY <1>0, <3>2 DEF Handler
    <3> QED
      BY <1>2, <3>1, <3>2, <3>3
  <2> QED
    BY <2>1, <2>2
<1>5. ~Routed(s) /\ ~Relay(s) /\ ~RelayFails(s)
  <2>1. [h EXCEPT !.pc = "relay"].pc = "relay" /\ [h EXCEPT !.pc = "job"].pc = "job"
    BY <1>0 DEF Handler
  <2>2. ASSUME Routed(s) PROVE FALSE
    <3>1. PICK x \in {Answered(h, "rejected"), Answered(h, "failed"), Answered(h, "ok"),
                      [h EXCEPT !.pc = "relay"], [h EXCEPT !.pc = "job"]} : Step(s, x)
      BY <2>2, Zenon DEF Routed
    <3>2. k = x
      BY <1>0, <3>1, StepTo
    <3> QED
      BY <1>1, <2>1, <3>1, <3>2
  <2>3. ASSUME Relay(s) PROVE FALSE
    BY <1>0, <1>1, <2>1, <2>3, StepTo DEF Relay
  <2>4. ASSUME RelayFails(s) PROVE FALSE
    BY <1>0, <1>1, <2>4, StepTo DEF RelayFails
  <2> QED
    BY <2>2, <2>3, <2>4
<1>6. ~NextJob(s) /\ ~Forward(s) /\ ~ForwardFails(s)
  <2>1. ASSUME NextJob(s) PROVE FALSE
    BY <1>0, <2>1, StepTo DEF NextJob, Handler
  <2>2. ASSUME Forward(s) PROVE FALSE
    BY <1>0, <2>2, StepTo DEF Forward, Handler
  <2>3. ASSUME ForwardFails(s) PROVE FALSE
    BY <1>0, <2>3, StepTo DEF ForwardFails, Handler
  <2> QED
    BY <2>1, <2>2, <2>3
<1>7. ~JobsDone(s)
  <2> SUFFICES ASSUME JobsDone(s) PROVE FALSE
    OBVIOUS
  <2>1. PICK x \in {Answered(h, "failed"), Answered(h, "ok"),
                    [h EXCEPT !.pc = "insert", !.box = "sent"]} : Step(s, x)
    BY Zenon DEF JobsDone
  <2>2. k = x
    BY <1>0, <2>1, StepTo
  <2>3. [h EXCEPT !.pc = "insert", !.box = "sent"].box = "sent"
    BY <1>0 DEF Handler
  <2> QED
    BY <1>1, <2>1, <2>2, <2>3
<1>8. ~InsertRow(s) /\ ~SetPath(s) /\ ~InsertAttachment(s) /\ ~NoNotice(s)
  <2>1. ASSUME InsertRow(s) PROVE FALSE
    BY <1>0, <2>1, InsertedRow
  <2>2. ASSUME SetPath(s) \/ InsertAttachment(s) \/ NoNotice(s) PROVE FALSE
    BY <1>0, <2>2, StepTo DEF SetPath, InsertAttachment, NoNotice, Handler
  <2> QED
    BY <2>1, <2>2
<1>9. ~AddChange(s) /\ ~Publish(s) /\ ~InsertFails(s)
  BY <1>0, <1>1, StepTo DEF AddChange, Publish, InsertFails
<1>10. ~RecordFails(s)
  <2> SUFFICES ASSUME RecordFails(s) PROVE FALSE
    OBVIOUS
  <2>1. PICK x \in {StoreFailed(h), AfterChange(h), [h EXCEPT !.pc = "change"]} : Step(s, x)
    BY Zenon DEF RecordFails
  <2>2. k = x
    BY <1>0, <2>1, StepTo
  <2>3. [h EXCEPT !.pc = "change"].pc = "change"
    BY <1>0 DEF Handler
  <2> QED
    BY <1>1, <2>1, <2>2, <2>3
<1>11. CASE Check(s)
  <2>1. h.pc = "check" /\ ~MessageIDExists(Target(h), h)
    BY <1>0, <1>1, <1>11, StepTo DEF Check
  <2>2. k = [h EXCEPT !.pc = "insert"]
    BY <1>0, <1>11, <2>1, StepTo DEF Check
  <2>3. k.at = h.at
    BY <1>0, <2>2 DEF Handler
  <2> QED
    BY <2>1, <2>3
<1>12. CASE CheckFails(s)
  <2>1. h.pc = "check" /\ h.mail.via # "inbound"
    BY <1>0, <1>1, <1>12, StepTo DEF CheckFails
  <2>2. k = [h EXCEPT !.pc = "insert"]
    BY <1>0, <1>12, <2>1, StepTo DEF CheckFails
  <2>3. k.at = h.at
    BY <1>0, <2>2 DEF Handler
  <2>4. races'[h.msg] = races[h.msg] + 1
    BY <1>0, <1>12, <2>1 DEF CheckFails
  <2> QED
    BY <2>1, <2>3, <2>4
<1> QED
  BY <1>3, <1>4, <1>5, <1>6, <1>7, <1>8, <1>9, <1>10, <1>11, <1>12 DEF Simple, Failing

\* One element more, one element less.
LEMMA OneMore ==
  ASSUME NEW S, IsFiniteSet(S), NEW T, NEW x, T \subseteq S \cup {x}
  PROVE  IsFiniteSet(T) /\ Cardinality(T) \in Nat /\ Cardinality(T) <= Cardinality(S) + 1
<1>1. /\ IsFiniteSet(S \cup {x})
      /\ Cardinality(S \cup {x}) = IF x \in S THEN Cardinality(S) ELSE Cardinality(S) + 1
  BY FS_AddElement
<1>2. IsFiniteSet(T) /\ Cardinality(T) <= Cardinality(S \cup {x})
  BY <1>1, FS_Subset
<1>3. Cardinality(T) \in Nat /\ Cardinality(S) \in Nat
  BY <1>2, FS_CardinalityType
<1> QED
  BY <1>1, <1>2, <1>3

LEMMA OneLess ==
  ASSUME NEW S, IsFiniteSet(S), NEW T, NEW x \in S, T \subseteq S \ {x}
  PROVE  IsFiniteSet(T) /\ Cardinality(T) \in Nat /\ Cardinality(T) + 1 <= Cardinality(S)
<1>1. IsFiniteSet(S \ {x}) /\ Cardinality(S \ {x}) = Cardinality(S) - 1
  BY FS_RemoveElement
<1>2. IsFiniteSet(T) /\ Cardinality(T) <= Cardinality(S \ {x})
  BY <1>1, FS_Subset
<1>3. Cardinality(T) \in Nat /\ Cardinality(S) \in Nat
  BY <1>2, FS_CardinalityType
<1> QED
  BY <1>1, <1>2, <1>3

\* There are finitely many handlers and rows.
LEMMA HandlersFinite ==
  ASSUME NEW T \in SUBSET Reqs
  PROVE  IsFiniteSet(T) /\ Cardinality(T) \in Nat
<1>1. IsFiniteSet(Reqs)
  BY DeliveryAssumption, FS_Interval DEF Reqs
<1>2. IsFiniteSet(T)
  BY <1>1, FS_Subset
<1> QED
  BY <1>2, FS_CardinalityType

LEMMA InboxFinite ==
  ASSUME NEW rs \in Seq(Row), NEW u, NEW m
  PROVE  IsFiniteSet(Inbox(u, m, rs)) /\ Cardinality(Inbox(u, m, rs)) \in Nat
<1>1. Len(rs) \in Int
  BY LenProperties
<1>2. IsFiniteSet(1..Len(rs))
  BY <1>1, FS_Interval
<1>3. Inbox(u, m, rs) \in SUBSET (1..Len(rs))
  BY DEF Inbox
<1>4. IsFiniteSet(Inbox(u, m, rs))
  BY <1>2, <1>3, FS_Subset
<1> QED
  BY <1>4, FS_CardinalityType

\* No handler became deaf or ready to insert, and no copy came.
LEMMA BoundedStill ==
  ASSUME NEW m, NEW v, NEW q, NEW q2, NEW rs \in Seq(Row), NEW rs2 \in Seq(Row),
         NEW n \in Nat, NEW n2 \in Nat, n <= n2, Bounded(m, v, q, rs, n),
         \A r \in Reqs : DeafTo(q2[<<r, 1>>], m) => DeafTo(q[<<r, 1>>], m),
         \A r \in Reqs, u \in Users : Inserts(q2[<<r, 1>>], u, m) => Inserts(q[<<r, 1>>], u, m),
         \A u \in Users : Inbox(u, m, rs2) \subseteq Inbox(u, m, rs),
         AllKeyed(m, rs) => AllKeyed(m, rs2)
  PROVE  Bounded(m, v, q2, rs2, n2)
<1>1. Cardinality(Deaf(m, q2)) <= n2
  <2>1. Deaf(m, q2) \subseteq Deaf(m, q) /\ Deaf(m, q) \subseteq Reqs
    BY DEF Deaf
  <2>2. IsFiniteSet(Deaf(m, q)) /\ Cardinality(Deaf(m, q)) \in Nat
    BY <2>1, HandlersFinite
  <2>3. IsFiniteSet(Deaf(m, q2)) /\ Cardinality(Deaf(m, q2)) <= Cardinality(Deaf(m, q))
    BY <2>1, <2>2, FS_Subset
  <2>4. Cardinality(Deaf(m, q2)) \in Nat
    BY <2>3, FS_CardinalityType
  <2> QED
    BY <2>2, <2>3, <2>4 DEF Bounded
<1>2. ASSUME NEW u \in Users,
             Cardinality(Inbox(u, m, rs)) + Cardinality(Inserters(u, m, q)) <= 1 + n
      PROVE  Cardinality(Inbox(u, m, rs2)) + Cardinality(Inserters(u, m, q2)) <= 1 + n2
  <2> DEFINE I == Inserters(u, m, q)
             I2 == Inserters(u, m, q2)
             C == Inbox(u, m, rs)
             C2 == Inbox(u, m, rs2)
  <2>1. I2 \subseteq I /\ I \subseteq Reqs
    BY DEF Inserters
  <2>2. C2 \subseteq C
    OBVIOUS
  <2>3. IsFiniteSet(I) /\ Cardinality(I) \in Nat /\ Cardinality(I2) \in Nat
    BY <2>1, HandlersFinite
  <2>4. IsFiniteSet(C) /\ Cardinality(C) \in Nat /\ Cardinality(C2) \in Nat
    BY InboxFinite
  <2> HIDE DEF I, I2, C, C2
  <2>5. Cardinality(I2) <= Cardinality(I) /\ Cardinality(C2) <= Cardinality(C)
    BY <2>1, <2>2, <2>3, <2>4, FS_Subset
  <2>6. Cardinality(C) + Cardinality(I) <= 1 + n
    BY <1>2 DEF C, I
  <2>7. Cardinality(C2) + Cardinality(I2) <= 1 + n2
    BY <2>3, <2>4, <2>5, <2>6
  <2> QED
    BY <2>7 DEF C2, I2
<1> QED
  BY <1>1, <1>2 DEF Bounded

\* The copies after a step of a handler: at most the row it was about to insert is new.
LEMMA CopiesAfter ==
  ASSUME NEW h, NEW rs \in Seq(Row), NEW rs2 \in Seq(Row), Writes(h, rs, rs2), NEW u, NEW m
  PROVE  /\ Inbox(u, m, rs2) \subseteq Inbox(u, m, rs) \cup {Len(rs) + 1}
         /\ ~Inserts(h, u, m) \/ h.mail.via = "auto" => Inbox(u, m, rs2) \subseteq Inbox(u, m, rs)
<1>0. Len(rs) \in Nat /\ Len(rs2) \in Nat
  BY LenProperties
<1>1. ASSUME NEW i \in Inbox(u, m, rs2), i <= Len(rs) PROVE i \in Inbox(u, m, rs)
  <2>1. i \in 1..Len(rs)
    BY <1>0, <1>1 DEF Inbox
  <2> QED
    BY <1>1, <2>1 DEF Inbox, Writes, Grows
<1>2. ASSUME NEW i \in Inbox(u, m, rs2), i > Len(rs)
      PROVE  i = Len(rs) + 1 /\ Inserts(h, u, m) /\ h.mail.via # "auto"
  <2>1. i \in 1..Len(rs2) /\ rs2[i].user = u /\ rs2[i].msg = m /\ rs2[i].box = "inbox"
        /\ ~rs2[i].reply
    BY DEF Inbox
  <2>2. h.pc = "insert" /\ i = Len(rs) + 1 /\ rs2[i] = NewRow(h)
    BY <1>2, <2>1 DEF Writes
  <2>3. Target(h) = u /\ h.box = "inbox" /\ h.msg = m /\ h.mail.via # "auto"
    BY <2>1, <2>2, NewRowFields
  <2> QED
    BY <2>2, <2>3 DEF Inserts, Target
<1>3. \A i \in Inbox(u, m, rs2) : i \in Nat
  BY <1>0 DEF Inbox
<1> QED
  BY <1>0, <1>1, <1>2, <1>3

LEMMA KeyedAfter ==
  ASSUME NEW h, NEW rs \in Seq(Row), NEW rs2 \in Seq(Row), Writes(h, rs, rs2), NEW m,
         AllKeyed(m, rs), h.msg = m /\ h.mail.via # "auto" => Strict(h.mail)
  PROVE  AllKeyed(m, rs2)
<1>0. Len(rs) \in Nat /\ Len(rs2) \in Nat
  BY LenProperties
<1> SUFFICES ASSUME NEW i \in 1..Len(rs2), rs2[i].msg = m, ~rs2[i].reply PROVE rs2[i].key
  BY DEF AllKeyed
<1>1. CASE i > Len(rs)
  <2>1. rs2[i] = NewRow(h)
    BY <1>1 DEF Writes
  <2>2. h.msg = m /\ h.mail.via # "auto"
    BY <2>1, NewRowFields
  <2>3. h.mail.key /\ h.mail.via # "web"
    BY <2>2 DEF Strict
  <2> QED
    BY <2>1, <2>3, NewRowFields
<1>2. CASE i <= Len(rs)
  <2>1. i \in 1..Len(rs)
    BY <1>0, <1>2
  <2> QED
    BY <2>1 DEF Writes, Grows, AllKeyed
<1> QED
  BY <1>0, <1>1, <1>2

\* Of the handlers of a message at most one is listened to.
LEMMA FewHandlers ==
  ASSUME TypeOK, Senders, NEW m \in Msgs, NEW T \in SUBSET {r \in Reqs : Active(r, m)}
  PROVE  Cardinality(T) \in Nat /\ Cardinality(T) <= Cardinality(Deaf(m, req)) + 1
<1>1. Deaf(m, req) = {r \in Reqs : Active(r, m) /\ req[<<r, 1>>].deaf}
  BY DEF Deaf, DeafTo, Active
<1>2. Deaf(m, req) \subseteq Reqs /\ T \subseteq Reqs
  BY <1>1
<1>3. IsFiniteSet(Deaf(m, req)) /\ Cardinality(Deaf(m, req)) \in Nat /\ Cardinality(T) \in Nat
  BY <1>2, HandlersFinite
<1>4. \E p : T \subseteq Deaf(m, req) \cup {p}
  <2>1. CASE \E p \in T : ~req[<<p, 1>>].deaf
    <3>1. PICK p \in T : ~req[<<p, 1>>].deaf
      BY <2>1
    <3>2. \A r \in T : r = p \/ req[<<r, 1>>].deaf
      BY <3>1 DEF Senders
    <3> QED
      BY <1>1, <3>2
  <2>2. CASE \A p \in T : req[<<p, 1>>].deaf
    BY <1>1, <2>2
  <2> QED
    BY <2>1, <2>2
<1> QED
  BY <1>3, <1>4, OneMore

\* A step of the handler of a message with a Message-ID, for one account.
LEMMA CopiedOne ==
  ASSUME Base, Kept, Copied, NEW r \in Reqs, Simple(<<r, 1>>), NEW u \in Users,
         Strict(mail[req[<<r, 1>>].msg])
  PROVE  LET x == req[<<r, 1>>].msg IN
         Cardinality(Inbox(u, x, rows')) + Cardinality(Inserters(u, x, req')) <= 1 + races'[x]
<1> DEFINE s == <<r, 1>>
           h == req[s]
           k == req'[s]
           x == h.msg
           I == Inserters(u, x, req)
           I2 == Inserters(u, x, req')
           C == Inbox(u, x, rows)
           C2 == Inbox(u, x, rows')
<1>0. TypeOK /\ Senders /\ s \in Slots /\ req \in [Slots -> Handler] /\ rows \in Seq(Row)
      /\ \A q \in Reqs : <<q, 1>> \in Slots
  BY DEF Base, Kept, TypeOK, Slots, Levels
<1>1. /\ req' = [req EXCEPT ![s] = k] /\ Keeps(h, k) /\ Writes(h, rows, rows')
      /\ rows' \in Seq(Row)
  BY <1>0, SimpleStep DEF Moved, Writes
<1>2. h \in Handler /\ x \in Msgs /\ h.pc # "idle" /\ k.msg = x /\ k.deaf = h.deaf
  BY <1>0, <1>1 DEF Keeps, Handler
<1>3. \A q \in Reqs : q # r => req'[<<q, 1>>] = req[<<q, 1>>]
  <2> SUFFICES ASSUME NEW q \in Reqs, q # r PROVE req'[<<q, 1>>] = req[<<q, 1>>]
    OBVIOUS
  <2>1. <<q, 1>> \in Slots /\ <<q, 1>> # s
    BY <1>0
  <2> QED
    BY <1>0, <1>1, <2>1
<1>4. races[x] \in Nat /\ races'[x] \in Nat /\ races[x] <= races'[x]
  BY <1>0, <1>2, SimpleCounters
<1>5. /\ Bounded(x, mail[x], req, rows, races[x])
      /\ AllKeyed(x, rows) /\ Cardinality(C) + Cardinality(I) <= 1 + races[x]
      /\ Cardinality(Deaf(x, req)) <= races[x]
  BY <1>2 DEF Copied, Bounded
<1>6. h.mail = mail[x] /\ h.mail.key /\ h.mail.via # "web" /\ h.mail.via # "auto"
  <2>1. Active(r, x)
    BY <1>2 DEF Active
  <2> QED
    BY <1>0, <1>2, <2>1, MailFacts DEF Senders, Strict
<1>7. /\ IsFiniteSet(C) /\ Cardinality(C) \in Nat /\ Cardinality(C2) \in Nat
      /\ IsFiniteSet(I) /\ Cardinality(I) \in Nat /\ Cardinality(I2) \in Nat
  <2>1. I \subseteq Reqs /\ I2 \subseteq Reqs
    BY DEF Inserters
  <2> QED
    BY <1>0, <1>1, <2>1, InboxFinite, HandlersFinite
<1>8. /\ C2 \subseteq C \cup {Len(rows) + 1}
      /\ ~Inserts(h, u, x) => C2 \subseteq C
  <2> HIDE DEF h, x
  <2>1. Writes(h, rows, rows') /\ rows \in Seq(Row) /\ rows' \in Seq(Row)
    BY <1>0, <1>1
  <2> QED
    BY <2>1, CopiesAfter, Zenon
<1>9. I2 \subseteq I \cup {r} /\ (r \in I2 <=> Inserts(k, u, x)) /\ (r \in I <=> Inserts(h, u, x))
  BY <1>3 DEF Inserters
<1>10. CASE Inserts(k, u, x)
  <2>1. k.pc = "insert" /\ k.box = "inbox" /\ Owner[k.at] = u
    BY <1>10 DEF Inserts
  <2>2. /\ h.pc = "check" /\ k.at = h.at
        /\ \/ races'[x] = races[x] + 1
           \/ ~MessageIDExists(Target(h), h)
    BY <1>0, <1>6, <2>1, InserterStep
  <2>3. C2 \subseteq C
    BY <1>8, <2>2 DEF Inserts
  <2> HIDE DEF I, I2, C, C2, k, h, x
  <2>4. Cardinality(C2) <= Cardinality(C)
    BY <1>7, <2>3, FS_Subset
  <2>5. CASE races'[x] = races[x] + 1
    <3>1. Cardinality(I2) <= Cardinality(I) + 1
      BY <1>7, <1>9, OneMore
    <3>2. Cardinality(C2) + Cardinality(I2) <= 1 + races'[x]
      BY <1>4, <1>5, <1>7, <2>4, <2>5, <3>1
    <3> QED
      BY <3>2 DEF C2, I2, x, h, s
  <2>6. CASE ~MessageIDExists(Target(h), h)
    <3>1. Target(h) = u
      <4>1. HandlerOK(h)
        BY <1>0 DEF Base, h
      <4>2. h.box = "inbox"
        BY <2>2, <4>1 DEF HandlerOK
      <4> QED
        BY <2>1, <2>2, <4>2 DEF Target
    <3>2. \A i \in 1..Len(rows) : ~(rows[i].user = u /\ rows[i].msg = x /\ rows[i].key)
      BY <1>6, <2>6, <3>1 DEF MessageIDExists, x
    <3>3. C = {}
      BY <1>5, <3>2 DEF C, Inbox, AllKeyed
    <3>4. Cardinality(C2) = 0
      BY <2>3, <3>3, FS_EmptySet
    <3>5. I2 \in SUBSET {q \in Reqs : Active(q, x)}
      <4>1. ASSUME NEW q \in I2 PROVE q \in Reqs /\ Active(q, x)
        <5>1. q \in Reqs /\ Inserts(req'[<<q, 1>>], u, x)
          BY <4>1 DEF I2, Inserters
        <5>2. CASE q = r
          BY <1>2, <5>1, <5>2 DEF Active, x, h
        <5>3. CASE q # r
          BY <1>3, <5>1, <5>3 DEF Active, Inserts
        <5> QED
          BY <5>1, <5>2, <5>3
      <4> QED
        BY <4>1
    <3>6. Cardinality(I2) <= Cardinality(Deaf(x, req)) + 1
      BY <1>0, <1>2, <3>5, FewHandlers
    <3>7. Cardinality(Deaf(x, req)) \in Nat
      <4>1. Deaf(x, req) \in SUBSET Reqs
        BY DEF Deaf
      <4> QED
        BY <4>1, HandlersFinite
    <3>8. Cardinality(C2) + Cardinality(I2) <= 1 + races'[x]
      BY <1>4, <1>5, <1>7, <3>4, <3>6, <3>7
    <3> QED
      BY <3>8 DEF C2, I2, x, h, s
  <2> QED
    BY <2>2, <2>5, <2>6
<1>11. CASE ~Inserts(k, u, x) /\ Inserts(h, u, x)
  <2>1. r \in I /\ I2 \subseteq I \ {r}
    BY <1>9, <1>11
  <2> HIDE DEF I, I2, C, C2, k, h, x
  <2>2. Cardinality(I2) + 1 <= Cardinality(I)
    BY <1>7, <2>1, OneLess
  <2>3. Cardinality(C2) <= Cardinality(C) + 1
    BY <1>7, <1>8, OneMore
  <2>4. Cardinality(C2) + Cardinality(I2) <= 1 + races'[x]
    BY <1>4, <1>5, <1>7, <2>2, <2>3
  <2> QED
    BY <2>4 DEF C2, I2, x, h, s
<1>12. CASE ~Inserts(k, u, x) /\ ~Inserts(h, u, x)
  <2>1. I2 \subseteq I /\ C2 \subseteq C
    BY <1>8, <1>9, <1>12
  <2> HIDE DEF I, I2, C, C2, k, h, x
  <2>2. Cardinality(I2) <= Cardinality(I) /\ Cardinality(C2) <= Cardinality(C)
    BY <1>7, <2>1, FS_Subset
  <2>3. Cardinality(C2) + Cardinality(I2) <= 1 + races'[x]
    BY <1>4, <1>5, <1>7, <2>2
  <2> QED
    BY <2>3 DEF C2, I2, x, h, s
<1> QED
  BY <1>10, <1>11, <1>12

LEMMA CopiedSimple ==
  ASSUME Base, Kept, Copied, NEW s \in Slots, Simple(s)
  PROVE  Copied'
<1> DEFINE h == req[s]
           k == req'[s]
<1>0. TypeOK /\ Senders /\ Nesting /\ req \in [Slots -> Handler] /\ rows \in Seq(Row)
      /\ \A q \in Reqs : <<q, 1>> \in Slots
  BY DEF Base, Kept, TypeOK, Slots, Levels
<1>1. /\ req' = [req EXCEPT ![s] = k] /\ Keeps(h, k) /\ Writes(h, rows, rows')
      /\ rows' \in Seq(Row) /\ mail' = mail /\ s[2] \in {1, 2}
  BY SimpleStep DEF Moved, Writes
<1>2. s[1] \in Reqs /\ s = <<s[1], s[2]>>
  BY SlotParts
<1>3. h \in Handler /\ h.msg \in Msgs /\ h.pc # "idle" /\ k.msg = h.msg /\ k.deaf = h.deaf
  BY <1>0, <1>1 DEF Keeps, Handler
<1>4. \A t \in Slots : t # s => req'[t] = req[t]
  BY <1>0, <1>1
<1>5. \A m \in Msgs : races[m] \in Nat /\ races'[m] \in Nat /\ races[m] <= races'[m]
  BY <1>0, SimpleCounters
<1> SUFFICES ASSUME NEW m \in Msgs PROVE Bounded(m, mail[m], req', rows', races'[m])
  BY <1>1 DEF Copied
<1>6. Bounded(m, mail[m], req, rows, races[m])
  BY DEF Copied
<1> HIDE DEF h, k
<1>7. \A r \in Reqs : DeafTo(req'[<<r, 1>>], m) => DeafTo(req[<<r, 1>>], m)
  BY <1>0, <1>3, <1>4 DEF DeafTo, h, k
<1>8. CASE s[2] = 1 /\ m = h.msg
  <2>1. s = <<s[1], 1>>
    BY <1>2, <1>8
  <2>2. Cardinality(Deaf(m, req')) <= races'[m]
    <3>1. Deaf(m, req') \subseteq Deaf(m, req) /\ Deaf(m, req) \subseteq Reqs
      BY <1>7 DEF Deaf
    <3>2. IsFiniteSet(Deaf(m, req)) /\ Cardinality(Deaf(m, req)) \in Nat
          /\ Cardinality(Deaf(m, req')) \in Nat
      BY <3>1, HandlersFinite
    <3>3. Cardinality(Deaf(m, req')) <= Cardinality(Deaf(m, req))
      BY <3>1, <3>2, FS_Subset
    <3>4. Cardinality(Deaf(m, req)) <= races[m]
      BY <1>6 DEF Bounded
    <3> QED
      BY <1>5, <3>2, <3>3, <3>4
  <2>3. ASSUME Strict(mail[m]) PROVE AllKeyed(m, rows')
    <3>1. Active(s[1], m)
      BY <1>3, <1>8, <2>1 DEF Active, h
    <3>2. h.mail = mail[m]
      BY <1>0, <1>2, <2>1, <3>1 DEF Senders, h
    <3>3. AllKeyed(m, rows)
      BY <1>6, <2>3 DEF Bounded
    <3> QED
      BY <1>0, <1>1, <2>3, <3>2, <3>3, KeyedAfter
  <2>4. ASSUME Strict(mail[m]), NEW u \in Users
        PROVE  Cardinality(Inbox(u, m, rows')) + Cardinality(Inserters(u, m, req')) <= 1 + races'[m]
    BY <1>2, <1>8, <2>1, <2>4, CopiedOne DEF h
  <2> QED
    BY <2>2, <2>3, <2>4 DEF Bounded
<1>9. CASE s[2] = 2 \/ m # h.msg
  <2>1. s[2] = 2 => h.mail.via = "auto"
    <3> SUFFICES ASSUME s[2] = 2 PROVE h.mail.via = "auto"
      OBVIOUS
    <3>1. h = req[<<s[1], 2>>]
      BY <1>2 DEF h
    <3> QED
      BY <1>0, <1>2, <1>3, <3>1 DEF Nesting
  <2>2. \A u \in Users : ~Inserts(h, u, m) \/ h.mail.via = "auto"
    BY <1>9, <2>1 DEF Inserts
  <2>3. \A u \in Users : Inbox(u, m, rows') \subseteq Inbox(u, m, rows)
    <3> SUFFICES ASSUME NEW u \in Users PROVE Inbox(u, m, rows') \subseteq Inbox(u, m, rows)
      OBVIOUS
    <3>1. Writes(h, rows, rows') /\ rows' \in Seq(Row) /\ rows \in Seq(Row)
      BY <1>0, <1>1
    <3> QED
      BY <2>2, <3>1, CopiesAfter, Zenon
  <2>4. AllKeyed(m, rows) => AllKeyed(m, rows')
    BY <1>0, <1>1, <1>9, <2>1, KeyedAfter
  <2>5. \A r \in Reqs, u \in Users :
          Inserts(req'[<<r, 1>>], u, m) => Inserts(req[<<r, 1>>], u, m)
    <3> SUFFICES ASSUME NEW r \in Reqs, NEW u \in Users, Inserts(req'[<<r, 1>>], u, m)
                 PROVE  Inserts(req[<<r, 1>>], u, m)
      OBVIOUS
    <3>1. CASE s = <<r, 1>>
      BY <1>3, <1>9, <3>1 DEF Inserts, k, h
    <3>2. CASE s # <<r, 1>>
      BY <1>0, <1>4, <3>2
    <3> QED
      BY <3>1, <3>2
  <2> QED
    BY <1>0, <1>1, <1>5, <1>6, <1>7, <2>3, <2>4, <2>5, BoundedStill
<1> QED
  BY <1>1, <1>8, <1>9

\* The rows and the counts stay, and no handler becomes deaf or ready to insert.
LEMMA CopiedStill ==
  ASSUME TypeOK, Copied, UNCHANGED <<mail, rows, races>>,
         \A r \in Reqs, m \in Msgs : DeafTo(req'[<<r, 1>>], m) => DeafTo(req[<<r, 1>>], m),
         \A r \in Reqs, u \in Users, m \in Msgs :
           Inserts(req'[<<r, 1>>], u, m) => Inserts(req[<<r, 1>>], u, m)
  PROVE  Copied'
<1> SUFFICES ASSUME NEW m \in Msgs PROVE Bounded(m, mail[m], req', rows, races[m])
  BY DEF Copied
<1>1. Bounded(m, mail[m], req, rows, races[m]) /\ races[m] \in Nat /\ rows \in Seq(Row)
  BY DEF Copied, TypeOK
<1>2. races[m] <= races[m]
  BY <1>1
<1> QED
  BY <1>1, <1>2, BoundedStill

LEMMA CopiedOof ==
  ASSUME Base, Copied, NEW s \in Slots, OofReply(s) \/ (s[2] < 3 /\ OofReturns(s))
  PROVE  Copied'
<1>0. TypeOK /\ req \in [Slots -> Handler] /\ UNCHANGED <<mail, rows, races>>
  BY DEF Base, TypeOK, OofReply, OofReturns
<1>1. PICK q, F, p :
        /\ q \in Reqs
        /\ req[<<q, 1>>].pc # "idle" /\ (p = "wait" \/ p = "publish")
        /\ req' = [req EXCEPT ![<<q, 1>>] = [req[<<q, 1>>] EXCEPT !.pc = p], ![<<q, 2>>] = F]
  <2>1. CASE OofReply(s)
    <3>1. PICK q \in Reqs, F \in Handler :
            /\ s = <<q, 1>> /\ req[s].pc = "hook"
            /\ req' = [req EXCEPT ![<<q, 1>>] = [req[<<q, 1>>] EXCEPT !.pc = "wait"],
                                  ![<<q, 2>>] = F]
      BY <2>1, OofReplyStep
    <3>2. req[<<q, 1>>].pc # "idle"
      BY <3>1
    <3> QED
      BY <3>1, <3>2
  <2>2. CASE s[2] < 3 /\ OofReturns(s)
    <3>1. PICK q \in Reqs :
            /\ s = <<q, 1>> /\ req[s].pc = "wait"
            /\ req' = [req EXCEPT ![<<q, 1>>] = [req[<<q, 1>>] EXCEPT !.pc = "publish"],
                                  ![<<q, 2>>] = NoReq]
      BY <2>2, OofReturnsStep
    <3>2. req[<<q, 1>>].pc # "idle"
      BY <3>1
    <3> QED
      BY <3>1, <3>2
  <2> QED
    BY <2>1, <2>2
<1> DEFINE h == req[<<q, 1>>]
           k == [h EXCEPT !.pc = p]
<1>2. <<q, 1>> \in Slots /\ <<q, 2>> \in Slots /\ <<q, 1>> # <<q, 2>>
      /\ \A t \in Reqs : <<t, 1>> \in Slots
  BY <1>1 DEF Slots, Levels
<1>3. req'[<<q, 1>>] = k /\ \A t \in Reqs : t # q => req'[<<t, 1>>] = req[<<t, 1>>]
  BY <1>0, <1>1, <1>2
<1>4. h \in Handler
  BY <1>0, <1>2
<1>5. k.pc = p /\ k.deaf = h.deaf /\ k.msg = h.msg
  BY <1>4 DEF Handler
<1> HIDE DEF h, k
<1>6. /\ \A m \in Msgs : DeafTo(k, m) => DeafTo(h, m)
      /\ \A u \in Users, m \in Msgs : ~Inserts(k, u, m)
  BY <1>1, <1>5 DEF DeafTo, Inserts, h
<1>7. \A r \in Reqs, m \in Msgs : DeafTo(req'[<<r, 1>>], m) => DeafTo(req[<<r, 1>>], m)
  BY <1>3, <1>6 DEF h
<1>8. \A r \in Reqs, u \in Users, m \in Msgs :
        Inserts(req'[<<r, 1>>], u, m) => Inserts(req[<<r, 1>>], u, m)
  BY <1>3, <1>6
<1> QED
  BY <1>0, <1>7, <1>8, CopiedStill

\* A handler begins or ends.
LEMMA CopiedSlot ==
  ASSUME Base, Copied, NEW r \in Reqs,
         (\E m \in Msgs : Start(r, m)) \/ Receive(r) \/ LoseAnswer(r)
  PROVE  Copied'
<1>0. TypeOK /\ req \in [Slots -> Handler] /\ <<r, 1>> \in Slots
      /\ \A q \in Reqs : <<q, 1>> \in Slots
  BY DEF Base, TypeOK, Slots, Levels
<1>1. UNCHANGED <<mail, rows, races>>
  BY DEF Start, Receive, LoseAnswer
<1>2. PICK K : /\ req' = [req EXCEPT ![<<r, 1>>] = K]
               /\ \A m : ~DeafTo(K, m)
               /\ \A u, m : ~Inserts(K, u, m)
  <2>1. ASSUME NEW m \in Msgs, Start(r, m)
        PROVE  \E K : /\ req' = [req EXCEPT ![<<r, 1>>] = K]
                      /\ \A x : ~DeafTo(K, x)
                      /\ \A u, x : ~Inserts(K, u, x)
    <3> DEFINE K == Fresh(m, mail[m])
    <3>1. req' = [req EXCEPT ![<<r, 1>>] = K]
      BY <2>1 DEF Start, Step
    <3>2. ~K.deaf /\ (K.pc = "insert" => K.box = "sent")
      BY DEF Fresh, Idle
    <3> HIDE DEF K
    <3>3. (\A x : ~DeafTo(K, x)) /\ (\A u, x : ~Inserts(K, u, x))
      BY <3>2 DEF DeafTo, Inserts
    <3> QED
      BY <3>1, <3>3
  <2>2. CASE Receive(r) \/ LoseAnswer(r)
    <3>1. req' = [req EXCEPT ![<<r, 1>>] = NoReq]
      BY <2>2 DEF Receive, LoseAnswer, Step
    <3>2. NoReq.pc = "idle"
      BY NoReqShape
    <3>3. (\A x : ~DeafTo(NoReq, x)) /\ (\A u, x : ~Inserts(NoReq, u, x))
      BY <3>2 DEF DeafTo, Inserts
    <3> QED
      BY <3>1, <3>3
  <2> QED
    BY <2>1, <2>2
<1>3. req'[<<r, 1>>] = K /\ \A q \in Reqs : q # r => req'[<<q, 1>>] = req[<<q, 1>>]
  BY <1>0, <1>2
<1>4. \A q \in Reqs, m \in Msgs : DeafTo(req'[<<q, 1>>], m) => DeafTo(req[<<q, 1>>], m)
  BY <1>2, <1>3
<1>5. \A q \in Reqs, u \in Users, m \in Msgs :
        Inserts(req'[<<q, 1>>], u, m) => Inserts(req[<<q, 1>>], u, m)
  BY <1>2, <1>3
<1> QED
  BY <1>0, <1>1, <1>4, <1>5, CopiedStill

\* A client that gives up makes its handler deaf, and this counts as a race.
LEMMA CopiedGiveUp ==
  ASSUME Base, Copied, NEW r \in Reqs, GiveUp(r)
  PROVE  Copied'
<1> DEFINE h == req[<<r, 1>>]
           K == [h EXCEPT !.deaf = TRUE]
<1>0. TypeOK /\ req \in [Slots -> Handler] /\ <<r, 1>> \in Slots /\ rows \in Seq(Row)
      /\ races \in [Msgs -> Nat] /\ \A q \in Reqs : <<q, 1>> \in Slots
  BY DEF Base, TypeOK, Slots, Levels
<1>1. h \in Handler /\ h.msg \in Msgs
  BY <1>0 DEF Handler
<1>2. K.pc = h.pc /\ K.msg = h.msg /\ K.box = h.box /\ K.at = h.at
  BY <1>1 DEF Handler
<1>3. req' = [req EXCEPT ![<<r, 1>>] = K] /\ UNCHANGED <<mail, rows>>
      /\ races' = [races EXCEPT ![h.msg] = @ + 1]
  BY DEF GiveUp
<1>4. req'[<<r, 1>>] = K /\ \A q \in Reqs : q # r => req'[<<q, 1>>] = req[<<q, 1>>]
  BY <1>0, <1>3
<1>5. /\ races'[h.msg] = races[h.msg] + 1
      /\ \A m \in Msgs : m # h.msg => races'[m] = races[m]
      /\ \A m \in Msgs : races[m] \in Nat
  BY <1>0, <1>1, <1>3
<1> HIDE DEF h, K
<1>6. \A u, m : Inserts(K, u, m) <=> Inserts(h, u, m)
  BY <1>2 DEF Inserts
<1>7. \A q \in Reqs : \A u, m : Inserts(req'[<<q, 1>>], u, m) <=> Inserts(req[<<q, 1>>], u, m)
  BY <1>4, <1>6 DEF h
<1> SUFFICES ASSUME NEW m \in Msgs PROVE Bounded(m, mail[m], req', rows, races'[m])
  BY <1>3 DEF Copied
<1>8. Bounded(m, mail[m], req, rows, races[m])
  BY DEF Copied
<1>9. CASE m # h.msg
  <2>1. \A q \in Reqs : DeafTo(req'[<<q, 1>>], m) => DeafTo(req[<<q, 1>>], m)
    BY <1>2, <1>4, <1>9 DEF DeafTo
  <2>2. races[m] <= races[m] /\ races[m] \in Nat /\ races'[m] = races[m]
    BY <1>5, <1>9
  <2>3. Bounded(m, mail[m], req', rows, races[m])
    BY <1>0, <1>7, <1>8, <2>1, <2>2, BoundedStill
  <2> QED
    BY <2>2, <2>3
<1>10. CASE m = h.msg
  <2>1. Deaf(m, req') \subseteq Deaf(m, req) \cup {r} /\ Deaf(m, req) \subseteq Reqs
    BY <1>4 DEF Deaf
  <2>2. IsFiniteSet(Deaf(m, req)) /\ Cardinality(Deaf(m, req)) \in Nat
    BY <2>1, HandlersFinite
  <2>3. Cardinality(Deaf(m, req')) \in Nat
        /\ Cardinality(Deaf(m, req')) <= Cardinality(Deaf(m, req)) + 1
    BY <2>1, <2>2, OneMore
  <2>4. races[m] \in Nat /\ races'[m] = races[m] + 1
    BY <1>5, <1>10
  <2>5. Cardinality(Deaf(m, req')) <= races'[m]
    BY <1>8, <2>2, <2>3, <2>4 DEF Bounded
  <2>6. ASSUME Strict(mail[m]), NEW u \in Users
        PROVE  Cardinality(Inbox(u, m, rows)) + Cardinality(Inserters(u, m, req')) <= 1 + races'[m]
    <3>1. Inserters(u, m, req') = Inserters(u, m, req) /\ Inserters(u, m, req) \in SUBSET Reqs
      BY <1>7 DEF Inserters
    <3>2. Cardinality(Inbox(u, m, rows)) + Cardinality(Inserters(u, m, req)) <= 1 + races[m]
      BY <1>8, <2>6 DEF Bounded
    <3>3. Cardinality(Inbox(u, m, rows)) \in Nat /\ Cardinality(Inserters(u, m, req)) \in Nat
      BY <1>0, <3>1, InboxFinite, HandlersFinite
    <3> QED
      BY <2>4, <3>1, <3>2, <3>3
  <2> QED
    BY <1>8, <2>5, <2>6 DEF Bounded
<1> QED
  BY <1>9, <1>10

LEMMA CopiedCrash ==
  ASSUME Base, Copied, Crash
  PROVE  Copied'
<1>1. TypeOK /\ UNCHANGED <<mail, rows, races>>
  BY DEF Base, Crash
<1>2. \A q \in Reqs : req'[<<q, 1>>] = NoReq
  BY DEF Crash, Slots, Levels
<1>3. NoReq.pc = "idle"
  BY NoReqShape
<1>4. (\A m : ~DeafTo(NoReq, m)) /\ (\A u, m : ~Inserts(NoReq, u, m))
  BY <1>3 DEF DeafTo, Inserts
<1> QED
  BY <1>1, <1>2, <1>4, CopiedStill

LEMMA CopiedInit == Init => Copied
<1> SUFFICES ASSUME Init, NEW m \in Msgs PROVE Bounded(m, mail[m], req, rows, races[m])
  BY DEF Copied
<1>1. \A q \in Reqs : req[<<q, 1>>] = NoReq
  BY DEF Init, Slots, Levels
<1>2. NoReq.pc = "idle"
  BY NoReqShape
<1>3. races[m] = 0 /\ rows = <<>>
  BY DEF Init
<1>4. Deaf(m, req) = {} /\ \A u \in Users : Inserters(u, m, req) = {}
  BY <1>1, <1>2 DEF Deaf, DeafTo, Inserters, Inserts
<1>5. AllKeyed(m, rows) /\ \A u \in Users : Inbox(u, m, rows) = {}
  BY <1>3 DEF AllKeyed, Inbox
<1>6. Cardinality({}) = 0
  BY FS_EmptySet
<1>7. Cardinality(Deaf(m, req)) <= 0
  BY <1>4, <1>6
<1>8. ASSUME NEW u \in Users
      PROVE  Cardinality(Inbox(u, m, rows)) + Cardinality(Inserters(u, m, req)) <= 1 + 0
  <2>1. Inbox(u, m, rows) = {} /\ Inserters(u, m, req) = {}
    BY <1>4, <1>5
  <2> QED
    BY <1>6, <2>1
<1> QED
  BY <1>3, <1>5, <1>7, <1>8 DEF Bounded

LEMMA CopiedInvariant == Spec => [](Base /\ Kept /\ Copied)
<1>1. Base /\ Kept /\ Copied /\ [Next]_vars => Copied'
  <2> SUFFICES ASSUME Base, Kept, Copied, [Next]_vars PROVE Copied'
    OBVIOUS
  <2>0. TypeOK
    BY DEF Base
  <2>1. ASSUME NEW s \in Slots, Handling(s) \/ Failing(s) PROVE Copied'
    BY <2>1, HandlingParts, CopiedSimple, CopiedOof
  <2>2. ASSUME NEW r \in Reqs, (\E m \in Msgs : Start(r, m)) \/ Receive(r) \/ LoseAnswer(r)
        PROVE  Copied'
    BY <2>2, CopiedSlot
  <2>3. ASSUME NEW r \in Reqs, GiveUp(r) PROVE Copied'
    BY <2>3, CopiedGiveUp
  <2>4. CASE Crash
    BY <2>4, CopiedCrash
  <2>5. CASE \/ \E m \in Msgs : StartRefused(m) \/ Retry(m)
             \/ \E p \in Users \X Addrs : DayPasses(p)
             \/ UNCHANGED vars
    <3>1. UNCHANGED <<mail, req, rows, races>>
      BY <2>5 DEF StartRefused, Retry, DayPasses, vars
    <3> QED
      BY <2>0, <3>1, CopiedStill
  <2> QED
    BY <2>1, <2>2, <2>3, <2>4, <2>5 DEF Next
<1> QED
  BY <1>1, CopiedInit, KeptInvariant, PTL DEF Spec

\* However often a client or a sending server repeats a message with a Message-ID, an account
\* gets a second inbox copy only if a client gave up on a handler that went on, or if
\* MessageIDExists itself failed (inbound.go, ToUser): the check and the INSERT are two
\* statements, and nothing but the single client that waits keeps two handlers apart.
THEOREM CopiesBounded == Spec => []NoDuplicates
<1>1. Base /\ Copied => NoDuplicates
  <2> SUFFICES ASSUME Base, Copied, NEW m \in Msgs, NEW u \in Users, mail[m].key,
                      mail[m].via # "web"
               PROVE  Cardinality(Copies(u, m, "inbox")) <= 1 + races[m]
    BY DEF NoDuplicates
  <2>1. rows \in Seq(Row) /\ races[m] \in Nat
    BY DEF Base, TypeOK
  <2>2. Copies(u, m, "inbox") = Inbox(u, m, rows)
    BY DEF Copies, Inbox
  <2>3. Cardinality(Inbox(u, m, rows)) + Cardinality(Inserters(u, m, req)) <= 1 + races[m]
    BY DEF Copied, Bounded, Strict
  <2>4. Inserters(u, m, req) \in SUBSET Reqs
    BY DEF Inserters
  <2>5. Cardinality(Inbox(u, m, rows)) \in Nat /\ Cardinality(Inserters(u, m, req)) \in Nat
    BY <2>1, <2>4, InboxFinite, HandlersFinite
  <2> QED
    BY <2>1, <2>2, <2>3, <2>5
<1> QED
  BY <1>1, CopiedInvariant, PTL

=============================================================================
