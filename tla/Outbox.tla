------------------------------- MODULE Outbox -------------------------------
(***************************************************************************)
(* Mail for other servers: the submission paths try the relay once and, if *)
(* it fails, store the message (internal/store/outbox.go); the worker of   *)
(* internal/outbound sends what is due, with a growing delay between       *)
(* attempts, until the relay takes it or MaxAttempts is reached; an        *)
(* administrator retries or drops queued messages at any time.             *)
(*                                                                         *)
(* The row and the MIME source (a file) are written and removed by         *)
(* separate statements, each a step here.  Time is abstract: a row whose   *)
(* next_attempt lies ahead may become due at any moment.                   *)
(***************************************************************************)
EXTENDS Naturals, FiniteSets

CONSTANTS
  Msgs,         \* the messages submitted
  MaxAttempts,  \* outbound.MaxAttempts
  Limit,        \* how many rows Drain reads at most
  MaxFaults,    \* bound: crashes, failing statements, answers of the relay lost after
                \* it took the message
  MaxAdmin,     \* bound: retries and drops by the administrator
  MaxSwitch     \* bound: changes of the SMTP settings

ASSUME OutboxAssumption ==
  /\ MaxAttempts \in Nat \ {0} /\ Limit \in Nat \ {0}
  /\ MaxFaults \in Nat /\ MaxAdmin \in Nat /\ MaxSwitch \in Nat

VARIABLES
  sub,       \* the submission handler of each message
  outbox,    \* the rows
  blob,      \* the messages whose MIME source is on disk
  relay,     \* how often the relay took the whole message
  hollow,    \* the messages the relay took without their source
  enabled,   \* the relay is configured
  worker,    \* where the worker is
  batch,     \* the messages it has still to send, as DueOutbound read them
  cur,       \* the one it is sending
  deleters,  \* DeleteOutbound, run by the worker and by the administrator
  dropped,   \* the messages the administrator dropped
  tries,     \* the worker's attempts since the message was queued or retried
  faults, admin, switches

vars == <<sub, outbox, blob, relay, hollow, enabled, worker, batch, cur, deleters,
          dropped, tries, faults, admin, switches>>

Row == [here : BOOLEAN, path : BOOLEAN, attempts : Nat, due : BOOLEAN, failed : BOOLEAN]
Item == [msg : Msgs, raw : BOOLEAN, attempts : Nat]
Deleters == {"worker", "admin"}

NoRow == [here |-> FALSE, path |-> FALSE, attempts |-> 0, due |-> FALSE, failed |-> FALSE]
NewRow == [here |-> TRUE, path |-> FALSE, attempts |-> 0, due |-> TRUE, failed |-> FALSE]

\* cur and the deleters' targets are sets of at most one element.
TypeOK ==
  /\ sub \in [Msgs -> {"new", "insert", "put", "path", "accepted", "rejected"}]
  /\ outbox \in [Msgs -> Row]
  /\ blob \subseteq Msgs
  /\ relay \in [Msgs -> Nat]
  /\ hollow \subseteq Msgs
  /\ enabled \in BOOLEAN
  /\ worker \in {"idle", "load", "send", "fail", "delete"}
  /\ batch \subseteq Item
  /\ cur \subseteq Item
  /\ deleters \in [Deleters -> [pc : {"idle", "row", "blob"}, msg : SUBSET Msgs, path : BOOLEAN]]
  /\ dropped \subseteq Msgs
  /\ tries \in [Msgs -> Nat]
  /\ faults \in Nat /\ admin \in Nat /\ switches \in Nat

NoDelete == [pc |-> "idle", msg |-> {}, path |-> FALSE]

Init ==
  /\ sub = [m \in Msgs |-> "new"]
  /\ outbox = [m \in Msgs |-> NoRow]
  /\ blob = {}
  /\ relay = [m \in Msgs |-> 0]
  /\ hollow = {}
  /\ enabled = TRUE
  /\ worker = "idle"
  /\ batch = {}
  /\ cur = {}
  /\ deleters = [w \in Deleters |-> NoDelete]
  /\ dropped = {}
  /\ tries = [m \in Msgs |-> 0]
  /\ faults = 0 /\ admin = 0 /\ switches = 0

----------------------------------------------------------------------------
\* Submission (SendMail, SMTPS, webmail)

store == <<outbox, blob>>
counts == <<faults, admin, switches>>
queue == <<worker, batch, cur>>

\* The direct attempt: without a configured relay the message is refused.
SubmitRefused(m) ==
  /\ sub[m] = "new"
  /\ ~enabled
  /\ sub' = [sub EXCEPT ![m] = "rejected"]
  /\ UNCHANGED <<store, relay, hollow, enabled, queue, deleters, dropped, tries, counts>>

SubmitSent(m) ==
  /\ sub[m] = "new"
  /\ enabled
  /\ sub' = [sub EXCEPT ![m] = "accepted"]
  /\ relay' = [relay EXCEPT ![m] = @ + 1]
  /\ UNCHANGED <<store, hollow, enabled, queue, deleters, dropped, tries, counts>>

\* Send returns an error: before the relay took the message, or (QUIT failed) after.
SubmitFails(m) ==
  /\ sub[m] = "new"
  /\ enabled
  /\ sub' = [sub EXCEPT ![m] = "insert"]
  /\ \/ UNCHANGED <<relay, faults>>
     \/ /\ faults < MaxFaults
        /\ faults' = faults + 1
        /\ relay' = [relay EXCEPT ![m] = @ + 1]
  /\ UNCHANGED <<store, hollow, enabled, queue, deleters, dropped, tries, admin, switches>>

InsertWithPath(m) ==
  /\ sub[m] = "insert"
  /\ sub' = [sub EXCEPT ![m] = "put"]
  /\ outbox' = [outbox EXCEPT ![m] = [NewRow EXCEPT !.path = TRUE]]
  /\ UNCHANGED <<blob, relay, hollow, enabled, queue, deleters, dropped, tries, counts>>

\* EnqueueOutbound: the row, due at once and without a path ...
Insert(m) ==
  /\ sub[m] = "insert"
  /\ sub' = [sub EXCEPT ![m] = "put"]
  /\ outbox' = [outbox EXCEPT ![m] = NewRow]
  /\ UNCHANGED <<blob, relay, hollow, enabled, queue, deleters, dropped, tries, counts>>

\* ... then the file, ...
Put(m) ==
  /\ sub[m] = "put"
  /\ sub' = [sub EXCEPT ![m] = "path"]
  /\ blob' = blob \cup {m}
  /\ UNCHANGED <<outbox, relay, hollow, enabled, queue, deleters, dropped, tries, counts>>

\* ... then the path, which finds no row if it was deleted meanwhile.
SetPath(m) ==
  /\ sub[m] = "path"
  /\ sub' = [sub EXCEPT ![m] = "accepted"]
  /\ outbox' = [outbox EXCEPT ![m].path = outbox[m].here]
  /\ UNCHANGED <<blob, relay, hollow, enabled, queue, deleters, dropped, tries, counts>>

\* The row, the file or the path cannot be written: the sender is told so, and what
\* was written stays.
EnqueueFails(m) ==
  /\ sub[m] \in {"insert", "put", "path"}
  /\ sub' = [sub EXCEPT ![m] = "rejected"]
  /\ UNCHANGED <<store, relay, hollow, enabled, queue, deleters, dropped, tries, counts>>

----------------------------------------------------------------------------
\* The worker

\* DueOutbound: the rows whose retry time has come, as they are now; Limit of them,
\* where there are more.
Due == {m \in Msgs : outbox[m].here /\ ~outbox[m].failed /\ outbox[m].due}

Drain ==
  /\ worker = "idle"
  /\ enabled
  /\ Due # {}
  /\ worker' = "load"
  /\ \E ms \in SUBSET Due :
       /\ ms = Due \/ Cardinality(ms) = Limit
       /\ Cardinality(ms) <= Limit
       /\ batch' = {[msg |-> m, raw |-> outbox[m].path, attempts |-> outbox[m].attempts] : m \in ms}
  /\ UNCHANGED <<sub, store, relay, hollow, enabled, cur, deleters, dropped, tries, counts>>

LoadRawStrict ==
  /\ worker = "load"
  /\ IF \A it \in batch : it.raw /\ it.msg \in blob
       THEN worker' = "send" /\ UNCHANGED batch
       ELSE worker' = "idle" /\ batch' = {}
  /\ UNCHANGED <<sub, store, relay, hollow, enabled, cur, deleters, dropped, tries, counts>>

\* loadOutboundRaw for each: a row without a path has no source, a path without a
\* file fails the whole batch.
LoadRaw ==
  /\ worker = "load"
  /\ IF \A it \in batch : it.raw => it.msg \in blob
       THEN worker' = "send" /\ UNCHANGED batch
       ELSE worker' = "idle" /\ batch' = {}
  /\ UNCHANGED <<sub, store, relay, hollow, enabled, cur, deleters, dropped, tries, counts>>

\* What the relay keeps when it takes an item.
Taken(it) ==
  /\ relay' = [relay EXCEPT ![it.msg] = IF it.raw THEN @ + 1 ELSE @]
  /\ hollow' = IF it.raw THEN hollow ELSE hollow \cup {it.msg}

Attempt(it, next) ==
  /\ worker = "send"
  /\ batch' = batch \ {it}
  /\ cur' = {it}
  /\ worker' = next
  /\ tries' = [tries EXCEPT ![it.msg] = @ + 1]
  /\ UNCHANGED <<sub, store, enabled, deleters, dropped, admin, switches>>

SendOK(it) ==
  /\ enabled
  /\ Attempt(it, "delete")
  /\ Taken(it)
  /\ UNCHANGED faults

\* The relay refused or was not reached, or is no longer configured.
SendFails(it) ==
  /\ Attempt(it, "fail")
  /\ UNCHANGED <<relay, hollow, faults>>

\* The relay took the message, but Send still returns an error (QUIT).
SendFailsLate(it) ==
  /\ enabled
  /\ faults < MaxFaults
  /\ faults' = faults + 1
  /\ Attempt(it, "fail")
  /\ Taken(it)

BatchDone ==
  /\ worker = "send"
  /\ batch = {}
  /\ worker' = "idle"
  /\ UNCHANGED <<sub, store, relay, hollow, enabled, batch, cur, deleters, dropped, tries, counts>>

RetryOutboundCountsDown(r, attempts) ==
  [r EXCEPT !.attempts = r.attempts - 1, !.failed = r.attempts = 0, !.due = FALSE]

RetryOutboundDrops(r, attempts) ==
  IF attempts >= MaxAttempts THEN NoRow ELSE [r EXCEPT !.attempts = attempts, !.due = FALSE]

RetryOutboundOnceMore(r, attempts) ==
  [r EXCEPT !.attempts = attempts, !.failed = attempts > MaxAttempts,
            !.due = attempts > MaxAttempts]

\* fail: the attempts counted from what DueOutbound read, written over the row.
RetryOutbound(r, attempts) ==
  [r EXCEPT !.attempts = attempts, !.failed = attempts >= MaxAttempts,
            !.due = attempts >= MaxAttempts]

Fail ==
  /\ worker = "fail"
  /\ \E it \in cur :
       outbox' = [outbox EXCEPT ![it.msg] = IF @.here THEN RetryOutbound(@, it.attempts + 1) ELSE @]
  /\ worker' = "send"
  /\ cur' = {}
  /\ UNCHANGED <<sub, blob, relay, hollow, enabled, batch, deleters, dropped, tries, counts>>

\* The attempt cannot be counted: the row stays due.
FailUncounted ==
  /\ faults < MaxFaults
  /\ faults' = faults + 1
  /\ worker = "fail"
  /\ worker' = "send"
  /\ cur' = {}
  /\ UNCHANGED <<sub, store, relay, hollow, enabled, batch, deleters, dropped, tries, admin, switches>>

\* The delay of Backoff is over.
TimePasses(m) ==
  /\ outbox[m].here /\ ~outbox[m].failed /\ ~outbox[m].due
  /\ outbox' = [outbox EXCEPT ![m].due = TRUE]
  /\ UNCHANGED <<sub, blob, relay, hollow, enabled, queue, deleters, dropped, tries, counts>>

----------------------------------------------------------------------------
\* DeleteOutbound: read the path, delete the row, remove the file.

ReadPath(w, m) == deleters' = [deleters EXCEPT ![w] = [pc |-> "row", msg |-> {m}, path |-> outbox[m].path]]

DeleteDeliveredLater ==
  /\ worker = "delete"
  /\ worker' = "send"
  /\ cur' = {}
  /\ UNCHANGED <<sub, store, relay, hollow, enabled, batch, deleters, dropped, tries, counts>>

DeleteDelivered ==
  /\ worker = "delete"
  /\ deleters["worker"].pc = "idle"
  /\ \E it \in cur : ReadPath("worker", it.msg)
  /\ UNCHANGED <<sub, store, relay, hollow, enabled, queue, dropped, tries, counts>>

DeleteRow(w) ==
  /\ deleters[w].pc = "row"
  /\ outbox' = [m \in Msgs |-> IF m \in deleters[w].msg THEN NoRow ELSE outbox[m]]
  /\ deleters' = [deleters EXCEPT ![w].pc = "blob"]
  /\ tries' = [m \in Msgs |-> IF m \in deleters[w].msg THEN 0 ELSE tries[m]]
  /\ dropped' = IF w = "admin" THEN dropped \cup deleters[w].msg ELSE dropped
  /\ UNCHANGED <<sub, blob, relay, hollow, enabled, queue, counts>>

\* DeleteOutbound returns; the worker goes on with its batch.
Return(w) ==
  /\ deleters' = [deleters EXCEPT ![w] = NoDelete]
  /\ IF w = "worker" THEN worker' = "send" /\ cur' = {} ELSE UNCHANGED <<worker, cur>>

\* The path cannot be read or the row not be deleted: both stay.  An error of the
\* removal is ignored: the file stays.
DeleteFails(w) ==
  /\ faults < MaxFaults
  /\ faults' = faults + 1
  /\ deleters[w].pc # "idle"
  /\ Return(w)
  /\ UNCHANGED <<sub, store, relay, hollow, enabled, batch, dropped, tries, admin, switches>>

RemoveBlob(w) ==
  /\ deleters[w].pc = "blob"
  /\ blob' = IF deleters[w].path THEN blob \ deleters[w].msg ELSE blob
  /\ Return(w)
  /\ UNCHANGED <<sub, outbox, relay, hollow, enabled, batch, dropped, tries, counts>>

----------------------------------------------------------------------------
\* The administrator

\* RetryOutboundNow, for a row whose source can be loaded.
RetryNow(m) ==
  /\ admin < MaxAdmin
  /\ outbox[m].here
  /\ outbox[m].path => m \in blob
  /\ outbox' = [outbox EXCEPT ![m].failed = FALSE, ![m].attempts = 0, ![m].due = TRUE]
  /\ tries' = [tries EXCEPT ![m] = 0]
  /\ admin' = admin + 1
  /\ UNCHANGED <<sub, blob, relay, hollow, enabled, queue, deleters, dropped, faults, switches>>

Drop(m) ==
  /\ admin < MaxAdmin
  /\ outbox[m].here
  /\ deleters["admin"].pc = "idle"
  /\ ReadPath("admin", m)
  /\ admin' = admin + 1
  /\ UNCHANGED <<sub, store, relay, hollow, enabled, queue, dropped, tries, faults, switches>>

Configure ==
  /\ switches < MaxSwitch
  /\ enabled' = ~enabled
  /\ switches' = switches + 1
  /\ UNCHANGED <<sub, store, relay, hollow, queue, deleters, dropped, tries, faults, admin>>

\* The process dies and starts again: handlers, worker and deleters are gone (a
\* sender that has no answer was not told its message is accepted), rows and files
\* stay.
Crash ==
  /\ faults < MaxFaults
  /\ faults' = faults + 1
  /\ sub' = [m \in Msgs |-> IF sub[m] \in {"insert", "put", "path"} THEN "rejected" ELSE sub[m]]
  /\ worker' = "idle" /\ batch' = {} /\ cur' = {}
  /\ deleters' = [w \in Deleters |-> NoDelete]
  /\ UNCHANGED <<store, relay, hollow, enabled, dropped, tries, admin, switches>>

----------------------------------------------------------------------------
Submit(m) ==
  \/ SubmitRefused(m) \/ SubmitSent(m) \/ SubmitFails(m)
  \/ Insert(m) \/ Put(m) \/ SetPath(m) \/ EnqueueFails(m)

Work ==
  \/ Drain \/ LoadRaw \/ BatchDone \/ Fail \/ DeleteDelivered
  \/ \E it \in batch : SendOK(it) \/ SendFails(it) \/ SendFailsLate(it)

Next ==
  \/ \E m \in Msgs : Submit(m) \/ TimePasses(m) \/ RetryNow(m) \/ Drop(m)
  \/ Work
  \/ \E w \in Deleters : DeleteRow(w) \/ RemoveBlob(w) \/ DeleteFails(w)
  \/ FailUncounted \/ Configure \/ Crash

Spec == Init /\ [][Next]_vars

\* The worker's ticker and its steps, the clock, and a started delete go on.
Fairness ==
  /\ WF_vars(Work)
  /\ \A m \in Msgs : WF_vars(TimePasses(m))
  /\ \A w \in Deleters : WF_vars(DeleteRow(w) \/ RemoveBlob(w))

FairSpec == Spec /\ Fairness

----------------------------------------------------------------------------
\* Properties

Queued(m) == outbox[m].here /\ ~outbox[m].failed

\* A message its sender was told is accepted is never lost (EnqueueOutbound,
\* DeleteOutbound): the relay has it, or it is stored with its source, or an
\* administrator dropped it.  Excepted is one sent before its source was stored.
NoLoss ==
  \A m \in Msgs :
    sub[m] = "accepted" =>
      \/ relay[m] > 0
      \/ outbox[m].here /\ outbox[m].path /\ m \in blob
      \/ m \in dropped
      \/ m \in hollow

\* A stored path always has its file (DeleteOutbound removes the row first), so no
\* row can make DueOutbound fail for the whole queue for good.
PathHasBlob == \A m \in Msgs : outbox[m].here /\ outbox[m].path => m \in blob

\* Between two retries by the administrator the worker tries a message at most
\* MaxAttempts times (fail), plus once for each fault that lost the count.
AttemptsBounded == \A m \in Msgs : tries[m] <= MaxAttempts + faults

\* The relay takes a message a second time only after a fault: an answer lost after
\* it took the message, or a crash or an error before the row was deleted.
DuplicateNeedsFault == \A m \in Msgs : relay[m] <= 1 + faults

\* While the relay stays configured, every queued message is finally sent, dropped
\* or marked failed (Run, Drain): no message is passed over for ever.
Settles ==
  \A m \in Msgs : Queued(m) ~> (~Queued(m) \/ ~enabled)

\* "including the MIME source so the caller can deliver them" (DueOutbound): the
\* relay is never handed a message without its source.
SourceIncluded == hollow = {}

=============================================================================
