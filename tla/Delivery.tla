------------------------------ MODULE Delivery ------------------------------
(***************************************************************************)
(* Mail into mailboxes.  Four paths accept a message: the inbound API      *)
(* (api/inbound.go), ActiveSync (eas/compose.go), SMTP submission          *)
(* (submission/server.go) and webmail (api/compose.go, api/reply.go).      *)
(* Each resolves recipients, stores a copy for local ones (InsertMessage,  *)
(* attachments, AddChange, the inbox hook), and hands other addresses to   *)
(* the relay, in an order and with error handling of its own.  The hook    *)
(* sends out-of-office notices, which are themselves delivered.            *)
(*                                                                         *)
(* Every store statement is a step; handlers of the same or of different   *)
(* messages overlap.  The clients (a mail server with its retries, a       *)
(* phone, a mail program, a browser) are external.  Recipient lists are    *)
(* sets: the order of a list may be any.                                   *)
(***************************************************************************)
EXTENDS Naturals, Sequences, FiniteSets

CONSTANTS
  Users, NoUser,
  Addrs,      \* addresses
  Owner,      \* UserByAddress: the account of an address (aliases and user+tag included)
  Address,    \* the primary address of an account
  Hosted,     \* the addresses on a configured domain
  CatchAll,   \* those whose domain has a catch-all destination
  Msgs,       \* messages that clients want to send
  Batches,    \* what the messages of a run may look like
  MaxReqs,    \* bound: handlers that run at the same time
  MaxRows,    \* bound: a person sends again only while there are fewer rows
  MaxFaults,  \* bound: failing statements or relays, lost answers, clients that give up, crashes
  MaxDays     \* bound: ends of the out-of-office interval

Paths == {"inbound", "eas", "smtp", "web", "auto"}

\* What the handlers use of a parsed message; cc stands for Cc and Bcc, auto for
\* looksAutomated or a calendar part.
Mail == [via : Paths, to : SUBSET Addrs, cc : SUBSET Addrs, from : Addrs,
         key : BOOLEAN, auto : BOOLEAN]

ASSUME DeliveryAssumption ==
  /\ NoUser \notin Users
  /\ Owner \in [Addrs -> Users \cup {NoUser}]
  /\ Address \in [Users -> Addrs]
  /\ \A u \in Users : Owner[Address[u]] = u
  /\ Hosted \subseteq Addrs /\ CatchAll \subseteq Hosted
  /\ Msgs # {} /\ Batches # {} /\ Batches \subseteq [Msgs -> Mail]
  /\ \A b \in Batches : \A m \in Msgs :    \* clients send no notices; ours are logged in
       b[m].via # "auto" /\ (b[m].via # "inbound" => Owner[b[m].from] \in Users)
  /\ MaxReqs \in Nat /\ MaxRows \in Nat /\ MaxFaults \in Nat /\ MaxDays \in Nat

VARIABLES
  mail,     \* what each message looks like
  client,   \* what its sender knows of it
  req,      \* the handlers; level 2 is the notice sent by the hook of level 1
  rows,     \* the messages table
  relay,    \* how often the relay or the queue took a message for an address
  oofLast,  \* <<account, correspondent>> answered less than a day ago
  notices,  \* how many notices went out per account and correspondent
  races,    \* per message: what can defeat the duplicate check
  days, restarts, faults

vars == <<mail, client, req, rows, relay, oofLast, notices, races, days, restarts, faults>>

Reqs == 1..MaxReqs
Levels == 1..3
Slots == Reqs \X Levels

\* A handler: todo are the recipients not yet resolved, jobs those found local (or to be
\* forwarded) before anything is stored, ext those for the relay, bad what went wrong so
\* far, at the recipient being served, row the row it is storing.
Handler == [pc : {"idle", "resolve", "relay", "job", "check", "insert", "source", "attach",
                  "change", "hook", "wait", "publish", "answer"},
            msg : Msgs, mail : Mail, todo : SUBSET Addrs, jobs : SUBSET Addrs,
            ext : SUBSET Addrs, bad : SUBSET {"unknown", "failed"}, at : Addrs,
            box : {"inbox", "sent"}, row : Nat, status : {"ok", "rejected", "failed"},
            deaf : BOOLEAN]

\* reply: the row is an out-of-office notice that msg caused.
Row == [user : Users, box : {"inbox", "sent"}, msg : Msgs, reply : BOOLEAN, key : BOOLEAN,
        src : BOOLEAN, att : BOOLEAN, fed : BOOLEAN, told : BOOLEAN]

\* Shapes; a handler never stores for an address without an account (Inbound.ServeHTTP,
\* deliverLocal: the owner is looked up before the row is written).
TypeOK ==
  /\ mail \in Batches
  /\ client \in [Msgs -> {"wants", "waiting", "ok", "rejected", "failed"}]
  /\ req \in [Slots -> Handler]
  /\ rows \in Seq(Row)
  /\ relay \in [Msgs \X Addrs -> Nat]
  /\ oofLast \subseteq Users \X Addrs
  /\ notices \in [Users \X Addrs -> Nat]
  /\ races \in [Msgs -> Nat]
  /\ days \in Nat /\ restarts \in Nat /\ faults \in Nat

Author(v) == Owner[v.from]

\* ownAddresses, explicitRecipients and replyRecipients drop the account's own addresses;
\* the other paths take all.
Recipients(v) ==
  IF v.via = "web" THEN {a \in v.to \cup v.cc : Owner[a] # Author(v)} ELSE v.to \cup v.cc

Idle(m, v) ==
  [pc |-> "idle", msg |-> m, mail |-> v, todo |-> {}, jobs |-> {}, ext |-> {}, bad |-> {},
   at |-> v.from, box |-> "inbox", row |-> 0, status |-> "ok", deaf |-> FALSE]

NoReq == LET m == CHOOSE x \in Msgs : TRUE IN Idle(m, (CHOOSE b \in Batches : TRUE)[m])

\* A handler before its first statement.  Webmail stores the Sent copy first.
Fresh(m, v) ==
  [Idle(m, v) EXCEPT !.pc = IF v.via = "web" THEN "insert" ELSE "resolve",
                     !.todo = Recipients(v),
                     !.box = IF v.via = "web" THEN "sent" ELSE "inbox"]

Init ==
  /\ mail \in Batches
  /\ client = [m \in Msgs |-> "wants"]
  /\ req = [s \in Slots |-> NoReq]
  /\ rows = <<>>
  /\ relay = [p \in Msgs \X Addrs |-> 0]
  /\ oofLast = {}
  /\ notices = [p \in Users \X Addrs |-> 0]
  /\ races = [m \in Msgs |-> 0]
  /\ days = 0 /\ restarts = 0 /\ faults = 0

Fault == faults < MaxFaults /\ faults' = faults + 1
Step(s, h) == req' = [req EXCEPT ![s] = h]
Answered(h, st) == [h EXCEPT !.pc = "answer", !.status = st]
ResolvesFirstNot(h) == h.mail.via \in {"eas", "auto"}
ResolvesFirst(h) == h.mail.via \in {"inbound", "eas", "auto"}
Target(h) == IF h.box = "sent" THEN Author(h.mail) ELSE Owner[h.at]

(***************************************************************************)
(* Sending: the client's request reaches a handler.                        *)
(***************************************************************************)

\* (Handlers have no names: the first free number is taken.)
Start(r, m) ==
  /\ client[m] = "wants"
  /\ req[<<r, 1>>].pc = "idle"
  /\ \A q \in 1..(r - 1) : req[<<q, 1>>].pc # "idle"
  /\ Recipients(mail[m]) # {}
  /\ client' = [client EXCEPT ![m] = "waiting"]
  /\ Step(<<r, 1>>, Fresh(m, mail[m]))
  /\ UNCHANGED <<mail, rows, relay, oofLast, notices, races, days, restarts, faults>>

\* No recipient is left: 400, Status 2; nobody sends the same again.
StartRefused(m) ==
  /\ client[m] = "wants"
  /\ Recipients(mail[m]) = {}
  /\ client' = [client EXCEPT ![m] = "rejected"]
  /\ UNCHANGED <<mail, req, rows, relay, oofLast, notices, races, days, restarts, faults>>

(***************************************************************************)
(* Resolving recipients.                                                   *)
(***************************************************************************)

\* UserByAddress finds an account.  Inbound and ActiveSync note it; SMTP and webmail
\* store the copy before they look at the next recipient.
ResolveLocal(s) ==
  LET h == req[s] IN
  /\ h.pc = "resolve"
  /\ \E a \in h.todo :
       /\ Owner[a] # NoUser
       /\ Step(s, [h EXCEPT !.todo = @ \ {a},
                            !.jobs = IF ResolvesFirst(h) THEN @ \cup {a} ELSE @,
                            !.at = IF ResolvesFirst(h) THEN @ ELSE a,
                            !.box = "inbox",
                            !.pc = CASE ResolvesFirst(h) -> "resolve"
                                     [] h.mail.via = "smtp" -> "check"
                                     [] OTHER -> "insert"])
  /\ UNCHANGED <<mail, client, rows, relay, oofLast, notices, races, days, restarts, faults>>

\* What a handler does with an address it has no account for.
NoAccount(h, a) ==
  LET rest == [h EXCEPT !.todo = @ \ {a}] IN
  CASE h.mail.via = "inbound" /\ a \in CatchAll -> [rest EXCEPT !.jobs = @ \cup {a}]
    [] h.mail.via = "inbound" /\ a \notin CatchAll -> [rest EXCEPT !.bad = @ \cup {"unknown"}]
    [] h.mail.via # "inbound" /\ a \notin Hosted -> [rest EXCEPT !.ext = @ \cup {a}]
    [] h.mail.via \in {"eas", "auto"} /\ a \in Hosted -> [rest EXCEPT !.bad = @ \cup {"unknown"}]
    [] h.mail.via = "smtp" /\ a \in Hosted -> Answered(rest, "rejected")
    [] OTHER -> Answered(rest, "failed")

ResolveOther(s) ==
  LET h == req[s] IN
  /\ h.pc = "resolve"
  /\ \E a \in h.todo : Owner[a] = NoUser /\ Step(s, NoAccount(h, a))
  /\ UNCHANGED <<mail, client, rows, relay, oofLast, notices, races, days, restarts, faults>>

\* The lookup fails: only the inbound API tells this from an unknown address.
ResolveFails(s) ==
  LET h == req[s] IN
  /\ Fault
  /\ h.pc = "resolve"
  /\ \E a \in h.todo :
       Step(s, IF h.mail.via = "inbound"
               THEN [h EXCEPT !.todo = @ \ {a}, !.bad = @ \cup {"failed"}]
               ELSE NoAccount(h, a))
  /\ UNCHANGED <<mail, client, rows, relay, oofLast, notices, races, days, restarts>>

\* All recipients are looked up.
Routed(s) ==
  LET h == req[s] IN
  /\ h.pc = "resolve"
  /\ h.todo = {}
  /\ Step(s, CASE "unknown" \in h.bad -> Answered(h, IF h.mail.via = "inbound" THEN "rejected"
                                                                              ELSE "failed")
               [] "unknown" \notin h.bad /\ "failed" \in h.bad -> Answered(h, "failed")
               [] h.bad = {} /\ h.ext # {} -> [h EXCEPT !.pc = "relay"]
               [] h.bad = {} /\ h.ext = {} /\ ResolvesFirst(h) -> [h EXCEPT !.pc = "job"]
               [] OTHER -> Answered(h, "ok"))
  /\ UNCHANGED <<mail, client, rows, relay, oofLast, notices, races, days, restarts, faults>>

(***************************************************************************)
(* The relay: Sender.Send, or the queue if that fails (module Outbox).     *)
(***************************************************************************)

\* (Notices are not counted: they are not the message that caused them.)
Sent(h, as) ==
  [p \in Msgs \X Addrs |->
    relay[p] + IF p[1] = h.msg /\ p[2] \in as /\ h.mail.via # "auto" THEN 1 ELSE 0]

Relay(s) ==
  LET h == req[s] IN
  /\ h.pc = "relay"
  /\ relay' = Sent(h, h.ext)
  /\ Step(s, IF ResolvesFirst(h) THEN [h EXCEPT !.pc = "job"] ELSE Answered(h, "ok"))
  /\ UNCHANGED <<mail, client, rows, oofLast, notices, races, days, restarts, faults>>

\* Not configured, or neither relay nor queue took it, or the relay took it and the
\* answer was lost.
RelayFails(s) ==
  LET h == req[s] IN
  /\ Fault
  /\ h.pc = "relay"
  /\ relay' \in {relay, Sent(h, h.ext)}
  /\ Step(s, Answered(h, "failed"))
  /\ UNCHANGED <<mail, client, rows, oofLast, notices, races, days, restarts>>

(***************************************************************************)
(* The deliveries of a handler that resolves first.                        *)
(***************************************************************************)

NextJobAny(s) ==
  LET h == req[s] IN
  /\ h.pc = "job"
  /\ \E a \in h.jobs : Step(s, [h EXCEPT !.jobs = @ \ {a}, !.at = a, !.box = "inbox",
                                        !.pc = "check"])
  /\ UNCHANGED <<mail, client, rows, relay, oofLast, notices, races, days, restarts, faults>>

NextJob(s) ==
  LET h == req[s] IN
  /\ h.pc = "job"
  /\ \E a \in h.jobs : /\ Owner[a] # NoUser
                       /\ Step(s, [h EXCEPT !.jobs = @ \ {a}, !.at = a, !.box = "inbox",
                                            !.pc = "check"])
  /\ UNCHANGED <<mail, client, rows, relay, oofLast, notices, races, days, restarts, faults>>

\* A catch-all address is forwarded while the request waits.
Forward(s) ==
  LET h == req[s] IN
  /\ h.pc = "job"
  /\ \E a \in h.jobs : /\ Owner[a] = NoUser
                       /\ relay' = Sent(h, {a})
                       /\ Step(s, [h EXCEPT !.jobs = @ \ {a}])
  /\ UNCHANGED <<mail, client, rows, oofLast, notices, races, days, restarts, faults>>

ForwardFails(s) ==
  LET h == req[s] IN
  /\ Fault
  /\ h.pc = "job"
  /\ \E a \in h.jobs : /\ Owner[a] = NoUser
                       /\ relay' \in {relay, Sent(h, {a})}
                       /\ Step(s, [h EXCEPT !.jobs = @ \ {a}, !.bad = @ \cup {"failed"}])
  /\ UNCHANGED <<mail, client, rows, oofLast, notices, races, days, restarts>>

JobsDoneIfGood(s) ==
  LET h == req[s] IN
  /\ h.pc = "job"
  /\ h.jobs = {} /\ h.bad = {}
  /\ Step(s, IF h.mail.via = "eas" THEN [h EXCEPT !.pc = "insert", !.box = "sent"]
                                   ELSE Answered(h, "ok"))
  /\ UNCHANGED <<mail, client, rows, relay, oofLast, notices, races, days, restarts, faults>>

\* After the last one: inbound answers, ActiveSync stores the Sent copy of a client's
\* message (a notice has none).
JobsDone(s) ==
  LET h == req[s] IN
  /\ h.pc = "job"
  /\ h.jobs = {}
  /\ Step(s, CASE h.bad # {} -> Answered(h, "failed")
               [] h.bad = {} /\ h.mail.via = "eas" -> [h EXCEPT !.pc = "insert", !.box = "sent"]
               [] OTHER -> Answered(h, "ok"))
  /\ UNCHANGED <<mail, client, rows, relay, oofLast, notices, races, days, restarts, faults>>

(***************************************************************************)
(* One copy: MessageIDExists, InsertMessage (row, then source), the        *)
(* attachments, AddChange, the hook.                                       *)
(***************************************************************************)

\* What follows a copy that is stored.
StoredJob(h) ==
  CASE h.box = "sent" /\ h.mail.via = "eas" -> Answered(h, "ok")
    [] h.box = "inbox" /\ ResolvesFirst(h) -> [h EXCEPT !.pc = "job"]
    [] OTHER -> [h EXCEPT !.pc = "resolve"]

StoreFailedUnnoticed(h) ==
  CASE h.mail.via = "inbound" -> [h EXCEPT !.pc = "job"]
    [] h.mail.via = "eas" /\ h.box = "sent" -> Answered(h, "ok")
    [] OTHER -> Answered(h, "failed")

\* What follows a failing statement: inbound goes on and answers 500 at the end, a
\* missing Sent copy does not matter to ActiveSync, everything else ends the request.
StoreFailed(h) ==
  CASE h.mail.via = "inbound" -> [h EXCEPT !.pc = "job", !.bad = @ \cup {"failed"}]
    [] h.mail.via = "eas" /\ h.box = "sent" -> Answered(h, "ok")
    [] OTHER -> Answered(h, "failed")

MessageIDExists(u, h) ==
  /\ h.mail.key
  /\ \E i \in 1..Len(rows) : rows[i].user = u /\ rows[i].msg = h.msg /\ rows[i].key

CheckAlways(s) ==
  LET h == req[s] IN
  /\ h.pc = "check"
  /\ Step(s, [h EXCEPT !.pc = "insert"])
  /\ UNCHANGED <<mail, client, rows, relay, oofLast, notices, races, days, restarts, faults>>

Check(s) ==
  LET h == req[s] IN
  /\ h.pc = "check"
  /\ Step(s, IF MessageIDExists(Target(h), h) THEN StoredJob(h) ELSE [h EXCEPT !.pc = "insert"])
  /\ UNCHANGED <<mail, client, rows, relay, oofLast, notices, races, days, restarts, faults>>

\* The check fails: inbound skips the recipient, the others store the message.
CheckFails(s) ==
  LET h == req[s] IN
  /\ Fault
  /\ h.pc = "check"
  /\ Step(s, IF h.mail.via = "inbound" THEN StoreFailed(h) ELSE [h EXCEPT !.pc = "insert"])
  /\ races' = [races EXCEPT ![h.msg] = IF h.mail.via = "inbound" THEN @ ELSE @ + 1]
  /\ UNCHANGED <<mail, client, rows, relay, oofLast, notices, days, restarts>>

\* Webmail gives every attempt a Message-ID of its own.
NewRow(h) ==
  [user |-> Target(h), box |-> h.box, msg |-> h.msg, reply |-> h.mail.via = "auto",
   key |-> h.mail.key /\ h.mail.via # "web", src |-> FALSE, att |-> FALSE, fed |-> FALSE,
   told |-> FALSE]

InsertRow(s) ==
  LET h == req[s] IN
  /\ h.pc = "insert"
  /\ rows' = Append(rows, NewRow(h))
  /\ Step(s, [h EXCEPT !.pc = "source", !.row = Len(rows) + 1])
  /\ UNCHANGED <<mail, client, relay, oofLast, notices, races, days, restarts, faults>>

\* The blob is written and the row points to it.
SetPath(s) ==
  LET h == req[s] IN
  /\ h.pc = "source"
  /\ rows' = [rows EXCEPT ![h.row].src = TRUE]
  /\ Step(s, [h EXCEPT !.pc = "attach"])
  /\ UNCHANGED <<mail, client, relay, oofLast, notices, races, days, restarts, faults>>

\* FolderByType or the INSERT, the blob or the UPDATE fails; a row that was inserted stays.
InsertFails(s) ==
  LET h == req[s] IN
  /\ Fault
  /\ h.pc \in {"insert", "source"}
  /\ Step(s, StoreFailed(h))
  /\ UNCHANGED <<mail, client, rows, relay, oofLast, notices, races, days, restarts>>

InsertAttachment(s) ==
  LET h == req[s] IN
  /\ h.pc = "attach"
  /\ rows' = [rows EXCEPT ![h.row].att = TRUE]
  /\ Step(s, [h EXCEPT !.pc = "change"])
  /\ UNCHANGED <<mail, client, relay, oofLast, notices, races, days, restarts, faults>>

AfterChangeUntold(h) ==
  IF h.box = "inbox" /\ h.mail.via # "inbound" THEN [h EXCEPT !.pc = "hook"] ELSE StoredJob(h)

\* After AddChange the hook runs, for an inbox only.
AfterChange(h) == IF h.box = "inbox" THEN [h EXCEPT !.pc = "hook"] ELSE StoredJob(h)

AddChange(s) ==
  LET h == req[s] IN
  /\ h.pc = "change"
  /\ rows' = [rows EXCEPT ![h.row].fed = TRUE]
  /\ Step(s, AfterChange(h))
  /\ UNCHANGED <<mail, client, relay, oofLast, notices, races, days, restarts, faults>>

\* Inbound only logs these errors; ToUser returns them.
RecordFails(s) ==
  LET h == req[s] IN
  /\ Fault
  /\ h.pc \in {"attach", "change"}
  /\ Step(s, CASE h.mail.via = "inbound" /\ h.pc = "attach" -> [h EXCEPT !.pc = "change"]
               [] h.mail.via = "inbound" /\ h.pc = "change" -> AfterChange(h)
               [] OTHER -> StoreFailed(h))
  /\ UNCHANGED <<mail, client, rows, relay, oofLast, notices, races, days, restarts>>

(***************************************************************************)
(* The inbox hook: out-of-office notice, then the event for open tabs.     *)
(***************************************************************************)

Inner(s) == <<s[1], s[2] + 1>>

\* Whether a notice would be sent if the account is out of office at this moment.
AnswersAutomated(u, v) == v.from # Address[u] /\ <<u, v.from>> \notin oofLast

Answers(u, v) == v.from # Address[u] /\ ~v.auto /\ <<u, v.from>> \notin oofLast

Notice(u, to) ==
  [via |-> "auto", to |-> {to}, cc |-> {}, from |-> Address[u], key |-> FALSE, auto |-> TRUE]

\* The account is not out of office (Settings/Oof changes that at any time, and a scheduled
\* absence begins and ends), or there is nothing to answer.
NoNotice(s) ==
  LET h == req[s] IN
  /\ h.pc = "hook"
  /\ Step(s, [h EXCEPT !.pc = "publish"])
  /\ UNCHANGED <<mail, client, rows, relay, oofLast, notices, races, days, restarts, faults>>

OofReplyUnmarked(s) ==
  LET h == req[s] u == Target(h) IN
  /\ h.pc = "hook" /\ s[2] < 3
  /\ Answers(u, h.mail)
  /\ notices' = [notices EXCEPT ![<<u, h.mail.from>>] = @ + 1]
  /\ req' = [req EXCEPT ![s].pc = "wait", ![Inner(s)] = Fresh(h.msg, Notice(u, h.mail.from))]
  /\ UNCHANGED <<mail, client, rows, relay, oofLast, races, days, restarts, faults>>

\* The account is out of office.  The correspondent is marked as answered before the notice
\* is sent (sendComposed, on the next level).
OofReply(s) ==
  LET h == req[s] u == Target(h) IN
  /\ h.pc = "hook" /\ s[2] < 3
  /\ Answers(u, h.mail)
  /\ oofLast' = oofLast \cup {<<u, h.mail.from>>}
  /\ notices' = [notices EXCEPT ![<<u, h.mail.from>>] = @ + 1]
  /\ req' = [req EXCEPT ![s].pc = "wait", ![Inner(s)] = Fresh(h.msg, Notice(u, h.mail.from))]
  /\ UNCHANGED <<mail, client, rows, relay, races, days, restarts, faults>>

\* The notice is done, whatever its status.
OofReturns(s) ==
  /\ req[s].pc = "wait"
  /\ req[Inner(s)].pc = "answer"
  /\ req' = [req EXCEPT ![s].pc = "publish", ![Inner(s)] = NoReq]
  /\ UNCHANGED <<mail, client, rows, relay, oofLast, notices, races, days, restarts, faults>>

Publish(s) ==
  LET h == req[s] IN
  /\ h.pc = "publish"
  /\ rows' = [rows EXCEPT ![h.row].told = TRUE]
  /\ Step(s, StoredJob(h))
  /\ UNCHANGED <<mail, client, relay, oofLast, notices, races, days, restarts, faults>>

\* oofReplyInterval is over for a correspondent.
DayPasses(p) ==
  /\ p \in oofLast
  /\ days < MaxDays
  /\ oofLast' = oofLast \ {p}
  /\ days' = days + 1
  /\ UNCHANGED <<mail, client, req, rows, relay, notices, races, restarts, faults>>

(***************************************************************************)
(* Answers and clients.                                                    *)
(***************************************************************************)

Receive(r) ==
  LET h == req[<<r, 1>>] IN
  /\ h.pc = "answer"
  /\ client' = IF h.deaf THEN client ELSE [client EXCEPT ![h.msg] = h.status]
  /\ Step(<<r, 1>>, NoReq)
  /\ UNCHANGED <<mail, rows, relay, oofLast, notices, races, days, restarts, faults>>

\* The answer is lost.
LoseAnswer(r) ==
  LET h == req[<<r, 1>>] IN
  /\ Fault
  /\ h.pc = "answer" /\ ~h.deaf
  /\ client' = [client EXCEPT ![h.msg] = "failed"]
  /\ Step(<<r, 1>>, NoReq)
  /\ UNCHANGED <<mail, rows, relay, oofLast, notices, races, days, restarts>>

\* The client does not wait any longer; the handler goes on.
GiveUp(r) ==
  LET h == req[<<r, 1>>] IN
  /\ Fault
  /\ h.pc \notin {"idle", "answer"} /\ ~h.deaf
  /\ client' = [client EXCEPT ![h.msg] = "failed"]
  /\ races' = [races EXCEPT ![h.msg] = @ + 1]
  /\ req' = [req EXCEPT ![<<r, 1>>].deaf = TRUE]
  /\ UNCHANGED <<mail, rows, relay, oofLast, notices, days, restarts>>

\* The same message again: the sending server must, a person may.
Retry(m) ==
  /\ client[m] = "failed"
  /\ mail[m].via = "inbound" \/ Len(rows) < MaxRows
  /\ client' = [client EXCEPT ![m] = "wants"]
  /\ UNCHANGED <<mail, req, rows, relay, oofLast, notices, races, days, restarts, faults>>

\* The process dies and is started again; oofLast was in memory only.
Crash ==
  /\ Fault
  /\ client' = [m \in Msgs |-> IF client[m] = "waiting" THEN "failed" ELSE client[m]]
  /\ req' = [s \in Slots |-> NoReq]
  /\ oofLast' = {}
  /\ restarts' = restarts + 1
  /\ UNCHANGED <<mail, rows, relay, notices, races, days>>

Handling(s) ==
  \/ ResolveLocal(s) \/ ResolveOther(s) \/ Routed(s) \/ Relay(s)
  \/ NextJob(s) \/ Forward(s) \/ JobsDone(s) \/ Check(s) \/ InsertRow(s) \/ SetPath(s)
  \/ InsertAttachment(s) \/ AddChange(s) \/ NoNotice(s) \/ Publish(s)
  \/ s[2] < 3 /\ (OofReply(s) \/ OofReturns(s))

Failing(s) ==
  \/ ResolveFails(s) \/ RelayFails(s) \/ ForwardFails(s) \/ CheckFails(s)
  \/ InsertFails(s) \/ RecordFails(s)

Next ==
  \/ \E r \in Reqs, m \in Msgs : Start(r, m)
  \/ \E m \in Msgs : StartRefused(m) \/ Retry(m)
  \/ \E s \in Slots : Handling(s) \/ Failing(s)
  \/ \E r \in Reqs : Receive(r) \/ LoseAnswer(r) \/ GiveUp(r)
  \/ \E p \in Users \X Addrs : DayPasses(p)
  \/ Crash

Spec == Init /\ [][Next]_vars

\* Handlers run on, answers arrive, and a sending server tries again.
Fairness ==
  /\ \A s \in Slots : WF_vars(Handling(s))
  /\ \A r \in Reqs : WF_vars(Receive(r))
  /\ \A m \in Msgs : WF_vars(StartRefused(m) \/ \E r \in Reqs : Start(r, m))
  /\ \A m \in Msgs : WF_vars(mail[m].via = "inbound" /\ Retry(m))

FairSpec == Spec /\ Fairness

(***************************************************************************)
(* Properties.                                                             *)
(***************************************************************************)

Copies(u, m, b) ==
  {i \in 1..Len(rows) : rows[i].user = u /\ rows[i].msg = m /\ rows[i].box = b /\ ~rows[i].reply}

\* The message is with the recipient, or on its way through relay or queue.
Reached(m, a) ==
  \/ relay[<<m, a>>] > 0
  \/ \E i \in 1..Len(rows) : rows[i].user = Owner[a] /\ rows[i].msg = m /\ ~rows[i].reply

\* A sender who was told that the message was accepted can rely on it: every recipient
\* was reached, whatever failed, crashed or was repeated before.
Accepted ==
  \A m \in Msgs : client[m] = "ok" => \A a \in Recipients(mail[m]) : Reached(m, a)

\* Retries do not multiply a message with a Message-ID: an account gets a second copy
\* only if requests of that message overlapped or the duplicate check itself failed.
NoDuplicates ==
  \A m \in Msgs, u \in Users :
    mail[m].key /\ mail[m].via # "web" => Cardinality(Copies(u, m, "inbox")) <= 1 + races[m]

\* A correspondent gets one notice a day from an account, however many of its messages
\* arrive at the same time; only a restart forgets.
OneNoticeADay ==
  \A u \in Users, a \in Addrs : notices[<<u, a>>] <= 1 + days + restarts

\* Two accounts that are both out of office do not answer each other's notices.
NoticesEnd == \A r \in Reqs : req[<<r, 3>>].pc = "idle"

\* If nothing failed, every copy of an accepted message is complete: it has its source
\* and attachments, devices are told of it and the inbox hook ran.
Complete ==
  \A m \in Msgs : client[m] = "ok" /\ faults = 0 =>
    \A i \in 1..Len(rows) : rows[i].msg = m /\ ~rows[i].reply =>
      rows[i].src /\ rows[i].att /\ rows[i].fed /\ (rows[i].box = "inbox" => rows[i].told)

\* "Local delivery is idempotent (Message-ID check), so a retry is safe": what the inbound
\* API accepts in the end is stored with its source once all its handlers are done.
RetryIsSafe ==
  (\A s \in Slots : req[s].pc = "idle") => \A m \in Msgs :
    client[m] = "ok" /\ mail[m].via = "inbound" /\ mail[m].key =>
      \A a \in Recipients(mail[m]) : Owner[a] # NoUser =>
        \E i \in Copies(Owner[a], m, "inbox") : rows[i].src

\* The promise to senders (module MailPromise), kept by all paths: a verdict is final, an
\* accepted message has reached everybody, one refused by the inbound API nobody.
Promise == INSTANCE MailPromise WITH
  rcpt <- [m \in Msgs |-> Recipients(mail[m])],
  whole <- {m \in Msgs : mail[m].via = "inbound"},
  reached <- {p \in Msgs \X Addrs : Reached(p[1], p[2])},
  verdict <- [m \in Msgs |-> IF client[m] \in {"ok", "rejected"} THEN client[m] ELSE "open"]

KeepsPromise == Promise!Spec

\* Mail from other servers is accepted or refused at last, whatever the faults were.
InboundSettles ==
  \A m \in Msgs : mail[m].via = "inbound" => <>(client[m] \in {"ok", "rejected"})

=============================================================================
