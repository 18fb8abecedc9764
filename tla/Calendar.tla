------------------------------ MODULE Calendar ------------------------------
(***************************************************************************)
(* One calendar event: its row, the exceptions of its series in their own  *)
(* table, and everyone who writes or reads the two.                        *)
(*                                                                         *)
(* Webmail (internal/api/user.go), ActiveSync uploads (eas/sync.go),       *)
(* meeting responses (eas/extended.go) and iMIP replies (eas/imip.go) read *)
(* the row, change some fields and write all columns back, then add a      *)
(* change record; no lock spans the statements.  The public feed           *)
(* (ical/feed.go) and a device's download (loadAppData) read the row first *)
(* and the exceptions after it.  Which records a device is sent, and in    *)
(* which batches, is module EasSync; here a device loads the event when    *)
(* the folder has records it has not seen.                                 *)
(***************************************************************************)
EXTENDS Integers, FiniteSets

CONSTANTS
    Handlers,     \* requests in progress at one time
    Occurrences,  \* occurrences of the series that can have an exception
    Rules,        \* recurrence rules
    NoRule,       \* an event that does not repeat, an upload without a rule
    Parts,        \* PARTSTAT values of iMIP replies
    Responses,    \* UserResponse values of meeting responses
    Carried,      \* attendee and meeting states uploads carry: any integers
    MaxOps,       \* bound: requests that write
    MaxReads,     \* bound: loads by the subscriber and the device
    MaxFaults     \* bound: failed statements and crashes

ASSUME CalendarAssumption ==
    /\ NoRule \notin Rules
    /\ Carried \subseteq Int
    /\ MaxOps \in Nat /\ MaxReads \in Nat /\ MaxFaults \in Nat

VARIABLES
    ev,      \* the row of events, or NoEvent
    exs,     \* event_exceptions: the event's overrides
    log,     \* change records of the folder so far
    missed,  \* a revision whose record was never added, or that could not be loaded
    req,     \* what each handler is doing
    sub,     \* the subscriber's copy of the feed
    dev,     \* the device's copy and the records it has seen
    load,    \* a load of the subscriber or the device between its two reads
    ops, reads, faults

vars == <<ev, exs, log, missed, req, sub, dev, load, ops, reads, faults>>
-----------------------------------------------------------------------------
(* The row.  text is everything the handlers below do not tell apart       *)
(* (subject, times, body...), numbered by the request that wrote it.       *)

\* The states the server computes; an upload's are stored as they are sent.
States == {0, 2, 3, 4, 7, 9}
Event == [text : Nat \ {0}, rule : Rules \cup {NoRule}, answer : States \cup Carried,
          status : States \cup Carried, deleted : BOOLEAN, seq : Nat]
NoEvent == [text |-> 0, rule |-> NoRule, answer |-> 0, status |-> 0,
            deleted |-> TRUE, seq |-> 0]

\* An override, by the request that wrote it; 0 is none.
Exceptions == [Occurrences -> Nat]
NoExceptions == [o \in Occurrences |-> 0]

\* What eventAppData renders for a device, and the feed for a subscriber
\* (every event there is CONFIRMED, whatever its meeting status).
AppData(e, x) == [text |-> e.text, rule |-> e.rule, answer |-> e.answer,
                  status |-> e.status, exceptions |-> x]
Render(e, x) == [text |-> e.text, rule |-> e.rule, answer |-> e.answer, exceptions |-> x]

Exists == ev # NoEvent

\* UpdateEvent: every column but the sequence, which the statement counts up.
UpdateEvent(e) == ev' = [e EXCEPT !.seq = ev.seq + 1]

\* touchEventTx, in the transaction that writes the exceptions.
TouchEventNot == UNCHANGED ev
TouchEvent == ev' = [ev EXCEPT !.seq = @ + 1]

\* A handler: the request it serves, the row it is going to write, the row
\* it read and the exceptions it is going to write.
Idle == [pc |-> "idle"]
NewText == ops + 1
Begins(h, op, e, x) ==
    /\ req[h] = Idle /\ ops < MaxOps
    /\ ops' = ops + 1
    /\ req' = [req EXCEPT ![h] =
                 [pc |-> "update", op |-> op, row |-> e, seen |-> ev, exceptions |-> x]]
    /\ UNCHANGED <<ev, exs, log, missed, sub, dev, load, reads, faults>>
Goes(h, pc) == req' = [req EXCEPT ![h].pc = pc]

Init ==
    /\ ev = NoEvent /\ exs = NoExceptions
    /\ log = 0 /\ missed = FALSE
    /\ req = [h \in Handlers |-> Idle]
    /\ sub = [seq |-> -1, view |-> Render(NoEvent, NoExceptions)]
    /\ dev = [pos |-> 0, view |-> AppData(NoEvent, NoExceptions)]
    /\ load = Idle
    /\ ops = 0 /\ reads = 0 /\ faults = 0
-----------------------------------------------------------------------------
(* Requests, up to and with their read of the row.                         *)

\* POST to a calendar's events: no rule, no attendees, no exceptions.
CreateEvent(h) ==
    /\ ~Exists
    /\ Begins(h, "create", [NoEvent EXCEPT !.text = NewText, !.deleted = FALSE], NoExceptions)

\* PATCH of an event: the basics; the rest is written back as read.
ApplyEventInput(e) == [e EXCEPT !.text = NewText]
EditEvent(h) ==
    /\ Exists /\ ~ev.deleted
    /\ Begins(h, "edit", ApplyEventInput(ev), NoExceptions)

DeleteEvent(h) ==
    /\ Exists /\ ~ev.deleted
    /\ Begins(h, "delete", [ev EXCEPT !.deleted = TRUE], NoExceptions)

\* What parseEventAppData makes of an upload: nothing of the stored row.
ParseEventAppData(rule, a, s) ==
    [text |-> NewText, rule |-> rule, answer |-> a, status |-> s, deleted |-> FALSE, seq |-> 0]
Overrides == [Occurrences -> {0, NewText}]

\* (An Add stores its exceptions even when it has no rule.)
UploadAdd(h, rule, a, s, x) ==
    /\ ~Exists
    /\ Begins(h, "create", ParseEventAppData(rule, a, s), x)

\* An upload that carries no rule keeps the one it read, and the exceptions,
\* whatever it says of them; deleted events are not refused.
HasRuleAlways(rule) == TRUE
HasRule(rule) == rule # NoRule
UploadChange(h, rule, a, s, x) ==
    /\ Exists
    /\ LET e == ParseEventAppData(rule, a, s) IN
       Begins(h, IF rule = NoRule THEN "change" ELSE "series",
              IF HasRule(rule) THEN e ELSE [e EXCEPT !.rule = ev.rule],
              IF rule = NoRule THEN NoExceptions ELSE x)

UploadDelete(h) == Exists /\ Begins(h, "delete", [ev EXCEPT !.deleted = TRUE], NoExceptions)

\* MeetingResponse: 1 tentative, 2 accepted, 3 declined; anything else is
\* refused.  For one occurrence the answer goes to its exception.
MeetingStatus(r) == CASE r = 1 -> 9 [] r = 2 -> 3 [] r = 3 -> 7 [] OTHER -> 0
MeetingResponse(h, r) ==
    /\ Exists /\ MeetingStatus(r) # 0
    /\ Begins(h, "response", [ev EXCEPT !.status = MeetingStatus(r)], NoExceptions)

InstanceResponse(h, r, o) ==
    /\ Exists /\ MeetingStatus(r) # 0
    /\ Begins(h, "instance", ev, [NoExceptions EXCEPT ![o] = NewText])

\* An iMIP reply to a live event.  An unknown PARTSTAT is dropped, and so is
\* an answer the row already has; the attendee's state is only set when the
\* reply's sender is one of the attendees.
MeetingStatusForPartStatAny(p) == 11
MeetingStatusForPartStat(p) ==
    CASE p = "ACCEPTED" -> 3 [] p = "DECLINED" -> 7 [] p = "TENTATIVE" -> 9 [] OTHER -> 0
AttendeeStatusForPartStat(p) ==
    CASE p = "ACCEPTED" -> 3 [] p = "DECLINED" -> 4 [] p = "TENTATIVE" -> 2 [] OTHER -> 0
HandleIMipReply(h, p, attendee) ==
    LET e == [ev EXCEPT !.status = MeetingStatusForPartStat(p),
                        !.answer = IF attendee THEN AttendeeStatusForPartStat(p) ELSE @] IN
    /\ Exists /\ ~ev.deleted
    /\ MeetingStatusForPartStat(p) # 0 /\ e # ev
    /\ Begins(h, "reply", e, NoExceptions)
-----------------------------------------------------------------------------
(* Their writes.                                                           *)

\* What follows the row: the exceptions of an upload that has some, and of
\* every upload that replaces the series.
AfterUpdate(r) ==
    IF r.op = "series" \/ r.exceptions # NoExceptions THEN "exceptions" ELSE "record"

\* An INSERT or UPDATE of the row.  Creations do not see each other: only
\* the first is this event.
Update(h) ==
    /\ req[h].pc = "update" /\ req[h].op # "instance"
    /\ req[h].op = "create" => ~Exists
    /\ IF Exists THEN UpdateEvent(req[h].row) ELSE ev' = req[h].row
    /\ Goes(h, AfterUpdate(req[h]))
    /\ UNCHANGED <<exs, log, missed, sub, dev, load, ops, reads, faults>>

AnotherEvent(h) ==
    /\ req[h].pc = "update" /\ req[h].op = "create" /\ Exists
    /\ req' = [req EXCEPT ![h] = Idle]
    /\ UNCHANGED <<ev, exs, log, missed, sub, dev, load, ops, reads, faults>>

\* DELETE and INSERT of the exceptions, and the sequence, in a transaction.
ReplaceEventExceptionsLast(h) ==
    /\ req[h].pc = "exceptions"
    /\ exs' = req[h].exceptions
    /\ TouchEvent
    /\ req' = [req EXCEPT ![h] = Idle]
    /\ UNCHANGED <<log, missed, sub, dev, load, ops, reads, faults>>
ReplaceEventExceptions(h) ==
    /\ req[h].pc = "exceptions"
    /\ exs' = req[h].exceptions
    /\ TouchEvent
    /\ Goes(h, "record")
    /\ UNCHANGED <<log, missed, sub, dev, load, ops, reads, faults>>

\* The same for the one occurrence a meeting response is about.
SetExceptionMeetingStatus(h) ==
    /\ req[h].pc = "update" /\ req[h].op = "instance"
    /\ exs' = [o \in Occurrences |->
                 IF req[h].exceptions[o] # 0 THEN req[h].exceptions[o] ELSE exs[o]]
    /\ TouchEvent
    /\ Goes(h, "record")
    /\ UNCHANGED <<log, missed, sub, dev, load, ops, reads, faults>>

\* AddChange, the last statement of every writer (a meeting response then
\* mails the organiser: module Delivery).
AddChange(h) ==
    /\ req[h].pc = "record"
    /\ log' = log + 1 /\ missed' = FALSE
    /\ req' = [req EXCEPT ![h] = Idle]
    /\ UNCHANGED <<ev, exs, sub, dev, load, ops, reads, faults>>

Faulty == faults < MaxFaults /\ faults' = faults + 1

\* The row is not written: the request ends.  The exceptions are not: that
\* is logged.  The record is not: that is logged, or answered, but nothing is
\* undone.
UpdateFails(h) ==
    /\ req[h].pc = "update" /\ Faulty
    /\ req' = [req EXCEPT ![h] = Idle]
    /\ UNCHANGED <<ev, exs, log, missed, sub, dev, load, ops, reads>>

ExceptionsFail(h) ==
    /\ req[h].pc = "exceptions" /\ Faulty
    /\ Goes(h, "record")
    /\ UNCHANGED <<ev, exs, log, missed, sub, dev, load, ops, reads>>

AddChangeFails(h) ==
    /\ req[h].pc = "record" /\ Faulty
    /\ missed' = TRUE
    /\ req' = [req EXCEPT ![h] = Idle]
    /\ UNCHANGED <<ev, exs, log, sub, dev, load, ops, reads>>

\* The process dies between any two statements.
Owing == \E h \in Handlers : req[h].pc \in {"exceptions", "record"}
Crash ==
    /\ Faulty
    /\ missed' = (missed \/ Owing)
    /\ req' = [h \in Handlers |-> Idle] /\ load' = Idle
    /\ UNCHANGED <<ev, exs, log, sub, dev, ops, reads>>
-----------------------------------------------------------------------------
(* The readers.  Each reads the row and then the exceptions.               *)

Loads == load = Idle /\ reads < MaxReads /\ reads' = reads + 1
Loaded == load' = Idle /\ UNCHANGED reads

\* EventsByFolder, for the feed: a deleted event is not in it.
FeedEvents ==
    /\ Loads
    /\ IF ev.deleted
       THEN /\ sub' = [seq |-> -1, view |-> Render(NoEvent, NoExceptions)]
            /\ UNCHANGED load
       ELSE load' = [pc |-> "feed", row |-> ev] /\ UNCHANGED sub
    /\ UNCHANGED <<ev, exs, log, missed, req, dev, ops, faults>>

\* ExceptionsByFolder, and the feed goes out.  A subscriber keeps its copy
\* unless the sequence is greater.
FeedExceptions ==
    /\ load.pc = "feed"
    /\ sub' = IF load.row.seq > sub.seq
              THEN [seq |-> load.row.seq,
                    view |-> Render(load.row, IF ev.deleted THEN NoExceptions ELSE exs)]
              ELSE sub
    /\ Loaded
    /\ UNCHANGED <<ev, exs, log, missed, req, dev, ops, faults>>

\* A download: ChangesSince, ...
Download ==
    /\ dev.pos < log /\ Loads
    /\ load' = [pc |-> "row", pos |-> log]
    /\ UNCHANGED <<ev, exs, log, missed, req, sub, dev, ops, faults>>

\* ... EventByID (a deleted event goes out as a Delete), ...
DownloadEvent ==
    /\ load.pc = "row"
    /\ IF ev.deleted
       THEN /\ dev' = [pos |-> load.pos, view |-> AppData(NoEvent, NoExceptions)]
            /\ Loaded
       ELSE /\ load' = [pc |-> "device", pos |-> load.pos, row |-> ev]
            /\ UNCHANGED <<dev, reads>>
    /\ UNCHANGED <<ev, exs, log, missed, req, sub, ops, faults>>

\* ... or, when the row cannot be read, nothing: the item is logged and passed
\* over, and the key moves on all the same.
DownloadEventFails ==
    /\ load.pc = "row" /\ Faulty
    /\ dev' = [pos |-> load.pos, view |-> dev.view]
    /\ missed' = (missed \/ load.pos = log)
    /\ Loaded
    /\ UNCHANGED <<ev, exs, log, req, sub, ops>>

\* ... EventExceptions, ...
DownloadExceptions ==
    /\ load.pc = "device"
    /\ dev' = [pos |-> load.pos, view |-> AppData(load.row, exs)]
    /\ Loaded
    /\ UNCHANGED <<ev, exs, log, missed, req, sub, ops, faults>>

\* ... or, when that fails, the event without them and not another word.
DownloadExceptionsFail ==
    /\ load.pc = "device" /\ Faulty
    /\ dev' = [pos |-> load.pos, view |-> AppData(load.row, NoExceptions)]
    /\ missed' = (missed \/ load.pos = log)
    /\ Loaded
    /\ UNCHANGED <<ev, exs, log, req, sub, ops>>
-----------------------------------------------------------------------------
Request(h) ==
    \/ CreateEvent(h) \/ EditEvent(h) \/ DeleteEvent(h) \/ UploadDelete(h)
    \/ \E rule \in Rules \cup {NoRule}, a, s \in Carried, x \in Overrides :
         UploadAdd(h, rule, a, s, x) \/ UploadChange(h, rule, a, s, x)
    \/ \E r \in Responses :
         MeetingResponse(h, r) \/ \E o \in Occurrences : InstanceResponse(h, r, o)
    \/ \E p \in Parts, attendee \in BOOLEAN : HandleIMipReply(h, p, attendee)

Write(h) ==
    \/ Update(h) \/ AnotherEvent(h) \/ ReplaceEventExceptions(h)
    \/ SetExceptionMeetingStatus(h) \/ AddChange(h)
    \/ UpdateFails(h) \/ ExceptionsFail(h) \/ AddChangeFails(h)

Read ==
    \/ FeedEvents \/ FeedExceptions
    \/ Download \/ DownloadEvent \/ DownloadEventFails
    \/ DownloadExceptions \/ DownloadExceptionsFail

Next == (\E h \in Handlers : Request(h) \/ Write(h)) \/ Read \/ Crash

Spec == Init /\ [][Next]_vars
-----------------------------------------------------------------------------
(* Properties.                                                             *)

Handling ==
    [pc : {"update", "exceptions", "record"},
     op : {"create", "edit", "delete", "series", "change", "response", "instance", "reply"},
     row : Event, seen : Event \cup {NoEvent}, exceptions : Exceptions]

\* Types: what the server computes as meeting or attendee state is one of six
\* values, whatever it is asked (eas/imip.go:28-31, eas/extended.go:34-47); any
\* other was sent by a device, which is not checked (eas/appdata.go:631-651).
TypeOK ==
    /\ ev \in Event \cup {NoEvent}
    /\ exs \in Exceptions
    /\ log \in Nat /\ missed \in BOOLEAN
    /\ req \in [Handlers -> Handling \cup {Idle}]
    /\ load \in {Idle} \cup [pc : {"feed"}, row : Event] \cup [pc : {"row"}, pos : Nat]
                \cup [pc : {"device"}, pos : Nat, row : Event]
    /\ sub.seq \in Int /\ dev.pos \in Nat
    /\ ops \in Nat /\ reads \in Nat /\ faults \in Nat

\* "Subscribed calendars use them to decide whether a cached copy is stale"
\* (store/items.go:201-203): a subscriber whose copy has the event's current
\* sequence has the event as it is, its exceptions included, although the
\* feed reads the two tables in two statements and writers run in between.
FeedFresh ==
    ~ev.deleted /\ sub.seq = ev.seq => sub.view = Render(ev, exs)

\* A device whose copy differs from the event will load it again: it has a
\* record to see, a writer is about to add one, or -- with no record added
\* since -- a failure swallowed the record (api/user.go:961-963), or the row or
\* the exceptions could not be read for it (eas/sync.go:210-216, 258-272).
DeviceTold ==
    dev.view # (IF ev.deleted THEN AppData(NoEvent, NoExceptions) ELSE AppData(ev, exs))
        => dev.pos < log \/ Owing \/ missed

\* A handler that takes a step serves one of these requests.
Serves(kinds) == \E h \in Handlers : req[h] # Idle /\ req'[h] # req[h] /\ req[h].op \in kinds
\* A handler that takes a step writes back a row revised since it read it.
Overwrites == \E h \in Handlers : req[h] # Idle /\ req'[h] # req[h] /\ req[h].seen.seq # ev.seq

\* Nobody undoes what it does not carry: the webmail leaves "the recurrence,
\* attendees and meeting state" untouched (api/user.go:985-987), a change
\* without a rule "must not wipe it, nor the occurrence overrides stored
\* alongside it" (eas/sync.go:414-415), and only an upload revives a deleted
\* event -- except a handler that overtakes another's write.
Keeps ==
    [][Exists =>
        /\ ev'.rule # ev.rule => Serves({"series"}) \/ Overwrites
        /\ ev'.answer # ev.answer => Serves({"series", "change", "reply"}) \/ Overwrites
        /\ ev'.status # ev.status =>
             Serves({"series", "change", "reply", "response"}) \/ Overwrites
        /\ exs' # exs => Serves({"series", "instance", "create"})
        /\ ev.deleted /\ ~ev'.deleted => Serves({"series", "change"}) \/ Overwrites]_vars
=============================================================================
