--------------------------- MODULE Calendar_proofs ---------------------------
(***************************************************************************)
(* Proofs about Calendar, for any numbers of handlers, occurrences, rules, *)
(* requests, loads and faults.                                             *)
(***************************************************************************)
EXTENDS Calendar, TLAPS

Ops == {"create", "edit", "delete", "series", "change", "response", "instance", "reply"}

\* Only a creation runs before the row exists.
Shape ==
    \A h \in Handlers :
        req[h] # Idle => Exists \/ (req[h].pc = "update" /\ req[h].op = "create")

LEMMA EventIsNot == NoEvent \notin Event /\ NoEvent.seq = 0
  BY DEF NoEvent, Event

LEMMA IdleIsNot == Idle \notin Handling
  BY DEF Idle, Handling

\* A request that begins keeps the types.
LEMMA BeginsType ==
  ASSUME TypeOK, Shape, NEW h \in Handlers, NEW op \in Ops, NEW e \in Event,
         NEW x \in Exceptions, Begins(h, op, e, x), Exists \/ op = "create"
  PROVE  TypeOK' /\ Shape'
<1> DEFINE r == [pc |-> "update", op |-> op, row |-> e, seen |-> ev, exceptions |-> x]
<1>1. r \in Handling
  BY DEF Handling, TypeOK, Ops
<1>2. req' = [req EXCEPT ![h] = r] /\ ops' = ops + 1
      /\ UNCHANGED <<ev, exs, log, missed, sub, dev, load, reads, faults>>
  BY DEF Begins
<1>3. TypeOK'
  BY <1>1, <1>2 DEF TypeOK
<1>4. Shape'
  BY <1>2 DEF Shape, TypeOK, Exists
<1>5. QED
  BY <1>3, <1>4

LEMMA RequestType ==
  ASSUME TypeOK, Shape, NEW h \in Handlers, Request(h)
  PROVE  TypeOK' /\ Shape'
<1> USE CalendarAssumption DEF Ops
<1>1. Exists => ev \in Event
  BY DEF Exists, TypeOK
<1>2. NoExceptions \in Exceptions /\ NewText \in Nat \ {0} /\ Overrides \subseteq Exceptions
  BY DEF NoExceptions, Exceptions, NewText, Overrides, TypeOK
<1>3. ASSUME NEW rule \in Rules \cup {NoRule}, NEW a \in Carried, NEW s \in Carried
      PROVE  ParseEventAppData(rule, a, s) \in Event
  BY <1>2 DEF ParseEventAppData, Event, States
<1>4. CASE CreateEvent(h)
  <2>1. [NoEvent EXCEPT !.text = NewText, !.deleted = FALSE] \in Event
    BY <1>2 DEF NoEvent, Event, States
  <2>2. QED
    BY <1>4, <2>1, <1>2, BeginsType DEF CreateEvent
<1>5. CASE EditEvent(h)
  <2>1. Exists => ApplyEventInput(ev) \in Event
    BY <1>1, <1>2 DEF ApplyEventInput, Event
  <2>2. QED
    BY <1>5, <2>1, <1>2, BeginsType DEF EditEvent
<1>6. CASE DeleteEvent(h) \/ UploadDelete(h)
  <2>1. Exists => [ev EXCEPT !.deleted = TRUE] \in Event
    BY <1>1 DEF Event
  <2>2. QED
    BY <1>6, <2>1, <1>2, BeginsType DEF DeleteEvent, UploadDelete
<1>7. ASSUME NEW rule \in Rules \cup {NoRule}, NEW a \in Carried, NEW s \in Carried,
             NEW x \in Overrides, UploadAdd(h, rule, a, s, x)
      PROVE  TypeOK' /\ Shape'
  BY <1>7, <1>3, <1>2, BeginsType DEF UploadAdd
<1>8. ASSUME NEW rule \in Rules \cup {NoRule}, NEW a \in Carried, NEW s \in Carried,
             NEW x \in Overrides, UploadChange(h, rule, a, s, x)
      PROVE  TypeOK' /\ Shape'
  <2> DEFINE e == ParseEventAppData(rule, a, s)
             f == IF HasRule(rule) THEN e ELSE [e EXCEPT !.rule = ev.rule]
             op == IF rule = NoRule THEN "change" ELSE "series"
             y == IF rule = NoRule THEN NoExceptions ELSE x
  <2>1. e \in Event
    BY <1>3
  <2>2. f \in Event
    BY <2>1, <1>1, <1>8 DEF Event, UploadChange
  <2>3. Exists /\ Begins(h, op, f, y)
    BY <1>8 DEF UploadChange
  <2>4. op \in Ops /\ y \in Exceptions
    BY <1>2
  <2> HIDE DEF e, f, op, y
  <2>5. QED
    BY <2>2, <2>3, <2>4, BeginsType
<1>9. ASSUME NEW r \in Responses, MeetingResponse(h, r)
      PROVE  TypeOK' /\ Shape'
  <2>1. [ev EXCEPT !.status = MeetingStatus(r)] \in Event
    BY <1>9, <1>1 DEF MeetingResponse, MeetingStatus, Event, States
  <2>2. QED
    BY <1>9, <2>1, <1>2, BeginsType DEF MeetingResponse
<1>10. ASSUME NEW r \in Responses, NEW o \in Occurrences, InstanceResponse(h, r, o)
       PROVE  TypeOK' /\ Shape'
  <2>1. [NoExceptions EXCEPT ![o] = NewText] \in Exceptions
    BY <1>2 DEF Exceptions
  <2>2. QED
    BY <1>10, <2>1, <1>1, BeginsType DEF InstanceResponse
<1>11. ASSUME NEW p \in Parts, NEW b \in BOOLEAN, HandleIMipReply(h, p, b)
       PROVE  TypeOK' /\ Shape'
  <2> DEFINE e == [ev EXCEPT !.status = MeetingStatusForPartStat(p),
                             !.answer = IF b THEN AttendeeStatusForPartStat(p) ELSE @]
  <2>1. MeetingStatusForPartStat(p) \in States /\ AttendeeStatusForPartStat(p) \in States
    BY DEF MeetingStatusForPartStat, AttendeeStatusForPartStat, States
  <2>2. Exists /\ Begins(h, "reply", e, NoExceptions)
    BY <1>11 DEF HandleIMipReply
  <2>3. e \in Event
    BY <2>1, <2>2, <1>1 DEF Event
  <2> HIDE DEF e
  <2>4. QED
    BY <2>2, <2>3, <1>2, BeginsType
<1>12. QED
  BY <1>4, <1>5, <1>6, <1>7, <1>8, <1>9, <1>10, <1>11 DEF Request

LEMMA WriteType ==
  ASSUME TypeOK, Shape, NEW h \in Handlers, Write(h)
  PROVE  TypeOK' /\ Shape'
<1> DEFINE r == req[h]
<1>1. r.pc # "idle" => r \in Handling
  BY DEF TypeOK, Idle
<1>2. r.pc # "idle" => Exists \/ (r.pc = "update" /\ r.op = "create")
  BY DEF Shape, Idle
<1>3. Exists => ev \in Event
  BY DEF Exists, TypeOK
<1>4. ASSUME NEW pc \in {"exceptions", "record"}, r.pc # "idle", Goes(h, pc)
      PROVE  req' \in [Handlers -> Handling \cup {Idle}]
             /\ \A k \in Handlers : k # h => req'[k] = req[k]
  BY <1>1, <1>4 DEF Goes, TypeOK, Handling
<1>5. CASE Update(h)
  <2>1. ev' \in Event
    BY <1>5, <1>1, <1>3 DEF Update, UpdateEvent, Event, Handling
  <2>2. AfterUpdate(r) \in {"exceptions", "record"}
    BY DEF AfterUpdate
  <2>3. TypeOK'
    BY <1>5, <1>4, <2>1, <2>2 DEF Update, TypeOK
  <2>4. Exists'
    BY <2>1, EventIsNot DEF Exists
  <2>5. QED
    BY <2>3, <2>4 DEF Shape
<1>6. CASE AnotherEvent(h)
  BY <1>6, <1>3 DEF AnotherEvent, TypeOK, Shape, Exists
<1>7. ASSUME r.pc \in {"update", "exceptions"}, r.op # "create" \/ r.pc = "exceptions",
             TouchEvent, Goes(h, "record"), exs' \in Exceptions,
             UNCHANGED <<log, missed, sub, dev, load, ops, reads, faults>>
      PROVE  TypeOK' /\ Shape'
  <2>1. ev' \in Event
    BY <1>7, <1>2, <1>3 DEF TouchEvent, Event
  <2>2. TypeOK'
    BY <1>7, <1>4, <2>1 DEF TypeOK
  <2>3. Exists'
    BY <2>1, EventIsNot DEF Exists
  <2>4. QED
    BY <2>2, <2>3 DEF Shape
<1>8. CASE ReplaceEventExceptions(h)
  BY <1>8, <1>7, <1>1 DEF ReplaceEventExceptions, Handling
<1>9. CASE SetExceptionMeetingStatus(h)
  <2>1. exs' \in Exceptions
    BY <1>9, <1>1 DEF SetExceptionMeetingStatus, Handling, Exceptions, TypeOK
  <2>2. QED
    BY <1>9, <2>1, <1>7 DEF SetExceptionMeetingStatus
<1>10. CASE AddChange(h)
  <2>1. missed' \in BOOLEAN
    BY <1>10, Zenon DEF AddChange
  <2>2. log' \in Nat
    BY <1>10 DEF AddChange, TypeOK
  <2>3. req' \in [Handlers -> Handling \cup {Idle}]
    BY <1>10 DEF AddChange, TypeOK
  <2>4. Shape'
    BY <1>10 DEF AddChange, TypeOK, Shape, Exists
  <2>5. QED
    BY <1>10, <2>1, <2>2, <2>3, <2>4 DEF AddChange, TypeOK
<1>11. CASE UpdateFails(h)
  BY <1>11 DEF UpdateFails, Faulty, TypeOK, Shape, Exists
<1>12. CASE ExceptionsFail(h)
  <2>1. TypeOK'
    BY <1>12, <1>4 DEF ExceptionsFail, Faulty, TypeOK
  <2>2. Exists'
    BY <1>12, <1>2 DEF ExceptionsFail, Exists
  <2>3. QED
    BY <2>1, <2>2 DEF Shape
<1>13. CASE AddChangeFails(h)
  BY <1>13 DEF AddChangeFails, Faulty, TypeOK, Shape, Exists
<1>14. QED
  BY <1>5, <1>6, <1>8, <1>9, <1>10, <1>11, <1>12, <1>13 DEF Write

LEMMA ReadType ==
  ASSUME TypeOK, Shape, Read \/ Crash \/ UNCHANGED vars
  PROVE  TypeOK' /\ Shape'
<1>1. ~ev.deleted => ev \in Event
  BY DEF TypeOK, NoEvent
<1>2. CASE FeedEvents
  BY <1>2, <1>1 DEF FeedEvents, Loads, TypeOK, Shape, Exists
<1>3. CASE FeedExceptions
  <2>1. load \in [pc : {"feed"}, row : Event]
    BY <1>3 DEF FeedExceptions, TypeOK, Idle
  <2>2. sub'.seq \in Int
    BY <1>3, <2>1 DEF FeedExceptions, TypeOK, Event
  <2>3. QED
    BY <1>3, <2>2 DEF FeedExceptions, Loaded, TypeOK, Shape, Exists
<1>4. CASE Download
  BY <1>4 DEF Download, Loads, TypeOK, Shape, Exists
<1>5. CASE DownloadEvent
  <2>1. load.pos \in Nat
    BY <1>5 DEF DownloadEvent, TypeOK, Idle
  <2>2. QED
    BY <1>5, <1>1, <2>1 DEF DownloadEvent, Loaded, TypeOK, Shape, Exists
<1>6. CASE DownloadEventFails \/ DownloadExceptions \/ DownloadExceptionsFail
  <2>1. load.pos \in Nat
    BY <1>6 DEF DownloadEventFails, DownloadExceptions, DownloadExceptionsFail, TypeOK, Idle
  <2>2. missed' \in BOOLEAN
    BY <1>6, Zenon DEF DownloadEventFails, DownloadExceptions, DownloadExceptionsFail, TypeOK
  <2>3. dev'.pos \in Nat /\ faults' \in Nat /\ load' = Idle
    BY <1>6, <2>1 DEF DownloadEventFails, DownloadExceptions, DownloadExceptionsFail, Faulty,
                      Loaded, TypeOK
  <2>4. UNCHANGED <<ev, exs, log, req, sub, ops, reads>>
    BY <1>6 DEF DownloadEventFails, DownloadExceptions, DownloadExceptionsFail, Loaded
  <2>5. QED
    BY <2>2, <2>3, <2>4 DEF TypeOK, Shape, Exists
<1>7. CASE Crash
  BY <1>7 DEF Crash, Faulty, TypeOK, Shape, Exists, Owing
<1>8. CASE UNCHANGED vars
  BY <1>8 DEF vars, TypeOK, Shape, Exists
<1>9. QED
  BY <1>2, <1>3, <1>4, <1>5, <1>6, <1>7, <1>8 DEF Read

LEMMA TypeInit == Init => TypeOK /\ Shape
<1> SUFFICES ASSUME Init PROVE TypeOK /\ Shape
  OBVIOUS
<1>1. NoExceptions \in Exceptions
  BY DEF NoExceptions, Exceptions
<1>2. missed \in BOOLEAN
  BY Zenon DEF Init
<1>3. sub.seq \in Int /\ dev.pos \in Nat /\ log \in Nat
  BY DEF Init
<1>4. req \in [Handlers -> Handling \cup {Idle}] /\ Shape
  BY DEF Init, Shape
<1>5. QED
  BY <1>1, <1>2, <1>3, <1>4 DEF Init, TypeOK

LEMMA TypeNext == TypeOK /\ Shape /\ [Next]_vars => TypeOK' /\ Shape'
  BY RequestType, WriteType, ReadType DEF Next

\* The types of the row, the exceptions, the handlers and the loads hold,
\* whatever integers uploads carry: in particular every state that no upload
\* sent is one of the six the server knows, and nobody touches the sequence of
\* an event that does not exist (touchEventTx).
THEOREM TypeCorrect == Spec => []TypeOK
<1>1. Spec => [](TypeOK /\ Shape)
  BY TypeInit, TypeNext, PTL DEF Spec
<1>2. QED
  BY <1>1, PTL
-----------------------------------------------------------------------------
(* The public feed.                                                        *)

\* A load that is under way has an old row or the current one, and so has
\* the subscriber's copy.
FeedInv ==
    /\ ~Exists => sub.seq = -1
    /\ sub.seq <= ev.seq
    /\ load.pc = "feed" => /\ Exists /\ load.row.seq <= ev.seq
                           /\ load.row.seq = ev.seq => load.row = ev
    /\ FeedFresh

LEMMA RequestBegins ==
  ASSUME NEW h, Request(h)
  PROVE  \E op, e, x : Begins(h, op, e, x)
  BY DEF Request, CreateEvent, EditEvent, DeleteEvent, UploadDelete, UploadAdd, UploadChange,
         MeetingResponse, InstanceResponse, HandleIMipReply

\* Whoever changes the row or its exceptions raises the sequence, or creates
\* the event; and leaves the copies alone.
LEMMA Revision ==
  ASSUME TypeOK, Shape, NEW h \in Handlers, Request(h) \/ Write(h)
  PROVE  /\ UNCHANGED <<sub, dev, load>>
         /\ \/ UNCHANGED <<ev, exs>>
            \/ Exists /\ ev' \in Event /\ ev'.seq = ev.seq + 1
            \/ ~Exists /\ ev' \in Event /\ UNCHANGED exs
<1>1. Exists => ev \in Event
  BY DEF Exists, TypeOK
<1>2. req[h].pc # "idle" => req[h] \in Handling
  BY DEF TypeOK, Idle
<1>3. req[h].pc # "idle" => Exists \/ (req[h].pc = "update" /\ req[h].op = "create")
  BY DEF Shape, Idle
<1>4. CASE Request(h)
  BY <1>4, RequestBegins DEF Begins
<1>5. CASE Update(h)
  BY <1>5, <1>1, <1>2 DEF Update, UpdateEvent, Event, Handling
<1>6. CASE ReplaceEventExceptions(h) \/ SetExceptionMeetingStatus(h)
  BY <1>6, <1>1, <1>3 DEF ReplaceEventExceptions, SetExceptionMeetingStatus, TouchEvent, Event
<1>7. CASE AnotherEvent(h) \/ AddChange(h) \/ UpdateFails(h) \/ ExceptionsFail(h)
           \/ AddChangeFails(h)
  BY <1>7 DEF AnotherEvent, AddChange, UpdateFails, ExceptionsFail, AddChangeFails
<1>8. QED
  BY <1>4, <1>5, <1>6, <1>7 DEF Write

LEMMA FeedInit == Init => FeedInv
<1> SUFFICES ASSUME Init PROVE FeedInv
  OBVIOUS
<1>1. sub.seq = -1 /\ ev.seq = 0 /\ load.pc = "idle"
  BY DEF Init, NoEvent, Idle
<1>2. QED
  BY <1>1 DEF FeedInv, FeedFresh

LEMMA FeedNext == TypeOK /\ Shape /\ FeedInv /\ [Next]_vars => FeedInv'
<1> SUFFICES ASSUME TypeOK, Shape, FeedInv, [Next]_vars PROVE FeedInv'
  OBVIOUS
<1>1. ev.seq \in Nat /\ sub.seq \in Int
  BY DEF TypeOK, Event, NoEvent
<1>2. load.pc = "feed" => load.row \in Event /\ load.row.seq \in Nat
  BY DEF TypeOK, Idle, Event
<1>3. ASSUME NEW h \in Handlers, Request(h) \/ Write(h) PROVE FeedInv'
  <2>1. CASE UNCHANGED <<ev, exs>>
    BY <1>3, <2>1, Revision DEF FeedInv, FeedFresh, Exists
  <2>2. CASE Exists /\ ev' \in Event /\ ev'.seq = ev.seq + 1
    BY <1>1, <1>2, <1>3, <2>2, Revision, EventIsNot DEF FeedInv, FeedFresh, Exists
  <2>3. CASE ~Exists /\ ev' \in Event
    <3>1. ev'.seq \in Nat /\ Exists'
      BY <2>3, EventIsNot DEF Event, Exists
    <3>2. QED
      BY <1>3, <2>3, <3>1, Revision DEF FeedInv, FeedFresh
  <2>4. QED
    BY <1>3, <2>1, <2>2, <2>3, Revision
<1>4. CASE FeedEvents
  <2>1. CASE ev.deleted
    BY <1>1, <1>4, <2>1 DEF FeedEvents, Loads, Idle, FeedInv, FeedFresh, Exists
  <2>2. CASE ~ev.deleted
    <3>1. load' = [pc |-> "feed", row |-> ev] /\ UNCHANGED <<ev, exs, sub>> /\ Exists
      BY <1>4, <2>2 DEF FeedEvents, Exists, NoEvent
    <3>2. QED
      BY <1>1, <3>1 DEF FeedInv, FeedFresh, Exists
  <2>3. QED
    BY <2>1, <2>2
<1>5. CASE FeedExceptions
  <2>1. load' = Idle /\ UNCHANGED <<ev, exs>> /\ load.pc = "feed"
    BY <1>5 DEF FeedExceptions, Loaded
  <2>2. sub'.seq <= ev.seq /\ Exists
    BY <1>1, <1>2, <1>5, <2>1 DEF FeedExceptions, FeedInv
  <2>3. FeedFresh'
    BY <1>1, <1>2, <1>5, <2>1 DEF FeedExceptions, FeedInv, FeedFresh
  <2>4. QED
    BY <2>1, <2>2, <2>3 DEF FeedInv, Exists, Idle
<1>6. CASE Download \/ DownloadEvent \/ DownloadEventFails \/ DownloadExceptions
           \/ DownloadExceptionsFail \/ Crash \/ UNCHANGED vars
  <2>1. UNCHANGED <<ev, exs, sub>> /\ (load' = load \/ load'.pc # "feed")
    BY <1>6 DEF Download, DownloadEvent, DownloadEventFails, DownloadExceptions,
                DownloadExceptionsFail, Crash, Loaded, Idle, vars
  <2>2. QED
    BY <2>1 DEF FeedInv, FeedFresh, Exists
<1>7. QED
  BY <1>3, <1>4, <1>5, <1>6 DEF Next, Read

\* A subscriber whose copy has the event's current sequence has the event as
\* it is, exceptions included (store/items.go:201-203), however the writers'
\* and the feed's statements interleave.
THEOREM FeedIsFresh == Spec => []FeedFresh
<1>1. Init => TypeOK /\ Shape /\ FeedInv
  BY TypeInit, FeedInit
<1>2. TypeOK /\ Shape /\ FeedInv /\ [Next]_vars => (TypeOK /\ Shape /\ FeedInv)'
  BY TypeNext, FeedNext
<1>3. FeedInv => FeedFresh
  BY DEF FeedInv
<1>4. QED
  BY <1>1, <1>2, <1>3, PTL DEF Spec
-----------------------------------------------------------------------------
(* The device.                                                             *)

Current == IF ev.deleted THEN AppData(NoEvent, NoExceptions) ELSE AppData(ev, exs)

\* What a device holds, or is going to hold once the load under way is done,
\* is current unless something is still to come.
DeviceInv ==
    /\ dev.pos <= log
    /\ load.pc \in {"row", "device"} => load.pos <= log
    /\ load.pc = "device" /\ AppData(load.row, exs) # Current
           => load.pos < log \/ Owing \/ missed
    /\ dev.view # Current => dev.pos < log \/ Owing \/ missed

LEMMA DeviceInit == Init => DeviceInv
<1> SUFFICES ASSUME Init PROVE DeviceInv
  OBVIOUS
<1>1. load.pc = "idle" /\ dev.pos = 0 /\ log = 0
  BY DEF Init, Idle
<1>2. dev.view = Current
  BY DEF Init, Current, NoEvent
<1>3. QED
  BY <1>1, <1>2 DEF DeviceInv

LEMMA DeviceNext == TypeOK /\ Shape /\ DeviceInv /\ [Next]_vars => DeviceInv'
<1> SUFFICES ASSUME TypeOK, Shape, DeviceInv, [Next]_vars PROVE DeviceInv'
  OBVIOUS
<1>1. log \in Nat /\ dev.pos \in Nat /\ (load.pc \in {"row", "device"} => load.pos \in Nat)
  BY DEF TypeOK, Idle
<1>2. ASSUME NEW h \in Handlers, Request(h) \/ Write(h) PROVE DeviceInv'
  <2>0. UNCHANGED <<dev, load>>
    BY <1>2, Revision
  <2>1. CASE Request(h)
    <3>1. /\ UNCHANGED <<ev, exs, log, missed>> /\ req[h] = Idle
          /\ \A k \in Handlers \ {h} : req'[k] = req[k]
      BY <2>1, RequestBegins DEF Begins, TypeOK
    <3>2. Owing => Owing'
      BY <3>1 DEF Owing, Idle
    <3>3. QED
      BY <2>0, <3>1, <3>2 DEF DeviceInv, Current
  <2>2. CASE Update(h) \/ ReplaceEventExceptions(h) \/ SetExceptionMeetingStatus(h)
             \/ ExceptionsFail(h)
    <3>1. req[h] # Idle /\ req[h] \in Handling
      BY <2>2 DEF Update, ReplaceEventExceptions, SetExceptionMeetingStatus, ExceptionsFail,
                  TypeOK, Idle
    <3>2. req'[h].pc \in {"exceptions", "record"}
      BY <2>2, <3>1 DEF Update, ReplaceEventExceptions, SetExceptionMeetingStatus,
                        ExceptionsFail, Goes, AfterUpdate, TypeOK, Handling
    <3>3. Owing'
      BY <3>2 DEF Owing
    <3>4. log' = log
      BY <2>2 DEF Update, ReplaceEventExceptions, SetExceptionMeetingStatus, ExceptionsFail
    <3>5. QED
      BY <2>0, <3>3, <3>4 DEF DeviceInv
  <2>3. CASE AddChange(h)
    <3>1. log' = log + 1
      BY <2>3 DEF AddChange
    <3>2. QED
      BY <1>1, <2>0, <3>1 DEF DeviceInv
  <2>4. CASE AddChangeFails(h)
    BY <2>0, <2>4 DEF AddChangeFails, DeviceInv
  <2>5. CASE AnotherEvent(h) \/ UpdateFails(h)
    <3>1. /\ UNCHANGED <<ev, exs, log, missed>> /\ req[h].pc = "update"
          /\ \A k \in Handlers \ {h} : req'[k] = req[k]
      BY <2>5 DEF AnotherEvent, UpdateFails, TypeOK
    <3>2. Owing => Owing'
      BY <3>1 DEF Owing
    <3>3. QED
      BY <2>0, <3>1, <3>2 DEF DeviceInv, Current
  <2>6. QED
    BY <1>2, <2>1, <2>2, <2>3, <2>4, <2>5 DEF Write
<1>3. CASE FeedEvents \/ FeedExceptions \/ UNCHANGED vars
  <2>1. UNCHANGED <<ev, exs, log, missed, req, dev>>
        /\ (load' = load \/ load'.pc \in {"feed", "idle"})
    BY <1>3 DEF FeedEvents, FeedExceptions, Loaded, Idle, vars
  <2>2. QED
    BY <2>1 DEF DeviceInv, Current, Owing
<1>4. CASE Download
  <2>1. UNCHANGED <<ev, exs, log, missed, req, dev>> /\ load' = [pc |-> "row", pos |-> log]
    BY <1>4 DEF Download
  <2>2. QED
    BY <1>1, <2>1 DEF DeviceInv, Current, Owing
<1>5. CASE DownloadEvent
  <2>1. UNCHANGED <<ev, exs, log, missed, req>> /\ load.pc = "row" /\ Current' = Current
    BY <1>5 DEF DownloadEvent, Current
  <2>2. CASE ev.deleted
    <3>1. load'.pc = "idle" /\ dev'.pos = load.pos /\ dev'.view = Current
      BY <1>5, <2>2 DEF DownloadEvent, Loaded, Idle, Current
    <3>2. QED
      BY <1>1, <2>1, <3>1 DEF DeviceInv
  <2>3. CASE ~ev.deleted
    <3>1. load' = [pc |-> "device", pos |-> load.pos, row |-> ev] /\ dev' = dev
      BY <1>5, <2>3 DEF DownloadEvent
    <3>2. AppData(load'.row, exs') = Current
      BY <2>1, <2>3, <3>1 DEF Current
    <3>3. QED
      BY <1>1, <2>1, <3>1, <3>2 DEF DeviceInv, Owing
  <2>4. QED
    BY <2>2, <2>3
<1>6. CASE DownloadExceptions
  <2>1. UNCHANGED <<ev, exs, log, missed, req>> /\ load.pc = "device" /\ Current' = Current
    BY <1>6 DEF DownloadExceptions, Current
  <2>2. load'.pc = "idle" /\ dev'.pos = load.pos /\ dev'.view = AppData(load.row, exs)
    BY <1>6 DEF DownloadExceptions, Loaded, Idle
  <2>3. QED
    BY <1>1, <2>1, <2>2 DEF DeviceInv, Owing
<1>7. CASE DownloadExceptionsFail \/ DownloadEventFails
  <2>1. load'.pc = "idle" /\ dev'.pos = load.pos /\ log' = log /\ load.pc \in {"row", "device"}
    BY <1>7 DEF DownloadExceptionsFail, DownloadEventFails, Loaded, Idle
  <2>2. load.pos = log => missed'
    BY <1>7, Zenon DEF DownloadExceptionsFail, DownloadEventFails
  <2>3. load.pos <= log
    BY <2>1 DEF DeviceInv
  <2>4. load.pos < log \/ load.pos = log
    BY <1>1, <2>1, <2>3
  <2>5. QED
    BY <1>1, <2>1, <2>2, <2>3, <2>4 DEF DeviceInv
<1>8. CASE Crash
  <2>1. UNCHANGED <<ev, exs, log, dev>> /\ load'.pc = "idle" /\ (missed \/ Owing => missed')
    BY <1>8 DEF Crash, Idle
  <2>2. QED
    BY <2>1 DEF DeviceInv, Current
<1>9. QED
  BY <1>2, <1>3, <1>4, <1>5, <1>6, <1>7, <1>8 DEF Next, Read

\* A device whose copy is out of date is going to load the event again,
\* unless a failure swallowed the record, the row or the exceptions and no
\* record was added since (loadAppData, itemCommand, AddChange).
THEOREM DeviceIsTold == Spec => []DeviceTold
<1>1. Init => TypeOK /\ Shape /\ DeviceInv
  BY TypeInit, DeviceInit
<1>2. TypeOK /\ Shape /\ DeviceInv /\ [Next]_vars => (TypeOK /\ Shape /\ DeviceInv)'
  BY TypeNext, DeviceNext
<1>3. DeviceInv => DeviceTold
  BY DEF DeviceInv, DeviceTold, Current
<1>4. QED
  BY <1>1, <1>2, <1>3, PTL DEF Spec
-----------------------------------------------------------------------------
(* The writers.                                                            *)

\* What a handler is going to write, compared with what it read: the fields
\* its request does not carry are as read.
Carries(r) ==
    /\ r.op \in {"edit", "delete", "change", "response", "reply"} =>
         r.exceptions = NoExceptions /\ r.row.rule = r.seen.rule
    /\ r.op \in {"edit", "delete", "response"} => r.row.answer = r.seen.answer
    /\ r.op \in {"edit", "delete"} => r.row.status = r.seen.status
    /\ r.op \in {"edit", "response", "reply"} => r.row.deleted = r.seen.deleted
    /\ r.op = "delete" => r.row.deleted
    /\ r.pc = "exceptions" => r.op \in {"series", "create"}

\* A row read earlier is the current one if the sequences agree.
ReadBefore(r) ==
    r.op # "create" => r.seen.seq <= ev.seq /\ (r.seen.seq = ev.seq => r.seen = ev)

Writing == \A h \in Handlers : req[h] # Idle => Carries(req[h]) /\ ReadBefore(req[h])

LEMMA RequestCarries ==
  ASSUME TypeOK, NEW h \in Handlers, Request(h)
  PROVE  Carries(req'[h]) /\ ReadBefore(req'[h])
<1>1. ev \in Event \/ ev = NoEvent
  BY DEF TypeOK
<1>2. ev.seq \in Nat
  BY <1>1 DEF Event, NoEvent
<1>3. ASSUME NEW op, NEW e, NEW x, Begins(h, op, e, x)
      PROVE  req'[h] = [pc |-> "update", op |-> op, row |-> e, seen |-> ev, exceptions |-> x]
  BY <1>3 DEF Begins, TypeOK
<1>4. ReadBefore(req'[h])
  <2>1. PICK op, e, x : Begins(h, op, e, x)
    BY RequestBegins
  <2>2. req'[h] = [pc |-> "update", op |-> op, row |-> e, seen |-> ev, exceptions |-> x]
    BY <1>3, <2>1
  <2>3. QED
    BY <1>2, <2>2 DEF ReadBefore
<1>5. CASE CreateEvent(h)
  <2>1. req'[h] = [pc |-> "update", op |-> "create",
                   row |-> [NoEvent EXCEPT !.text = NewText, !.deleted = FALSE],
                   seen |-> ev, exceptions |-> NoExceptions]
    BY <1>3, <1>5 DEF CreateEvent
  <2>2. QED
    BY <1>4, <2>1 DEF Carries
<1>6. CASE EditEvent(h) \/ DeleteEvent(h) \/ UploadDelete(h)
  <2>1. CASE EditEvent(h)
    <3>1. req'[h] = [pc |-> "update", op |-> "edit", row |-> [ev EXCEPT !.text = NewText],
                     seen |-> ev, exceptions |-> NoExceptions]
      BY <1>3, <2>1 DEF EditEvent, ApplyEventInput
    <3>2. QED
      BY <1>1, <1>4, <3>1 DEF Carries, Event, NoEvent
  <2>2. CASE DeleteEvent(h) \/ UploadDelete(h)
    <3>1. req'[h] = [pc |-> "update", op |-> "delete", row |-> [ev EXCEPT !.deleted = TRUE],
                     seen |-> ev, exceptions |-> NoExceptions]
      BY <1>3, <2>2 DEF DeleteEvent, UploadDelete
    <3>2. QED
      BY <1>1, <1>4, <3>1 DEF Carries, Event, NoEvent
  <2>3. QED
    BY <1>6, <2>1, <2>2
<1>7. ASSUME NEW rule \in Rules \cup {NoRule}, NEW a \in Carried, NEW s \in Carried,
             NEW x \in Overrides, UploadAdd(h, rule, a, s, x) \/ UploadChange(h, rule, a, s, x)
      PROVE  Carries(req'[h])
  <2>1. CASE UploadAdd(h, rule, a, s, x)
    <3>1. req'[h] = [pc |-> "update", op |-> "create", row |-> ParseEventAppData(rule, a, s),
                     seen |-> ev, exceptions |-> x]
      BY <1>3, <2>1 DEF UploadAdd
    <3>2. QED
      BY <3>1 DEF Carries
  <2>2. CASE UploadChange(h, rule, a, s, x) /\ rule = NoRule
    <3>1. req'[h] = [pc |-> "update", op |-> "change",
                     row |-> [ParseEventAppData(rule, a, s) EXCEPT !.rule = ev.rule],
                     seen |-> ev, exceptions |-> NoExceptions]
      BY <1>3, <2>2 DEF UploadChange, HasRule
    <3>2. QED
      BY <3>1 DEF Carries, ParseEventAppData
  <2>3. CASE UploadChange(h, rule, a, s, x) /\ rule # NoRule
    <3>1. req'[h] = [pc |-> "update", op |-> "series", row |-> ParseEventAppData(rule, a, s),
                     seen |-> ev, exceptions |-> x]
      BY <1>3, <2>3 DEF UploadChange, HasRule
    <3>2. QED
      BY <3>1 DEF Carries
  <2>4. QED
    BY <1>7, <2>1, <2>2, <2>3
<1>8. ASSUME NEW r \in Responses, MeetingResponse(h, r) PROVE Carries(req'[h])
  <2>1. req'[h] = [pc |-> "update", op |-> "response",
                   row |-> [ev EXCEPT !.status = MeetingStatus(r)],
                   seen |-> ev, exceptions |-> NoExceptions]
    BY <1>3, <1>8 DEF MeetingResponse
  <2>2. QED
    BY <1>1, <2>1 DEF Carries, Event, NoEvent
<1>9. ASSUME NEW r \in Responses, NEW o \in Occurrences, InstanceResponse(h, r, o)
      PROVE  Carries(req'[h])
  <2>1. req'[h] = [pc |-> "update", op |-> "instance", row |-> ev, seen |-> ev,
                   exceptions |-> [NoExceptions EXCEPT ![o] = NewText]]
    BY <1>3, <1>9 DEF InstanceResponse
  <2>2. QED
    BY <2>1 DEF Carries
<1>10. ASSUME NEW p \in Parts, NEW b \in BOOLEAN, HandleIMipReply(h, p, b)
       PROVE  Carries(req'[h])
  <2> DEFINE e == [ev EXCEPT !.status = MeetingStatusForPartStat(p),
                             !.answer = IF b THEN AttendeeStatusForPartStat(p) ELSE @]
  <2>1. req'[h] = [pc |-> "update", op |-> "reply", row |-> e, seen |-> ev,
                   exceptions |-> NoExceptions]
    BY <1>3, <1>10 DEF HandleIMipReply
  <2>2. e.rule = ev.rule /\ e.deleted = ev.deleted
    BY <1>1 DEF Event, NoEvent
  <2> HIDE DEF e
  <2>3. QED
    BY <2>1, <2>2 DEF Carries
<1>11. QED
  BY <1>4, <1>5, <1>6, <1>7, <1>8, <1>9, <1>10 DEF Request

LEMMA WritingInit == Init => Writing
  BY DEF Init, Writing

LEMMA WritingNext == TypeOK /\ Shape /\ Writing /\ [Next]_vars => Writing'
<1> SUFFICES ASSUME TypeOK, Shape, Writing, [Next]_vars PROVE Writing'
  OBVIOUS
<1>1. ev.seq \in Nat /\ (Exists => ev \in Event)
  BY DEF TypeOK, Event, NoEvent, Exists
<1>2. \A k \in Handlers : req[k] # Idle =>
        req[k] \in Handling /\ req[k].seen.seq \in Nat /\ (Exists \/ req[k].op = "create")
  BY DEF TypeOK, Handling, Shape, Event, NoEvent
<1>3. ASSUME NEW h \in Handlers, Request(h) \/ Write(h) PROVE Writing'
  <2>1. \A k \in Handlers \ {h} : req'[k] = req[k]
    <3>1. CASE Request(h)
      BY <3>1, RequestBegins DEF Begins, TypeOK
    <3>2. CASE Write(h)
      BY <3>2 DEF Write, Update, AnotherEvent, ReplaceEventExceptions,
                  SetExceptionMeetingStatus, AddChange, UpdateFails, ExceptionsFail,
                  AddChangeFails, Goes, TypeOK
    <3>3. QED
      BY <1>3, <3>1, <3>2
  <2>2. ASSUME NEW k \in Handlers, req[k] # Idle, req'[k] = req[k]
        PROVE  ReadBefore(req[k])'
    <3>1. ReadBefore(req[k])
      BY <2>2 DEF Writing
    <3>2. CASE ev' = ev
      BY <2>2, <3>1, <3>2 DEF ReadBefore
    <3>3. CASE Exists /\ ev'.seq = ev.seq + 1
      BY <1>1, <1>2, <2>2, <3>1, <3>3 DEF ReadBefore
    <3>4. CASE ~Exists
      BY <1>2, <2>2, <3>4 DEF ReadBefore
    <3>5. QED
      BY <1>3, <3>2, <3>3, <3>4, Revision
  <2>3. ASSUME NEW k \in Handlers, k # h, req'[k] # Idle
        PROVE  Carries(req'[k]) /\ ReadBefore(req[k])'
    BY <2>1, <2>2, <2>3 DEF Writing
  <2>4. CASE Request(h)
    <3>1. ev' = ev
      BY <2>4, RequestBegins DEF Begins
    <3>2. Carries(req'[h]) /\ ReadBefore(req[h])'
      BY <2>4, <3>1, RequestCarries DEF ReadBefore
    <3>3. QED
      BY <2>3, <3>2 DEF Writing, Carries
  <2>5. CASE Write(h) /\ req'[h] # Idle
    <3>1. PICK pc \in {"exceptions", "record"} :
             /\ req' = [req EXCEPT ![h].pc = pc]
             /\ pc = "exceptions" => /\ req[h].pc = "update"
                                     /\ \/ req[h].op = "series" \/ req[h].exceptions # NoExceptions
                                     /\ req[h].op # "instance"
      BY <2>5 DEF Write, Update, AfterUpdate, AnotherEvent, ReplaceEventExceptions,
                  SetExceptionMeetingStatus, AddChange, UpdateFails, ExceptionsFail,
                  AddChangeFails, Goes, TypeOK
    <3>2. req[h] # Idle
      BY <2>5 DEF Write, Update, AnotherEvent, ReplaceEventExceptions,
                  SetExceptionMeetingStatus, AddChange, UpdateFails, ExceptionsFail,
                  AddChangeFails, Idle
    <3>3. req'[h] = [req[h] EXCEPT !.pc = pc] /\ req[h] \in Handling
      BY <1>2, <3>1, <3>2 DEF TypeOK
    <3>4. Carries(req'[h])
      BY <3>1, <3>2, <3>3 DEF Carries, Writing, Handling
    <3>5. ReadBefore(req[h])'
      <4>1. req'[h].op = req[h].op /\ req'[h].seen = req[h].seen
        BY <3>3 DEF Handling
      <4>2. ReadBefore(req[h])
        BY <3>2 DEF Writing
      <4>3. CASE ev' = ev
        BY <4>1, <4>2, <4>3 DEF ReadBefore
      <4>4. CASE Exists /\ ev'.seq = ev.seq + 1
        BY <1>1, <1>2, <3>2, <4>1, <4>2, <4>4 DEF ReadBefore
      <4>5. CASE ~Exists
        BY <1>2, <3>2, <4>1, <4>5 DEF ReadBefore
      <4>6. QED
        BY <1>3, <4>3, <4>4, <4>5, Revision
    <3>6. QED
      BY <2>3, <3>4, <3>5 DEF Writing, Carries
  <2>6. CASE Write(h) /\ req'[h] = Idle
    BY <2>3, <2>6 DEF Writing, Carries
  <2>7. QED
    BY <1>3, <2>4, <2>5, <2>6
<1>4. CASE Read \/ UNCHANGED vars
  <2>1. UNCHANGED <<ev, req>>
    BY <1>4 DEF Read, FeedEvents, FeedExceptions, Download, DownloadEvent, DownloadEventFails,
                DownloadExceptions, DownloadExceptionsFail, vars
  <2>2. QED
    BY <2>1 DEF Writing, ReadBefore
<1>5. CASE Crash
  BY <1>5 DEF Crash, Writing
<1>6. QED
  BY <1>3, <1>4, <1>5 DEF Next

\* The step of Keeps, for a handler's UPDATE of the row.
LEMMA UpdateKeeps ==
  ASSUME TypeOK, Shape, Writing, NEW h \in Handlers, Update(h), Exists
  PROVE  /\ exs' = exs
         /\ ev'.rule # ev.rule => Serves({"series"}) \/ Overwrites
         /\ ev'.answer # ev.answer => Serves({"series", "change", "reply"}) \/ Overwrites
         /\ ev'.status # ev.status =>
              Serves({"series", "change", "reply", "response"}) \/ Overwrites
         /\ ev.deleted /\ ~ev'.deleted => Serves({"series", "change"}) \/ Overwrites
<1> DEFINE r == req[h]
<1>1. r \in Handling /\ r # Idle /\ r.pc = "update" /\ r.op \notin {"create", "instance"}
  BY DEF Update, TypeOK, Idle
<1>2. req'[h] # r
  BY <1>1 DEF Update, Goes, AfterUpdate, TypeOK, Handling
<1>3. ev' = [r.row EXCEPT !.seq = ev.seq + 1] /\ exs' = exs /\ r.row \in Event
  BY <1>1 DEF Update, UpdateEvent, Handling
<1>4. ev'.rule = r.row.rule /\ ev'.answer = r.row.answer /\ ev'.status = r.row.status
      /\ ev'.deleted = r.row.deleted
  BY <1>3 DEF Event
<1>5. r.seen.seq # ev.seq => Overwrites
  BY <1>1, <1>2 DEF Overwrites
<1>6. r.seen.seq = ev.seq => r.seen = ev
  BY <1>1 DEF Writing, ReadBefore
<1>7. Carries(r)
  BY <1>1 DEF Writing
<1>8. r.op \in {"edit", "delete", "series", "change", "response", "reply"}
  BY <1>1 DEF Handling
<1>9. ASSUME NEW kinds, r.op \in kinds PROVE Serves(kinds)
  BY <1>1, <1>2, <1>9 DEF Serves
<1> HIDE DEF r
<1>10. QED
  BY <1>3, <1>4, <1>5, <1>6, <1>7, <1>8, <1>9 DEF Carries

\* Nobody undoes what its request does not carry, except a handler that
\* writes back a row revised since it read it (calendarEvent,
\* applyClientCommands, cmdMeetingResponse, HandleIMipReply).
THEOREM WritersKeep == Spec => Keeps
<1> DEFINE K == Exists =>
        /\ ev'.rule # ev.rule => Serves({"series"}) \/ Overwrites
        /\ ev'.answer # ev.answer => Serves({"series", "change", "reply"}) \/ Overwrites
        /\ ev'.status # ev.status =>
             Serves({"series", "change", "reply", "response"}) \/ Overwrites
        /\ exs' # exs => Serves({"series", "instance", "create"})
        /\ ev.deleted /\ ~ev'.deleted => Serves({"series", "change"}) \/ Overwrites
<1>1. Init => TypeOK /\ Shape /\ Writing
  BY TypeInit, WritingInit
<1>2. TypeOK /\ Shape /\ Writing /\ [Next]_vars => (TypeOK /\ Shape /\ Writing)'
  BY TypeNext, WritingNext
<1>3. TypeOK /\ Shape /\ Writing /\ [Next]_vars => [K]_vars
  <2> SUFFICES ASSUME TypeOK, Shape, Writing, Next, Exists PROVE K
    OBVIOUS
  <2>1. CASE UNCHANGED <<ev, exs>>
    BY <2>1
  <2>2. ASSUME NEW h \in Handlers, Write(h) PROVE K
    <3>1. CASE Update(h)
      BY <3>1, UpdateKeeps
    <3>2. CASE ReplaceEventExceptions(h) \/ SetExceptionMeetingStatus(h)
      <4>1. req[h] \in Handling /\ req[h] # Idle
        BY <3>2 DEF ReplaceEventExceptions, SetExceptionMeetingStatus, TypeOK, Idle
      <4>2. req'[h] # req[h]
        BY <3>2, <4>1 DEF ReplaceEventExceptions, SetExceptionMeetingStatus, Goes, TypeOK,
                          Handling
      <4>3. req[h].op \in {"series", "instance", "create"}
        BY <3>2, <4>1 DEF ReplaceEventExceptions, SetExceptionMeetingStatus, Writing, Carries
      <4>4. Serves({"series", "instance", "create"})
        BY <4>1, <4>2, <4>3 DEF Serves
      <4>5. ev' = [ev EXCEPT !.seq = @ + 1] /\ ev \in Event
        BY <3>2 DEF ReplaceEventExceptions, SetExceptionMeetingStatus, TouchEvent, TypeOK,
                    Exists
      <4>6. QED
        BY <4>4, <4>5 DEF Event
    <3>3. CASE UNCHANGED <<ev, exs>>
      BY <3>3
    <3>4. QED
      BY <2>2, <3>1, <3>2, <3>3
         DEF Write, AnotherEvent, AddChange, UpdateFails, ExceptionsFail, AddChangeFails
  <2>3. ASSUME NEW h \in Handlers, Request(h) PROVE UNCHANGED <<ev, exs>>
    BY <2>3, RequestBegins DEF Begins
  <2>4. Read \/ Crash => UNCHANGED <<ev, exs>>
    BY DEF Read, FeedEvents, FeedExceptions, Download, DownloadEvent, DownloadEventFails,
           DownloadExceptions, DownloadExceptionsFail, Crash
  <2>5. QED
    BY <2>1, <2>2, <2>3, <2>4 DEF Next
<1>4. QED
  BY <1>1, <1>2, <1>3, PTL DEF Spec, Keeps

=============================================================================
