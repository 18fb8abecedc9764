--------------------------- MODULE EasSync_proofs ---------------------------
(***************************************************************************)
(* The Sync command for any number of devices, items, overlapping handlers *)
(* and faults: the types, that a position never moves back, and, for a     *)
(* device that sends one request at a time, that the server knows what it  *)
(* holds, that it is told of every deletion and that no update is lost.    *)
(***************************************************************************)
EXTENDS EasSync, FiniteSetTheorems, WellFoundedInduction, TLAPS

\* A handler with a command for an existing item names that item, one past Restart or
\* Continue with a command has one, and the records it has still to answer exist.
Busy ==
  \A h \in Slots :
    /\ req[h].op \in {"Change", "Delete", "Fetch"} => req[h].item \in Items
    /\ req[h].pc \in {"load", "write", "log"} => req[h].op # "none"
    /\ req[h].pc = "log" => req[h].item \in Items
    /\ req[h].todo \subseteq DOMAIN feed

TInv == TypeOK /\ Busy

\* The constant records have their types.
LEMMA ConstantTypes ==
  /\ NoRow \in Row
  /\ Idle \in Handler
  /\ NewDevice \in Device
  /\ NoState \in SyncState
<1>1. NoRow \in Row /\ NoState \in SyncState
  BY DEF NoRow, Row, NoState, SyncState
<1>2. NewDevice \in Device
  BY DEF NewDevice, Device
<1>3. Silent \in [Items -> Command]
  BY DEF Silent, Command, NoCommand
<1>4. Idle \in Handler
  BY <1>1, <1>3 DEF Idle, Handler, Ops, Acks
<1> QED
  BY <1>1, <1>2, <1>4

\* The types and the order of the handlers hold at the start.
LEMMA InitTInv == Init => TInv
<1> SUFFICES ASSUME Init PROVE TInv
  OBVIOUS
<1>1. TypeOK
  BY ConstantTypes DEF Init, TypeOK
<1>2. Busy
  BY DEF Init, Busy, Idle
<1> QED
  BY <1>1, <1>2 DEF TInv

\* Steps of the writers, the administrator and the machine keep the types.
LEMMA WorldTypes ==
  ASSUME TInv,
         \/ \E i \in Items : Deliver(i) \/ Edit(i) \/ Rewrite(i) \/ Remove(i) \/ MoveAway(i) \/ MoveBack(i)
         \/ \E c \in due : Record(c)
         \/ \E d \in Devices : ResetItems(d) \/ ResetStates(d)
         \/ Prune
         \/ Crash
  PROVE  TypeOK'
<1> USE DEF TInv, TypeOK
<1>1. ASSUME NEW i \in Items, NEW k \in Kinds, Owe(i, k) PROVE due' \subseteq Change
  BY <1>1 DEF Owe, Change
<1>2. ASSUME NEW i \in Items, Deliver(i) PROVE TypeOK'
  <2>1. row' \in [Items -> Row]
    BY <1>2 DEF Deliver, Row
  <2>2. due' \subseteq Change
    BY <1>1, <1>2 DEF Deliver, Kinds
  <2> QED
    BY <1>2, <2>1, <2>2 DEF Deliver
<1>3. ASSUME NEW i \in Items, Edit(i) PROVE TypeOK'
  <2>1. row' \in [Items -> Row]
    <3>1. fresh' \in Nat /\ row' = [row EXCEPT ![i] = [row[i] EXCEPT !.rev = fresh']]
      BY <1>3 DEF Edit
    <3>2. [row[i] EXCEPT !.rev = fresh'] \in Row
      BY <3>1 DEF Row
    <3> QED
      BY <3>1, <3>2
  <2>2. due' \subseteq Change
    BY <1>1, <1>3 DEF Edit, Kinds
  <2> QED
    BY <1>3, <2>1, <2>2 DEF Edit
<1>4. ASSUME NEW i \in Items, Rewrite(i) PROVE TypeOK'
  <2>1. row' \in [Items -> Row]
    BY <1>4 DEF Rewrite, Row
  <2>2. due' \subseteq Change
    BY <1>1, <1>4 DEF Rewrite, Kinds
  <2> QED
    BY <1>4, <2>1, <2>2 DEF Rewrite
<1>5. ASSUME NEW i \in Items, Remove(i) PROVE TypeOK'
  <2>1. row' \in [Items -> Row]
    BY <1>5 DEF Remove, Row
  <2>2. due' \subseteq Change
    BY <1>1, <1>5 DEF Remove, Kinds
  <2> QED
    BY <1>5, <2>1, <2>2 DEF Remove
<1>6. ASSUME NEW i \in Items, MoveAway(i) PROVE TypeOK'
  <2>1. row' \in [Items -> Row]
    BY <1>6 DEF MoveAway, Row
  <2>2. due' \subseteq Change
    BY <1>1, <1>6 DEF MoveAway, Kinds
  <2> QED
    BY <1>6, <2>1, <2>2 DEF MoveAway
<1>7. ASSUME NEW i \in Items, MoveBack(i) PROVE TypeOK'
  <2>1. row' \in [Items -> Row]
    BY <1>7 DEF MoveBack, Row
  <2>2. due' \subseteq Change
    BY <1>1, <1>7 DEF MoveBack, Kinds
  <2> QED
    BY <1>7, <2>1, <2>2 DEF MoveBack
<1>8. ASSUME NEW c \in due, Record(c) PROVE TypeOK'
  BY <1>8 DEF Record, AddChange
<1>9. ASSUME NEW d \in Devices, ResetItems(d) \/ ResetStates(d) PROVE TypeOK'
  BY <1>9, ConstantTypes DEF ResetItems, ResetStates
<1>10. CASE Prune
  BY <1>10 DEF Prune, SyncState
<1>11. CASE Crash
  BY <1>11, ConstantTypes DEF Crash
<1> QED
  BY <1>2, <1>3, <1>5, <1>6, <1>7, <1>8, <1>9, <1>10, <1>11, <1>4

\* Steps that change only a handler keep the types if it stays a handler.
LEMMA OnlyRequest ==
  ASSUME TypeOK, NEW h \in Slots, NEW r \in Handler, req' = [req EXCEPT ![h] = r],
         UNCHANGED <<row, fresh, feed, low, due, state, known, dev, wiping>>, faults' \in Nat
  PROVE  TypeOK'
BY DEF TypeOK

\* A device's request is a handler.
LEMMA RequestTypes ==
  ASSUME TInv, NEW d \in Devices, NEW t \in Tries, NEW op \in Ops, NEW i \in Items \cup {NoItem},
         NEW m \in BOOLEAN, SendSync(d, t, op, i, m)
  PROVE  TypeOK'
<1> DEFINE b == IF i \in Items THEN dev[d].copy[i] ELSE 0
           r == [Idle EXCEPT !.pc = "start", !.live = TRUE, !.key = dev[d].key, !.op = op,
                             !.item = i, !.moves = m, !.base = b]
<1>1. dev[d].key \in Nat /\ b \in Nat
  BY DEF TInv, TypeOK, Device
<1>2. r \in Handler
  <2> HIDE DEF b
  <2> QED
    BY <1>1, ConstantTypes DEF Handler
<1>3. <<d, t>> \in Slots
  BY DEF Slots
<1>4. req' = [req EXCEPT ![<<d, t>>] = r]
  BY DEF SendSync
<1>5. UNCHANGED <<row, fresh, feed, low, due, state, known, dev, wiping>> /\ faults' \in Nat
  BY DEF SendSync, TInv, TypeOK
<1> HIDE DEF r
<1> QED
  BY <1>2, <1>3, <1>4, <1>5, OnlyRequest DEF TInv

\* The key check and the initial sync.
LEMMA CheckedTypes ==
  ASSUME TInv, NEW h \in Slots,
         Restart(h) \/ ForgetAllItems(h) \/ Begin(h) \/ Continue(h) \/ Refuse(h)
  PROVE  TypeOK'
<1> DEFINE go == Proceed(req[h].op)
           st == [key |-> 1, seq |-> 0]
<1>1. h[1] \in Devices /\ req[h] \in Handler /\ state[h[1]] \in SyncState /\ st \in SyncState
  BY DEF TInv, TypeOK, Slots, SyncState
<1>2. go \in {"known", "load"}
  BY DEF Proceed
<1> HIDE DEF go, st
<1>3. CASE Restart(h)
  <2>1. [req[h] EXCEPT !.pc = "forget"] \in Handler
    BY <1>1 DEF Handler
  <2>2. /\ req' = [req EXCEPT ![h] = [req[h] EXCEPT !.pc = "forget"]]
        /\ state' = [state EXCEPT ![h[1]] = NoState]
        /\ UNCHANGED <<row, fresh, feed, low, due, known, dev, wiping, faults>>
    BY <1>3 DEF Restart
  <2> QED
    BY <1>1, <2>1, <2>2, ConstantTypes DEF TInv, TypeOK
<1>4. CASE ForgetAllItems(h)
  <2>1. [req[h] EXCEPT !.pc = "begin"] \in Handler
    BY <1>1 DEF Handler
  <2>2. /\ req' = [req EXCEPT ![h] = [req[h] EXCEPT !.pc = "begin"]]
        /\ known' = [known EXCEPT ![h[1]] = {}]
        /\ UNCHANGED <<row, fresh, feed, low, due, state, dev, wiping, faults>>
    BY <1>4 DEF ForgetAllItems
  <2> QED
    BY <1>1, <2>1, <2>2 DEF TInv, TypeOK
<1>5. CASE Begin(h)
  <2>1. [req[h] EXCEPT !.pc = go, !.st = st] \in Handler
    BY <1>1, <1>2 DEF Handler
  <2>2. /\ req' = [req EXCEPT ![h] = [req[h] EXCEPT !.pc = go, !.st = st]]
        /\ state' = [state EXCEPT ![h[1]] = st]
        /\ UNCHANGED <<row, fresh, feed, low, due, known, dev, wiping, faults>>
    BY <1>5 DEF Begin, go, st
  <2> QED
    BY <1>1, <2>1, <2>2 DEF TInv, TypeOK
<1>6. CASE Continue(h)
  <2>1. [req[h] EXCEPT !.pc = go, !.st = state[h[1]]] \in Handler
    BY <1>1, <1>2 DEF Handler
  <2>2. req' = [req EXCEPT ![h] = [req[h] EXCEPT !.pc = go, !.st = state[h[1]]]]
    BY <1>6 DEF Continue, go
  <2>3. UNCHANGED <<row, fresh, feed, low, due, state, known, dev, wiping, faults>> /\ faults' \in Nat
    BY <1>6 DEF Continue, TInv, TypeOK
  <2> QED
    BY <2>1, <2>2, <2>3, OnlyRequest DEF TInv
<1>7. CASE Refuse(h)
  <2>1. [req[h] EXCEPT !.pc = "reply", !.status = 3] \in Handler
    BY <1>1 DEF Handler
  <2>2. req' = [req EXCEPT ![h] = [req[h] EXCEPT !.pc = "reply", !.status = 3]]
    BY <1>7 DEF Refuse
  <2>3. UNCHANGED <<row, fresh, feed, low, due, state, known, dev, wiping, faults>> /\ faults' \in Nat
    BY <1>7 DEF Refuse, TInv, TypeOK
  <2> QED
    BY <2>1, <2>2, <2>3, OnlyRequest DEF TInv
<1> QED
  BY <1>3, <1>6, <1>7, <1>4, <1>5

\* applyClientCommands.
LEMMA CommandTypes ==
  ASSUME TInv, NEW h \in Slots,
         \/ Load(h) \/ LoadFetch(h) \/ WriteAdd(h) \/ WriteAddFails(h)
         \/ WriteChange(h) \/ WriteDelete(h) \/ Log(h)
  PROVE  TypeOK'
<1>1. /\ h[1] \in Devices /\ req[h] \in Handler /\ row \in [Items -> Row] /\ fresh \in Nat
      /\ req[h].op \in {"Change", "Delete", "Fetch"} => req[h].item \in Items
      /\ req[h].pc \in {"load", "write", "log"} => req[h].op # "none"
      /\ req[h].pc = "log" => req[h].item \in Items
      /\ req[h].op \in Ops /\ req[h].snap \in Row
  BY DEF TInv, TypeOK, Slots, Busy, Handler
<1>2. ASSUME UNCHANGED <<row, fresh, feed, low, due, state, known, dev, wiping, faults>>,
             NEW r \in Handler, req' = [req EXCEPT ![h] = r]
      PROVE  TypeOK'
  BY <1>2, OnlyRequest DEF TInv, TypeOK
<1>3. ASSUME UNCHANGED <<feed, low, due, state, known, dev, wiping, faults>>, fresh' \in Nat,
             row' \in [Items -> Row], NEW r \in Handler, req' = [req EXCEPT ![h] = r]
      PROVE  TypeOK'
  BY <1>3 DEF TInv, TypeOK
<1>4. CASE Load(h)
  <2> DEFINE r == IF req[h].op = "Add" THEN [req[h] EXCEPT !.pc = "write"]
                  ELSE IF row[req[h].item].at = "here"
                         THEN [req[h] EXCEPT !.pc = "write", !.snap = row[req[h].item]]
                         ELSE [req[h] EXCEPT !.pc = "known", !.ack = "gone"]
  <2>1. req[h].op # "Add" => row[req[h].item] \in Row
    BY <1>1, <1>4 DEF Load, Ops
  <2>2. r \in Handler
    BY <1>1, <2>1 DEF Handler, Acks
  <2>3. req' = [req EXCEPT ![h] = r]
    BY <1>4 DEF Load
  <2>4. UNCHANGED <<row, fresh, feed, low, due, state, known, dev, wiping, faults>>
    BY <1>4 DEF Load
  <2> HIDE DEF r
  <2> QED
    BY <1>2, <2>2, <2>3, <2>4
<1>5. CASE LoadFetch(h)
  <2> DEFINE r == [req[h] EXCEPT !.pc = "known", !.snap = row[req[h].item],
                                 !.ack = IF Live(req[h].item) THEN "ok" ELSE "gone"]
  <2>1. row[req[h].item] \in Row
    BY <1>1, <1>5 DEF LoadFetch
  <2>2. r \in Handler
    BY <1>1, <2>1 DEF Handler, Acks
  <2>3. req' = [req EXCEPT ![h] = r]
    BY <1>1, <1>5 DEF LoadFetch, TInv, TypeOK
  <2>4. UNCHANGED <<row, fresh, feed, low, due, state, known, dev, wiping, faults>>
    BY <1>5 DEF LoadFetch
  <2> HIDE DEF r
  <2> QED
    BY <1>2, <2>2, <2>3, <2>4
<1>6. CASE WriteAdd(h)
  <2>1. PICK i \in Items :
          /\ row[i].at = "nowhere"
          /\ fresh' = fresh + 1
          /\ row' = [row EXCEPT ![i] = [at |-> "here", deleted |-> FALSE, rev |-> fresh']]
          /\ req' = [req EXCEPT ![h].pc = "log", ![h].item = i, ![h].rev = fresh']
    BY <1>6, Zenon DEF WriteAdd
  <2>2. fresh' \in Nat
    BY <1>1, <2>1
  <2>6. req' = [req EXCEPT ![h] = [req[h] EXCEPT !.pc = "log", !.item = i, !.rev = fresh']]
    BY <2>1
  <2>3. [req[h] EXCEPT !.pc = "log", !.item = i, !.rev = fresh'] \in Handler
    BY <1>1, <2>2 DEF Handler
  <2>4. row' \in [Items -> Row]
    BY <1>1, <2>1, <2>2 DEF Row
  <2>5. UNCHANGED <<feed, low, due, state, known, dev, wiping, faults>>
    BY <1>6 DEF WriteAdd
  <2> QED
    BY <1>3, <2>2, <2>3, <2>4, <2>5, <2>6
<1>7. CASE WriteAddFails(h)
  <2>1. [req[h] EXCEPT !.pc = "known", !.ack = "err"] \in Handler
    BY <1>1 DEF Handler, Acks
  <2> QED
    BY <1>2, <1>7, <2>1 DEF WriteAddFails
<1>8. CASE WriteChange(h)
  <2> DEFINE new == [at |-> "here",
                     deleted |-> IF Class = "Email" THEN req[h].snap.deleted ELSE FALSE,
                     rev |-> fresh']
  <2>1. fresh' \in Nat /\ row' = [row EXCEPT ![req[h].item] = new]
    BY <1>1, <1>8 DEF WriteChange
  <2>2. new \in Row
    BY <1>1, <2>1 DEF Row
  <2>3. row' \in [Items -> Row]
    BY <1>1, <2>1, <2>2
  <2>4. [req[h] EXCEPT !.pc = "log", !.rev = fresh'] \in Handler
    BY <1>1, <2>1 DEF Handler
  <2>5. req' = [req EXCEPT ![h] = [req[h] EXCEPT !.pc = "log", !.rev = fresh']]
    BY <1>8 DEF WriteChange
  <2>6. UNCHANGED <<feed, low, due, state, known, dev, wiping, faults>>
    BY <1>8 DEF WriteChange
  <2> QED
    BY <1>3, <2>1, <2>3, <2>4, <2>5, <2>6
<1>9. CASE WriteDelete(h)
  <2> DEFINE i == req[h].item
             new == IF Class # "Email" THEN [req[h].snap EXCEPT !.deleted = TRUE]
                    ELSE IF req[h].moves THEN [row[i] EXCEPT !.at = "away"]
                    ELSE [row[i] EXCEPT !.deleted = TRUE]
  <2>1. i \in Items /\ row[i] \in Row
    BY <1>1, <1>9 DEF WriteDelete
  <2>2. new \in Row
    BY <1>1, <2>1 DEF Row
  <2>3. row' = [row EXCEPT ![i] = new]
    BY <1>9 DEF WriteDelete
  <2>4. row' \in [Items -> Row]
    BY <1>1, <2>1, <2>2, <2>3
  <2>5. [req[h] EXCEPT !.pc = "log"] \in Handler
    BY <1>1 DEF Handler
  <2>6. req' = [req EXCEPT ![h] = [req[h] EXCEPT !.pc = "log"]]
    BY <1>9 DEF WriteDelete
  <2>7. UNCHANGED <<feed, low, due, state, known, dev, wiping, faults>> /\ fresh' \in Nat
    BY <1>1, <1>9 DEF WriteDelete
  <2> QED
    BY <1>3, <2>4, <2>5, <2>6, <2>7
<1>10. CASE Log(h)
  <2> DEFINE c == [item |-> req[h].item, kind |-> KindOf(req[h].op), by |-> h[1]]
             r == [req[h] EXCEPT !.pc = "known", !.ack = "ok", !.skip = {Len(feed')}]
  <2>1. c \in Change
    BY <1>1, <1>10 DEF Log, Change, KindOf, Kinds
  <2>2. feed' = Append(feed, c)
    BY <1>10 DEF Log, AddChange
  <2>3. feed' \in Seq(Change)
    BY <2>1, <2>2 DEF TInv, TypeOK
  <2>4. Len(feed') \in Nat
    BY <2>3
  <2>5. r \in Handler
    BY <1>1, <2>4 DEF Handler, Acks
  <2>6. req' = [req EXCEPT ![h] = r]
    BY <1>10 DEF Log
  <2>7. UNCHANGED <<row, fresh, low, due, state, known, dev, wiping, faults>>
    BY <1>10 DEF Log
  <2> HIDE DEF r
  <2> QED
    BY <2>3, <2>5, <2>6, <2>7 DEF TInv, TypeOK
<1> QED
  BY <1>4, <1>6, <1>7, <1>8, <1>9, <1>10, <1>5

\* What Fetch takes lies in the feed.
LEMMA FetchRange ==
  ASSUME NEW st, NEW skip
  PROVE  /\ Taken(Batch(st, skip), skip) \subseteq DOMAIN feed
         /\ Firsts(Taken(Batch(st, skip), skip), skip) \subseteq DOMAIN feed
BY DEF Taken, Batch, After, Firsts

\* The command for an item is a command.
LEMMA ItemCommandType ==
  ASSUME TInv, NEW r, NEW i \in Items, NEW k PROVE ItemCommand(r, i, k) \in Command
<1>1. row[i] \in Row /\ row[i].rev \in Nat
  BY DEF TInv, TypeOK, Row
<1> QED
  BY <1>1 DEF ItemCommand, Command, NoCommand

\* serverChanges, and the save.
LEMMA ServerTypes ==
  ASSUME TInv, NEW h \in Slots, KnownItems(h) \/ Fetch(h) \/ Emit(h) \/ More(h) \/ Save(h)
  PROVE  TypeOK'
<1>1. /\ h[1] \in Devices /\ req[h] \in Handler /\ known[h[1]] \subseteq Items /\ faults \in Nat
      /\ req[h].todo \subseteq DOMAIN feed /\ req[h].todo \subseteq Nat
      /\ req[h].last \in Nat /\ req[h].st \in SyncState
      /\ feed \in Seq(Change) /\ req[h].out \in [Items -> Command]
  BY DEF TInv, TypeOK, Slots, Busy, Handler
<1>2. ASSUME UNCHANGED <<row, fresh, feed, low, due, state, known, dev, wiping>>, faults' \in Nat,
             NEW r \in Handler, req' = [req EXCEPT ![h] = r]
      PROVE  TypeOK'
  BY <1>2, OnlyRequest DEF TInv
<1>3. CASE Fetch(h)
  <2> DEFINE skip == req[h].skip
             taken == Taken(Batch(req[h].st, skip), skip)
             first == Firsts(taken, skip)
  <2>1. taken \subseteq Nat /\ first \subseteq Nat /\ req[h].st.seq \in Nat
    BY <1>1, FetchRange DEF SyncState
  <2> HIDE DEF taken, first
  <2>2. PICK last \in taken \cup {req[h].st.seq} :
          req' = [req EXCEPT ![h].pc = "emit", ![h].todo = first, ![h].last = last]
    BY <1>3, Zenon DEF Fetch, taken, first
  <2> DEFINE r == [req[h] EXCEPT !.pc = "emit", !.todo = first, !.last = last]
  <2>3. r \in Handler
    BY <1>1, <2>1 DEF Handler
  <2>4. req' = [req EXCEPT ![h] = r]
    BY <2>2
  <2>5. UNCHANGED <<row, fresh, feed, low, due, state, known, dev, wiping>> /\ faults' \in Nat
    BY <1>1, <1>3 DEF Fetch
  <2> HIDE DEF r
  <2> QED
    BY <1>2, <2>3, <2>4, <2>5
<1>4. CASE Emit(h)
  <2>1. PICK s \in req[h].todo : \E t \in SameItem(req[h], s) :
          LET c == ItemCommand(req[h], feed[s].item, feed[t].kind)
          IN  /\ known' = [known EXCEPT ![h[1]] = Remember(@, feed[s].item, c.name)]
              /\ req' = [req EXCEPT ![h].todo = @ \ {s}, ![h].out[feed[s].item] = c]
    BY <1>4 DEF Emit
  <2>2. PICK t \in SameItem(req[h], s) :
          LET c == ItemCommand(req[h], feed[s].item, feed[t].kind)
          IN  /\ known' = [known EXCEPT ![h[1]] = Remember(@, feed[s].item, c.name)]
              /\ req' = [req EXCEPT ![h].todo = @ \ {s}, ![h].out[feed[s].item] = c]
    BY <2>1
  <2> DEFINE i == feed[s].item
             c == ItemCommand(req[h], i, feed[t].kind)
             out == [req[h].out EXCEPT ![i] = c]
             r == [req[h] EXCEPT !.todo = @ \ {s}, !.out = out]
  <2>3. i \in Items
    <3>1. feed[s] \in Change
      BY <1>1
    <3> QED
      BY <3>1 DEF Change
  <2>4. c \in Command
    BY <2>3, ItemCommandType
  <2>5. known' = [known EXCEPT ![h[1]] = Remember(@, i, c.name)] /\ req' = [req EXCEPT ![h] = r]
    BY <2>2
  <2> HIDE DEF i, c
  <2>6. out \in [Items -> Command]
    BY <1>1, <2>3, <2>4
  <2> HIDE DEF out
  <2>7. r \in Handler
    BY <1>1, <2>6 DEF Handler
  <2>8. Remember(known[h[1]], i, c.name) \in SUBSET Items
    BY <1>1, <2>3 DEF Remember
  <2>9. UNCHANGED <<row, fresh, feed, low, due, state, dev, wiping, faults>>
    BY <1>4 DEF Emit
  <2> HIDE DEF r
  <2> QED
    BY <1>1, <2>5, <2>7, <2>8, <2>9 DEF TInv, TypeOK
<1>5. CASE More(h)
  <2> DEFINE b == After(req[h].last) # {}
  <2>1. b \in BOOLEAN
    OBVIOUS
  <2>2. req' = [req EXCEPT ![h] = [req[h] EXCEPT !.pc = "save", !.more = b]]
    BY <1>5 DEF More
  <2> HIDE DEF b
  <2>3. [req[h] EXCEPT !.pc = "save", !.more = b] \in Handler
    BY <1>1, <2>1 DEF Handler
  <2>4. UNCHANGED <<row, fresh, feed, low, due, state, known, dev, wiping>> /\ faults' \in Nat
    BY <1>1, <1>5 DEF More
  <2> QED
    BY <1>2, <2>2, <2>3, <2>4
<1>6. CASE Save(h)
  <2> DEFINE st == [key |-> NextKey(req[h]), seq |-> req[h].last]
             r == [req[h] EXCEPT !.pc = "reply", !.st = st, !.status = 1]
  <2>1. st \in SyncState
    BY <1>1 DEF NextKey, SyncState
  <2>2. state' = [state EXCEPT ![h[1]] = st] /\ req' = [req EXCEPT ![h] = r]
    BY <1>6 DEF Save
  <2> HIDE DEF st
  <2>3. r \in Handler
    BY <1>1, <2>1 DEF Handler
  <2>4. UNCHANGED <<row, fresh, feed, low, due, known, dev, wiping, faults>>
    BY <1>6 DEF Save
  <2> HIDE DEF r
  <2> QED
    BY <1>1, <2>1, <2>2, <2>3, <2>4 DEF TInv, TypeOK
<1>7. CASE KnownItems(h)
  <2>1. [req[h] EXCEPT !.pc = "fetch", !.kn = known[h[1]]] \in Handler
    BY <1>1 DEF Handler
  <2>2. req' = [req EXCEPT ![h] = [req[h] EXCEPT !.pc = "fetch", !.kn = known[h[1]]]]
    BY <1>7 DEF KnownItems
  <2>3. UNCHANGED <<row, fresh, feed, low, due, state, known, dev, wiping>> /\ faults' \in Nat
    BY <1>1, <1>7 DEF KnownItems
  <2> QED
    BY <1>2, <2>1, <2>2, <2>3
<1> QED
  BY <1>3, <1>4, <1>5, <1>6, <1>7

\* Statements that fail, and a device that gives up.
LEMMA FaultTypes ==
  ASSUME TInv, NEW h \in Slots, Fails(h) \/ GiveUp(h)
  PROVE  TypeOK'
<1>1. req[h] \in Handler /\ faults \in Nat /\ Silent \in [Items -> Command]
  BY DEF TInv, TypeOK, Silent, Command, NoCommand
<1>2. ASSUME UNCHANGED <<row, fresh, feed, low, due, state, known, dev, wiping>>, faults' \in Nat,
             NEW r \in Handler, req' = [req EXCEPT ![h] = r]
      PROVE  TypeOK'
  BY <1>2, OnlyRequest DEF TInv
<1>3. /\ UNCHANGED <<row, fresh, feed, low, due, state, known, dev, wiping>>
      /\ faults' \in Nat
  BY <1>1 DEF Fails, SyncFails, LoadFails, WriteFails, LogFails, EmitFails, MarkFails, GiveUp
<1>4. CASE SyncFails(h)
  <2>1. [req[h] EXCEPT !.pc = "reply", !.status = 5, !.out = Silent] \in Handler
    BY <1>1 DEF Handler
  <2> QED
    BY <1>2, <1>3, <1>4, <2>1 DEF SyncFails
<1>5. CASE WriteFails(h)
  <2>1. [req[h] EXCEPT !.pc = "known", !.ack = "err"] \in Handler
    BY <1>1 DEF Handler, Acks
  <2> QED
    BY <1>2, <1>3, <1>5, <2>1 DEF WriteFails
<1>6. CASE LogFails(h)
  <2> DEFINE a == IF req[h].op = "Add" THEN "err" ELSE "ok"
  <2>1. a \in Acks
    BY DEF Acks
  <2>2. req' = [req EXCEPT ![h] = [req[h] EXCEPT !.pc = "known", !.ack = a]]
    BY <1>6 DEF LogFails
  <2> HIDE DEF a
  <2>3. [req[h] EXCEPT !.pc = "known", !.ack = a] \in Handler
    BY <1>1, <2>1 DEF Handler
  <2> QED
    BY <1>2, <1>3, <2>2, <2>3
<1>7. CASE EmitFails(h)
  <2>1. PICK s : req' = [req EXCEPT ![h].todo = @ \ {s}]
    BY <1>7 DEF EmitFails
  <2>2. [req[h] EXCEPT !.todo = @ \ {s}] \in Handler
    BY <1>1 DEF Handler
  <2> QED
    BY <1>2, <1>3, <2>1, <2>2
<1>8. CASE LoadFails(h)
  <2>1. [req[h] EXCEPT !.pc = "known", !.ack = "gone"] \in Handler
    BY <1>1 DEF Handler, Acks
  <2> QED
    BY <1>2, <1>3, <1>8, <2>1 DEF LoadFails
<1>9. CASE MarkFails(h)
  <2>1. PICK s \in req[h].todo : \E t \in SameItem(req[h], s) :
          req' = [req EXCEPT ![h].todo = @ \ {s},
                             ![h].out[feed[s].item] = ItemCommand(req[h], feed[s].item, feed[t].kind)]
    BY <1>9 DEF MarkFails
  <2>2. PICK t \in SameItem(req[h], s) :
          req' = [req EXCEPT ![h].todo = @ \ {s},
                             ![h].out[feed[s].item] = ItemCommand(req[h], feed[s].item, feed[t].kind)]
    BY <2>1
  <2> DEFINE i == feed[s].item
             c == ItemCommand(req[h], i, feed[t].kind)
             out == [req[h].out EXCEPT ![i] = c]
             r == [req[h] EXCEPT !.todo = @ \ {s}, !.out = out]
  <2>3. i \in Items
    <3>1. feed[s] \in Change
      BY DEF TInv, TypeOK, Busy
    <3> QED
      BY <3>1 DEF Change
  <2>4. c \in Command
    BY <2>3, ItemCommandType
  <2>5. req' = [req EXCEPT ![h] = r]
    BY <2>2
  <2> HIDE DEF i, c
  <2>6. out \in [Items -> Command]
    BY <1>1, <2>3, <2>4 DEF Handler
  <2> HIDE DEF out
  <2>7. r \in Handler
    BY <1>1, <2>6 DEF Handler
  <2> HIDE DEF r
  <2> QED
    BY <1>2, <1>3, <2>5, <2>7
<1>10. CASE GiveUp(h)
  <2>1. [req[h] EXCEPT !.live = FALSE] \in Handler
    BY <1>1 DEF Handler
  <2> QED
    BY <1>2, <1>3, <1>10, <2>1 DEF GiveUp
<1> QED
  BY <1>4, <1>5, <1>6, <1>7, <1>10, <1>8, <1>9 DEF Fails

\* The device's answer.
LEMMA ReceiveTypes ==
  ASSUME TInv, NEW h \in Slots, Receive(h) PROVE TypeOK'
<1>1. /\ h[1] \in Devices /\ req[h] \in Handler /\ dev[h[1]] \in Device
      /\ req[h].st.key \in Nat /\ req[h].last \in Nat /\ req[h].rev \in Nat
      /\ req[h].snap.rev \in Nat
  BY DEF TInv, TypeOK, Slots, Handler, SyncState, Row
<1>2. ASSUME NEW i \in Items
      PROVE  Applied(Acknowledged(dev[h[1]].copy[i], req[h], i), req[h].out[i]) \in Nat
  <2>1. dev[h[1]].copy[i] \in Nat /\ req[h].out[i].rev \in Nat
    BY <1>1 DEF Device, Handler, Command
  <2>2. Acknowledged(dev[h[1]].copy[i], req[h], i) \in Nat
    BY <1>1, <2>1 DEF Acknowledged
  <2> QED
    BY <2>1, <2>2 DEF Applied
<1>3. Updated(dev[h[1]], req[h]) \in Device
  BY <1>1, <1>2 DEF Updated, Device, Made, Deleted, Told
<1> DEFINE new == IF ~req[h].live \/ req[h].status = 5 THEN dev[h[1]]
                  ELSE IF req[h].status = 3 THEN NewDevice
                  ELSE Updated(dev[h[1]], req[h])
<1>4. new \in Device
  BY <1>1, <1>3, ConstantTypes
<1>5. /\ dev' = [dev EXCEPT ![h[1]] = new] /\ req' = [req EXCEPT ![h] = Idle]
      /\ UNCHANGED <<row, fresh, feed, low, due, state, known, wiping, faults>>
  BY DEF Receive
<1> HIDE DEF new
<1> QED
  BY <1>1, <1>4, <1>5, ConstantTypes DEF TInv, TypeOK

\* Every step keeps the handlers' commands and records in order.
LEMMA NextBusy == TInv /\ [Next]_vars => Busy'
<1> SUFFICES ASSUME TInv, [Next]_vars PROVE Busy'
  OBVIOUS
<1>t. req \in [Slots -> Handler] /\ feed \in Seq(Change) /\ Busy
  BY DEF TInv, TypeOK
<1> USE <1>t, EasSyncAssumption DEF Busy, Handler
<1>1. ASSUME NEW h \in Slots, Restart(h) PROVE Busy'
  BY <1>1 DEF Restart
<1>2. ASSUME NEW h \in Slots, Continue(h) PROVE Busy'
  BY <1>2 DEF Continue, Proceed
<1>3. ASSUME NEW h \in Slots, Refuse(h) PROVE Busy'
  BY <1>3 DEF Refuse
<1>4. ASSUME NEW h \in Slots, Load(h) PROVE Busy'
  BY <1>4 DEF Load
<1>5. ASSUME NEW h \in Slots, LoadFetch(h) PROVE Busy'
  BY <1>5 DEF LoadFetch
<1>6. ASSUME NEW h \in Slots, WriteAddFails(h) PROVE Busy'
  BY <1>6 DEF WriteAddFails
<1>7. ASSUME NEW h \in Slots, WriteChange(h) PROVE Busy'
  BY <1>7 DEF WriteChange
<1>8. ASSUME NEW h \in Slots, WriteDelete(h) PROVE Busy'
  BY <1>8 DEF WriteDelete
<1>9. ASSUME NEW h \in Slots, More(h) PROVE Busy'
  BY <1>9 DEF More
<1>10. ASSUME NEW h \in Slots, Save(h) PROVE Busy'
  BY <1>10 DEF Save
<1>11. ASSUME NEW h \in Slots, SyncFails(h) PROVE Busy'
  BY <1>11 DEF SyncFails
<1>12. ASSUME NEW h \in Slots, GiveUp(h) PROVE Busy'
  BY <1>12 DEF GiveUp
<1>13. ASSUME NEW h \in Slots, Receive(h) PROVE Busy'
  BY <1>13 DEF Receive, Idle
<1>14. ASSUME Crash PROVE Busy'
  BY <1>14 DEF Crash, Idle
<1>15. ASSUME NEW h \in Slots, WriteAdd(h) PROVE Busy'
  <2>1. PICK i \in Items : req' = [req EXCEPT ![h].pc = "log", ![h].item = i, ![h].rev = fresh']
    BY <1>15, Zenon DEF WriteAdd
  <2> QED
    BY <1>15, <2>1 DEF WriteAdd
<1>16. ASSUME NEW h \in Slots, Log(h) PROVE Busy'
  <2>1. PICK c : feed' = Append(feed, c)
    BY <1>16 DEF Log, AddChange
  <2>2. DOMAIN feed \subseteq DOMAIN feed'
    BY <2>1
  <2> QED
    BY <1>16, <2>2 DEF Log
<1>17. ASSUME NEW h \in Slots, Fetch(h) PROVE Busy'
  <2> DEFINE first == Firsts(Taken(Batch(req[h].st, req[h].skip), req[h].skip), req[h].skip)
  <2>1. first \subseteq DOMAIN feed
    BY FetchRange
  <2> HIDE DEF first
  <2>2. PICK last : req' = [req EXCEPT ![h].pc = "emit", ![h].todo = first, ![h].last = last]
    BY <1>17, Zenon DEF Fetch, first
  <2> QED
    BY <1>17, <2>1, <2>2 DEF Fetch
<1>18. ASSUME NEW h \in Slots, Emit(h) \/ MarkFails(h) PROVE Busy'
  <2>1. PICK s \in req[h].todo : \E t \in SameItem(req[h], s) :
          req' = [req EXCEPT ![h].todo = @ \ {s},
                             ![h].out[feed[s].item] = ItemCommand(req[h], feed[s].item, feed[t].kind)]
    <3> HIDE DEF Busy, Handler
    <3> QED
      BY <1>18 DEF Emit, MarkFails
  <2>2. \A g \in Slots :
          /\ req'[g].op = req[g].op /\ req'[g].item = req[g].item /\ req'[g].pc = req[g].pc
          /\ req'[g].todo \subseteq req[g].todo
    BY <2>1
  <2>3. UNCHANGED feed
    BY <1>18 DEF Emit, MarkFails
  <2> QED
    BY <2>2, <2>3
<1>19. ASSUME NEW c \in due, Record(c) PROVE Busy'
  <2>1. DOMAIN feed \subseteq DOMAIN feed'
    BY <1>19 DEF Record, AddChange
  <2> QED
    BY <1>19, <2>1 DEF Record
<1>20. ASSUME NEW d \in Devices, NEW t \in Tries, NEW op \in Ops, NEW i \in Items \cup {NoItem}, NEW m \in BOOLEAN,
             SendSync(d, t, op, i, m) PROVE Busy'
  <2>1. op \in {"Change", "Delete", "Fetch"} => i \in Items
    BY <1>20 DEF SendSync
  <2>2. <<d, t>> \in Slots
    BY DEF Slots
  <2> QED
    BY <1>20, <2>1, <2>2 DEF SendSync, Idle
<1>21. ASSUME UNCHANGED <<req, feed>> PROVE Busy'
  BY <1>21
<1>22. ASSUME NEW h \in Slots, ForgetAllItems(h) PROVE Busy'
  BY <1>22 DEF ForgetAllItems
<1>23. ASSUME NEW h \in Slots, Begin(h) PROVE Busy'
  BY <1>23 DEF Begin, Proceed
<1>24. ASSUME NEW h \in Slots, KnownItems(h) PROVE Busy'
  BY <1>24 DEF KnownItems
<1>25. ASSUME NEW h \in Slots, WriteFails(h) \/ LogFails(h) PROVE Busy'
  <2>1. PICK a : req' = [req EXCEPT ![h].pc = "known", ![h].ack = a]
    <3> HIDE DEF Busy, Handler
    <3>1. CASE WriteFails(h)
      BY <3>1 DEF WriteFails
    <3>2. CASE LogFails(h)
      BY <3>2 DEF LogFails
    <3> QED
      BY <1>25, <3>1, <3>2
  <2>2. UNCHANGED feed /\ req[h].pc \in {"write", "log"}
    BY <1>25 DEF WriteFails, LogFails
  <2>3. \A g \in Slots :
          /\ req'[g].op = req[g].op /\ req'[g].item = req[g].item /\ req'[g].todo = req[g].todo
          /\ req'[g].pc = IF g = h THEN "known" ELSE req[g].pc
    BY <2>1
  <2>4. \A g \in Slots : req'[g].pc \in {"load", "write", "log"} => req'[g].pc = req[g].pc
    BY <2>3
  <2> HIDE DEF Handler
  <2> QED
    BY <2>2, <2>3, <2>4
<1>26. ASSUME NEW h \in Slots, LoadFails(h) PROVE Busy'
  BY <1>26 DEF LoadFails
<1>27. ASSUME NEW h \in Slots, EmitFails(h) PROVE Busy'
  BY <1>27 DEF EmitFails
<1> HIDE DEF Busy, Handler
<1>28. CASE \E h \in Slots : Handle(h) \/ Receive(h) \/ GiveUp(h) \/ Fails(h)
  BY <1>28, <1>1, <1>2, <1>3, <1>4, <1>6, <1>7, <1>8, <1>9, <1>10, <1>11, <1>12, <1>13, <1>15,
     <1>16, <1>17, <1>18, <1>22, <1>23, <1>24, <1>25, <1>27, <1>26, <1>5 DEF Handle, Fails
<1>29. CASE \/ \E i \in Items : Deliver(i) \/ Edit(i) \/ Rewrite(i) \/ Remove(i) \/ MoveAway(i) \/ MoveBack(i)
            \/ \E d \in Devices : ResetItems(d) \/ ResetStates(d)
            \/ Prune
  BY <1>29, <1>21 DEF Deliver, Edit, Rewrite, Remove, MoveAway, MoveBack, Prune, ResetItems, ResetStates
<1>30. CASE UNCHANGED vars
  BY <1>30, <1>21 DEF vars
<1> QED
  BY <1>14, <1>19, <1>20, <1>28, <1>29, <1>30 DEF Next

\* Every step keeps the types.
LEMMA NextTypeOK == TInv /\ [Next]_vars => TypeOK'
<1> SUFFICES ASSUME TInv, [Next]_vars PROVE TypeOK'
  OBVIOUS
<1>1. CASE \E h \in Slots : Handle(h) \/ Receive(h) \/ GiveUp(h) \/ Fails(h)
  BY <1>1, CheckedTypes, CommandTypes, ServerTypes, ReceiveTypes, FaultTypes DEF Handle
<1>2. CASE \/ \E i \in Items : Deliver(i) \/ Edit(i) \/ Rewrite(i) \/ Remove(i) \/ MoveAway(i) \/ MoveBack(i)
           \/ \E c \in due : Record(c)
           \/ \E d \in Devices : ResetItems(d) \/ ResetStates(d)
           \/ Prune
           \/ Crash
  BY <1>2, WorldTypes
<1>3. CASE \E d \in Devices, t \in Tries, op \in Ops, i \in Items \cup {NoItem}, m \in BOOLEAN :
             SendSync(d, t, op, i, m)
  BY <1>3, RequestTypes
<1>4. CASE UNCHANGED vars
  BY <1>4 DEF vars, TInv, TypeOK
<1> QED
  BY <1>1, <1>2, <1>3, <1>4 DEF Next

\* Types and Busy together are inductive.
LEMMA SpecTInv == Spec => []TInv
<1>1. TInv /\ [Next]_vars => TInv'
  BY NextTypeOK, NextBusy DEF TInv
<1> QED
  BY InitTInv, <1>1, PTL DEF Spec

\* All variables keep their types, whatever overlaps, fails or crashes: in particular
\* a handler only answers about records that exist and items that exist
\* (serverChanges), and only logs existing items (applyClientCommands).
THEOREM TypeCorrect == Spec => []TypeOK
BY SpecTInv, PTL DEF TInv

----------------------------------------------------------------------------
\* A position never moves back while the requests of a device do not overlap.

\* A device has one request at a time, and no administrator resets it.
OneAtATime == (\A t, u \in Tries : t = u) /\ "reset" \notin Env

\* A handler past the key check works on the saved state, and has read no further back.
Follows ==
  /\ wiping = {}
  /\ \A h \in Slots :
       /\ req[h].pc \in {"load", "write", "log", "known", "fetch", "emit", "save"} =>
            req[h].st = state[h[1]]
       /\ req[h].pc \in {"emit", "save"} => req[h].last >= req[h].st.seq

\* With one request at a time, no step separates a handler from the saved state.
LEMMA NextFollows ==
  ASSUME OneAtATime PROVE TInv /\ Follows /\ [Next]_vars => Follows'
<1> SUFFICES ASSUME TInv, Follows, [Next]_vars PROVE Follows'
  OBVIOUS
<1>t. req \in [Slots -> Handler] /\ state \in [Devices -> SyncState] /\ feed \in Seq(Change)
  BY DEF TInv, TypeOK
<1>o. \A g, h \in Slots : g[1] = h[1] => g = h
  BY DEF OneAtATime, Slots
<1> USE <1>t DEF Follows, Handler
<1>1. ASSUME NEW h \in Slots, Load(h) PROVE Follows'
  BY <1>1 DEF Load
<1>2. ASSUME NEW h \in Slots, LoadFetch(h) PROVE Follows'
  BY <1>2 DEF LoadFetch
<1>3. ASSUME NEW h \in Slots, WriteAddFails(h) PROVE Follows'
  BY <1>3 DEF WriteAddFails
<1>4. ASSUME NEW h \in Slots, WriteChange(h) PROVE Follows'
  BY <1>4 DEF WriteChange
<1>5. ASSUME NEW h \in Slots, WriteDelete(h) PROVE Follows'
  BY <1>5 DEF WriteDelete
<1>6. ASSUME NEW h \in Slots, Log(h) PROVE Follows'
  BY <1>6 DEF Log
<1>7. ASSUME NEW h \in Slots, More(h) PROVE Follows'
  BY <1>7 DEF More
<1>8. ASSUME NEW h \in Slots, SyncFails(h) PROVE Follows'
  BY <1>8 DEF SyncFails
<1>9. ASSUME NEW h \in Slots, GiveUp(h) PROVE Follows'
  BY <1>9 DEF GiveUp
<1>10. ASSUME NEW h \in Slots, Refuse(h) PROVE Follows'
  BY <1>10 DEF Refuse
<1>11. ASSUME NEW h \in Slots, Continue(h) PROVE Follows'
  BY <1>11 DEF Continue, Proceed
<1>12. ASSUME NEW h \in Slots, WriteAdd(h) PROVE Follows'
  <2>1. PICK i \in Items : req' = [req EXCEPT ![h].pc = "log", ![h].item = i, ![h].rev = fresh']
    BY <1>12, Zenon DEF WriteAdd
  <2> QED
    BY <1>12, <2>1 DEF WriteAdd
<1>13. ASSUME NEW h \in Slots, Restart(h) PROVE Follows'
  <2>1. \A g \in Slots : g # h => g[1] # h[1]
    BY <1>o
  <2> QED
    BY <1>13, <2>1 DEF Restart, Slots
<1>14. ASSUME NEW h \in Slots, Fetch(h) PROVE Follows'
  <2> DEFINE taken == Taken(Batch(req[h].st, req[h].skip), req[h].skip)
             first == Firsts(taken, req[h].skip)
  <2>1. \A s \in taken : s >= req[h].st.seq
    BY DEF Taken, Batch, After, SyncState
  <2> HIDE DEF taken, first
  <2>2. PICK last \in taken \cup {req[h].st.seq} :
          req' = [req EXCEPT ![h].pc = "emit", ![h].todo = first, ![h].last = last]
    BY <1>14, Zenon DEF Fetch, taken, first
  <2>3. last >= req[h].st.seq
    BY <2>1, <2>2 DEF SyncState
  <2> QED
    BY <1>14, <2>2, <2>3 DEF Fetch
<1>15. ASSUME NEW h \in Slots, Emit(h) \/ MarkFails(h) PROVE Follows'
  <2>1. PICK s \in req[h].todo : \E t \in SameItem(req[h], s) :
          req' = [req EXCEPT ![h].todo = @ \ {s},
                             ![h].out[feed[s].item] = ItemCommand(req[h], feed[s].item, feed[t].kind)]
    <3> HIDE DEF Follows, Handler
    <3> QED
      BY <1>15 DEF Emit, MarkFails
  <2>2. \A g \in Slots :
          req'[g].st = req[g].st /\ req'[g].last = req[g].last /\ req'[g].pc = req[g].pc
    BY <2>1
  <2>3. UNCHANGED <<state, wiping>>
    BY <1>15 DEF Emit, MarkFails
  <2> QED
    BY <2>2, <2>3
<1>16. ASSUME NEW h \in Slots, Save(h) PROVE Follows'
  <2>1. \A g \in Slots : g # h => g[1] # h[1]
    BY <1>o
  <2> QED
    BY <1>16, <2>1 DEF Save, Slots
<1>17. ASSUME NEW h \in Slots, Receive(h) PROVE Follows'
  BY <1>17 DEF Receive, Idle
<1>18. ASSUME NEW d \in Devices, NEW t \in Tries, NEW op \in Ops, NEW i \in Items \cup {NoItem}, NEW m \in BOOLEAN,
             SendSync(d, t, op, i, m) PROVE Follows'
  <2>1. <<d, t>> \in Slots
    BY DEF Slots
  <2> QED
    BY <1>18, <2>1 DEF SendSync, Idle
<1>19. ASSUME Crash PROVE Follows'
  BY <1>19 DEF Crash, Idle
<1>20. ASSUME UNCHANGED <<req, state, wiping>> PROVE Follows'
  BY <1>20
<1>21. ASSUME NEW h \in Slots, ForgetAllItems(h) PROVE Follows'
  BY <1>21 DEF ForgetAllItems
<1>22. ASSUME NEW h \in Slots, Begin(h) PROVE Follows'
  <2>1. \A g \in Slots : g # h => g[1] # h[1]
    BY <1>o
  <2> QED
    BY <1>22, <2>1 DEF Begin, Proceed, Slots
<1>23. ASSUME NEW h \in Slots, KnownItems(h) PROVE Follows'
  BY <1>23 DEF KnownItems
<1>24. ASSUME NEW h \in Slots, WriteFails(h) \/ LogFails(h) PROVE Follows'
  <2>1. PICK a : req' = [req EXCEPT ![h].pc = "known", ![h].ack = a]
    <3> HIDE DEF Follows, Handler
    <3>1. CASE WriteFails(h)
      BY <3>1 DEF WriteFails
    <3>2. CASE LogFails(h)
      BY <3>2 DEF LogFails
    <3> QED
      BY <1>24, <3>1, <3>2
  <2>2. UNCHANGED <<state, wiping>> /\ req[h].pc \in {"write", "log"}
    BY <1>24 DEF WriteFails, LogFails
  <2>3. \A g \in Slots :
          /\ req'[g].st = req[g].st /\ req'[g].last = req[g].last
          /\ req'[g].pc = IF g = h THEN "known" ELSE req[g].pc
    BY <2>1
  <2> QED
    BY <2>2, <2>3
<1>25. ASSUME NEW h \in Slots, LoadFails(h) PROVE Follows'
  BY <1>25 DEF LoadFails
<1>26. ASSUME NEW h \in Slots, EmitFails(h) PROVE Follows'
  BY <1>26 DEF EmitFails
<1> HIDE DEF Follows, Handler
<1>27. CASE \E h \in Slots : Handle(h) \/ Receive(h) \/ GiveUp(h) \/ Fails(h)
  BY <1>27, <1>1, <1>3, <1>4, <1>5, <1>6, <1>7, <1>8, <1>9, <1>10, <1>11, <1>12, <1>13, <1>14, <1>15,
     <1>16, <1>17, <1>21, <1>22, <1>23, <1>24, <1>26, <1>25, <1>2 DEF Handle, Fails
<1>28. CASE \/ \E i \in Items : Deliver(i) \/ Edit(i) \/ Rewrite(i) \/ Remove(i) \/ MoveAway(i) \/ MoveBack(i)
            \/ \E c \in due : Record(c)
            \/ Prune
  BY <1>28, <1>20 DEF Deliver, Edit, Rewrite, Remove, MoveAway, MoveBack, Record, Prune
<1>29. CASE \E d \in Devices : ResetItems(d) \/ ResetStates(d)
  BY <1>29 DEF ResetItems, ResetStates, Follows, OneAtATime
<1>30. CASE UNCHANGED vars
  BY <1>30, <1>20 DEF vars
<1> QED
  BY <1>18, <1>19, <1>27, <1>28, <1>29, <1>30 DEF Next

\* Only an initial sync or a save changes a saved state, and a save moves it forward.
LEMMA StepForward ==
  ASSUME OneAtATime, TInv, Follows, [Next]_vars, NEW d \in Devices,
         state'[d].key > 1, state[d].key # 0
  PROVE  state'[d].seq >= state[d].seq /\ state'[d].key >= state[d].key
<1>t. state \in [Devices -> SyncState] /\ req \in [Slots -> Handler]
  BY DEF TInv, TypeOK
<1>1. CASE state' = state
  BY <1>1, <1>t DEF SyncState
<1>2. ASSUME NEW h \in Slots, Restart(h) \/ Begin(h) PROVE state'[d] = state[d]
  BY <1>2, <1>t DEF Restart, Begin, NoState, Slots
<1>3. ASSUME NEW h \in Slots, Save(h)
      PROVE  state'[d].seq >= state[d].seq /\ state'[d].key >= state[d].key
  <2>1. req[h].st = state[h[1]] /\ req[h].last >= req[h].st.seq /\ h[1] \in Devices
    BY <1>3 DEF Save, Follows, Slots
  <2>2. req[h].st.key \in Nat /\ state[d] \in SyncState
    BY <1>t, <2>1 DEF SyncState
  <2>3. NextKey(req[h]) >= req[h].st.key
    BY <2>2 DEF NextKey
  <2>4. state'[d] = IF d = h[1] THEN [key |-> NextKey(req[h]), seq |-> req[h].last] ELSE state[d]
    BY <1>3, <1>t DEF Save
  <2> QED
    BY <2>1, <2>2, <2>3, <2>4 DEF SyncState
<1>4. CASE \E h \in Slots : Handle(h) \/ Receive(h) \/ GiveUp(h) \/ Fails(h)
  <2>1. ASSUME NEW h \in Slots, Handle(h), ~Restart(h), ~Begin(h), ~Save(h) PROVE state' = state
    BY <2>1 DEF Handle, ForgetAllItems, Continue, Refuse, Load, LoadFetch, WriteAdd,
                WriteAddFails, WriteChange, WriteDelete, Log, KnownItems, Fetch, Emit, More
  <2>2. ASSUME NEW h \in Slots, Receive(h) \/ GiveUp(h) \/ Fails(h) PROVE state' = state
    BY <2>2 DEF Receive, GiveUp, Fails, SyncFails, LoadFails, WriteFails, LogFails, EmitFails, MarkFails
  <2>3. ASSUME NEW h \in Slots, Restart(h) \/ Begin(h)
        PROVE  state'[d].seq >= state[d].seq /\ state'[d].key >= state[d].key
    BY <1>2, <1>t, <2>3 DEF SyncState
  <2> QED
    BY <1>1, <1>3, <1>4, <2>1, <2>2, <2>3
<1>5. CASE ~\E h \in Slots : Handle(h) \/ Receive(h) \/ GiveUp(h) \/ Fails(h)
  <2>1. state' = state
    <3>1. ASSUME NEW i \in Items, Deliver(i) \/ Edit(i) \/ Rewrite(i) \/ Remove(i) \/ MoveAway(i) \/ MoveBack(i)
          PROVE  state' = state
      BY <3>1 DEF Deliver, Edit, Rewrite, Remove, MoveAway, MoveBack
    <3>2. ASSUME NEW c \in due, Record(c) PROVE state' = state
      BY <3>2 DEF Record
    <3>3. ASSUME NEW e \in Devices, NEW t \in Tries, NEW op \in Ops, NEW i \in Items \cup {NoItem},
                 NEW m \in BOOLEAN, SendSync(e, t, op, i, m)
          PROVE  state' = state
      BY <3>3 DEF SendSync
    <3>4. ASSUME NEW e \in Devices, ResetItems(e) \/ ResetStates(e) PROVE state' = state
      BY <3>4 DEF ResetItems, ResetStates, Follows, OneAtATime
    <3>5. ASSUME Prune \/ Crash \/ UNCHANGED vars PROVE state' = state
      BY <3>5 DEF Prune, Crash, vars
    <3> QED
      BY <1>5, <3>1, <3>2, <3>3, <3>4, <3>5 DEF Next
  <2> QED
    BY <1>1, <2>1
<1> QED
  BY <1>4, <1>5

\* While a device's requests do not overlap and nobody resets it, its saved key and
\* position never move back between two initial syncs (syncCollection), whatever is
\* lost, fails, is pruned or crashes.
THEOREM PositionNeverBack ==
  ASSUME OneAtATime PROVE Spec => NeverBack
<1>1. Init => Follows
  BY DEF Init, Follows, Idle
<1>2. Spec => []Follows
  BY <1>1, SpecTInv, NextFollows, PTL DEF Spec
<1>3. TInv /\ Follows /\ [Next]_vars =>
        [\A d \in Devices :
           state'[d].key > 1 /\ state[d].key # 0 =>
             state'[d].seq >= state[d].seq /\ state'[d].key >= state[d].key]_vars
  BY StepForward
<1> QED
  BY <1>2, <1>3, SpecTInv, PTL DEF Spec, NeverBack

----------------------------------------------------------------------------
\* What sync_items says, while the requests of a device do not overlap and the database
\* answers.

\* One request of a device at a time, no reset, no failing statement and no crash.
Calm == OneAtATime /\ Env \cap {"dberror", "crash"} = {}

\* The items a device should be on record with.
Held(v) == ({i \in Items : v.copy[i] # 0} \ v.made) \cup v.dropped

\* The items that have a row.
There == {i \in Items : row[i].at # "nowhere"}

\* Past the key check: what the device said is the truth, and nothing was answered yet, ...
Reading == {"load", "write", "log", "known", "fetch"}

\* ... or the answer is being put together.
Writing == {"emit", "save"}

Answering(r) == r.pc \in Writing \/ (r.pc = "reply" /\ r.status = 1)

\* The request of slot r is one its device v could send and has not been told of yet.
Asked(r, v) ==
  /\ v.key = 0 => v = NewDevice
  /\ r.pc = "idle" => r = Idle
  /\ r.pc # "idle" => r.key = v.key
  /\ r.op # "none" => v.key # 0
  /\ r.op = "none" => r.ack = "none" /\ r.item = NoItem
  /\ r.op \in {"Change", "Delete", "Fetch"} => v.copy[r.item] # 0
  /\ r.op = "Add" /\ r.item \in Items => v.copy[r.item] = 0
  /\ r.pc \in {"forget", "begin"} => r.key = 0
  /\ r.pc \notin {"emit", "save", "reply"} => r.out = Silent
  /\ r.pc \in {"start", "forget", "begin", "load", "write", "log"} => r.ack = "none"
  /\ r.pc \in {"write", "log"} => r.op # "Fetch"

\* The slot r and the saved state s: the key of an answer that says something is new.
Keyed(r, v, s) ==
  /\ r.pc \in Reading \cup Writing => s.key # 0 /\ (r.key # 0 => s.key = r.key)
  /\ r.pc \in Writing /\ r.last = r.st.seq => r.todo = {} /\ r.out = Silent
  /\ r.pc = "reply" => r.status \in {1, 3}
  /\ r.pc = "reply" /\ r.status = 1 =>
       /\ r.st = s /\ s.key # 0
       /\ s.key = v.key => r.ack = "none" /\ r.out = Silent
  /\ r.pc = "reply" /\ r.status = 3 => v.key # 0 /\ s.key # v.key

\* Contents that are sent, kept or acknowledged are contents of rows.
Solid(r, v, there) ==
  /\ \A i \in Items : v.copy[i] # 0 => i \in there
  /\ r.pc = "write" /\ r.op # "Add" => r.snap.rev # 0 /\ r.snap.at # "nowhere"
  /\ (r.pc = "log" \/ r.ack = "ok") /\ r.op \in {"Add", "Change"} => r.rev # 0
  /\ r.ack = "ok" /\ r.op = "Fetch" => r.snap.rev # 0
  /\ r.op = "Add" /\ r.item \in Items => r.item \in there
  /\ \A i \in Items : r.out[i].name \in {"Add", "Change"} => r.out[i].rev # 0 /\ i \in there

\* sync_items k is what the device has, or will have once it is answered.
Agrees(r, v, s, k) ==
  /\ r.pc \in Reading \/ (r.pc \in {"idle", "start"} /\ v.key # 0 /\ v.key = s.key) =>
       k = Held(v)
  /\ r.pc = "begin" => k = {}
  /\ (r.pc = "fetch" \/ Answering(r)) => r.kn = Held(v)
  /\ Answering(r) =>
       \A i \in Items :
         /\ (i \in k) <=> \/ r.out[i].name \in {"Add", "Change"}
                          \/ r.out[i].name = "none" /\ i \in r.kn
         /\ r.out[i].name = "Change" => i \in r.kn

\* Each item is answered once.
Once(r, f) ==
  \A s \in r.todo :
    /\ r.out[f[s].item] = NoCommand
    /\ \A t \in r.todo : f[t].item = f[s].item => t = s

SlotOK(r, v, s, k, there) ==
  Asked(r, v) /\ Keyed(r, v, s) /\ Solid(r, v, there) /\ Agrees(r, v, s, k)

KInv ==
  /\ \A i \in Items : row[i].at # "nowhere" => row[i].rev # 0
  /\ \A h \in Slots : SlotOK(req[h], dev[h[1]], state[h[1]], known[h[1]], There)
  /\ \A h \in Slots : Once(req[h], feed)

\* Nothing a slot relies on goes away with a row.
LEMMA SlotGrows ==
  ASSUME NEW r, NEW v, NEW s, NEW k, NEW old, NEW new, old \subseteq new, SlotOK(r, v, s, k, old)
  PROVE  SlotOK(r, v, s, k, new)
BY DEF SlotOK, Solid

\* A feed that grows keeps the items of the records still to be answered.
LEMMA OnceGrows ==
  ASSUME NEW r, NEW f \in Seq(Change), NEW c, r.todo \subseteq DOMAIN f, Once(r, f)
  PROVE  Once(r, Append(f, c))
BY DEF Once

\* A handler step changes its own slot and its own device only.
LEMMA OneSlot ==
  ASSUME Calm, TInv, KInv, NEW h \in Slots, NEW r, NEW v, NEW s, NEW k,
         req' = [req EXCEPT ![h] = r], dev' = [dev EXCEPT ![h[1]] = v],
         state' = [state EXCEPT ![h[1]] = s], known' = [known EXCEPT ![h[1]] = k],
         There \subseteq There', feed' = feed \/ (\E c : feed' = Append(feed, c)),
         \A i \in Items : row'[i].at # "nowhere" => row'[i].rev # 0,
         SlotOK(r, v, s, k, There'), Once(r, feed')
  PROVE  KInv'
<1>1. \A g, e \in Slots : g[1] = e[1] => g = e
  BY DEF Calm, OneAtATime, Slots
<1>2. h[1] \in Devices
  BY DEF Slots
<1>4. ASSUME NEW g \in Slots
      PROVE  SlotOK(req[g], dev[g[1]], state[g[1]], known[g[1]], There)' /\ Once(req[g], feed)'
  <2>1. CASE g = h
    <3>1. req'[g] = r /\ dev'[g[1]] = v /\ state'[g[1]] = s /\ known'[g[1]] = k
      BY <2>1, <1>2 DEF TInv, TypeOK
    <3> QED
      BY <3>1
  <2>2. CASE g # h
    <3>1. req'[g] = req[g] /\ dev'[g[1]] = dev[g[1]] /\ state'[g[1]] = state[g[1]]
          /\ known'[g[1]] = known[g[1]]
      BY <1>1, <1>4, <2>2 DEF TInv, TypeOK, Slots
    <3>2. SlotOK(req[g], dev[g[1]], state[g[1]], known[g[1]], There')
      BY SlotGrows DEF KInv
    <3>3. Once(req[g], feed) /\ req[g].todo \subseteq DOMAIN feed /\ feed \in Seq(Change)
      BY DEF KInv, TInv, TypeOK, Busy
    <3>4. Once(req[g], feed')
      BY <3>3, OnceGrows
    <3> QED
      BY <3>1, <3>2, <3>4
  <2> QED
    BY <2>1, <2>2
<1> QED
  BY <1>4 DEF KInv

\* ... and most of them neither a row, nor the feed, nor what is saved.
LEMMA OneRequest ==
  ASSUME Calm, TInv, KInv, NEW h \in Slots, NEW r, req' = [req EXCEPT ![h] = r],
         UNCHANGED <<row, feed, dev, state, known>>,
         SlotOK(r, dev[h[1]], state[h[1]], known[h[1]], There), Once(r, feed)
  PROVE  KInv'
<1>1. There' = There
  BY DEF There
<1>2. /\ dev' = [dev EXCEPT ![h[1]] = dev[h[1]]]
      /\ state' = [state EXCEPT ![h[1]] = state[h[1]]]
      /\ known' = [known EXCEPT ![h[1]] = known[h[1]]]
  BY DEF TInv, TypeOK
<1>3. \A i \in Items : row'[i].at # "nowhere" => row'[i].rev # 0
  BY DEF KInv
<1> QED
  BY <1>1, <1>2, <1>3, OneSlot

\* Writers and the growing feed leave the slots alone.
LEMMA SlotsStay ==
  ASSUME KInv, TInv, UNCHANGED <<req, dev, state, known>>, There \subseteq There',
         feed' = feed \/ (\E c : feed' = Append(feed, c)),
         \A i \in Items : row'[i].at # "nowhere" => row'[i].rev # 0
  PROVE  KInv'
<1>1. ASSUME NEW g \in Slots PROVE SlotOK(req[g], dev[g[1]], state[g[1]], known[g[1]], There)'
  <2>1. SlotOK(req[g], dev[g[1]], state[g[1]], known[g[1]], There')
    BY SlotGrows DEF KInv
  <2> QED
    BY <2>1
<1>2. ASSUME NEW g \in Slots PROVE Once(req[g], feed)'
  <2>1. Once(req[g], feed) /\ req[g].todo \subseteq DOMAIN feed /\ feed \in Seq(Change)
    BY DEF KInv, TInv, TypeOK, Busy
  <2>2. Once(req[g], feed')
    BY <2>1, OnceGrows
  <2> QED
    BY <2>2
<1> QED
  BY <1>1, <1>2 DEF KInv

\* Steps of the writers.
LEMMA WritersKeep ==
  ASSUME KInv, TInv,
         \/ \E i \in Items : Deliver(i) \/ Edit(i) \/ Rewrite(i) \/ Remove(i) \/ MoveAway(i) \/ MoveBack(i)
         \/ \E c \in due : Record(c)
         \/ Prune
         \/ UNCHANGED vars
  PROVE  KInv'
<1>1. row \in [Items -> Row] /\ fresh \in Nat /\ (\A i \in Items : row[i].at # "nowhere" => row[i].rev # 0)
  BY DEF TInv, TypeOK, KInv
<1>2. ASSUME NEW i \in Items, Deliver(i) \/ Edit(i) \/ Rewrite(i) \/ Remove(i) \/ MoveAway(i) \/ MoveBack(i)
      PROVE  KInv'
  <2>1. UNCHANGED <<req, dev, state, known, feed>>
    BY <1>2 DEF Deliver, Edit, Rewrite, Remove, MoveAway, MoveBack
  <2>2. /\ row' = [row EXCEPT ![i] = row'[i]]
        /\ row'[i].at # "nowhere" /\ row'[i].rev # 0
    <3>1. CASE Deliver(i) \/ Rewrite(i)
      <4>1. row' = [row EXCEPT ![i] = [at |-> "here", deleted |-> FALSE, rev |-> fresh']]
            /\ fresh' = fresh + 1
        BY <3>1 DEF Deliver, Rewrite
      <4> QED
        BY <4>1, <1>1
    <3>2. CASE Edit(i)
      <4>1. row' = [row EXCEPT ![i] = [row[i] EXCEPT !.rev = fresh']] /\ fresh' = fresh + 1
            /\ row[i].at = "here"
        BY <3>2 DEF Edit, Live
      <4> QED
        BY <4>1, <1>1 DEF Row
    <3>3. CASE Remove(i)
      <4>1. row' = [row EXCEPT ![i] = [row[i] EXCEPT !.deleted = TRUE]] /\ row[i].at = "here"
        BY <3>3 DEF Remove, Live
      <4> QED
        BY <4>1, <1>1 DEF Row
    <3>4. CASE MoveAway(i)
      <4>1. row' = [row EXCEPT ![i] = [row[i] EXCEPT !.at = "away"]] /\ row[i].at = "here"
        BY <3>4 DEF MoveAway
      <4> QED
        BY <4>1, <1>1 DEF Row
    <3>5. CASE MoveBack(i)
      <4>1. row' = [row EXCEPT ![i] = [row[i] EXCEPT !.at = "here"]] /\ row[i].at = "away"
        BY <3>5 DEF MoveBack
      <4> QED
        BY <4>1, <1>1 DEF Row
    <3> QED
      BY <1>2, <3>1, <3>2, <3>3, <3>4, <3>5
  <2>3. There \subseteq There' /\ (\A j \in Items : row'[j].at # "nowhere" => row'[j].rev # 0)
    BY <1>1, <2>2 DEF There
  <2> QED
    BY <2>1, <2>3, SlotsStay
<1>3. ASSUME NEW c \in due, Record(c) PROVE KInv'
  <2>1. UNCHANGED <<req, dev, state, known, row>> /\ feed' = Append(feed, c)
    BY <1>3 DEF Record, AddChange
  <2>2. There \subseteq There'
    BY <2>1 DEF There
  <2> QED
    BY <1>1, <2>1, <2>2, SlotsStay
<1>4. CASE Prune \/ UNCHANGED vars
  <2>1. UNCHANGED <<req, dev, state, known, row, feed>>
    BY <1>4 DEF Prune, vars
  <2>2. There \subseteq There'
    BY <2>1 DEF There
  <2> QED
    BY <1>1, <2>1, <2>2, SlotsStay
<1> QED
  BY <1>2, <1>3, <1>4

\* What is known of a slot, for one device.
LEMMA SlotFacts ==
  ASSUME Calm, TInv, Follows, KInv, NEW h \in Slots
  PROVE  /\ h[1] \in Devices /\ req[h] \in Handler /\ dev[h[1]] \in Device
         /\ state[h[1]] \in SyncState /\ known[h[1]] \subseteq Items
         /\ SlotOK(req[h], dev[h[1]], state[h[1]], known[h[1]], There)
         /\ Once(req[h], feed)
         /\ req[h].pc \in Reading \cup Writing => req[h].st = state[h[1]]
BY DEF Slots, TInv, TypeOK, KInv, Follows, Reading, Writing

\* A device asks.
LEMMA SendKeeps ==
  ASSUME Calm, TInv, Follows, KInv, NEW d \in Devices, NEW t \in Tries, NEW op \in Ops,
         NEW i \in Items \cup {NoItem}, NEW m \in BOOLEAN, SendSync(d, t, op, i, m)
  PROVE  KInv'
<1> DEFINE h == <<d, t>>
           b == IF i \in Items THEN dev[d].copy[i] ELSE 0
           r == [Idle EXCEPT !.pc = "start", !.live = TRUE, !.key = dev[d].key, !.op = op,
                             !.item = i, !.moves = m, !.base = b]
           v == dev[d]
           s == state[d]
           k == known[d]
<1>1. h \in Slots /\ h[1] = d
  BY DEF Slots
<1>2. /\ v \in Device /\ s \in SyncState /\ k \subseteq Items
      /\ SlotOK(req[h], v, s, k, There)
  BY <1>1, SlotFacts
<1>3. /\ req[h].pc = "idle" /\ ((i = NoItem) <=> (op \in {"none", "Add"}))
      /\ i \in Items => v.copy[i] # 0
      /\ op # "none" => v.key # 0
      /\ req' = [req EXCEPT ![h] = r]
      /\ UNCHANGED <<row, feed, dev, state, known>>
  BY DEF SendSync, TInv, TypeOK, Device
<1>r. /\ r.pc = "start" /\ r.key = v.key /\ r.op = op /\ r.item = i /\ r.ack = "none"
      /\ r.out = Silent /\ r.todo = {} /\ r.status = 0
  BY DEF Idle
<1>4. \A j \in Items : Silent[j].name = "none"
  BY DEF Silent, NoCommand
<1>n. NoItem \notin Items
  BY EasSyncAssumption
<1> HIDE DEF h, v, s, k, r
<1>5. Asked(r, v)
  BY <1>n, <1>r, <1>2, <1>3 DEF Asked, SlotOK, Ops
<1>6. Keyed(r, v, s)
  BY <1>r DEF Keyed, Reading, Writing
<1>7. Solid(r, v, There)
  BY <1>2, <1>3, <1>4, <1>n, <1>r DEF Solid, SlotOK
<1>8. Agrees(r, v, s, k)
  BY <1>2, <1>3, <1>r DEF Agrees, SlotOK, Reading, Writing, Answering
<1>9. Once(r, feed)
  BY <1>r DEF Once
<1> QED
  BY <1>1, <1>3, <1>5, <1>6, <1>7, <1>8, <1>9, OneRequest DEF SlotOK, v, s, k

\* The key check and the initial sync.
LEMMA CheckKeeps ==
  ASSUME Calm, TInv, Follows, KInv, NEW h \in Slots,
         Restart(h) \/ ForgetAllItems(h) \/ Begin(h) \/ Continue(h) \/ Refuse(h)
  PROVE  KInv'
<1> DEFINE d == h[1]
           r == req[h]
           v == dev[d]
           s == state[d]
           k == known[d]
<1>1. /\ d \in Devices /\ r \in Handler /\ v \in Device /\ s \in SyncState /\ k \subseteq Items
      /\ SlotOK(r, v, s, k, There) /\ Once(r, feed)
  BY SlotFacts
<1>2. UNCHANGED <<row, feed, dev>>
  BY DEF Restart, ForgetAllItems, Begin, Continue, Refuse
<1>3. ASSUME NEW r2, NEW s2, NEW k2, req' = [req EXCEPT ![h] = r2],
             state' = [state EXCEPT ![d] = s2], known' = [known EXCEPT ![d] = k2],
             SlotOK(r2, v, s2, k2, There), Once(r2, feed)
      PROVE  KInv'
  <2>1. There' = There /\ dev' = [dev EXCEPT ![h[1]] = v]
    BY <1>2 DEF There, TInv, TypeOK
  <2>2. \A i \in Items : row'[i].at # "nowhere" => row'[i].rev # 0
    BY <1>2 DEF KInv
  <2> QED
    BY <1>2, <1>3, <2>1, <2>2, OneSlot
<1>4. state = [state EXCEPT ![d] = s] /\ known = [known EXCEPT ![d] = k]
  BY DEF TInv, TypeOK
<1>5. Proceed(r.op) \in Reading /\ Proceed(r.op) \in {"load", "known"}
  BY DEF Proceed, Reading
<1>6. NewDevice \in Device /\ Held(NewDevice) = {}
  BY ConstantTypes DEF Held, NewDevice
<1> HIDE DEF d, r, v, s, k
<1>7. CASE Restart(h)
  <2> DEFINE r2 == [r EXCEPT !.pc = "forget"]
  <2>1. r.pc = "start" /\ r.key = 0 /\ req' = [req EXCEPT ![h] = r2]
        /\ state' = [state EXCEPT ![d] = NoState] /\ known' = [known EXCEPT ![d] = k]
    BY <1>4, <1>7 DEF Restart, d, r
  <2>2. Asked(r2, v) /\ Solid(r2, v, There) /\ Once(r2, feed)
    BY <1>1, <2>1 DEF Asked, Solid, SlotOK, Once, Handler
  <2>3. Keyed(r2, v, NoState) /\ Agrees(r2, v, NoState, k)
    BY <1>1, <2>1 DEF Keyed, Agrees, Reading, Writing, Answering, Handler
  <2> HIDE DEF r2
  <2> QED
    BY <1>3, <2>1, <2>2, <2>3 DEF SlotOK
<1>8. CASE ForgetAllItems(h)
  <2> DEFINE r2 == [r EXCEPT !.pc = "begin"]
  <2>1. r.pc = "forget" /\ req' = [req EXCEPT ![h] = r2]
        /\ state' = [state EXCEPT ![d] = s] /\ known' = [known EXCEPT ![d] = {}]
    BY <1>4, <1>8 DEF ForgetAllItems, d, r
  <2>2. Asked(r2, v) /\ Solid(r2, v, There) /\ Once(r2, feed)
    BY <1>1, <2>1 DEF Asked, Solid, SlotOK, Once, Handler
  <2>3. Keyed(r2, v, s) /\ Agrees(r2, v, s, {})
    BY <1>1, <2>1 DEF Keyed, Agrees, Reading, Writing, Answering, Handler
  <2> HIDE DEF r2
  <2> QED
    BY <1>3, <2>1, <2>2, <2>3 DEF SlotOK
<1>9. CASE Begin(h)
  <2> DEFINE s2 == [key |-> 1, seq |-> 0]
             r2 == [r EXCEPT !.pc = Proceed(r.op), !.st = s2]
  <2>1. r.pc = "begin" /\ req' = [req EXCEPT ![h] = r2]
        /\ state' = [state EXCEPT ![d] = s2] /\ known' = [known EXCEPT ![d] = k]
    BY <1>4, <1>9 DEF Begin, d, r
  <2>2. Asked(r2, v) /\ Solid(r2, v, There) /\ Once(r2, feed)
    BY <1>1, <1>5, <2>1 DEF Asked, Solid, SlotOK, Once, Handler
  <2>3. v = NewDevice /\ r.key = 0 /\ k = {}
    BY <1>1, <2>1 DEF SlotOK, Asked, Agrees
  <2>4. Keyed(r2, v, s2) /\ Agrees(r2, v, s2, k)
    BY <1>1, <1>5, <1>6, <2>1, <2>3 DEF Keyed, Agrees, Reading, Writing, Answering, Handler
  <2> HIDE DEF r2, s2
  <2> QED
    BY <1>3, <2>1, <2>2, <2>4 DEF SlotOK
<1>10. CASE Continue(h)
  <2> DEFINE r2 == [r EXCEPT !.pc = Proceed(r.op), !.st = s]
  <2>1. r.pc = "start" /\ r.key # 0 /\ s.key = r.key /\ req' = [req EXCEPT ![h] = r2]
        /\ state' = [state EXCEPT ![d] = s] /\ known' = [known EXCEPT ![d] = k]
    BY <1>4, <1>10 DEF Continue, d, r, s
  <2>2. Asked(r2, v) /\ Solid(r2, v, There) /\ Once(r2, feed)
    BY <1>1, <1>5, <2>1 DEF Asked, Solid, SlotOK, Once, Handler
  <2>3. r.key = v.key /\ k = Held(v)
    BY <1>1, <2>1 DEF SlotOK, Asked, Agrees
  <2>4. Keyed(r2, v, s) /\ Agrees(r2, v, s, k)
    BY <1>1, <1>5, <2>1, <2>3 DEF Keyed, Agrees, Reading, Writing, Answering, Handler
  <2> HIDE DEF r2
  <2> QED
    BY <1>3, <2>1, <2>2, <2>4 DEF SlotOK
<1>11. CASE Refuse(h)
  <2> DEFINE r2 == [r EXCEPT !.pc = "reply", !.status = 3]
  <2>1. r.pc = "start" /\ r.key # 0 /\ s.key # r.key /\ req' = [req EXCEPT ![h] = r2]
        /\ state' = [state EXCEPT ![d] = s] /\ known' = [known EXCEPT ![d] = k]
    BY <1>4, <1>11 DEF Refuse, d, r, s
  <2>2. Asked(r2, v) /\ Solid(r2, v, There) /\ Once(r2, feed)
    BY <1>1, <2>1 DEF Asked, Solid, SlotOK, Once, Handler
  <2>3. r.key = v.key
    BY <1>1, <2>1 DEF SlotOK, Asked
  <2>4. Keyed(r2, v, s) /\ Agrees(r2, v, s, k)
    BY <1>1, <2>1, <2>3 DEF Keyed, Agrees, Reading, Writing, Answering, Handler
  <2> HIDE DEF r2
  <2> QED
    BY <1>3, <2>1, <2>2, <2>4 DEF SlotOK
<1> QED
  BY <1>7, <1>8, <1>9, <1>10, <1>11

\* applyClientCommands.
LEMMA CommandKeeps ==
  ASSUME Calm, TInv, Follows, KInv, NEW h \in Slots,
         \/ Load(h) \/ LoadFetch(h) \/ WriteAdd(h) \/ WriteAddFails(h)
         \/ WriteChange(h) \/ WriteDelete(h) \/ Log(h)
  PROVE  KInv'
<1> DEFINE d == h[1]
           r == req[h]
           v == dev[d]
           s == state[d]
           k == known[d]
<1>1. /\ d \in Devices /\ r \in Handler /\ v \in Device /\ s \in SyncState /\ k \subseteq Items
      /\ SlotOK(r, v, s, k, There) /\ Once(r, feed)
      /\ r.op \in {"Change", "Delete", "Fetch"} => r.item \in Items
      /\ r.op \in Ops
      /\ r.pc \in {"load", "write", "log"} => r.op # "none"
      /\ r.pc = "log" => r.item \in Items
      /\ r.todo \subseteq DOMAIN feed
  BY SlotFacts DEF TInv, Busy, Handler
<1>2. UNCHANGED <<dev, state, known>>
  BY DEF Load, LoadFetch, WriteAdd, WriteAddFails, WriteChange, WriteDelete, Log
<1>r. row \in [Items -> Row] /\ fresh \in Nat /\ feed \in Seq(Change)
      /\ (\A i \in Items : row[i].at # "nowhere" => row[i].rev # 0)
  BY DEF TInv, TypeOK, KInv
<1>3. ASSUME NEW r2, req' = [req EXCEPT ![h] = r2], UNCHANGED <<row, feed>>,
             SlotOK(r2, v, s, k, There), Once(r2, feed)
      PROVE  KInv'
  BY <1>2, <1>3, OneRequest
<1>4. ASSUME NEW r2, req' = [req EXCEPT ![h] = r2], UNCHANGED feed, There \subseteq There',
             \A i \in Items : row'[i].at # "nowhere" => row'[i].rev # 0,
             SlotOK(r2, v, s, k, There'), Once(r2, feed)
      PROVE  KInv'
  <2>1. /\ dev' = [dev EXCEPT ![h[1]] = v]
        /\ state' = [state EXCEPT ![h[1]] = s]
        /\ known' = [known EXCEPT ![h[1]] = k]
    BY <1>2 DEF TInv, TypeOK
  <2>2. Once(r2, feed')
    BY <1>4
  <2> QED
    BY <1>4, <2>1, <2>2, OneSlot
<1> HIDE DEF d, r, v, s, k
<1>5. CASE Load(h)
  <2>1. r.pc = "load" /\ r.op # "Fetch" /\ UNCHANGED <<row, feed>>
    BY <1>5 DEF Load, r
  <2>2. CASE r.op = "Add"
    <3> DEFINE r2 == [r EXCEPT !.pc = "write"]
    <3>1. req' = [req EXCEPT ![h] = r2]
      BY <1>5, <2>2 DEF Load, r
    <3>2. Asked(r2, v) /\ Solid(r2, v, There) /\ Once(r2, feed)
      BY <1>1, <2>1, <2>2 DEF Asked, Solid, SlotOK, Once, Handler
    <3>3. Keyed(r2, v, s) /\ Agrees(r2, v, s, k)
      BY <1>1, <2>1 DEF SlotOK, Keyed, Agrees, Reading, Writing, Answering, Handler
    <3> HIDE DEF r2
    <3> QED
      BY <1>3, <2>1, <3>1, <3>2, <3>3 DEF SlotOK
  <2>3. CASE r.op # "Add" /\ row[r.item].at = "here"
    <3> DEFINE r2 == [r EXCEPT !.pc = "write", !.snap = row[r.item]]
    <3>1. req' = [req EXCEPT ![h] = r2]
      BY <1>5, <2>3 DEF Load, r
    <3>2. r.item \in Items /\ row[r.item].rev # 0
      BY <1>1, <1>r, <2>1, <2>3 DEF Ops
    <3>3. Asked(r2, v) /\ Solid(r2, v, There) /\ Once(r2, feed)
      BY <1>1, <2>1, <2>3, <3>2 DEF Asked, Solid, SlotOK, Once, Handler
    <3>4. Keyed(r2, v, s) /\ Agrees(r2, v, s, k)
      BY <1>1, <2>1 DEF SlotOK, Keyed, Agrees, Reading, Writing, Answering, Handler
    <3> HIDE DEF r2
    <3> QED
      BY <1>3, <2>1, <3>1, <3>3, <3>4 DEF SlotOK
  <2>4. CASE r.op # "Add" /\ row[r.item].at # "here"
    <3> DEFINE r2 == [r EXCEPT !.pc = "known", !.ack = "gone"]
    <3>1. req' = [req EXCEPT ![h] = r2]
      BY <1>5, <2>4 DEF Load, r
    <3>2. Asked(r2, v) /\ Solid(r2, v, There) /\ Once(r2, feed)
      BY <1>1, <2>1, <2>4 DEF Asked, Solid, SlotOK, Once, Handler
    <3>3. Keyed(r2, v, s) /\ Agrees(r2, v, s, k)
      BY <1>1, <2>1 DEF SlotOK, Keyed, Agrees, Reading, Writing, Answering, Handler
    <3> HIDE DEF r2
    <3> QED
      BY <1>3, <2>1, <3>1, <3>2, <3>3 DEF SlotOK
  <2> QED
    BY <2>2, <2>3, <2>4
<1>6. CASE LoadFetch(h)
  <2> DEFINE a == IF Live(r.item) THEN "ok" ELSE "gone"
             r2 == [r EXCEPT !.pc = "known", !.snap = row[r.item], !.ack = a]
  <2>1. r.pc = "load" /\ r.op = "Fetch" /\ UNCHANGED <<row, feed>> /\ req' = [req EXCEPT ![h] = r2]
    BY <1>6 DEF LoadFetch, r
  <2>2. r.item \in Items /\ (a = "ok" => row[r.item].rev # 0) /\ a \in {"ok", "gone"}
    BY <1>1, <1>r, <2>1 DEF Live
  <2> HIDE DEF a
  <2>3. Asked(r2, v) /\ Solid(r2, v, There) /\ Once(r2, feed)
    BY <1>1, <2>1, <2>2 DEF Asked, Solid, SlotOK, Once, Handler
  <2>4. Keyed(r2, v, s) /\ Agrees(r2, v, s, k)
    BY <1>1, <2>1 DEF SlotOK, Keyed, Agrees, Reading, Writing, Answering, Handler
  <2> HIDE DEF r2
  <2> QED
    BY <1>3, <2>1, <2>3, <2>4 DEF SlotOK
<1>7. CASE WriteAdd(h)
  <2>1. PICK i \in Items :
          /\ row[i].at = "nowhere"
          /\ fresh' = fresh + 1
          /\ row' = [row EXCEPT ![i] = [at |-> "here", deleted |-> FALSE, rev |-> fresh']]
          /\ req' = [req EXCEPT ![h].pc = "log", ![h].item = i, ![h].rev = fresh']
    BY <1>7, Zenon DEF WriteAdd
  <2> DEFINE r2 == [r EXCEPT !.pc = "log", !.item = i, !.rev = fresh']
  <2>2. r.pc = "write" /\ r.op = "Add" /\ UNCHANGED feed /\ req' = [req EXCEPT ![h] = r2]
    BY <1>7, <2>1 DEF WriteAdd, r
  <2>3. /\ There \subseteq There' /\ i \in There' /\ i \notin There /\ fresh' # 0
        /\ \A j \in Items : row'[j].at # "nowhere" => row'[j].rev # 0
    BY <1>r, <2>1 DEF There
  <2>4. Asked(r2, v) /\ Solid(r2, v, There') /\ Once(r2, feed)
    BY <1>1, <2>2, <2>3 DEF Asked, Solid, SlotOK, Once, Handler
  <2>5. Keyed(r2, v, s) /\ Agrees(r2, v, s, k)
    BY <1>1, <2>2 DEF SlotOK, Keyed, Agrees, Reading, Writing, Answering, Handler
  <2> HIDE DEF r2
  <2> QED
    BY <1>4, <2>2, <2>3, <2>4, <2>5 DEF SlotOK
<1>8. CASE WriteAddFails(h)
  <2> DEFINE r2 == [r EXCEPT !.pc = "known", !.ack = "err"]
  <2>1. r.pc = "write" /\ r.op = "Add" /\ UNCHANGED <<row, feed>> /\ req' = [req EXCEPT ![h] = r2]
    BY <1>8 DEF WriteAddFails, r
  <2>2. Asked(r2, v) /\ Solid(r2, v, There) /\ Once(r2, feed)
    BY <1>1, <2>1 DEF Asked, Solid, SlotOK, Once, Handler
  <2>3. Keyed(r2, v, s) /\ Agrees(r2, v, s, k)
    BY <1>1, <2>1 DEF SlotOK, Keyed, Agrees, Reading, Writing, Answering, Handler
  <2> HIDE DEF r2
  <2> QED
    BY <1>3, <2>1, <2>2, <2>3 DEF SlotOK
<1>9. CASE WriteChange(h)
  <2> DEFINE del == IF Class = "Email" THEN r.snap.deleted ELSE FALSE
             r2 == [r EXCEPT !.pc = "log", !.rev = fresh']
  <2>1. /\ r.pc = "write" /\ r.op = "Change" /\ UNCHANGED feed /\ req' = [req EXCEPT ![h] = r2]
        /\ fresh' = fresh + 1
        /\ row' = [row EXCEPT ![r.item] = [at |-> "here", deleted |-> del, rev |-> fresh']]
    BY <1>9 DEF WriteChange, r
  <2> HIDE DEF del
  <2>2. /\ There \subseteq There' /\ fresh' # 0
        /\ \A j \in Items : row'[j].at # "nowhere" => row'[j].rev # 0
    BY <1>1, <1>r, <2>1 DEF There
  <2>3. Asked(r2, v) /\ Solid(r2, v, There') /\ Once(r2, feed)
    BY <1>1, <2>1, <2>2 DEF Asked, Solid, SlotOK, Once, Handler
  <2>4. Keyed(r2, v, s) /\ Agrees(r2, v, s, k)
    BY <1>1, <2>1 DEF SlotOK, Keyed, Agrees, Reading, Writing, Answering, Handler
  <2> HIDE DEF r2
  <2> QED
    BY <1>4, <2>1, <2>2, <2>3, <2>4 DEF SlotOK
<1>10. CASE WriteDelete(h)
  <2> DEFINE new == IF Class # "Email" THEN [r.snap EXCEPT !.deleted = TRUE]
                    ELSE IF r.moves THEN [row[r.item] EXCEPT !.at = "away"]
                    ELSE [row[r.item] EXCEPT !.deleted = TRUE]
             r2 == [r EXCEPT !.pc = "log"]
  <2>1. /\ r.pc = "write" /\ r.op = "Delete" /\ UNCHANGED feed /\ req' = [req EXCEPT ![h] = r2]
        /\ row' = [row EXCEPT ![r.item] = new]
    BY <1>10 DEF WriteDelete, r
  <2>2. r.item \in Items /\ v.copy[r.item] # 0 /\ r.item \in There
    BY <1>1, <2>1 DEF SlotOK, Asked, Solid
  <2>3. r.snap.at # "nowhere" /\ r.snap.rev # 0 /\ r.snap \in Row
    BY <1>1, <2>1 DEF SlotOK, Solid, Handler
  <2>4. new.at # "nowhere" /\ new.rev # 0
    BY <1>r, <2>2, <2>3 DEF Row, There
  <2> HIDE DEF new
  <2>5. /\ There \subseteq There'
        /\ \A j \in Items : row'[j].at # "nowhere" => row'[j].rev # 0
    BY <1>r, <2>1, <2>4 DEF There
  <2>6. Asked(r2, v) /\ Solid(r2, v, There') /\ Once(r2, feed)
    BY <1>1, <2>1, <2>5 DEF Asked, Solid, SlotOK, Once, Handler
  <2>7. Keyed(r2, v, s) /\ Agrees(r2, v, s, k)
    BY <1>1, <2>1 DEF SlotOK, Keyed, Agrees, Reading, Writing, Answering, Handler
  <2> HIDE DEF r2
  <2> QED
    BY <1>4, <2>1, <2>5, <2>6, <2>7 DEF SlotOK
<1>11. CASE Log(h)
  <2> DEFINE c == [item |-> r.item, kind |-> KindOf(r.op), by |-> d]
             r2 == [r EXCEPT !.pc = "known", !.ack = "ok", !.skip = {Len(feed')}]
  <2>1. /\ r.pc = "log" /\ r.op # "none" /\ UNCHANGED row /\ req' = [req EXCEPT ![h] = r2]
        /\ feed' = Append(feed, c)
    BY <1>1, <1>11 DEF Log, AddChange, r, d
  <2>2. There' = There /\ (\A j \in Items : row'[j].at # "nowhere" => row'[j].rev # 0)
    BY <1>r, <2>1 DEF There
  <2>3. Asked(r2, v) /\ Solid(r2, v, There)
    BY <1>1, <2>1 DEF Asked, Solid, SlotOK, Handler
  <2>4. Keyed(r2, v, s) /\ Agrees(r2, v, s, k)
    BY <1>1, <2>1 DEF SlotOK, Keyed, Agrees, Reading, Writing, Answering, Handler
  <2>5. Once(r2, feed)
    BY <1>1 DEF Once, Handler
  <2>6. r2.todo \subseteq DOMAIN feed
    BY <1>1 DEF Handler
  <2> HIDE DEF r2, c
  <2>7. Once(r2, feed')
    BY <1>r, <2>1, <2>5, <2>6, OnceGrows
  <2>8. /\ dev' = [dev EXCEPT ![h[1]] = v]
        /\ state' = [state EXCEPT ![h[1]] = s]
        /\ known' = [known EXCEPT ![h[1]] = k]
    BY <1>2 DEF TInv, TypeOK, d, v, s, k
  <2> QED
    BY <2>1, <2>2, <2>3, <2>4, <2>7, <2>8, OneSlot DEF SlotOK
<1> QED
  BY <1>5, <1>6, <1>7, <1>8, <1>9, <1>10, <1>11

\* The command for an item that is there is about its content; an item the server has no
\* record of the device having is never changed or deleted.
LEMMA CommandFacts ==
  ASSUME TInv, KInv, NEW r, NEW i \in Items, NEW kind, NEW c, c = ItemCommand(r, i, kind)
  PROVE  /\ c \in Command
         /\ c.name \in {"Add", "Change"} => c.rev # 0 /\ i \in There
         /\ c.name = "Change" => i \in r.kn
<1>1. c \in Command
  BY ItemCommandType
<1>2. Live(i) => row[i].rev # 0 /\ i \in There
  BY DEF Live, KInv, There
<1> QED
  BY <1>1, <1>2 DEF ItemCommand, NoCommand

\* serverChanges, and the save.
LEMMA AnswerKeeps ==
  ASSUME Calm, TInv, Follows, KInv, NEW h \in Slots,
         KnownItems(h) \/ Fetch(h) \/ Emit(h) \/ More(h) \/ Save(h)
  PROVE  KInv'
<1> DEFINE d == h[1]
           r == req[h]
           v == dev[d]
           s == state[d]
           k == known[d]
<1>1. /\ d \in Devices /\ r \in Handler /\ v \in Device /\ s \in SyncState /\ k \subseteq Items
      /\ SlotOK(r, v, s, k, There) /\ Once(r, feed)
      /\ r.pc \in Reading \cup Writing => r.st = s
      /\ r.todo \subseteq DOMAIN feed
      /\ feed \in Seq(Change)
  BY SlotFacts DEF TInv, Busy, TypeOK
<1>2. UNCHANGED <<row, feed, dev>>
  BY DEF KnownItems, Fetch, Emit, More, Save
<1>3. ASSUME NEW r2, NEW s2, NEW k2, req' = [req EXCEPT ![h] = r2],
             state' = [state EXCEPT ![d] = s2], known' = [known EXCEPT ![d] = k2],
             SlotOK(r2, v, s2, k2, There), Once(r2, feed)
      PROVE  KInv'
  <2>1. There' = There /\ dev' = [dev EXCEPT ![h[1]] = v]
    BY <1>2 DEF There, TInv, TypeOK
  <2>2. \A i \in Items : row'[i].at # "nowhere" => row'[i].rev # 0
    BY <1>2 DEF KInv
  <2> QED
    BY <1>2, <1>3, <2>1, <2>2, OneSlot
<1>4. state = [state EXCEPT ![d] = s] /\ known = [known EXCEPT ![d] = k]
  BY DEF TInv, TypeOK
<1>f. \A u \in DOMAIN feed : feed[u].item \in Items
  <2>1. \A u \in DOMAIN feed : feed[u] \in Change
    BY <1>1
  <2> QED
    BY <2>1 DEF Change
<1>5. \A j \in Items : Silent[j] = NoCommand /\ Silent[j].name = "none"
  BY DEF Silent, NoCommand
<1> HIDE DEF d, r, v, s, k
<1>6. CASE KnownItems(h)
  <2> DEFINE r2 == [r EXCEPT !.pc = "fetch", !.kn = k]
  <2>1. r.pc = "known" /\ req' = [req EXCEPT ![h] = r2]
        /\ state' = [state EXCEPT ![d] = s] /\ known' = [known EXCEPT ![d] = k]
    BY <1>4, <1>6 DEF KnownItems, d, r, k
  <2>2. Asked(r2, v) /\ Solid(r2, v, There) /\ Once(r2, feed)
    BY <1>1, <2>1 DEF Asked, Solid, SlotOK, Once, Handler
  <2>3. Keyed(r2, v, s) /\ Agrees(r2, v, s, k)
    BY <1>1, <2>1 DEF SlotOK, Keyed, Agrees, Reading, Writing, Answering, Handler
  <2> HIDE DEF r2
  <2> QED
    BY <1>3, <2>1, <2>2, <2>3 DEF SlotOK
<1>7. CASE Fetch(h)
  <2> DEFINE taken == Taken(Batch(r.st, r.skip), r.skip)
             first == Firsts(taken, r.skip)
  <2>1. taken \subseteq DOMAIN feed /\ first \subseteq taken
    BY FetchRange DEF Firsts
  <2>2. \A u \in taken : u > r.st.seq
    BY DEF Taken, Batch, After
  <2>3. \A u, w \in first : feed[u].item = feed[w].item => u = w
    BY <1>1, <2>1 DEF Firsts
  <2> HIDE DEF taken, first
  <2>4. PICK last \in taken \cup {r.st.seq} :
          /\ \A u \in taken : u <= last
          /\ req' = [req EXCEPT ![h].pc = "emit", ![h].todo = first, ![h].last = last]
    BY <1>7, Zenon DEF Fetch, taken, first, r
  <2> DEFINE r2 == [r EXCEPT !.pc = "emit", !.todo = first, !.last = last]
  <2>5. r.pc = "fetch" /\ req' = [req EXCEPT ![h] = r2]
        /\ state' = [state EXCEPT ![d] = s] /\ known' = [known EXCEPT ![d] = k]
    BY <1>4, <1>7, <2>4 DEF Fetch, d, r, k
  <2>6. last = r.st.seq => first = {}
    <3> SUFFICES ASSUME last = r.st.seq, NEW u \in first PROVE FALSE
      OBVIOUS
    <3>1. u \in Nat /\ r.st.seq \in Nat /\ u \in taken
      BY <1>1, <2>1 DEF Handler, SyncState
    <3> QED
      BY <2>2, <2>4, <3>1
  <2>7. r.out = Silent
    BY <1>1, <2>5 DEF SlotOK, Asked
  <2>8. Once(r2, feed)
    <3>1. \A u \in first : feed[u].item \in Items
      BY <1>f, <2>1
    <3> QED
      BY <1>1, <1>5, <2>3, <2>7, <3>1 DEF Once, Handler
  <2>9. Asked(r2, v) /\ Solid(r2, v, There)
    BY <1>1, <2>5 DEF Asked, Solid, SlotOK, Handler
  <2>10. Keyed(r2, v, s)
    BY <1>1, <2>5, <2>6, <2>7 DEF SlotOK, Keyed, Reading, Writing, Handler
  <2>11. Agrees(r2, v, s, k)
    BY <1>1, <1>5, <2>5, <2>7 DEF SlotOK, Agrees, Reading, Writing, Answering, Handler
  <2> HIDE DEF r2
  <2> QED
    BY <1>3, <2>5, <2>8, <2>9, <2>10, <2>11 DEF SlotOK
<1>8. CASE Emit(h)
  <2>1. PICK p \in r.todo : \E t \in SameItem(r, p) :
          /\ Turn(r, p, t)
          /\ known' = [known EXCEPT ![h[1]] =
                         Remember(@, feed[p].item, ItemCommand(r, feed[p].item, feed[t].kind).name)]
          /\ req' = [req EXCEPT ![h].todo = @ \ {p},
                                ![h].out[feed[p].item] = ItemCommand(r, feed[p].item, feed[t].kind)]
    BY <1>8, Zenon DEF Emit, r
  <2>2. PICK t \in SameItem(r, p) :
          /\ Turn(r, p, t)
          /\ known' = [known EXCEPT ![h[1]] =
                         Remember(@, feed[p].item, ItemCommand(r, feed[p].item, feed[t].kind).name)]
          /\ req' = [req EXCEPT ![h].todo = @ \ {p},
                                ![h].out[feed[p].item] = ItemCommand(r, feed[p].item, feed[t].kind)]
    BY <2>1
  <2> DEFINE i == feed[p].item
             c == ItemCommand(r, i, feed[t].kind)
             out2 == [r.out EXCEPT ![i] = c]
             r2 == [r EXCEPT !.todo = @ \ {p}, !.out = out2]
             k2 == Remember(k, i, c.name)
  <2>3. i \in Items /\ p \in r.todo
    BY <1>1, <1>f, <2>1
  <2>4. /\ c \in Command
        /\ c.name \in {"Add", "Change"} => c.rev # 0 /\ i \in There
        /\ c.name = "Change" => i \in r.kn
    BY <2>3, CommandFacts
  <2>5. r.pc = "emit" /\ req' = [req EXCEPT ![h] = r2]
        /\ state' = [state EXCEPT ![d] = s] /\ known' = [known EXCEPT ![d] = k2]
    <3>1. r.pc = "emit" /\ state' = state
      BY <1>8 DEF Emit, r
    <3>2. req' = [req EXCEPT ![h] = r2]
      BY <2>2 DEF r
    <3>3. known' = [known EXCEPT ![d] = k2]
      BY <2>2 DEF d, k
    <3> QED
      BY <1>4, <3>1, <3>2, <3>3
  <2>6. k2 = IF c.name \in {"Add", "Change"} THEN k \cup {i}
             ELSE IF c.name = "Delete" THEN k \ {i} ELSE k
    BY DEF Remember
  <2> HIDE DEF i, c, k2
  <2>7. /\ r.out \in [Items -> Command] /\ out2 \in [Items -> Command]
        /\ out2[i] = c /\ \A j \in Items : j # i => out2[j] = r.out[j]
    BY <1>1, <2>3, <2>4 DEF Handler
  <2> HIDE DEF out2
  <2>8. r2.todo = r.todo \ {p} /\ r2.out = out2 /\ r2.pc = "emit" /\ r2.kn = r.kn
        /\ r2.last = r.last /\ r2.st = r.st /\ r2.key = r.key /\ r2.op = r.op /\ r2.item = r.item
        /\ r2.ack = r.ack /\ r2.snap = r.snap /\ r2.rev = r.rev
    BY <1>1, <2>5 DEF Handler
  <2> HIDE DEF r2
  <2>9. Once(r2, feed)
    <3> SUFFICES ASSUME NEW u \in r2.todo
                 PROVE  /\ r2.out[feed[u].item] = NoCommand
                        /\ \A w \in r2.todo : feed[w].item = feed[u].item => w = u
      BY DEF Once
    <3>1. feed[u].item # i
      BY <1>1, <2>3, <2>8 DEF Once, i
    <3>2. feed[u].item \in Items
      BY <1>1, <1>f, <2>8
    <3> QED
      BY <1>1, <2>7, <2>8, <3>1, <3>2 DEF Once
  <2>10. Asked(r2, v)
    BY <1>1, <2>5, <2>8 DEF Asked, SlotOK
  <2>11. Solid(r2, v, There)
    BY <1>1, <2>4, <2>5, <2>7, <2>8 DEF Solid, SlotOK
  <2>12. Keyed(r2, v, s)
    BY <1>1, <2>1, <2>5, <2>8 DEF SlotOK, Keyed, Reading, Writing
  <2>13. Agrees(r2, v, s, k2)
    <3>1. Answering(r) /\ Answering(r2)
      BY <2>5, <2>8 DEF Answering, Writing
    <3>2. r.out[i] = NoCommand
      BY <1>1, <2>1 DEF Once, i
    <3>3. r.out[i].name = "none"
      BY <3>2 DEF NoCommand
    <3>4. \A j \in Items :
            /\ (j \in k) <=> \/ r.out[j].name \in {"Add", "Change"}
                             \/ r.out[j].name = "none" /\ j \in r.kn
            /\ r.out[j].name = "Change" => j \in r.kn
      BY <1>1, <3>1 DEF SlotOK, Agrees
    <3>5. c.name \in {"none", "Add", "Change", "Delete"}
      BY <2>4 DEF Command
    <3>6. \A j \in Items :
            /\ (j \in k2) <=> \/ out2[j].name \in {"Add", "Change"}
                              \/ out2[j].name = "none" /\ j \in r.kn
            /\ out2[j].name = "Change" => j \in r.kn
      BY <2>3, <2>4, <2>6, <2>7, <3>3, <3>4, <3>5
    <3>7. r.kn = Held(v)
      BY <1>1, <3>1 DEF SlotOK, Agrees
    <3> QED
      BY <2>8, <3>6, <3>7 DEF Agrees, Reading
  <2> QED
    BY <1>3, <2>5, <2>9, <2>10, <2>11, <2>12, <2>13 DEF SlotOK
<1>9. CASE More(h)
  <2> DEFINE m == After(r.last) # {}
             r2 == [r EXCEPT !.pc = "save", !.more = m]
  <2>1. r.pc = "emit" /\ req' = [req EXCEPT ![h] = r2]
        /\ state' = [state EXCEPT ![d] = s] /\ known' = [known EXCEPT ![d] = k]
    BY <1>4, <1>9 DEF More, d, r, k
  <2> HIDE DEF m
  <2>2. Asked(r2, v) /\ Solid(r2, v, There) /\ Once(r2, feed)
    BY <1>1, <2>1 DEF Asked, Solid, SlotOK, Once, Handler
  <2>3. Keyed(r2, v, s) /\ Agrees(r2, v, s, k)
    BY <1>1, <2>1 DEF SlotOK, Keyed, Agrees, Reading, Writing, Answering, Handler
  <2> HIDE DEF r2
  <2> QED
    BY <1>3, <2>1, <2>2, <2>3 DEF SlotOK
<1>10. CASE Save(h)
  <2> DEFINE s2 == [key |-> NextKey(r), seq |-> r.last]
             r2 == [r EXCEPT !.pc = "reply", !.st = s2, !.status = 1]
  <2>1. r.pc = "save" /\ req' = [req EXCEPT ![h] = r2]
        /\ state' = [state EXCEPT ![d] = s2] /\ known' = [known EXCEPT ![d] = k]
    BY <1>4, <1>10 DEF Save, d, r, k
  <2>2. Asked(r2, v) /\ Solid(r2, v, There) /\ Once(r2, feed)
    BY <1>1, <2>1 DEF Asked, Solid, SlotOK, Once, Handler
  <2>3. Agrees(r2, v, s2, k)
    BY <1>1, <2>1 DEF SlotOK, Agrees, Reading, Writing, Answering, Handler
  <2>4. /\ s2.key # 0
        /\ s2.key = v.key => r.ack = "none" /\ r.out = Silent
    <3>1. r.st = s /\ s.key \in Nat /\ s.key # 0 /\ r.key = v.key /\ (r.key # 0 => s.key = r.key)
      BY <1>1, <2>1 DEF SlotOK, Asked, Keyed, Reading, Writing, SyncState
    <3>2. r.last = r.st.seq => r.out = Silent
      BY <1>1, <2>1 DEF SlotOK, Keyed, Writing
    <3> QED
      BY <3>1, <3>2 DEF NextKey
  <2>5. Keyed(r2, v, s2)
    <3> HIDE DEF s2
    <3> QED
      BY <1>1, <2>1, <2>4 DEF Keyed, Reading, Writing, Handler
  <2> HIDE DEF r2, s2
  <2> QED
    BY <1>3, <2>1, <2>2, <2>3, <2>5 DEF SlotOK
<1> QED
  BY <1>6, <1>7, <1>8, <1>9, <1>10

\* What a device makes of an answer to its request.
LEMMA UpdatedFacts ==
  ASSUME NEW r \in Handler, NEW v \in Device, NEW s \in SyncState, NEW k \in SUBSET Items, NEW there,
         SlotOK(r, v, s, k, there), r.pc = "reply", r.status = 1,
         r.op \in {"Change", "Delete", "Fetch"} => r.item \in Items
  PROVE  /\ Held(Updated(v, r)) = k
         /\ \A i \in Items : Updated(v, r).copy[i] # 0 => i \in there
         /\ Updated(v, r).key = s.key /\ s.key # 0
<1> DEFINE v2 == Updated(v, r)
<1>1. v2.key = s.key /\ s.key # 0
  BY DEF SlotOK, Keyed, Updated
<1>2. ASSUME NEW i \in Items
      PROVE  /\ (i \in Held(v2)) <=> (i \in k)
             /\ v2.copy[i] # 0 => i \in there
  <2> DEFINE a == Acknowledged(v.copy[i], r, i)
             o == r.out[i]
             del == r.item = i /\ r.op = "Delete" /\ r.ack \in {"ok", "gone"}
             add == r.item = i /\ r.op = "Add" /\ r.ack = "ok"
  <2>1. /\ v2.copy[i] = Applied(a, o)
        /\ (i \in v2.made) <=> ((i \in v.made \/ add) /\ ~del /\ o.name = "none")
        /\ (i \in v2.dropped) <=>
             ((i \in v.dropped \/ (del /\ i \notin v.made)) /\ o.name \notin {"Add", "Delete"})
    BY DEF Updated, Made, Deleted, Told
  <2>2. /\ r.op \in Ops /\ r.ack \in Acks /\ o \in Command /\ o.name \in {"none", "Add", "Change", "Delete"}
        /\ v.copy[i] \in Nat /\ v.made \subseteq Items /\ v.dropped \subseteq Items
    BY DEF Handler, Command, Device
  <2>3. /\ o.name \in {"Add", "Change"} => o.rev # 0 /\ i \in there
        /\ v.copy[i] # 0 => i \in there
        /\ r.ack = "ok" /\ r.op \in {"Add", "Change"} => r.rev # 0
        /\ r.ack = "ok" /\ r.op = "Fetch" => r.snap.rev # 0
        /\ r.op = "Add" /\ r.item = i => i \in there
    BY DEF SlotOK, Solid
  <2>4. /\ r.item = i /\ r.op \in {"Change", "Delete", "Fetch"} => v.copy[i] # 0
        /\ r.item = i /\ r.op = "Add" => v.copy[i] = 0
    BY DEF SlotOK, Asked
  <2>5. /\ (i \in k) <=> \/ o.name \in {"Add", "Change"}
                         \/ o.name = "none" /\ i \in Held(v)
        /\ o.name = "Change" => i \in Held(v)
    BY DEF SlotOK, Agrees, Answering
  <2>6. (i \in Held(v)) <=> ((v.copy[i] # 0 /\ i \notin v.made) \/ i \in v.dropped)
    BY <2>2 DEF Held
  <2>7. (i \in Held(v2)) <=> ((v2.copy[i] # 0 /\ i \notin v2.made) \/ i \in v2.dropped)
    BY DEF Held
  <2>8. /\ a # 0 <=> (IF add THEN TRUE ELSE IF del THEN FALSE ELSE v.copy[i] # 0)
        /\ a # 0 => i \in there
    BY <2>2, <2>3, <2>4 DEF Acknowledged, Ops, Acks
  <2>9. v2.copy[i] # 0 <=> (o.name = "Add" \/ (o.name = "Change" /\ a # 0) \/ (o.name = "none" /\ a # 0))
    BY <2>1, <2>2, <2>3 DEF Applied
  <2> HIDE DEF v2, a, o
  <2>10. v2.copy[i] # 0 => i \in there
    BY <2>3, <2>8, <2>9
  <2>11. (i \in Held(v2)) <=> (i \in k)
    BY <2>1, <2>2, <2>4, <2>5, <2>6, <2>7, <2>8, <2>9
  <2> QED
    BY <2>10, <2>11
<1>3. Held(v2) \subseteq Items
  BY DEF Held, Updated, Deleted, Device
<1> HIDE DEF v2
<1>4. Held(v2) = k
  BY <1>2, <1>3
<1> QED
  BY <1>1, <1>2, <1>4 DEF v2

\* The answer arrives, or is lost.
LEMMA ReceiveKeeps ==
  ASSUME Calm, TInv, Follows, KInv, NEW h \in Slots, Receive(h)
  PROVE  KInv'
<1> DEFINE d == h[1]
           r == req[h]
           v == dev[d]
           s == state[d]
           k == known[d]
           v2 == IF ~r.live \/ r.status = 5 THEN v
                 ELSE IF r.status = 3 THEN NewDevice ELSE Updated(v, r)
<1>1. /\ d \in Devices /\ r \in Handler /\ v \in Device /\ s \in SyncState /\ k \in SUBSET Items
      /\ SlotOK(r, v, s, k, There)
      /\ r.op \in {"Change", "Delete", "Fetch"} => r.item \in Items
  BY SlotFacts DEF TInv, Busy
<1>2. /\ UNCHANGED <<row, feed, state, known>> /\ r.pc = "reply"
      /\ req' = [req EXCEPT ![h] = Idle] /\ dev' = [dev EXCEPT ![d] = v2]
  BY DEF Receive
<1>3. state' = [state EXCEPT ![d] = s] /\ known' = [known EXCEPT ![d] = k]
  BY <1>2 DEF TInv, TypeOK
<1>4. There' = There /\ (\A i \in Items : row'[i].at # "nowhere" => row'[i].rev # 0)
  BY <1>2 DEF There, KInv
<1>5. /\ Idle.pc = "idle" /\ Idle.op = "none" /\ Idle.ack = "none" /\ Idle.item = NoItem
      /\ Idle.out = Silent /\ Idle.todo = {} /\ (\A i \in Items : Silent[i].name = "none")
  BY DEF Idle, Silent, NoCommand
<1>n. NoItem \notin Items
  BY EasSyncAssumption
<1>6. Once(Idle, feed')
  BY <1>5 DEF Once
<1> HIDE DEF d, r, v, s, k, v2
<1>7. ASSUME v2.key = 0 => v2 = NewDevice, \A i \in Items : v2.copy[i] # 0 => i \in There,
             v2.key # 0 /\ v2.key = s.key => k = Held(v2)
      PROVE  KInv'
  <2>1. Asked(Idle, v2)
    BY <1>5, <1>7, <1>n DEF Asked
  <2>2. Keyed(Idle, v2, s)
    BY <1>5 DEF Keyed, Reading, Writing
  <2>3. Solid(Idle, v2, There)
    BY <1>5, <1>7, <1>n DEF Solid
  <2>4. Agrees(Idle, v2, s, k)
    BY <1>5, <1>7 DEF Agrees, Reading, Writing, Answering
  <2> QED
    BY <1>2, <1>3, <1>4, <1>6, <2>1, <2>2, <2>3, <2>4, OneSlot DEF SlotOK, d
<1>8. r.status \in {1, 3}
  BY <1>1, <1>2 DEF SlotOK, Keyed
<1>9. CASE ~r.live
  <2>1. v2 = v
    BY <1>9 DEF v2
  <2>2. v.key # 0 /\ v.key = s.key => k = Held(v)
    <3> SUFFICES ASSUME v.key # 0, v.key = s.key PROVE k = Held(v)
      OBVIOUS
    <3>1. r.status = 1 /\ r.out = Silent
      BY <1>1, <1>2, <1>8 DEF SlotOK, Keyed
    <3>2. r.kn = Held(v) /\ \A i \in Items : (i \in k) <=> (i \in r.kn)
      BY <1>1, <1>2, <1>5, <3>1 DEF SlotOK, Agrees, Answering
    <3>3. Held(v) \subseteq Items
      BY <1>1 DEF Held, Device
    <3> QED
      BY <1>1, <3>2, <3>3
  <2> QED
    BY <1>1, <1>7, <2>1, <2>2 DEF SlotOK, Asked, Solid
<1>10. CASE r.live /\ r.status = 3
  <2>1. v2 = NewDevice
    BY <1>10 DEF v2
  <2> QED
    BY <1>7, <2>1 DEF NewDevice
<1>11. CASE r.live /\ r.status = 1
  <2>1. v2 = Updated(v, r)
    BY <1>11 DEF v2
  <2>2. /\ Held(Updated(v, r)) = k
        /\ \A i \in Items : Updated(v, r).copy[i] # 0 => i \in There
        /\ Updated(v, r).key = s.key /\ s.key # 0
    BY <1>1, <1>2, <1>11, UpdatedFacts
  <2> QED
    BY <1>7, <2>1, <2>2
<1> QED
  BY <1>8, <1>9, <1>10, <1>11

\* Giving up touches nothing the server looks at.
LEMMA GiveUpKeeps ==
  ASSUME Calm, TInv, Follows, KInv, NEW h \in Slots, GiveUp(h)
  PROVE  KInv'
<1> DEFINE d == h[1]
           r == req[h]
           v == dev[d]
           s == state[d]
           k == known[d]
           r2 == [r EXCEPT !.live = FALSE]
<1>1. /\ r \in Handler /\ SlotOK(r, v, s, k, There) /\ Once(r, feed)
  BY SlotFacts
<1>2. UNCHANGED <<row, feed, dev, state, known>> /\ req' = [req EXCEPT ![h] = r2]
      /\ r.live
  BY DEF GiveUp
<1> HIDE DEF d, r, v, s, k
<1>3. r.pc # "idle"
  BY <1>1, <1>2 DEF SlotOK, Asked, Idle
<1>4. Asked(r2, v) /\ Solid(r2, v, There) /\ Once(r2, feed)
  BY <1>1, <1>3 DEF Asked, Solid, SlotOK, Once, Handler
<1>5. Keyed(r2, v, s) /\ Agrees(r2, v, s, k)
  BY <1>1 DEF SlotOK, Keyed, Agrees, Reading, Writing, Answering, Handler
<1> HIDE DEF r2
<1> QED
  BY <1>2, <1>4, <1>5, OneRequest DEF SlotOK, d, v, s, k

\* With the database answering and no reset, these are all the steps there are.
LEMMA CalmSteps ==
  ASSUME Calm, Follows, [Next]_vars
  PROVE  \/ \E h \in Slots : Handle(h) \/ Receive(h) \/ GiveUp(h)
         \/ \E d \in Devices, t \in Tries, op \in Ops, i \in Items \cup {NoItem}, m \in BOOLEAN :
              SendSync(d, t, op, i, m)
         \/ \E i \in Items : Deliver(i) \/ Edit(i) \/ Rewrite(i) \/ Remove(i) \/ MoveAway(i) \/ MoveBack(i)
         \/ \E c \in due : Record(c)
         \/ Prune
         \/ UNCHANGED vars
<1>1. ~(\E h \in Slots : Fails(h)) /\ ~Crash /\ ~(\E d \in Devices : ResetItems(d) \/ ResetStates(d))
  BY DEF Calm, OneAtATime, Follows, Fails, SyncFails, LoadFails, WriteFails, LogFails, EmitFails,
         MarkFails, Crash, ResetItems, ResetStates
<1> QED
  BY <1>1 DEF Next

LEMMA NextKInv ==
  ASSUME Calm PROVE TInv /\ Follows /\ KInv /\ [Next]_vars => KInv'
<1> SUFFICES ASSUME TInv, Follows, KInv, [Next]_vars PROVE KInv'
  OBVIOUS
<1>1. CASE \E h \in Slots : Handle(h) \/ Receive(h) \/ GiveUp(h)
  BY <1>1, CheckKeeps, CommandKeeps, AnswerKeeps, ReceiveKeeps, GiveUpKeeps DEF Handle
<1>2. CASE \E d \in Devices, t \in Tries, op \in Ops, i \in Items \cup {NoItem}, m \in BOOLEAN :
             SendSync(d, t, op, i, m)
  BY <1>2, SendKeeps
<1>3. CASE \/ \E i \in Items : Deliver(i) \/ Edit(i) \/ Rewrite(i) \/ Remove(i) \/ MoveAway(i) \/ MoveBack(i)
           \/ \E c \in due : Record(c)
           \/ Prune
           \/ UNCHANGED vars
  BY <1>3, WritersKeep
<1> QED
  BY <1>1, <1>2, <1>3, CalmSteps

LEMMA InitKInv == Init => KInv
<1> SUFFICES ASSUME Init PROVE KInv
  OBVIOUS
<1>1. /\ Idle.pc = "idle" /\ Idle.op = "none" /\ Idle.ack = "none" /\ Idle.item = NoItem
      /\ Idle.out = Silent /\ Idle.todo = {} /\ (\A i \in Items : Silent[i].name = "none")
  BY DEF Idle, Silent, NoCommand
<1>2. NewDevice.key = 0 /\ (\A i \in Items : NewDevice.copy[i] = 0) /\ NoItem \notin Items
  BY EasSyncAssumption DEF NewDevice
<1>3. ASSUME NEW there, NEW k, NEW s PROVE SlotOK(Idle, NewDevice, s, k, there)
  <2>1. Asked(Idle, NewDevice) /\ Solid(Idle, NewDevice, there)
    BY <1>1, <1>2 DEF Asked, Solid
  <2>2. Keyed(Idle, NewDevice, s) /\ Agrees(Idle, NewDevice, s, k)
    BY <1>1, <1>2 DEF Keyed, Agrees, Reading, Writing, Answering
  <2> QED
    BY <2>1, <2>2 DEF SlotOK
<1>4. Once(Idle, feed)
  BY <1>1 DEF Once
<1>5. \A h \in Slots : req[h] = Idle /\ dev[h[1]] = NewDevice
  BY DEF Init, Slots
<1>6. \A i \in Items : row[i].at = "nowhere"
  BY DEF Init, NoRow
<1> QED
  BY <1>3, <1>4, <1>5, <1>6 DEF KInv

LEMMA SpecKInv ==
  ASSUME Calm PROVE Spec => [](TInv /\ Follows /\ KInv)
<1>1. Init => Follows
  BY DEF Init, Follows, Idle
<1>2. OneAtATime
  BY DEF Calm
<1>3. TInv /\ Follows /\ [Next]_vars => Follows'
  BY <1>2, NextFollows
<1>4. TInv /\ Follows /\ KInv /\ [Next]_vars => KInv'
  BY NextKInv
<1> QED
  BY <1>1, <1>3, <1>4, InitKInv, SpecTInv, PTL DEF Spec

\* While the requests of a device do not overlap, the database answers and nobody resets
\* the device, sync_items is what the device holds (itemCommand, MarkItemKnown, ForgetItem),
\* whatever answers are lost, whatever is pruned and whatever the other devices and the
\* writers do meanwhile.
THEOREM ItemsKnown ==
  ASSUME Calm PROVE Spec => []KnownMatches
<1>1. ASSUME KInv PROVE KnownMatches
  <2> SUFFICES ASSUME NEW d \in Devices, InStep(d) PROVE known[d] = Held(dev[d])
    BY DEF KnownMatches, Held
  <2>1. PICK t \in Tries : TRUE
    BY EasSyncAssumption
  <2>2. <<d, t>> \in Slots
    BY DEF Slots
  <2>3. SlotOK(req[<<d, t>>], dev[d], state[d], known[d], There)
    BY <1>1, <2>2 DEF KInv
  <2> QED
    BY <2>3 DEF InStep, SlotOK, Agrees
<1> QED
  BY <1>1, SpecKInv, PTL

----------------------------------------------------------------------------
\* What a device in step misses, under the same conditions.

\* A record of i is still to reach the handler in slot h, which reads from position pos on
\* and passes over the records in skip: it is there, or another writer owes it.
Comes(h, i, pos, skip) ==
  \/ \E s \in After(pos) \ skip : feed[s].item = i
  \/ \E c \in due : c.item = i
  \/ \E g \in Slots \ {h} : req[g].pc = "log" /\ req[g].item = i

\* Records of i the initial sync of device v did not read.
Beyond(v, i) == \E s \in DOMAIN feed : s > v.first /\ feed[s].item = i

\* Content c of i is what device d, with the rest as in v, should have, or the exceptions
\* of NothingLost and NoZombie apply.
Right(d, i, v, c, item) ==
  IF Live(i)
    THEN \/ c = row[i].rev
         \/ ToldDeleted(d, i)
         \/ i \in v.dropped
         \/ c = 0 /\ Pruned(i)
         \/ Class = "Email" /\ i \in Old /\ i # item /\ ~Beyond(v, i)
    ELSE c = 0 \/ i \in v.made

\* What the device will hold of i when it learns that its command was carried out.
Effective(r, v, i) ==
  Acknowledged(v.copy[i], IF r.pc = "log" THEN [r EXCEPT !.ack = "ok"] ELSE r, i)

\* The device holds the saved key and has not been answered.
Abreast(r, v, s) ==
  r.pc \in Reading \/ (r.pc \in {"idle", "start"} /\ v.key # 0 /\ v.key = s.key)

\* A Change about to be written over a row that is not the one the device had seen.
Merges(h, r, v, s) ==
  LET i == r.item
  IN  r.pc = "write" /\ r.op = "Change" /\ Class = "Email" =>
        \/ Comes(h, i, s.seq, r.skip)
        \/ r.snap.deleted /\ i \in v.made
        \/ ~r.snap.deleted /\ (r.snap.rev = r.base \/ ToldDeleted(h[1], i) \/ i \in v.dropped)

\* Before the answer ...
Ahead(h, r, v, s) ==
  Abreast(r, v, s) =>
    \A i \in Items : Comes(h, i, s.seq, r.skip) \/ Right(h[1], i, v, Effective(r, v, i), r.item)

\* ... and with it, for the items it is complete about.
Behind(h, r, v) ==
  Answering(r) =>
    \A i \in Items :
      \/ \E s \in r.todo : feed[s].item = i
      \/ Comes(h, i, r.last, {})
      \/ Right(h[1], i, Updated(v, r), Updated(v, r).copy[i], NoItem)

\* Positions and records of a slot.
Placed(h, r, v, s) ==
  /\ s.seq <= Len(feed) /\ v.first <= Len(feed)
  /\ r.skip \subseteq DOMAIN feed /\ (\A u \in r.skip : feed[u].by = h[1])
  /\ r.pc \notin {"known", "fetch", "emit", "save", "reply"} => r.skip = {}
  /\ r.pc # "emit" => r.todo = {}
  /\ Abreast(r, v, s) \/ r.pc \in Writing => v.first <= s.seq
  /\ Answering(r) => v.first <= r.last /\ r.last <= Len(feed)
  /\ r.pc = "reply" /\ r.status = 1 => s.seq = r.last
  /\ \A u \in r.todo : u > r.st.seq /\ u > low /\ u <= r.last /\ u \notin r.skip
  /\ r.op \in {"Change", "Delete", "Fetch"} => r.base = v.copy[r.item]

\* A device has an old message only from records its initial sync did not read.
Filtered(r, v) ==
  \A i \in Items :
    Class = "Email" /\ i \in Old =>
      /\ v.copy[i] # 0 => Beyond(v, i)
      /\ r.out[i].name \in {"Add", "Change"} => r.key # 0 /\ Beyond(v, i)
      /\ r.op = "Add" /\ r.ack = "ok" /\ r.item = i => Beyond(v, i)

SlotLess(h) ==
  LET r == req[h]
      v == dev[h[1]]
      s == state[h[1]]
  IN  /\ Placed(h, r, v, s) /\ Filtered(r, v)
      /\ Merges(h, r, v, s) /\ Ahead(h, r, v, s) /\ Behind(h, r, v)

\* An item with a row has a record, or a writer owes it one.
Recorded(i) ==
  \/ \E s \in DOMAIN feed : feed[s].item = i
  \/ \E c \in due : c.item = i
  \/ \E g \in Slots : req[g].pc = "log" /\ req[g].item = i

LInv ==
  /\ low <= Len(feed)
  /\ \A i \in Items : row[i].at # "nowhere" => Recorded(i)
  /\ \A h \in Slots : SlotLess(h)

\* What steps do to the rows and the feed, seen from the slots in gs: a row changes only if
\* a record of it is owed, and records are owed until they are appended.
Moves(gs) ==
  /\ \/ feed' = feed
     \/ low' = low /\ \E c \in Change : feed' = Append(feed, c)
  /\ \A e \in due : e \in due' \/ feed' = Append(feed, e)
  /\ \A f \in gs :
       req[f].pc = "log" =>
         \/ req'[f].pc = "log" /\ req'[f].item = req[f].item
         \/ \E c \in Change : c.item = req[f].item /\ feed' = Append(feed, c)
  /\ \A i \in Items :
       \/ row'[i] = row[i]
       \/ \E c \in due' : c.item = i
       \/ \E f \in gs : req'[f].pc = "log" /\ req'[f].item = i

\* Writers, whatever slots are watched.
LEMMA WritersMove ==
  ASSUME TInv, NEW gs \in SUBSET Slots,
         \/ \E i \in Items : Deliver(i) \/ Edit(i) \/ Rewrite(i) \/ Remove(i) \/ MoveAway(i) \/ MoveBack(i)
         \/ \E c \in due : Record(c)
         \/ Prune
         \/ UNCHANGED vars
  PROVE  /\ Moves(gs)
         /\ UNCHANGED <<req, dev, state>>
<1>1. ASSUME NEW i \in Items, Deliver(i) \/ Edit(i) \/ Rewrite(i) \/ Remove(i) \/ MoveAway(i) \/ MoveBack(i)
      PROVE  Moves(gs) /\ UNCHANGED <<req, dev, state>>
  <2>1. UNCHANGED <<req, dev, state, feed>>
    BY <1>1 DEF Deliver, Edit, Rewrite, Remove, MoveAway, MoveBack
  <2>2. \A j \in Items : j # i => row'[j] = row[j]
    BY <1>1 DEF Deliver, Edit, Rewrite, Remove, MoveAway, MoveBack, TInv, TypeOK
  <2>3. due \subseteq due' /\ \E c \in due' : c.item = i
    <3>1. PICK k \in Kinds : Owe(i, k)
      BY <1>1 DEF Deliver, Edit, Rewrite, Remove, MoveAway, MoveBack, Kinds
    <3> QED
      BY <3>1 DEF Owe
  <2> QED
    BY <2>1, <2>2, <2>3 DEF Moves
<1>2. ASSUME NEW c \in due, Record(c)
      PROVE  Moves(gs) /\ UNCHANGED <<req, dev, state>>
  <2>1. UNCHANGED <<req, dev, state, row, low>> /\ feed' = Append(feed, c) /\ due' = due \ {c} /\ c \in Change
    BY <1>2 DEF Record, AddChange, TInv, TypeOK
  <2> QED
    BY <2>1 DEF Moves
<1>3. CASE Prune \/ UNCHANGED vars
  <2>1. UNCHANGED <<req, dev, state, row, feed, due>>
    BY <1>3 DEF Prune, vars
  <2> QED
    BY <2>1 DEF Moves
<1> QED
  BY <1>1, <1>2, <1>3

\* A handler or its device, seen from slots among which it is.
LEMMA HandlersMove ==
  ASSUME TInv, NEW gs \in SUBSET Slots, NEW h \in gs,
         \/ Handle(h) \/ Receive(h) \/ GiveUp(h)
         \/ \E op \in Ops, i \in Items \cup {NoItem}, m \in BOOLEAN : SendSync(h[1], h[2], op, i, m)
  PROVE  /\ Moves(gs) /\ low' = low
         /\ \A g \in Slots : g # h => req'[g] = req[g]
         /\ \A d \in Devices : d # h[1] => dev'[d] = dev[d] /\ state'[d] = state[d]
<1>t. h \in Slots /\ h = <<h[1], h[2]>> /\ h[1] \in Devices /\ req \in [Slots -> Handler] /\ row \in [Items -> Row]
      /\ dev \in [Devices -> Device] /\ state \in [Devices -> SyncState]
      /\ (req[h].pc = "log" => req[h].item \in Items /\ req[h].op # "none")
      /\ req[h].op \in Ops
  BY DEF TInv, TypeOK, Slots, Busy, Handler
<1>1. ASSUME UNCHANGED <<row, feed, due, low>>, \A g \in gs : g # h => req'[g] = req[g], req[h].pc # "log"
      PROVE  Moves(gs)
  BY <1>1 DEF Moves
<1>2. ASSUME UNCHANGED <<feed, due, low>>, \A g \in gs : g # h => req'[g] = req[g], req[h].pc # "log",
             req'[h].pc = "log", \A i \in Items : i # req'[h].item => row'[i] = row[i]
      PROVE  Moves(gs)
  BY <1>2 DEF Moves
<1>3. CASE Restart(h) \/ ForgetAllItems(h) \/ Begin(h) \/ Continue(h) \/ Refuse(h) \/ Load(h) \/ LoadFetch(h)
           \/ WriteAddFails(h) \/ KnownItems(h) \/ Fetch(h) \/ Emit(h) \/ More(h) \/ Save(h) \/ Receive(h)
  <2>1. UNCHANGED <<row, feed, due, low>> /\ req[h].pc # "log"
    BY <1>3 DEF Restart, ForgetAllItems, Begin, Continue, Refuse, Load, LoadFetch, WriteAddFails,
                KnownItems, Fetch, Emit, More, Save, Receive
  <2>2. \A g \in Slots : g # h => req'[g] = req[g]
    BY <1>3, <1>t DEF Restart, ForgetAllItems, Begin, Continue, Refuse, Load, LoadFetch, WriteAddFails,
                KnownItems, Fetch, Emit, More, Save, Receive
  <2>3. \A d \in Devices : d # h[1] => dev'[d] = dev[d] /\ state'[d] = state[d]
    BY <1>3, <1>t DEF Restart, ForgetAllItems, Begin, Continue, Refuse, Load, LoadFetch, WriteAddFails,
                KnownItems, Fetch, Emit, More, Save, Receive
  <2> QED
    BY <1>1, <2>1, <2>2, <2>3
<1>4. CASE WriteAdd(h)
  <2>1. PICK i \in Items :
          /\ row' = [row EXCEPT ![i] = [at |-> "here", deleted |-> FALSE, rev |-> fresh']]
          /\ req' = [req EXCEPT ![h].pc = "log", ![h].item = i, ![h].rev = fresh']
    BY <1>4, Zenon DEF WriteAdd
  <2>2. req'[h].pc = "log" /\ req'[h].item = i /\ (\A g \in Slots : g # h => req'[g] = req[g])
        /\ (\A j \in Items : j # i => row'[j] = row[j])
    BY <1>t, <2>1 DEF Handler
  <2>3. UNCHANGED <<feed, due, low, dev, state>> /\ req[h].pc # "log"
    BY <1>4 DEF WriteAdd
  <2> QED
    BY <1>2, <2>2, <2>3
<1>5. CASE WriteChange(h) \/ WriteDelete(h)
  <2>1. req'[h].pc = "log" /\ req'[h].item = req[h].item /\ (\A g \in Slots : g # h => req'[g] = req[g])
        /\ (\A j \in Items : j # req[h].item => row'[j] = row[j])
    BY <1>t, <1>5 DEF WriteChange, WriteDelete, Handler
  <2>3. UNCHANGED <<feed, due, low, dev, state>> /\ req[h].pc # "log"
    BY <1>5 DEF WriteChange, WriteDelete
  <2> QED
    BY <1>2, <2>1, <2>3
<1>6. CASE Log(h)
  <2> DEFINE c == [item |-> req[h].item, kind |-> KindOf(req[h].op), by |-> h[1]]
  <2>1. c \in Change /\ c.item = req[h].item
    BY <1>6, <1>t DEF Log, Change, KindOf, Kinds
  <2>2. feed' = Append(feed, c) /\ UNCHANGED <<row, due, low, dev, state>>
    BY <1>6 DEF Log, AddChange
  <2>3. \A g \in Slots : g # h => req'[g] = req[g]
    BY <1>6, <1>t DEF Log
  <2> HIDE DEF c
  <2> QED
    BY <2>1, <2>2, <2>3 DEF Moves
<1>7. CASE GiveUp(h)
  <2>1. UNCHANGED <<row, feed, due, low, dev, state>> /\ (\A g \in Slots : g # h => req'[g] = req[g])
        /\ req'[h].pc = req[h].pc /\ req'[h].item = req[h].item
    BY <1>t, <1>7 DEF GiveUp, Handler
  <2> QED
    BY <2>1 DEF Moves
<1>8. ASSUME NEW op \in Ops, NEW i \in Items \cup {NoItem}, NEW m \in BOOLEAN, SendSync(h[1], h[2], op, i, m)
      PROVE  /\ Moves(gs) /\ low' = low
             /\ \A g \in Slots : g # h => req'[g] = req[g]
             /\ \A d \in Devices : d # h[1] => dev'[d] = dev[d] /\ state'[d] = state[d]
  <2>1. UNCHANGED <<row, feed, due, low, dev, state>> /\ req[h].pc # "log" /\ (\A g \in Slots : g # h => req'[g] = req[g])
    BY <1>t, <1>8 DEF SendSync
  <2> QED
    BY <1>1, <2>1
<1> QED
  BY <1>3, <1>4, <1>5, <1>6, <1>7, <1>8 DEF Handle

\* A record that is appended is still to come, whoever reads from an earlier position.
LEMMA NewComes ==
  ASSUME TInv, NEW h, NEW i, NEW pos \in Nat, NEW skip, NEW c \in Change,
         pos <= Len(feed), low <= Len(feed), low' = low, feed' = Append(feed, c), c.item = i,
         Len(feed) + 1 \notin skip
  PROVE  Comes(h, i, pos, skip)'
<1>1. feed \in Seq(Change) /\ low \in Nat
  BY DEF TInv, TypeOK
<1>2. Len(feed) + 1 \in DOMAIN feed' /\ feed'[Len(feed) + 1] = c
  BY <1>1
<1> QED
  BY <1>1, <1>2 DEF Comes, After

\* What is still to come stays so, as long as the position does not move.
LEMMA ComesStays ==
  ASSUME TInv, NEW h, NEW i \in Items, NEW pos \in Nat, NEW skip,
         pos <= Len(feed), low <= Len(feed), skip \subseteq DOMAIN feed,
         Moves(Slots \ {h}), low' = low \/ low' <= pos, low' \in Nat, Comes(h, i, pos, skip)
  PROVE  Comes(h, i, pos, skip)'
<1>1. feed \in Seq(Change) /\ low \in Nat /\ due \subseteq Change
  BY DEF TInv, TypeOK
<1>2. Len(feed) + 1 \notin skip
  BY <1>1
<1>3. ASSUME NEW c \in Change, feed' = Append(feed, c), c.item = i PROVE Comes(h, i, pos, skip)'
  <2>1. low' = low
    <3>1. Len(feed') # Len(feed)
      BY <1>1, <1>3
    <3> QED
      BY <3>1 DEF Moves
  <2> QED
    BY <1>2, <1>3, <2>1, NewComes
<1>4. CASE \E s \in After(pos) \ skip : feed[s].item = i
  <2>1. PICK s \in After(pos) \ skip : feed[s].item = i
    BY <1>4
  <2>2. s \in DOMAIN feed /\ s > pos /\ s > low
    BY <2>1 DEF After
  <2>3. s \in DOMAIN feed' /\ feed'[s] = feed[s]
    BY <1>1, <2>2 DEF Moves
  <2>4. s > low'
    BY <1>1, <2>2
  <2> QED
    BY <2>1, <2>2, <2>3, <2>4 DEF Comes, After
<1>5. CASE \E c \in due : c.item = i
  <2>1. PICK c \in due : c.item = i
    BY <1>5
  <2>2. c \in due' \/ feed' = Append(feed, c)
    BY <2>1 DEF Moves
  <2>3. CASE c \in due'
    BY <2>1, <2>3 DEF Comes
  <2> QED
    BY <1>1, <1>3, <2>1, <2>2, <2>3
<1>6. CASE \E g \in Slots \ {h} : req[g].pc = "log" /\ req[g].item = i
  <2>1. PICK g \in Slots \ {h} : req[g].pc = "log" /\ req[g].item = i
    BY <1>6
  <2>2. \/ req'[g].pc = "log" /\ req'[g].item = req[g].item
        \/ \E c \in Change : c.item = req[g].item /\ feed' = Append(feed, c)
    BY <2>1 DEF Moves
  <2>3. CASE req'[g].pc = "log" /\ req'[g].item = req[g].item
    BY <2>1, <2>3 DEF Comes
  <2> QED
    BY <1>3, <2>1, <2>2, <2>3
<1> QED
  BY <1>4, <1>5, <1>6 DEF Comes

\* What a device was told stays so until another's record of the item is appended.
LEMMA ToldStays ==
  ASSUME TInv, NEW d, NEW i, ToldDeleted(d, i),
         feed' = feed \/ \E c \in Change : feed' = Append(feed, c) /\ (c.item = i => c.by = d)
  PROVE  ToldDeleted(d, i)'
<1>1. feed \in Seq(Change)
  BY DEF TInv, TypeOK
<1>2. CASE feed' = feed
  BY <1>2 DEF ToldDeleted
<1>3. ASSUME NEW c \in Change, feed' = Append(feed, c), c.item = i => c.by = d PROVE ToldDeleted(d, i)'
  <2>1. PICK s \in DOMAIN feed :
          /\ feed[s].item = i /\ feed[s].kind = "delete"
          /\ \A t \in DOMAIN feed : feed[t].item = i /\ t > s => feed[t].by = d
    BY DEF ToldDeleted
  <2>2. s \in DOMAIN feed' /\ feed'[s] = feed[s]
    BY <1>1, <1>3
  <2>3. ASSUME NEW t \in DOMAIN feed', feed'[t].item = i, t > s PROVE feed'[t].by = d
    <3>1. CASE t \in DOMAIN feed
      BY <1>1, <1>3, <2>1, <2>3, <3>1
    <3>2. CASE t \notin DOMAIN feed
      <4>1. feed'[t] = c
        BY <1>1, <1>3, <3>2
      <4> QED
        BY <1>3, <2>3, <4>1
    <3> QED
      BY <3>1, <3>2
  <2> QED
    BY <2>1, <2>2, <2>3 DEF ToldDeleted
<1> QED
  BY <1>2, <1>3

\* Records stay, and no others come, while none of the item is appended.
LEMMA BeyondStays ==
  ASSUME TInv, NEW v, NEW i
  PROVE  /\ (feed' = feed \/ \E c \in Change : feed' = Append(feed, c)) /\ Beyond(v, i) => Beyond(v, i)'
         /\ (feed' = feed \/ \E c \in Change : feed' = Append(feed, c) /\ c.item # i) /\ ~Beyond(v, i)
              => ~Beyond(v, i)'
<1>1. feed \in Seq(Change)
  BY DEF TInv, TypeOK
<1>2. ASSUME NEW c \in Change, feed' = Append(feed, c)
      PROVE  /\ DOMAIN feed' = DOMAIN feed \cup {Len(feed) + 1}
             /\ \A s \in DOMAIN feed : feed'[s] = feed[s]
             /\ feed'[Len(feed) + 1] = c
  BY <1>1, <1>2
<1>3. ASSUME feed' = feed \/ \E c \in Change : feed' = Append(feed, c), Beyond(v, i) PROVE Beyond(v, i)'
  BY <1>2, <1>3 DEF Beyond
<1>4. ASSUME feed' = feed \/ \E c \in Change : feed' = Append(feed, c) /\ c.item # i, ~Beyond(v, i)
      PROVE  ~Beyond(v, i)'
  BY <1>2, <1>4 DEF Beyond
<1> QED
  BY <1>3, <1>4

\* Pruned records stay so, as long as none of the item is appended.
LEMMA PrunedStays ==
  ASSUME TInv, NEW i, Pruned(i), low' \in Nat, low' >= low,
         feed' = feed \/ \E c \in Change : feed' = Append(feed, c) /\ c.item # i
  PROVE  Pruned(i)'
<1>1. feed \in Seq(Change) /\ low \in Nat
  BY DEF TInv, TypeOK
<1>2. ASSUME NEW s \in DOMAIN feed', feed'[s].item = i PROVE s \in DOMAIN feed /\ feed[s].item = i
  BY <1>1, <1>2
<1>3. \A s \in DOMAIN feed : s \in Nat /\ s \in DOMAIN feed' /\ feed'[s] = feed[s]
  BY <1>1
<1> QED
  BY <1>1, <1>2, <1>3 DEF Pruned

\* What a device holds stays right until something about the item is still to come.
LEMMA RightStays ==
  ASSUME TInv, NEW h, NEW d, NEW i \in Items, NEW v, NEW c, NEW item, NEW pos \in Nat, NEW skip,
         pos <= Len(feed), low <= Len(feed), skip \subseteq DOMAIN feed,
         Moves(Slots \ {h}), low' = low \/ low' <= pos, low' \in Nat, low' >= low,
         Comes(h, i, pos, skip) \/ Right(d, i, v, c, item)
  PROVE  Comes(h, i, pos, skip)' \/ Right(d, i, v, c, item)'
<1>1. feed \in Seq(Change) /\ low \in Nat
  BY DEF TInv, TypeOK
<1>2. CASE Comes(h, i, pos, skip)
  BY <1>2, ComesStays
<1>3. CASE Right(d, i, v, c, item) /\ row'[i] # row[i]
  BY <1>3 DEF Moves, Comes
<1>4. CASE Right(d, i, v, c, item) /\ row'[i] = row[i]
  <2>1. CASE \E x \in Change : feed' = Append(feed, x) /\ x.item = i
    <3>1. Len(feed) + 1 \notin skip
      BY <1>1
    <3>2. low' = low
      <4>1. Len(feed') # Len(feed)
        BY <1>1, <2>1
      <4> QED
        BY <4>1 DEF Moves
    <3> QED
      BY <2>1, <3>1, <3>2, NewComes
  <2>2. CASE feed' = feed \/ \E x \in Change : feed' = Append(feed, x) /\ x.item # i
    <3>1. ToldDeleted(d, i) => ToldDeleted(d, i)'
      BY <2>2, ToldStays
    <3>2. ~Beyond(v, i) => ~Beyond(v, i)'
      BY <2>2, BeyondStays
    <3>3. Live(i)' <=> Live(i)
      BY <1>4 DEF Live
    <3>4. Pruned(i) => Pruned(i)'
      BY <1>1, <2>2, PrunedStays
    <3> QED
      BY <1>4, <3>1, <3>2, <3>3, <3>4 DEF Right
  <2> QED
    BY <2>1, <2>2 DEF Moves
<1> QED
  BY <1>2, <1>3, <1>4

\* The positions a slot reads from, and that pruning stays behind them.
LEMMA SlotPositions ==
  ASSUME Calm, TInv, Follows, KInv, LInv, NEW h \in Slots
  PROVE  LET r == req[h]
             v == dev[h[1]]
             s == state[h[1]]
         IN  /\ s.seq \in Nat /\ s.seq <= Len(feed) /\ r.last \in Nat
             /\ Abreast(r, v, s) => s.key # 0
             /\ Answering(r) => s.key # 0 /\ s.seq <= r.last /\ r.last <= Len(feed)
<1> DEFINE r == req[h]
           v == dev[h[1]]
           s == state[h[1]]
<1>1. /\ r \in Handler /\ s \in SyncState /\ SlotOK(r, v, s, known[h[1]], There)
      /\ r.pc \in Reading \cup Writing => r.st = s
  BY SlotFacts
<1>2. Placed(h, r, v, s)
  BY DEF LInv, SlotLess
<1>3. r.pc \in Writing => r.last >= r.st.seq
  BY DEF Follows, Writing
<1>4. s.seq \in Nat /\ r.last \in Nat
  BY <1>1 DEF SyncState, Handler
<1> HIDE DEF r, v, s
<1>5. Abreast(r, v, s) => s.key # 0
  BY <1>1 DEF SlotOK, Keyed, Abreast
<1>6. Answering(r) => s.key # 0
  BY <1>1 DEF SlotOK, Keyed, Answering
<1>7. Answering(r) => s.seq <= r.last
  BY <1>1, <1>2, <1>3, <1>4 DEF Placed, Answering
<1> QED
  BY <1>2, <1>4, <1>5, <1>6, <1>7 DEF Placed, r, v, s

\* Steps elsewhere take nothing from a slot.
LEMMA OthersStay ==
  ASSUME Calm, TInv, Follows, KInv, LInv, NEW h \in Slots,
         req'[h] = req[h], dev'[h[1]] = dev[h[1]], state'[h[1]] = state[h[1]],
         Moves(Slots \ {h}), low' \in Nat, low' >= low,
         low' = low \/ (state[h[1]].key # 0 => low' <= state[h[1]].seq)
  PROVE  SlotLess(h)'
<1> SUFFICES ASSUME NEW r, NEW v, NEW s, r = req[h], v = dev[h[1]], s = state[h[1]],
                    r = req'[h], v = dev'[h[1]], s = state'[h[1]]
             PROVE  SlotLess(h)'
  OBVIOUS
<1>1. /\ feed \in Seq(Change) /\ r \in Handler /\ r.todo \subseteq DOMAIN feed /\ low \in Nat
      /\ r.op = "Change" => r.item \in Items
      /\ v.first \in Nat /\ s.seq \in Nat
      /\ h[1] \in Devices
      /\ r.pc \in Writing => r.st = s
  BY SlotFacts DEF TInv, TypeOK, Busy, Device, SyncState
<1>2. Placed(h, r, v, s) /\ Filtered(r, v) /\ Merges(h, r, v, s) /\ Ahead(h, r, v, s) /\ Behind(h, r, v)
      /\ low <= Len(feed)
  BY DEF LInv, SlotLess
<1>3. /\ s.seq \in Nat /\ s.seq <= Len(feed) /\ r.last \in Nat
      /\ Abreast(r, v, s) => s.key # 0
      /\ Answering(r) => s.key # 0 /\ s.seq <= r.last /\ r.last <= Len(feed)
  BY SlotPositions
<1>4. r.skip \subseteq DOMAIN feed
  BY <1>2 DEF Placed
<1>5. /\ DOMAIN feed \subseteq DOMAIN feed' /\ (\A u \in DOMAIN feed : feed'[u] = feed[u])
      /\ Len(feed) <= Len(feed') /\ Len(feed') \in Nat
  BY <1>1 DEF Moves
<1>6. low' = low \/ (s.key # 0 => low' <= s.seq)
  OBVIOUS
<1>7. feed' = feed \/ \E c \in Change : feed' = Append(feed, c)
  BY DEF Moves
<1>8. Placed(h, r, v, s)'
  <2>1. /\ s.seq <= Len(feed') /\ v.first <= Len(feed')
        /\ r.skip \subseteq DOMAIN feed' /\ (\A u \in r.skip : feed'[u].by = h[1])
        /\ r.pc \notin {"known", "fetch", "emit", "save", "reply"} => r.skip = {}
        /\ r.pc # "emit" => r.todo = {}
        /\ Abreast(r, v, s) \/ r.pc \in Writing => v.first <= s.seq
        /\ Answering(r) => v.first <= r.last /\ r.last <= Len(feed')
        /\ r.pc = "reply" /\ r.status = 1 => s.seq = r.last
        /\ \A u \in r.todo : u > r.st.seq /\ u <= r.last /\ u \notin r.skip
        /\ r.op \in {"Change", "Delete", "Fetch"} => r.base = v.copy[r.item]
    BY <1>1, <1>2, <1>3, <1>5 DEF Placed
  <2>2. ASSUME NEW u \in r.todo PROVE u > low'
    <3>1. u > low /\ u > s.seq /\ s.key # 0 /\ u \in Nat
      BY <1>1, <1>2, <1>3, <2>2 DEF Placed, Answering, Writing
    <3> QED
      BY <1>1, <1>3, <1>6, <3>1
  <2> QED
    BY <2>1, <2>2 DEF Placed
<1>9. Filtered(r, v)'
  <2>1. \A i \in Items : Beyond(v, i) => Beyond(v, i)'
    BY <1>7, BeyondStays
  <2> QED
    BY <1>2, <2>1 DEF Filtered
<1>10. Ahead(h, r, v, s)'
  <2> SUFFICES ASSUME Abreast(r, v, s), NEW i \in Items
               PROVE  Comes(h, i, s.seq, r.skip)' \/ Right(h[1], i, v, Effective(r, v, i), r.item)'
    BY DEF Ahead
  <2>1. low' = low \/ low' <= s.seq
    BY <1>3, <1>6
  <2>2. Comes(h, i, s.seq, r.skip) \/ Right(h[1], i, v, Effective(r, v, i), r.item)
    BY <1>2 DEF Ahead
  <2> QED
    BY <1>2, <1>3, <1>4, <2>1, <2>2, RightStays
<1>11. Behind(h, r, v)'
  <2> SUFFICES ASSUME Answering(r), NEW i \in Items, ~\E u \in r.todo : feed'[u].item = i
               PROVE  \/ Comes(h, i, r.last, {})'
                      \/ Right(h[1], i, Updated(v, r), Updated(v, r).copy[i], NoItem)'
    BY DEF Behind
  <2>1. low' = low \/ low' <= r.last
    BY <1>1, <1>3, <1>6
  <2>2. ~\E u \in r.todo : feed[u].item = i
    BY <1>1, <1>5
  <2>3. \/ Comes(h, i, r.last, {})
        \/ Right(h[1], i, Updated(v, r), Updated(v, r).copy[i], NoItem)
    BY <1>2, <2>2 DEF Behind
  <2> QED
    BY <1>2, <1>3, <2>1, <2>3, RightStays
<1>12. Merges(h, r, v, s)'
  <2> DEFINE i == r.item
  <2> SUFFICES ASSUME r.pc = "write", r.op = "Change", Class = "Email"
               PROVE  \/ Comes(h, i, s.seq, r.skip)'
                      \/ r.snap.deleted /\ i \in v.made
                      \/ ~r.snap.deleted /\ (r.snap.rev = r.base \/ ToldDeleted(h[1], i)'
                                                \/ i \in v.dropped)
    BY DEF Merges
  <2>1. i \in Items /\ Abreast(r, v, s)
    BY <1>1 DEF Abreast, Reading
  <2>2. low' = low \/ low' <= s.seq
    BY <1>3, <1>6, <2>1
  <2>3. \/ Comes(h, i, s.seq, r.skip)
        \/ r.snap.deleted /\ i \in v.made
        \/ ~r.snap.deleted /\ (r.snap.rev = r.base \/ ToldDeleted(h[1], i) \/ i \in v.dropped)
    BY <1>2 DEF Merges
  <2>4. Comes(h, i, s.seq, r.skip) => Comes(h, i, s.seq, r.skip)'
    BY <1>2, <1>3, <1>4, <2>1, <2>2, ComesStays
  <2>5. ToldDeleted(h[1], i) => ToldDeleted(h[1], i)' \/ Comes(h, i, s.seq, r.skip)'
    <3>1. CASE \E c \in Change : feed' = Append(feed, c) /\ c.item = i /\ c.by # h[1]
      <4>1. low' = low
        <5>1. Len(feed') # Len(feed)
          BY <1>1, <3>1
        <5> QED
          BY <5>1 DEF Moves
      <4>2. Len(feed) + 1 \notin r.skip
        BY <1>1, <1>4
      <4> QED
        BY <1>2, <1>3, <3>1, <4>1, <4>2, NewComes
    <3>2. CASE feed' = feed \/ \E c \in Change : feed' = Append(feed, c) /\ (c.item = i => c.by = h[1])
      BY <3>2, ToldStays
    <3> QED
      BY <1>7, <3>1, <3>2
  <2> QED
    BY <2>3, <2>4, <2>5
<1> QED
  BY <1>8, <1>9, <1>10, <1>11, <1>12 DEF SlotLess

\* An item with a row keeps its record.
LEMMA RecordedStays ==
  ASSUME TInv, LInv, Moves(Slots) PROVE \A i \in Items : (row'[i].at # "nowhere" => Recorded(i)')
<1> SUFFICES ASSUME NEW i \in Items, row'[i].at # "nowhere" PROVE Recorded(i)'
  OBVIOUS
<1>1. feed \in Seq(Change) /\ due \subseteq Change
  BY DEF TInv, TypeOK
<1>2. ASSUME NEW c \in Change, feed' = Append(feed, c), c.item = i PROVE Recorded(i)'
  <2>1. Len(feed) + 1 \in DOMAIN feed' /\ feed'[Len(feed) + 1] = c
    BY <1>1, <1>2
  <2> QED
    BY <1>2, <2>1 DEF Recorded
<1>3. CASE row'[i] # row[i]
  BY <1>3 DEF Moves, Recorded
<1>4. CASE \E s \in DOMAIN feed : feed[s].item = i
  <2>1. PICK s \in DOMAIN feed : feed[s].item = i
    BY <1>4
  <2>2. s \in DOMAIN feed' /\ feed'[s] = feed[s]
    BY <1>1, <2>1 DEF Moves
  <2> QED
    BY <2>1, <2>2 DEF Recorded
<1>5. CASE \E c \in due : c.item = i
  <2>1. PICK c \in due : c.item = i
    BY <1>5
  <2>2. c \in due' \/ feed' = Append(feed, c)
    BY <2>1 DEF Moves
  <2>3. CASE c \in due'
    BY <2>1, <2>3 DEF Recorded
  <2> QED
    BY <1>1, <1>2, <2>1, <2>2, <2>3
<1>6. CASE \E g \in Slots : req[g].pc = "log" /\ req[g].item = i
  <2>1. PICK g \in Slots : req[g].pc = "log" /\ req[g].item = i
    BY <1>6
  <2>2. \/ req'[g].pc = "log" /\ req'[g].item = req[g].item
        \/ \E c \in Change : c.item = req[g].item /\ feed' = Append(feed, c)
    BY <2>1 DEF Moves
  <2>3. CASE req'[g].pc = "log" /\ req'[g].item = req[g].item
    BY <2>1, <2>3 DEF Recorded
  <2> QED
    BY <1>2, <2>1, <2>2, <2>3
<1> QED
  BY <1>3, <1>4, <1>5, <1>6 DEF LInv, Recorded

\* Steps of the writers and of the maintenance.
LEMMA WritersLess ==
  ASSUME Calm, TInv, Follows, KInv, LInv,
         \/ \E i \in Items : Deliver(i) \/ Edit(i) \/ Rewrite(i) \/ Remove(i) \/ MoveAway(i) \/ MoveBack(i)
         \/ \E c \in due : Record(c)
         \/ Prune
         \/ UNCHANGED vars
  PROVE  LInv'
<1>1. \A gs \in SUBSET Slots : Moves(gs)
  BY WritersMove
<1>2. UNCHANGED <<req, dev, state>>
  <2>1. {} \in SUBSET Slots
    OBVIOUS
  <2> QED
    BY <2>1, WritersMove
<1>3. low \in Nat /\ feed \in Seq(Change) /\ state \in [Devices -> SyncState]
  BY DEF TInv, TypeOK
<1>4. /\ low' \in Nat /\ low' >= low
      /\ low' = low \/ \A d \in Devices : state[d].key # 0 => low' <= state[d].seq
      /\ low' <= Len(feed')
  <2>1. CASE Prune
    <3>1. PICK d \in Devices :
            /\ state[d].key # 0
            /\ \A e \in Devices : state[e].key # 0 => state[d].seq <= state[e].seq
            /\ state[d].seq > low
            /\ low' = state[d].seq
      BY <2>1, Zenon DEF Prune
    <3>2. PICK t \in Tries : TRUE
      BY EasSyncAssumption
    <3>3. <<d, t>> \in Slots
      BY DEF Slots
    <3>4. state[d].seq <= Len(feed) /\ state[d].seq \in Nat
      BY <3>3, SlotPositions
    <3>5. feed' = feed
      BY <2>1 DEF Prune
    <3> QED
      BY <1>3, <3>1, <3>4, <3>5
  <2>2. CASE ~Prune
    <3>1. low' = low
      BY <2>2 DEF Deliver, Edit, Rewrite, Remove, MoveAway, MoveBack, Record, vars
    <3>2. Len(feed) <= Len(feed') /\ Len(feed') \in Nat /\ Len(feed) \in Nat
      <4>1. Moves({})
        BY <1>1
      <4> QED
        BY <1>3, <4>1 DEF Moves
    <3> QED
      BY <1>3, <3>1, <3>2 DEF LInv
  <2> QED
    BY <2>1, <2>2
<1>5. ASSUME NEW h \in Slots PROVE SlotLess(h)'
  <2>1. h[1] \in Devices /\ Moves(Slots \ {h})
    BY <1>1 DEF Slots
  <2> QED
    BY <1>2, <1>4, <2>1, OthersStay
<1>6. \A i \in Items : (row'[i].at # "nowhere" => Recorded(i)')
  <2>1. Moves(Slots)
    BY <1>1
  <2> QED
    BY <2>1, RecordedStays
<1> QED
  BY <1>4, <1>5, <1>6 DEF LInv

\* Steps of a handler or its device: its own slot is what is left to look at.
LEMMA OwnStep ==
  ASSUME Calm, TInv, Follows, KInv, LInv, NEW h \in Slots,
         \/ Handle(h) \/ Receive(h) \/ GiveUp(h)
         \/ \E op \in Ops, i \in Items \cup {NoItem}, m \in BOOLEAN : SendSync(h[1], h[2], op, i, m),
         SlotLess(h)'
  PROVE  LInv'
<1>1. /\ Moves(Slots) /\ low' = low
      /\ \A g \in Slots : g # h => req'[g] = req[g]
      /\ \A d \in Devices : d # h[1] => dev'[d] = dev[d] /\ state'[d] = state[d]
  BY HandlersMove
<1>2. \A g, e \in Slots : g[1] = e[1] => g = e
  BY DEF Calm, OneAtATime, Slots
<1>3. ASSUME NEW g \in Slots PROVE SlotLess(g)'
  <2>1. CASE g = h
    BY <2>1
  <2>2. CASE g # h
    <3>1. g[1] \in Devices /\ g[1] # h[1]
      BY <1>2, <2>2 DEF Slots
    <3>2. Moves(Slots \ {g})
      <4>1. Slots \ {g} \in SUBSET Slots /\ h \in Slots \ {g}
        BY <2>2
      <4> QED
        BY <4>1, HandlersMove
    <3>3. low' \in Nat /\ low' >= low
      BY <1>1 DEF TInv, TypeOK
    <3> QED
      BY <1>1, <2>2, <3>1, <3>2, <3>3, OthersStay
  <2> QED
    BY <2>1, <2>2
<1>4. low' <= Len(feed')
  <2>1. low \in Nat /\ feed \in Seq(Change) /\ low <= Len(feed)
    BY DEF TInv, TypeOK, LInv
  <2>2. Len(feed) <= Len(feed') /\ Len(feed') \in Nat
    BY <1>1, <2>1 DEF Moves
  <2> QED
    BY <1>1, <2>1, <2>2
<1>5. \A i \in Items : (row'[i].at # "nowhere" => Recorded(i)')
  BY <1>1, RecordedStays
<1> QED
  BY <1>3, <1>4, <1>5 DEF LInv

\* A handler step that writes nothing leaves the world as it is.
LEMMA SameWorld ==
  ASSUME NEW h, UNCHANGED <<row, feed, due, low>>, \A g \in Slots : g # h => req'[g] = req[g]
  PROVE  /\ \A i, pos, skip : Comes(h, i, pos, skip)' <=> Comes(h, i, pos, skip)
         /\ \A d, i : ToldDeleted(d, i)' <=> ToldDeleted(d, i)
         /\ \A v, i : Beyond(v, i)' <=> Beyond(v, i)
         /\ \A d, i, v, c, item : Right(d, i, v, c, item)' <=> Right(d, i, v, c, item)
<1>1. \A i, pos, skip : Comes(h, i, pos, skip)' <=> Comes(h, i, pos, skip)
  BY DEF Comes, After
<1>2. \A d, i : ToldDeleted(d, i)' <=> ToldDeleted(d, i)
  BY DEF ToldDeleted
<1>3. \A v, i : Beyond(v, i)' <=> Beyond(v, i)
  BY DEF Beyond
<1>4. \A d, i, v, c, item : Right(d, i, v, c, item)' <=> Right(d, i, v, c, item)
  <2>1. \A i : Pruned(i)' <=> Pruned(i)
    BY DEF Pruned
  <2> QED
    BY <1>2, <1>3, <2>1 DEF Right, Live
<1> QED
  BY <1>1, <1>2, <1>3, <1>4

\* It is enough to look at the slot after the step, in the world before it.
LEMMA QuietStep ==
  ASSUME NEW h \in Slots, UNCHANGED <<row, feed, due, low>>, \A g \in Slots : g # h => req'[g] = req[g],
         NEW r, NEW v, NEW s, r = req'[h], v = dev'[h[1]], s = state'[h[1]],
         Placed(h, r, v, s), Filtered(r, v), Merges(h, r, v, s), Ahead(h, r, v, s), Behind(h, r, v)
  PROVE  SlotLess(h)'
<1>1. /\ \A i, pos, skip : Comes(h, i, pos, skip)' <=> Comes(h, i, pos, skip)
      /\ \A d, i : ToldDeleted(d, i)' <=> ToldDeleted(d, i)
      /\ \A w, i : Beyond(w, i)' <=> Beyond(w, i)
      /\ \A d, i, w, c, item : Right(d, i, w, c, item)' <=> Right(d, i, w, c, item)
  BY SameWorld
<1>2. Placed(h, r, v, s)'
  BY DEF Placed
<1>3. Filtered(r, v)'
  BY <1>1 DEF Filtered
<1>4. Merges(h, r, v, s)'
  BY <1>1 DEF Merges
<1>5. Ahead(h, r, v, s)'
  BY <1>1 DEF Ahead
<1>6. Behind(h, r, v)'
  BY <1>1 DEF Behind
<1> QED
  BY <1>2, <1>3, <1>4, <1>5, <1>6 DEF SlotLess

\* Nothing was acknowledged yet.
LEMMA NoEffect ==
  ASSUME NEW r, NEW v, NEW i, r.ack = "none", r.pc # "log"
  PROVE  Effective(r, v, i) = v.copy[i]
BY DEF Effective, Acknowledged

\* What is known of a slot.
LEMMA LessFacts ==
  ASSUME Calm, TInv, Follows, KInv, LInv, NEW h \in Slots
  PROVE  LET r == req[h]
             v == dev[h[1]]
             s == state[h[1]]
             k == known[h[1]]
         IN  /\ r \in Handler /\ v \in Device /\ s \in SyncState /\ SlotOK(r, v, s, k, There) /\ Once(r, feed)
             /\ h[1] \in Devices /\ feed \in Seq(Change) /\ low \in Nat /\ row \in [Items -> Row]
             /\ fresh \in Nat
             /\ req \in [Slots -> Handler] /\ dev \in [Devices -> Device] /\ state \in [Devices -> SyncState]
             /\ r.pc \in Reading \cup Writing => r.st = s
             /\ r.op \in {"Change", "Delete", "Fetch"} => r.item \in Items
             /\ r.pc \in {"load", "write", "log"} => r.op # "none"
             /\ r.pc = "log" => r.item \in Items
             /\ r.todo \subseteq DOMAIN feed /\ r.op \in Ops
             /\ Placed(h, r, v, s) /\ Filtered(r, v)
             /\ Merges(h, r, v, s) /\ Ahead(h, r, v, s) /\ Behind(h, r, v)
BY SlotFacts DEF LInv, SlotLess, TInv, TypeOK, Busy, Handler

\* A device asks.
LEMMA SendLess ==
  ASSUME Calm, TInv, Follows, KInv, LInv, NEW h \in Slots, NEW op \in Ops,
         NEW j \in Items \cup {NoItem}, NEW m \in BOOLEAN, SendSync(h[1], h[2], op, j, m)
  PROVE  SlotLess(h)'
<1> DEFINE b == IF j \in Items THEN dev[h[1]].copy[j] ELSE 0
           q == [Idle EXCEPT !.pc = "start", !.live = TRUE, !.key = dev[h[1]].key, !.op = op,
                             !.item = j, !.moves = m, !.base = b]
<1>1. h = <<h[1], h[2]>>
  BY DEF Slots
<1>2. /\ req[h].pc = "idle" /\ ((j = NoItem) <=> (op \in {"none", "Add"}))
      /\ j \in Items => dev[h[1]].copy[j] # 0
      /\ UNCHANGED <<row, feed, due, low, dev, state>>
      /\ req' = [req EXCEPT ![h] = q]
  BY <1>1 DEF SendSync
<1>3. req'[h] = q /\ (\A g \in Slots : g # h => req'[g] = req[g])
  BY <1>2, LessFacts
<1> SUFFICES ASSUME NEW o, NEW r, NEW v, NEW s, o = req[h], r = req'[h], v = dev[h[1]], s = state[h[1]],
                    v = dev'[h[1]], s = state'[h[1]]
             PROVE  SlotLess(h)'
  BY <1>2
<1>4. /\ r.pc = "start" /\ r.key = v.key /\ r.op = op /\ r.item = j /\ r.ack = "none"
      /\ r.out = Silent /\ r.todo = {} /\ r.status = 0 /\ r.skip = {}
      /\ j \in Items => r.base = v.copy[j]
  <2>1. r = q /\ (j \in Items => b = v.copy[j]) /\ v.key = dev[h[1]].key
    BY <1>3
  <2> HIDE DEF b
  <2> QED
    BY <2>1 DEF Idle
<1>5. /\ Placed(h, o, v, s) /\ Filtered(o, v) /\ Ahead(h, o, v, s) /\ Asked(o, v) /\ v \in Device
  BY LessFacts DEF SlotOK
<1>6. o = Idle /\ o.pc = "idle" /\ o.ack = "none" /\ o.skip = {} /\ o.item = NoItem
  BY <1>2, <1>5 DEF Asked, Idle
<1>7. \A i \in Items : Silent[i].name = "none"
  BY DEF Silent, NoCommand
<1>n. NoItem \notin Items
  BY EasSyncAssumption
<1>8. Placed(h, r, v, s)
  BY <1>2, <1>4, <1>5, <1>6, <1>n DEF Placed, Abreast, Answering, Reading, Writing
<1>9. Filtered(r, v)
  BY <1>4, <1>5, <1>7, <1>n DEF Filtered
<1>10. Ahead(h, r, v, s)
  <2> SUFFICES ASSUME Abreast(r, v, s), NEW i \in Items
               PROVE  Comes(h, i, s.seq, r.skip) \/ Right(h[1], i, v, Effective(r, v, i), r.item)
    BY DEF Ahead
  <2>1. Comes(h, i, s.seq, o.skip) \/ Right(h[1], i, v, Effective(o, v, i), o.item)
    BY <1>4, <1>5, <1>6 DEF Ahead, Abreast, Reading
  <2>2. Effective(o, v, i) = v.copy[i] /\ Effective(r, v, i) = v.copy[i]
    BY <1>4, <1>6, NoEffect
  <2>3. Class = "Email" /\ i \in Old /\ i = j => Beyond(v, i)
    BY <1>2, <1>5 DEF Filtered
  <2> QED
    BY <1>4, <1>6, <2>1, <2>2, <2>3 DEF Right
<1>11. Merges(h, r, v, s) /\ Behind(h, r, v)
  BY <1>4 DEF Merges, Behind, Answering, Writing
<1> QED
  BY <1>2, <1>3, <1>8, <1>9, <1>10, <1>11, QuietStep

\* The key check and the initial sync, which will be told of every row.
LEMMA CheckLess ==
  ASSUME Calm, TInv, Follows, KInv, LInv, NEW h \in Slots,
         Restart(h) \/ ForgetAllItems(h) \/ Begin(h) \/ Continue(h) \/ Refuse(h)
  PROVE  SlotLess(h)'
<1> SUFFICES ASSUME NEW o, NEW v, NEW s, o = req[h], v = dev[h[1]], s = state[h[1]]
             PROVE  SlotLess(h)'
  OBVIOUS
<1>1. /\ Placed(h, o, v, s) /\ Filtered(o, v) /\ Ahead(h, o, v, s) /\ Asked(o, v) /\ v \in Device
      /\ o \in Handler /\ s \in SyncState /\ h[1] \in Devices /\ feed \in Seq(Change)
      /\ req \in [Slots -> Handler] /\ state \in [Devices -> SyncState]
  BY LessFacts DEF SlotOK
<1>2. UNCHANGED <<row, feed, due, low, dev>> /\ (\A g \in Slots : g # h => req'[g] = req[g]) /\ dev'[h[1]] = v
  BY <1>1 DEF Restart, ForgetAllItems, Begin, Continue, Refuse
<1>3. ASSUME NEW r, NEW t, r = req'[h], t = state'[h[1]],
             Placed(h, r, v, t), Filtered(r, v), Ahead(h, r, v, t), r.pc # "write", ~Answering(r)
      PROVE  SlotLess(h)'
  <2>1. Merges(h, r, v, t) /\ Behind(h, r, v)
    BY <1>3 DEF Merges, Behind
  <2> QED
    BY <1>2, <1>3, <2>1, QuietStep
<1>4. o.pc \in {"start", "forget", "begin"}
  BY DEF Restart, ForgetAllItems, Begin, Continue, Refuse
<1>5. o.skip = {} /\ o.ack = "none"
  BY <1>1, <1>4 DEF Placed, Asked
<1>t. o.todo = {}
  BY <1>1, <1>4 DEF Placed
<1>6. CASE Restart(h)
  <2> DEFINE r == [o EXCEPT !.pc = "forget"]
  <2>1. req'[h] = r /\ state'[h[1]] = NoState
    BY <1>1, <1>6 DEF Restart
  <2>2. Placed(h, r, v, NoState)
    BY <1>1, <1>5, <1>t, <1>4 DEF Placed, Abreast, Answering, Reading, Writing, NoState, Handler
  <2>3. Filtered(r, v) /\ Ahead(h, r, v, NoState) /\ r.pc # "write" /\ ~Answering(r)
    BY <1>1 DEF Filtered, Ahead, Abreast, Answering, Reading, Writing, Handler
  <2> HIDE DEF r
  <2> QED
    BY <1>3, <2>1, <2>2, <2>3
<1>7. CASE ForgetAllItems(h)
  <2> DEFINE r == [o EXCEPT !.pc = "begin"]
  <2>1. req'[h] = r /\ state'[h[1]] = s
    BY <1>1, <1>7 DEF ForgetAllItems
  <2>2. Placed(h, r, v, s)
    BY <1>1, <1>5, <1>t, <1>4 DEF Placed, Abreast, Answering, Reading, Writing, Handler
  <2>3. Filtered(r, v) /\ Ahead(h, r, v, s) /\ r.pc # "write" /\ ~Answering(r)
    BY <1>1 DEF Filtered, Ahead, Abreast, Answering, Reading, Writing, Handler
  <2> HIDE DEF r
  <2> QED
    BY <1>3, <2>1, <2>2, <2>3
<1>8. CASE Refuse(h)
  <2> DEFINE r == [o EXCEPT !.pc = "reply", !.status = 3]
  <2>1. req'[h] = r /\ state'[h[1]] = s
    BY <1>1, <1>8 DEF Refuse
  <2>2. Placed(h, r, v, s)
    BY <1>1, <1>5, <1>t, <1>4 DEF Placed, Abreast, Answering, Reading, Writing, Handler
  <2>3. Filtered(r, v) /\ Ahead(h, r, v, s) /\ r.pc # "write" /\ ~Answering(r)
    BY <1>1 DEF Filtered, Ahead, Abreast, Answering, Reading, Writing, Handler
  <2> HIDE DEF r
  <2> QED
    BY <1>3, <2>1, <2>2, <2>3
<1>9. Proceed(o.op) \in {"load", "known"}
  BY DEF Proceed
<1>10. CASE Continue(h)
  <2> DEFINE r == [o EXCEPT !.pc = Proceed(o.op), !.st = s]
  <2>1. req'[h] = r /\ state'[h[1]] = s /\ o.pc = "start" /\ s.key = o.key /\ o.key # 0
    BY <1>1, <1>10 DEF Continue
  <2>2. v.key = o.key
    BY <1>1, <2>1 DEF Asked
  <2>3. Abreast(o, v, s)
    BY <2>1, <2>2 DEF Abreast
  <2>4. Placed(h, r, v, s)
    BY <1>1, <1>5, <1>9, <1>t, <2>3 DEF Placed, Abreast, Answering, Reading, Writing, Handler
  <2>5. Filtered(r, v) /\ r.pc # "write" /\ ~Answering(r) /\ r.pc # "log"
    BY <1>1, <1>9 DEF Filtered, Answering, Writing, Handler
  <2>6. r.ack = "none" /\ r.skip = {} /\ r.item = o.item
    BY <1>1, <1>5 DEF Handler
  <2> HIDE DEF r
  <2>7. Ahead(h, r, v, s)
    <3>1. \A i \in Items : Effective(r, v, i) = v.copy[i] /\ Effective(o, v, i) = v.copy[i]
      BY <1>5, <2>1, <2>5, <2>6, NoEffect
    <3> QED
      BY <1>1, <1>5, <2>3, <2>6, <3>1 DEF Ahead
  <2> QED
    BY <1>3, <2>1, <2>4, <2>5, <2>7
<1>11. CASE Begin(h)
  <2> DEFINE t == [key |-> 1, seq |-> 0]
             r == [o EXCEPT !.pc = Proceed(o.op), !.st = t]
  <2>1. req'[h] = r /\ state'[h[1]] = t /\ o.pc = "begin"
    BY <1>1, <1>11 DEF Begin
  <2>2. v = NewDevice
    BY <1>1, <2>1 DEF Asked
  <2>3. v.first = 0 /\ \A i \in Items : v.copy[i] = 0
    BY <2>2 DEF NewDevice
  <2>4. Placed(h, r, v, t)
    BY <1>1, <1>5, <1>9, <1>t, <2>3 DEF Placed, Abreast, Answering, Reading, Writing, Handler
  <2>5. Filtered(r, v) /\ r.pc # "write" /\ ~Answering(r) /\ r.pc # "log"
    BY <1>1, <1>9 DEF Filtered, Answering, Writing, Handler
  <2>6. r.ack = "none" /\ r.skip = {}
    BY <1>1, <1>5 DEF Handler
  <2> HIDE DEF r, t
  <2>7. Ahead(h, r, v, t)
    <3> SUFFICES ASSUME NEW i \in Items
                 PROVE  Comes(h, i, t.seq, r.skip) \/ Right(h[1], i, v, Effective(r, v, i), r.item)
      BY DEF Ahead
    <3>1. Effective(r, v, i) = 0
      BY <2>3, <2>5, <2>6, NoEffect
    <3>2. CASE ~Live(i) \/ Pruned(i)
      BY <3>1, <3>2 DEF Right
    <3>3. CASE Live(i) /\ ~\E u \in DOMAIN feed : feed[u].item = i
      <4>1. Recorded(i)
        BY <3>3 DEF LInv, Live
      <4>2. \A g \in Slots : req[g].pc = "log" => g # h
        BY <2>1
      <4> QED
        BY <3>3, <4>1, <4>2 DEF Recorded, Comes
    <3>4. CASE \E u \in DOMAIN feed : feed[u].item = i /\ ~(u <= low)
      <4>1. PICK u \in DOMAIN feed : feed[u].item = i /\ ~(u <= low)
        BY <3>4
      <4>2. u \in After(t.seq)
        BY <1>1, <4>1 DEF After, t, TInv, TypeOK
      <4> QED
        BY <2>6, <4>1, <4>2 DEF Comes
    <3> QED
      BY <3>2, <3>3, <3>4 DEF Pruned
  <2> QED
    BY <1>3, <2>1, <2>4, <2>5, <2>7
<1> QED
  BY <1>6, <1>7, <1>8, <1>10, <1>11

\* applyClientCommands, the steps that read.
LEMMA LoadLess ==
  ASSUME Calm, TInv, Follows, KInv, LInv, NEW h \in Slots,
         Load(h) \/ LoadFetch(h) \/ WriteAddFails(h)
  PROVE  SlotLess(h)'
<1> SUFFICES ASSUME NEW o, NEW v, NEW s, o = req[h], v = dev[h[1]], s = state[h[1]]
             PROVE  SlotLess(h)'
  OBVIOUS
<1>1. /\ Placed(h, o, v, s) /\ Filtered(o, v) /\ Ahead(h, o, v, s) /\ Asked(o, v) /\ v \in Device
      /\ o \in Handler /\ s \in SyncState /\ h[1] \in Devices /\ feed \in Seq(Change)
      /\ req \in [Slots -> Handler] /\ o.op \in Ops /\ row \in [Items -> Row]
      /\ o.op \in {"Change", "Delete", "Fetch"} => o.item \in Items
      /\ o.pc \in {"load", "write", "log"} => o.op # "none"
  BY LessFacts DEF SlotOK
<1>2. UNCHANGED <<row, feed, due, low, dev, state>> /\ (\A g \in Slots : g # h => req'[g] = req[g])
      /\ dev'[h[1]] = v /\ state'[h[1]] = s
  BY <1>1 DEF Load, LoadFetch, WriteAddFails
<1>3. o.pc \in {"load", "write"}
  BY DEF Load, LoadFetch, WriteAddFails
<1>4. Abreast(o, v, s) /\ o.ack = "none" /\ o.skip = {} /\ o.todo = {}
  BY <1>1, <1>3 DEF Abreast, Reading, Placed, Asked
<1>5. \A i \in Items : Comes(h, i, s.seq, o.skip) \/ Right(h[1], i, v, v.copy[i], o.item)
  <2>1. \A i \in Items : Effective(o, v, i) = v.copy[i]
    BY <1>3, <1>4, NoEffect
  <2> QED
    BY <1>1, <1>4, <2>1 DEF Ahead
<1>6. ASSUME NEW r, r = req'[h], r.pc \in {"write", "known"}, r.skip = o.skip, r.todo = o.todo, r.out = o.out,
             r.item = o.item, r.op = o.op, r.key = o.key, r.base = o.base,
             r.op = "Add" => r.ack # "ok", Merges(h, r, v, s),
             \A i \in Items : Comes(h, i, s.seq, o.skip) \/ Right(h[1], i, v, Effective(r, v, i), o.item)
      PROVE  SlotLess(h)'
  <2>1. Placed(h, r, v, s)
    BY <1>1, <1>4, <1>6 DEF Placed, Answering, Writing
  <2>2. Filtered(r, v)
    BY <1>1, <1>6 DEF Filtered
  <2>3. Ahead(h, r, v, s)
    BY <1>6 DEF Ahead
  <2>4. Behind(h, r, v)
    BY <1>6 DEF Behind, Answering, Writing
  <2> QED
    BY <1>2, <1>6, <2>1, <2>2, <2>3, <2>4, QuietStep
<1>7. CASE Load(h) /\ o.op = "Add"
  <2> DEFINE r == [o EXCEPT !.pc = "write"]
  <2>1. r = req'[h]
    BY <1>1, <1>7 DEF Load
  <2>2. /\ r.pc = "write" /\ r.skip = o.skip /\ r.todo = o.todo /\ r.out = o.out /\ r.item = o.item
        /\ r.op = o.op /\ r.key = o.key /\ r.base = o.base /\ r.ack = "none"
    BY <1>1, <1>4 DEF Handler
  <2> HIDE DEF r
  <2>3. Merges(h, r, v, s)
    BY <1>7, <2>2 DEF Merges
  <2>4. \A i \in Items : Effective(r, v, i) = v.copy[i]
    BY <2>2, NoEffect
  <2> QED
    BY <1>5, <1>6, <2>1, <2>2, <2>3, <2>4
<1>8. CASE Load(h) /\ o.op # "Add" /\ row[o.item].at = "here"
  <2> DEFINE r == [o EXCEPT !.pc = "write", !.snap = row[o.item]]
             i == o.item
  <2>1. r = req'[h] /\ o.op # "Fetch"
    BY <1>1, <1>8 DEF Load
  <2>2. /\ r.pc = "write" /\ r.skip = o.skip /\ r.todo = o.todo /\ r.out = o.out /\ r.item = o.item
        /\ r.op = o.op /\ r.key = o.key /\ r.base = o.base /\ r.ack = "none" /\ r.snap = row[i]
    BY <1>1, <1>4 DEF Handler
  <2> HIDE DEF r
  <2>3. Merges(h, r, v, s)
    <3> SUFFICES ASSUME o.op = "Change", Class = "Email"
                 PROVE  \/ Comes(h, i, s.seq, r.skip)
                        \/ row[i].deleted /\ i \in v.made
                        \/ ~row[i].deleted /\ (row[i].rev = r.base \/ ToldDeleted(h[1], i)
                                                  \/ i \in v.dropped)
      BY <2>2 DEF Merges
    <3>1. i \in Items /\ v.copy[i] # 0 /\ r.base = v.copy[i]
      BY <1>1, <2>2 DEF Asked, Placed
    <3>2. Comes(h, i, s.seq, r.skip) \/ Right(h[1], i, v, v.copy[i], i)
      BY <1>5, <2>2, <3>1
    <3> QED
      BY <1>8, <3>1, <3>2 DEF Right, Live
  <2>4. \A j \in Items : Effective(r, v, j) = v.copy[j]
    BY <2>2, NoEffect
  <2> QED
    BY <1>5, <1>6, <1>8, <2>1, <2>2, <2>3, <2>4
<1>9. CASE Load(h) /\ o.op # "Add" /\ row[o.item].at # "here"
  <2> DEFINE r == [o EXCEPT !.pc = "known", !.ack = "gone"]
  <2>1. r = req'[h]
    BY <1>1, <1>9 DEF Load
  <2>2. /\ r.pc = "known" /\ r.skip = o.skip /\ r.todo = o.todo /\ r.out = o.out /\ r.item = o.item
        /\ r.op = o.op /\ r.key = o.key /\ r.base = o.base /\ r.ack = "gone"
    BY <1>1, <1>4 DEF Handler
  <2> HIDE DEF r
  <2>3. Merges(h, r, v, s)
    BY <2>2 DEF Merges
  <2>4. ASSUME NEW j \in Items
        PROVE  Comes(h, j, s.seq, o.skip) \/ Right(h[1], j, v, Effective(r, v, j), o.item)
    <3>1. CASE j = o.item /\ o.op = "Delete"
      <4>1. Effective(r, v, j) = 0
        BY <2>2, <3>1 DEF Effective, Acknowledged
      <4>2. ~Live(j)
        BY <1>9, <3>1 DEF Live
      <4> QED
        BY <4>1, <4>2 DEF Right
    <3>2. CASE ~(j = o.item /\ o.op = "Delete")
      <4>1. Effective(r, v, j) = v.copy[j]
        BY <2>2, <3>2 DEF Effective, Acknowledged
      <4> QED
        BY <1>5, <4>1
    <3> QED
      BY <3>1, <3>2
  <2> QED
    BY <1>6, <1>9, <2>1, <2>2, <2>3, <2>4
<1>10. CASE LoadFetch(h)
  <2> DEFINE a == IF Live(o.item) THEN "ok" ELSE "gone"
             r == [o EXCEPT !.pc = "known", !.snap = row[o.item], !.ack = a]
  <2>1. r = req'[h] /\ o.op = "Fetch"
    BY <1>1, <1>10 DEF LoadFetch
  <2>2. /\ r.pc = "known" /\ r.skip = o.skip /\ r.todo = o.todo /\ r.out = o.out /\ r.item = o.item
        /\ r.op = o.op /\ r.key = o.key /\ r.base = o.base /\ r.ack = a /\ r.snap = row[o.item]
    BY <1>1 DEF Handler
  <2>a. (a = "ok" /\ Live(o.item)) \/ (a = "gone" /\ ~Live(o.item))
    OBVIOUS
  <2> HIDE DEF r, a
  <2>3. Merges(h, r, v, s)
    BY <2>2 DEF Merges
  <2>4. ASSUME NEW j \in Items
        PROVE  Comes(h, j, s.seq, o.skip) \/ Right(h[1], j, v, Effective(r, v, j), o.item)
    <3>1. CASE j = o.item /\ a = "ok"
      <4>1. Effective(r, v, j) = row[j].rev
        BY <2>1, <2>2, <3>1 DEF Effective, Acknowledged
      <4> QED
        BY <2>a, <3>1, <4>1 DEF Right
    <3>2. CASE ~(j = o.item /\ a = "ok")
      <4>1. Effective(r, v, j) = v.copy[j]
        BY <2>1, <2>2, <2>a, <3>2 DEF Effective, Acknowledged
      <4> QED
        BY <1>5, <4>1
    <3> QED
      BY <3>1, <3>2
  <2> QED
    BY <1>6, <2>1, <2>2, <2>3, <2>4
<1>11. CASE WriteAddFails(h)
  <2> DEFINE r == [o EXCEPT !.pc = "known", !.ack = "err"]
  <2>1. r = req'[h]
    BY <1>1, <1>11 DEF WriteAddFails
  <2>2. /\ r.pc = "known" /\ r.skip = o.skip /\ r.todo = o.todo /\ r.out = o.out /\ r.item = o.item
        /\ r.op = o.op /\ r.key = o.key /\ r.base = o.base /\ r.ack = "err"
    BY <1>1, <1>4 DEF Handler
  <2> HIDE DEF r
  <2>3. Merges(h, r, v, s)
    BY <2>2 DEF Merges
  <2>4. \A j \in Items : Effective(r, v, j) = v.copy[j]
    BY <2>2 DEF Effective, Acknowledged
  <2> QED
    BY <1>5, <1>6, <2>1, <2>2, <2>3, <2>4
<1> QED
  BY <1>7, <1>8, <1>9, <1>10, <1>11

\* applyClientCommands, the statements that write a row.
LEMMA WriteLess ==
  ASSUME Calm, TInv, Follows, KInv, LInv, NEW h \in Slots,
         WriteAdd(h) \/ WriteChange(h) \/ WriteDelete(h)
  PROVE  SlotLess(h)'
<1> SUFFICES ASSUME NEW o, NEW v, NEW s, o = req[h], v = dev[h[1]], s = state[h[1]],
                    NEW r, NEW n, r = req'[h], n = fresh'
             PROVE  SlotLess(h)'
  OBVIOUS
<1>1. /\ Placed(h, o, v, s) /\ Filtered(o, v) /\ Ahead(h, o, v, s) /\ Merges(h, o, v, s) /\ Asked(o, v)
      /\ v \in Device /\ fresh \in Nat
      /\ o \in Handler /\ s \in SyncState /\ h[1] \in Devices /\ feed \in Seq(Change)
      /\ req \in [Slots -> Handler] /\ o.op \in Ops /\ row \in [Items -> Row]
      /\ o.op \in {"Change", "Delete", "Fetch"} => o.item \in Items
  BY LessFacts DEF SlotOK
<1>2. UNCHANGED <<feed, due, low, dev, state>> /\ o.pc = "write"
      /\ dev'[h[1]] = v /\ state'[h[1]] = s
  BY DEF WriteAdd, WriteChange, WriteDelete
<1>3. \A g \in Slots : g # h => req'[g] = req[g]
  BY <1>1 DEF WriteAdd, WriteChange, WriteDelete
<1>4. Abreast(o, v, s) /\ o.ack = "none" /\ o.skip = {} /\ o.todo = {}
  BY <1>1, <1>2 DEF Abreast, Reading, Placed, Asked
<1>5. \A i \in Items : Comes(h, i, s.seq, o.skip) \/ Right(h[1], i, v, v.copy[i], o.item)
  <2>1. \A i \in Items : Effective(o, v, i) = v.copy[i]
    BY <1>2, <1>4, NoEffect
  <2> QED
    BY <1>1, <1>4, <2>1 DEF Ahead
<1>6. /\ \A i, pos, skip : Comes(h, i, pos, skip)' <=> Comes(h, i, pos, skip)
      /\ \A i : ToldDeleted(h[1], i)' <=> ToldDeleted(h[1], i)
      /\ \A w, i : Beyond(w, i)' <=> Beyond(w, i)
      /\ \A i : Pruned(i)' <=> Pruned(i)
  <2>1. \A i, pos, skip : Comes(h, i, pos, skip)' <=> Comes(h, i, pos, skip)
    BY <1>2, <1>3 DEF Comes, After
  <2>2. \A i : ToldDeleted(h[1], i)' <=> ToldDeleted(h[1], i)
    BY <1>2 DEF ToldDeleted
  <2>3. \A w, i : Beyond(w, i)' <=> Beyond(w, i)
    BY <1>2 DEF Beyond
  <2>4. \A i : Pruned(i)' <=> Pruned(i)
    BY <1>2 DEF Pruned
  <2> QED
    BY <2>1, <2>2, <2>3, <2>4
<1>7. ASSUME r.pc = "log", r.skip = o.skip, r.todo = o.todo, r.out = o.out,
             r.op = o.op, r.key = o.key, r.base = o.base, r.ack = o.ack,
             r.op # "Add" => r.item = o.item,
             \A j \in Items : j # r.item => row'[j] = row[j],
             NEW i \in Items, i = r.item,
             Comes(h, i, s.seq, r.skip) \/ Right(h[1], i, v, Effective(r, v, i), i)'
      PROVE  SlotLess(h)'
  <2>1. Placed(h, r, v, s)'
    BY <1>1, <1>2, <1>4, <1>7 DEF Placed, Abreast, Reading, Answering, Writing
  <2>2. Filtered(r, v)'
    BY <1>1, <1>4, <1>6, <1>7 DEF Filtered
  <2>3. Ahead(h, r, v, s)'
    <3> SUFFICES ASSUME NEW j \in Items
                 PROVE  Comes(h, j, s.seq, r.skip)' \/ Right(h[1], j, v, Effective(r, v, j), r.item)'
      BY DEF Ahead
    <3>1. CASE j = i
      BY <1>6, <1>7, <3>1
    <3>2. CASE j # i
      <4>1. Effective(r, v, j) = v.copy[j]
        BY <1>7, <3>2 DEF Effective, Acknowledged
      <4>2. Live(j)' <=> Live(j)
        BY <1>7, <3>2 DEF Live
      <4>3. Comes(h, j, s.seq, o.skip) \/ Right(h[1], j, v, v.copy[j], o.item)
        BY <1>5
      <4>4. Right(h[1], j, v, v.copy[j], o.item) => Right(h[1], j, v, v.copy[j], r.item)'
        BY <1>6, <1>7, <3>2, <4>2 DEF Right
      <4> QED
        BY <1>6, <1>7, <4>1, <4>3, <4>4
    <3> QED
      BY <3>1, <3>2
  <2>4. Behind(h, r, v)' /\ Merges(h, r, v, s)'
    BY <1>7 DEF Behind, Answering, Writing, Merges
  <2> QED
    BY <1>2, <1>7, <2>1, <2>2, <2>3, <2>4 DEF SlotLess
<1>n. NoItem \notin Items /\ Class \in {"Email", "PIM"}
  BY EasSyncAssumption
<1>8. CASE WriteAdd(h)
  <2>1. PICK i \in Items :
          /\ fresh' = fresh + 1
          /\ row' = [row EXCEPT ![i] = [at |-> "here", deleted |-> FALSE, rev |-> fresh']]
          /\ req' = [req EXCEPT ![h].pc = "log", ![h].item = i, ![h].rev = fresh']
          /\ row[i].at = "nowhere"
    BY <1>8, Zenon DEF WriteAdd
  <2>2. r = [o EXCEPT !.pc = "log", !.item = i, !.rev = n] /\ o.op = "Add"
    BY <1>1, <1>8, <2>1 DEF WriteAdd
  <2>3. /\ r.pc = "log" /\ r.skip = o.skip /\ r.todo = o.todo /\ r.out = o.out /\ r.item = i
        /\ r.op = o.op /\ r.key = o.key /\ r.base = o.base /\ r.ack = o.ack /\ r.rev = n
    BY <1>1, <2>2 DEF Handler
  <2>4. Effective(r, v, i) = n
    BY <1>1, <2>2 DEF Effective, Acknowledged, Handler
  <2>5. /\ row'[i].rev = fresh' /\ row'[i].at = "here" /\ ~row'[i].deleted
        /\ \A j \in Items : j # i => row'[j] = row[j]
    BY <1>1, <2>1
  <2>6. Right(h[1], i, v, Effective(r, v, i), i)'
    BY <2>4, <2>5 DEF Right, Live
  <2> QED
    BY <1>7, <2>2, <2>3, <2>5, <2>6
<1>9. CASE WriteChange(h)
  <2> DEFINE i == o.item
             del == IF Class = "Email" THEN o.snap.deleted ELSE FALSE
  <2>1. /\ r = [o EXCEPT !.pc = "log", !.rev = n] /\ o.op = "Change" /\ fresh' = fresh + 1
        /\ row' = [row EXCEPT ![i] = [at |-> "here", deleted |-> del, rev |-> fresh']]
    BY <1>1, <1>9 DEF WriteChange
  <2>2. i \in Items
    BY <1>1, <2>1
  <2>3. /\ r.pc = "log" /\ r.skip = o.skip /\ r.todo = o.todo /\ r.out = o.out /\ r.item = i
        /\ r.op = o.op /\ r.key = o.key /\ r.base = o.base /\ r.ack = o.ack /\ r.rev = n
    BY <1>1, <2>1 DEF Handler
  <2>4. Effective(r, v, i) = IF Class = "PIM" \/ o.snap.rev = o.base THEN n ELSE v.copy[i]
    BY <1>1, <2>1 DEF Effective, Acknowledged, Handler
  <2>5. /\ row'[i].rev = fresh' /\ row'[i].at = "here" /\ row'[i].deleted = del
        /\ \A j \in Items : j # i => row'[j] = row[j]
    BY <1>1, <2>1, <2>2
  <2>6. o.snap.deleted \in BOOLEAN
    BY <1>1 DEF Handler, Row
  <2>7. Comes(h, i, s.seq, r.skip) \/ Right(h[1], i, v, Effective(r, v, i), i)'
    <3>1. CASE Class = "PIM"
      BY <2>4, <2>5, <3>1 DEF Right, Live
    <3>2. CASE Class = "Email"
      <4>1. \/ Comes(h, i, s.seq, o.skip)
            \/ o.snap.deleted /\ i \in v.made
            \/ ~o.snap.deleted /\ (o.snap.rev = o.base \/ ToldDeleted(h[1], i) \/ i \in v.dropped)
        BY <1>1, <1>2, <2>1, <3>2 DEF Merges
      <4>2. row'[i].deleted <=> o.snap.deleted
        BY <2>5, <3>2
      <4> QED
        BY <1>6, <2>3, <2>4, <2>5, <4>1, <4>2 DEF Right, Live
    <3> QED
      BY <1>n, <3>1, <3>2
  <2> HIDE DEF i
  <2> QED
    BY <1>7, <2>1, <2>2, <2>3, <2>5, <2>7 DEF i
<1>10. CASE WriteDelete(h)
  <2> DEFINE i == o.item
             new == IF Class # "Email" THEN [o.snap EXCEPT !.deleted = TRUE]
                    ELSE IF o.moves THEN [row[i] EXCEPT !.at = "away"]
                    ELSE [row[i] EXCEPT !.deleted = TRUE]
  <2>1. /\ r = [o EXCEPT !.pc = "log"] /\ o.op = "Delete" /\ row' = [row EXCEPT ![i] = new]
    BY <1>1, <1>10 DEF WriteDelete
  <2>2. i \in Items /\ row[i] \in Row /\ o.snap \in Row
    BY <1>1, <2>1 DEF Handler
  <2>3. /\ r.pc = "log" /\ r.skip = o.skip /\ r.todo = o.todo /\ r.out = o.out /\ r.item = i
        /\ r.op = o.op /\ r.key = o.key /\ r.base = o.base /\ r.ack = o.ack
    BY <1>1, <2>1 DEF Handler
  <2>4. Effective(r, v, i) = 0
    BY <1>1, <2>1 DEF Effective, Acknowledged, Handler
  <2>5. new.at # "here" \/ new.deleted
    BY <2>2 DEF Row
  <2> HIDE DEF new
  <2>6. row'[i] = new /\ \A j \in Items : j # i => row'[j] = row[j]
    BY <1>1, <2>1, <2>2
  <2>7. Right(h[1], i, v, Effective(r, v, i), i)'
    BY <2>4, <2>5, <2>6 DEF Right, Live
  <2> HIDE DEF i
  <2> QED
    BY <1>7, <2>1, <2>2, <2>3, <2>6, <2>7 DEF i
<1> QED
  BY <1>8, <1>9, <1>10

\* applyClientCommands, the record of the device's own change, which it will pass over.
LEMMA LogLess ==
  ASSUME Calm, TInv, Follows, KInv, LInv, NEW h \in Slots, Log(h)
  PROVE  SlotLess(h)'
<1> SUFFICES ASSUME NEW o, NEW v, NEW s, o = req[h], v = dev[h[1]], s = state[h[1]],
                    NEW r, NEW len, r = req'[h], len = Len(feed')
             PROVE  SlotLess(h)'
  OBVIOUS
<1> DEFINE c == [item |-> o.item, kind |-> KindOf(o.op), by |-> h[1]]
<1>1. /\ Placed(h, o, v, s) /\ Filtered(o, v) /\ Ahead(h, o, v, s) /\ v \in Device
      /\ o \in Handler /\ s \in SyncState /\ h[1] \in Devices /\ feed \in Seq(Change)
      /\ req \in [Slots -> Handler] /\ o.op \in Ops /\ low \in Nat
      /\ o.pc \in {"load", "write", "log"} => o.op # "none"
      /\ o.pc = "log" => o.item \in Items
      /\ SlotOK(o, v, s, known[h[1]], There) /\ low' = low
  BY LessFacts DEF SlotOK, Log
<1>2. /\ UNCHANGED <<row, due, low, dev, state>> /\ o.pc = "log"
      /\ dev'[h[1]] = v /\ state'[h[1]] = s
      /\ feed' = Append(feed, c)
      /\ r = [o EXCEPT !.pc = "known", !.ack = "ok", !.skip = {len}]
      /\ \A g \in Slots : g # h => req'[g] = req[g]
  BY <1>1 DEF Log, AddChange
<1>3. c \in Change /\ c.item = o.item /\ c.by = h[1]
  BY <1>1, <1>2 DEF Change, KindOf, Kinds
<1> HIDE DEF c
<1>4. /\ len = Len(feed) + 1 /\ Len(feed) \in Nat /\ DOMAIN feed' = DOMAIN feed \cup {len}
      /\ feed'[len] = c /\ (\A u \in DOMAIN feed : feed'[u] = feed[u] /\ u # len)
  BY <1>1, <1>2, <1>3
<1>5. /\ r.pc = "known" /\ r.ack = "ok" /\ r.skip = {len} /\ r.todo = o.todo /\ r.out = o.out
      /\ r.op = o.op /\ r.key = o.key /\ r.base = o.base /\ r.item = o.item
      /\ o.todo = {} /\ o.skip = {} /\ Abreast(o, v, s)
  BY <1>1, <1>2 DEF Handler, Placed, Abreast, Reading
<1>6. \A i \in Items : Effective(r, v, i) = Effective(o, v, i)
  BY <1>1, <1>2 DEF Effective, Acknowledged, Handler
<1>7. v.first \in Nat /\ s.seq \in Nat
  BY <1>1 DEF Device, SyncState
<1>8. \A i \in Items : Beyond(v, i) => Beyond(v, i)'
  BY <1>2, <1>3, BeyondStays
<1>9. Placed(h, r, v, s)'
  <2>1. r.skip \subseteq DOMAIN feed' /\ (\A u \in r.skip : feed'[u].by = h[1]) /\ r.todo = {}
    BY <1>3, <1>4, <1>5
  <2>2. s.seq <= Len(feed') /\ v.first <= Len(feed') /\ v.first <= s.seq
    BY <1>1, <1>4, <1>5, <1>7 DEF Placed
  <2>3. r.op \in {"Change", "Delete", "Fetch"} => r.base = v.copy[r.item]
    BY <1>1, <1>5 DEF Placed
  <2> QED
    BY <1>5, <2>1, <2>2, <2>3 DEF Placed, Answering, Writing
<1>10. Filtered(r, v)'
  <2>1. Beyond(v, o.item)'
    <3>1. len > v.first /\ len \in DOMAIN feed' /\ feed'[len].item = o.item
      BY <1>1, <1>3, <1>4, <1>7 DEF Placed
    <3> QED
      BY <3>1 DEF Beyond
  <2> QED
    BY <1>1, <1>5, <1>8, <2>1 DEF Filtered
<1>11. Ahead(h, r, v, s)'
  <2> SUFFICES ASSUME NEW i \in Items
               PROVE  Comes(h, i, s.seq, r.skip)' \/ Right(h[1], i, v, Effective(r, v, i), r.item)'
    BY DEF Ahead
  <2>1. Comes(h, i, s.seq, {}) \/ Right(h[1], i, v, Effective(o, v, i), o.item)
    BY <1>1, <1>5 DEF Ahead
  <2>2. ASSUME Comes(h, i, s.seq, {}) PROVE Comes(h, i, s.seq, r.skip)'
    <3>1. \A u \in After(s.seq) : u \in After(s.seq)' /\ u \notin r.skip /\ feed'[u] = feed[u]
      BY <1>2, <1>4, <1>5 DEF After
    <3> QED
      BY <1>2, <2>2, <3>1 DEF Comes
  <2>3. ASSUME Right(h[1], i, v, Effective(o, v, i), o.item)
        PROVE  Right(h[1], i, v, Effective(r, v, i), r.item)'
    <3>1. ToldDeleted(h[1], i) => ToldDeleted(h[1], i)'
      BY <1>2, <1>3, ToldStays
    <3>2. i # o.item /\ ~Beyond(v, i) => ~Beyond(v, i)'
      BY <1>2, <1>3, BeyondStays
    <3>3. Live(i)' <=> Live(i)
      BY <1>2 DEF Live
    <3>4. i # o.item /\ Pruned(i) => Pruned(i)'
      BY <1>1, <1>2, <1>3, PrunedStays
    <3>5. i = o.item /\ o.op = "Delete" => ToldDeleted(h[1], i)'
      <4> SUFFICES ASSUME i = o.item, o.op = "Delete" PROVE ToldDeleted(h[1], i)'
        OBVIOUS
      <4>1. c.kind = "delete"
        BY DEF c, KindOf
      <4>2. len \in DOMAIN feed' /\ \A t \in DOMAIN feed' : ~(t > len)
        BY <1>1, <1>4
      <4> QED
        BY <1>3, <1>4, <4>1, <4>2 DEF ToldDeleted
    <3>6. i = o.item /\ o.op # "Delete" => Effective(o, v, i) # 0
      BY <1>1, <1>2 DEF SlotOK, Asked, Solid, Effective, Acknowledged, Ops, Handler
    <3> QED
      BY <1>2, <1>5, <1>6, <2>3, <3>1, <3>2, <3>3, <3>4, <3>5, <3>6 DEF Right
  <2> QED
    BY <2>1, <2>2, <2>3
<1>12. Behind(h, r, v)' /\ Merges(h, r, v, s)'
  BY <1>5 DEF Behind, Answering, Writing, Merges
<1> QED
  BY <1>2, <1>9, <1>10, <1>11, <1>12 DEF SlotLess

\* The least of some positions.
LEMMA LeastPosition ==
  ASSUME NEW ps \in SUBSET Nat, ps # {}
  PROVE  \E x \in ps : \A y \in ps : x <= y
<1>1. PICK x \in ps : \A y \in ps : ~(<<y, x>> \in OpToRel(<, Nat))
  BY NatLessThanWellFounded, WFMin
<1>2. ASSUME NEW y \in ps PROVE x <= y
  <2>1. <<y, x>> \in Nat \X Nat
    OBVIOUS
  <2>2. ~(y < x)
    BY <1>1, <2>1 DEF OpToRel
  <2> QED
    BY <2>2
<1> QED
  BY <1>2

\* Fetch takes every record up to the last one it takes ...
LEMMA TakenWhole ==
  ASSUME feed \in Seq(Change), NEW st \in SyncState, NEW skip, skip \subseteq DOMAIN feed,
         NEW last \in Taken(Batch(st, skip), skip), NEW u \in After(st.seq), u <= last
  PROVE  u \in Taken(Batch(st, skip), skip)
<1>1. st.seq \in Nat /\ DOMAIN feed = 1 .. Len(feed) /\ Len(feed) \in Nat
  BY DEF SyncState
<1>2. IsFiniteSet(DOMAIN feed)
  BY <1>1, FS_Interval
<1>3. Window * 4 + Cardinality(skip) \in Nat
  <2>1. Cardinality(skip) \in Nat
    BY <1>2, FS_Subset, FS_CardinalityType
  <2> QED
    BY <2>1, EasSyncAssumption
<1>4. last \in Batch(st, skip) /\ last \in After(st.seq) /\ u \in DOMAIN feed /\ last \in DOMAIN feed
  BY DEF Taken, Batch, After
<1> DEFINE below(x) == {t \in After(st.seq) : t <= x}
<1>5. below(u) \subseteq below(last)
  BY <1>1, <1>4 DEF After
<1>6. IsFiniteSet(below(last))
  <2>1. below(last) \subseteq DOMAIN feed
    BY DEF After
  <2> QED
    BY <1>2, <2>1, FS_Subset
<1>7. Cardinality(below(u)) <= Cardinality(below(last)) /\ Cardinality(below(u)) \in Nat
      /\ Cardinality(below(last)) \in Nat
  BY <1>5, <1>6, FS_Subset, FS_CardinalityType
<1>8. Cardinality(below(last)) <= Window * 4 + Cardinality(skip)
  BY <1>4 DEF Batch
<1>9. Cardinality(below(u)) <= Window * 4 + Cardinality(skip)
  <2> DEFINE x == Cardinality(below(u))
             y == Cardinality(below(last))
             z == Window * 4 + Cardinality(skip)
  <2>1. x \in Nat /\ y \in Nat /\ z \in Nat /\ x <= y /\ y <= z
    BY <1>3, <1>7, <1>8
  <2> HIDE DEF x, y, z
  <2>2. x <= z
    BY <2>1
  <2> QED
    BY <2>2 DEF x, z
<1>10. u \in Batch(st, skip)
  BY <1>9 DEF Batch
<1>11. \A t \in Batch(st, skip) \ skip : t <= u => t <= last
  <2>1. Batch(st, skip) \subseteq DOMAIN feed
    BY DEF Batch, After
  <2> QED
    BY <1>1, <1>4, <2>1
<1> QED
  BY <1>10, <1>11 DEF Taken

\* ... so that every item with a record there is answered.
LEMMA AllAnswered ==
  ASSUME feed \in Seq(Change), NEW st \in SyncState, NEW skip, skip \subseteq DOMAIN feed,
         NEW last \in Taken(Batch(st, skip), skip) \cup {st.seq},
         NEW u \in After(st.seq) \ skip, u <= last
  PROVE  \E w \in Firsts(Taken(Batch(st, skip), skip), skip) : feed[w].item = feed[u].item
<1> DEFINE taken == Taken(Batch(st, skip), skip)
           ps == {t \in taken \ skip : feed[t].item = feed[u].item}
<1>1. last # st.seq
  <2>1. u > st.seq /\ u \in Nat /\ st.seq \in Nat
    BY DEF After, SyncState
  <2> QED
    BY <2>1
<1>2. u \in taken
  BY <1>1, TakenWhole
<1>3. taken \subseteq Nat
  BY FetchRange
<1> HIDE DEF taken
<1>4. u \in ps /\ ps \subseteq Nat
  BY <1>2, <1>3
<1>5. PICK w \in ps : \A y \in ps : w <= y
  BY <1>4, LeastPosition
<1>6. w \in Firsts(taken, skip)
  BY <1>3, <1>5 DEF Firsts
<1> QED
  BY <1>5, <1>6 DEF taken
\* What a device makes of an answer, item by item.
LEMMA UpdatedItem ==
  ASSUME NEW r, NEW v, NEW i \in Items, r.pc # "log"
  PROVE  LET w == Updated(v, r)
             add == r.item = i /\ r.op = "Add" /\ r.ack = "ok"
             del == r.item = i /\ r.op = "Delete" /\ r.ack \in {"ok", "gone"}
             o == r.out[i]
         IN  /\ w.copy[i] = Applied(Effective(r, v, i), o)
             /\ (i \in w.made) <=> ((i \in v.made \/ add) /\ ~del /\ o.name = "none")
             /\ (i \in w.dropped) <=>
                  ((i \in v.dropped \/ (del /\ i \notin v.made)) /\ o.name \notin {"Add", "Delete"})
             /\ w.first = IF r.key = 0 THEN r.last ELSE v.first
BY DEF Updated, Made, Deleted, Told, Effective

\* Whether a device still has an item once its command is acknowledged.
LEMMA EffectFacts ==
  ASSUME NEW r \in Handler, NEW v \in Device, NEW i \in Items, NEW s, NEW k, NEW there,
         SlotOK(r, v, s, k, there), r.pc # "log"
  PROVE  LET add == r.item = i /\ r.op = "Add" /\ r.ack = "ok"
             del == r.item = i /\ r.op = "Delete" /\ r.ack \in {"ok", "gone"}
         IN  /\ Effective(r, v, i) # 0 <=> (IF add THEN TRUE ELSE IF del THEN FALSE ELSE v.copy[i] # 0)
             /\ Effective(r, v, i) \in Nat
<1>1. r.op \in Ops /\ r.ack \in Acks /\ v.copy[i] \in Nat /\ r.rev \in Nat /\ r.snap.rev \in Nat
  BY DEF Handler, Device, Row
<1>2. /\ r.ack = "ok" /\ r.op \in {"Add", "Change"} => r.rev # 0
      /\ r.ack = "ok" /\ r.op = "Fetch" => r.snap.rev # 0
  BY DEF SlotOK, Solid
<1>3. r.item = i /\ r.op \in {"Change", "Delete", "Fetch"} => v.copy[i] # 0
  BY DEF SlotOK, Asked
<1> QED
  BY <1>1, <1>2, <1>3 DEF Effective, Acknowledged, Ops, Acks

\* Right looks only at these parts of a device.
LEMMA RightSame ==
  ASSUME NEW d, NEW i, NEW v, NEW w, NEW c, NEW item, v.first = w.first,
         (i \in v.made) <=> (i \in w.made), (i \in v.dropped) <=> (i \in w.dropped)
  PROVE  Right(d, i, v, c, item) <=> Right(d, i, w, c, item)
BY DEF Right, Beyond

\* An answer that is silent about an item leaves right what was right.
LEMMA SilentRight ==
  ASSUME feed \in Seq(Change), NEW d, NEW r \in Handler, NEW v \in Device, NEW i \in Items, r.pc # "log",
         r.out[i].name = "none", r.key = 0 => v.first <= r.last,
         Right(d, i, v, Effective(r, v, i), r.item)
  PROVE  Right(d, i, Updated(v, r), Updated(v, r).copy[i], NoItem)
<1> DEFINE w == Updated(v, r)
           add == r.item = i /\ r.op = "Add" /\ r.ack = "ok"
           del == r.item = i /\ r.op = "Delete" /\ r.ack \in {"ok", "gone"}
<1>1. /\ w.copy[i] = Effective(r, v, i)
      /\ (i \in w.made) <=> ((i \in v.made \/ add) /\ ~del)
      /\ (i \in w.dropped) <=> (i \in v.dropped \/ (del /\ i \notin v.made))
      /\ w.first = IF r.key = 0 THEN r.last ELSE v.first
  BY UpdatedItem DEF Applied
<1>2. del => Effective(r, v, i) = 0
  BY DEF Effective, Acknowledged
<1>3. i # NoItem
  BY EasSyncAssumption
<1>4. v.first \in Nat /\ r.last \in Nat
  BY DEF Device, Handler
<1> HIDE DEF w
<1>5. ~Beyond(v, i) => ~Beyond(w, i)
  BY <1>1, <1>4 DEF Beyond
<1> QED
  BY <1>1, <1>2, <1>3, <1>5 DEF Right, w

\* serverChanges reads sync_items.
LEMMA ReadLess ==
  ASSUME Calm, TInv, Follows, KInv, LInv, NEW h \in Slots, KnownItems(h)
  PROVE  SlotLess(h)'
<1> SUFFICES ASSUME NEW o, NEW v, NEW s, o = req[h], v = dev[h[1]], s = state[h[1]], NEW r, r = req'[h]
             PROVE  SlotLess(h)'
  OBVIOUS
<1>1. /\ Placed(h, o, v, s) /\ Filtered(o, v) /\ Ahead(h, o, v, s)
      /\ o \in Handler /\ req \in [Slots -> Handler]
  BY LessFacts
<1>2. /\ UNCHANGED <<row, feed, due, low>> /\ (\A g \in Slots : g # h => req'[g] = req[g])
      /\ dev'[h[1]] = v /\ state'[h[1]] = s /\ o.pc = "known"
      /\ r = [o EXCEPT !.pc = "fetch", !.kn = known[h[1]]]
  BY <1>1 DEF KnownItems
<1>3. /\ r.pc = "fetch" /\ r.skip = o.skip /\ r.todo = o.todo /\ r.out = o.out /\ r.item = o.item
      /\ r.op = o.op /\ r.key = o.key /\ r.base = o.base /\ r.ack = o.ack /\ r.rev = o.rev
      /\ r.snap = o.snap /\ r.st = o.st /\ r.last = o.last
  BY <1>1, <1>2 DEF Handler
<1>4. Placed(h, r, v, s)
  BY <1>1, <1>2, <1>3 DEF Placed, Abreast, Reading, Writing, Answering
<1>5. Filtered(r, v)
  BY <1>1, <1>3 DEF Filtered
<1>6. Ahead(h, r, v, s)
  <2>1. \A i \in Items : Effective(r, v, i) = Effective(o, v, i)
    BY <1>2, <1>3 DEF Effective, Acknowledged
  <2> QED
    BY <1>1, <1>2, <1>3, <2>1 DEF Ahead, Abreast, Reading
<1>7. Merges(h, r, v, s) /\ Behind(h, r, v)
  BY <1>3 DEF Merges, Behind, Answering, Writing
<1> QED
  BY <1>2, <1>4, <1>5, <1>6, <1>7, QuietStep

\* A record that is not taken comes later.
LEMMA LaterComes ==
  ASSUME feed \in Seq(Change), NEW st \in SyncState, NEW skip, skip \subseteq DOMAIN feed,
         NEW last \in Taken(Batch(st, skip), skip) \cup {st.seq}, last \in Nat, NEW h, NEW i,
         ~\E w \in Firsts(Taken(Batch(st, skip), skip), skip) : feed[w].item = i,
         Comes(h, i, st.seq, skip)
  PROVE  Comes(h, i, last, {})
<1>1. ASSUME NEW u \in After(st.seq) \ skip, feed[u].item = i PROVE u \in After(last)
  <2>1. ~(u <= last)
    BY <1>1, AllAnswered
  <2> QED
    BY <2>1 DEF After
<1> QED
  BY <1>1 DEF Comes

\* serverChanges takes its records: what it did not take comes later.
LEMMA FetchLess ==
  ASSUME Calm, TInv, Follows, KInv, LInv, NEW h \in Slots, Fetch(h)
  PROVE  SlotLess(h)'
<1> SUFFICES ASSUME NEW o, NEW v, NEW s, o = req[h], v = dev[h[1]], s = state[h[1]], NEW r, r = req'[h]
             PROVE  SlotLess(h)'
  OBVIOUS
<1>1. /\ Placed(h, o, v, s) /\ Filtered(o, v) /\ Ahead(h, o, v, s) /\ Asked(o, v)
      /\ o \in Handler /\ req \in [Slots -> Handler] /\ v \in Device /\ s \in SyncState
      /\ feed \in Seq(Change)
      /\ o.pc \in Reading \cup Writing => o.st = s
  BY LessFacts DEF SlotOK
<1> SUFFICES ASSUME NEW taken, NEW first, taken = Taken(Batch(o.st, o.skip), o.skip),
                    first = Firsts(taken, o.skip)
             PROVE  SlotLess(h)'
  OBVIOUS
<1>2. PICK last \in taken \cup {o.st.seq} :
        /\ \A u \in taken : u <= last
        /\ req' = [req EXCEPT ![h].pc = "emit", ![h].todo = first, ![h].last = last]
  BY Zenon DEF Fetch
<1>3. /\ taken \subseteq DOMAIN feed /\ first \subseteq taken \ o.skip
      /\ \A u \in taken : u > o.st.seq /\ u > low
  BY FetchRange DEF Firsts, Taken, Batch, After
<1>4. /\ UNCHANGED <<row, feed, due, low>> /\ (\A g \in Slots : g # h => req'[g] = req[g])
      /\ dev'[h[1]] = v /\ state'[h[1]] = s /\ o.pc = "fetch" /\ o.st = s
      /\ r = [o EXCEPT !.pc = "emit", !.todo = first, !.last = last]
  BY <1>1, <1>2 DEF Fetch, Reading
<1>5. /\ r.pc = "emit" /\ r.skip = o.skip /\ r.todo = first /\ r.out = o.out /\ r.item = o.item
      /\ r.op = o.op /\ r.key = o.key /\ r.base = o.base /\ r.ack = o.ack /\ r.rev = o.rev
      /\ r.snap = o.snap /\ r.st = s /\ r.last = last
  BY <1>1, <1>4 DEF Handler
<1>6. /\ Abreast(o, v, s) /\ v.first <= s.seq /\ v.first \in Nat /\ s.seq \in Nat /\ s.seq <= Len(feed)
      /\ o.skip \subseteq DOMAIN feed
  BY <1>1, <1>4 DEF Abreast, Reading, Placed, Device, SyncState
<1>7. last \in Nat /\ s.seq <= last /\ last <= Len(feed) /\ v.first <= last
  BY <1>1, <1>3, <1>4, <1>6
<1>8. Placed(h, r, v, s)
  BY <1>1, <1>2, <1>3, <1>4, <1>5, <1>6, <1>7 DEF Placed
<1>9. Filtered(r, v)
  BY <1>1, <1>5 DEF Filtered
<1>10. Behind(h, r, v)
  <2> SUFFICES ASSUME NEW i \in Items, ~\E u \in first : feed[u].item = i
               PROVE  Comes(h, i, last, {}) \/ Right(h[1], i, Updated(v, r), Updated(v, r).copy[i], NoItem)
    BY <1>5 DEF Behind
  <2>1. Comes(h, i, s.seq, o.skip) \/ Right(h[1], i, v, Effective(o, v, i), o.item)
    BY <1>1, <1>6 DEF Ahead
  <2>2. ASSUME Comes(h, i, s.seq, o.skip) PROVE Comes(h, i, last, {})
    BY <1>1, <1>2, <1>4, <1>6, <1>7, <2>2, LaterComes
  <2>3. ASSUME Right(h[1], i, v, Effective(o, v, i), o.item)
        PROVE  Right(h[1], i, Updated(v, r), Updated(v, r).copy[i], NoItem)
    <3>1. Effective(r, v, i) = Effective(o, v, i)
      BY <1>4, <1>5 DEF Effective, Acknowledged
    <3>2. r \in Handler
      <4>1. first \in SUBSET Nat
        BY <1>1, <1>3
      <4> QED
        BY <1>1, <1>4, <1>7, <4>1 DEF Handler
    <3>3. r.out[i].name = "none"
      BY <1>1, <1>4, <1>5 DEF Asked, Silent, NoCommand
    <3> QED
      BY <1>1, <1>5, <1>7, <2>3, <3>1, <3>2, <3>3, SilentRight
  <2> QED
    BY <2>1, <2>2, <2>3
<1>11. Merges(h, r, v, s) /\ Ahead(h, r, v, s)
  BY <1>5 DEF Merges, Ahead, Abreast, Reading
<1> QED
  BY <1>4, <1>8, <1>9, <1>10, <1>11, QuietStep

\* itemCommand: what the device is told of an item is what its row says, unless the last
\* record says that it was deleted.
LEMMA CommandRight ==
  ASSUME Calm, TInv, Follows, KInv, LInv, NEW h \in Slots, NEW o, NEW v, o = req[h], v = dev[h[1]],
         o.pc = "emit", NEW p \in o.todo, NEW t \in SameItem(o, p), \A u \in SameItem(o, p) : u <= t,
         NEW r \in Handler, NEW i \in Items, i = feed[p].item,
         r.out[i] = ItemCommand(o, i, feed[t].kind),
         r.pc = "emit", r.last = o.last, r.key = o.key, r.kn = o.kn, r.item = o.item,
         r.op = o.op, r.ack = o.ack, r.rev = o.rev, r.snap = o.snap, r.base = o.base
  PROVE  Comes(h, i, r.last, {}) \/ Right(h[1], i, Updated(v, r), Updated(v, r).copy[i], NoItem)
<1> DEFINE w == Updated(v, r)
           c == r.out[i]
           a == Effective(r, v, i)
           add == r.item = i /\ r.op = "Add" /\ r.ack = "ok"
           del == r.item = i /\ r.op = "Delete" /\ r.ack \in {"ok", "gone"}
<1>1. /\ Placed(h, o, v, state[h[1]]) /\ o \in Handler /\ v \in Device /\ feed \in Seq(Change)
      /\ SlotOK(o, v, state[h[1]], known[h[1]], There) /\ o.kn = Held(v)
      /\ o.todo \subseteq DOMAIN feed /\ row \in [Items -> Row]
  BY LessFacts DEF SlotOK, Agrees, Answering, Writing
<1>2. /\ w.copy[i] = Applied(a, c)
      /\ (i \in w.made) <=> ((i \in v.made \/ add) /\ ~del /\ c.name = "none")
      /\ (i \in w.dropped) <=>
           ((i \in v.dropped \/ (del /\ i \notin v.made)) /\ c.name \notin {"Add", "Delete"})
      /\ w.first = IF r.key = 0 THEN r.last ELSE v.first
  BY UpdatedItem
<1>3. a # 0 <=> (IF add THEN TRUE ELSE IF del THEN FALSE ELSE v.copy[i] # 0)
  <2>1. a = Effective(o, v, i)
    BY DEF Effective, Acknowledged
  <2> QED
    BY <1>1, <2>1, EffectFacts
<1>4. (i \in o.kn) <=> ((v.copy[i] # 0 /\ i \notin v.made) \/ i \in v.dropped)
  BY <1>1 DEF Held, Device
<1>5. c = IF feed[t].kind # "delete" /\ Live(i)
            THEN IF r.key = 0 /\ Class = "Email" /\ i \in Old
                   THEN NoCommand
                   ELSE [name |-> IF i \in o.kn THEN "Change" ELSE "Add", rev |-> row[i].rev]
            ELSE IF i \in o.kn THEN [name |-> "Delete", rev |-> 0] ELSE NoCommand
  BY DEF ItemCommand
<1>6. i # NoItem
  BY EasSyncAssumption
<1>7. ASSUME NEW u \in DOMAIN feed, u > r.last, feed[u].item = i
      PROVE  Comes(h, i, r.last, {})
  <2>1. p > low /\ p <= r.last /\ p \in Nat /\ u \in Nat /\ r.last \in Nat /\ low \in Nat
    BY <1>1, <1>7 DEF Placed, Handler, TInv, TypeOK
  <2>2. u > low
    BY <1>7, <2>1
  <2> QED
    BY <1>7, <2>2 DEF Comes, After
<1> HIDE DEF w, c, a
<1>9. CASE feed[t].kind # "delete" /\ Live(i) /\ r.key = 0 /\ Class = "Email" /\ i \in Old
  <2>1. w.first = r.last
    BY <1>2, <1>9
  <2>2. Beyond(w, i) => Comes(h, i, r.last, {})
    BY <1>7, <1>9, <2>1 DEF Beyond
  <2> QED
    BY <1>6, <1>9, <2>2 DEF Right, w
<1>10. CASE feed[t].kind # "delete" /\ Live(i) /\ ~(r.key = 0 /\ Class = "Email" /\ i \in Old)
  <2>1. c.name = (IF i \in o.kn THEN "Change" ELSE "Add") /\ c.rev = row[i].rev
    BY <1>5, <1>10
  <2>2. w.copy[i] = row[i].rev \/ i \in w.dropped
    <3>1. CASE i \notin o.kn
      BY <1>2, <2>1, <3>1 DEF Applied
    <3>2. CASE i \in o.kn /\ a # 0
      BY <1>2, <2>1, <3>2 DEF Applied
    <3>3. CASE i \in o.kn /\ a = 0
      BY <1>2, <1>3, <1>4, <2>1, <3>3
    <3> QED
      BY <3>1, <3>2, <3>3
  <2> QED
    BY <1>10, <2>2 DEF Right, w
<1>11. CASE ~Live(i)
  <2>1. CASE i \in o.kn
    <3>1. c.name = "Delete"
      BY <1>5, <1>11, <2>1
    <3>2. w.copy[i] = 0
      BY <1>2, <3>1 DEF Applied
    <3> QED
      BY <1>11, <3>2 DEF Right, w
  <2>2. CASE i \notin o.kn
    <3>1. c.name = "none"
      BY <1>5, <1>11, <2>2 DEF NoCommand
    <3>2. w.copy[i] = a
      BY <1>2, <3>1 DEF Applied
    <3>3. a = 0 \/ i \in w.made
      BY <1>2, <1>3, <1>4, <2>2, <3>1
    <3> QED
      BY <1>11, <3>2, <3>3 DEF Right, w
  <2> QED
    BY <2>1, <2>2
<1>12. CASE feed[t].kind = "delete" /\ Live(i)
  <2>1. t \in p .. o.last /\ feed[t].item = i /\ p \in Nat /\ o.last \in Nat /\ p >= 1 /\ t \in Nat
    BY <1>1 DEF SameItem, Handler
  <2>2. t \in DOMAIN feed
    BY <1>1, <1>12, <2>1 DEF Placed, Answering, Writing
  <2>3. ASSUME NEW u \in DOMAIN feed, feed[u].item = i, u > t, u <= o.last PROVE feed[u].by = h[1]
    <3>1. u \in p .. o.last
      BY <1>1, <2>1, <2>3
    <3>2. u \in o.skip
      BY <1>1, <2>1, <2>3, <3>1 DEF SameItem
    <3> QED
      BY <1>1, <3>2 DEF Placed
  <2>4. CASE \E u \in DOMAIN feed : u > o.last /\ feed[u].item = i
    BY <1>7, <1>12, <2>4
  <2>5. CASE \A u \in DOMAIN feed : feed[u].item = i => u <= o.last
    <3>1. ToldDeleted(h[1], i)
      BY <1>12, <2>1, <2>2, <2>3, <2>5 DEF ToldDeleted
    <3> QED
      BY <1>12, <3>1 DEF Right
  <2> QED
    BY <1>1, <2>1, <2>4, <2>5
<1> QED
  BY <1>9, <1>10, <1>11, <1>12 DEF w

\* What an answer makes of an item depends on these parts of a handler.
LEMMA SameAnswer ==
  ASSUME NEW o, NEW r, NEW v, NEW i \in Items, NEW d, o.pc # "log", r.pc # "log",
         r.out[i] = o.out[i], r.key = o.key, r.last = o.last, r.item = o.item, r.op = o.op,
         r.ack = o.ack, r.rev = o.rev, r.snap = o.snap, r.base = o.base
  PROVE  Right(d, i, Updated(v, o), Updated(v, o).copy[i], NoItem)
           <=> Right(d, i, Updated(v, r), Updated(v, r).copy[i], NoItem)
<1> DEFINE w == Updated(v, o)
           x == Updated(v, r)
<1>1. Effective(r, v, i) = Effective(o, v, i)
  BY DEF Effective, Acknowledged
<1>2. /\ x.copy[i] = w.copy[i] /\ x.first = w.first
      /\ (i \in x.made) <=> (i \in w.made)
      /\ (i \in x.dropped) <=> (i \in w.dropped)
  BY <1>1, UpdatedItem
<1> HIDE DEF w, x
<1> QED
  BY <1>2, RightSame DEF w, x

\* serverChanges answers an item.
LEMMA EmitLess ==
  ASSUME Calm, TInv, Follows, KInv, LInv, NEW h \in Slots, Emit(h)
  PROVE  SlotLess(h)'
<1> SUFFICES ASSUME NEW o, NEW v, NEW s, o = req[h], v = dev[h[1]], s = state[h[1]], NEW r, r = req'[h]
             PROVE  SlotLess(h)'
  OBVIOUS
<1>1. /\ Placed(h, o, v, s) /\ Filtered(o, v) /\ Behind(h, o, v) /\ Asked(o, v) /\ Once(o, feed)
      /\ o \in Handler /\ req \in [Slots -> Handler] /\ v \in Device /\ s \in SyncState
      /\ feed \in Seq(Change) /\ o.todo \subseteq DOMAIN feed
      /\ o.pc \in Reading \cup Writing => o.st = s
  BY LessFacts DEF SlotOK
<1>e. \E p \in req[h].todo : \E t \in SameItem(req[h], p) :
        /\ Turn(req[h], p, t)
        /\ req' = [req EXCEPT ![h].todo = @ \ {p},
                              ![h].out[feed[p].item] = ItemCommand(req[h], feed[p].item, feed[t].kind)]
  BY Zenon DEF Emit
<1>2. PICK p \in o.todo : \E t \in SameItem(o, p) :
        /\ Turn(o, p, t)
        /\ req' = [req EXCEPT ![h].todo = @ \ {p},
                              ![h].out[feed[p].item] = ItemCommand(o, feed[p].item, feed[t].kind)]
  BY <1>e
<1>3. PICK t \in SameItem(o, p) :
        /\ Turn(o, p, t)
        /\ req' = [req EXCEPT ![h].todo = @ \ {p},
                              ![h].out[feed[p].item] = ItemCommand(o, feed[p].item, feed[t].kind)]
  BY <1>2
<1> SUFFICES ASSUME NEW i, NEW c, i = feed[p].item, c = ItemCommand(o, i, feed[t].kind)
             PROVE  SlotLess(h)'
  OBVIOUS
<1>4. i \in Items /\ p \in DOMAIN feed
  <2>1. feed[p] \in Change
    BY <1>1
  <2> QED
    BY <1>1, <2>1 DEF Change
<1>5. c \in Command
  BY <1>4, ItemCommandType
<1>6. /\ UNCHANGED <<row, feed, due, low>> /\ (\A g \in Slots : g # h => req'[g] = req[g])
      /\ dev'[h[1]] = v /\ state'[h[1]] = s /\ o.pc = "emit" /\ o.st = s
      /\ r = [o EXCEPT !.todo = @ \ {p}, !.out = [o.out EXCEPT ![i] = c]]
  <2>1. UNCHANGED <<row, feed, due, low, dev, state>> /\ o.pc = "emit"
    BY DEF Emit
  <2>2. req' = [req EXCEPT ![h].todo = @ \ {p}, ![h].out[i] = c]
    BY <1>3
  <2>3. \A g \in Slots : g # h => req'[g] = req[g]
    BY <1>1, <2>2
  <2>4. r = [o EXCEPT !.todo = @ \ {p}, !.out = [o.out EXCEPT ![i] = c]]
    BY <1>1, <2>2
  <2> QED
    BY <1>1, <2>1, <2>3, <2>4 DEF Writing
<1>7. /\ r.pc = "emit" /\ r.skip = o.skip /\ r.todo = o.todo \ {p} /\ r.item = o.item
      /\ r.op = o.op /\ r.key = o.key /\ r.base = o.base /\ r.ack = o.ack /\ r.rev = o.rev
      /\ r.snap = o.snap /\ r.st = o.st /\ r.last = o.last /\ r.kn = o.kn
      /\ r.out[i] = c /\ \A j \in Items : j # i => r.out[j] = o.out[j]
  BY <1>1, <1>4, <1>6 DEF Handler
<1>8. r \in Handler
  <2>1. [o.out EXCEPT ![i] = c] \in [Items -> Command] /\ o.todo \ {p} \in SUBSET Nat
    BY <1>1, <1>5 DEF Handler
  <2> QED
    BY <1>1, <1>6, <2>1 DEF Handler
<1>9. Placed(h, r, v, s)
  BY <1>1, <1>6, <1>7 DEF Placed, Abreast, Reading, Writing, Answering
<1>10. Filtered(r, v)
  <2>1. c.name \in {"Add", "Change"} /\ Class = "Email" /\ i \in Old => o.key # 0
    BY DEF ItemCommand, NoCommand
  <2>2. Beyond(v, i)
    <3>1. v.first <= s.seq /\ p > s.seq /\ v.first \in Nat /\ s.seq \in Nat /\ p \in Nat
      BY <1>1, <1>4, <1>6 DEF Placed, Writing, Device, SyncState
    <3>2. p > v.first
      BY <3>1
    <3> QED
      BY <1>4, <3>2 DEF Beyond
  <2> QED
    BY <1>1, <1>7, <2>1, <2>2 DEF Filtered
<1>11. Behind(h, r, v)
  <2> SUFFICES ASSUME NEW j \in Items, ~\E u \in r.todo : feed[u].item = j
               PROVE  Comes(h, j, r.last, {}) \/ Right(h[1], j, Updated(v, r), Updated(v, r).copy[j], NoItem)
    BY DEF Behind
  <2>1. CASE j = i
    <3>1. \A u \in SameItem(o, p) : u <= t
      BY <1>3 DEF Turn
    <3>2. r.out[i] = ItemCommand(o, i, feed[t].kind)
      BY <1>7
    <3>3. Comes(h, i, r.last, {}) \/ Right(h[1], i, Updated(v, r), Updated(v, r).copy[i], NoItem)
      <4>1. /\ o.pc = "emit" /\ r.pc = "emit" /\ r.last = o.last /\ r.key = o.key /\ r.kn = o.kn
            /\ r.item = o.item /\ r.op = o.op /\ r.ack = o.ack /\ r.rev = o.rev /\ r.snap = o.snap
            /\ r.base = o.base /\ i \in Items
        BY <1>4, <1>6, <1>7
      <4> QED
        BY <1>8, <3>1, <3>2, <4>1, CommandRight, ZenonT(60)
    <3> QED
      BY <2>1, <3>3
  <2>2. CASE j # i
    <3>1. ~\E u \in o.todo : feed[u].item = j
      BY <1>7, <2>2
    <3>2. Comes(h, j, o.last, {}) \/ Right(h[1], j, Updated(v, o), Updated(v, o).copy[j], NoItem)
      BY <1>1, <1>6, <3>1 DEF Behind, Answering, Writing
    <3>3. Right(h[1], j, Updated(v, o), Updated(v, o).copy[j], NoItem)
            <=> Right(h[1], j, Updated(v, r), Updated(v, r).copy[j], NoItem)
      BY <1>6, <1>7, <2>2, SameAnswer
    <3> QED
      BY <1>7, <3>2, <3>3
  <2> QED
    BY <2>1, <2>2
<1>12. Merges(h, r, v, s) /\ Ahead(h, r, v, s)
  BY <1>7 DEF Merges, Ahead, Abreast, Reading
<1> QED
  BY <1>6, <1>9, <1>10, <1>11, <1>12, QuietStep

\* The answer is complete, and is saved.
LEMMA SaveLess ==
  ASSUME Calm, TInv, Follows, KInv, LInv, NEW h \in Slots, More(h) \/ Save(h)
  PROVE  SlotLess(h)'
<1> SUFFICES ASSUME NEW o, NEW v, NEW s, o = req[h], v = dev[h[1]], s = state[h[1]],
                    NEW r, r = req'[h], NEW z, z = state'[h[1]]
             PROVE  SlotLess(h)'
  OBVIOUS
<1>1. /\ Placed(h, o, v, s) /\ Filtered(o, v) /\ Behind(h, o, v)
      /\ o \in Handler /\ req \in [Slots -> Handler] /\ v \in Device /\ s \in SyncState
      /\ state \in [Devices -> SyncState] /\ h[1] \in Devices
  BY LessFacts
<1>2. /\ UNCHANGED <<row, feed, due, low>> /\ (\A g \in Slots : g # h => req'[g] = req[g])
      /\ dev'[h[1]] = v /\ o.pc \in {"emit", "save"} /\ o.todo = {}
  BY <1>1 DEF More, Save, Placed
<1>3. ASSUME r.skip = o.skip, r.todo = o.todo, r.out = o.out, r.item = o.item,
             r.op = o.op, r.key = o.key, r.base = o.base, r.ack = o.ack, r.rev = o.rev,
             r.snap = o.snap, r.last = o.last, r.pc \in {"save", "reply"}, Placed(h, r, v, z)
      PROVE  SlotLess(h)'
  <2>1. Filtered(r, v)
    BY <1>1, <1>3 DEF Filtered
  <2>2. Behind(h, r, v)
    <3> SUFFICES ASSUME NEW i \in Items
                 PROVE  Comes(h, i, r.last, {}) \/ Right(h[1], i, Updated(v, r), Updated(v, r).copy[i], NoItem)
      BY DEF Behind
    <3>1. Comes(h, i, o.last, {}) \/ Right(h[1], i, Updated(v, o), Updated(v, o).copy[i], NoItem)
      BY <1>1, <1>2 DEF Behind, Answering, Writing
    <3>2. Right(h[1], i, Updated(v, o), Updated(v, o).copy[i], NoItem)
            <=> Right(h[1], i, Updated(v, r), Updated(v, r).copy[i], NoItem)
      BY <1>2, <1>3, SameAnswer
    <3> QED
      BY <1>3, <3>1, <3>2
  <2>3. Merges(h, r, v, z) /\ Ahead(h, r, v, z)
    BY <1>3 DEF Merges, Ahead, Abreast, Reading
  <2> QED
    BY <1>2, <1>3, <2>1, <2>2, <2>3, QuietStep
<1>4. CASE More(h)
  <2> DEFINE m == After(o.last) # {}
  <2>1. r = [o EXCEPT !.pc = "save", !.more = m] /\ z = s
    BY <1>1, <1>4 DEF More
  <2> HIDE DEF m
  <2>2. /\ r.skip = o.skip /\ r.todo = o.todo /\ r.out = o.out /\ r.item = o.item
        /\ r.op = o.op /\ r.key = o.key /\ r.base = o.base /\ r.ack = o.ack /\ r.rev = o.rev
        /\ r.snap = o.snap /\ r.last = o.last /\ r.pc = "save" /\ r.st = o.st
    BY <1>1, <2>1 DEF Handler
  <2>3. Placed(h, r, v, z)
    BY <1>1, <1>2, <2>1, <2>2 DEF Placed, Abreast, Reading, Writing, Answering
  <2> QED
    BY <1>3, <2>2, <2>3
<1>5. CASE Save(h)
  <2>1. z = [key |-> NextKey(o), seq |-> o.last] /\ r = [o EXCEPT !.pc = "reply", !.st = z, !.status = 1]
    BY <1>1, <1>5 DEF Save
  <2>2. /\ r.skip = o.skip /\ r.todo = o.todo /\ r.out = o.out /\ r.item = o.item
        /\ r.op = o.op /\ r.key = o.key /\ r.base = o.base /\ r.ack = o.ack /\ r.rev = o.rev
        /\ r.snap = o.snap /\ r.last = o.last /\ r.pc = "reply" /\ z.seq = o.last
    BY <1>1, <2>1 DEF Handler
  <2>3. Placed(h, r, v, z)
    BY <1>1, <1>2, <2>2 DEF Placed, Abreast, Reading, Writing, Answering
  <2> QED
    BY <1>3, <2>2, <2>3
<1> QED
  BY <1>4, <1>5

\* Giving up touches nothing the server looks at.
LEMMA GiveUpLess ==
  ASSUME Calm, TInv, Follows, KInv, LInv, NEW h \in Slots, GiveUp(h)
  PROVE  SlotLess(h)'
<1> SUFFICES ASSUME NEW o, NEW v, NEW s, o = req[h], v = dev[h[1]], s = state[h[1]], NEW r, r = req'[h]
             PROVE  SlotLess(h)'
  OBVIOUS
<1>1. /\ Placed(h, o, v, s) /\ Filtered(o, v) /\ Merges(h, o, v, s) /\ Ahead(h, o, v, s) /\ Behind(h, o, v)
      /\ o \in Handler /\ req \in [Slots -> Handler]
  BY LessFacts
<1>2. /\ UNCHANGED <<row, feed, due, low>> /\ (\A g \in Slots : g # h => req'[g] = req[g])
      /\ dev'[h[1]] = v /\ state'[h[1]] = s /\ r = [o EXCEPT !.live = FALSE]
  BY <1>1 DEF GiveUp
<1>3. /\ r.skip = o.skip /\ r.todo = o.todo /\ r.out = o.out /\ r.item = o.item /\ r.pc = o.pc
      /\ r.op = o.op /\ r.key = o.key /\ r.base = o.base /\ r.ack = o.ack /\ r.rev = o.rev
      /\ r.snap = o.snap /\ r.last = o.last /\ r.st = o.st /\ r.status = o.status
  BY <1>1, <1>2 DEF Handler
<1>4. Placed(h, r, v, s) /\ Filtered(r, v) /\ Merges(h, r, v, s)
  BY <1>1, <1>3 DEF Placed, Filtered, Merges, Abreast, Answering
<1>5. Ahead(h, r, v, s)
  <2>1. \A i \in Items : Effective(r, v, i) = Effective(o, v, i)
    BY <1>1, <1>2 DEF Effective, Acknowledged, Handler
  <2> QED
    BY <1>1, <1>3, <2>1 DEF Ahead, Abreast
<1>6. Behind(h, r, v)
  <2> SUFFICES ASSUME Answering(o), NEW i \in Items, ~\E u \in o.todo : feed[u].item = i
               PROVE  Comes(h, i, o.last, {}) \/ Right(h[1], i, Updated(v, r), Updated(v, r).copy[i], NoItem)
    BY <1>3 DEF Behind, Answering
  <2>1. o.pc # "log"
    BY DEF Answering, Writing
  <2>2. Right(h[1], i, Updated(v, o), Updated(v, o).copy[i], NoItem)
          <=> Right(h[1], i, Updated(v, r), Updated(v, r).copy[i], NoItem)
    BY <1>3, <2>1, SameAnswer
  <2> QED
    BY <1>1, <2>2 DEF Behind
<1> QED
  BY <1>2, <1>4, <1>5, <1>6, QuietStep

\* The answer arrives, or is lost.
LEMMA ReceiveLess ==
  ASSUME Calm, TInv, Follows, KInv, LInv, NEW h \in Slots, Receive(h)
  PROVE  SlotLess(h)'
<1> SUFFICES ASSUME NEW o, NEW v, NEW s, o = req[h], v = dev[h[1]], s = state[h[1]],
                    NEW w, w = dev'[h[1]]
             PROVE  SlotLess(h)'
  OBVIOUS
<1>1. /\ Placed(h, o, v, s) /\ Filtered(o, v) /\ Behind(h, o, v)
      /\ SlotOK(o, v, s, known[h[1]], There)
      /\ o \in Handler /\ req \in [Slots -> Handler] /\ v \in Device /\ s \in SyncState
      /\ dev \in [Devices -> Device] /\ h[1] \in Devices /\ feed \in Seq(Change)
  BY LessFacts
<1>2. /\ UNCHANGED <<row, feed, due, low>> /\ (\A g \in Slots : g # h => req'[g] = req[g])
      /\ state'[h[1]] = s /\ o.pc = "reply" /\ req'[h] = Idle
      /\ w = IF ~o.live \/ o.status = 5 THEN v ELSE IF o.status = 3 THEN NewDevice ELSE Updated(v, o)
  BY <1>1 DEF Receive
<1>3. /\ Idle.pc = "idle" /\ Idle.op = "none" /\ Idle.ack = "none" /\ Idle.item = NoItem /\ Idle.skip = {}
      /\ Idle.out = Silent /\ Idle.todo = {} /\ (\A i \in Items : Silent[i].name = "none")
  BY DEF Idle, Silent, NoCommand
<1>4. o.todo = {} /\ o.status \in {1, 3} /\ NoItem \notin Items
  BY <1>1, <1>2, EasSyncAssumption DEF Placed, SlotOK, Keyed
<1>5. ASSUME w.first <= Len(feed), w.key # 0 /\ w.key = s.key => w.first <= s.seq,
             \A i \in Items : Class = "Email" /\ i \in Old /\ w.copy[i] # 0 => Beyond(w, i),
             w.key # 0 /\ w.key = s.key =>
               \A i \in Items : Comes(h, i, s.seq, {}) \/ Right(h[1], i, w, w.copy[i], NoItem)
      PROVE  SlotLess(h)'
  <2>1. Placed(h, Idle, w, s)
    BY <1>1, <1>3, <1>5 DEF Placed, Abreast, Reading, Writing, Answering
  <2>2. Filtered(Idle, w)
    BY <1>3, <1>5 DEF Filtered
  <2>3. Merges(h, Idle, w, s) /\ Behind(h, Idle, w)
    BY <1>3 DEF Merges, Behind, Answering, Writing
  <2>4. Ahead(h, Idle, w, s)
    <3>1. \A i \in Items : Effective(Idle, w, i) = w.copy[i]
      BY <1>3, NoEffect
    <3> QED
      BY <1>3, <1>5, <3>1 DEF Ahead, Abreast, Reading
  <2> QED
    BY <1>2, <2>1, <2>2, <2>3, <2>4, QuietStep
<1>6. CASE ~o.live
  <2>1. w = v
    BY <1>2, <1>6
  <2>2. ASSUME v.key # 0, v.key = s.key
        PROVE  /\ v.first <= s.seq
               /\ \A i \in Items : Comes(h, i, s.seq, {}) \/ Right(h[1], i, v, v.copy[i], NoItem)
    <3>1. o.status = 1 /\ o.ack = "none" /\ o.out = Silent /\ o.key # 0
      BY <1>1, <1>2, <1>4, <2>2 DEF SlotOK, Keyed, Asked
    <3>2. s.seq = o.last /\ v.first <= s.seq
      BY <1>1, <1>2, <3>1 DEF Placed, Answering
    <3>3. ASSUME NEW i \in Items PROVE Comes(h, i, s.seq, {}) \/ Right(h[1], i, v, v.copy[i], NoItem)
      <4> DEFINE x == Updated(v, o)
      <4>1. Comes(h, i, s.seq, {}) \/ Right(h[1], i, x, x.copy[i], NoItem)
        BY <1>1, <1>2, <1>4, <3>1, <3>2 DEF Behind, Answering
      <4>2. Effective(o, v, i) = v.copy[i]
        BY <1>2, <3>1, NoEffect
      <4>3. /\ x.copy[i] = Applied(v.copy[i], o.out[i]) /\ x.first = v.first
            /\ (i \in x.made) <=> (i \in v.made)
            /\ (i \in x.dropped) <=> (i \in v.dropped)
        BY <1>2, <1>3, <3>1, <4>2, UpdatedItem
      <4>4. x.copy[i] = v.copy[i]
        BY <1>3, <3>1, <4>3 DEF Applied
      <4> HIDE DEF x
      <4> QED
        BY <4>1, <4>3, <4>4, RightSame
    <3> QED
      BY <3>2, <3>3
  <2>3. v.first <= Len(feed) /\ \A i \in Items : Class = "Email" /\ i \in Old /\ v.copy[i] # 0 => Beyond(v, i)
    BY <1>1 DEF Placed, Filtered
  <2> QED
    BY <1>5, <2>1, <2>2, <2>3
<1>7. CASE o.live /\ o.status = 3
  <2>1. w = NewDevice
    BY <1>2, <1>7
  <2>2. w.key = 0 /\ w.first = 0 /\ \A i \in Items : w.copy[i] = 0
    BY <2>1 DEF NewDevice
  <2>3. w.first <= Len(feed)
    BY <1>1, <2>2
  <2> QED
    BY <1>5, <2>2, <2>3
<1>8. CASE o.live /\ o.status = 1
  <2>1. w = Updated(v, o)
    BY <1>2, <1>8
  <2>2. /\ s.seq = o.last /\ v.first <= o.last /\ o.last <= Len(feed) /\ v.first <= Len(feed)
        /\ v.first \in Nat /\ o.last \in Nat
    BY <1>1, <1>2, <1>8 DEF Placed, Answering, Device, Handler
  <2>3. w.first = IF o.key = 0 THEN o.last ELSE v.first
    BY <2>1 DEF Updated
  <2>4. ASSUME NEW i \in Items, Class = "Email", i \in Old, w.copy[i] # 0 PROVE Beyond(w, i)
    <3>1. w.copy[i] = Applied(Effective(o, v, i), o.out[i])
      BY <1>2, <2>1, UpdatedItem
    <3>2. o.out[i].name \in {"none", "Add", "Change", "Delete"}
      BY <1>1 DEF Handler, Command
    <3>3. o.key = v.key /\ (v.key = 0 => v.copy[i] = 0) /\ (o.op # "none" => v.key # 0)
      BY <1>1, <1>2 DEF SlotOK, Asked, NewDevice
    <3>4. o.key # 0 /\ Beyond(v, i)
      <4>1. CASE o.out[i].name \in {"Add", "Change"}
        BY <1>1, <2>4, <4>1 DEF Filtered
      <4>2. CASE o.out[i].name = "Delete"
        BY <2>4, <3>1, <4>2 DEF Applied
      <4>3. CASE o.out[i].name = "none"
        <5>1. Effective(o, v, i) # 0
          BY <2>4, <3>1, <4>3 DEF Applied
        <5>2. (o.item = i /\ o.op = "Add" /\ o.ack = "ok") \/ v.copy[i] # 0
          BY <1>1, <1>2, <5>1, EffectFacts
        <5> QED
          BY <1>1, <2>4, <3>3, <5>2 DEF Filtered
      <4> QED
        BY <3>2, <4>1, <4>2, <4>3
    <3> QED
      BY <2>3, <3>4 DEF Beyond
  <2>5. ASSUME NEW i \in Items PROVE Comes(h, i, s.seq, {}) \/ Right(h[1], i, w, w.copy[i], NoItem)
    BY <1>1, <1>2, <1>4, <1>8, <2>1, <2>2 DEF Behind, Answering
  <2> QED
    BY <1>5, <2>2, <2>3, <2>4, <2>5
<1> QED
  BY <1>4, <1>6, <1>7, <1>8

LEMMA NextLInv ==
  ASSUME Calm PROVE TInv /\ Follows /\ KInv /\ LInv /\ [Next]_vars => LInv'
<1> SUFFICES ASSUME TInv, Follows, KInv, LInv, [Next]_vars PROVE LInv'
  OBVIOUS
<1>1. ASSUME NEW h \in Slots, Handle(h) \/ Receive(h) \/ GiveUp(h) PROVE LInv'
  <2>1. SlotLess(h)'
    BY <1>1, CheckLess, LoadLess, WriteLess, LogLess, ReadLess, FetchLess, EmitLess, SaveLess,
       ReceiveLess, GiveUpLess DEF Handle
  <2> QED
    BY <1>1, <2>1, OwnStep
<1>2. ASSUME NEW d \in Devices, NEW t \in Tries, NEW op \in Ops, NEW i \in Items \cup {NoItem},
             NEW m \in BOOLEAN, SendSync(d, t, op, i, m)
      PROVE  LInv'
  <2> SUFFICES ASSUME NEW h, h = <<d, t>> PROVE LInv'
    OBVIOUS
  <2>1. h \in Slots /\ SendSync(h[1], h[2], op, i, m)
    BY <1>2 DEF Slots
  <2>2. SlotLess(h)'
    BY <2>1, SendLess
  <2> QED
    BY <2>1, <2>2, OwnStep
<1>3. CASE \/ \E i \in Items : Deliver(i) \/ Edit(i) \/ Rewrite(i) \/ Remove(i) \/ MoveAway(i) \/ MoveBack(i)
           \/ \E c \in due : Record(c)
           \/ Prune
           \/ UNCHANGED vars
  BY <1>3, WritersLess
<1> QED
  BY <1>1, <1>2, <1>3, CalmSteps

LEMMA InitLInv == Init => LInv
<1> SUFFICES ASSUME Init PROVE LInv
  OBVIOUS
<1>1. /\ Idle.pc = "idle" /\ Idle.op = "none" /\ Idle.ack = "none" /\ Idle.skip = {}
      /\ Idle.out = Silent /\ Idle.todo = {} /\ (\A i \in Items : Silent[i].name = "none")
  BY DEF Idle, Silent, NoCommand
<1>2. /\ NewDevice.key = 0 /\ NewDevice.first = 0 /\ (\A i \in Items : NewDevice.copy[i] = 0)
      /\ NoState.seq = 0
  BY DEF NewDevice, NoState
<1>3. Len(feed) = 0 /\ low = 0
  BY DEF Init
<1>4. ASSUME NEW h \in Slots PROVE SlotLess(h)
  <2>1. req[h] = Idle /\ dev[h[1]] = NewDevice /\ state[h[1]] = NoState
    BY DEF Init, Slots
  <2>2. Placed(h, Idle, NewDevice, NoState)
    BY <1>1, <1>2, <1>3 DEF Placed, Abreast, Reading, Writing, Answering
  <2>3. Filtered(Idle, NewDevice) /\ Merges(h, Idle, NewDevice, NoState)
        /\ Ahead(h, Idle, NewDevice, NoState) /\ Behind(h, Idle, NewDevice)
    BY <1>1, <1>2 DEF Filtered, Merges, Ahead, Behind, Abreast, Reading, Writing, Answering
  <2> QED
    BY <2>1, <2>2, <2>3 DEF SlotLess
<1>5. \A i \in Items : row[i].at = "nowhere"
  BY DEF Init, NoRow
<1> QED
  BY <1>3, <1>4, <1>5 DEF LInv

LEMMA SpecLInv ==
  ASSUME Calm PROVE Spec => [](TInv /\ Follows /\ KInv /\ LInv)
<1>1. TInv /\ Follows /\ KInv /\ LInv /\ [Next]_vars => LInv'
  BY NextLInv
<1> QED
  BY <1>1, InitLInv, SpecKInv, PTL DEF Spec

\* What a device in step holds is right, or something about the item is pending.
LEMMA InStepRight ==
  ASSUME KInv, LInv, NEW d \in Devices, NEW i \in Items, InStep(d), ~Pending(d, i)
  PROVE  Right(d, i, dev[d], dev[d].copy[i], NoItem)
<1>1. PICK t \in Tries : TRUE
  BY EasSyncAssumption
<1> SUFFICES ASSUME NEW h, h = <<d, t>> PROVE Right(d, i, dev[d], dev[d].copy[i], NoItem)
  OBVIOUS
<1>2. h \in Slots /\ h[1] = d
  BY DEF Slots
<1>3. req[h].pc = "idle" /\ dev[d].key # 0 /\ dev[d].key = state[d].key
  BY DEF InStep
<1>4. req[h] = Idle
  BY <1>2, <1>3 DEF KInv, SlotOK, Asked
<1>5. Idle.pc = "idle" /\ Idle.ack = "none" /\ Idle.item = NoItem /\ Idle.skip = {}
  BY DEF Idle
<1>6. Ahead(h, Idle, dev[d], state[d])
  BY <1>2, <1>4 DEF LInv, SlotLess
<1>7. Comes(h, i, state[d].seq, {}) \/ Right(d, i, dev[d], Effective(Idle, dev[d], i), NoItem)
  BY <1>2, <1>3, <1>5, <1>6 DEF Ahead, Abreast
<1>8. ~Comes(h, i, state[d].seq, {})
  BY DEF Comes, Pending
<1>9. Effective(Idle, dev[d], i) = dev[d].copy[i]
  BY <1>5, NoEffect
<1> QED
  BY <1>7, <1>8, <1>9

\* While the requests of a device do not overlap, the database answers and nobody resets
\* the device, it is told of every deletion of what it holds (itemCommand), whatever answers
\* are lost, whatever is pruned and whatever the other devices and the writers do meanwhile.
THEOREM NoZombies ==
  ASSUME Calm PROVE Spec => []NoZombie
<1>1. KInv /\ LInv => NoZombie
  BY InStepRight DEF NoZombie, Right
<1> QED
  BY <1>1, SpecLInv, PTL

\* Under the same conditions no update is lost (syncCollection, serverChanges): whatever
\* answers are lost, whatever is pruned and whatever the other devices and the writers do, a
\* device in step has the current content of every item nothing is pending about, but for
\* the exceptions NothingLost names, among them an item it never got whose records had all
\* been pruned when it started again.
THEOREM NoneLost ==
  ASSUME Calm PROVE Spec => []NothingLost
<1>1. ASSUME TInv, KInv, LInv PROVE NothingLost
  <2> SUFFICES ASSUME NEW d \in Devices, NEW i \in Items, InStep(d), Live(i), ~Pending(d, i)
               PROVE  \/ dev[d].copy[i] = row[i].rev
                      \/ ToldDeleted(d, i)
                      \/ i \in dev[d].dropped
                      \/ i \in Old /\ \A s \in DOMAIN feed : feed[s].item = i => s <= dev[d].first
                      \/ dev[d].copy[i] = 0 /\ Pruned(i)
    BY DEF NothingLost
  <2>1. Right(d, i, dev[d], dev[d].copy[i], NoItem)
    BY <1>1, InStepRight
  <2>2. ~Beyond(dev[d], i) => \A s \in DOMAIN feed : feed[s].item = i => s <= dev[d].first
    <3>1. dev[d].first \in Nat /\ DOMAIN feed \subseteq Nat
      BY <1>1 DEF TInv, TypeOK, Device
    <3> QED
      BY <3>1 DEF Beyond
  <2> QED
    BY <2>1, <2>2 DEF Right
<1> QED
  BY <1>1, SpecLInv, PTL
=============================================================================
