-------------------------------- MODULE Ping --------------------------------
(***************************************************************************)
(* The long polls of internal/eas: cmdPing and the registry pingWait that  *)
(* lets a newer Ping, or any other command, end the poll of an account on  *)
(* a device, and the mute table pingNotified that keeps a client which     *)
(* never consumes its changes from polling in a busy loop.                 *)
(*                                                                         *)
(* A key is an account on a device.  Each Ping request makes one channel;  *)
(* a channel is named by its request.  closed[p] counts how often it was   *)
(* closed: a second close of a Go channel panics.  Time is abstract: the   *)
(* 2 s tick, the heartbeat and the end of the 30 s mute are steps that may *)
(* come at any moment.                                                     *)
(***************************************************************************)
EXTENDS Integers, FiniteSets

CONSTANTS
  Keys,      \* user id | device id
  Folders,
  Pings,     \* the Ping requests that can be in flight
  NoPing, NoFolder,
  MaxSeq     \* bound: the changes of a folder

ASSUME PingAssumption == NoPing \notin Pings /\ NoFolder \notin Folders /\ MaxSeq \in Nat

VARIABLES
  feed,      \* the newest seq of each folder
  pos,       \* sync_states: the seq a key has consumed in a folder, -1 without a row
  pingWait,  \* pingWait: the registered request of each key
  notified,  \* pingNotified: the seq last announced for a key and folder, -1 if expired
  pc,        \* where each request is
  key,       \* whose it is
  targets,   \* the folders it watches
  left,      \* those this round has still to look at
  seen,      \* the folder it looks at or is about to announce, and the seq it read for it
  answer,    \* the Status it returns, 0 before
  closed     \* how often its channel was closed

world == <<feed, pos>>
local == <<key, targets, left, seen, answer>>
vars == <<feed, pos, pingWait, notified, pc, key, targets, left, seen, answer, closed>>

Seqs == {-1} \cup Nat
News == [folder : Folders \cup {NoFolder}, seq : Seqs]
NoNews == [folder |-> NoFolder, seq |-> -1]
Places == {"idle", "acquire", "poll", "changes", "notify", "wait", "release"}

\* Types, with the folders a request watches always among the existing ones.
TypeOK ==
  /\ feed \in [Folders -> Nat]
  /\ pos \in [Keys -> [Folders -> Seqs]]
  /\ pingWait \in [Keys -> Pings \cup {NoPing}]
  /\ notified \in [Keys -> [Folders -> Seqs]]
  /\ pc \in [Pings -> Places]
  /\ key \in [Pings -> Keys]
  /\ targets \in [Pings -> SUBSET Folders]
  /\ left \in [Pings -> SUBSET Folders]
  /\ seen \in [Pings -> News]
  /\ answer \in [Pings -> {0, 1, 2}]
  /\ closed \in [Pings -> Nat]

Init ==
  /\ feed = [f \in Folders |-> 0]
  /\ pos = [k \in Keys |-> [f \in Folders |-> -1]]
  /\ pingWait = [k \in Keys |-> NoPing]
  /\ notified = [k \in Keys |-> [f \in Folders |-> -1]]
  /\ pc = [p \in Pings |-> "idle"]
  /\ key \in [Pings -> Keys]
  /\ targets = [p \in Pings |-> {}]
  /\ left = [p \in Pings |-> {}]
  /\ seen = [p \in Pings |-> NoNews]
  /\ answer = [p \in Pings |-> 0]
  /\ closed = [p \in Pings |-> 0]

----------------------------------------------------------------------------
\* The rest of the server

\* A writer appends to a folder's feed.
Change(f) ==
  /\ feed[f] < MaxSeq
  /\ feed' = [feed EXCEPT ![f] = @ + 1]
  /\ UNCHANGED <<pos, pingWait, notified, pc, local, closed>>

CancelPingKeeps(k) ==
  /\ closed' = [p \in Pings |-> IF p = pingWait[k] THEN closed[p] + 1 ELSE closed[p]]
  /\ UNCHANGED pingWait

\* cancelPing
CancelPing(k) ==
  /\ closed' = [p \in Pings |-> IF p = pingWait[k] THEN closed[p] + 1 ELSE closed[p]]
  /\ pingWait' = [pingWait EXCEPT ![k] = NoPing]

\* Every command but Ping first ends the key's poll.
OtherCommand(k) ==
  /\ CancelPing(k)
  /\ UNCHANGED <<world, notified, pc, local>>

\* A Sync handler that has come so far drops or saves the position of a folder: an
\* initial sync goes back to none and to 0, the others on along the feed.
SavePosition(k, f, s) ==
  /\ s <= feed[f]
  /\ s \in {-1, 0} \/ s > pos[k][f]
  /\ pos' = [pos EXCEPT ![k][f] = s]
  /\ UNCHANGED <<feed, pingWait, notified, pc, local, closed>>

\* pingNotifyInterval has passed since the announcement.
MuteEnds(k, f) ==
  /\ notified[k][f] # -1
  /\ notified' = [notified EXCEPT ![k][f] = -1]
  /\ UNCHANGED <<world, pingWait, pc, local, closed>>

----------------------------------------------------------------------------
\* cmdPing

BeginUnchecked(p, k, fs) ==
  /\ pc[p] = "idle"
  /\ pc' = [pc EXCEPT ![p] = "acquire"]
  /\ key' = [key EXCEPT ![p] = k]
  /\ targets' = [targets EXCEPT ![p] = fs \cup {NoFolder}]
  /\ answer' = [answer EXCEPT ![p] = 0]
  /\ closed' = [closed EXCEPT ![p] = 0]
  /\ UNCHANGED <<world, pingWait, notified, left, seen>>

\* The request arrives, with the folders that exist and belong to the user.
Begin(p, k, fs) ==
  /\ pc[p] = "idle"
  /\ pc' = [pc EXCEPT ![p] = "acquire"]
  /\ key' = [key EXCEPT ![p] = k]
  /\ targets' = [targets EXCEPT ![p] = fs]
  /\ answer' = [answer EXCEPT ![p] = 0]
  /\ closed' = [closed EXCEPT ![p] = 0]
  /\ UNCHANGED <<world, pingWait, notified, left, seen>>

AcquirePingKeepsOld(p) ==
  /\ pc[p] = "acquire"
  /\ pingWait' = [pingWait EXCEPT ![key[p]] = p]
  /\ pc' = [pc EXCEPT ![p] = "poll"]
  /\ left' = [left EXCEPT ![p] = targets[p]]
  /\ UNCHANGED <<world, notified, key, targets, seen, answer, closed>>

\* acquirePing: closes the channel it replaces.
AcquirePing(p) ==
  /\ pc[p] = "acquire"
  /\ closed' = [q \in Pings |-> IF q = pingWait[key[p]] THEN closed[q] + 1 ELSE closed[q]]
  /\ pingWait' = [pingWait EXCEPT ![key[p]] = p]
  /\ pc' = [pc EXCEPT ![p] = "poll"]
  /\ left' = [left EXCEPT ![p] = targets[p]]
  /\ UNCHANGED <<world, notified, key, targets, seen, answer>>

\* GetSyncState of one folder.  A folder the device has never synced is passed over.
Look(p, f) ==
  LET s == pos[key[p]][f]
  IN  /\ pc[p] = "poll"
      /\ f \in left[p]
      /\ left' = [left EXCEPT ![p] = @ \ {f}]
      /\ IF s # -1
           THEN /\ pc' = [pc EXCEPT ![p] = "changes"]
                /\ seen' = [seen EXCEPT ![p] = [folder |-> f, seq |-> s]]
           ELSE UNCHANGED <<pc, seen>>
      /\ UNCHANGED <<world, pingWait, notified, key, targets, answer, closed>>

\* A store error of GetSyncState: the folder is passed over in this round.
LookFails(p, f) ==
  /\ pc[p] = "poll"
  /\ f \in left[p]
  /\ left' = [left EXCEPT ![p] = @ \ {f}]
  /\ UNCHANGED <<world, pingWait, notified, pc, key, targets, seen, answer, closed>>

HasChangesAfterOneTooFar(p, f) ==
  /\ pc[p] = "changes"
  /\ seen[p].folder = f
  /\ IF feed[f] > seen[p].seq + 1
       THEN /\ pc' = [pc EXCEPT ![p] = "notify"]
            /\ UNCHANGED seen
       ELSE /\ pc' = [pc EXCEPT ![p] = "poll"]
            /\ seen' = [seen EXCEPT ![p] = NoNews]
  /\ UNCHANGED <<world, pingWait, notified, key, targets, left, answer, closed>>

\* HasChangesAfter, with the position as Look read it: a Sync handler or a reset may
\* have moved it since.
HasChangesAfter(p, f) ==
  /\ pc[p] = "changes"
  /\ seen[p].folder = f
  /\ IF feed[f] > seen[p].seq
       THEN /\ pc' = [pc EXCEPT ![p] = "notify"]
            /\ UNCHANGED seen
       ELSE /\ pc' = [pc EXCEPT ![p] = "poll"]
            /\ seen' = [seen EXCEPT ![p] = NoNews]
  /\ UNCHANGED <<world, pingWait, notified, key, targets, left, answer, closed>>

\* A store error of HasChangesAfter.
HasChangesAfterFails(p) ==
  /\ pc[p] = "changes"
  /\ pc' = [pc EXCEPT ![p] = "poll"]
  /\ seen' = [seen EXCEPT ![p] = NoNews]
  /\ UNCHANGED <<world, pingWait, notified, key, targets, left, answer, closed>>

\* shouldNotify: not again for the same position while it is muted.
ShouldNotify(k, f, s) == notified[k][f] # s

Notify(p) ==
  LET k == key[p]
      f == seen[p].folder
      s == seen[p].seq
  IN  /\ pc[p] = "notify"
      /\ IF ShouldNotify(k, f, s)
           THEN /\ notified' = [notified EXCEPT ![k][f] = s]
                /\ answer' = [answer EXCEPT ![p] = 2]
                /\ pc' = [pc EXCEPT ![p] = "release"]
           ELSE /\ pc' = [pc EXCEPT ![p] = "poll"]
                /\ UNCHANGED <<notified, answer>>
      /\ seen' = [seen EXCEPT ![p] = NoNews]
      /\ UNCHANGED <<world, pingWait, key, targets, left, closed>>

\* A round without news ends: the heartbeat is over, or the request goes to sleep.
HeartbeatOver(p) ==
  /\ pc[p] = "poll"
  /\ left[p] = {}
  /\ pc' = [pc EXCEPT ![p] = "release"]
  /\ answer' = [answer EXCEPT ![p] = 1]
  /\ UNCHANGED <<world, pingWait, notified, key, targets, left, seen, closed>>

Sleep(p) ==
  /\ pc[p] = "poll"
  /\ left[p] = {}
  /\ pc' = [pc EXCEPT ![p] = "wait"]
  /\ UNCHANGED <<world, pingWait, notified, local, closed>>

CancelledMissed(p) ==
  /\ pc[p] = "wait"
  /\ closed[p] > 1
  /\ pc' = [pc EXCEPT ![p] = "release"]
  /\ answer' = [answer EXCEPT ![p] = 1]
  /\ UNCHANGED <<world, pingWait, notified, key, targets, left, seen, closed>>

\* The select: the client went away, or the channel was closed ...
Cancelled(p) ==
  /\ pc[p] = "wait"
  /\ closed[p] > 0
  /\ pc' = [pc EXCEPT ![p] = "release"]
  /\ answer' = [answer EXCEPT ![p] = 1]
  /\ UNCHANGED <<world, pingWait, notified, key, targets, left, seen, closed>>

Disconnected(p) ==
  /\ pc[p] = "wait"
  /\ pc' = [pc EXCEPT ![p] = "release"]
  /\ answer' = [answer EXCEPT ![p] = 1]
  /\ UNCHANGED <<world, pingWait, notified, key, targets, left, seen, closed>>

\* ... or two seconds passed first, and the folders are looked at again.  (When both
\* happened the select may take the timer, which is the same as the timer first.)
Tick(p) ==
  /\ pc[p] = "wait"
  /\ closed[p] = 0
  /\ pc' = [pc EXCEPT ![p] = "poll"]
  /\ left' = [left EXCEPT ![p] = targets[p]]
  /\ UNCHANGED <<world, pingWait, notified, key, targets, seen, answer, closed>>

ReleasePingAlways(p) ==
  /\ pc[p] = "release"
  /\ pingWait' = [pingWait EXCEPT ![key[p]] = NoPing]
  /\ pc' = [pc EXCEPT ![p] = "idle"]
  /\ targets' = [targets EXCEPT ![p] = {}]
  /\ left' = [left EXCEPT ![p] = {}]
  /\ UNCHANGED <<world, notified, key, seen, answer, closed>>

\* releasePing: only a request that is still the registered one unregisters.
ReleasePing(p) ==
  /\ pc[p] = "release"
  /\ pingWait' = [pingWait EXCEPT ![key[p]] = IF @ = p THEN NoPing ELSE @]
  /\ pc' = [pc EXCEPT ![p] = "idle"]
  /\ targets' = [targets EXCEPT ![p] = {}]
  /\ left' = [left EXCEPT ![p] = {}]
  /\ UNCHANGED <<world, notified, key, seen, answer, closed>>

----------------------------------------------------------------------------
Step(p) ==
  \/ AcquirePing(p) \/ (\E f \in Folders : Look(p, f) \/ HasChangesAfter(p, f))
  \/ Notify(p)
  \/ HeartbeatOver(p) \/ Sleep(p) \/ ReleasePing(p)

Next ==
  \/ \E f \in Folders : Change(f)
  \/ \E k \in Keys : OtherCommand(k) \/ (\E f \in Folders : MuteEnds(k, f))
  \/ \E k \in Keys, f \in Folders, s \in -1 .. MaxSeq : SavePosition(k, f, s)
  \/ \E p \in Pings : HasChangesAfterFails(p) \/ (\E f \in Folders : LookFails(p, f))
  \/ \E p \in Pings : Step(p) \/ Cancelled(p) \/ Disconnected(p) \/ Tick(p)
  \/ \E p \in Pings, k \in Keys, fs \in SUBSET Folders : Begin(p, k, fs)

Spec == Init /\ [][Next]_vars

\* Handlers run on, the 2 s timer fires, the heartbeat (at most 120 s) ends, a mute
\* ends, and a store that is asked again and again answers at last.  The device keeps
\* a poll on all its folders: however often its requests end, it sends the next one.
Fairness ==
  /\ \A p \in Pings : WF_vars(Step(p)) /\ WF_vars(Cancelled(p) \/ Tick(p))
  /\ \A p \in Pings : SF_vars(HeartbeatOver(p))
  /\ \A k \in Keys, f \in Folders :
       /\ SF_vars(\E p \in Pings : key[p] = k /\ Look(p, f))
       /\ SF_vars(\E p \in Pings : key[p] = k /\ HasChangesAfter(p, f))
  /\ \A k \in Keys, f \in Folders : WF_vars(MuteEnds(k, f))
  /\ \A k \in Keys : SF_vars(\E p \in Pings : Begin(p, k, Folders))

FairSpec == Spec /\ Fairness

----------------------------------------------------------------------------
\* Properties

Registered(p) == pc[p] \in {"poll", "changes", "notify", "wait", "release"}

\* No channel is closed twice, whatever acquirePing, cancelPing and releasePing of
\* overlapping requests do: the second close would panic the server.
ClosedOnce == \A p \in Pings : closed[p] <= 1

\* "only a single Ping is held per account on that device" (cmdPing): of the polls
\* of one key that are past acquirePing, at most one has not been told to end.
SinglePoll ==
  \A p, q \in Pings :
    Registered(p) /\ Registered(q) /\ key[p] = key[q] /\ closed[p] = 0 /\ closed[q] = 0
      => p = q

\* A poll that was not told to end can be: it is the one the registry holds for its
\* key, so the next command of the key will find it.
Reachable ==
  \A p \in Pings : Registered(p) /\ closed[p] = 0 => pingWait[key[p]] = p

\* A poll that was told to end does end (the select of cmdPing).
CancelledEnds ==
  \A p \in Pings : (Registered(p) /\ closed[p] > 0) ~> (pc[p] = "idle")

Behind(k, f) == pos[k][f] # -1 /\ feed[f] > pos[k][f]

\* A device that keeps polling is told of a pending change, or has fetched it: the
\* mute, cancelled polls and polls of other folders only delay it.
Announced ==
  \A k \in Keys, f \in Folders :
    Behind(k, f) ~> (~Behind(k, f) \/ \E p \in Pings : key[p] = k /\ answer[p] = 2)

=============================================================================
