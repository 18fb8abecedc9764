# lifemail: TLA+ models, checks and proofs

lifemail is a mail server in one Go process: ActiveSync (EAS) for phones, IMAP and
SMTPS for mail programs, a webmail and admin API, an inbound API fed by a Cloudflare
worker, calendars with a public feed, and an outbound queue in front of an SMTP relay.
All state is in one database and in a directory of blob files. Most statements are
transactions of their own; the few transactions over several statements (creating an
account, setting a primary address, changing a folder, replacing exceptions) are single
steps in the models. HTTP handlers, IMAP and SMTP sessions and the outbound worker run
concurrently and meet only in that store and in a few in-memory tables. What can go wrong
is therefore mostly what happens *between* statements, and every module here makes each
store statement a step.

## Inventory

| component | state | operations | interacts with | hard because |
|---|---|---|---|---|
| Sync (`eas/sync.go`, `store/sync.go`) | `sync_states` (key, position), `sync_items` (what a device has) | key check, initial sync, upload Add/Change/Delete/Fetch, window of the feed, save, answer | change feed, item rows, Ping | statements of writers, other handlers and crashes in between; lost answers and repeated keys; position saved before the answer arrives |
| Change feed (`changes`) and writers (`deliver`, `api/inbound`, `api/user`, `imap`, `eas/misc`) | rows of `messages`, `contacts`, `events`; `changes` | row update, then AddChange; PruneChanges | Sync, Ping | two statements, so records can be missing, late or in the other order; whole-row write-backs |
| Ping (`eas/misc.go`) | `pingWait`, `pingNotified` | acquire, poll, notify, release, cancel by other commands | feed, `sync_states` | overlapping polls share channels; liveness in spite of mute and cancellation |
| Outbound (`store/outbox.go`, `outbound/worker.go`, `smtp`) | `outbox` rows, blob files | enqueue, drain, retry/backoff, delete, admin retry/drop | submission paths, relay, admin | row, file and path written apart; stale attempt counts; crash between send and delete |
| Submission (`eas/compose.go`, `submission`, `api/compose.go`, `api/reply.go`) | none of its own | resolve, local copies, relay or queue, Sent copy | outbound, deliver | partial success, a different order in every path |
| Inbound (`api/inbound.go`, `deliver`) and out-of-office (`eas/oof.go`) | rows, `oofLast` | resolve, forward, de-duplicate, store, record, hook, notice | feed, relay, the sender's retries | check-then-insert, partial failure, retries, notices that are delivered like mail |
| IMAP (`imap`) | selected mailbox per connection | SELECT, FETCH, STORE, APPEND, MOVE, IDLE, CREATE, DELETE, RENAME | rows, feed, folders | UIDs are global ids; sequence numbers re-read per command; write-backs |
| Folders (`eas/folders.go`, `store/folders.go`) | `folders`, `users.folder_seq`, public calendars | FolderSync/Create/Delete/Update, mailboxes, calendars, Spam | accounts, IMAP, webmail | key and list read at different times; key jumps |
| Accounts and addresses (`store/users.go`, `aliases.go`, `api/users.go`) | `users`, `aliases`, the password cache | create, delete, aliases, primary address, password, sign in | everything | checks before, not in, the statements that write; cached passwords |
| Login limiter (`authlimit`) | failures per key | Locked, Fail, Reset | all logins | check-then-act around a slow password check |
| Calendar (`store/items.go`, `eas/extended.go`, `eas/imip.go`, `ical/feed.go`) | `events`, `event_exceptions`, the sequence | webmail edits, uploads, meeting responses, iMIP replies, feed, download | feed of changes, delivery | two tables, two reads; whole-row write-backs by four kinds of writer |
| Devices (`store/devices.go`) | `devices` | reset, delete, provisioning, wipe | Sync | half-done resets |
| Event hub (`api/events.go`) | streams per account | Subscribe, Publish, Close | webmail, deliver | one mutex around every operation |
| Formats (`wbxml`, `mailparse`, `ical`, `eas/appdata.go`), webmail views, settings, migrations, web client | - | parsing, rendering, configuration | - | not concurrent; data too large to enumerate |

What makes them correct: Sync - no update lost, no deleted item left, `sync_items` right,
position monotonic, a polling device catches up. Ping - no double close, cancelled polls
end, changes are announced. Outbound - nothing accepted is lost, duplicates only after
faults, bounded attempts, everything settles. Delivery - an accepted message reached every
recipient, once unless requests overlap, a verdict is final, notices stop. IMAP - table
and feed agree, a client's numbers stay right, IDLE announces. Folders - a key covers
nothing the device does not show, a device that keeps asking converges. Accounts - a reset
takes effect at once, an account keeps its primary address, guesses after a lock are
bounded. Calendar - a copy with the current sequence is current, an old copy will be
renewed, nobody undoes what it does not carry.

## Modules

| module | models |
|---|---|
| `EasSync` | one folder: rows, feed, `sync_states`, `sync_items`, Sync handlers, the device, administrator, crashes |
| `Ping` | long polls, registry and mute table |
| `Outbox` | submission's hand-over, queue, worker, deletes, administrator |
| `Delivery` | the four ways a message is accepted, local delivery, forwards, out-of-office notices, the senders |
| `MailPromise` | abstract: what a mail server promises a sender; `Delivery` refines it |
| `Imap` | messages in two folders under IMAP, webmail, ActiveSync and delivery; sessions, numbers, UIDs |
| `Folders` | the hierarchy, its counter, the devices' keys; every command that changes folders |
| `Accounts` | accounts, addresses, passwords, signing in, the limiter, the password cache |
| `Calendar` | one event and its exceptions; writers, public feed, a device's copy |
| `EasSync_proofs`, `Ping_proofs`, `Outbox_proofs`, `Delivery_proofs`, `Imap_proofs`, `Folders_proofs`, `Accounts_proofs`, `Calendar_proofs` | theorems |
| `MC*` | declare model values and, for `MCDelivery`, the messages tried; the `.cfg` files give the bounds |

Operators named after a definition with a suffix (`FetchToEnd`, `ReleasePingAlways`, ...)
are faulty variants, placed before the definition they vary. No specification uses them:
each shows that a property can tell the code from a plausible mistake.

How the modules fit together: the change feed is whole in `EasSync`; `Imap`, `Delivery`
and `Calendar` keep of it only what their own properties need (the last record of each
message, whether a row was recorded, how many records there are) and show that their
writers feed it as `EasSync` assumes of its `Deliver`, `Edit`, `Rewrite`, `Remove` and
`Move*`. `Delivery` hands mail for other servers to the relay or queue in one step whose
details are `Outbox`. The `Deliver` of `Imap` is the stored copy of `Delivery`.

### EasSync

`row[i]` is where item `i` is (`here`: in the folder, `away`: in another), its deleted
flag and a content number (every write makes a new one). `feed` is the folder's part of
`changes`; `low` the prefix that was pruned; `due` the writers between row update and
`AddChange`. `state` and `known` are `sync_states` and `sync_items`; a missing state is
key 0. `req[<<d, t>>]` is the `t`-th concurrent handler of device `d` with the locals of
`syncCollection`.

A handler runs `Restart, ForgetAllItems, Begin` (initial sync), `Continue` or `Refuse`
(Status 3); `Load, Write*, Log` for an uploaded command (`LoadFetch` for Fetch);
`KnownItems, Fetch, Emit*, More` (serverChanges: the batch limit `window*4+len(skipped)`,
the window of distinct items, skipped own records, the last kind of an item in the
batch; itemCommand loads the row at `Emit`, not at `Fetch`); `Save`; and the answer,
`Receive`. Errors are `SyncFails` (Status 5), `LoadFails` (answered like a missing item),
`WriteFails` (Status 6), `LogFails` (ignored except for Add), `EmitFails` (item passed
over) and `MarkFails` (ignored).

The device is external: one outstanding request, it keeps the returned key, applies
Add/Change/Delete (a Change of an item it does not hold does nothing), repeats after a
lost answer or Status 5, starts again after Status 3. Two of its fields name exactly where
`sync_items` differs from what it holds: `made` (items it uploaded: the server never marks
them known) and `dropped` (items it deleted: the server keeps them known).

Abstractions: one uploaded command per request; the trash folder's own feed is left out
(with DeletesAsMoves the code also adds to it, and its record raises the batch limit by
one more); contents are numbers, so two different edits are always different; an edit
that writes back a row read before it was deleted or moved is `Rewrite`; `Add` of an item
takes any unused id.

### Ping

`pingWait`, `pingNotified` (`notified`), and per request its place in `cmdPing`; the two
store queries for a folder (`Look`, `HasChangesAfter`) are two steps, either may fail, and a
Sync may save a position between them. A channel is named by its request and `closed` counts
its closes. `OtherCommand` is the `cancelPing` of every command but Ping; `SavePosition` is
what a Sync handler does to `sync_states`, which may happen much later. Time is abstract:
tick, heartbeat and end of the mute come at any moment. (When a tick and a close are both
ready the select may take either; taking the tick is the same as the tick just before the
close.) The cleanup of `pingNotified` above 1024 entries only removes expired ones, which is
`MuteEnds`.

### Outbox

One row per message with attempts, `due` (next_attempt has come), failed and whether
raw_path is set; `blob` are the files. Submission: direct attempt, then `Insert, Put,
SetPath`. Worker: `Drain` (any `Limit` due rows; the code takes them by id), `LoadRaw`,
then for each item send and `Fail` or delete. `DeleteOutbound` (`ReadPath, DeleteRow,
RemoveBlob`) is run by the worker and by the administrator. `hollow` are the messages the
relay took without a source, `tries` the real number of attempts.

### Delivery and MailPromise

A message is its path (`via`), To and other recipients, sender, whether it has a
Message-ID (`key`) and whether it looks automated. `Owner` is `UserByAddress`, aliases and
`user+tag` included. `req[<<r, 1>>]` is a handler, level 2 the notice that the inbox hook
of level 1 sends and waits for, level 3 the notice that would answer it. A handler runs:

- `Resolve*`: the inbound API and ActiveSync resolve all recipients before they store
  anything; submission and webmail store as they go. An unknown address on a hosted domain
  is refused (inbound), put with the relay's, or reported, as each path does (`NoAccount`).
- `Relay`, `Forward`: relay or queue for other addresses and catch-all destinations.
- `Check` (MessageIDExists), `InsertRow`, `SetPath` (source), `InsertAttachment`,
  `AddChange`, `OofReply`/`NoNotice`, `Publish`: one recipient, one statement each, with
  the failure of each (`CheckFails`, `InsertFails`, `RecordFails`).
- the answer: `Receive`, `LoseAnswer`, or the sender gave up before (`GiveUp`).

Mail servers retry until they get a verdict (`Retry`); a person sends again only after an
error. `DayPasses` ends the once-a-day memory for one pair, `Crash` forgets all of it and
stops every handler where it is. `relay` counts the clients' messages only, not notices.
`races` counts what may defeat the duplicate check:
overlapping requests of the same message and failed look-ups.

`KeepsPromise` is the refinement: `reached` are the recipients with a copy or handed to
the relay, `verdict` what the sender knows. `Accept` demands that everybody was reached;
`Refuse` of a message that the inbound API refuses as a whole, that nobody was.

### Imap

`rows` is the messages table (a message's id, hence its UID, is its index), `last` the
kind of the last change record per folder and message. `sess[c]` is what a connection
selected and which messages its client has numbers for (`told`); `shifted` says that the
server changed the folder in a way those numbers do not survive: the server never sends
EXPUNGE. `job[a]` is a command in progress: the list as it read it (`snap`), the messages
still to be written, the one being recorded. STORE writes back every column computed from
`snap` (`Apply`, `Written`), MOVE and EmptyFolder write one; then one record, two for a
move. Sequence sets are one range with `*`, in either order, by number or UID. `tainted`
are the messages written by two commands at once or whose record was lost: for those table
and feed may disagree, and do, so `FeedTells` says nothing of a stale STORE. One case needs
no second client: `MoveItems` does not ask whether the message was deleted, moves the
tombstone and records it in its new folder as added (`ghost`; `eas/misc.go:247-288`). A
device that then loads it is told it is gone. `FeedTells` states that case as it is.
`IdleTells` is about arrivals at or above the UIDNEXT that IDLE compares with: what is
delivered or appended always is; a message moved in below it (`Overtaken`) is announced only
when a later one raises UIDNEXT. FETCH rendering, SEARCH criteria, STATUS and LIST are left
out (they change nothing).

### Folders

A folder has parent, name, type, number and tombstone; `folderSeq` is `users.folder_seq`,
counted up in the same transaction as the change (`Touch`). A device holds a key and a
view. A request keeps `since`, the counter as authentication read it (`seq`), and for
changes the row as last read or written (`was`) and whether anyone else wrote it since
(`clean`). `jumped` names exactly what the protocol cannot keep: the folders others changed
between the device's old key and the key its own FolderCreate, FolderDelete or
FolderUpdate was answered with. Names and parents are model values; two provisioned
folders stand for the defaults.

### Accounts

Accounts, addresses (`Plain` strips a `+tag`, which `UserByAddress` tries when the address
itself belongs to nobody), the password cache of ActiveSync, and the limiter's entries with
a clock. A bcrypt hash is the password and a salt of its own, so equal passwords have
different hashes. The operator's requests take one or two steps: `DeleteAlias` and
`SetPrimaryAddress` read and check first and write later; `UpdateUser` sets the address,
then the password, and may be refused between the two (an empty display name, a password
that cannot be hashed). A sign-in takes `SignIn` (Locked), `UserByLogin`, `CheckPassword`,
`Remember`, and `Welcome` (Reset) or `Unauthorized` (Fail); a database error at the
look-up counts as a failure, as in the code. `until` and `late` are history: when the lock
last announced for a key ends, and the failures counted inside it. Doors differ in what
they count by (login, or remote host for webmail).

### Calendar

One event: everything its writers do not tell apart is `text`, numbered by the request
that wrote it; rule, attendee answer, meeting status, deletion and sequence are separate.
Requests read (`CreateEvent`, `EditEvent`, `UploadChange`, `MeetingResponse`,
`HandleIMipReply`, ...), then `Update` all columns, then replace exceptions if they carry
some, then `AddChange`. Uploads carry any attendee and meeting state (`Carried`, any set of
integers: `eas/appdata.go:631-632, 651` store what they parse), so `TypeOK` can promise the
six known states only of what the server computes itself. A reply of somebody who is no
attendee sets the meeting state alone. Readers take the row, then the exceptions. Either
read can fail for a device: without the row the item is passed over, without the exceptions
it is sent without them, and the key moves on both times. `missed` is a revision whose
record, row or exceptions such a failure swallowed.

## Runs

| run | bounds | shows |
|---|---|---|
| `eas_email` | 1 device, 2 messages (1 older than the filter), window 1, 4 records, 2 contents, uploads Change and Delete, 1 lost answer | `NothingLost`, `NoZombie`, `KnownMatches`, `NeverBack` |
| `eas_pim` | 2 items, 3 records, uploads Add, Change, Delete, Fetch, 1 lost answer with the restart after it, pruning at any time | `NothingLost` |
| `eas_faults` | 1 item, two overlapping handlers, one fault of any kind (lost answer, store error, crash, reset) | `CatchesUp` |
| `ping` | 1 account on a device, 1 folder, 2 changes, 2 concurrent polls | `ClosedOnce`, `Reachable`, `CancelledEnds`, `Announced` |
| `outbox` | 2 messages, 2 attempts, 1 fault, 1 administrator action, 1 reconfiguration | `NoLoss`, `AttemptsBounded`, `DuplicateNeedsFault`, `Settles` |
| `outbox_source` (violated) | 1 message, no fault | the worker can send a message before its source is stored |
| `delivery` | one message of each kind, or two inbound at once to one account; 2 accounts, an alias, a catch-all, an unknown and a foreign address; 2 handlers, 1 fault, 1 day | `Accepted`, `NoDuplicates`, `OneNoticeADay`, `NoticesEnd`, `Complete`, `KeepsPromise` (refinement), `InboundSettles` |
| `delivery_retry` (violated) | the same | a retry after a half-done insert is skipped as a duplicate |
| `imap` | 1 connection, 1 other handler, 2 folders, 3 messages, 3 commands, 1 fault | `FeedTells`, `NumbersHold`, `IdleTells` |
| `folders` | 1 device, 2 handlers, 3 folders, 3 commands, 1 fault | `Told`, `Converges` |
| `accounts` | 2 accounts, names, addresses (one the other with a `+tag`), passwords and handlers; a door per login and one per host; lock after 2 failures; 5 requests, 3 by the operator; 2 ticks | `ResetAtOnce`, `GuessesBounded`, `PrimaryKept` |
| `calendar` | 2 handlers, 1 rule, 1 occurrence, uploads with state 5, 3 requests, 2 loads, 1 fault | `FeedFresh`, `DeviceTold`, `Keeps` |

`eas_email`, `ping`, `outbox`, `delivery`, `imap`, `folders`, `accounts` and `calendar`
check `TypeOK` as well; in `Accounts` and `Folders` it includes what the schema enforces.

Why the bounds suffice. `eas_*`: with window 1 two items already fill a window and leave
more waiting; four records allow add, change, delete and add again of one item, or two items
interleaved (the batch limit `window*4+len(skipped)` never binds at these bounds; `NoneLost`
proves the same for every window); three records in `eas_pim` allow an item and its pruning
beside another; keys are unbounded in the protocol but no upload starts above key 2, and
polling goes on. The feed stops growing at `MaxSeq`, after which every handler still runs,
so the settled states are reached. One device suffices because devices share only rows and
feed, and another device's uploads have the effects of the other writers. `eas_faults` with
two faults and only Delete uploads (3.3 million states) also passes; it is kept to one fault
for time. `ping`: keys share nothing but the feed, whose records nobody takes away, and
`Ping_proofs` proves the safety properties for any number of keys, folders and polls; two
changes and two polls allow a position that moves while another poll looks at it.
`delivery`: what two handlers do to each other is the same message sent again, or two
messages for one account; the message without recipients beside the single ones keeps them
alone. `imap`: a second IMAP connection writes like the first, and the other handler adds
delivery, marking read, MoveItems and EmptyFolder; three commands are two writers and the
one that moves the UIDs back. `folders`: a key jump takes one command of the device and one
of somebody else; the third command is the rename that is done before its reparenting fails.
`accounts`: a race needs two handlers; a lock, a late failure and a reset fit into five
requests. `calendar`: create, then two overlapping writers, seen by two loads.

`calendar`: one state that no server computation yields (5) stands
for all an upload may carry, since nothing looks at a carried state again.

The two violations are disagreements between a comment and the code, quoted in
`PROJECT.json`: `store/outbox.go:79-80` against `Insert`/`Drain`, and
`api/inbound.go:283` ("a retry is safe") against `InsertRow`/`SetPath`.

## Fairness

`EasSync.FairSpec`: a started handler and a writer's second statement run on, an answer
that is not lost arrives, a device polls again. No fairness for users, administrators and
faults; faults are finitely many (`MaxFaults`), since with a store that always fails
nothing can be promised. `Ping.FairSpec`: handlers run on, timers fire, the mute ends, a
store asked for ever answers at last, and the device keeps sending Pings (strong fairness:
its polls are often busy). `Outbox.FairSpec`: the worker's ticker and steps, the clock and
started deletes go on; nothing forces the relay to accept - `Settles` holds because
attempts are bounded. `Delivery.FairSpec`: handlers run on, answers that are not lost
arrive, and a mail server whose message has no verdict tries again
(`deploy/cloudflare-worker.js:36-47` throws on every answer but success and 550, so that
the sending server keeps the message).
`Imap.FairSpec`: commands run on and IDLE looks every 200 ms; clients are not forced to do
anything. `Folders.FairSpec`: handlers run on and devices keep sending FolderSync.

## Proofs

All theorems are for every value of the constants that satisfies the named assumptions.

`Ping_proofs`: `IInv` adds to the properties that the registry only holds live, unclosed
requests of the right key and that a request not yet registered is unclosed. `ClosedOnce`
alone is not inductive: a close is safe only because whoever is in the registry was never
closed. `OnePollPerKey` follows from `Reachable`: two live polls of one key would both be
the registered one.

`Outbox_proofs`: `IInv` is `TypeOK` with `Shape` (worker, batch and deleters fit
together), `Life` (nothing refers to a message before its row exists; a path implies
file), `Kept` (a row disappears only after the relay took the message or an administrator
dropped it), `Dup` (a message that can still be sent was taken at most once per fault) and
`Count` (attempts in row or batch lag behind the real ones by at most the faults and the
one in progress). The last is what makes the stale count of `Worker.fail` harmless.

`EasSync_proofs`: `TypeOK` needs `Busy` (a handler with a command for an item names one;
records still to be answered exist). `PositionNeverBack` assumes one handler per device at
a time and no reset, and uses `Follows`: past the key check a handler works on the saved
state and `last` is not before it. Without that assumption the property is false: two
overlapping initial syncs, one of which read the feed earlier, save in the wrong order.
The device then only sees records again, or is refused and restarts (`CatchesUp`).

The theorems about what a device holds assume `Calm`: one request of a device at a time, no
reset, no failing statement, no crash; lost answers, restarts with key 0, pruning, writers
and the other devices stay. `MarkItemKnown` runs before the answer is certain, so a failure
between the two makes `KnownMatches` false, and with it the rest. An initial sync is served
from the feed alone, so `NothingLost` excepts items a device does not hold whose records are
all pruned (`Pruned`); of an item that it holds, or that has a record left, pruning takes
nothing.
- `KInv`, for `ItemsKnown`, says for each slot what its request can be (`Asked`), that an
  answer with something in it carries a new key (`Keyed`), that contents are contents of rows
  (`Solid`), that each item is answered once (`Once`), and that `sync_items` is what the
  device has, or will have once it is answered (`Agrees`). That the key is new is what makes
  a lost answer harmless: the device is not in step until it starts again.
- `LInv`, for `NoZombies` and `NoneLost`, follows each item through a handler. Until the
  answer is put together (`Ahead`) a record of the item is still to come after the saved
  position (`Comes`: in the feed and not one the handler will pass over, or owed by a writer),
  or what the device holds, its own command counted in, is right (`Right`). While it is put
  together (`Behind`) the same is true of the position `last` and of the device as the
  answer will leave it, but for the items still on the list. The two meet in `Fetch`
  (`FetchLess`): the records it takes are all those up to `last` (`TakenWhole`, which needs
  the batch and the window rule, and finite cardinalities), and each item among them is
  answered at its first one (`AllAnswered`, by the least of its positions). A Change merged
  into a row the device had not seen needs `Merges`, the filter of the initial sync
  `Filtered`, an initial sync that will see every row `Recorded`. A step elsewhere takes
  nothing from a slot, because a row changes only together with a record that is owed
  (`Moves`, `OthersStay`).

`Accounts_proofs`: `TypeCorrect` includes the integrity of addresses, which needs the
transaction of `MakePrimary` and the cascade of `DeleteUser`. `ResetTakesEffect` uses
`CacheHonest`: whatever the cache holds is a password with a hash of that password, so an
entry for another hash never matches. `PrimaryIsKept` uses `SeenOK`, what the two handlers
checked of the rows they read; the theorem then says that these checks fail to protect an
account in exactly one way. `GuessesAreBounded` uses, for each key, that while the lock
runs the entry still carries it (a late failure neither starts a new entry, for which
`Lockout <= Window` is needed, nor shortens it), and that late failures and handlers still
past `Locked` are together at most all handlers but the one that locked.

`Calendar_proofs`: `FeedIsFresh` needs that every change of the row or of the exceptions
raises the sequence and that a load holding the current sequence holds the current row.
`DeviceIsTold` follows the load of a device from its position on: what the load has not
seen is owed by a writer, recorded after the position, or missed: its record, its row or
its exceptions met a failing statement. `WritersKeep` uses what
each kind of request copied from the row it read, for as long as the sequence is the one
it saw.

`Folders_proofs`: `Told` speaks of what devices hold; its inductive form (`IInv`) also
speaks of answers on their way. Numbers and keys are at most `folderSeq` (`Numbered`,
`KeysOK`); a FolderSync carries the key its device still has, and every folder whose number
is at most the key it will answer is in its list as the table has it (`SyncOK`: the counter
was read before the list, never after); of a device's own change, as long as the number it
saw or gave stands, so does the row (`ChangeOK`). `NeverRefused` is read off the same
invariant.

`Imap_proofs`: `FeedAgrees` follows a command from its write to its last record: table and
feed agree but for the folders whose record is still to come (`RecordOK`), and a message
that two commands record at once is tainted (`OneRecorder`). A tombstone that MoveItems
moved is followed as what it is shown as (`Shown`). `NumbersStay` needs that what a
client has numbers for is the beginning of its folder (`Beginning`), from which the equality
of the two counts follows.

`Delivery_proofs` has layers, each inductive on top of the ones before:
- `Base`: the types, what a handler of each path may look like at each statement
  (`HandlerOK`), the row it is storing (`RowOK`), level 2 is a notice for a level 1 that
  waits, and never has another under it (`Nesting`), notices sent against those remembered
  (`Counted`). `OneNotice` and `NoticesStop` follow.
- `Kept`: a handler serves the message its client sent and at most one handler of a message
  is listened to (`Senders`); a handler that may still answer ok has reached, or still has on
  its lists, every recipient (`Covered`); a message that the inbound API must refuse reaches
  nobody (`Hopeless`). `AcceptedReached` is a part of it, and `ImplementsPromise` shows each
  step of `Delivery` to be a step of `MailPromise` or a stutter.
- `Finishing`: without faults a row is complete or in the hands of a handler that is as far
  as the row is. `CopiesComplete` follows.
- `Copied`: inbox copies of a message with a Message-ID and handlers about to insert one are
  together at most one more than `races`, and so many handlers at most are deaf. A check
  that finds no duplicate means there is no copy yet, and the handlers that may insert are
  then the one listened to and the deaf ones. `CopiesBounded` follows.

Assumptions on constants are in the modules that declare them. Besides types and bounds they
say what the code guarantees: an account owns its primary address, a catch-all address is on
a hosted domain, who submits mail by ActiveSync, SMTP or webmail is signed in as an account,
clients do not send the server's own notices (`DeliveryAssumption`), `Lockout <= Window`
(`AccountsAssumption`).

Only model-checked: the liveness properties (`CatchesUp`, `CancelledEnds`, `Announced`,
`Settles`, `InboundSettles`, `IdleTells`, `Converges`), which are out of the prover's reach.
Every safety property a passing run checks is stated by a theorem; those about Sync are
theorems for one request of a device at a time, and TLC alone looks at overlapping ones
(`eas_faults`).

Worth proving next: what is left of `KnownMatches` and `NothingLost` after a store error or a
crash, which needs a history of the items a failed step was about.

## Observations

Behaviour met while modelling that no run reports as a violation. The models contain all
of it that is in their scope, and the properties name the exceptions.

- Sync: `MarkItemKnown` runs before the response is certain, so after an error between the
  two an item can arrive as a Change of an item the device does not have
  (`store/sync.go:113`). The initial sync is served from the feed alone, so a device that
  starts after PruneChanges, a second phone or one that has to start again, never gets an
  item whose records are gone, although `store/maintenance.go:3-5` says that "nothing a
  client may still need is removed": the watermark counts only the devices that have a
  position. `NothingLost` without its last disjunct fails in `eas_pim` after one lost answer,
  and with two devices and no fault at all. The device's own
  uploads are not put into `sync_items` (`made`), its own deletes are not taken out
  (`dropped`). The record of an upload is passed over, so when the record before it says
  delete, a device that just changed the item, and thereby revived it, is told to remove it
  (`ToldDeleted`); the item comes back with its next change by somebody else.
- Outbound: relay settings removed in the middle of a batch charge every remaining message
  an attempt.
- Delivery: a catch-all forward has no duplicate check and is repeated with every retry.
  Submission answers a store error of a local copy with a permanent 550.
- Folders: the answers to a device's own changes jump its key over others' (`jumped`).
  ReparentFolder takes any parent, a deleted one or the folder itself included. Deleting a
  folder leaves its children live. The unique index covers tombstones: the name of a
  deleted folder stays taken, so Spam deleted over IMAP is never created again. IMAP can
  delete every system folder but the inbox.
- IMAP: EXAMINE's readOnly is not enforced; LOGOUT leaves the session open; APPENDUID
  names the folder's id instead of its UIDVALIDITY; the server never sends EXPUNGE though
  numbers shift (`shifted`); an IDLE poll whose list cannot be read keeps the new UIDNEXT
  and stays silent about the arrival; NextUID falls when the highest message is moved out,
  although `store/messages.go:207-208` calls it the next after any "ever used".
- Accounts: an account created without address that gets aliases has no primary one;
  DeleteAlias and SetPrimaryAddress can take a primary address, even another account's
  (`PrimaryKept`). The limiter counts in a fixed window where its comment says sliding. Web
  sessions and open IMAP connections survive a password reset. A wipe is cleared before
  its answer is sent, and by device id across accounts (`store/devices.go:135-138`).
- Calendar: answering one occurrence leaves an exception row without a start of its own,
  which the public feed publishes as an override at the series' first start; an upload
  with a rule replaces all exceptions and may drop an answered one; write-backs of old
  rows undo answers and revive deleted events (`Overwrites`); an error of EventExceptions
  sends the event without them and says nothing.

## Not modelled

- Web event hub: every operation is one critical section of a single mutex and publishing
  never blocks, so there are no interleavings to check; that the hook publishes once per
  stored inbox copy is in `Delivery` (`Complete`).
- Provisioning, policy keys and remote wipe: two columns of `devices`, each written by
  one statement; the order that matters is noted above. Attachment tokens and web sessions
  are signed and keep no state.
- Several collections or uploaded commands in one Sync request, and the trash folder's own
  feed.
- Codecs and parsers (`wbxml`, `mailparse`, `ical`, `eas/appdata.go`): sequential, over
  data too large to enumerate. Where a property needs what a conversion does (flags,
  PARTSTAT, meeting states, sequence sets), it is in the module that uses it.
- Webmail views, search and counts, which change nothing; settings and migrations; process
  start and shutdown (a crash is an action of every module with a store); the web client.
