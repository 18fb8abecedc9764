------------------------------ MODULE Accounts ------------------------------
(***************************************************************************)
(* Accounts, their addresses, and signing in to them.                      *)
(*                                                                         *)
(* The operator's requests (internal/api/users.go, aliases.go, over        *)
(* internal/store/users.go, aliases.go) change accounts and addresses; the *)
(* doors (ActiveSync, IMAP, submission, webmail, /api/me) check passwords  *)
(* through the failure limiter of internal/authlimit.  Requests run in     *)
(* handlers of their own, and between two statements of one handler any    *)
(* other may run: what a handler read may be stale when it writes.         *)
(*                                                                         *)
(* A request that is refused without a write is not a step.  Web sessions  *)
(* are signed cookies and keep nothing on the server.                      *)
(***************************************************************************)
EXTENDS Integers, FiniteSets

CONSTANTS
    Users,      \* account ids; newID never gives one twice
    Names,      \* login names
    Addresses,  \* mail addresses
    Plain,      \* Plain[a]: address a without its +tag, a itself when it has none
    Passwords,
    Handlers,   \* requests in progress at one time
    Doors,      \* the servers a client signs in to; "eas" remembers passwords
    PerHost,    \* the doors whose limiter counts per remote host only
    None,       \* no name, address, password or account
    Max,        \* failures that lock a key
    Window,     \* how long failures are counted together
    Lockout,    \* how long a locked key stays locked
    MaxTime,    \* bound: clock
    MaxOps,     \* bound: requests
    MaxChanges  \* bound: the operator's requests among them

ASSUME AccountsAssumption ==
    /\ None \notin Users \cup Names \cup Addresses \cup Passwords
    /\ Names \cap Addresses = {} /\ Plain \in [Addresses -> Addresses]
    /\ PerHost \subseteq Doors
    /\ Handlers # {} /\ IsFiniteSet(Handlers)
    /\ Max \in Nat \ {0} /\ Lockout \in Nat \ {0}
    /\ Window \in Nat /\ Lockout <= Window    \* cmd/lifemail/main.go: 5 and 10 minutes
    /\ MaxTime \in Nat /\ MaxOps \in Nat /\ MaxChanges \in Nat

VARIABLES
    users,      \* users[u]: the account's row, or NoUser
    ids,        \* ids given out so far
    aliases,    \* aliases[a]: the address' row, or NoAlias
    cache,      \* authCache[u]: a password verified against a hash
    lim,        \* the limiter's entries
    now,        \* the clock; 0 is Go's zero time
    req,        \* what each handler is doing
    ops,        \* requests so far
    changes,    \* the operator's among them; also the last salt used
    until,      \* history: when the lock last announced for a key ends
    late        \* history: failures counted for a key inside that lock

vars == <<users, ids, aliases, cache, lim, now, req, ops, changes,
          until, late>>
-----------------------------------------------------------------------------
(* Rows.  A bcrypt hash is the password with a salt of its own.            *)

Logins == Names \cup Addresses
Hash == [password : Passwords, salt : Nat]
NoHash == [password |-> None, salt |-> 0]
User == [name : Names, hash : Hash]
NoUser == [name |-> None, hash |-> NoHash]
Alias == [user : Users, primary : BOOLEAN]
NoAlias == [user |-> None, primary |-> FALSE]
NoCache == [digest |-> None, hash |-> NoHash]
Entry == [failures : Nat, first : Nat, lockedTo : Nat]
NoEntry == [failures |-> 0, first |-> 0, lockedTo |-> 0]

\* IMAP, ActiveSync, submission and /api/me count failures per login, the
\* webmail per remote host.
Key(door, login) == <<door, IF door \in PerHost THEN None ELSE login>>
Keys == Doors \X (Logins \cup {None})

Live(u) == users[u] # NoUser
HashOf(p) == [password |-> p, salt |-> changes + 1]
HasPrimary(u) == \E a \in Addresses : aliases[a].user = u /\ aliases[a].primary

\* Set req[h] and, where a request begins, count it.
Goes(h, r) == req' = [req EXCEPT ![h] = r]
Idle == [pc |-> "idle"]
Begins(h, r) ==
    /\ req[h] = Idle /\ ops < MaxOps /\ ops' = ops + 1
    /\ Goes(h, r)
Changes(h, r) ==
    /\ Begins(h, r)
    /\ changes < MaxChanges /\ changes' = changes + 1
Ends(h) == Goes(h, Idle) /\ UNCHANGED <<ops, changes>>

Init ==
    /\ \E u \in Users, n \in Names, a \in Addresses, p \in Passwords :
         /\ users = [v \in Users |->
                IF v = u THEN [name |-> n, hash |-> [password |-> p, salt |-> 1]]
                ELSE NoUser]
         /\ ids = {u}
         /\ aliases = [b \in Addresses |->
                IF b = a THEN [user |-> u, primary |-> TRUE] ELSE NoAlias]
    /\ cache = [u \in Users |-> NoCache]
    /\ lim = [k \in Keys |-> NoEntry]
    /\ now = 1 /\ ops = 1 /\ changes = 1
    /\ req = [h \in Handlers |-> Idle]
    /\ until = [k \in Keys |-> 0] /\ late = [k \in Keys |-> 0]
-----------------------------------------------------------------------------
(* The operator's requests.                                                *)

\* One transaction: the row, its folders, its address.  A name or an address
\* in use rolls it back.
CreateUser(h, u, n, a, p) ==
    /\ u \notin ids
    /\ \A v \in Users : users[v].name # n
    /\ a # None => aliases[a] = NoAlias
    /\ Changes(h, Idle)
    /\ users' = [users EXCEPT ![u] = [name |-> n, hash |-> HashOf(p)]]
    /\ ids' = ids \cup {u}
    /\ aliases' = IF a = None THEN aliases
                  ELSE [aliases EXCEPT ![a] = [user |-> u, primary |-> TRUE]]
    /\ UNCHANGED <<cache, lim, now, until, late>>

\* Deleting the row cascades to the addresses; the password cache keeps its
\* entry under the id nobody gets again.
DeleteUser(h, u) ==
    /\ Live(u)
    /\ Changes(h, Idle)
    /\ users' = [users EXCEPT ![u] = NoUser]
    /\ aliases' = [a \in Addresses |->
                     IF aliases[a].user = u THEN NoAlias ELSE aliases[a]]
    /\ UNCHANGED <<ids, cache, lim, now, until, late>>

\* The look-ups before it decide the answer's wording only: the INSERT fails
\* on an address in use and on an account that is gone.
CreateAlias(h, a, u) ==
    /\ Live(u) /\ aliases[a] = NoAlias
    /\ Changes(h, Idle)
    /\ aliases' = [aliases EXCEPT ![a] = [user |-> u, primary |-> FALSE]]
    /\ UNCHANGED <<users, ids, cache, lim, now, until, late>>

\* DeleteAlias reads the row, refuses a primary address and deletes whatever
\* row has the address by then.  An address not found is not refused yet.
DeletableUnchecked(a) == TRUE
Deletable(a) == ~aliases[a].primary
DeleteAlias(h, a) ==
    /\ Deletable(a)
    /\ Changes(h, [pc |-> "remove", addr |-> a, seen |-> aliases[a]])
    /\ UNCHANGED <<users, ids, aliases, cache, lim, now, until, late>>

RemoveAlias(h) ==
    /\ req[h].pc = "remove"
    /\ Ends(h)
    /\ aliases' = [aliases EXCEPT ![req[h].addr] = NoAlias]
    /\ UNCHANGED <<users, ids, cache, lim, now, until, late>>

\* PATCH of an account: first the primary address, if one is given, then the
\* password, if one is given.  SetPrimaryAddress refuses an address of
\* another account on what it reads, before its transaction.
UpdateUser(h, u, a, p) ==
    /\ a # None \/ p # None
    /\ LET hash == IF p = None THEN NoHash ELSE HashOf(p) IN
       IF a = None
       THEN Changes(h, [pc |-> "password", user |-> u, hash |-> hash])
       ELSE /\ Live(u) /\ aliases[a].user \in {u, None}
            /\ Changes(h, [pc |-> "primary", user |-> u, addr |-> a,
                          seen |-> aliases[a], hash |-> hash])
    /\ UNCHANGED <<users, ids, aliases, cache, lim, now, until, late>>

\* DELETE the address' row, demote the account's primary, INSERT.
MakePrimaryKeeping(u, a) == [aliases EXCEPT ![a] = [user |-> u, primary |-> TRUE]]
MakePrimary(u, a) ==
    [b \in Addresses |->
       IF b = a THEN [user |-> u, primary |-> TRUE]
       ELSE IF aliases[b].user = u THEN [aliases[b] EXCEPT !.primary = FALSE]
       ELSE aliases[b]]

\* The transaction.  An account deleted in between fails the foreign key:
\* rolled back, and the request ends there.  The request may also be refused
\* after it, for an empty display name or a password that cannot be hashed:
\* the address stays.
SetPrimaryAddress(h) ==
    /\ req[h].pc = "primary"
    /\ \/ /\ Live(req[h].user)
          /\ aliases' = MakePrimary(req[h].user, req[h].addr)
          /\ \/ Goes(h, Idle)
             \/ /\ req[h].hash # NoHash
                /\ Goes(h, [pc |-> "password", user |-> req[h].user, hash |-> req[h].hash])
       \/ ~Live(req[h].user) /\ Goes(h, Idle) /\ UNCHANGED aliases
    /\ UNCHANGED <<users, ids, cache, lim, now, ops, changes, until, late>>

SetPasswordByID(h) ==
    /\ req[h].pc = "password"
    /\ Ends(h)
    /\ users' = IF Live(req[h].user)
                THEN [users EXCEPT ![req[h].user].hash = req[h].hash]
                ELSE users
    /\ UNCHANGED <<ids, aliases, cache, lim, now, until, late>>
-----------------------------------------------------------------------------
(* The limiter.                                                            *)

Locked(k) == now < lim[k].lockedTo

\* What Locked leaves of an entry that is not locked.
AfterLocked(k) ==
    IF lim[k].lockedTo = 0 /\ lim[k] # NoEntry /\ now - lim[k].first > Window
    THEN NoEntry ELSE lim[k]

\* Whether Fail starts a new entry: none, a lock that is over, an old window.
StaleAnyLock(e) == e = NoEntry \/ e.lockedTo # 0 \/ now - e.first > Window
Stale(e) ==
    \/ e = NoEntry
    \/ e.lockedTo # 0 /\ now >= e.lockedTo
    \/ now - e.first > Window

Counted(e) == IF Stale(e) THEN [failures |-> 1, first |-> now, lockedTo |-> 0]
              ELSE [e EXCEPT !.failures = @ + 1]
Locks(k) == Counted(lim[k]).failures >= Max

Fail(k) ==
    /\ lim' = [lim EXCEPT ![k] =
         IF Locks(k) THEN [failures |-> 0, first |-> now, lockedTo |-> now + Lockout]
         ELSE Counted(lim[k])]
    /\ until' = [until EXCEPT ![k] = IF Locks(k) THEN now + Lockout ELSE @]
    /\ late' = [late EXCEPT ![k] = IF now < until[k] THEN @ + 1 ELSE 0]

Reset(k) == /\ lim' = [lim EXCEPT ![k] = NoEntry]
            /\ until' = [until EXCEPT ![k] = 0] /\ late' = [late EXCEPT ![k] = 0]
-----------------------------------------------------------------------------
(* Signing in.                                                             *)

\* An exact address first, then plus addressing.
Resolves(login, u) ==
    \/ login \in Names /\ users[u].name = login
    \/ login \in Addresses /\ aliases[login].user = u
    \/ login \in Addresses /\ aliases[login] = NoAlias /\ aliases[Plain[login]].user = u

\* The request arrives and its key is not locked.
SignIn(h, door, login, p) ==
    LET k == Key(door, login) IN
    /\ ~Locked(k)
    /\ Begins(h, [pc |-> "lookup", key |-> k, login |-> login, given |-> p])
    /\ lim' = [lim EXCEPT ![k] = AfterLocked(k)]
    /\ UNCHANGED <<users, ids, aliases, cache, now, changes, until, late>>

\* UserByLogin: the row as it is now, or a failure (no such account, or the
\* database's).
UserByLogin(h) ==
    /\ req[h].pc = "lookup"
    /\ \/ \E u \in Users :
            /\ Live(u) /\ Resolves(req[h].login, u)
            /\ Goes(h, [pc |-> "check", key |-> req[h].key, given |-> req[h].given,
                        user |-> u, hash |-> users[u].hash])
       \/ Goes(h, [pc |-> "fail", key |-> req[h].key])
    /\ UNCHANGED <<users, ids, aliases, cache, lim, now, ops, changes, until, late>>

\* ActiveSync first looks for a password already verified against this hash.
RememberedAnyHash(r) == r.key[1] = "eas" /\ cache[r.user].digest = r.given
Remembered(r) == /\ r.key[1] = "eas"
                 /\ cache[r.user] = [digest |-> r.given, hash |-> r.hash]

CheckPassword(h) ==
    /\ req[h].pc = "check"
    /\ Goes(h, IF Remembered(req[h])
               THEN [req[h] EXCEPT !.pc = "welcome"]
               ELSE IF req[h].hash.password = req[h].given
               THEN [req[h] EXCEPT !.pc = IF req[h].key[1] = "eas" THEN "remember" ELSE "welcome"]
               ELSE [pc |-> "fail", key |-> req[h].key])
    /\ UNCHANGED <<users, ids, aliases, cache, lim, now, ops, changes, until, late>>

Remember(h) ==
    /\ req[h].pc = "remember"
    /\ cache' = [cache EXCEPT ![req[h].user] =
                   [digest |-> req[h].given, hash |-> req[h].hash]]
    /\ Goes(h, [req[h] EXCEPT !.pc = "welcome"])
    /\ UNCHANGED <<users, ids, aliases, lim, now, ops, changes, until, late>>

Welcome(h) ==
    /\ req[h].pc = "welcome"
    /\ Reset(req[h].key)
    /\ Ends(h)
    /\ UNCHANGED <<users, ids, aliases, cache, now>>

Unauthorized(h) ==
    /\ req[h].pc = "fail"
    /\ Fail(req[h].key)
    /\ Ends(h)
    /\ UNCHANGED <<users, ids, aliases, cache, now>>

\* A remembered password expires or is pruned from a cache of 256.
Forget(u) ==
    /\ cache[u] # NoCache
    /\ cache' = [cache EXCEPT ![u] = NoCache]
    /\ UNCHANGED <<users, ids, aliases, lim, now, req, ops, changes, until, late>>

Tick ==
    /\ now < MaxTime
    /\ now' = now + 1
    /\ UNCHANGED <<users, ids, aliases, cache, lim, req, ops, changes, until, late>>
-----------------------------------------------------------------------------
Admin(h) ==
    \/ \E u \in Users :
         \/ \E n \in Names, a \in Addresses \cup {None}, p \in Passwords :
              CreateUser(h, u, n, a, p)
         \/ DeleteUser(h, u)
         \/ \E a \in Addresses : CreateAlias(h, a, u)
         \/ \E a \in Addresses \cup {None}, p \in Passwords \cup {None} :
              UpdateUser(h, u, a, p)
    \/ \E a \in Addresses : DeleteAlias(h, a)
    \/ RemoveAlias(h) \/ SetPrimaryAddress(h) \/ SetPasswordByID(h)

Client(h) ==
    \/ \E door \in Doors, login \in Logins, p \in Passwords : SignIn(h, door, login, p)
    \/ UserByLogin(h) \/ CheckPassword(h) \/ Remember(h)
    \/ Welcome(h) \/ Unauthorized(h)

Next ==
    \/ \E h \in Handlers : Admin(h) \/ Client(h)
    \/ \E u \in Users : Forget(u)
    \/ Tick

Spec == Init /\ [][Next]_vars
-----------------------------------------------------------------------------
(* Properties.                                                             *)

\* What a handler can be doing.
Request ==
    {Idle}
    \cup [pc : {"remove"}, addr : Addresses, seen : Alias \cup {NoAlias}]
    \cup [pc : {"primary"}, user : Users, addr : Addresses,
          seen : Alias \cup {NoAlias}, hash : Hash \cup {NoHash}]
    \cup [pc : {"password"}, user : Users, hash : Hash]
    \cup [pc : {"lookup"}, key : Keys, login : Logins, given : Passwords]
    \cup [pc : {"check", "remember", "welcome"}, key : Keys, given : Passwords,
          user : Users, hash : Hash]
    \cup [pc : {"fail"}, key : Keys]

\* Types, and the integrity the schema enforces: an address belongs to an
\* account that exists, and an account has at most one primary address
\* (store/aliases.go:114-152, migrations' idx_aliases_primary).
TypeOK ==
    /\ users \in [Users -> User \cup {NoUser}]
    /\ ids \subseteq Users
    /\ \A u \in Users : Live(u) => u \in ids
    /\ aliases \in [Addresses -> Alias \cup {NoAlias}]
    /\ cache \in [Users -> [digest : Passwords, hash : Hash] \cup {NoCache}]
    /\ lim \in [Keys -> Entry]
    /\ now \in Nat \ {0} /\ ops \in Nat /\ changes \in Nat
    /\ req \in [Handlers -> Request]
    /\ until \in [Keys -> Nat] /\ late \in [Keys -> Nat]
    /\ \A a \in Addresses : aliases[a] # NoAlias => Live(aliases[a].user)
    /\ \A a, b \in Addresses :
         /\ aliases[a].primary /\ aliases[b].primary
         /\ aliases[a].user = aliases[b].user
         => a = b

\* "Entries are also invalidated when the stored password hash changes, so
\* resets take effect at once" (eas/server.go:68-70): a request is let in
\* only with the password of the row its own look-up returned, whatever the
\* cache remembers of earlier sign-ins.
ResetAtOnce ==
    \A h \in Handlers :
        req[h].pc \in {"remember", "welcome"} => req[h].hash.password = req[h].given

\* The limiter and the password check are not one critical section
\* (authlimit/limiter.go:49, :69): once a key is locked, only the requests
\* already past Locked still count a failure, one per other handler, and no
\* late failure shortens the lock.
GuessesBounded ==
    \A k \in Keys : late[k] <= Cardinality(Handlers) - 1

\* The row a handler is about to replace is not the one it read.
StaleWrite(h) ==
    /\ req[h].pc \in {"remove", "primary"}
    /\ aliases[req[h].addr] # req[h].seen

\* "The primary address cannot be removed because the account would lose its
\* default sender" (store/aliases.go:94): an account that stays loses its
\* primary address only when a handler writes over an address row that
\* changed after it read it, as two handlers can make happen.
PrimaryKept ==
    [][\A u \in Users :
         HasPrimary(u) /\ Live(u)' /\ ~HasPrimary(u)'
            => \E h \in Handlers : StaleWrite(h) /\ req'[h] # req[h]]_vars
=============================================================================
