--------------------------- MODULE Accounts_proofs ---------------------------
(***************************************************************************)
(* Proofs about Accounts, for any numbers of accounts, addresses, doors,   *)
(* handlers and requests, and any limiter settings with Lockout <= Window. *)
(***************************************************************************)
EXTENDS Accounts, FiniteSetTheorems, TLAPS

USE AccountsAssumption

Removing == [pc : {"remove"}, addr : Addresses, seen : Alias \cup {NoAlias}]
Primary == [pc : {"primary"}, user : Users, addr : Addresses,
            seen : Alias \cup {NoAlias}, hash : Hash \cup {NoHash}]
Password == [pc : {"password"}, user : Users, hash : Hash]
Lookup == [pc : {"lookup"}, key : Keys, login : Logins, given : Passwords]
Checking == [pc : {"check", "remember", "welcome"}, key : Keys, given : Passwords,
             user : Users, hash : Hash]
Failing == [pc : {"fail"}, key : Keys]

\* A handler's place says what it holds.
LEMMA RequestIs ==
  ASSUME NEW r \in Request
  PROVE  /\ r.pc = "idle" => r = Idle
         /\ r.pc = "remove" => r \in Removing
         /\ r.pc = "primary" => r \in Primary
         /\ r.pc = "password" => r \in Password
         /\ r.pc = "lookup" => r \in Lookup
         /\ r.pc \in {"check", "remember", "welcome"} => r \in Checking
         /\ r.pc = "fail" => r \in Failing
  BY DEF Request, Idle, Removing, Primary, Password, Lookup, Checking, Failing

LEMMA InRequest ==
  /\ Idle \in Request
  /\ Removing \subseteq Request /\ Primary \subseteq Request /\ Password \subseteq Request
  /\ Lookup \subseteq Request /\ Checking \subseteq Request /\ Failing \subseteq Request
  BY DEF Request, Removing, Primary, Password, Lookup, Checking, Failing

LEMMA Nothing ==
  /\ NoUser \notin User /\ NoAlias \notin Alias /\ NoHash \notin Hash
  /\ NoAlias.user = None /\ NoAlias.primary = FALSE
  BY DEF NoUser, User, NoAlias, Alias, NoHash, Hash

LEMMA KeyIsKey ==
  ASSUME NEW door \in Doors, NEW login \in Logins
  PROVE  Key(door, login) \in Keys
  BY DEF Key, Keys

(***************************************************************************)
(* Types and the integrity of addresses.                                   *)
(***************************************************************************)

\* The addresses' part of TypeOK.
AddressesOK ==
    /\ aliases \in [Addresses -> Alias \cup {NoAlias}]
    /\ \A a \in Addresses : aliases[a] # NoAlias => Live(aliases[a].user)
    /\ \A a, b \in Addresses :
         /\ aliases[a].primary /\ aliases[b].primary
         /\ aliases[a].user = aliases[b].user
         => a = b

UsersOK ==
    /\ users \in [Users -> User \cup {NoUser}]
    /\ ids \subseteq Users
    /\ \A u \in Users : Live(u) => u \in ids

RestOK ==
    /\ cache \in [Users -> [digest : Passwords, hash : Hash] \cup {NoCache}]
    /\ lim \in [Keys -> Entry]
    /\ now \in Nat \ {0} /\ ops \in Nat /\ changes \in Nat
    /\ req \in [Handlers -> Request]
    /\ until \in [Keys -> Nat] /\ late \in [Keys -> Nat]

LEMMA TypeParts ==
  /\ TypeOK <=> UsersOK /\ AddressesOK /\ RestOK
  /\ TypeOK' <=> UsersOK' /\ AddressesOK' /\ RestOK'
  BY DEF TypeOK, UsersOK, AddressesOK, RestOK

LEMMA TypeInit == Init => TypeOK
<1> SUFFICES ASSUME Init PROVE TypeOK
  OBVIOUS
<1>1. PICK u \in Users, n \in Names, a \in Addresses, p \in Passwords :
         /\ users = [v \in Users |->
                IF v = u THEN [name |-> n, hash |-> [password |-> p, salt |-> 1]]
                ELSE NoUser]
         /\ ids = {u}
         /\ aliases = [b \in Addresses |->
                IF b = a THEN [user |-> u, primary |-> TRUE] ELSE NoAlias]
  BY DEF Init
<1>2. UsersOK
  BY <1>1 DEF UsersOK, Live, User, Hash
<1>3. Live(u)
  BY <1>1, Nothing DEF Live, NoUser
<1>4. [user |-> u, primary |-> TRUE] \in Alias
  BY DEF Alias
<1>5. AddressesOK
  BY <1>1, <1>3, <1>4, Nothing DEF AddressesOK
<1>6. RestOK
  BY InRequest DEF Init, RestOK, Entry, NoEntry
<1>7. QED
  BY <1>2, <1>5, <1>6, TypeParts

\* Steps that touch neither accounts nor addresses.
LEMMA StillOK ==
  ASSUME UsersOK, AddressesOK, UNCHANGED <<users, ids, aliases>>
  PROVE  UsersOK' /\ AddressesOK'
  BY DEF UsersOK, AddressesOK, Live

LEMMA AdminType ==
  ASSUME TypeOK, NEW h \in Handlers, Admin(h)
  PROVE  TypeOK'
<1> USE TypeParts
<1>0. UsersOK /\ AddressesOK /\ RestOK
  OBVIOUS
<1>1. ASSUME NEW r \in Request, Goes(h, r)
      PROVE  req' \in [Handlers -> Request]
  BY <1>0, <1>1 DEF Goes, RestOK
<1>2. ASSUME NEW r \in Request, Changes(h, r), UNCHANGED <<cache, lim, now, until, late>>
      PROVE  RestOK'
  BY <1>0, <1>1, <1>2 DEF Changes, Begins, RestOK
<1>3. ASSUME Ends(h), UNCHANGED <<cache, lim, now, until, late>>
      PROVE  RestOK'
  BY <1>0, <1>1, <1>3, InRequest DEF Ends, RestOK
<1>4. ASSUME NEW p \in Passwords PROVE HashOf(p) \in Hash
  BY <1>0 DEF HashOf, Hash, RestOK
<1>5. ASSUME NEW u \in Users, NEW n \in Names, NEW a \in Addresses \cup {None},
             NEW p \in Passwords, CreateUser(h, u, n, a, p)
      PROVE  TypeOK'
  <2>1. RestOK'
    BY <1>2, <1>5, InRequest DEF CreateUser
  <2>2. users' = [users EXCEPT ![u] = [name |-> n, hash |-> HashOf(p)]] /\ ids' = ids \cup {u}
    BY <1>5 DEF CreateUser
  <2>3. UsersOK'
    BY <1>0, <1>4, <2>2 DEF UsersOK, User, Live
  <2>4. \A v \in Users : Live(v) => Live(v)'
    BY <1>0, <1>4, <2>2, Nothing DEF UsersOK, User, Live
  <2>5. Live(u)' /\ ~Live(u)
    BY <1>0, <1>4, <1>5, <2>2, Nothing DEF CreateUser, UsersOK, User, Live
  <2>6. CASE a = None
    <3>1. aliases' = aliases
      BY <1>5, <2>6 DEF CreateUser
    <3>2. \A b \in Addresses : aliases[b] # NoAlias => aliases[b].user \in Users
      BY <1>0 DEF AddressesOK, Alias
    <3>3. AddressesOK'
      BY <1>0, <2>4, <3>1, <3>2 DEF AddressesOK
    <3>4. QED
      BY <2>1, <2>3, <3>3
  <2>7. CASE a # None
    <3>1. aliases' = [aliases EXCEPT ![a] = [user |-> u, primary |-> TRUE]] /\ a \in Addresses
      BY <1>5, <2>7 DEF CreateUser
    <3>2. aliases' \in [Addresses -> Alias \cup {NoAlias}]
      BY <1>0, <3>1 DEF AddressesOK, Alias
    <3>3. \A b \in Addresses : aliases'[b] # NoAlias => Live(aliases[b].user)'
      BY <1>0, <2>4, <2>5, <3>1, Nothing DEF AddressesOK, Alias
    <3>4. \A b \in Addresses : b # a => aliases'[b] = aliases[b] /\ aliases[b].user # u
      BY <1>0, <2>5, <3>1, Nothing DEF AddressesOK, Alias
    <3>5. \A b, c \in Addresses : aliases'[b].primary /\ aliases'[c].primary
                                  /\ aliases'[b].user = aliases'[c].user => b = c
      BY <1>0, <3>1, <3>4 DEF AddressesOK
    <3>6. QED
      BY <2>1, <2>3, <3>2, <3>3, <3>5 DEF AddressesOK
  <2>8. QED
    BY <2>6, <2>7
<1>6. ASSUME NEW u \in Users, DeleteUser(h, u) PROVE TypeOK'
  <2>1. RestOK'
    BY <1>2, <1>6, InRequest DEF DeleteUser
  <2>2. users' = [users EXCEPT ![u] = NoUser] /\ ids' = ids
        /\ aliases' = [a \in Addresses |-> IF aliases[a].user = u THEN NoAlias ELSE aliases[a]]
    BY <1>6 DEF DeleteUser
  <2>3. UsersOK'
    BY <1>0, <2>2 DEF UsersOK, Live
  <2>4. \A v \in Users : v # u /\ Live(v) => Live(v)'
    BY <1>0, <2>2 DEF UsersOK, Live
  <2>5. AddressesOK'
    BY <1>0, <2>2, <2>4, Nothing DEF AddressesOK, Alias
  <2>6. QED
    BY <2>1, <2>3, <2>5
<1>7. ASSUME NEW a \in Addresses, NEW u \in Users, CreateAlias(h, a, u) PROVE TypeOK'
  <2>1. RestOK'
    BY <1>2, <1>7, InRequest DEF CreateAlias
  <2>2. aliases' = [aliases EXCEPT ![a] = [user |-> u, primary |-> FALSE]] /\ Live(u)
        /\ UNCHANGED <<users, ids>>
    BY <1>7 DEF CreateAlias
  <2>3. UsersOK' /\ \A v \in Users : Live(v)' = Live(v)
    BY <1>0, <2>2 DEF UsersOK, Live
  <2>4. AddressesOK'
    BY <1>0, <2>2, <2>3, Nothing DEF AddressesOK, Alias
  <2>5. QED
    BY <2>1, <2>3, <2>4
<1>8. ASSUME NEW a \in Addresses, DeleteAlias(h, a) PROVE TypeOK'
  <2>1. [pc |-> "remove", addr |-> a, seen |-> aliases[a]] \in Request
    BY <1>0, InRequest DEF AddressesOK, Removing
  <2>2. RestOK'
    BY <1>2, <1>8, <2>1 DEF DeleteAlias
  <2>3. QED
    BY <1>0, <1>8, <2>2, StillOK DEF DeleteAlias
<1>9. CASE RemoveAlias(h)
  <2>1. RestOK'
    BY <1>3, <1>9 DEF RemoveAlias
  <2>2. req[h] \in Removing
    BY <1>0, <1>9, RequestIs DEF RemoveAlias, RestOK
  <2>3. req[h].addr \in Addresses
    BY <2>2 DEF Removing
  <2>4. aliases' = [aliases EXCEPT ![req[h].addr] = NoAlias] /\ UNCHANGED <<users, ids>>
    BY <1>9 DEF RemoveAlias
  <2>5. UsersOK' /\ \A v \in Users : Live(v)' = Live(v)
    BY <1>0, <2>4 DEF UsersOK, Live
  <2>6. AddressesOK'
    BY <1>0, <2>3, <2>4, <2>5, Nothing DEF AddressesOK, Alias
  <2>7. QED
    BY <2>1, <2>5, <2>6
<1>10. ASSUME NEW u \in Users, NEW a \in Addresses \cup {None},
              NEW p \in Passwords \cup {None}, UpdateUser(h, u, a, p)
       PROVE  TypeOK'
  <2> DEFINE hash == IF p = None THEN NoHash ELSE HashOf(p)
  <2>1. hash \in Hash \cup {NoHash} /\ (a = None => hash \in Hash)
    BY <1>4, <1>10 DEF UpdateUser
  <2>2. a = None => [pc |-> "password", user |-> u, hash |-> hash] \in Request
    BY <2>1, InRequest DEF Password
  <2>3. a # None => [pc |-> "primary", user |-> u, addr |-> a, seen |-> aliases[a],
                     hash |-> hash] \in Request
    BY <1>0, <2>1, InRequest DEF Primary, AddressesOK
  <2>4. RestOK'
    BY <1>2, <1>10, <2>2, <2>3 DEF UpdateUser
  <2>5. QED
    BY <1>0, <1>10, <2>4, StillOK DEF UpdateUser
<1>11. CASE SetPrimaryAddress(h)
  <2>1. req[h] \in Primary
    BY <1>0, <1>11, RequestIs DEF SetPrimaryAddress, RestOK
  <2>2. RestOK'
    <3>1. req[h].hash # NoHash =>
            [pc |-> "password", user |-> req[h].user, hash |-> req[h].hash] \in Request
      BY <2>1, InRequest DEF Primary, Password
    <3>2. req' \in [Handlers -> Request]
      BY <1>1, <1>11, <3>1, InRequest DEF SetPrimaryAddress
    <3>3. QED
      BY <1>0, <1>11, <3>2 DEF SetPrimaryAddress, RestOK
  <2>3. CASE UNCHANGED aliases
    BY <1>0, <1>11, <2>2, <2>3, StillOK DEF SetPrimaryAddress
  <2>4. CASE Live(req[h].user) /\ aliases' = MakePrimary(req[h].user, req[h].addr)
    <3> DEFINE u == req[h].user
               a == req[h].addr
    <3>1. u \in Users /\ a \in Addresses
      BY <2>1 DEF Primary
    <3>2. UNCHANGED <<users, ids>> /\ UsersOK' /\ \A v \in Users : Live(v)' = Live(v)
      BY <1>0, <1>11 DEF SetPrimaryAddress, UsersOK, Live
    <3> HIDE DEF u, a
    <3>3. \A b \in Addresses :
             aliases'[b] = IF b = a THEN [user |-> u, primary |-> TRUE]
                           ELSE IF aliases[b].user = u THEN [aliases[b] EXCEPT !.primary = FALSE]
                           ELSE aliases[b]
      BY <2>4 DEF MakePrimary, u, a
    <3>4. \A b \in Addresses : aliases[b].user = u => aliases[b] \in Alias
      BY <1>0, <3>1, Nothing DEF AddressesOK
    <3>a. aliases'[a] = [user |-> u, primary |-> TRUE]
      BY <3>1, <3>3
    <3>l. Live(u)
      BY <2>4 DEF u
    <3>5. aliases' \in [Addresses -> Alias \cup {NoAlias}]
      BY <1>0, <2>4, <3>1, <3>4 DEF AddressesOK, Alias, MakePrimary, u, a
    <3>6. \A b \in Addresses : aliases'[b] # NoAlias => Live(aliases[b].user)'
      <4> TAKE b \in Addresses
      <4>1. CASE b = a
        <5>1. aliases'[b].user = u /\ Live(u)
          BY <3>a, <3>l, <4>1
        <5>2. QED
          BY <3>1, <3>2, <5>1
      <4>2. CASE b # a /\ aliases[b].user = u
        BY <2>4, <3>1, <3>2, <3>3, <3>4, <4>2 DEF u, Alias
      <4>3. CASE b # a /\ aliases[b].user # u
        <5>1. aliases'[b] = aliases[b]
          BY <3>3, <4>3
        <5>2. aliases[b] # NoAlias => aliases[b].user \in Users
          BY <1>0 DEF AddressesOK, Alias
        <5>3. QED
          BY <1>0, <3>2, <5>1, <5>2 DEF AddressesOK
      <4>4. QED
        BY <4>1, <4>2, <4>3
    <3>7. \A b \in Addresses : b # a /\ aliases'[b].primary =>
             aliases'[b] = aliases[b] /\ aliases[b].user # u
      BY <3>3, <3>4 DEF Alias
    <3>8. \A b, c \in Addresses : aliases'[b].primary /\ aliases'[c].primary
                                  /\ aliases'[b].user = aliases'[c].user => b = c
      <4> TAKE b, c \in Addresses
      <4> HAVE aliases'[b].primary /\ aliases'[c].primary /\ aliases'[b].user = aliases'[c].user
      <4>1. aliases'[a].user = u
        BY <3>a
      <4>2. CASE b # a /\ c # a
        BY <1>0, <3>7, <4>2 DEF AddressesOK
      <4>3. CASE b = a \/ c = a
        BY <3>7, <4>1, <4>3
      <4>4. QED
        BY <4>2, <4>3
    <3>9. QED
      BY <2>2, <3>2, <3>5, <3>6, <3>8 DEF AddressesOK
  <2>5. QED
    BY <1>11, <2>3, <2>4 DEF SetPrimaryAddress
<1>12. CASE SetPasswordByID(h)
  <2>1. RestOK'
    BY <1>3, <1>12 DEF SetPasswordByID
  <2>2. req[h] \in Password
    BY <1>0, <1>12, RequestIs DEF SetPasswordByID, RestOK
  <2>3. req[h].user \in Users /\ req[h].hash \in Hash
    BY <2>2 DEF Password
  <2>4. users' = (IF Live(req[h].user) THEN [users EXCEPT ![req[h].user].hash = req[h].hash]
                                       ELSE users) /\ UNCHANGED <<ids, aliases>>
    BY <1>12 DEF SetPasswordByID
  <2>5. \A v \in Users : users'[v] # users[v] => users[v] \in User /\ users'[v] \in User
    BY <1>0, <2>3, <2>4 DEF UsersOK, Live, User
  <2>6. \A v \in Users : Live(v)' = Live(v)
    BY <2>5, Nothing DEF Live
  <2>7. UsersOK'
    BY <1>0, <2>4, <2>5, <2>6 DEF UsersOK
  <2>8. AddressesOK'
    BY <1>0, <2>4, <2>6 DEF AddressesOK, Alias
  <2>9. QED
    BY <2>1, <2>7, <2>8
<1>13. QED
  BY <1>5, <1>6, <1>7, <1>8, <1>9, <1>10, <1>11, <1>12 DEF Admin

LEMMA CountedType ==
  ASSUME NEW e \in Entry, now \in Nat
  PROVE  Counted(e) \in Entry
  BY DEF Counted, Entry

LEMMA FailType ==
  ASSUME RestOK, NEW k \in Keys, Fail(k)
  PROVE  lim' \in [Keys -> Entry] /\ until' \in [Keys -> Nat] /\ late' \in [Keys -> Nat]
<1>1. Counted(lim[k]) \in Entry
  BY CountedType DEF RestOK
<1>2. [failures |-> 0, first |-> now, lockedTo |-> now + Lockout] \in Entry
  BY DEF RestOK, Entry
<1>3. QED
  BY <1>1, <1>2 DEF Fail, RestOK

LEMMA ClientType ==
  ASSUME TypeOK, NEW h \in Handlers, Client(h)
  PROVE  TypeOK'
<1> USE TypeParts
<1>0. UsersOK /\ AddressesOK /\ RestOK
  OBVIOUS
<1>1. ASSUME NEW r \in Request, Goes(h, r)
      PROVE  req' \in [Handlers -> Request]
  BY <1>0, <1>1 DEF Goes, RestOK
<1>2. UNCHANGED <<users, ids, aliases>>
  BY DEF Client, SignIn, UserByLogin, CheckPassword, Remember, Welcome, Unauthorized
<1>3. UsersOK' /\ AddressesOK'
  BY <1>0, <1>2, StillOK
<1>4. ASSUME NEW door \in Doors, NEW login \in Logins, NEW p \in Passwords,
             SignIn(h, door, login, p)
      PROVE  RestOK'
  <2> DEFINE k == Key(door, login)
  <2>1. k \in Keys
    BY KeyIsKey
  <2> HIDE DEF k
  <2>2. [pc |-> "lookup", key |-> k, login |-> login, given |-> p] \in Request
    BY <2>1, InRequest DEF Lookup
  <2>3. req' \in [Handlers -> Request] /\ ops' \in Nat
    BY <1>0, <1>1, <1>4, <2>2 DEF SignIn, Begins, RestOK, k
  <2>4. AfterLocked(k) \in Entry
    BY <1>0, <2>1 DEF AfterLocked, RestOK, Entry, NoEntry
  <2>5. lim' = [lim EXCEPT ![k] = AfterLocked(k)]
    BY <1>4 DEF SignIn, k
  <2>6. UNCHANGED <<cache, now, changes, until, late>>
    BY <1>4 DEF SignIn
  <2>7. QED
    BY <1>0, <2>3, <2>4, <2>5, <2>6 DEF RestOK
<1>5. CASE UserByLogin(h)
  <2>1. req[h] \in Lookup
    BY <1>0, <1>5, RequestIs DEF UserByLogin, RestOK
  <2>2. [pc |-> "fail", key |-> req[h].key] \in Request
    BY <2>1, InRequest DEF Lookup, Failing
  <2>3. ASSUME NEW u \in Users, Live(u)
        PROVE  [pc |-> "check", key |-> req[h].key, given |-> req[h].given,
                user |-> u, hash |-> users[u].hash] \in Request
    BY <1>0, <2>1, <2>3, InRequest DEF Lookup, Checking, UsersOK, Live, User
  <2>4. req' \in [Handlers -> Request]
    BY <1>1, <1>5, <2>2, <2>3 DEF UserByLogin
  <2>5. RestOK'
    BY <1>0, <1>5, <2>4 DEF UserByLogin, RestOK
  <2>6. QED
    BY <1>3, <2>5
<1>6. CASE CheckPassword(h)
  <2>1. req[h] \in Checking
    BY <1>0, <1>6, RequestIs DEF CheckPassword, RestOK
  <2>2. [pc |-> "fail", key |-> req[h].key] \in Request
    BY <2>1, InRequest DEF Checking, Failing
  <2>3. /\ [req[h] EXCEPT !.pc = "welcome"] \in Request
        /\ [req[h] EXCEPT !.pc = "remember"] \in Request
    BY <2>1, InRequest DEF Checking
  <2>4. req' \in [Handlers -> Request]
    BY <1>1, <1>6, <2>2, <2>3 DEF CheckPassword
  <2>5. RestOK'
    BY <1>0, <1>6, <2>4 DEF CheckPassword, RestOK
  <2>6. QED
    BY <1>3, <2>5
<1>7. CASE Remember(h)
  <2>1. req[h] \in Checking
    BY <1>0, <1>7, RequestIs DEF Remember, RestOK
  <2>2. [req[h] EXCEPT !.pc = "welcome"] \in Request
    BY <2>1, InRequest DEF Checking
  <2>3. req' \in [Handlers -> Request]
    BY <1>1, <1>7, <2>2 DEF Remember
  <2>4. cache' \in [Users -> [digest : Passwords, hash : Hash] \cup {NoCache}]
    BY <1>0, <1>7, <2>1 DEF Remember, RestOK, Checking
  <2>5. RestOK'
    BY <1>0, <1>7, <2>3, <2>4 DEF Remember, RestOK
  <2>6. QED
    BY <1>3, <2>5
<1>8. CASE Welcome(h)
  <2>1. req[h] \in Checking
    BY <1>0, <1>8, RequestIs DEF Welcome, RestOK
  <2>2. req[h].key \in Keys
    BY <2>1 DEF Checking
  <2>3. req' \in [Handlers -> Request]
    BY <1>1, <1>8, InRequest DEF Welcome, Ends
  <2>4. NoEntry \in Entry
    BY DEF NoEntry, Entry
  <2>5. RestOK'
    BY <1>0, <1>8, <2>2, <2>3, <2>4 DEF Welcome, Reset, Ends, RestOK
  <2>6. QED
    BY <1>3, <2>5
<1>9. CASE Unauthorized(h)
  <2>1. req[h] \in Failing
    BY <1>0, <1>9, RequestIs DEF Unauthorized, RestOK
  <2>2. req[h].key \in Keys
    BY <2>1 DEF Failing
  <2>3. req' \in [Handlers -> Request]
    BY <1>1, <1>9, InRequest DEF Unauthorized, Ends
  <2>4. lim' \in [Keys -> Entry] /\ until' \in [Keys -> Nat] /\ late' \in [Keys -> Nat]
    BY <1>0, <1>9, <2>2, FailType DEF Unauthorized
  <2>5. RestOK'
    BY <1>0, <1>9, <2>3, <2>4 DEF Unauthorized, Ends, RestOK
  <2>6. QED
    BY <1>3, <2>5
<1>10. QED
  BY <1>3, <1>4, <1>5, <1>6, <1>7, <1>8, <1>9 DEF Client

LEMMA TypeNext == TypeOK /\ [Next]_vars => TypeOK'
<1> SUFFICES ASSUME TypeOK, [Next]_vars PROVE TypeOK'
  OBVIOUS
<1> USE TypeParts
<1>0. UsersOK /\ AddressesOK /\ RestOK
  OBVIOUS
<1>1. ASSUME NEW u \in Users, Forget(u) PROVE TypeOK'
  <2>1. RestOK'
    BY <1>0, <1>1 DEF Forget, RestOK
  <2>2. QED
    BY <1>0, <1>1, <2>1, StillOK DEF Forget
<1>2. CASE Tick
  <2>1. RestOK'
    BY <1>0, <1>2 DEF Tick, RestOK
  <2>2. QED
    BY <1>0, <1>2, <2>1, StillOK DEF Tick
<1>3. CASE UNCHANGED vars
  <2>1. RestOK'
    BY <1>0, <1>3 DEF vars, RestOK
  <2>2. QED
    BY <1>0, <1>3, <2>1, StillOK DEF vars
<1>4. QED
  BY <1>1, <1>2, <1>3, AdminType, ClientType DEF Next

\* Whatever the operator's requests and the clients do in whatever order,
\* every address belongs to an account that exists and no account has two
\* primary addresses (store/aliases.go's transaction and foreign key).
THEOREM TypeCorrect == Spec => []TypeOK
<1>1. QED
  BY TypeInit, TypeNext, PTL DEF Spec

(***************************************************************************)
(* A password reset takes effect at once.                                  *)
(***************************************************************************)

AdminPlaces == {"idle", "remove", "primary", "password"}

\* The operator's requests leave the cache and the limiter alone and never
\* stand where a sign-in stands.
LEMMA AdminShape ==
  ASSUME TypeOK, NEW h \in Handlers, Admin(h)
  PROVE  /\ UNCHANGED <<cache, lim, now, until, late>>
         /\ req[h].pc \in AdminPlaces
         /\ req'[h].pc \in AdminPlaces
         /\ \A g \in Handlers : g # h => req'[g] = req[g]
<1> DEFINE Shape == /\ UNCHANGED <<cache, lim, now, until, late>>
                    /\ req[h].pc \in AdminPlaces
                    /\ req'[h].pc \in AdminPlaces
                    /\ \A g \in Handlers : g # h => req'[g] = req[g]
<1>1. req \in [Handlers -> Request]
  BY DEF TypeOK
<1>2. Idle.pc = "idle" /\ Idle.pc \in AdminPlaces
  BY DEF Idle, AdminPlaces
<1>3. ASSUME NEW r, Goes(h, r) PROVE req'[h] = r /\ \A g \in Handlers : g # h => req'[g] = req[g]
  BY <1>1, <1>3 DEF Goes
<1>4. ASSUME NEW r, r.pc \in AdminPlaces, Changes(h, r),
             UNCHANGED <<cache, lim, now, until, late>>
      PROVE  Shape
  BY <1>2, <1>3, <1>4 DEF Changes, Begins
<1> HIDE DEF Shape
<1>5. ASSUME NEW u \in Users, NEW n \in Names, NEW a \in Addresses \cup {None},
             NEW p \in Passwords, CreateUser(h, u, n, a, p)
      PROVE  Shape
  BY <1>2, <1>4, <1>5 DEF CreateUser
<1>6. ASSUME NEW u \in Users, DeleteUser(h, u) PROVE Shape
  BY <1>2, <1>4, <1>6 DEF DeleteUser
<1>7. ASSUME NEW a \in Addresses, NEW u \in Users, CreateAlias(h, a, u) PROVE Shape
  BY <1>2, <1>4, <1>7 DEF CreateAlias
<1>8. ASSUME NEW a \in Addresses, DeleteAlias(h, a) PROVE Shape
  BY <1>4, <1>8 DEF DeleteAlias, AdminPlaces
<1>9. ASSUME NEW u \in Users, NEW a \in Addresses \cup {None},
             NEW p \in Passwords \cup {None}, UpdateUser(h, u, a, p)
      PROVE  Shape
  BY <1>4, <1>9 DEF UpdateUser, AdminPlaces
<1>10. CASE RemoveAlias(h) \/ SetPasswordByID(h)
  BY <1>2, <1>3, <1>10 DEF RemoveAlias, SetPasswordByID, Ends, AdminPlaces
<1>11. CASE SetPrimaryAddress(h)
  BY <1>2, <1>3, <1>11 DEF SetPrimaryAddress, AdminPlaces
<1>12. Shape
  BY <1>5, <1>6, <1>7, <1>8, <1>9, <1>10, <1>11 DEF Admin, Shape
<1>13. QED
  BY <1>12 DEF Shape

\* What the cache remembers was verified; with ResetAtOnce it is inductive.
CacheHonest == \A u \in Users : cache[u].digest = cache[u].hash.password

LEMMA ResetInit == Init => CacheHonest /\ ResetAtOnce
  BY DEF Init, CacheHonest, ResetAtOnce, NoCache, NoHash, Idle

LEMMA ResetNext ==
  ASSUME TypeOK, CacheHonest, ResetAtOnce, [Next]_vars
  PROVE  CacheHonest' /\ ResetAtOnce'
<1>0. req \in [Handlers -> Request] /\ cache \in [Users -> [digest : Passwords, hash : Hash] \cup {NoCache}]
  BY DEF TypeOK
<1>1. ASSUME NEW h \in Handlers, \A g \in Handlers : g # h => req'[g] = req[g],
             req'[h].pc \in {"remember", "welcome"} => req'[h].hash.password = req'[h].given
      PROVE  ResetAtOnce'
  BY <1>1 DEF ResetAtOnce
<1>2. ASSUME UNCHANGED cache PROVE CacheHonest'
  BY <1>2 DEF CacheHonest
<1>3. ASSUME NEW h \in Handlers, NEW r, Goes(h, r)
      PROVE  req'[h] = r /\ \A g \in Handlers : g # h => req'[g] = req[g]
  BY <1>0, <1>3 DEF Goes
<1>4. ASSUME NEW h \in Handlers, Admin(h) PROVE CacheHonest' /\ ResetAtOnce'
  BY <1>1, <1>2, <1>4, AdminShape DEF AdminPlaces
<1>5. ASSUME NEW h \in Handlers, Client(h) PROVE CacheHonest' /\ ResetAtOnce'
  <2>1. ASSUME NEW door \in Doors, NEW login \in Logins, NEW p \in Passwords,
               SignIn(h, door, login, p)
        PROVE  CacheHonest' /\ ResetAtOnce'
    <3>1. UNCHANGED cache /\ \E r : r.pc = "lookup" /\ Goes(h, r)
      BY <2>1 DEF SignIn, Begins
    <3>2. QED
      BY <1>1, <1>2, <1>3, <3>1
  <2>2. CASE UserByLogin(h)
    <3>1. UNCHANGED cache /\ \E r : r.pc \in {"check", "fail"} /\ Goes(h, r)
      <4>1. CASE Goes(h, [pc |-> "fail", key |-> req[h].key])
        BY <2>2, <4>1 DEF UserByLogin
      <4>2. ASSUME NEW u \in Users,
                   Goes(h, [pc |-> "check", key |-> req[h].key, given |-> req[h].given,
                            user |-> u, hash |-> users[u].hash])
            PROVE  UNCHANGED cache /\ \E r : r.pc \in {"check", "fail"} /\ Goes(h, r)
        BY <2>2, <4>2 DEF UserByLogin
      <4>3. QED
        BY <2>2, <4>1, <4>2 DEF UserByLogin
    <3>2. QED
      BY <1>1, <1>2, <1>3, <3>1
  <2>3. CASE CheckPassword(h)
    <3>1. req[h] \in Checking
      BY <1>0, <2>3, RequestIs DEF CheckPassword
    <3>2. UNCHANGED cache
      BY <2>3 DEF CheckPassword
    <3>3. CASE Remembered(req[h])
      <4>1. cache[req[h].user].digest = req[h].given /\ cache[req[h].user].hash = req[h].hash
        BY <3>3 DEF Remembered
      <4>2. req[h].user \in Users
        BY <3>1 DEF Checking
      <4>3. req[h].hash.password = req[h].given
        BY <4>1, <4>2 DEF CacheHonest
      <4>4. req'[h] = [req[h] EXCEPT !.pc = "welcome"] /\ \A g \in Handlers : g # h => req'[g] = req[g]
        BY <1>3, <2>3, <3>3 DEF CheckPassword
      <4>5. req'[h].hash.password = req'[h].given
        BY <3>1, <4>3, <4>4 DEF Checking
      <4>6. QED
        BY <1>1, <1>2, <3>2, <4>4, <4>5
    <3>4. CASE ~Remembered(req[h]) /\ req[h].hash.password = req[h].given
      <4>1. PICK pc \in {"remember", "welcome"} : Goes(h, [req[h] EXCEPT !.pc = pc])
        BY <2>3, <3>4 DEF CheckPassword
      <4>2. req'[h] = [req[h] EXCEPT !.pc = pc] /\ \A g \in Handlers : g # h => req'[g] = req[g]
        BY <1>3, <4>1
      <4>3. req'[h].hash.password = req'[h].given
        BY <3>1, <3>4, <4>2 DEF Checking
      <4>4. QED
        BY <1>1, <1>2, <3>2, <4>2, <4>3
    <3>5. CASE ~Remembered(req[h]) /\ req[h].hash.password # req[h].given
      <4>1. req'[h] = [pc |-> "fail", key |-> req[h].key]
            /\ \A g \in Handlers : g # h => req'[g] = req[g]
        BY <1>3, <2>3, <3>5 DEF CheckPassword
      <4>2. QED
        BY <1>1, <1>2, <3>2, <4>1
    <3>6. QED
      BY <3>3, <3>4, <3>5
  <2>4. CASE Remember(h)
    <3>1. req[h] \in Checking
      BY <1>0, <2>4, RequestIs DEF Remember
    <3>2. req[h].hash.password = req[h].given
      BY <2>4 DEF Remember, ResetAtOnce
    <3>3. req'[h] = [req[h] EXCEPT !.pc = "welcome"] /\ \A g \in Handlers : g # h => req'[g] = req[g]
      BY <1>3, <2>4 DEF Remember
    <3>4. req'[h].hash.password = req'[h].given
      BY <3>1, <3>2, <3>3 DEF Checking
    <3>5. CacheHonest'
      BY <1>0, <2>4, <3>2 DEF Remember, CacheHonest
    <3>6. QED
      BY <1>1, <3>3, <3>4, <3>5
  <2>5. CASE Welcome(h) \/ Unauthorized(h)
    <3>1. UNCHANGED cache /\ Goes(h, Idle)
      BY <2>5 DEF Welcome, Unauthorized, Ends
    <3>2. QED
      BY <1>1, <1>2, <1>3, <3>1 DEF Idle
  <2>6. QED
    BY <1>5, <2>1, <2>2, <2>3, <2>4, <2>5 DEF Client
<1>6. ASSUME NEW u \in Users, Forget(u) PROVE CacheHonest' /\ ResetAtOnce'
  BY <1>0, <1>6 DEF Forget, CacheHonest, ResetAtOnce, NoCache, NoHash
<1>7. CASE Tick \/ UNCHANGED vars
  BY <1>7 DEF Tick, vars, CacheHonest, ResetAtOnce
<1>8. QED
  BY <1>4, <1>5, <1>6, <1>7 DEF Next

\* No request is let in on a remembered password once its own look-up has
\* returned a row with another hash (eas/server.go:68-70), for any number
\* of resets and sign-ins in any order.
THEOREM ResetTakesEffect == Spec => []ResetAtOnce
<1>1. QED
  BY TypeCorrect, ResetInit, ResetNext, PTL DEF Spec

(***************************************************************************)
(* An account loses its primary address to a stale write only.             *)
(***************************************************************************)

\* What the handlers checked of the rows they read.
SeenOK ==
    \A h \in Handlers :
        /\ req[h].pc = "remove" => ~req[h].seen.primary
        /\ req[h].pc = "primary" => req[h].seen.user \in {req[h].user, None}

LEMMA SeenNext ==
  ASSUME TypeOK, SeenOK, [Next]_vars
  PROVE  SeenOK'
<1>0. req \in [Handlers -> Request]
  BY DEF TypeOK
<1>1. ASSUME NEW h \in Handlers, NEW r, Goes(h, r),
             r.pc = "remove" => ~r.seen.primary,
             r.pc = "primary" => r.seen.user \in {r.user, None}
      PROVE  SeenOK'
  <2>1. req'[h] = r /\ \A g \in Handlers : g # h => req'[g] = req[g]
    BY <1>0, <1>1 DEF Goes
  <2>2. QED
    BY <1>1, <2>1 DEF SeenOK
<1>2. ASSUME NEW h \in Handlers, Goes(h, Idle) PROVE SeenOK'
  BY <1>1, <1>2 DEF Idle
<1>3. ASSUME NEW h \in Handlers, Admin(h) PROVE SeenOK'
  <2>1. ASSUME NEW a \in Addresses, DeleteAlias(h, a) PROVE SeenOK'
    BY <1>1, <2>1 DEF DeleteAlias, Deletable, Changes, Begins
  <2>2. ASSUME NEW u \in Users, NEW a \in Addresses \cup {None},
               NEW p \in Passwords \cup {None}, UpdateUser(h, u, a, p)
        PROVE  SeenOK'
    BY <1>1, <2>2 DEF UpdateUser, Changes, Begins
  <2>3. CASE SetPrimaryAddress(h)
    BY <1>1, <1>2, <2>3 DEF SetPrimaryAddress
  <2>4. CASE RemoveAlias(h) \/ SetPasswordByID(h)
    BY <1>2, <2>4 DEF RemoveAlias, SetPasswordByID, Ends
  <2>5. ASSUME Changes(h, Idle) PROVE SeenOK'
    BY <1>2, <2>5 DEF Changes, Begins
  <2>6. QED
    BY <1>3, <2>1, <2>2, <2>3, <2>4, <2>5 DEF Admin, CreateUser, DeleteUser, CreateAlias
<1>4. ASSUME NEW h \in Handlers, Client(h) PROVE SeenOK'
  <2>1. ASSUME NEW door \in Doors, NEW login \in Logins, NEW p \in Passwords,
               SignIn(h, door, login, p)
        PROVE  SeenOK'
    BY <1>1, <2>1 DEF SignIn, Begins
  <2>2. CASE UserByLogin(h)
    BY <1>1, <2>2 DEF UserByLogin
  <2>3. CASE CheckPassword(h) \/ Remember(h)
    <3>1. req[h] \in Checking
      BY <1>0, <2>3, RequestIs DEF CheckPassword, Remember
    <3>2. \A pc \in {"remember", "welcome"} : [req[h] EXCEPT !.pc = pc].pc = pc
      BY <3>1 DEF Checking
    <3>3. QED
      BY <1>1, <2>3, <3>2 DEF CheckPassword, Remember
  <2>4. CASE Welcome(h) \/ Unauthorized(h)
    BY <1>2, <2>4 DEF Welcome, Unauthorized, Ends
  <2>5. QED
    BY <1>4, <2>1, <2>2, <2>3, <2>4 DEF Client
<1>5. ASSUME UNCHANGED req PROVE SeenOK'
  BY <1>5 DEF SeenOK
<1>6. QED
  BY <1>3, <1>4, <1>5 DEF Next, Forget, Tick, vars

LEMMA PrimaryStep ==
  ASSUME TypeOK, SeenOK, Next, NEW v \in Users, HasPrimary(v), Live(v)', ~HasPrimary(v)'
  PROVE  \E h \in Handlers : StaleWrite(h) /\ req'[h] # req[h]
<1>0. req \in [Handlers -> Request] /\ aliases \in [Addresses -> Alias \cup {NoAlias}]
      /\ users \in [Users -> User \cup {NoUser}]
  BY DEF TypeOK
<1>1. PICK b \in Addresses : aliases[b].user = v /\ aliases[b].primary
  BY DEF HasPrimary
<1>2. aliases[b] # NoAlias /\ aliases'[b] # aliases[b]
  BY <1>1, Nothing DEF HasPrimary
<1>3. PICK h \in Handlers : Admin(h)
  BY <1>2 DEF Next, Client, SignIn, UserByLogin, CheckPassword, Remember, Welcome,
              Unauthorized, Forget, Tick
<1>4. ASSUME NEW u \in Users, NEW n \in Names, NEW a \in Addresses \cup {None},
             NEW p \in Passwords, CreateUser(h, u, n, a, p)
      PROVE  FALSE
  BY <1>0, <1>2, <1>4 DEF CreateUser
<1>5. ASSUME NEW u \in Users, DeleteUser(h, u) PROVE FALSE
  <2>1. aliases' = [a \in Addresses |-> IF aliases[a].user = u THEN NoAlias ELSE aliases[a]]
        /\ users' = [users EXCEPT ![u] = NoUser]
    BY <1>5 DEF DeleteUser
  <2>2. v # u
    BY <1>0, <2>1 DEF Live
  <2>3. QED
    BY <1>1, <1>2, <2>1, <2>2
<1>6. ASSUME NEW a \in Addresses, NEW u \in Users, CreateAlias(h, a, u) PROVE FALSE
  BY <1>0, <1>2, <1>6 DEF CreateAlias
<1>7. CASE RemoveAlias(h)
  <2>1. req[h].pc = "remove" /\ req' = [req EXCEPT ![h] = Idle]
        /\ aliases' = [aliases EXCEPT ![req[h].addr] = NoAlias]
    BY <1>7 DEF RemoveAlias, Ends, Goes
  <2>2. b = req[h].addr
    BY <1>0, <1>2, <2>1
  <2>3. StaleWrite(h)
    BY <1>1, <2>1, <2>2 DEF StaleWrite, SeenOK
  <2>4. req'[h] # req[h]
    BY <1>0, <2>1 DEF Idle
  <2>5. QED
    BY <2>3, <2>4
<1>8. CASE SetPrimaryAddress(h)
  <2>1. req[h].pc = "primary" /\ req[h] \in Primary
    BY <1>0, <1>8, RequestIs DEF SetPrimaryAddress
  <2>2. aliases' = MakePrimary(req[h].user, req[h].addr)
    BY <1>2, <1>8 DEF SetPrimaryAddress
  <2>3. req[h].addr \in Addresses /\ req[h].user \in Users
    BY <2>1 DEF Primary
  <2>4. aliases'[req[h].addr] = [user |-> req[h].user, primary |-> TRUE]
    BY <2>2, <2>3 DEF MakePrimary
  <2>5. v # req[h].user
    BY <2>3, <2>4 DEF HasPrimary
  <2>6. b = req[h].addr
    BY <1>1, <1>2, <2>2, <2>5 DEF MakePrimary
  <2>7. req[h].seen.user \in {req[h].user, None}
    BY <2>1 DEF SeenOK
  <2>8. StaleWrite(h)
    BY <1>1, <2>1, <2>5, <2>6, <2>7 DEF StaleWrite
  <2>9. \/ req' = [req EXCEPT ![h] = Idle]
        \/ req' = [req EXCEPT ![h] = [pc |-> "password", user |-> req[h].user,
                                      hash |-> req[h].hash]]
    BY <1>8 DEF SetPrimaryAddress, Goes
  <2>10. req'[h] # req[h]
    BY <1>0, <2>1, <2>9 DEF Idle
  <2>11. QED
    BY <2>8, <2>10
<1>9. QED
  BY <1>2, <1>3, <1>4, <1>5, <1>6, <1>7, <1>8
     DEF Admin, DeleteAlias, UpdateUser, SetPasswordByID

\* Every step that takes an account's primary address away while the account
\* stays replaces an address row that changed after the handler read it
\* (store/aliases.go: the checks of DeleteAlias and SetPrimaryAddress run
\* before, not in, the statements that write).
THEOREM PrimaryIsKept == Spec => PrimaryKept
<1>1. Init => SeenOK
  BY DEF Init, SeenOK, Idle
<1>2. TypeOK /\ SeenOK /\ [Next]_vars =>
        [\A u \in Users : HasPrimary(u) /\ Live(u)' /\ ~HasPrimary(u)'
            => \E h \in Handlers : StaleWrite(h) /\ req'[h] # req[h]]_vars
  BY PrimaryStep
<1>3. QED
  BY <1>1, <1>2, TypeCorrect, SeenNext, PTL DEF Spec, PrimaryKept

(***************************************************************************)
(* Guesses after the lock.                                                 *)
(***************************************************************************)

Signing == {"lookup", "check", "remember", "welcome", "fail"}

\* The handlers past Locked of key k that have not counted their outcome yet.
Past(k) == {g \in Handlers : req[g].pc \in Signing /\ req[g].key = k}

\* While the lock announced for k runs, the limiter's entry still says so,
\* and the late failures and those still possible leave out the handler
\* that locked it.
LockHolds(k) ==
    /\ late[k] <= Cardinality(Handlers) - 1
    /\ now < until[k] =>
         /\ lim[k].lockedTo = until[k]
         /\ lim[k].first + Lockout = until[k]
         /\ late[k] + Cardinality(Past(k)) <= Cardinality(Handlers) - 1

GuessInv == \A k \in Keys : LockHolds(k)

LEMMA PastFinite ==
  ASSUME NEW k
  PROVE  /\ IsFiniteSet(Past(k)) /\ Cardinality(Past(k)) \in Nat
         /\ IsFiniteSet(Past(k)') /\ Cardinality(Past(k)') \in Nat
         /\ Cardinality(Handlers) \in Nat \ {0}
<1>1. Past(k) \subseteq Handlers /\ Past(k)' \subseteq Handlers
  BY DEF Past
<1>2. Cardinality(Handlers) \in Nat /\ Cardinality(Handlers) # 0
  BY FS_CardinalityType, FS_EmptySet
<1>3. QED
  BY <1>1, <1>2, FS_Subset, FS_CardinalityType

\* A step that leaves k's entry alone and lets nobody past Locked of k.
LEMMA LockKept ==
  ASSUME TypeOK, NEW k \in Keys, LockHolds(k), Past(k)' = Past(k),
         now' \in Nat, now' >= now,
         until'[k] = until[k], late'[k] = late[k],
         now < until[k] => lim'[k] = lim[k]
  PROVE  LockHolds(k)'
  BY DEF TypeOK, LockHolds

LEMMA GuessInit == Init => GuessInv
<1> SUFFICES ASSUME Init, NEW k \in Keys PROVE LockHolds(k)
  BY DEF GuessInv
<1>1. Cardinality(Handlers) \in Nat \ {0}
  BY PastFinite
<1>2. QED
  BY <1>1 DEF Init, LockHolds

LEMMA FailKeeps ==
  ASSUME TypeOK, NEW k \in Keys, LockHolds(k), NEW h \in Past(k),
         Past(k)' = Past(k) \ {h}, Fail(k), now' = now
  PROVE  LockHolds(k)'
<1> DEFINE N == Cardinality(Handlers)
           P == Cardinality(Past(k))
<1>0. /\ lim \in [Keys -> Entry] /\ now \in Nat \ {0}
      /\ until \in [Keys -> Nat] /\ late \in [Keys -> Nat]
  BY DEF TypeOK
<1>1. N \in Nat \ {0} /\ P \in Nat /\ IsFiniteSet(Past(k))
  BY PastFinite
<1>2. Cardinality(Past(k)') = P - 1
  <2> DEFINE S == Past(k)
  <2>1. IsFiniteSet(S) /\ h \in S
    BY <1>1
  <2> HIDE DEF S
  <2>2. Cardinality(S \ {h}) = Cardinality(S) - 1
    BY <2>1, FS_RemoveElement
  <2>3. QED
    BY <2>2 DEF S
<1>3. Cardinality(Past(k)') <= N - 1
  <2>1. Past(k)' \subseteq Handlers \ {h} /\ h \in Handlers
    BY DEF Past
  <2>2. Cardinality(Handlers \ {h}) = N - 1 /\ IsFiniteSet(Handlers \ {h})
    BY <2>1, FS_RemoveElement
  <2>3. QED
    BY <2>1, <2>2, FS_Subset
<1> HIDE DEF N, P
<1>4. Cardinality(Past(k)') \in Nat
  BY PastFinite
<1>5. late'[k] = IF now < until[k] THEN late[k] + 1 ELSE 0
  BY <1>0 DEF Fail
<1>6. CASE Locks(k)
  <2>1. until'[k] = now + Lockout
        /\ lim'[k] = [failures |-> 0, first |-> now, lockedTo |-> now + Lockout]
    BY <1>0, <1>6 DEF Fail
  <2>2. late'[k] + Cardinality(Past(k)') <= N - 1
    BY <1>0, <1>1, <1>2, <1>3, <1>4, <1>5 DEF LockHolds, N, P
  <2>3. late'[k] <= N - 1
    BY <1>0, <1>1, <1>4, <1>5, <2>2
  <2>4. QED
    BY <2>1, <2>2, <2>3 DEF LockHolds, N
<1>7. CASE ~Locks(k)
  <2>1. until'[k] = until[k] /\ lim'[k] = Counted(lim[k])
    BY <1>0, <1>7 DEF Fail
  <2>2. CASE now < until[k]
    <3>1. lim[k].lockedTo = until[k] /\ lim[k].first + Lockout = until[k]
      BY <2>2 DEF LockHolds
    <3>2. lim[k] \in Entry
      BY <1>0
    <3>3. ~Stale(lim[k])
      BY <1>0, <2>2, <3>1, <3>2 DEF Stale, Entry, NoEntry
    <3>4. lim'[k].lockedTo = until[k] /\ lim'[k].first = lim[k].first
      BY <2>1, <3>1, <3>2, <3>3 DEF Counted, Entry
    <3>5. late'[k] + Cardinality(Past(k)') <= N - 1
      BY <1>0, <1>1, <1>2, <1>5, <2>2 DEF LockHolds, N, P
    <3>6. late'[k] <= N - 1
      BY <1>0, <1>1, <1>4, <1>5, <3>5
    <3>7. QED
      BY <2>1, <3>1, <3>4, <3>5, <3>6 DEF LockHolds, N
  <2>3. CASE ~(now < until[k])
    <3>1. late'[k] <= N - 1
      BY <1>1, <1>5, <2>3
    <3>2. QED
      BY <2>1, <2>3, <3>1 DEF LockHolds, N
  <2>4. QED
    BY <2>2, <2>3
<1>8. QED
  BY <1>6, <1>7

LEMMA GuessNext ==
  ASSUME TypeOK, GuessInv, [Next]_vars
  PROVE  GuessInv'
<1> SUFFICES ASSUME NEW k \in Keys PROVE LockHolds(k)'
  BY DEF GuessInv
<1>0. /\ req \in [Handlers -> Request] /\ lim \in [Keys -> Entry] /\ now \in Nat \ {0}
      /\ until \in [Keys -> Nat] /\ late \in [Keys -> Nat]
      /\ LockHolds(k)
  BY DEF TypeOK, GuessInv
<1>1. ASSUME NEW h \in Handlers, \A g \in Handlers : g # h => req'[g] = req[g],
             req'[h].pc \in Signing /\ req'[h].key = k <=> req[h].pc \in Signing /\ req[h].key = k
      PROVE  Past(k)' = Past(k)
  BY <1>1 DEF Past
<1>2. ASSUME NEW h \in Handlers, NEW r, Goes(h, r)
      PROVE  req'[h] = r /\ \A g \in Handlers : g # h => req'[g] = req[g]
  BY <1>0, <1>2 DEF Goes
<1>3. ASSUME Past(k)' = Past(k), UNCHANGED <<lim, now, until, late>> PROVE LockHolds(k)'
  BY <1>0, <1>3, LockKept
<1>4. ASSUME NEW h \in Handlers, Admin(h) PROVE LockHolds(k)'
  <2>1. Past(k)' = Past(k)
    BY <1>1, <1>4, AdminShape DEF AdminPlaces, Signing
  <2>2. QED
    BY <1>3, <1>4, <2>1, AdminShape
<1>5. ASSUME NEW h \in Handlers, NEW door \in Doors, NEW login \in Logins,
             NEW p \in Passwords, SignIn(h, door, login, p)
      PROVE  LockHolds(k)'
  <2> DEFINE j == Key(door, login)
  <2>1. j \in Keys
    BY KeyIsKey
  <2> HIDE DEF j
  <2>2. /\ ~Locked(j) /\ req[h] = Idle
        /\ Goes(h, [pc |-> "lookup", key |-> j, login |-> login, given |-> p])
        /\ lim' = [lim EXCEPT ![j] = AfterLocked(j)]
        /\ UNCHANGED <<now, until, late>>
    BY <1>5 DEF SignIn, Begins, j
  <2>3. CASE j = k
    <3>1. ~(now < until[k])
      BY <1>0, <2>2, <2>3 DEF LockHolds, Locked
    <3>2. QED
      BY <1>0, <2>2, <3>1 DEF LockHolds
  <2>4. CASE j # k
    <3>1. Past(k)' = Past(k)
      BY <1>1, <1>2, <2>2, <2>4 DEF Idle, Signing
    <3>2. lim'[k] = lim[k]
      BY <1>0, <2>2, <2>4
    <3>3. QED
      BY <1>0, <2>2, <3>1, <3>2, LockKept
  <2>5. QED
    BY <2>3, <2>4
<1>6. ASSUME NEW h \in Handlers, UserByLogin(h) \/ CheckPassword(h) \/ Remember(h)
      PROVE  LockHolds(k)'
  <2>1. UNCHANGED <<lim, now, until, late>>
    BY <1>6 DEF UserByLogin, CheckPassword, Remember
  <2>2. req[h].pc \in Signing
    BY <1>6 DEF UserByLogin, CheckPassword, Remember, Signing
  <2>3. req[h].pc # "lookup" => req[h] \in Checking
    BY <1>0, <1>6, RequestIs DEF UserByLogin, CheckPassword, Remember
  <2>4. req'[h].pc \in Signing /\ req'[h].key = req[h].key
        /\ \A g \in Handlers : g # h => req'[g] = req[g]
    <3>1. CASE UserByLogin(h)
      <4>1. CASE Goes(h, [pc |-> "fail", key |-> req[h].key])
        BY <1>2, <4>1 DEF Signing
      <4>2. ASSUME NEW u \in Users,
                   Goes(h, [pc |-> "check", key |-> req[h].key, given |-> req[h].given,
                            user |-> u, hash |-> users[u].hash])
            PROVE  req'[h].pc \in Signing /\ req'[h].key = req[h].key
                   /\ \A g \in Handlers : g # h => req'[g] = req[g]
        BY <1>2, <4>2 DEF Signing
      <4>3. QED
        BY <3>1, <4>1, <4>2 DEF UserByLogin
    <3>2. CASE CheckPassword(h) \/ Remember(h)
      <4>1. req[h] \in Checking
        BY <2>3, <3>2 DEF CheckPassword, Remember
      <4>2. \A pc \in {"remember", "welcome"} :
              [req[h] EXCEPT !.pc = pc].pc = pc /\ [req[h] EXCEPT !.pc = pc].key = req[h].key
        BY <4>1 DEF Checking
      <4>3. CASE Goes(h, [pc |-> "fail", key |-> req[h].key])
        BY <1>2, <4>3 DEF Signing
      <4>4. ASSUME NEW pc \in {"remember", "welcome"}, Goes(h, [req[h] EXCEPT !.pc = pc])
            PROVE  req'[h].pc \in Signing /\ req'[h].key = req[h].key
                   /\ \A g \in Handlers : g # h => req'[g] = req[g]
        BY <1>2, <4>2, <4>4 DEF Signing
      <4>5. QED
        BY <3>2, <4>3, <4>4 DEF CheckPassword, Remember
    <3>3. QED
      BY <1>6, <3>1, <3>2
  <2>5. Past(k)' = Past(k)
    BY <1>1, <2>2, <2>4
  <2>6. QED
    BY <1>3, <2>1, <2>5
<1>7. ASSUME NEW h \in Handlers, Welcome(h) \/ Unauthorized(h) PROVE LockHolds(k)'
  <2> DEFINE j == req[h].key
  <2>1. req[h].pc \in Signing /\ now' = now
    BY <1>7 DEF Welcome, Unauthorized, Signing
  <2>2. req'[h] = Idle /\ \A g \in Handlers : g # h => req'[g] = req[g]
    BY <1>2, <1>7 DEF Welcome, Unauthorized, Ends
  <2>3. CASE j # k
    <3>1. Past(k)' = Past(k)
      BY <1>1, <2>2, <2>3 DEF Idle, Signing
    <3>2. lim'[k] = lim[k] /\ until'[k] = until[k] /\ late'[k] = late[k]
      BY <1>0, <1>7, <2>3 DEF Welcome, Unauthorized, Reset, Fail
    <3>3. QED
      BY <1>0, <2>1, <3>1, <3>2, LockKept
  <2>4. CASE j = k /\ Welcome(h)
    <3>1. until'[k] = 0 /\ late'[k] = 0
      BY <1>0, <2>4 DEF Welcome, Reset
    <3>2. Cardinality(Handlers) \in Nat \ {0}
      BY PastFinite
    <3>3. QED
      BY <1>0, <2>1, <3>1, <3>2 DEF LockHolds
  <2>5. CASE j = k /\ Unauthorized(h)
    <3>1. h \in Past(k) /\ Past(k)' = Past(k) \ {h}
      BY <2>1, <2>2, <2>5 DEF Past, Idle, Signing
    <3>2. Fail(k)
      BY <2>5 DEF Unauthorized
    <3>3. QED
      BY <1>0, <2>1, <3>1, <3>2, FailKeeps
  <2>6. QED
    BY <1>7, <2>3, <2>4, <2>5
<1>8. CASE Tick
  <2>1. Past(k)' = Past(k)
    BY <1>8 DEF Tick, Past
  <2>2. QED
    BY <1>0, <1>8, <2>1, LockKept DEF Tick
<1>9. CASE (\E u \in Users : Forget(u)) \/ UNCHANGED vars
  <2>1. UNCHANGED <<lim, now, until, late, req>>
    BY <1>9 DEF Forget, vars
  <2>2. QED
    BY <1>3, <2>1 DEF Past
<1>10. QED
  BY <1>4, <1>5, <1>6, <1>7, <1>8, <1>9 DEF Next, Client

\* With H handlers, at most H - 1 failures are counted for a key after it is
\* locked (authlimit/limiter.go:49 and :69 are two critical sections), and
\* none of them shortens the lock, for any limits with Lockout <= Window.
THEOREM GuessesAreBounded == Spec => []GuessesBounded
<1>1. GuessInv => GuessesBounded
  BY DEF GuessInv, LockHolds, GuessesBounded
<1>2. QED
  BY <1>1, TypeCorrect, GuessInit, GuessNext, PTL DEF Spec
=============================================================================
