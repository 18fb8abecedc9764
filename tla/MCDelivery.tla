----------------------------- MODULE MCDelivery -----------------------------
(* Model values for Delivery: two accounts, one of them with an alias. *)
EXTENDS Delivery, TLC

CONSTANTS m1, m2, u1, u2, a1, a1x, a2, cat, lost, far

MCUsers == {u1, u2}
MCAddrs == {a1, a1x, a2, cat, lost, far}

\* a1x is an alias of u1, cat is on a domain with a catch-all, lost is an address of ours
\* without account, far is on another server.
MCOwner == [a \in MCAddrs |-> CASE a \in {a1, a1x} -> u1 [] a = a2 -> u2 [] OTHER -> NoUser]
MCAddress == [u \in MCUsers |-> IF u = u1 THEN a1 ELSE a2]
MCHosted == MCAddrs \ {far}
MCCatchAll == {cat}

MailOf(via, to, cc, from, key, auto) ==
  [via |-> via, to |-> to, cc |-> cc, from |-> from, key |-> key, auto |-> auto]

\* One message of every kind, with nothing beside it (a message without recipients), and two
\* at the same time from one correspondent to one account.
Alone ==
  {MailOf("inbound", {a1, a1x}, {}, far, TRUE, FALSE),
   MailOf("inbound", {a2}, {cat}, far, FALSE, TRUE),
   MailOf("inbound", {a1}, {lost}, far, TRUE, FALSE),
   MailOf("eas", {a2}, {far}, a1, TRUE, FALSE),
   MailOf("smtp", {a1, far}, {}, a2, TRUE, FALSE),
   MailOf("smtp", {a1}, {lost}, a2, TRUE, TRUE),
   MailOf("web", {a1, a2}, {far}, a1, TRUE, FALSE)}
Nobody == MailOf("web", {a1x}, {}, a1, TRUE, FALSE)
Pair == MailOf("inbound", {a2}, {}, far, TRUE, FALSE)

MCBatches == {m1 :> v @@ m2 :> Nobody : v \in Alone} \cup {m1 :> Pair @@ m2 :> Pair}

=============================================================================
