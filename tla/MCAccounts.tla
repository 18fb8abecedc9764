----------------------------- MODULE MCAccounts -----------------------------
(* Accounts for TLC: requests, passwords, accounts and their names are     *)
(* interchangeable; the second address is the first one with a tag.        *)
EXTENDS Accounts, TLC

CONSTANTS box, tagged

MCAddresses == {box, tagged}
MCPlain == [a \in MCAddresses |-> box]

Symmetric == UNION {Permutations(S) : S \in {Handlers, Passwords, Users, Names}}
=============================================================================
