---------------------------- MODULE MailPromise -----------------------------
(***************************************************************************)
(* What a mail server promises to whoever hands it a message: an accepted  *)
(* message is with every recipient or on its way, a verdict is final, and  *)
(* a message refused as a whole has reached nobody.                        *)
(***************************************************************************)
CONSTANTS Msgs, Addrs

VARIABLES
  rcpt,     \* the recipients of a message
  whole,    \* the messages that are refused as a whole or not at all
  reached,  \* <<message, recipient>>
  verdict   \* what the sender was told

vars == <<rcpt, whole, reached, verdict>>

Init ==
  /\ rcpt \in [Msgs -> SUBSET Addrs]
  /\ whole \in SUBSET Msgs
  /\ reached = {}
  /\ verdict = [m \in Msgs |-> "open"]

Reach ==
  /\ reached' \in SUBSET (Msgs \X Addrs)
  /\ reached \subseteq reached'
  /\ UNCHANGED <<rcpt, whole, verdict>>

Accept(m) ==
  /\ verdict[m] = "open"
  /\ \A a \in rcpt[m] : <<m, a>> \in reached
  /\ verdict' = [verdict EXCEPT ![m] = "ok"]
  /\ UNCHANGED <<rcpt, whole, reached>>

Refuse(m) ==
  /\ verdict[m] = "open"
  /\ m \in whole => \A a \in Addrs : <<m, a>> \notin reached
  /\ verdict' = [verdict EXCEPT ![m] = "rejected"]
  /\ UNCHANGED <<rcpt, whole, reached>>

Next == Reach \/ \E m \in Msgs : Accept(m) \/ Refuse(m)

Spec == Init /\ [][Next]_vars

=============================================================================
