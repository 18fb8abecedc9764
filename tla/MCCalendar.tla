----------------------------- MODULE MCCalendar -----------------------------
(* Calendar for TLC: handlers are interchangeable.                         *)
EXTENDS Calendar, TLC

Symmetric == Permutations(Handlers)
=============================================================================
