------------------------------- MODULE MCImap -------------------------------
(* Model values for Imap: an inbox and a second folder. *)
EXTENDS Imap

CONSTANTS inbox, other

MCBoxes == {inbox, other}
MCStoreOps == {<<"+FLAGS", {"seen"}>>, <<"+FLAGS", {"deleted"}>>, <<"FLAGS", {"flagged"}>>,
               <<"-FLAGS", {"seen", "deleted"}>>}

=============================================================================
