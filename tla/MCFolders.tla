------------------------------ MODULE MCFolders ------------------------------
(* Model values for Folders: the two provisioned folders and room for one more. *)
EXTENDS Folders

CONSTANTS nInbox, nCalendar, nSpam

MCNames == {nInbox, nCalendar, nSpam}

=============================================================================
