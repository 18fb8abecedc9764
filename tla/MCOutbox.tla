------------------------------ MODULE MCOutbox ------------------------------
EXTENDS Outbox
CONSTANTS m1, m2
=============================================================================
