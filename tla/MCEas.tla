------------------------------- MODULE MCEas -------------------------------
EXTENDS EasSync
CONSTANTS d1, d2, m1, m2
=============================================================================
