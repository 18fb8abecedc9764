------------------------------- MODULE MCPing -------------------------------
EXTENDS Ping
CONSTANTS k1, f1, p1, p2
=============================================================================
