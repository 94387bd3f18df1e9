------------------------- MODULE MCExtensionSession -------------------------
EXTENDS ExtensionSession, TLC

CONSTANTS r1, r2

Connections == 1..2
Symmetric == Permutations(Requests)
=============================================================================
