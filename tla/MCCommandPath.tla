--------------------------- MODULE MCCommandPath ---------------------------
(***************************************************************************)
(* Every command, with every line that there is of it: as many options may *)
(* be off their ordinary value as any command has.                         *)
(***************************************************************************)
EXTENDS CommandPath

ASSUME EveryLine == \A c \in Commands : Cardinality(DOMAIN Options(c)) <= MaxOdd
=============================================================================
