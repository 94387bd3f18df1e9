--------------------------- MODULE MCBrowserPages ---------------------------
(* Tasks that come back with any call, and a filter that every record        *)
(* matches.                                                                  *)
EXTENDS BrowserPages

CONSTANTS t1, t2, t3, i1, i2, c1, c2, c3

AnyRecord == {[type |-> AnyType, include_static |-> TRUE]}
(* A bound: one page at a time has network records, waiters or a video. *)
OneRecorded ==
    Cardinality({i \in Registered : \/ observers[i] \notin {None, NewObserver}
                                    \/ <<i, "video">> \in kept}) <= 1

Symmetric == Permutations(Tasks) \cup Permutations(Ids) \cup Permutations(Chrome)
=============================================================================
