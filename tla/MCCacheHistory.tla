--------------------------- MODULE MCCacheHistory ---------------------------
(***************************************************************************)
(* Instances of CacheHistory for TLC: every call runs under a context of   *)
(* its own, so calls are interchangeable, as aliases and URLs are.         *)
(***************************************************************************)
EXTENDS CacheHistory, TLC

MCCtxOf == [c \in Calls |-> c]

Symmetry == Permutations(Calls) \cup Permutations(Aliases) \cup Permutations(URLs)
=============================================================================
