-------------------------- MODULE MCCacheStaleness --------------------------
(***************************************************************************)
(* Instances of CacheStaleness for TLC: all calls run under one context,   *)
(* so calls are interchangeable, as aliases and URLs are.                  *)
(***************************************************************************)
EXTENDS CacheStaleness, TLC

(* A disconnect ends every call that has not been answered yet. *)
MCOneCtx == [c \in Calls |-> CHOOSE x \in Contexts : TRUE]

Symmetry == Permutations(Calls) \cup Permutations(Aliases) \cup Permutations(URLs)
=============================================================================
