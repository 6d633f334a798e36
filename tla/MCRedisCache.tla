---------------------------- MODULE MCRedisCache ----------------------------
(***************************************************************************)
(* Instances of RedisCache for TLC: every call runs under a context of its *)
(* own, so calls are interchangeable, as aliases and URLs are; or two of   *)
(* the calls belong to one request.                                        *)
(***************************************************************************)
EXTENDS RedisCache, TLC

CONSTANTS k1, k2   \* two contexts

MCCtxOf == [c \in Calls |-> c]

(* One request with a context of its own, the others share one (retries). *)
MCSharedCtx == [c \in Calls |-> IF c = CHOOSE d \in Calls : TRUE THEN k1 ELSE k2]

Symmetry == Permutations(Calls) \cup Permutations(Aliases) \cup Permutations(URLs)
=============================================================================
