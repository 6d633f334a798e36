---------------------------- MODULE MCURLService ----------------------------
(***************************************************************************)
(* URLService for TLC: two or three clients with two attempts each.        *)
(***************************************************************************)
EXTENDS URLService, TLC

MCCalls == Clients \X (1 .. MaxRetries)

MCCtxOf == [c \in MCCalls |-> c[1]]

Symmetry == Permutations(Clients) \cup Permutations(Aliases) \cup Permutations(URLs)
=============================================================================
