----------------------------- MODULE TokenBucket -----------------------------
(***************************************************************************)
(* What a rate limiter promises each key: a bucket of Burst units that is  *)
(* full at first, gains Rate units with every tick of the clock and pays   *)
(* Cost units for every request it admits.  A request is denied exactly    *)
(* when the bucket cannot pay.  No bucket is ever forgotten.               *)
(***************************************************************************)
EXTENDS Integers

CONSTANTS Keys, Rate, Burst, Cost

VARIABLES level, decision

AtMost(b, x) == IF x < b THEN x ELSE b

Init ==
    /\ level = [k \in Keys |-> Burst]
    /\ decision = [key |-> "none", ok |-> "none"]

Tick ==
    /\ level' = [k \in Keys |-> AtMost(Burst, level[k] + Rate)]
    /\ UNCHANGED decision

Admit(k) ==
    /\ level[k] >= Cost
    /\ level' = [level EXCEPT ![k] = @ - Cost]
    /\ decision' = [key |-> k, ok |-> "admitted"]

Deny(k) ==
    /\ level[k] < Cost
    /\ decision' = [key |-> k, ok |-> "denied"]
    /\ UNCHANGED level

Next == Tick \/ \E k \in Keys : Admit(k) \/ Deny(k)

Spec == Init /\ [][Next]_<<level, decision>>
=============================================================================
