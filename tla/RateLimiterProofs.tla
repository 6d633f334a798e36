-------------------------- MODULE RateLimiterProofs --------------------------
(***************************************************************************)
(* The rate limiter for any set of keys, any rate, burst and cost, and any *)
(* time to live that lets a bucket fill up.                                *)
(***************************************************************************)
EXTENDS RateLimiter, TLAPS

(* Products the invariants need. *)
LEMMA OneMoreTick ==
    ASSUME NEW x \in Int PROVE (x + 1) * Rate = x * Rate + Rate /\ x * Rate \in Int
BY LimiterAssumption DEF LimiterAssumption

LEMMA LongEnough ==
    ASSUME NEW x \in Int, x >= TTL PROVE x * Rate >= Burst
<1>1. x * Rate = TTL * Rate + (x - TTL) * Rate
  BY LimiterAssumption DEF LimiterAssumption
<1>2. (x - TTL) * Rate >= 0
  BY LimiterAssumption DEF LimiterAssumption
<1> QED
  BY <1>1, <1>2, LimiterAssumption DEF LimiterAssumption

LEMMA NonNegativeRefill ==
    ASSUME NEW x \in Int, x >= 0 PROVE x * Rate >= 0 /\ x * Rate \in Int
BY LimiterAssumption DEF LimiterAssumption

(* What a bucket holds is between nothing and the burst. *)
LEMMA LevelRange ==
    ASSUME TypeOK, NEW k \in Keys PROVE Level(k) \in 0 .. Burst
<1>1. CASE buckets[k] = Absent
  <2>1. (now - now) * Rate = 0
    BY LimiterAssumption DEF LimiterAssumption, TypeOK
  <2> QED
    BY <1>1, <2>1, LimiterAssumption DEF LimiterAssumption, Level, Refilled, BucketOf, AtMost, TypeOK
<1>2. CASE buckets[k] # Absent
  <2>1. /\ buckets[k].tokens \in 0 .. Burst
        /\ buckets[k].lastSeen \in Nat /\ buckets[k].lastSeen <= now /\ now \in Nat
    BY <1>2 DEF TypeOK, Bucket
  <2>2. (now - buckets[k].lastSeen) * Rate >= 0 /\ (now - buckets[k].lastSeen) * Rate \in Int
    BY <2>1, NonNegativeRefill
  <2> QED
    BY <1>2, <2>1, <2>2, LimiterAssumption
       DEF LimiterAssumption, Level, Refilled, BucketOf, AtMost
<1> QED
  BY <1>1, <1>2

(* A bucket just touched holds the tokens it was left with. *)
LEMMA FreshLevel ==
    ASSUME NEW t \in 0 .. Burst, now \in Nat
    PROVE  Refilled([tokens |-> t, lastSeen |-> now]) = t
<1>1. (now - now) * Rate = 0
  BY LimiterAssumption DEF LimiterAssumption
<1> QED
  BY <1>1, LimiterAssumption DEF LimiterAssumption, Refilled, AtMost

LEMMA InitType == Init => TypeOK /\ SweepInv
BY LimiterAssumption DEF LimiterAssumption, Init, TypeOK, SweepInv

LEMMA NextType == TypeOK /\ [Next]_vars => TypeOK'
<1> SUFFICES ASSUME TypeOK, [Next]_vars PROVE TypeOK'
  OBVIOUS
<1> USE LimiterAssumption DEF LimiterAssumption
<1>1. ASSUME NEW k \in Keys, Admit(k) PROVE TypeOK'
  <2>1. Level(k) - Cost \in 0 .. Burst
    BY <1>1, LevelRange DEF Admit, Level
  <2>2. [tokens |-> Level(k) - Cost, lastSeen |-> now] \in Bucket
    BY <2>1 DEF Bucket, TypeOK
  <2>3. [tokens |-> Level(k) - Cost, lastSeen |-> now] # Absent
    BY <2>2 DEF Bucket
  <2> HIDE DEF LimiterAssumption
  <2> QED
    BY <1>1, <2>2, <2>3 DEF Admit, Level, TypeOK
<1>2. ASSUME NEW k \in Keys, Deny(k) PROVE TypeOK'
  <2>1. [tokens |-> Level(k), lastSeen |-> now] \in Bucket
    BY LevelRange DEF Bucket, TypeOK
  <2>2. [tokens |-> Level(k), lastSeen |-> now] # Absent
    BY <2>1 DEF Bucket
  <2> HIDE DEF LimiterAssumption
  <2> QED
    BY <1>2, <2>1, <2>2 DEF Deny, Level, TypeOK
<1>3. CASE SweepWake
  BY <1>3 DEF SweepWake, Cutoff, TypeOK
<1>4. CASE Sweep
  BY <1>4 DEF Sweep, TypeOK
<1>5. CASE Advance
  BY <1>5 DEF Advance, TypeOK, Bucket
<1>6. CASE OpenWindow
  BY <1>6 DEF OpenWindow, TypeOK
<1>7. CASE UNCHANGED vars
  BY <1>7 DEF vars, TypeOK
<1> QED
  BY <1>1, <1>2, <1>3, <1>4, <1>5, <1>6, <1>7 DEF Next

LEMMA NextSweep == TypeOK /\ SweepInv /\ [Next]_vars => SweepInv'
<1> SUFFICES ASSUME TypeOK, SweepInv, [Next]_vars PROVE SweepInv'
  OBVIOUS
<1> USE LimiterAssumption DEF LimiterAssumption
<1>1. ASSUME NEW k \in Keys, Admit(k) \/ Deny(k) PROVE SweepInv'
  <2>1. \A j \in Keys : buckets'[j] = buckets[j] \/ buckets'[j].lastSeen = now
    BY <1>1 DEF Admit, Deny, TypeOK
  <2>2. UNCHANGED <<now, sweeper, cutoff, nextTick>>
    BY <1>1 DEF Admit, Deny
  <2>3. /\ sweeper = "waiting" => now >= nextTick - 2 * TTL
        /\ sweeper = "locking" => now >= nextTick - 3 * TTL
    BY DEF SweepInv, TypeOK
  <2> QED
    BY <2>1, <2>2, <2>3 DEF SweepInv, TypeOK
<1>2. CASE SweepWake
  BY <1>2 DEF SweepWake, Cutoff, SweepInv, TypeOK, Bucket
<1>3. CASE Sweep
  BY <1>3 DEF Sweep, Stale, SweepInv, TypeOK, Bucket
<1>4. CASE Advance
  BY <1>4 DEF Advance, SweepInv, TypeOK
<1>5. CASE OpenWindow \/ UNCHANGED vars
  BY <1>5 DEF OpenWindow, vars, SweepInv
<1> QED
  BY <1>1, <1>2, <1>3, <1>4, <1>5 DEF Next

(* The tokens of a bucket never leave 0 .. Burst, and no entry is from the future. *)
THEOREM LimiterTypeCorrect == Spec => []TypeOK
BY InitType, NextType, PTL DEF Spec

(***************************************************************************)
(* Limiter.sweep bounds the memory: an entry is dropped at the latest two  *)
(* periods of the ticker, and the sweeper's lateness, after its last use.  *)
(***************************************************************************)
THEOREM IdleBoundHolds == Spec => []IdleBound
<1>1. TypeOK /\ SweepInv => IdleBound
  BY LimiterAssumption DEF LimiterAssumption, TypeOK, SweepInv, IdleBound, Bucket
<1> QED
  BY <1>1, InitType, NextType, NextSweep, PTL DEF Spec
-----------------------------------------------------------------------------
(* One tick refills a bucket by Rate, up to the burst. *)
LEMMA TickLevel ==
    ASSUME TypeOK, Advance, NEW k \in Keys
    PROVE  Level(k)' = AtMost(Burst, Level(k) + Rate)
<1> USE LimiterAssumption DEF LimiterAssumption
<1>1. CASE buckets[k] = Absent
  <2>1. (now - now) * Rate = 0 /\ (now' - now') * Rate = 0 /\ now' = now + 1 /\ buckets' = buckets
    BY DEF TypeOK, Advance
  <2> QED
    BY <1>1, <2>1 DEF Level, Refilled, BucketOf, AtMost, TypeOK
<1>2. CASE buckets[k] # Absent
  <2> DEFINE x == now - buckets[k].lastSeen
  <2>1. buckets[k].tokens \in 0 .. Burst /\ x \in Int /\ x >= 0
    BY <1>2 DEF TypeOK, Bucket
  <2>2. now' - buckets'[k].lastSeen = x + 1 /\ buckets' = buckets
    BY <1>2 DEF Advance, TypeOK, Bucket
  <2>3. (x + 1) * Rate = x * Rate + Rate /\ x * Rate \in Int
    BY <2>1, OneMoreTick
  <2> QED
    BY <1>2, <2>1, <2>2, <2>3 DEF Level, Refilled, BucketOf, AtMost
<1> QED
  BY <1>1, <1>2

(* The sweeper drops full buckets only. *)
LEMMA SweepLevel ==
    ASSUME TypeOK, SweepInv, Sweep, NEW k \in Keys
    PROVE  Level(k)' = Level(k)
<1>1. CASE Stale(k)
  <2>1. buckets[k] # Absent /\ buckets'[k] = Absent /\ now' = now
    BY <1>1 DEF Sweep, Stale
  <2>2. now - buckets[k].lastSeen \in Int /\ now - buckets[k].lastSeen >= TTL
    BY <1>1, LimiterAssumption DEF LimiterAssumption, Sweep, Stale, SweepInv, TypeOK, Bucket
  <2>3. (now - buckets[k].lastSeen) * Rate >= Burst /\ (now - buckets[k].lastSeen) * Rate \in Int
    BY <2>2, LongEnough, OneMoreTick
  <2>4. Level(k) = Burst
    BY <2>1, <2>3, LimiterAssumption DEF LimiterAssumption, Level, Refilled, BucketOf, AtMost, TypeOK, Bucket
  <2>5. (now - now) * Rate = 0
    BY LimiterAssumption DEF LimiterAssumption, TypeOK
  <2>6. Level(k)' = Burst
    BY <2>1, <2>5, LimiterAssumption DEF LimiterAssumption, Level, Refilled, BucketOf, AtMost
  <2> QED
    BY <2>4, <2>6
<1>2. CASE ~Stale(k)
  <2>1. buckets'[k] = buckets[k] /\ now' = now
    BY <1>2 DEF Sweep
  <2> QED
    BY <2>1 DEF Level, Refilled, BucketOf
<1> QED
  BY <1>1, <1>2

(* A request changes the level of its own key only. *)
LEMMA RequestLevel ==
    ASSUME TypeOK, NEW k \in Keys, NEW j \in Keys
    PROVE  /\ Admit(k) => Level(j)' = IF j = k THEN Level(k) - Cost ELSE Level(j)
           /\ Deny(k) => Level(j)' = Level(j)
<1> USE LimiterAssumption DEF LimiterAssumption
<1>1. ASSUME NEW t \in 0 .. Burst, buckets'[k] = [tokens |-> t, lastSeen |-> now], now' = now
      PROVE  Level(k)' = t
  <2>1. [tokens |-> t, lastSeen |-> now] # Absent
    BY DEF TypeOK
  <2>2. (now' - now) * Rate = 0
    BY <1>1 DEF TypeOK
  <2> QED
    BY <1>1, <2>1, <2>2 DEF Level, Refilled, BucketOf, AtMost
<1>2. ASSUME Admit(k) PROVE Level(j)' = IF j = k THEN Level(k) - Cost ELSE Level(j)
  <2>1. Level(k) - Cost \in 0 .. Burst
    BY <1>2, LevelRange DEF Admit, Level
  <2>2. buckets'[k] = [tokens |-> Level(k) - Cost, lastSeen |-> now] /\ now' = now
    BY <1>2 DEF Admit, Level, TypeOK
  <2>3. j # k => buckets'[j] = buckets[j]
    BY <1>2 DEF Admit, TypeOK
  <2>4. j # k => Level(j)' = Level(j)
    BY <2>2, <2>3 DEF Level, Refilled, BucketOf
  <2> QED
    BY <1>1, <2>1, <2>2, <2>4
<1>3. ASSUME Deny(k) PROVE Level(j)' = Level(j)
  <2>1. buckets'[k] = [tokens |-> Level(k), lastSeen |-> now] /\ now' = now
    BY <1>3 DEF Deny, Level, TypeOK
  <2>2. j # k => buckets'[j] = buckets[j]
    BY <1>3 DEF Deny, TypeOK
  <2>3. j # k => Level(j)' = Level(j)
    BY <2>1, <2>2 DEF Level, Refilled, BucketOf
  <2> QED
    BY <1>1, <2>1, <2>3, LevelRange
<1> QED
  BY <1>2, <1>3

(* The other steps leave every level alone. *)
LEMMA OtherLevel ==
    ASSUME SweepWake \/ OpenWindow \/ UNCHANGED vars, NEW k \in Keys
    PROVE  Level(k)' = Level(k)
BY DEF SweepWake, OpenWindow, vars, Level, Refilled, BucketOf
-----------------------------------------------------------------------------
LEMMA InitWindow == Init => WindowInv
<1> SUFFICES ASSUME Init, NEW k \in Keys
             PROVE  passed[k] * Cost + Level(k) <= Burst + (now - since) * Rate
  BY DEF WindowInv
<1>1. Level(k) \in 0 .. Burst
  BY InitType, LevelRange
<1>2. passed[k] * Cost = 0 /\ (now - since) * Rate = 0
  BY LimiterAssumption DEF LimiterAssumption, Init
<1> QED
  BY <1>1, <1>2, LimiterAssumption DEF LimiterAssumption

LEMMA NextWindow == TypeOK /\ SweepInv /\ WindowInv /\ [Next]_vars => WindowInv'
<1> SUFFICES ASSUME TypeOK, SweepInv, WindowInv, [Next]_vars, NEW k \in Keys
             PROVE  passed'[k] * Cost + Level(k)' <= Burst + (now' - since') * Rate
  BY DEF WindowInv
<1>1. /\ passed[k] * Cost \in Int /\ (now - since) * Rate \in Int /\ now - since \in Int
      /\ passed[k] * Cost + Level(k) <= Burst + (now - since) * Rate
      /\ Level(k) \in 0 .. Burst
      /\ passed[k] \in Nat
  BY LevelRange, LimiterAssumption DEF LimiterAssumption, TypeOK, WindowInv
<1>2. ASSUME NEW j \in Keys, Admit(j)
      PROVE  passed'[k] * Cost + Level(k)' <= Burst + (now' - since') * Rate
  <2>1. now' = now /\ since' = since
    BY <1>2 DEF Admit
  <2>2. CASE j = k
    <3>1. passed'[k] = passed[k] + 1
      BY <1>2, <2>2 DEF Admit, TypeOK
    <3>2. (passed[k] + 1) * Cost = passed[k] * Cost + Cost
      BY <1>1, LimiterAssumption DEF LimiterAssumption
    <3>3. Level(k)' = Level(k) - Cost
      BY <1>2, <2>2, RequestLevel
    <3> QED
      BY <1>1, <2>1, <3>1, <3>2, <3>3, LimiterAssumption DEF LimiterAssumption
  <2>3. CASE j # k
    <3>1. passed'[k] = passed[k]
      BY <1>2, <2>3 DEF Admit, TypeOK
    <3>2. Level(k)' = Level(k)
      BY <1>2, <2>3, RequestLevel
    <3> QED
      BY <1>1, <2>1, <3>1, <3>2
  <2> QED
    BY <2>2, <2>3
<1>3. ASSUME NEW j \in Keys, Deny(j)
      PROVE  passed'[k] * Cost + Level(k)' <= Burst + (now' - since') * Rate
  <2>1. now' = now /\ since' = since /\ passed' = passed
    BY <1>3 DEF Deny
  <2>2. Level(k)' = Level(k)
    BY <1>3, RequestLevel
  <2> QED
    BY <1>1, <2>1, <2>2
<1>4. CASE Sweep
  <2>1. now' = now /\ since' = since /\ passed' = passed
    BY <1>4 DEF Sweep
  <2>2. Level(k)' = Level(k)
    BY <1>4, SweepLevel
  <2> QED
    BY <1>1, <2>1, <2>2
<1>5. CASE Advance
  <2>1. now' - since' = (now - since) + 1 /\ passed' = passed
    BY <1>5 DEF Advance, TypeOK
  <2>2. ((now - since) + 1) * Rate = (now - since) * Rate + Rate
    BY <1>1, OneMoreTick
  <2>3. Level(k)' <= Level(k) + Rate /\ Level(k)' \in Int
    BY <1>1, <1>5, TickLevel, LimiterAssumption DEF LimiterAssumption, AtMost
  <2> QED
    BY <1>1, <2>1, <2>2, <2>3, LimiterAssumption DEF LimiterAssumption
<1>6. CASE SweepWake \/ UNCHANGED vars
  <2>1. now' = now /\ since' = since /\ passed' = passed
    BY <1>6 DEF SweepWake, vars
  <2>2. Level(k)' = Level(k)
    BY <1>6, OtherLevel
  <2> QED
    BY <1>1, <2>1, <2>2
<1>7. CASE OpenWindow
  <2>1. passed'[k] * Cost = 0 /\ (now' - since') * Rate = 0
    BY <1>7, LimiterAssumption DEF LimiterAssumption, OpenWindow, TypeOK
  <2>2. Level(k)' = Level(k)
    BY <1>7, OtherLevel
  <2> QED
    BY <1>1, <2>1, <2>2, LimiterAssumption DEF LimiterAssumption
<1> QED
  BY <1>2, <1>3, <1>4, <1>5, <1>6, <1>7 DEF Next

(***************************************************************************)
(* Limiter.allow: in any window of time a client gets at most the burst    *)
(* plus rate times the length of the window, whatever the sweeper drops.   *)
(***************************************************************************)
THEOREM WindowBoundHolds == Spec => []WindowBound
<1>1. TypeOK /\ WindowInv => WindowBound
  <2> SUFFICES ASSUME TypeOK, WindowInv, NEW k \in Keys
               PROVE  passed[k] * Cost <= Burst + (now - since) * Rate
    BY DEF WindowBound
  <2>1. passed[k] * Cost \in Int /\ (now - since) * Rate \in Int /\ Level(k) \in 0 .. Burst
    BY LevelRange, LimiterAssumption DEF LimiterAssumption, TypeOK
  <2> QED
    BY <2>1, LimiterAssumption DEF LimiterAssumption, WindowInv
<1> QED
  BY <1>1, InitType, NextType, NextSweep, InitWindow, NextWindow, PTL DEF Spec
-----------------------------------------------------------------------------
(* A full bucket for every key at the start. *)
LEMMA InitAbstract == Init => Abstract!Init
<1> SUFFICES ASSUME Init PROVE Abstract!Init
  OBVIOUS
<1>1. ASSUME NEW k \in Keys PROVE Level(k) = Burst
  <2>1. (now - now) * Rate = 0
    BY LimiterAssumption DEF LimiterAssumption, Init
  <2> QED
    BY <2>1, LimiterAssumption DEF LimiterAssumption, Init, Level, Refilled, BucketOf, AtMost
<1> QED
  BY <1>1 DEF Init, Abstract!Init

LEMMA NextAbstract ==
    TypeOK /\ SweepInv /\ [Next]_vars => [Abstract!Next]_<<[k \in Keys |-> Level(k)], decision>>
<1> DEFINE L == [k \in Keys |-> Level(k)]
<1> SUFFICES ASSUME TypeOK, SweepInv, [Next]_vars PROVE [Abstract!Next]_<<L, decision>>
  OBVIOUS
<1>1. ASSUME NEW k \in Keys, Admit(k) PROVE Abstract!Admit(k)
  <2>1. L[k] >= Cost /\ decision' = [key |-> k, ok |-> "admitted"]
    BY <1>1 DEF Admit, Level
  <2>2. L' = [L EXCEPT ![k] = L[k] - Cost]
    BY <1>1, RequestLevel
  <2> QED
    BY <2>1, <2>2 DEF Abstract!Admit
<1>2. ASSUME NEW k \in Keys, Deny(k) PROVE Abstract!Deny(k)
  <2>1. L[k] < Cost /\ decision' = [key |-> k, ok |-> "denied"]
    BY <1>2 DEF Deny, Level
  <2>2. L' = L
    BY <1>2, RequestLevel
  <2> QED
    BY <2>1, <2>2 DEF Abstract!Deny
<1>3. CASE Advance
  <2>1. L' = [k \in Keys |-> AtMost(Burst, L[k] + Rate)]
    BY <1>3, TickLevel
  <2>2. decision' = decision
    BY <1>3 DEF Advance
  <2> QED
    BY <2>1, <2>2 DEF Abstract!Next, Abstract!Tick, Abstract!AtMost, AtMost
<1>4. CASE Sweep \/ SweepWake \/ OpenWindow \/ UNCHANGED vars
  <2>1. L' = L
    BY <1>4, SweepLevel, OtherLevel
  <2>2. decision' = decision
    BY <1>4 DEF Sweep, SweepWake, OpenWindow, vars
  <2> QED
    BY <2>1, <2>2
<1> QED
  BY <1>1, <1>2, <1>3, <1>4 DEF Next, Abstract!Next

(***************************************************************************)
(* Limiter, with its lazy refill and its sweeper, implements TokenBucket:  *)
(* it admits and denies exactly what a limiter that forgets nothing would. *)
(***************************************************************************)
THEOREM Refinement == Spec => ImplementsTokenBucket
<1>1. Abstract!Init /\ [][Abstract!Next]_<<[k \in Keys |-> Level(k)], decision>> => Abstract!Spec
  BY DEF Abstract!Spec
<1> QED
  BY <1>1, InitType, NextType, NextSweep, InitAbstract, NextAbstract, PTL
     DEF Spec, ImplementsTokenBucket
=============================================================================
