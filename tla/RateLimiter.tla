----------------------------- MODULE RateLimiter -----------------------------
(***************************************************************************)
(* The rate limiter of the write and the auth endpoints:                   *)
(* internal/transport/http/middleware/ratelimit/ratelimit.go.              *)
(*                                                                         *)
(* Time is counted in ticks and tokens in units, so that all numbers are   *)
(* integers: a tick refills Rate units and a request costs Cost units (1.0 *)
(* token in the code).  allow runs under the mutex and reads the monotonic *)
(* clock there, so it is one step.  The sweeper reads the clock before it  *)
(* takes the mutex, so requests and time may come between.                 *)
(***************************************************************************)
EXTENDS Integers

CONSTANTS
    Keys,      \* client addresses
    Rate,      \* l.rate: units per tick
    Burst,     \* l.burst, in units
    Cost,      \* one token, in units
    TTL,       \* l.ttl, in ticks
    Slack,     \* how late, in ticks, the sweeper may be to wake up or to get the mutex
    Absent,    \* no entry in l.buckets
    MaxTime    \* bound: the clock stops there

(* limiterEntryTTL is long enough to fill any bucket (router.go, ratelimit_config.go). *)
ASSUME LimiterAssumption ==
    /\ Rate \in Nat /\ Burst \in Nat /\ Cost \in Nat
    /\ TTL \in Nat /\ TTL > 0
    /\ Slack \in Nat /\ Slack < TTL
    /\ TTL * Rate >= Burst
    /\ Absent \notin [tokens : 0 .. Burst, lastSeen : Nat]
    /\ MaxTime \in Nat

VARIABLES
    now,        \* time.Now()
    buckets,    \* l.buckets: [Keys -> bucket or Absent]
    sweeper,    \* "waiting" for the ticker, or for the mutex ("locking")
    cutoff,     \* the sweeper's local variable
    nextTick,   \* when the ticker fires next
    decision,   \* the last request and what became of it
    since,      \* history: when the observed window was opened
    passed      \* history: how many requests of each key passed since then

vars == <<now, buckets, sweeper, cutoff, nextTick, decision, since, passed>>

Bucket == [tokens : 0 .. Burst, lastSeen : Nat]

(* Mutant: the refill is not capped. *)
Uncapped(b, x) == x

AtMost(b, x) == IF x < b THEN x ELSE b

(* min(l.burst, b.tokens + elapsed*l.rate) *)
Refilled(b) == AtMost(Burst, b.tokens + (now - b.lastSeen) * Rate)

(* The bucket of k, a full one when there is none. *)
BucketOf(k) ==
    IF buckets[k] = Absent THEN [tokens |-> Burst, lastSeen |-> now] ELSE buckets[k]

Init ==
    /\ now = 0
    /\ buckets = [k \in Keys |-> Absent]
    /\ sweeper = "waiting"
    /\ cutoff = 0
    /\ nextTick = TTL
    /\ decision = [key |-> "none", ok |-> "none"]
    /\ since = 0
    /\ passed = [k \in Keys |-> 0]

(* allow says yes and Middleware calls next, *)
Admit(k) ==
    LET t == Refilled(BucketOf(k))
    IN  /\ t >= Cost
        /\ buckets' = [buckets EXCEPT ![k] = [tokens |-> t - Cost, lastSeen |-> now]]
        /\ decision' = [key |-> k, ok |-> "admitted"]
        /\ passed' = [passed EXCEPT ![k] = @ + 1]
        /\ UNCHANGED <<now, sweeper, cutoff, nextTick, since>>

(* Mutant: a denied request stores the refill but not its time. *)
DenyKeepingLastSeen(k) ==
    LET t == Refilled(BucketOf(k))
    IN  /\ t < Cost
        /\ buckets' = [buckets EXCEPT ![k] = [tokens |-> t, lastSeen |-> BucketOf(k).lastSeen]]
        /\ decision' = [key |-> k, ok |-> "denied"]
        /\ UNCHANGED <<now, sweeper, cutoff, nextTick, since, passed>>

(* or it says no and Middleware answers 429. *)
Deny(k) ==
    LET t == Refilled(BucketOf(k))
    IN  /\ t < Cost
        /\ buckets' = [buckets EXCEPT ![k] = [tokens |-> t, lastSeen |-> now]]
        /\ decision' = [key |-> k, ok |-> "denied"]
        /\ UNCHANGED <<now, sweeper, cutoff, nextTick, since, passed>>

(* Mutant: the entry's age is not taken into account. *)
CutoffNow == now

Cutoff == now - TTL

(* for range ticker.C { cutoff := time.Now().Add(-l.ttl) *)
SweepWake ==
    /\ sweeper = "waiting"
    /\ now >= nextTick
    /\ sweeper' = "locking"
    /\ cutoff' = Cutoff
    /\ nextTick' = nextTick + TTL
    /\ UNCHANGED <<now, buckets, decision, since, passed>>

(* Mutant: the entries to drop are the ones seen lately. *)
SeenSince(k) == buckets[k] # Absent /\ buckets[k].lastSeen > cutoff

Stale(k) == buckets[k] # Absent /\ buckets[k].lastSeen < cutoff

(* l.mu.Lock() and the loop over the map *)
Sweep ==
    /\ sweeper = "locking"
    /\ sweeper' = "waiting"
    /\ buckets' = [k \in Keys |-> IF Stale(k) THEN Absent ELSE buckets[k]]
    /\ UNCHANGED <<now, cutoff, nextTick, decision, since, passed>>

(* Time passes; the sweeper is never more than Slack late. *)
Advance ==
    /\ now < MaxTime
    /\ now < nextTick + Slack
    /\ sweeper = "locking" => now < cutoff + TTL + Slack
    /\ now' = now + 1
    /\ UNCHANGED <<buckets, sweeper, cutoff, nextTick, decision, since, passed>>

(* The observer starts counting, at any moment. *)
OpenWindow ==
    /\ since' = now
    /\ passed' = [k \in Keys |-> 0]
    /\ UNCHANGED <<now, buckets, sweeper, cutoff, nextTick, decision>>

Next ==
    \/ \E k \in Keys : Admit(k) \/ Deny(k)
    \/ SweepWake
    \/ Sweep
    \/ Advance
    \/ OpenWindow

Spec == Init /\ [][Next]_vars
-----------------------------------------------------------------------------
(* Types: the tokens of a bucket stay within 0 and the burst. *)
TypeOK ==
    /\ now \in Nat
    /\ buckets \in [Keys -> Bucket \cup {Absent}]
    /\ \A k \in Keys : buckets[k] # Absent => buckets[k].lastSeen <= now
    /\ sweeper \in {"waiting", "locking"}
    /\ cutoff \in Int
    /\ nextTick \in Nat
    /\ since \in Nat /\ since <= now
    /\ passed \in [Keys -> Nat]

(* What the bucket of k holds at this moment: refilling is lazy in the code. *)
Level(k) == Refilled(BucketOf(k))

(***************************************************************************)
(* Over every window of time a key gets at most the burst and what the     *)
(* rate refills in the window, whatever the sweeper forgets meanwhile.     *)
(***************************************************************************)
WindowBound ==
    \A k \in Keys : passed[k] * Cost <= Burst + (now - since) * Rate

(***************************************************************************)
(* The sweeper bounds the memory: no entry outlives its last request by    *)
(* more than two periods of the ticker and the sweeper's own lateness.     *)
(***************************************************************************)
IdleBound ==
    \A k \in Keys : buckets[k] # Absent =>
        now - buckets[k].lastSeen <= 2 * TTL + 2 * Slack

Abstract == INSTANCE TokenBucket WITH level <- [k \in Keys |-> Level(k)]

(***************************************************************************)
(* Lazy refilling and the sweeper cannot be told from buckets that refill  *)
(* with the clock and are never forgotten: no request is admitted or       *)
(* denied that TokenBucket would not admit or deny.                        *)
(***************************************************************************)
ImplementsTokenBucket == Abstract!Spec
-----------------------------------------------------------------------------
(* The inductive strengthenings used by RateLimiterProofs *)

(* The sweeper's timing: where it stands, and how old an entry can be then. *)
SweepInv ==
    /\ nextTick - TTL <= now /\ now <= nextTick + Slack
    /\ sweeper = "waiting" =>
        \A k \in Keys : buckets[k] # Absent => buckets[k].lastSeen >= nextTick - 2 * TTL
    /\ sweeper = "locking" =>
        /\ cutoff + TTL <= now
        /\ now <= cutoff + TTL + Slack
        /\ nextTick - TTL <= cutoff + TTL
        /\ cutoff + TTL <= nextTick - TTL + Slack
        /\ \A k \in Keys : buckets[k] # Absent => buckets[k].lastSeen >= nextTick - 3 * TTL

(* What passed and what is left never exceed what the window supplied. *)
WindowInv ==
    \A k \in Keys : passed[k] * Cost + Level(k) <= Burst + (now - since) * Rate
=============================================================================
