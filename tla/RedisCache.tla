----------------------------- MODULE RedisCache -----------------------------
(***************************************************************************)
(* The cache in front of the storage: internal/storage/redis/cache.go.     *)
(*                                                                         *)
(* Every element of Calls is one invocation of Cache.Save, Cache.Get or    *)
(* Cache.Delete by a request handler; calls run concurrently, each in its  *)
(* own goroutine, and every statement that reads or writes something       *)
(* shared (the table, Redis, the breaker, the singleflight group) is a     *)
(* step of its own.  A call runs under the context of its HTTP request,    *)
(* which is done as soon as the client disconnects.                        *)
(*                                                                         *)
(* The breaker is abstracted to where downUntil lies: zero (closed), in    *)
(* the future (open) or in the past (cooled).  The cooldown may end at any *)
(* moment, and since downUntil is compared with the wall clock, a clock    *)
(* that is set back opens the breaker again.                               *)
(***************************************************************************)
EXTENDS PostgresRepo, FiniteSets

CONSTANTS
    Contexts,        \* the contexts of the HTTP requests
    CtxOf,           \* CtxOf[c]: the context the call c was given
    NoCall,          \* "no flight"
    MaxRedisFaults   \* bound: how many Redis commands fail for a reason of their own

ASSUME CacheAssumption ==
    /\ CtxOf \in [Calls -> Contexts]
    /\ NoCall \notin Calls
    /\ MaxRedisFaults \in Nat
    /\ IsFiniteSet(Calls)

VARIABLES
    redis,           \* [Aliases -> URLs or None]: the cached entries
    redisLate,       \* writes whose client gave up and that the server still holds
    redisFaults,     \* how many Redis commands have failed so far
    breaker,         \* "closed" before the first trip, then "open" or "cooled"
    flight,          \* group: [Aliases -> the call that leads the flight, or NoCall]
    pc,              \* [Calls -> PCs]: the next statement of each call
    req,             \* [Calls -> what was called]
    val,             \* [Calls -> the URL a Get has in hand or returned]
    err,             \* [Calls -> the error in hand or returned]
    cancelled        \* the contexts that are done

redisVars == <<redis, redisLate, redisFaults, breaker>>
callVars  == <<pc, req, val, err>>
vars == <<db, dbLate, dbFaults, redis, redisLate, redisFaults, breaker,
          flight, pc, req, val, err, cancelled>>

SavePCs   == {"Save.insert", "Save.available", "Save.set"}
FlightPCs == {"Get.select", "Get.fillAvailable", "Get.fill", "Get.return"}
GetPCs    == {"Get.available", "Get.redis", "Get.do", "Get.wait"} \cup FlightPCs
DeletePCs == {"Delete.delete", "Delete.available", "Delete.del"}
PCs       == {"idle", "done"} \cup SavePCs \cup GetPCs \cup DeletePCs

Requests  == [m : {"Save"}, alias : Aliases, url : URLs]
                \cup [m : {"Get", "Delete"}, alias : Aliases, url : {None}]
NoRequest == [m |-> "none", alias |-> None, url |-> None]

FirstPC(m) == CASE m = "Save"   -> "Save.insert"
                [] m = "Get"    -> "Get.available"
                [] m = "Delete" -> "Delete.delete"

Writes == [by : Calls, alias : Aliases, url : URLs \cup {None}]

(* ctx.Err() # nil in the call c. *)
CtxDone(c) == CtxOf[c] \in cancelled

Goto(c, l) == pc' = [pc EXCEPT ![c] = l]

(* The call c returns v and e. *)
Return(c, v, e) ==
    /\ Goto(c, "done")
    /\ val' = [val EXCEPT ![c] = v]
    /\ err' = [err EXCEPT ![c] = e]
    /\ UNCHANGED req

(* Mutants: every waiter of the group, and none. *)
AllWaiters(alias) == {w \in Calls : pc[w] = "Get.wait"}
NoWaiters(alias)  == {}

(* The calls that wait for the flight on alias. *)
Waiters(alias) == {w \in Calls : pc[w] = "Get.wait" /\ req[w].alias = alias}
-----------------------------------------------------------------------------
Init ==
    /\ PgInit
    /\ redis = [a \in Aliases |-> None]
    /\ redisLate = {}
    /\ redisFaults = 0
    /\ breaker = "closed"
    /\ flight = [a \in Aliases |-> NoCall]
    /\ pc = [c \in Calls |-> "idle"]
    /\ req = [c \in Calls |-> NoRequest]
    /\ val = [c \in Calls |-> None]
    /\ err = [c \in Calls |-> "nil"]
    /\ cancelled = {}

(* A handler calls the cache: r is the method and its arguments. *)
Begin(c, r) ==
    /\ pc[c] = "idle"
    /\ req' = [req EXCEPT ![c] = r]
    /\ Goto(c, FirstPC(r.m))
    /\ UNCHANGED <<pgVars, redisVars, flight, val, err, cancelled>>
-----------------------------------------------------------------------------
(***************************************************************************)
(* The breaker, and the commands Redis can fail.  go-redis refuses to run  *)
(* a command under a context that is already done, so such a command fails *)
(* without any effect; a command that fails on the wire may have reached   *)
(* the server, which then executes a write later or not at all.  go-redis  *)
(* sends a failed command again, so the copy the server still holds may be *)
(* one of a command that succeeds in the end.                              *)
(***************************************************************************)
RedisAvailable == breaker # "open"

MarkRedisDown == breaker' = "open"

RedisFault ==
    /\ redisFaults < MaxRedisFaults
    /\ redisFaults' = redisFaults + 1

(* rdb.Set(alias, u), or rdb.Del(alias) when u is None; a failure trips the breaker. *)
RedisWrite(c, u) ==
    LET w == [by |-> c, alias |-> req[c].alias, url |-> u]
    IN  \/ /\ ~CtxDone(c)
           /\ redis' = [redis EXCEPT ![w.alias] = u]
           /\ \/ UNCHANGED <<redisLate, redisFaults>>
              \/ RedisFault /\ redisLate' = redisLate \cup {w}
           /\ UNCHANGED breaker
        \/ /\ CtxDone(c)
           /\ MarkRedisDown
           /\ UNCHANGED <<redis, redisLate, redisFaults>>
        \/ /\ ~CtxDone(c)
           /\ RedisFault
           /\ MarkRedisDown
           /\ redisLate' \in {redisLate, redisLate \cup {w}}
           /\ UNCHANGED redis

(* if c.redisAvailable(): on to the Redis command, or past it. *)
CheckAvailable(c, here, use, skip) ==
    /\ pc[c] = here
    /\ Goto(c, IF RedisAvailable THEN use ELSE skip)
    /\ UNCHANGED <<pgVars, redisVars, flight, req, val, err, cancelled>>
-----------------------------------------------------------------------------
(* Cache.Save *)

(* Mutant: the error of next.Save does not end the call. *)
CacheDespiteError(e) == "Save.available"

(* if err := c.next.Save(...); err != nil { return err } *)
AfterInsert(e) == IF e = "nil" THEN "Save.available" ELSE "done"

SaveInsert(c) ==
    /\ pc[c] = "Save.insert"
    /\ \E e \in Errors :
        /\ PgSave(c, CtxDone(c), req[c].url, req[c].alias, e)
        /\ Goto(c, AfterInsert(e))
        /\ err' = [err EXCEPT ![c] = e]
    /\ UNCHANGED <<redisVars, flight, req, val, cancelled>>

SaveAvailable(c) == CheckAvailable(c, "Save.available", "Save.set", "done")

(* rdb.Set; its failure is not the caller's. *)
SaveSet(c) ==
    /\ pc[c] = "Save.set"
    /\ RedisWrite(c, req[c].url)
    /\ Goto(c, "done")
    /\ UNCHANGED <<pgVars, flight, req, val, err, cancelled>>

Save(c) == SaveInsert(c) \/ SaveAvailable(c) \/ SaveSet(c)
-----------------------------------------------------------------------------
(* Cache.Get *)

GetAvailable(c) == CheckAvailable(c, "Get.available", "Get.redis", "Get.do")

GetHit(c) ==
    /\ ~CtxDone(c)
    /\ redis[req[c].alias] # None
    /\ Return(c, redis[req[c].alias], "nil")
    /\ UNCHANGED redisVars

(* Mutant: redis.Nil is taken for a failure. *)
GetMissMarksDown(c) ==
    /\ ~CtxDone(c)
    /\ redis[req[c].alias] = None
    /\ MarkRedisDown
    /\ Goto(c, "Get.do")
    /\ UNCHANGED <<redis, redisLate, redisFaults, req, val, err>>

(* redis.Nil: not a failure of Redis. *)
GetMiss(c) ==
    /\ ~CtxDone(c)
    /\ redis[req[c].alias] = None
    /\ Goto(c, "Get.do")
    /\ UNCHANGED <<redisVars, req, val, err>>

(* Mutant: an unreachable Redis fails the request. *)
FailWithRedis(c) == Return(c, None, "storage")

FallBack(c) == Goto(c, "Get.do") /\ UNCHANGED <<req, val, err>>

(* Any other error: the breaker trips and the call falls back to the storage. *)
GetUnavailable(c) ==
    /\ \/ CtxDone(c) /\ UNCHANGED redisFaults
       \/ ~CtxDone(c) /\ RedisFault
    /\ MarkRedisDown
    /\ FallBack(c)
    /\ UNCHANGED <<redis, redisLate>>

GetRedis(c) ==
    /\ pc[c] = "Get.redis"
    /\ GetHit(c) \/ GetMiss(c) \/ GetUnavailable(c)
    /\ UNCHANGED <<pgVars, flight, cancelled>>

(* Mutant: the group is not consulted, every miss queries the storage. *)
NeverInFlight(alias) == FALSE

InFlight(alias) == flight[alias] # NoCall

(* group.Do: lead a new flight, or wait for the one in progress. *)
GetDo(c) ==
    /\ pc[c] = "Get.do"
    /\ \/ /\ ~InFlight(req[c].alias)
          /\ flight' = [flight EXCEPT ![req[c].alias] = c]
          /\ Goto(c, "Get.select")
       \/ /\ InFlight(req[c].alias)
          /\ Goto(c, "Get.wait")
          /\ UNCHANGED flight
    /\ UNCHANGED <<pgVars, redisVars, req, val, err, cancelled>>

(* next.Get, under the context of the call that leads the flight. *)
GetSelect(c) ==
    /\ pc[c] = "Get.select"
    /\ \E v \in URLs \cup {None}, e \in Errors :
        /\ PgGet(CtxDone(c), req[c].alias, v, e)
        /\ val' = [val EXCEPT ![c] = v]
        /\ err' = [err EXCEPT ![c] = e]
        /\ Goto(c, IF e = "nil" THEN "Get.fillAvailable" ELSE "Get.return")
    /\ UNCHANGED <<redisVars, flight, req, cancelled>>

GetFillAvailable(c) == CheckAvailable(c, "Get.fillAvailable", "Get.fill", "Get.return")

GetFill(c) ==
    /\ pc[c] = "Get.fill"
    /\ RedisWrite(c, val[c])
    /\ Goto(c, "Get.return")
    /\ UNCHANGED <<pgVars, flight, req, val, err, cancelled>>

(***************************************************************************)
(* The flight ends: singleflight removes it from the group under its lock  *)
(* and the leader and everyone waiting return what the leader got.  What a *)
(* waiter does after that touches nothing shared.                          *)
(***************************************************************************)
GetReturn(c) ==
    LET released == Waiters(req[c].alias) \cup {c}
    IN  /\ pc[c] = "Get.return"
        /\ flight' = [flight EXCEPT ![req[c].alias] = NoCall]
        /\ pc'  = [d \in Calls |-> IF d \in released THEN "done" ELSE pc[d]]
        /\ val' = [d \in Calls |-> IF d \in released THEN val[c] ELSE val[d]]
        /\ err' = [d \in Calls |-> IF d \in released THEN err[c] ELSE err[d]]
        /\ UNCHANGED <<pgVars, redisVars, req, cancelled>>

Get(c) == \/ GetAvailable(c) \/ GetRedis(c) \/ GetDo(c) \/ GetSelect(c)
          \/ GetFillAvailable(c) \/ GetFill(c) \/ GetReturn(c)
-----------------------------------------------------------------------------
(* Cache.Delete *)

DeleteDelete(c) ==
    /\ pc[c] = "Delete.delete"
    /\ \E e \in Errors :
        /\ PgDelete(c, CtxDone(c), req[c].alias, e)
        /\ Goto(c, IF e = "nil" THEN "Delete.available" ELSE "done")
        /\ err' = [err EXCEPT ![c] = e]
    /\ UNCHANGED <<redisVars, flight, req, val, cancelled>>

DeleteAvailable(c) == CheckAvailable(c, "Delete.available", "Delete.del", "done")

(* Mutant: the key that is deleted is not the one the entry is stored under. *)
DelOtherKey(c) ==
    /\ pc[c] = "Delete.del"
    /\ Goto(c, "done")
    /\ UNCHANGED <<pgVars, redisVars, flight, req, val, err, cancelled>>

(* rdb.Del; its failure is not the caller's. *)
DeleteDel(c) ==
    /\ pc[c] = "Delete.del"
    /\ RedisWrite(c, None)
    /\ Goto(c, "done")
    /\ UNCHANGED <<pgVars, flight, req, val, err, cancelled>>

Delete(c) == DeleteDelete(c) \/ DeleteAvailable(c) \/ DeleteDel(c)
-----------------------------------------------------------------------------
(* The environment *)

(* The client of the request disconnects. *)
Cancel(x) ==
    /\ x \in Contexts \ cancelled
    /\ cancelled' = cancelled \cup {x}
    /\ UNCHANGED <<pgVars, redisVars, flight, callVars>>

(* redisCooldown has passed. *)
BreakerCloses ==
    /\ breaker = "open"
    /\ breaker' = "cooled"
    /\ UNCHANGED <<pgVars, redis, redisLate, redisFaults, flight, callVars, cancelled>>

(* The wall clock is set back to before downUntil; zero is before any clock. *)
BreakerReopens ==
    /\ breaker = "cooled"
    /\ breaker' = "open"
    /\ UNCHANGED <<pgVars, redis, redisLate, redisFaults, flight, callVars, cancelled>>

(* The time to live of an entry ends. *)
RedisExpire(a) ==
    /\ redis[a] # None
    /\ redis' = [redis EXCEPT ![a] = None]
    /\ UNCHANGED <<pgVars, redisLate, redisFaults, breaker, flight, callVars, cancelled>>

RedisLateWrite(w) ==
    /\ w \in redisLate
    /\ redis' = [redis EXCEPT ![w.alias] = w.url]
    /\ redisLate' = redisLate \ {w}
    /\ UNCHANGED <<pgVars, redisFaults, breaker, flight, callVars, cancelled>>

PgLate(st) ==
    /\ LateStatement(st)
    /\ UNCHANGED <<redisVars, flight, callVars, cancelled>>

Step(c) == Save(c) \/ Get(c) \/ Delete(c)

Environment ==
    \/ \E x \in Contexts : Cancel(x)
    \/ BreakerCloses \/ BreakerReopens
    \/ \E a \in Aliases : RedisExpire(a)
    \/ \E w \in redisLate : RedisLateWrite(w)
    \/ \E st \in dbLate : PgLate(st)

Next ==
    \/ \E c \in Calls, r \in Requests : Begin(c, r)
    \/ \E c \in Calls : Step(c)
    \/ Environment

Spec == Init /\ [][Next]_vars

(***************************************************************************)
(* Fairness: a call that can take its next step takes it.  Every query     *)
(* ends within defaultQueryTimeout and every Redis command within the read *)
(* and write timeouts of the client, with an answer or an error.           *)
(***************************************************************************)
Fairness == \A c \in Calls : WF_vars(Step(c))

FairSpec == Spec /\ Fairness
-----------------------------------------------------------------------------
(* The properties *)

(* A URL is in hand exactly when a Get has got one and no error beside it. *)
CallOK(c) ==
    /\ pc[c] = "idle" => req[c] = NoRequest /\ err[c] = "nil"
    /\ pc[c] # "idle" => req[c] # NoRequest
    /\ pc[c] \in SavePCs => req[c].m = "Save"
    /\ pc[c] \in GetPCs => req[c].m = "Get"
    /\ pc[c] \in DeletePCs => req[c].m = "Delete"
    /\ pc[c] \in (SavePCs \cup DeletePCs) => err[c] = "nil"
    /\ val[c] # None => req[c].m = "Get" /\ err[c] = "nil"
    /\ pc[c] \in {"Get.fillAvailable", "Get.fill"} => val[c] # None
    /\ pc[c] \in {"Get.return", "done"} /\ req[c].m = "Get" /\ err[c] = "nil"
            => val[c] # None

(* The types of the variables, and the pairing of results of every call. *)
TypeOK ==
    /\ PgTypeOK
    /\ redis \in [Aliases -> URLs \cup {None}]
    /\ redisLate \subseteq Writes
    /\ redisFaults \in 0 .. MaxRedisFaults
    /\ breaker \in {"open", "closed", "cooled"}
    /\ flight \in [Aliases -> Calls \cup {NoCall}]
    /\ pc \in [Calls -> PCs]
    /\ req \in [Calls -> Requests \cup {NoRequest}]
    /\ val \in [Calls -> URLs \cup {None}]
    /\ err \in [Calls -> Errors]
    /\ cancelled \subseteq Contexts
    /\ \A c \in Calls : CallOK(c)

(* Save s was for url under alias, and its row may have reached the table. *)
MayHaveSaved(s, alias, url) ==
    /\ req[s] = [m |-> "Save", alias |-> alias, url |-> url]
    /\ pc[s] # "Save.insert"
    /\ err[s] # "ErrURLExist"

(* The Saves on alias whose insert was acknowledged. *)
Acknowledged(alias) ==
    {s \in Calls : /\ req[s].m = "Save"
                   /\ req[s].alias = alias
                   /\ pc[s] # "Save.insert"
                   /\ err[s] = "nil"}

(* The Deletes on alias that removed its row or may have done so. *)
MayHaveDeleted(alias) ==
    {d \in Calls : /\ req[d].m = "Delete"
                   /\ req[d].alias = alias
                   /\ pc[d] # "Delete.delete"
                   /\ err[d] # "ErrURLNotFound"}

(***************************************************************************)
(* A cached or returned URL is one that some Save stored under that very   *)
(* alias: no flight, late write or fill ever crosses aliases, and the URL  *)
(* of a Save refused with ErrURLExist never becomes visible.               *)
(***************************************************************************)
Provenance ==
    /\ \A a \in Aliases :
        redis[a] # None => \E s \in Calls : MayHaveSaved(s, a, redis[a])
    /\ \A c \in Calls :
        val[c] # None => \E s \in Calls : MayHaveSaved(s, req[c].alias, val[c])

(***************************************************************************)
(* Of the Saves on one alias at most one more succeeds than there were     *)
(* Deletes that may have freed it, however they interleave, fail, or are   *)
(* executed by the server after their client gave up.                      *)
(***************************************************************************)
ExclusiveCreate ==
    \A a \in Aliases :
        Cardinality(Acknowledged(a)) <= 1 + Cardinality(MayHaveDeleted(a))

(***************************************************************************)
(* While no Delete can have touched an alias the cache never disagrees     *)
(* with the table on it, and neither does an answer already given: a stale *)
(* entry takes a Delete.                                                   *)
(***************************************************************************)
CoherentUntilDeleted ==
    \A a \in Aliases : MayHaveDeleted(a) = {} =>
        /\ redis[a] \in {None, db[a]}
        /\ \A c \in Calls : req[c].alias = a => val[c] \in {None, db[a]}

(***************************************************************************)
(* singleflight: one call per alias queries the storage, it is the one the *)
(* group knows, and nobody waits for a flight that is not there.           *)
(***************************************************************************)
SingleFlight ==
    /\ \A c \in Calls :
        pc[c] \in FlightPCs => flight[req[c].alias] = c
    /\ \A c \in Calls :
        pc[c] = "Get.wait" => /\ flight[req[c].alias] \in Calls
                              /\ pc[flight[req[c].alias]] \in FlightPCs

(* The call c has come as far as its first Redis command, or past it. *)
PastRedis(c) ==
    \/ req[c].m = "Get" /\ pc[c] \notin {"Get.available", "Get.redis"}
    \/ req[c].m # "Get" /\ pc[c] = "done" /\ err[c] = "nil"

(***************************************************************************)
(* The breaker leaves its zero value for a failed command only, and a miss *)
(* (redis.Nil) is none: either a command failed on the wire, or one ran    *)
(* under the done context of a call that had got as far as Redis.  Until   *)
(* then Redis is used whatever the clock does.                             *)
(***************************************************************************)
BreakerJustified ==
    breaker # "closed" => redisFaults > 0 \/ \E c \in Calls : CtxDone(c) /\ PastRedis(c)

(***************************************************************************)
(* Redis never fails a call: an error other than the two domain errors     *)
(* comes from a failed query, from the call's own context, or, for a Get,  *)
(* from the context of a Get on the same alias whose flight it joined.     *)
(***************************************************************************)
ErrorsExplained ==
    \A c \in Calls :
        /\ err[c] = "storage" => dbFaults > 0
        /\ err[c] = "context" =>
            \/ CtxDone(c)
            \/ /\ req[c].m = "Get"
               /\ \E d \in Calls : /\ req[d].m = "Get"
                                    /\ req[d].alias = req[c].alias
                                    /\ CtxDone(d)

(* Every call returns, the ones that wait for another call's flight too. *)
CallsTerminate ==
    \A c \in Calls : pc[c] # "idle" ~> pc[c] = "done"

(***************************************************************************)
(* When every call on an alias has returned, the last word was a Delete,   *)
(* and nothing failed or was cancelled meanwhile, the entry is gone from   *)
(* Redis as well as from the table.                                        *)
(***************************************************************************)
DeletedFromCache ==
    \A a \in Aliases :
        /\ cancelled = {} /\ redisFaults = 0 /\ dbFaults = 0
        /\ \A c \in Calls : req[c].alias = a => pc[c] = "done"
        /\ db[a] = None
        => redis[a] = None

(* The breaker is open only because Redis failed. *)
BreakerTracksRedis ==
    breaker = "open" => redisFaults > 0
-----------------------------------------------------------------------------
(* The inductive strengthenings the proofs of RedisCacheProofs use *)

(* The group and the calls agree on who leads which flight. *)
FlightInv ==
    /\ \A c \in Calls : pc[c] \in FlightPCs => flight[req[c].alias] = c
    /\ \A a \in Aliases : flight[a] # NoCall => /\ pc[flight[a]] \in FlightPCs
                                                /\ req[flight[a]].alias = a
    /\ \A c \in Calls : pc[c] = "Get.wait" => flight[req[c].alias] # NoCall

(* A statement the server still holds is the only one of a call that has failed. *)
LateInv ==
    /\ \A st \in dbLate :
        /\ pc[st.by] = "done"
        /\ st.url = None => st.by \in MayHaveDeleted(st.alias)
        /\ st.url # None => MayHaveSaved(st.by, st.alias, st.url)
    /\ \A s1, s2 \in dbLate : s1.by = s2.by => s1 = s2

(* Rows and late writes come from Saves, as entries and answers do. *)
ProvenanceInv ==
    /\ Provenance
    /\ \A a \in Aliases : db[a] # None => \E s \in Calls : MayHaveSaved(s, a, db[a])
    /\ \A w \in redisLate : w.url # None => \E s \in Calls : MayHaveSaved(s, w.alias, w.url)

(* What is still on its way to the cache agrees with the table too. *)
CoherenceInv ==
    \A a \in Aliases : MayHaveDeleted(a) = {} =>
        /\ redis[a] \in {None, db[a]}
        /\ \A c \in Calls : req[c].alias = a => val[c] \in {None, db[a]}
        /\ \A w \in redisLate : w.alias = a => w.url \in {None, db[a]}
        /\ \A s \in Calls :
            pc[s] \in {"Save.available", "Save.set"} /\ req[s].alias = a => req[s].url = db[a]

(* The Deletes on alias that the server does not still hold. *)
Executed(alias) == MayHaveDeleted(alias) \ {st.by : st \in dbLate}

(* Every acknowledged Save is in the table or was removed by a Delete of its own. *)
CreateInv ==
    \A a \in Aliases :
        Cardinality(Acknowledged(a))
            <= Cardinality(Executed(a)) + (IF db[a] = None THEN 0 ELSE 1)
=============================================================================
