------------------------ MODULE CacheStalenessProofs ------------------------
(***************************************************************************)
(* The proof that every stale entry is explained, for any number of calls, *)
(* aliases and URLs and any number of failures.                            *)
(***************************************************************************)
EXTENDS CacheStaleness, RedisCacheProofs

(* Once a call has the URL it stores, neither its request nor that URL changes. *)
LEMMA URLStays ==
    ASSUME TypeOK, [Next]_vars, NEW c \in Calls, pc[c] \in SetPCs \cup {"Get.return", "done"}
    PROVE  /\ req'[c] = req[c]
           /\ SetsURL(c)' = SetsURL(c)
           /\ pc'[c] \in SetPCs \cup {"Get.return", "done"}
           /\ pc[c] \in {"Get.return", "done"} => pc'[c] \in {"Get.return", "done"}
<1> DEFINE Stays == /\ val'[c] = val[c]
                    /\ pc'[c] \in SetPCs \cup {"Get.return", "done"}
                    /\ pc[c] \in {"Get.return", "done"} => pc'[c] \in {"Get.return", "done"}
<1>1. req'[c] = req[c]
  BY NextCallStep DEF CallStep, SetPCs
<1>2. ASSUME NEW d \in Calls, NEW r \in Requests, Begin(d, r) PROVE Stays
  BY <1>2 DEF Begin, Goto, TypeOK, SetPCs
<1>3. ASSUME NEW d \in Calls, SaveInsert(d) \/ SaveAvailable(d) \/ SaveSet(d) PROVE Stays
  BY <1>3 DEF SaveInsert, SaveAvailable, SaveSet, CheckAvailable, Goto, TypeOK, SetPCs
<1>4. ASSUME NEW d \in Calls, DeleteDelete(d) \/ DeleteAvailable(d) \/ DeleteDel(d) PROVE Stays
  BY <1>4 DEF DeleteDelete, DeleteAvailable, DeleteDel, CheckAvailable, Goto, TypeOK, SetPCs
<1>5. ASSUME NEW d \in Calls, GetAvailable(d) \/ GetDo(d) \/ GetFillAvailable(d) \/ GetFill(d) PROVE Stays
  BY <1>5 DEF GetAvailable, GetDo, GetFillAvailable, GetFill, CheckAvailable, Goto, TypeOK, SetPCs
<1>6. ASSUME NEW d \in Calls, GetRedis(d) PROVE Stays
  BY <1>6 DEF GetRedis, GetHit, GetMiss, GetUnavailable, FallBack, Return, Goto, TypeOK, SetPCs
<1>7. ASSUME NEW d \in Calls, GetSelect(d) PROVE Stays
  BY <1>7 DEF GetSelect, Goto, TypeOK, SetPCs
<1>8. ASSUME NEW d \in Calls, GetReturn(d) PROVE Stays
  BY <1>8 DEF GetReturn, Waiters, TypeOK, SetPCs
<1>9. ASSUME Environment \/ UNCHANGED vars PROVE Stays
  BY <1>9 DEF Environment, Cancel, BreakerCloses, BreakerReopens, RedisExpire, RedisLateWrite, PgLate,
     callVars, vars
<1>10. Stays
  <2> HIDE DEF Stays
  <2> QED
    BY <1>2, <1>3, <1>4, <1>5, <1>6, <1>7, <1>8, <1>9 DEF Next, Step, Save, Get, Delete
<1> QED
  BY <1>1, <1>10 DEF SetsURL

(* A call that gets a URL to store has just read it from the table, or written it there. *)
LEMMA SetFromRow ==
    ASSUME TypeOK, [Next]_vars, NEW c \in Calls, pc'[c] \in SetPCs, pc[c] \notin SetPCs
    PROVE  SetsURL(c)' = db'[req'[c].alias]
<1>1. ASSUME NEW d \in Calls, SaveInsert(d) PROVE SetsURL(c)' = db'[req'[c].alias]
  <2>1. req[d].alias \in Aliases /\ req[d].m = "Save" /\ req' = req
    BY <1>1, ActiveRequest, RequestFields DEF SaveInsert, TypeOK, CallOK, SavePCs
  <2>2. PICK e \in Errors : PgSave(d, CtxDone(d), req[d].url, req[d].alias, e) /\ Goto(d, AfterInsert(e))
    BY <1>1 DEF SaveInsert
  <2>3. c = d /\ e = "nil"
    BY <2>2 DEF Goto, AfterInsert, TypeOK, SetPCs
  <2>4. db'[req[d].alias] = req[d].url
    BY <2>1, <2>2, <2>3 DEF PgSave, WriteAbandoned, QueryFails, Insert, TableAfter, TypeOK, PgTypeOK
  <2> QED
    BY <2>1, <2>3, <2>4 DEF SetsURL
<1>2. ASSUME NEW d \in Calls, GetSelect(d) PROVE SetsURL(c)' = db'[req'[c].alias]
  <2>1. req[d].m = "Get" /\ req' = req
    BY <1>2 DEF GetSelect, TypeOK, CallOK, GetPCs, FlightPCs
  <2>2. PICK v \in URLs \cup {None}, e \in Errors :
            /\ PgGet(CtxDone(d), req[d].alias, v, e)
            /\ val' = [val EXCEPT ![d] = v]
            /\ Goto(d, IF e = "nil" THEN "Get.fillAvailable" ELSE "Get.return")
    BY <1>2 DEF GetSelect
  <2>3. c = d /\ e = "nil"
    BY <2>2 DEF Goto, TypeOK, SetPCs
  <2>4. v = db'[req[d].alias]
    BY <2>2, <2>3 DEF PgGet, QueryFails, pgVars
  <2> QED
    BY <2>1, <2>2, <2>3, <2>4 DEF SetsURL, TypeOK
<1>3. ASSUME NEW d \in Calls, Step(d), ~SaveInsert(d), ~GetSelect(d) PROVE FALSE
  <2>1. CASE SaveAvailable(d) \/ SaveSet(d)
    BY <2>1 DEF SaveAvailable, SaveSet, CheckAvailable, Goto, TypeOK, SetPCs
  <2>2. CASE DeleteDelete(d) \/ DeleteAvailable(d) \/ DeleteDel(d)
    BY <2>2 DEF DeleteDelete, DeleteAvailable, DeleteDel, CheckAvailable, Goto, TypeOK, SetPCs
  <2>3. CASE GetAvailable(d) \/ GetDo(d) \/ GetFillAvailable(d) \/ GetFill(d)
    BY <2>3 DEF GetAvailable, GetDo, GetFillAvailable, GetFill, CheckAvailable, Goto, TypeOK, SetPCs
  <2>4. CASE GetRedis(d)
    BY <2>4 DEF GetRedis, GetHit, GetMiss, GetUnavailable, FallBack, Return, Goto, TypeOK, SetPCs
  <2>5. CASE GetReturn(d)
    BY <2>5 DEF GetReturn, SetPCs
  <2> QED
    BY <1>3, <2>1, <2>2, <2>3, <2>4, <2>5 DEF Step, Save, Get, Delete
<1>4. ASSUME NEW d \in Calls, NEW r \in Requests, Begin(d, r) PROVE FALSE
  <2>1. FirstPC(r.m) \notin SetPCs
    BY RequestFields DEF FirstPC, SetPCs
  <2> QED
    BY <1>4, <2>1 DEF Begin, Goto, TypeOK
<1>5. ASSUME Environment \/ UNCHANGED vars PROVE FALSE
  BY <1>5 DEF Environment, Cancel, BreakerCloses, BreakerReopens, RedisExpire, RedisLateWrite, PgLate,
     callVars, vars
<1> QED
  BY <1>1, <1>2, <1>3, <1>4, <1>5 DEF Next
-----------------------------------------------------------------------------
(***************************************************************************)
(* What a step can do to Redis: execute the SET of a call, the DEL of a    *)
(* Delete, a command it still held, or let an entry expire.  None of them  *)
(* touches the table.                                                      *)
(***************************************************************************)
SetStep(c) ==
    /\ pc[c] \in {"Save.set", "Get.fill"}
    /\ pc'[c] \in {"Get.return", "done"}
    /\ db' = db
    /\ RedisWrite(c, SetsURL(c))

LEMMA RedisStep ==
    ASSUME TypeOK, [Next]_vars
    PROVE  \/ \E c \in Calls : SetStep(c)
           \/ \E c \in Calls : DeleteDel(c)
           \/ \E w \in redisLate : RedisLateWrite(w)
           \/ \E a \in Aliases : RedisExpire(a)
           \/ redis' = redis /\ redisLate' = redisLate
<1>1. ASSUME NEW c \in Calls, SaveSet(c) PROVE SetStep(c)
  BY <1>1 DEF SaveSet, SetStep, SetsURL, Goto, TypeOK, CallOK, SavePCs, pgVars
<1>2. ASSUME NEW c \in Calls, GetFill(c) PROVE SetStep(c)
  BY <1>2 DEF GetFill, SetStep, SetsURL, Goto, TypeOK, CallOK, GetPCs, FlightPCs, pgVars
<1>3. ASSUME NEW c \in Calls, Step(c), ~SaveSet(c), ~GetFill(c), ~DeleteDel(c)
      PROVE  redis' = redis /\ redisLate' = redisLate
  BY <1>3 DEF Step, Save, SaveInsert, SaveAvailable, Get, GetAvailable, GetRedis, GetHit, GetMiss,
     GetUnavailable, GetDo, GetSelect, GetFillAvailable, GetReturn, Delete, DeleteDelete,
     DeleteAvailable, CheckAvailable, redisVars
<1> QED
  BY <1>1, <1>2, <1>3 DEF Next, Begin, Environment, Cancel, BreakerCloses, BreakerReopens, PgLate,
     redisVars, vars

(* A Delete whose DEL is acknowledged leaves no entry, and has returned without error. *)
LEMMA ClearStep ==
    ASSUME TypeOK, [Next]_vars, NEW d \in Calls, DelAnswered(d)
    PROVE  /\ redis'[req[d].alias] = None
           /\ req'[d] = req[d] /\ req[d].m = "Delete" /\ err'[d] = "nil" /\ pc'[d] = "done"
<1>1. req[d] \in Requests /\ req[d].alias \in Aliases /\ req[d].m = "Delete" /\ err[d] = "nil"
  BY ActiveRequest, RequestFields DEF DelAnswered, TypeOK, CallOK, DeletePCs
<1>2. ASSUME NEW c \in Calls, Step(c), ~DeleteDel(c) \/ c # d PROVE pc'[d] = pc[d]
  <2>1. CASE Save(c)
    BY <2>1 DEF DelAnswered, Save, SaveInsert, SaveAvailable, SaveSet, CheckAvailable, Goto, TypeOK
  <2>2. CASE Delete(c)
    BY <1>2, <2>2 DEF DelAnswered, Delete, DeleteDelete, DeleteAvailable, DeleteDel, CheckAvailable, Goto,
       TypeOK
  <2>3. CASE GetAvailable(c) \/ GetDo(c) \/ GetFillAvailable(c) \/ GetFill(c) \/ GetSelect(c)
    BY <2>3 DEF DelAnswered, GetAvailable, GetDo, GetFillAvailable, GetFill, GetSelect, CheckAvailable,
       Goto, TypeOK
  <2>4. CASE GetRedis(c)
    BY <2>4 DEF DelAnswered, GetRedis, GetHit, GetMiss, GetUnavailable, FallBack, Return, Goto, TypeOK
  <2>5. CASE GetReturn(c)
    BY <2>5 DEF DelAnswered, GetReturn, Waiters
  <2> QED
    BY <1>2, <2>1, <2>2, <2>3, <2>4, <2>5 DEF Step, Get
<1>3. ASSUME Environment \/ UNCHANGED vars PROVE pc' = pc
  BY <1>3 DEF Environment, Cancel, BreakerCloses, BreakerReopens, RedisExpire, RedisLateWrite, PgLate,
     callVars, vars
<1>4. ASSUME NEW c \in Calls, NEW r \in Requests, Begin(c, r) PROVE pc'[d] = pc[d]
  BY <1>4 DEF DelAnswered, Begin, Goto, TypeOK
<1>5. DeleteDel(d)
  BY <1>2, <1>3, <1>4 DEF DelAnswered, Next
<1>6. redis'[req[d].alias] = None
  BY <1>1, <1>5 DEF DeleteDel, RedisWrite, RedisFault, MarkRedisDown, DelAnswered, TypeOK
<1> QED
  BY <1>1, <1>5, <1>6 DEF DeleteDel, DelAnswered
-----------------------------------------------------------------------------
(* A row disappears for a Delete whose DEL has not been acknowledged. *)
LEMMA RowGoes ==
    ASSUME TypeOK, LateInv, ObservedInv, [Next]_vars, Observe, NEW a \in Aliases,
           db'[a] # db[a], db[a] # None
    PROVE  /\ db'[a] = None
           /\ MayHaveDeleted(a)' \ cleared' # {}
<1>1. ASSUME NEW c \in Calls, SaveInsert(c) PROVE FALSE
  <2>1. req[c].url \in URLs
    BY <1>1, ActiveRequest, RequestFields DEF SaveInsert, TypeOK, CallOK, SavePCs
  <2> QED
    BY <1>1, <2>1, PgAssumption DEF PgAssumption, SaveInsert, PgSave, WriteAbandoned, TableAfter,
       Affects, Insert, TypeOK, PgTypeOK
<1>2. ASSUME NEW c \in Calls, DeleteDelete(c)
      PROVE  db'[a] = None /\ c \in MayHaveDeleted(a)' /\ c \notin cleared'
  <2>1. req[c].m = "Delete" /\ pc[c] = "Delete.delete" /\ req' = req
    BY <1>2 DEF DeleteDelete, TypeOK, CallOK, DeletePCs
  <2>2. /\ a = req[c].alias /\ db'[a] = None
        /\ err'[c] = "nil" /\ pc'[c] = "Delete.available"
    BY <1>2, <2>1 DEF DeleteDelete, PgDelete, WriteAbandoned, TableAfter,
       Affects, DeleteRow, Goto, TypeOK, PgTypeOK
  <2>3. c \notin cleared'
    BY <2>1 DEF Observe, ObservedInv, DelAnswered
  <2> QED
    BY <2>1, <2>2, <2>3 DEF MayHaveDeleted
<1>3. ASSUME NEW st \in dbLate, PgLate(st)
      PROVE  db'[a] = None /\ st.by \in MayHaveDeleted(a)' /\ st.by \notin cleared'
  <2>1. st.by \in Calls /\ a = st.alias /\ db'[a] = st.url /\ st.url = None
    BY <1>3 DEF PgLate, LateStatement, TableAfter, Affects, TypeOK, PgTypeOK, Statements
  <2>2. st.by \in MayHaveDeleted(a)'
    BY <2>1, DeletedStable DEF LateInv
  <2>3. st.by \notin cleared'
    BY <2>1 DEF Observe, ObservedInv, DelAnswered, LateInv
  <2> QED
    BY <2>1, <2>2, <2>3
<1> QED
  BY <1>1, <1>2, <1>3, QuietTable

(* The URL a call stores is a URL, and it is a Save or a Get that stores one. *)
LEMMA SetsSomething ==
    ASSUME TypeOK, NEW c \in Calls
    PROVE  /\ pc[c] \in SetPCs => /\ SetsURL(c) # None /\ req[c].m \in {"Save", "Get"}
                                  /\ req[c].alias \in Aliases
           /\ SetsURL(c) # None /\ pc[c] # "idle" => /\ req[c].m \in {"Save", "Get"}
                                                     /\ req[c].alias \in Aliases
<1>1. pc[c] # "idle" => req[c] \in Requests /\ req[c].alias \in Aliases
  BY ActiveRequest, RequestFields
<1>2. req[c] \in Requests /\ req[c].m = "Save" => req[c].url \in URLs
  BY RequestFields
<1>3. CASE pc[c] \in {"Save.available", "Save.set"}
  BY <1>1, <1>2, <1>3, PgAssumption DEF PgAssumption, SetsURL, SetPCs, TypeOK, CallOK, SavePCs
<1>4. CASE pc[c] \in {"Get.fillAvailable", "Get.fill"}
  BY <1>1, <1>4 DEF SetsURL, SetPCs, TypeOK, CallOK, GetPCs, FlightPCs
<1>5. SetsURL(c) # None => req[c].m \in {"Save", "Get"}
  BY DEF SetsURL, TypeOK, CallOK
<1> QED
  BY <1>1, <1>3, <1>4, <1>5 DEF SetPCs

LEMMA NextExplained ==
    ASSUME TypeOK, LateInv, StaleInv, [Next]_vars, Observe
    PROVE  StaleExplained'
<1> SUFFICES ASSUME NEW a \in Aliases, redis'[a] # None, redis'[a] # db'[a]
             PROVE  \/ MayHaveDeleted(a)' \ cleared' # {}
                    \/ \E c \in stray' : req'[c].alias = a /\ SetsURL(c)' = redis'[a]
  BY DEF StaleExplained
<1>1. ASSUME NEW c \in stray
      PROVE  c \in stray' /\ req'[c] = req[c] /\ SetsURL(c)' = SetsURL(c)
  BY <1>1, URLStays DEF StaleInv, ObservedInv, Observe
<1>2. CASE redis'[a] = redis[a] /\ redis[a] # db[a]
  <2>1. ASSUME NEW d \in MayHaveDeleted(a) \ cleared PROVE d \in MayHaveDeleted(a)' \ cleared'
    <3>1. d \in Calls /\ req[d].alias = a
      BY DEF MayHaveDeleted
    <3>2. ~DelAnswered(d)
      BY <3>1, ClearStep
    <3> QED
      BY <3>1, <3>2, DeletedStable DEF Observe
  <2> QED
    BY <1>1, <1>2, <2>1 DEF StaleInv, StaleExplained
<1>3. CASE redis'[a] = redis[a] /\ redis[a] = db[a]
  BY <1>3, RowGoes DEF StaleInv
<1>4. ASSUME NEW c \in Calls, SetStep(c), redis'[a] # redis[a]
      PROVE  c \in stray /\ req[c].alias = a /\ SetsURL(c) = redis'[a]
  <2>1. req[c].alias = a /\ redis'[a] = SetsURL(c)
    BY <1>4 DEF SetStep, RedisWrite, TypeOK
  <2> QED
    BY <1>4, <2>1 DEF SetStep, SetPCs, StaleInv, InHandInv
<1>5. ASSUME NEW w \in redisLate, RedisLateWrite(w), redis'[a] # redis[a]
      PROVE  w.by \in stray /\ req[w.by].alias = a /\ SetsURL(w.by) = redis'[a]
  <2>1. w.alias = a /\ redis'[a] = w.url /\ db' = db
    BY <1>5 DEF RedisLateWrite, TypeOK, pgVars
  <2> QED
    BY <2>1 DEF StaleInv, HeldInv
<1>6. ASSUME NEW c \in Calls, DeleteDel(c) PROVE redis'[a] = redis[a]
  BY <1>6 DEF DeleteDel, RedisWrite, TypeOK
<1>7. ASSUME NEW b \in Aliases, RedisExpire(b) PROVE redis'[a] = redis[a]
  BY <1>7 DEF RedisExpire, TypeOK
<1> QED
  BY <1>1, <1>2, <1>3, <1>4, <1>5, <1>6, <1>7, RedisStep

LEMMA NextInHand ==
    ASSUME TypeOK, LateInv, StaleInv, [Next]_vars, Observe
    PROVE  InHandInv'
<1> SUFFICES ASSUME NEW c \in Calls, pc'[c] \in SetPCs
             PROVE  SetsURL(c)' = db'[req'[c].alias] \/ c \in stray'
  BY DEF InHandInv, SetPCs
<1>1. CASE pc[c] \notin SetPCs
  BY <1>1, SetFromRow
<1>2. CASE pc[c] \in SetPCs
  <2>1. /\ req'[c] = req[c] /\ SetsURL(c)' = SetsURL(c)
        /\ SetsURL(c) # None /\ req[c].alias \in Aliases
    BY <1>2, URLStays, SetsSomething
  <2>2. CASE c \in stray
    BY <2>2 DEF Observe
  <2>3. CASE SetsURL(c) = db[req[c].alias] /\ db'[req[c].alias] # db[req[c].alias]
    <3>1. db'[req[c].alias] = None
      BY <2>1, <2>3, RowGoes DEF StaleInv
    <3> QED
      BY <1>2, <2>1, <2>3, <3>1 DEF Observe, SetAhead
  <2> QED
    BY <1>2, <2>1, <2>2, <2>3 DEF StaleInv, InHandInv
<1> QED
  BY <1>1, <1>2

LEMMA NextHeld ==
    ASSUME TypeOK, LateInv, StaleInv, [Next]_vars, Observe
    PROVE  HeldInv'
<1> SUFFICES ASSUME NEW w \in redisLate', w.url # None
             PROVE  /\ w.alias = req'[w.by].alias
                    /\ w.url = SetsURL(w.by)'
                    /\ pc'[w.by] \in {"Get.return", "done"}
                    /\ w.url = db'[w.alias] \/ w.by \in stray'
  BY DEF HeldInv
<1>1. CASE w \in redisLate
  <2>1. w.by \in Calls /\ w.alias \in Aliases
    BY <1>1 DEF TypeOK, Writes
  <2>2. /\ w.alias = req[w.by].alias /\ w.url = SetsURL(w.by)
        /\ pc[w.by] \in {"Get.return", "done"}
        /\ w.url = db[w.alias] \/ w.by \in stray
    BY <1>1 DEF StaleInv, HeldInv
  <2>3. /\ req'[w.by] = req[w.by] /\ SetsURL(w.by)' = SetsURL(w.by)
        /\ pc'[w.by] \in {"Get.return", "done"}
    BY <2>1, <2>2, URLStays
  <2>4. w.url = db'[w.alias] \/ w.by \in stray'
    <3>1. CASE w.by \in stray
      BY <3>1 DEF Observe
    <3>2. CASE w.url = db[w.alias] /\ db'[w.alias] # db[w.alias]
      <4>1. db'[w.alias] = None
        BY <2>1, <3>2, RowGoes DEF StaleInv
      <4> QED
        BY <1>1, <2>1, <2>2, <3>2, <4>1 DEF Observe, SetAhead
    <3> QED
      BY <2>2, <3>1, <3>2
  <2> QED
    BY <2>2, <2>3, <2>4
<1>2. CASE w \notin redisLate
  <2>1. ASSUME NEW c \in Calls, DeleteDel(c) PROVE FALSE
    BY <1>2, <2>1 DEF DeleteDel, RedisWrite
  <2>2. ASSUME NEW c \in Calls, SetStep(c)
        PROVE  w.by = c /\ w.alias = req[c].alias /\ w.url = SetsURL(c)
    BY <1>2, <2>2 DEF SetStep, RedisWrite
  <2>3. PICK c \in Calls : SetStep(c)
    BY <1>2, <2>1, RedisStep DEF RedisLateWrite, RedisExpire
  <2>4. pc[c] \in SetPCs /\ pc'[c] \in {"Get.return", "done"} /\ db' = db
    BY <2>3 DEF SetStep, SetPCs
  <2>5. req'[c] = req[c] /\ SetsURL(c)' = SetsURL(c)
    BY <2>4, URLStays
  <2>6. SetsURL(c) = db[req[c].alias] \/ c \in stray
    BY <2>4 DEF StaleInv, InHandInv
  <2> QED
    BY <2>2, <2>3, <2>4, <2>5, <2>6 DEF Observe
<1> QED
  BY <1>1, <1>2

LEMMA NextObserved ==
    ASSUME TypeOK, LateInv, StaleInv, [Next]_vars, Observe
    PROVE  ObservedInv'
<1>1. ASSUME NEW c \in stray'
      PROVE  /\ c \in Calls
             /\ req'[c].m \in {"Save", "Get"}
             /\ pc'[c] \in SetPCs \cup {"Get.return", "done"}
  <2>1. /\ c \in Calls /\ req[c].m \in {"Save", "Get"}
        /\ pc[c] \in SetPCs \cup {"Get.return", "done"}
    <3>1. CASE c \in stray
      BY <3>1 DEF StaleInv, ObservedInv
    <3>2. CASE c \in Calls /\ pc[c] \in SetPCs
      BY <3>2, SetsSomething
    <3>3. ASSUME c \in Calls, NEW w \in redisLate, w.by = c, w.url # None
          PROVE  req[c].m \in {"Save", "Get"} /\ pc[c] \in {"Get.return", "done"}
      BY <3>3, SetsSomething DEF StaleInv, HeldInv
    <3> QED
      BY <1>1, <3>1, <3>2, <3>3 DEF Observe, SetAhead
  <2> QED
    BY <2>1, URLStays
<1>2. ASSUME NEW d \in cleared'
      PROVE  d \in Calls /\ pc'[d] = "done" /\ req'[d].m = "Delete" /\ err'[d] = "nil"
  <2>1. CASE d \in cleared
    <3>1. d \in Calls /\ pc[d] = "done" /\ req[d].m = "Delete" /\ err[d] = "nil"
      BY <2>1 DEF StaleInv, ObservedInv
    <3>2. CallStep(d) /\ ~SaveInsert(d) /\ ~DeleteDelete(d)
      BY <3>1, NextCallStep DEF SaveInsert, DeleteDelete
    <3> QED
      BY <3>1, <3>2 DEF CallStep
  <2>2. CASE d \in Calls /\ DelAnswered(d)
    BY <2>2, ClearStep
  <2> QED
    BY <1>2, <2>1, <2>2 DEF Observe
<1>3. ASSUME NEW st \in dbLate' PROVE err'[st.by] # "nil"
  <2>1. CASE st \in dbLate
    <3>1. st.by \in Calls /\ pc[st.by] = "done" /\ err[st.by] # "nil"
      BY <2>1 DEF StaleInv, ObservedInv, LateInv, TypeOK, PgTypeOK, Statements
    <3>2. CallStep(st.by) /\ ~SaveInsert(st.by) /\ ~DeleteDelete(st.by)
      BY <3>1, NextCallStep DEF SaveInsert, DeleteDelete
    <3> QED
      BY <3>1, <3>2 DEF CallStep
  <2>2. ASSUME NEW c \in Calls, SaveInsert(c), st \notin dbLate PROVE err'[st.by] # "nil"
    BY <1>3, <2>2 DEF SaveInsert, PgSave, WriteAbandoned, QueryFails, Insert, TypeOK
  <2>3. ASSUME NEW c \in Calls, DeleteDelete(c), st \notin dbLate PROVE err'[st.by] # "nil"
    BY <1>3, <2>3 DEF DeleteDelete, PgDelete, WriteAbandoned, QueryFails, DeleteRow, TypeOK
  <2>4. CASE /\ \A c \in Calls : ~SaveInsert(c) /\ ~DeleteDelete(c)
             /\ st \notin dbLate
    BY <1>3, <2>4, QuietTable DEF PgLate, LateStatement
  <2> QED
    BY <2>1, <2>2, <2>3, <2>4
<1> QED
  BY <1>1, <1>2, <1>3 DEF ObservedInv
-----------------------------------------------------------------------------
(* A step with the histories is a step of the cache. *)
LEMMA StaleStep == TypeOK /\ LateInv /\ StaleInv /\ [StaleNext]_staleVars => StaleInv'
<1> SUFFICES ASSUME TypeOK, LateInv, StaleInv, [StaleNext]_staleVars PROVE StaleInv'
  OBVIOUS
<1>1. CASE StaleNext
  BY <1>1, NextExplained, NextInHand, NextHeld, NextObserved DEF StaleNext, StaleInv
<1>2. CASE UNCHANGED staleVars
  BY <1>2 DEF staleVars, vars, StaleInv, StaleExplained, InHandInv, HeldInv, ObservedInv, SetsURL,
     MayHaveDeleted
<1> QED
  BY <1>1, <1>2

(* The histories only observe: with them the cache takes the steps it takes without. *)
LEMMA StalenessObserves == StaleSpec => Spec
<1>1. StaleInit => Init
  BY DEF StaleInit
<1>2. [StaleNext]_staleVars => [Next]_vars
  BY DEF StaleNext, staleVars
<1> QED
  BY <1>1, <1>2, PTL DEF StaleSpec, Spec

(***************************************************************************)
(* Cache.Delete against concurrent Saves and Gets: an entry that is not    *)
(* the row is left by a Delete whose DEL was not acknowledged, or was put  *)
(* there by the SET of a Save or a Get that overlapped the removal of the  *)
(* row; nothing else makes the cache stale, whatever fails, comes late or  *)
(* is sent twice.                                                          *)
(***************************************************************************)
THEOREM StaleExplainedHolds == StaleSpec => []StaleExplained
<1>1. StaleInit => StaleInv
  BY DEF StaleInit, Init, PgInit, StaleInv, StaleExplained, InHandInv, HeldInv, ObservedInv, SetPCs
<1>2. StaleInv => StaleExplained
  BY DEF StaleInv
<1>3. StaleSpec => []TypeOK
  BY StalenessObserves, TypeCorrect, PTL
<1>4. StaleSpec => []LateInv
  BY <1>3, InitLate, NextLate, StalenessObserves, PTL DEF Spec
<1> QED
  BY <1>1, <1>2, <1>3, <1>4, StaleStep, PTL DEF StaleSpec
=============================================================================
