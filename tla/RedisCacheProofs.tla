-------------------------- MODULE RedisCacheProofs --------------------------
(***************************************************************************)
(* The safety properties of RedisCache, for any number of calls, aliases,  *)
(* URLs and contexts and any bound on failures.                            *)
(***************************************************************************)
EXTENDS RedisCache, FiniteSetTheorems, TLAPS

(* What the fields of a request can be. *)
LEMMA RequestFields ==
    ASSUME NEW r \in Requests
    PROVE  /\ r.m \in {"Save", "Get", "Delete"}
           /\ r.alias \in Aliases
           /\ r.url \in URLs \cup {None}
           /\ r.m = "Save" => r.url \in URLs
           /\ r # NoRequest
BY DEF Requests, NoRequest

(* The call that is not idle has a request. *)
LEMMA ActiveRequest ==
    ASSUME TypeOK, NEW c \in Calls, pc[c] # "idle"
    PROVE  req[c] \in Requests
BY DEF TypeOK, CallOK

(* Init establishes the types. *)
LEMMA InitTypeOK == Init => TypeOK
<1> SUFFICES ASSUME Init PROVE TypeOK
  OBVIOUS
<1> USE PgAssumption, CacheAssumption DEF PgAssumption, CacheAssumption
<1>1. PgTypeOK
  BY DEF Init, PgInit, PgTypeOK
<1>2. /\ redis \in [Aliases -> URLs \cup {None}]
      /\ redisLate \subseteq Writes
      /\ redisFaults \in 0 .. MaxRedisFaults
      /\ breaker \in {"open", "closed", "cooled"}
      /\ flight \in [Aliases -> Calls \cup {NoCall}]
      /\ cancelled \subseteq Contexts
  BY DEF Init
<1>3. /\ pc \in [Calls -> PCs]
      /\ req \in [Calls -> Requests \cup {NoRequest}]
      /\ val \in [Calls -> URLs \cup {None}]
      /\ err \in [Calls -> Errors]
  BY DEF Init, PCs, Errors
<1>4. ASSUME NEW c \in Calls
      PROVE  pc[c] = "idle" /\ req[c] = NoRequest /\ val[c] = None /\ err[c] = "nil"
  BY DEF Init
<1> QED
  BY <1>1, <1>2, <1>3, <1>4 DEF TypeOK, CallOK, NoRequest, SavePCs, GetPCs, DeletePCs, FlightPCs

(* A check of the breaker changes nothing but where its call goes on. *)
LEMMA CheckTypeOK ==
    ASSUME TypeOK, NEW c \in Calls,
           SaveAvailable(c) \/ GetAvailable(c) \/ GetFillAvailable(c) \/ DeleteAvailable(c)
    PROVE  TypeOK'
BY DEF TypeOK, CallOK, PgTypeOK, SaveAvailable, GetAvailable, GetFillAvailable, DeleteAvailable,
       CheckAvailable, RedisAvailable, Goto, pgVars, redisVars,
       PCs, SavePCs, GetPCs, FlightPCs, DeletePCs, Statements, Writes

(* The operations of the storage keep its types. *)
LEMMA PgSaveTypeOK ==
    ASSUME PgTypeOK, NEW c \in Calls, NEW a \in Aliases, NEW u \in URLs, NEW e, NEW done,
           PgSave(c, done, u, a, e)
    PROVE  PgTypeOK'
<1> USE PgAssumption DEF PgAssumption, PgTypeOK
<1>1. dbFaults' \in 0 .. MaxDBFaults
  BY DEF PgSave, WriteAbandoned, QueryFails
<1>2. db' \in [Aliases -> URLs \cup {None}]
  BY DEF PgSave, WriteAbandoned, Insert, TableAfter
<1>3. dbLate' \subseteq Statements
  BY DEF PgSave, WriteAbandoned, Insert, Statements
<1> QED
  BY <1>1, <1>2, <1>3

LEMMA PgDeleteTypeOK ==
    ASSUME PgTypeOK, NEW c \in Calls, NEW a \in Aliases, NEW e, NEW done,
           PgDelete(c, done, a, e)
    PROVE  PgTypeOK'
<1> USE PgAssumption DEF PgAssumption, PgTypeOK
<1>1. dbFaults' \in 0 .. MaxDBFaults
  BY DEF PgDelete, WriteAbandoned, QueryFails
<1>2. db' \in [Aliases -> URLs \cup {None}]
  BY DEF PgDelete, WriteAbandoned, DeleteRow, TableAfter
<1>3. dbLate' \subseteq Statements
  BY DEF PgDelete, WriteAbandoned, DeleteRow, Statements
<1> QED
  BY <1>1, <1>2, <1>3

LEMMA PgGetTypeOK ==
    ASSUME PgTypeOK, NEW a \in Aliases, NEW v, NEW e, NEW done, PgGet(done, a, v, e)
    PROVE  PgTypeOK' /\ v \in URLs \cup {None} /\ (e = "nil" <=> v # None)
BY PgAssumption DEF PgAssumption, PgTypeOK, PgGet, ScanError, QueryFails, pgVars

LEMMA LateStatementTypeOK ==
    ASSUME PgTypeOK, NEW st, LateStatement(st)
    PROVE  PgTypeOK'
BY DEF PgTypeOK, LateStatement, TableAfter, Statements

(* A Redis write keeps the types of what it touches. *)
LEMMA RedisWriteTypeOK ==
    ASSUME TypeOK, NEW c \in Calls, req[c].alias \in Aliases, NEW u \in URLs \cup {None},
           RedisWrite(c, u)
    PROVE  /\ redis' \in [Aliases -> URLs \cup {None}]
           /\ redisLate' \subseteq Writes
           /\ redisFaults' \in 0 .. MaxRedisFaults
           /\ breaker' \in {"open", "closed", "cooled"}
<1> USE CacheAssumption DEF CacheAssumption, TypeOK
<1>1. redis' \in [Aliases -> URLs \cup {None}]
  BY DEF RedisWrite
<1>2. redisLate' \subseteq Writes
  BY DEF RedisWrite, Writes
<1>3. redisFaults' \in 0 .. MaxRedisFaults
  BY DEF RedisWrite, RedisFault
<1>4. breaker' \in {"open", "closed", "cooled"}
  BY DEF RedisWrite, MarkRedisDown
<1> QED
  BY <1>1, <1>2, <1>3, <1>4

(* Every step keeps the types. *)
LEMMA NextTypeOK == TypeOK /\ [Next]_vars => TypeOK'
<1> SUFFICES ASSUME TypeOK, [Next]_vars PROVE TypeOK'
  OBVIOUS
<1> USE DEF Goto
<1>1. ASSUME NEW c \in Calls, NEW r \in Requests, Begin(c, r) PROVE TypeOK'
  <2>1. r.m \in {"Save", "Get", "Delete"} /\ r # NoRequest
    BY RequestFields
  <2>2. /\ FirstPC(r.m) \in PCs \ {"idle", "done"}
        /\ FirstPC(r.m) \in SavePCs => r.m = "Save"
        /\ FirstPC(r.m) \in GetPCs => r.m = "Get"
        /\ FirstPC(r.m) \in DeletePCs => r.m = "Delete"
        /\ FirstPC(r.m) \notin {"Get.fillAvailable", "Get.fill", "Get.return"}
    BY <2>1 DEF FirstPC, PCs, SavePCs, GetPCs, FlightPCs, DeletePCs
  <2>3. val[c] = None
    BY <1>1 DEF Begin, TypeOK, CallOK, NoRequest
  <2> QED
    BY <1>1, <2>1, <2>2, <2>3 DEF Begin, TypeOK, CallOK, PgTypeOK, pgVars, redisVars
<1>2. ASSUME NEW c \in Calls, SaveInsert(c) PROVE TypeOK'
  <2>1. req[c].alias \in Aliases /\ req[c].url \in URLs /\ req[c].m = "Save"
    BY <1>2, ActiveRequest, RequestFields DEF AfterInsert, SaveInsert, TypeOK, CallOK, SavePCs
  <2>2. PgTypeOK'
    BY <1>2, <2>1, PgSaveTypeOK DEF AfterInsert, SaveInsert, TypeOK
  <2> QED
    BY <1>2, <2>1, <2>2 DEF AfterInsert, SaveInsert, TypeOK, CallOK, redisVars,
       PCs, SavePCs, GetPCs, FlightPCs, DeletePCs
<1>3. ASSUME NEW c \in Calls, SaveSet(c) PROVE TypeOK'
  <2>1. req[c].alias \in Aliases /\ req[c].url \in URLs /\ req[c].m = "Save"
    BY <1>3, ActiveRequest, RequestFields DEF SaveSet, TypeOK, CallOK, SavePCs
  <2>2. /\ redis' \in [Aliases -> URLs \cup {None}]
        /\ redisLate' \subseteq Writes
        /\ redisFaults' \in 0 .. MaxRedisFaults
        /\ breaker' \in {"open", "closed", "cooled"}
    BY <1>3, <2>1, RedisWriteTypeOK DEF SaveSet
  <2> QED
    BY <1>3, <2>1, <2>2 DEF SaveSet, TypeOK, CallOK, PgTypeOK, pgVars,
       PCs, SavePCs, GetPCs, FlightPCs, DeletePCs
<1>4. ASSUME NEW c \in Calls, GetRedis(c) PROVE TypeOK'
  <2>1. req[c].alias \in Aliases /\ req[c].m = "Get"
    BY <1>4, ActiveRequest, RequestFields DEF GetRedis, TypeOK, CallOK, GetPCs
  <2>2. redisFaults' \in 0 .. MaxRedisFaults
    BY <1>4, CacheAssumption DEF CacheAssumption, GetRedis, GetHit, GetMiss, GetUnavailable, FallBack,
       RedisFault, redisVars, TypeOK
  <2>3. /\ PgTypeOK'
        /\ redis' = redis /\ redisLate' = redisLate /\ breaker' \in {"open", "closed", "cooled"}
    BY <1>4 DEF GetRedis, GetHit, GetMiss, GetUnavailable, FallBack, MarkRedisDown, redisVars, pgVars,
       TypeOK, PgTypeOK
  <2> QED
    BY <1>4, <2>1, <2>2, <2>3 DEF GetRedis, GetHit, GetMiss, GetUnavailable, FallBack, Return, redisVars,
       TypeOK, CallOK, PCs, SavePCs, GetPCs, FlightPCs, DeletePCs, Errors
<1>5. ASSUME NEW c \in Calls, GetDo(c) PROVE TypeOK'
  <2>1. req[c].alias \in Aliases /\ req[c].m = "Get"
    BY <1>5, ActiveRequest, RequestFields DEF InFlight, GetDo, TypeOK, CallOK, GetPCs
  <2> QED
    BY <1>5, <2>1 DEF InFlight, GetDo, TypeOK, CallOK, PgTypeOK, pgVars, redisVars,
       PCs, SavePCs, GetPCs, FlightPCs, DeletePCs
<1>6. ASSUME NEW c \in Calls, GetSelect(c) PROVE TypeOK'
  <2>1. req[c].alias \in Aliases /\ req[c].m = "Get"
    BY <1>6, ActiveRequest, RequestFields DEF GetSelect, TypeOK, CallOK, GetPCs, FlightPCs
  <2>2. PICK v \in URLs \cup {None}, e \in Errors :
        /\ PgGet(CtxDone(c), req[c].alias, v, e)
        /\ val' = [val EXCEPT ![c] = v]
        /\ err' = [err EXCEPT ![c] = e]
        /\ pc' = [pc EXCEPT ![c] = IF e = "nil" THEN "Get.fillAvailable" ELSE "Get.return"]
    BY <1>6 DEF GetSelect
  <2>3. PgTypeOK' /\ (e = "nil" <=> v # None)
    BY <2>1, <2>2, PgGetTypeOK DEF TypeOK
  <2> QED
    BY <1>6, <2>1, <2>2, <2>3 DEF GetSelect, TypeOK, CallOK, redisVars,
       PCs, SavePCs, GetPCs, FlightPCs, DeletePCs
<1>7. ASSUME NEW c \in Calls, GetFill(c) PROVE TypeOK'
  <2>1. req[c].alias \in Aliases /\ req[c].m = "Get" /\ val[c] \in URLs \cup {None}
    BY <1>7, ActiveRequest, RequestFields DEF GetFill, TypeOK, CallOK, GetPCs, FlightPCs
  <2>2. /\ redis' \in [Aliases -> URLs \cup {None}]
        /\ redisLate' \subseteq Writes
        /\ redisFaults' \in 0 .. MaxRedisFaults
        /\ breaker' \in {"open", "closed", "cooled"}
    BY <1>7, <2>1, RedisWriteTypeOK DEF GetFill
  <2> QED
    BY <1>7, <2>1, <2>2 DEF GetFill, TypeOK, CallOK, PgTypeOK, pgVars,
       PCs, SavePCs, GetPCs, FlightPCs, DeletePCs
<1>8. ASSUME NEW c \in Calls, GetReturn(c) PROVE TypeOK'
  <2>1. req[c].alias \in Aliases /\ req[c].m = "Get"
    BY <1>8, ActiveRequest, RequestFields DEF GetReturn, TypeOK, CallOK, GetPCs, FlightPCs
  <2>2. \A d \in Waiters(req[c].alias) : req[d].m = "Get" /\ req[d] # NoRequest
    BY DEF Waiters, TypeOK, CallOK, GetPCs
  <2> QED
    BY <1>8, <2>1, <2>2 DEF GetReturn, TypeOK, CallOK, PgTypeOK, pgVars, redisVars,
       PCs, SavePCs, GetPCs, FlightPCs, DeletePCs
<1>9. ASSUME NEW c \in Calls, DeleteDelete(c) PROVE TypeOK'
  <2>1. req[c].alias \in Aliases /\ req[c].m = "Delete"
    BY <1>9, ActiveRequest, RequestFields DEF DeleteDelete, TypeOK, CallOK, DeletePCs
  <2>2. PgTypeOK'
    BY <1>9, <2>1, PgDeleteTypeOK DEF DeleteDelete, TypeOK
  <2> QED
    BY <1>9, <2>1, <2>2 DEF DeleteDelete, TypeOK, CallOK, redisVars,
       PCs, SavePCs, GetPCs, FlightPCs, DeletePCs
<1>10. ASSUME NEW c \in Calls, DeleteDel(c) PROVE TypeOK'
  <2>1. req[c].alias \in Aliases /\ req[c].m = "Delete"
    BY <1>10, ActiveRequest, RequestFields DEF DeleteDel, TypeOK, CallOK, DeletePCs
  <2>2. /\ redis' \in [Aliases -> URLs \cup {None}]
        /\ redisLate' \subseteq Writes
        /\ redisFaults' \in 0 .. MaxRedisFaults
        /\ breaker' \in {"open", "closed", "cooled"}
    BY <1>10, <2>1, RedisWriteTypeOK DEF DeleteDel
  <2> QED
    BY <1>10, <2>1, <2>2 DEF DeleteDel, TypeOK, CallOK, PgTypeOK, pgVars,
       PCs, SavePCs, GetPCs, FlightPCs, DeletePCs
<1>11. ASSUME NEW x \in Contexts, Cancel(x) PROVE TypeOK'
  BY <1>11 DEF Cancel, TypeOK, CallOK, PgTypeOK, pgVars, redisVars, callVars
<1>12. CASE BreakerCloses \/ BreakerReopens
  BY <1>12 DEF BreakerCloses, BreakerReopens, TypeOK, CallOK, PgTypeOK, pgVars, callVars
<1>13. ASSUME NEW a \in Aliases, RedisExpire(a) PROVE TypeOK'
  BY <1>13 DEF RedisExpire, TypeOK, CallOK, PgTypeOK, pgVars, callVars
<1>14. ASSUME NEW w \in redisLate, RedisLateWrite(w) PROVE TypeOK'
  BY <1>14 DEF RedisLateWrite, TypeOK, CallOK, PgTypeOK, pgVars, callVars, Writes
<1>15. ASSUME NEW st \in dbLate, PgLate(st) PROVE TypeOK'
  <2>1. PgTypeOK'
    BY <1>15, LateStatementTypeOK DEF PgLate, TypeOK
  <2> QED
    BY <1>15, <2>1 DEF PgLate, TypeOK, CallOK, redisVars, callVars
<1>16. CASE UNCHANGED vars
  BY <1>16 DEF vars, TypeOK, CallOK, PgTypeOK
<1> QED
  BY <1>1, <1>2, <1>3, <1>4, <1>5, <1>6, <1>7, <1>8, <1>9, <1>10, <1>11, <1>12, <1>13,
     <1>14, <1>15, <1>16, CheckTypeOK
     DEF Next, Step, Save, Get, Delete, Environment

(***************************************************************************)
(* Type correctness: in every run of Save, Get and Delete, whatever fails  *)
(* and whoever disconnects, a URL is in hand exactly when a Get got one.   *)
(***************************************************************************)
THEOREM TypeCorrect == Spec => []TypeOK
<1>1. Init => TypeOK
  BY InitTypeOK
<1>2. TypeOK /\ [Next]_vars => TypeOK'
  BY NextTypeOK
<1> QED
  BY <1>1, <1>2, PTL DEF Spec
-----------------------------------------------------------------------------
(***************************************************************************)
(* What a step can do to one call: requests never change, a call that has  *)
(* left its query never returns to it, and the error of a Save or a Delete *)
(* is settled by its query.                                                *)
(***************************************************************************)
CallStep(d) ==
    /\ pc[d] # "idle" => req'[d] = req[d] /\ pc'[d] # "idle"
    /\ pc[d] = "idle" => \/ pc'[d] = "idle" /\ req'[d] = req[d]
                         \/ /\ pc'[d] \in {"Save.insert", "Get.available", "Delete.delete"}
                            /\ req'[d] \in Requests
    /\ err'[d] # err[d] => \/ SaveInsert(d) \/ DeleteDelete(d)
                           \/ req[d].m = "Get" /\ pc[d] # "done"
    /\ pc[d] \in {"Save.insert", "Delete.delete"} =>
            pc'[d] = pc[d] \/ SaveInsert(d) \/ DeleteDelete(d)
    /\ pc'[d] \in {"Save.insert", "Delete.delete"} => pc[d] \in {pc'[d], "idle"}
    /\ pc[d] = "done" => pc'[d] = "done"
    /\ pc'[d] \in {"idle", "Get.available", "Get.redis"} =>
            pc[d] \in {"idle", "Get.available", "Get.redis"}

LEMMA NextCallStep ==
    ASSUME TypeOK, [Next]_vars, NEW d \in Calls
    PROVE  CallStep(d)
<1> USE DEF TypeOK, CallOK, CallStep, Goto, PCs
<1>1. ASSUME NEW c \in Calls, NEW r \in Requests, Begin(c, r) PROVE CallStep(d)
  <2>1. FirstPC(r.m) \in {"Save.insert", "Get.available", "Delete.delete"}
    BY RequestFields DEF FirstPC
  <2> QED
    BY <1>1, <2>1 DEF Begin
<1>2. ASSUME NEW c \in Calls, SaveInsert(c) PROVE CallStep(d)
  <2>1. PICK l \in {"Save.available", "done"}, e \in Errors :
            pc' = [pc EXCEPT ![c] = l] /\ err' = [err EXCEPT ![c] = e]
    BY <1>2 DEF AfterInsert, SaveInsert
  <2>2. pc[c] = "Save.insert" /\ req' = req
    BY <1>2 DEF AfterInsert, SaveInsert
  <2> QED
    BY <1>2, <2>1, <2>2
<1>3. ASSUME NEW c \in Calls, SaveSet(c) PROVE CallStep(d)
  BY <1>3 DEF SaveSet
<1>4. ASSUME NEW c \in Calls, GetRedis(c) PROVE CallStep(d)
  BY <1>4 DEF GetRedis, GetHit, GetMiss, GetUnavailable, FallBack, Return, GetPCs
<1>5. ASSUME NEW c \in Calls, GetDo(c) PROVE CallStep(d)
  BY <1>5 DEF InFlight, GetDo
<1>6. ASSUME NEW c \in Calls, GetSelect(c) PROVE CallStep(d)
  <2>1. PICK l \in {"Get.fillAvailable", "Get.return"}, e \in Errors :
            pc' = [pc EXCEPT ![c] = l] /\ err' = [err EXCEPT ![c] = e]
    BY <1>6 DEF GetSelect
  <2>2. pc[c] = "Get.select" /\ req' = req /\ req[c].m = "Get"
    BY <1>6 DEF GetSelect, GetPCs, FlightPCs
  <2> QED
    BY <2>1, <2>2
<1>7. ASSUME NEW c \in Calls, GetFill(c) PROVE CallStep(d)
  BY <1>7 DEF GetFill
<1>8. ASSUME NEW c \in Calls, GetReturn(c) PROVE CallStep(d)
  BY <1>8 DEF GetReturn, Waiters, GetPCs, FlightPCs
<1>9. ASSUME NEW c \in Calls, DeleteDelete(c) PROVE CallStep(d)
  <2>1. PICK l \in {"Delete.available", "done"}, e \in Errors :
            pc' = [pc EXCEPT ![c] = l] /\ err' = [err EXCEPT ![c] = e]
    BY <1>9 DEF DeleteDelete
  <2>2. pc[c] = "Delete.delete" /\ req' = req
    BY <1>9 DEF DeleteDelete
  <2> QED
    BY <1>9, <2>1, <2>2
<1>10. ASSUME NEW c \in Calls, DeleteDel(c) PROVE CallStep(d)
  BY <1>10 DEF DeleteDel
<1>11. ASSUME NEW c \in Calls,
              SaveAvailable(c) \/ GetAvailable(c) \/ GetFillAvailable(c) \/ DeleteAvailable(c)
       PROVE  CallStep(d)
  BY <1>11 DEF SaveAvailable, GetAvailable, GetFillAvailable, DeleteAvailable, CheckAvailable
<1>12. CASE Environment \/ UNCHANGED vars
  <2>1. UNCHANGED callVars
    BY <1>12 DEF Environment, Cancel, BreakerCloses, BreakerReopens, RedisExpire, RedisLateWrite, PgLate,
       callVars, vars
  <2> QED
    BY <2>1 DEF callVars
<1> QED
  BY <1>1, <1>2, <1>3, <1>4, <1>5, <1>6, <1>7, <1>8, <1>9, <1>10, <1>11, <1>12
     DEF Next, Step, Save, Get, Delete

(* What a Save or a Delete may have done to the table is never undone. *)
LEMMA SavedStable ==
    ASSUME TypeOK, [Next]_vars, NEW s \in Calls, NEW a \in Aliases, NEW u,
           MayHaveSaved(s, a, u)
    PROVE  MayHaveSaved(s, a, u)'
<1>1. CallStep(s)
  BY NextCallStep
<1>2. pc[s] # "idle" /\ req[s].m = "Save" /\ pc[s] # "Save.insert"
  BY DEF TypeOK, CallOK, MayHaveSaved, NoRequest
<1>3. ~SaveInsert(s) /\ ~DeleteDelete(s)
  BY <1>2 DEF AfterInsert, SaveInsert, DeleteDelete, TypeOK, CallOK, DeletePCs
<1> QED
  BY <1>1, <1>2, <1>3 DEF CallStep, MayHaveSaved

LEMMA DeletedStable ==
    ASSUME TypeOK, [Next]_vars, NEW a \in Aliases
    PROVE  MayHaveDeleted(a) \subseteq MayHaveDeleted(a)'
<1> SUFFICES ASSUME NEW d \in MayHaveDeleted(a) PROVE d \in MayHaveDeleted(a)'
  OBVIOUS
<1>1. d \in Calls /\ CallStep(d)
  BY NextCallStep DEF MayHaveDeleted
<1>2. pc[d] # "idle" /\ req[d].m = "Delete" /\ pc[d] # "Delete.delete"
  BY <1>1 DEF TypeOK, CallOK, MayHaveDeleted, NoRequest
<1>3. ~SaveInsert(d) /\ ~DeleteDelete(d)
  BY <1>1, <1>2 DEF AfterInsert, SaveInsert, DeleteDelete, TypeOK, CallOK, SavePCs
<1> QED
  BY <1>1, <1>2, <1>3 DEF CallStep, MayHaveDeleted

(* Only the query of a Save or of a Delete changes what was acknowledged. *)
LEMMA QuietStep ==
    ASSUME TypeOK, [Next]_vars, NEW a \in Aliases,
           \A c \in Calls : ~SaveInsert(c) /\ ~DeleteDelete(c)
    PROVE  /\ Acknowledged(a)' = Acknowledged(a)
           /\ MayHaveDeleted(a)' = MayHaveDeleted(a)
<1>1. ASSUME NEW d \in Calls
      PROVE  /\ d \in Acknowledged(a)' <=> d \in Acknowledged(a)
             /\ d \in MayHaveDeleted(a)' <=> d \in MayHaveDeleted(a)
  <2>1. CallStep(d)
    BY NextCallStep
  <2>2. TypeOK'
    BY NextTypeOK
  <2>3. CASE pc[d] = "idle"
    BY <2>1, <2>2, <2>3
       DEF CallStep, Acknowledged, MayHaveDeleted, TypeOK, CallOK, NoRequest, GetPCs, SavePCs, DeletePCs
  <2>4. CASE pc[d] # "idle"
    BY <2>1, <2>2, <2>4 DEF CallStep, Acknowledged, MayHaveDeleted, TypeOK, CallOK
  <2> QED
    BY <2>3, <2>4
<1> QED
  BY <1>1 DEF Acknowledged, MayHaveDeleted
-----------------------------------------------------------------------------
(* Init establishes the agreement of the group and the calls, every step keeps it. *)
LEMMA InitFlight == Init => FlightInv
BY DEF Init, FlightInv, FlightPCs

LEMMA NextFlight == TypeOK /\ FlightInv /\ [Next]_vars => FlightInv'
<1> SUFFICES ASSUME TypeOK, FlightInv, [Next]_vars PROVE FlightInv'
  OBVIOUS
<1> USE CacheAssumption DEF CacheAssumption, Goto, FlightPCs
<1>0. \A d \in Calls : pc[d] \in FlightPCs \cup {"Get.wait", "Get.do"} => req[d].alias \in Aliases
  BY ActiveRequest, RequestFields
<1>1. ASSUME NEW c \in Calls, NEW r \in Requests, Begin(c, r) PROVE FlightInv'
  <2>1. FirstPC(r.m) \in {"Save.insert", "Get.available", "Delete.delete"}
    BY RequestFields DEF FirstPC
  <2> QED
    BY <1>0, <1>1, <2>1 DEF Begin, FlightInv, TypeOK
<1>2. ASSUME NEW c \in Calls, SaveInsert(c) \/ DeleteDelete(c) PROVE FlightInv'
  <2>1. PICK l \in {"Save.available", "Delete.available", "done"} : pc' = [pc EXCEPT ![c] = l]
    BY <1>2 DEF AfterInsert, SaveInsert, DeleteDelete
  <2>2. pc[c] \notin FlightPCs /\ req' = req /\ flight' = flight
    BY <1>2 DEF AfterInsert, SaveInsert, DeleteDelete
  <2> QED
    BY <1>0, <2>1, <2>2 DEF FlightInv, TypeOK
<1>3. ASSUME NEW c \in Calls, SaveSet(c) \/ DeleteDel(c) PROVE FlightInv'
  BY <1>0, <1>3 DEF SaveSet, DeleteDel, FlightInv, TypeOK
<1>4. ASSUME NEW c \in Calls, GetRedis(c) PROVE FlightInv'
  BY <1>0, <1>4 DEF GetRedis, GetHit, GetMiss, GetUnavailable, FallBack, Return, FlightInv, TypeOK
<1>5. ASSUME NEW c \in Calls, GetDo(c) PROVE FlightInv'
  BY <1>0, <1>5 DEF InFlight, GetDo, FlightInv, TypeOK
<1>6. ASSUME NEW c \in Calls, GetSelect(c) \/ GetFill(c) PROVE FlightInv'
  <2>1. PICK l \in {"Get.fillAvailable", "Get.return"} : pc' = [pc EXCEPT ![c] = l]
    BY <1>6 DEF GetSelect, GetFill
  <2>2. pc[c] \in FlightPCs /\ req' = req /\ flight' = flight
    BY <1>6 DEF GetSelect, GetFill
  <2> QED
    BY <1>0, <2>1, <2>2 DEF FlightInv, TypeOK
<1>7. ASSUME NEW c \in Calls, GetReturn(c) PROVE FlightInv'
  BY <1>0, <1>7 DEF GetReturn, Waiters, FlightInv, TypeOK
<1>8. ASSUME NEW c \in Calls,
             SaveAvailable(c) \/ GetAvailable(c) \/ GetFillAvailable(c) \/ DeleteAvailable(c)
      PROVE  FlightInv'
  BY <1>0, <1>8 DEF SaveAvailable, GetAvailable, GetFillAvailable, DeleteAvailable,
     CheckAvailable, FlightInv, TypeOK
<1>9. CASE Environment \/ UNCHANGED vars
  <2>1. UNCHANGED <<callVars, flight>>
    BY <1>9 DEF Environment, Cancel, BreakerCloses, BreakerReopens, RedisExpire, RedisLateWrite, PgLate,
       callVars, vars
  <2> QED
    BY <2>1 DEF callVars, FlightInv
<1> QED
  BY <1>1, <1>2, <1>3, <1>4, <1>5, <1>6, <1>7, <1>8, <1>9
     DEF Next, Step, Save, Get, Delete

(***************************************************************************)
(* group.Do in Cache.Get: per alias one call queries the storage, it is    *)
(* the one the group knows, and every waiter waits for a flight under way. *)
(***************************************************************************)
THEOREM SingleFlightHolds == Spec => []SingleFlight
<1>1. TypeOK /\ FlightInv => SingleFlight
  <2> SUFFICES ASSUME TypeOK, FlightInv PROVE SingleFlight
    OBVIOUS
  <2>1. \A d \in Calls : pc[d] = "Get.wait" => req[d].alias \in Aliases
    BY ActiveRequest, RequestFields
  <2> QED
    BY <2>1 DEF TypeOK, FlightInv, SingleFlight
<1> QED
  BY <1>1, InitFlight, NextFlight, TypeCorrect, PTL DEF Spec
-----------------------------------------------------------------------------
(* Statements left on the server: each belongs to one failed call. *)
LEMMA InitLate == Init => LateInv
BY DEF Init, PgInit, LateInv

LEMMA NextLate == TypeOK /\ LateInv /\ [Next]_vars => LateInv'
<1> SUFFICES ASSUME TypeOK, LateInv, [Next]_vars PROVE LateInv'
  OBVIOUS
<1>1. ASSUME NEW st \in dbLate
      PROVE  /\ pc'[st.by] = "done"
             /\ st.url = None => st.by \in MayHaveDeleted(st.alias)'
             /\ st.url # None => MayHaveSaved(st.by, st.alias, st.url)'
  <2>1. st.by \in Calls /\ st.alias \in Aliases
    BY DEF TypeOK, PgTypeOK, Statements
  <2>2. pc'[st.by] = "done"
    BY <2>1, NextCallStep DEF CallStep, LateInv
  <2>3. st.url = None => st.by \in MayHaveDeleted(st.alias)'
    BY <2>1, DeletedStable DEF LateInv
  <2>4. st.url # None => MayHaveSaved(st.by, st.alias, st.url)'
    BY <2>1, SavedStable DEF LateInv
  <2> QED
    BY <2>2, <2>3, <2>4
<1>2. ASSUME NEW c \in Calls, SaveInsert(c) PROVE LateInv'
  <2>1. req[c] \in Requests /\ req[c].m = "Save" /\ req[c].url \in URLs
    BY <1>2, ActiveRequest, RequestFields DEF AfterInsert, SaveInsert, TypeOK, CallOK, SavePCs
  <2> DEFINE st == Insert(c, req[c].url, req[c].alias)
  <2>2. CASE dbLate' = dbLate
    BY <1>1, <2>2 DEF LateInv
  <2>3. CASE dbLate' # dbLate
    <3>1. dbLate' = dbLate \cup {st} /\ pc'[c] = "done" /\ err'[c] \in {"context", "storage"} /\ req' = req
      BY <1>2, <2>3 DEF AfterInsert, SaveInsert, PgSave, WriteAbandoned, QueryFails, Goto, TypeOK
    <3>2. st.by = c /\ st.url # None /\ MayHaveSaved(c, st.alias, st.url)'
      <4>1. req[c] = [m |-> "Save", alias |-> req[c].alias, url |-> req[c].url]
        BY <2>1 DEF Requests
      <4> QED
        BY <2>1, <3>1, <4>1, PgAssumption DEF PgAssumption, MayHaveSaved, Insert
    <3>3. \A s \in dbLate : s.by # c
      BY <1>2 DEF LateInv, SaveInsert
    <3> QED
      BY <1>1, <3>1, <3>2, <3>3 DEF LateInv
  <2> QED
    BY <2>2, <2>3
<1>3. ASSUME NEW c \in Calls, DeleteDelete(c) PROVE LateInv'
  <2>1. req[c] \in Requests /\ req[c].m = "Delete"
    BY <1>3, ActiveRequest DEF DeleteDelete, TypeOK, CallOK, DeletePCs
  <2> DEFINE st == DeleteRow(c, req[c].alias)
  <2>2. CASE dbLate' = dbLate
    BY <1>1, <2>2 DEF LateInv
  <2>3. CASE dbLate' # dbLate
    <3>1. dbLate' = dbLate \cup {st} /\ pc'[c] = "done" /\ err'[c] \in {"context", "storage"} /\ req' = req
      BY <1>3, <2>3 DEF DeleteDelete, PgDelete, WriteAbandoned, QueryFails, Goto, TypeOK
    <3>2. st.by = c /\ st.url = None /\ c \in MayHaveDeleted(st.alias)'
      BY <2>1, <3>1 DEF MayHaveDeleted, DeleteRow
    <3>3. \A s \in dbLate : s.by # c
      BY <1>3 DEF LateInv, DeleteDelete
    <3> QED
      BY <1>1, <3>1, <3>2, <3>3 DEF LateInv
  <2> QED
    BY <2>2, <2>3
<1>4. CASE \A c \in Calls : ~SaveInsert(c) /\ ~DeleteDelete(c)
  <2>1. dbLate' \subseteq dbLate
    BY <1>4 DEF Next, Begin, Step, Save, SaveAvailable, SaveSet, Get, GetAvailable, GetRedis, GetDo,
       GetSelect, PgGet, ScanError, GetFillAvailable, GetFill, GetReturn, Delete, DeleteAvailable, DeleteDel,
       CheckAvailable, Environment, Cancel, BreakerCloses, BreakerReopens, RedisExpire, RedisLateWrite, PgLate,
       LateStatement, pgVars, vars
  <2> QED
    BY <1>1, <2>1 DEF LateInv
<1> QED
  BY <1>2, <1>3, <1>4
-----------------------------------------------------------------------------
(***************************************************************************)
(* Where a URL that appears in the cache, in a late write or in the hands  *)
(* of a Get on alias a can come from in one step.                          *)
(***************************************************************************)
Source(a, u) ==
    \/ u \in {None, redis[a], db[a]}
    \/ \E c \in Calls : req[c].alias = a /\ u = val[c]
    \/ \E c \in Calls : req[c].alias = a /\ pc[c] = "Save.set" /\ u = req[c].url
    \/ \E w \in redisLate : w.alias = a /\ u = w.url

Sources ==
    /\ \A a \in Aliases : Source(a, redis'[a])
    /\ \A w \in redisLate' : Source(w.alias, w.url)
    /\ \A d \in Calls : val'[d] # None => req'[d] = req[d] /\ Source(req[d].alias, val'[d])

LEMMA RedisWriteSources ==
    ASSUME TypeOK, NEW c \in Calls, req[c].alias \in Aliases, NEW u, Source(req[c].alias, u),
           RedisWrite(c, u)
    PROVE  /\ \A a \in Aliases : Source(a, redis'[a])
           /\ \A w \in redisLate' : Source(w.alias, w.url)
<1>1. \A a \in Aliases : redis'[a] = redis[a] \/ (a = req[c].alias /\ redis'[a] = u)
  BY DEF RedisWrite, TypeOK
<1>2. \A w \in redisLate' : w \in redisLate \/ (w.alias = req[c].alias /\ w.url = u)
  BY DEF RedisWrite
<1>3. \A a \in Aliases : Source(a, redis[a])
  BY DEF Source
<1>4. \A w \in redisLate : Source(w.alias, w.url)
  BY DEF Source
<1> QED
  BY <1>1, <1>2, <1>3, <1>4

LEMMA NextSources ==
    ASSUME TypeOK, [Next]_vars
    PROVE  Sources
<1>0. /\ \A a \in Aliases : Source(a, redis[a]) /\ Source(a, None) /\ Source(a, db[a])
      /\ \A w \in redisLate : Source(w.alias, w.url)
      /\ \A d \in Calls : Source(req[d].alias, val[d])
  BY DEF Source
<1> DEFINE Same == redis' = redis /\ redisLate' = redisLate
           SameVal == val' = val /\ req' = req
<1>1. ASSUME NEW c \in Calls, NEW r \in Requests, Begin(c, r) PROVE Sources
  <2>1. val[c] = None
    BY <1>1 DEF Begin, TypeOK, CallOK, NoRequest
  <2> QED
    BY <1>0, <1>1, <2>1 DEF Begin, redisVars, Sources, TypeOK
<1>2. ASSUME NEW c \in Calls, SaveInsert(c) \/ DeleteDelete(c) PROVE Sources
  <2>1. Same /\ SameVal
    BY <1>2 DEF AfterInsert, SaveInsert, DeleteDelete, redisVars
  <2> QED
    BY <1>0, <2>1 DEF Sources
<1>3. ASSUME NEW c \in Calls, SaveSet(c) PROVE Sources
  <2>1. req[c].alias \in Aliases /\ pc[c] = "Save.set"
    BY <1>3, ActiveRequest, RequestFields DEF SaveSet
  <2>2. Source(req[c].alias, req[c].url)
    BY <2>1 DEF Source
  <2>3. SameVal
    BY <1>3 DEF SaveSet
  <2> QED
    BY <1>0, <1>3, <2>1, <2>2, <2>3, RedisWriteSources DEF SaveSet, Sources
<1>4. ASSUME NEW c \in Calls, GetRedis(c) PROVE Sources
  <2>1. req[c].alias \in Aliases
    BY <1>4, ActiveRequest, RequestFields DEF GetRedis
  <2>2. Same /\ req' = req
    BY <1>4 DEF GetRedis, GetHit, GetMiss, GetUnavailable, FallBack, Return, redisVars
  <2>3. \A d \in Calls : val'[d] = val[d] \/ (d = c /\ val'[d] = redis[req[c].alias])
    BY <1>4 DEF GetRedis, GetHit, GetMiss, GetUnavailable, FallBack, Return, TypeOK
  <2> QED
    BY <1>0, <2>1, <2>2, <2>3 DEF Sources
<1>5. ASSUME NEW c \in Calls, GetDo(c) PROVE Sources
  BY <1>0, <1>5 DEF InFlight, GetDo, redisVars, Sources
<1>6. ASSUME NEW c \in Calls, GetSelect(c) PROVE Sources
  <2>1. req[c].alias \in Aliases
    BY <1>6, ActiveRequest, RequestFields DEF GetSelect
  <2>2. Same /\ req' = req
    BY <1>6 DEF GetSelect, redisVars
  <2>3. \A d \in Calls : val'[d] = val[d] \/ (d = c /\ val'[d] \in {None, db[req[c].alias]})
    BY <1>6 DEF GetSelect, PgGet, ScanError, TypeOK
  <2> QED
    BY <1>0, <2>1, <2>2, <2>3 DEF Sources
<1>7. ASSUME NEW c \in Calls, GetFill(c) PROVE Sources
  <2>1. req[c].alias \in Aliases
    BY <1>7, ActiveRequest, RequestFields DEF GetFill
  <2>2. SameVal
    BY <1>7 DEF GetFill
  <2> QED
    BY <1>0, <1>7, <2>1, <2>2, RedisWriteSources DEF GetFill, Sources
<1>8. ASSUME NEW c \in Calls, GetReturn(c) PROVE Sources
  <2>1. Same /\ req' = req
    BY <1>8 DEF GetReturn, redisVars
  <2>2. \A d \in Calls : val'[d] = val[d] \/ (req[d].alias = req[c].alias /\ val'[d] = val[c])
    BY <1>8 DEF GetReturn, Waiters
  <2>3. \A d \in Calls : req[d].alias = req[c].alias => Source(req[d].alias, val[c])
    BY DEF Source
  <2> QED
    BY <1>0, <2>1, <2>2, <2>3 DEF Sources
<1>9. ASSUME NEW c \in Calls, DeleteDel(c) PROVE Sources
  <2>1. req[c].alias \in Aliases
    BY <1>9, ActiveRequest, RequestFields DEF DeleteDel
  <2>2. SameVal
    BY <1>9 DEF DeleteDel
  <2> QED
    BY <1>0, <1>9, <2>1, <2>2, RedisWriteSources DEF DeleteDel, Sources
<1>10. ASSUME NEW c \in Calls,
              SaveAvailable(c) \/ GetAvailable(c) \/ GetFillAvailable(c) \/ DeleteAvailable(c)
       PROVE  Sources
  <2>1. Same /\ SameVal
    BY <1>10 DEF SaveAvailable, GetAvailable, GetFillAvailable, DeleteAvailable, CheckAvailable,
       redisVars
  <2> QED
    BY <1>0, <2>1 DEF Sources
<1>11. ASSUME NEW a \in Aliases, RedisExpire(a) PROVE Sources
  <2>1. SameVal /\ redisLate' = redisLate
    BY <1>11 DEF RedisExpire, callVars
  <2>2. \A b \in Aliases : redis'[b] \in {redis[b], None}
    BY <1>11 DEF RedisExpire, TypeOK
  <2> QED
    BY <1>0, <2>1, <2>2 DEF Sources
<1>12. ASSUME NEW w \in redisLate, RedisLateWrite(w) PROVE Sources
  <2>1. SameVal /\ redisLate' \subseteq redisLate
    BY <1>12 DEF RedisLateWrite, callVars
  <2>2. \A b \in Aliases : redis'[b] = redis[b] \/ (b = w.alias /\ redis'[b] = w.url)
    BY <1>12 DEF RedisLateWrite, TypeOK
  <2> QED
    BY <1>0, <2>1, <2>2 DEF Sources
<1>13. CASE \/ \E x \in Contexts : Cancel(x)
            \/ BreakerCloses \/ BreakerReopens
            \/ \E st \in dbLate : PgLate(st)
            \/ UNCHANGED vars
  <2>1. Same /\ SameVal
    BY <1>13 DEF Cancel, BreakerCloses, BreakerReopens, PgLate, redisVars, callVars, vars
  <2> QED
    BY <1>0, <2>1 DEF Sources
<1> QED
  BY <1>1, <1>2, <1>3, <1>4, <1>5, <1>6, <1>7, <1>8, <1>9, <1>10, <1>11, <1>12, <1>13
     DEF Next, Step, Save, Get, Delete, Environment
-----------------------------------------------------------------------------
(* Outside the queries of Saves and Deletes the table moves only by late statements. *)
LEMMA QuietTable ==
    ASSUME [Next]_vars,
           \A c \in Calls : ~SaveInsert(c) /\ ~DeleteDelete(c),
           \A st \in dbLate : ~PgLate(st)
    PROVE  db' = db /\ dbLate' = dbLate
BY DEF Next, Begin, Step, Save, SaveAvailable, SaveSet, Get, GetAvailable, GetRedis, GetDo,
   GetSelect, PgGet, ScanError, GetFillAvailable, GetFill, GetReturn, Delete, DeleteAvailable, DeleteDel,
   CheckAvailable, Environment, Cancel, BreakerCloses, BreakerReopens, RedisExpire, RedisLateWrite,
   pgVars, vars

(* A row appears for a Save, in the place of no row, or disappears for a Delete. *)
LEMMA TableStep ==
    ASSUME TypeOK, LateInv, [Next]_vars, NEW a \in Aliases
    PROVE  \/ db'[a] = db[a]
           \/ db[a] = None /\ \E s \in Calls : MayHaveSaved(s, a, db[a])'
           \/ db'[a] = None /\ MayHaveDeleted(a)' # {}
<1>1. ASSUME NEW c \in Calls, SaveInsert(c), db'[a] # db[a]
      PROVE  db[a] = None /\ MayHaveSaved(c, a, db[a])'
  <2>1. /\ req[c] \in Requests /\ req[c].m = "Save" /\ req[c].url \in URLs
        /\ pc[c] = "Save.insert" /\ req' = req
    BY <1>1, ActiveRequest, RequestFields DEF AfterInsert, SaveInsert, TypeOK, CallOK, SavePCs
  <2>2. /\ a = req[c].alias /\ db[a] = None /\ db'[a] = req[c].url
        /\ err'[c] = "nil" /\ pc'[c] = "Save.available"
    BY <1>1, <2>1, PgAssumption DEF PgAssumption, AfterInsert, SaveInsert, PgSave, WriteAbandoned, TableAfter,
       Affects, Insert, Goto, TypeOK, PgTypeOK
  <2>3. req[c] = [m |-> "Save", alias |-> a, url |-> db'[a]]
    BY <2>1, <2>2 DEF Requests
  <2> QED
    BY <2>1, <2>2, <2>3 DEF MayHaveSaved
<1>2. ASSUME NEW c \in Calls, DeleteDelete(c), db'[a] # db[a]
      PROVE  db'[a] = None /\ c \in MayHaveDeleted(a)'
  <2>1. req[c].m = "Delete" /\ pc[c] = "Delete.delete" /\ req' = req
    BY <1>2 DEF DeleteDelete, TypeOK, CallOK, DeletePCs
  <2>2. /\ a = req[c].alias /\ db'[a] = None
        /\ err'[c] = "nil" /\ pc'[c] = "Delete.available"
    BY <1>2, <2>1 DEF DeleteDelete, PgDelete, WriteAbandoned, TableAfter,
       Affects, DeleteRow, Goto, TypeOK, PgTypeOK
  <2> QED
    BY <2>1, <2>2 DEF MayHaveDeleted
<1>3. ASSUME NEW st \in dbLate, PgLate(st), db'[a] # db[a]
      PROVE  \/ db[a] = None /\ \E s \in Calls : MayHaveSaved(s, a, db[a])'
             \/ db'[a] = None /\ MayHaveDeleted(a)' # {}
  <2>1. st.by \in Calls /\ a = st.alias /\ db'[a] = st.url /\ (st.url # None => db[a] = None)
    BY <1>3 DEF PgLate, LateStatement, TableAfter, Affects, TypeOK, PgTypeOK, Statements
  <2>2. st.url # None => MayHaveSaved(st.by, a, st.url)'
    BY <2>1, SavedStable DEF LateInv
  <2>3. st.url = None => st.by \in MayHaveDeleted(a)'
    BY <2>1, DeletedStable DEF LateInv
  <2> QED
    BY <2>1, <2>2, <2>3
<1> QED
  BY <1>1, <1>2, <1>3, QuietTable

LEMMA InitProvenance == Init => ProvenanceInv
BY DEF Init, PgInit, ProvenanceInv, Provenance

LEMMA NextProvenance == TypeOK /\ LateInv /\ ProvenanceInv /\ [Next]_vars => ProvenanceInv'
<1> SUFFICES ASSUME TypeOK, LateInv, ProvenanceInv, [Next]_vars PROVE ProvenanceInv'
  OBVIOUS
<1>1. ASSUME NEW a \in Aliases, NEW u, Source(a, u), u # None
      PROVE  \E s \in Calls : MayHaveSaved(s, a, u)'
  <2>1. \E s \in Calls : MayHaveSaved(s, a, u)
    <3>1. CASE \E c \in Calls : req[c].alias = a /\ pc[c] = "Save.set" /\ u = req[c].url
      <4>1. PICK c \in Calls : req[c].alias = a /\ pc[c] = "Save.set" /\ u = req[c].url
        BY <3>1
      <4>2. req[c] \in Requests /\ req[c].m = "Save" /\ err[c] = "nil"
        BY <4>1, ActiveRequest DEF TypeOK, CallOK, SavePCs
      <4>3. req[c] = [m |-> "Save", alias |-> a, url |-> u]
        BY <4>1, <4>2 DEF Requests
      <4> QED
        BY <4>1, <4>2, <4>3 DEF MayHaveSaved
    <3>2. CASE \E c \in Calls : req[c].alias = a /\ u = val[c]
      BY <1>1, <3>2 DEF ProvenanceInv, Provenance
    <3>3. CASE \E w \in redisLate : w.alias = a /\ u = w.url
      BY <1>1, <3>3 DEF ProvenanceInv
    <3>4. CASE u \in {None, redis[a], db[a]}
      BY <1>1, <3>4 DEF ProvenanceInv, Provenance
    <3> QED
      BY <1>1, <3>1, <3>2, <3>3, <3>4 DEF Source
  <2> QED
    BY <2>1, SavedStable
<1>2. Sources
  BY NextSources
<1>3. TypeOK'
  BY NextTypeOK
<1>4. \A a \in Aliases : redis'[a] # None => \E s \in Calls : MayHaveSaved(s, a, redis[a])'
  BY <1>1, <1>2 DEF Sources
<1>5. \A w \in redisLate' : w.url # None => \E s \in Calls : MayHaveSaved(s, w.alias, w.url)'
  BY <1>1, <1>2, <1>3 DEF Sources, TypeOK, Writes
<1>6. ASSUME NEW c \in Calls, val'[c] # None
      PROVE  \E s \in Calls : MayHaveSaved(s, req[c].alias, val[c])'
  <2>1. req'[c] = req[c] /\ Source(req[c].alias, val'[c])
    BY <1>2, <1>6 DEF Sources
  <2>2. req[c].alias \in Aliases
    BY <1>3, <1>6, <2>1, RequestFields DEF TypeOK, CallOK, NoRequest
  <2> QED
    BY <1>1, <1>6, <2>1, <2>2
<1>7. \A a \in Aliases : db'[a] # None => \E s \in Calls : MayHaveSaved(s, a, db[a])'
  <2>1. \A a \in Aliases : Source(a, db[a])
    BY DEF Source
  <2> QED
    BY <1>1, <2>1, TableStep
<1> QED
  BY <1>4, <1>5, <1>6, <1>7 DEF ProvenanceInv, Provenance

(***************************************************************************)
(* Cache.Get never serves, and Redis never holds, a URL that no Save put   *)
(* under that alias: no flight, fill or late write crosses aliases, and a  *)
(* Save refused with ErrURLExist leaves no trace.                          *)
(***************************************************************************)
THEOREM ProvenanceHolds == Spec => []Provenance
<1>1. ProvenanceInv => Provenance
  BY DEF ProvenanceInv
<1> QED
  BY <1>1, InitLate, NextLate, InitProvenance, NextProvenance, TypeCorrect, PTL DEF Spec
-----------------------------------------------------------------------------
LEMMA InitCoherence == Init => CoherenceInv
BY DEF Init, PgInit, CoherenceInv

LEMMA NextCoherence == TypeOK /\ LateInv /\ CoherenceInv /\ [Next]_vars => CoherenceInv'
<1> SUFFICES ASSUME TypeOK, LateInv, CoherenceInv, [Next]_vars,
                    NEW a \in Aliases, MayHaveDeleted(a)' = {}
             PROVE  /\ redis'[a] \in {None, db'[a]}
                    /\ \A c \in Calls : req'[c].alias = a => val'[c] \in {None, db'[a]}
                    /\ \A w \in redisLate' : w.alias = a => w.url \in {None, db'[a]}
                    /\ \A s \in Calls :
                        pc'[s] \in {"Save.available", "Save.set"} /\ req'[s].alias = a
                            => req'[s].url = db'[a]
  BY DEF CoherenceInv
<1>1. MayHaveDeleted(a) = {}
  BY DeletedStable
<1>2. db[a] \in {None, db'[a]}
  BY TableStep
<1>3. ASSUME NEW u, Source(a, u) PROVE u \in {None, db'[a]}
  BY <1>1, <1>2, <1>3 DEF Source, CoherenceInv
<1>4. Sources
  BY NextSources
<1>5. redis'[a] \in {None, db'[a]}
  BY <1>3, <1>4 DEF Sources
<1>6. \A c \in Calls : req'[c].alias = a => val'[c] \in {None, db'[a]}
  BY <1>3, <1>4 DEF Sources
<1>7. \A w \in redisLate' : w.alias = a => w.url \in {None, db'[a]}
  BY <1>3, <1>4 DEF Sources
<1>8. ASSUME NEW s \in Calls, pc'[s] \in {"Save.available", "Save.set"}, req'[s].alias = a
      PROVE  req'[s].url = db'[a]
  <2>1. CallStep(s)
    BY NextCallStep
  <2>2. req'[s] = req[s] /\ pc[s] # "idle"
    BY <1>8, <2>1 DEF CallStep
  <2>3. CASE SaveInsert(s)
    <3>1. req[s] \in Requests /\ req[s].url \in URLs
      BY <2>3, ActiveRequest, RequestFields DEF AfterInsert, SaveInsert, TypeOK, CallOK, SavePCs
    <3>2. pc' = [pc EXCEPT ![s] = IF err'[s] = "nil" THEN "Save.available" ELSE "done"]
      BY <2>3 DEF AfterInsert, SaveInsert, Goto, TypeOK
    <3>3. err'[s] = "nil"
      BY <1>8, <3>2 DEF TypeOK
    <3>4. db' = [db EXCEPT ![a] = req[s].url]
      BY <1>8, <2>2, <2>3, <3>1, <3>3 DEF AfterInsert, SaveInsert, PgSave, WriteAbandoned, QueryFails, TableAfter,
         Insert, TypeOK
    <3> QED
      BY <2>2, <3>4 DEF TypeOK, PgTypeOK
  <2>4. CASE ~SaveInsert(s)
    <3>1. pc[s] \in {"Save.available", "Save.set"}
      <4>1. req[s].m = "Save"
        BY <1>8, <2>2, NextTypeOK DEF TypeOK, CallOK, SavePCs
      <4> QED
        BY <1>8, <2>1, <2>2, <2>4, <4>1 DEF CallStep, TypeOK, CallOK, PCs, SavePCs, GetPCs,
           FlightPCs, DeletePCs, DeleteDelete
    <3>2. req[s].url = db[a] /\ req[s].url \in URLs
      BY <1>1, <1>8, <2>2, <3>1, ActiveRequest, RequestFields DEF CoherenceInv, TypeOK, CallOK, SavePCs
    <3> QED
      BY <1>2, <2>2, <3>2, PgAssumption DEF PgAssumption
  <2> QED
    BY <2>3, <2>4
<1> QED
  BY <1>5, <1>6, <1>7, <1>8

(***************************************************************************)
(* Until a Delete may have removed an alias, Redis and every answer given  *)
(* agree with the table on it: a stale entry takes a Delete.               *)
(***************************************************************************)
THEOREM CoherentUntilDeletedHolds == Spec => []CoherentUntilDeleted
<1>1. CoherenceInv => CoherentUntilDeleted
  BY DEF CoherenceInv, CoherentUntilDeleted
<1> QED
  BY <1>1, InitLate, NextLate, InitCoherence, NextCoherence, TypeCorrect, PTL DEF Spec
-----------------------------------------------------------------------------
(* Counting calls. *)
LEMMA CardinalityOfCalls ==
    ASSUME NEW S \in SUBSET Calls, NEW T \in SUBSET Calls, S \subseteq T
    PROVE  /\ Cardinality(S) \in Nat /\ Cardinality(T) \in Nat
           /\ Cardinality(S) <= Cardinality(T)
           /\ \A x \in T : x \notin S => Cardinality(S) + 1 <= Cardinality(T)
<1>1. IsFiniteSet(S) /\ IsFiniteSet(T)
  BY CacheAssumption, FS_Subset DEF CacheAssumption
<1>2. Cardinality(S) \in Nat /\ Cardinality(T) \in Nat
  BY <1>1, FS_CardinalityType
<1>3. Cardinality(S) <= Cardinality(T)
  BY <1>1, FS_Subset
<1>4. ASSUME NEW x \in T, x \notin S PROVE Cardinality(S) + 1 <= Cardinality(T)
  <2>1. IsFiniteSet(S \cup {x}) /\ Cardinality(S \cup {x}) = Cardinality(S) + 1
    BY <1>1, <1>4, FS_AddElement
  <2>2. Cardinality(S \cup {x}) <= Cardinality(T)
    BY <1>1, <1>4, FS_Subset
  <2> QED
    BY <2>1, <2>2
<1> QED
  BY <1>2, <1>3, <1>4

(* The query of a Save: an acknowledgement takes a free alias. *)
LEMMA SaveInsertCounts ==
    ASSUME TypeOK, LateInv, [Next]_vars, NEW a \in Aliases, NEW c \in Calls, SaveInsert(c)
    PROVE  /\ Executed(a)' = Executed(a)
           /\ \/ Acknowledged(a)' = Acknowledged(a) /\ db'[a] = db[a]
              \/ /\ Acknowledged(a)' = Acknowledged(a) \cup {c}
                 /\ c \notin Acknowledged(a)
                 /\ db[a] = None /\ db'[a] # None
<1>1. req[c] \in Requests /\ req[c].m = "Save" /\ req[c].url \in URLs /\ req[c].url # None
  BY ActiveRequest, RequestFields, PgAssumption DEF PgAssumption, SaveInsert, TypeOK, CallOK, SavePCs
<1>2. PICK e \in Errors :
        /\ PgSave(c, CtxDone(c), req[c].url, req[c].alias, e)
        /\ pc' = [pc EXCEPT ![c] = IF e = "nil" THEN "Save.available" ELSE "done"]
        /\ err' = [err EXCEPT ![c] = e]
  BY DEF AfterInsert, SaveInsert, Goto
<1>3. req' = req /\ pc[c] = "Save.insert"
  BY DEF AfterInsert, SaveInsert
<1>4. MayHaveDeleted(a)' = MayHaveDeleted(a)
  BY <1>1, <1>2, <1>3 DEF MayHaveDeleted, TypeOK
<1>5. \A d \in Calls : d # c => (d \in {st.by : st \in dbLate'} <=> d \in {st.by : st \in dbLate})
  BY <1>2 DEF PgSave, WriteAbandoned, Insert
<1>6. c \notin MayHaveDeleted(a)
  BY <1>1 DEF MayHaveDeleted
<1>7. Executed(a)' = Executed(a)
  BY <1>4, <1>5, <1>6 DEF Executed, MayHaveDeleted
<1>8. c \notin Acknowledged(a)
  BY <1>3 DEF Acknowledged
<1>9. CASE e = "nil" /\ req[c].alias = a
  <2>1. Acknowledged(a)' = Acknowledged(a) \cup {c}
    BY <1>1, <1>2, <1>3, <1>9 DEF Acknowledged, TypeOK
  <2>2. db[a] = None /\ db'[a] # None
    BY <1>1, <1>2, <1>9 DEF PgSave, WriteAbandoned, QueryFails, TableAfter, Affects, Insert,
       TypeOK, PgTypeOK
  <2> QED
    BY <1>7, <1>8, <2>1, <2>2
<1>10. CASE ~(e = "nil" /\ req[c].alias = a)
  <2>1. Acknowledged(a)' = Acknowledged(a)
    BY <1>1, <1>2, <1>3, <1>10 DEF Acknowledged, TypeOK
  <2>2. db'[a] = db[a]
    BY <1>1, <1>2, <1>10 DEF PgSave, WriteAbandoned, TableAfter, Affects, Insert, TypeOK, PgTypeOK
  <2> QED
    BY <1>7, <2>1, <2>2
<1> QED
  BY <1>9, <1>10

(* Any other step: a row that disappears is one more Delete executed. *)
LEMMA OtherCounts ==
    ASSUME TypeOK, LateInv, [Next]_vars, NEW a \in Aliases, \A c \in Calls : ~SaveInsert(c)
    PROVE  /\ Acknowledged(a)' = Acknowledged(a)
           /\ Executed(a) \subseteq Executed(a)'
           /\ db'[a] = None /\ db[a] # None => \E x \in Executed(a)' : x \notin Executed(a)
<1>1. CASE \A c \in Calls : ~DeleteDelete(c)
  <2>1. Acknowledged(a)' = Acknowledged(a) /\ MayHaveDeleted(a)' = MayHaveDeleted(a)
    BY <1>1, QuietStep
  <2>2. CASE \A st \in dbLate : ~PgLate(st)
    BY <1>1, <2>1, <2>2, QuietTable DEF Executed
  <2>3. ASSUME NEW st \in dbLate, PgLate(st)
        PROVE  /\ Executed(a) \subseteq Executed(a)'
               /\ db'[a] = None /\ db[a] # None => \E x \in Executed(a)' : x \notin Executed(a)
    <3>1. dbLate' = dbLate \ {st}
      BY <2>3 DEF PgLate, LateStatement
    <3>2. Executed(a) \subseteq Executed(a)'
      BY <2>1, <3>1 DEF Executed
    <3>3. ASSUME db'[a] = None, db[a] # None PROVE st.by \in Executed(a)' /\ st.by \notin Executed(a)
      <4>1. st.alias = a /\ st.url = None
        BY <2>3, <3>3 DEF PgLate, LateStatement, TableAfter, TypeOK, PgTypeOK
      <4>2. st.by \in MayHaveDeleted(a)
        BY <4>1 DEF LateInv
      <4>3. st.by \notin {s.by : s \in dbLate'}
        BY <3>1 DEF LateInv
      <4> QED
        BY <2>1, <4>2, <4>3 DEF Executed
    <3> QED
      BY <3>2, <3>3
  <2> QED
    BY <2>1, <2>2, <2>3
<1>2. ASSUME NEW c \in Calls, DeleteDelete(c)
      PROVE  /\ Acknowledged(a)' = Acknowledged(a)
             /\ Executed(a) \subseteq Executed(a)'
             /\ db'[a] = None /\ db[a] # None => \E x \in Executed(a)' : x \notin Executed(a)
  <2>1. req[c].m = "Delete" /\ pc[c] = "Delete.delete" /\ req' = req
    BY <1>2 DEF DeleteDelete, TypeOK, CallOK, DeletePCs
  <2>2. PICK e \in Errors :
          /\ PgDelete(c, CtxDone(c), req[c].alias, e)
          /\ pc' = [pc EXCEPT ![c] = IF e = "nil" THEN "Delete.available" ELSE "done"]
          /\ err' = [err EXCEPT ![c] = e]
    BY <1>2 DEF DeleteDelete, Goto
  <2>3. Acknowledged(a)' = Acknowledged(a)
    BY <2>1, <2>2 DEF Acknowledged, TypeOK
  <2>4. MayHaveDeleted(a) \subseteq MayHaveDeleted(a)'
    BY DeletedStable
  <2>5. c \notin MayHaveDeleted(a) /\ c \notin {st.by : st \in dbLate}
    BY <2>1 DEF MayHaveDeleted, LateInv
  <2>6. \A d \in Calls : d # c => (d \in {st.by : st \in dbLate'} <=> d \in {st.by : st \in dbLate})
    BY <2>2 DEF PgDelete, WriteAbandoned, DeleteRow
  <2>7. Executed(a) \subseteq Executed(a)'
    BY <2>4, <2>5, <2>6 DEF Executed, MayHaveDeleted
  <2>8. ASSUME db'[a] = None, db[a] # None PROVE c \in Executed(a)' /\ c \notin Executed(a)
    <3>1. req[c].alias = a /\ e = "nil" /\ dbLate' = dbLate
      BY <2>2, <2>8 DEF PgDelete, WriteAbandoned, TableAfter, Affects, DeleteRow, TypeOK, PgTypeOK
    <3>2. c \in MayHaveDeleted(a)'
      BY <2>1, <2>2, <3>1 DEF MayHaveDeleted, TypeOK
    <3> QED
      BY <2>5, <3>1, <3>2 DEF Executed
  <2> QED
    BY <2>3, <2>7, <2>8
<1> QED
  BY <1>1, <1>2

LEMMA InitCreate == Init => CreateInv
<1> SUFFICES ASSUME Init, NEW a \in Aliases
             PROVE  Cardinality(Acknowledged(a))
                        <= Cardinality(Executed(a)) + (IF db[a] = None THEN 0 ELSE 1)
  BY DEF CreateInv
<1>1. Acknowledged(a) = {} /\ Executed(a) = {} /\ db[a] = None
  BY DEF Init, PgInit, Acknowledged, Executed, MayHaveDeleted, NoRequest
<1> QED
  BY <1>1, FS_EmptySet

LEMMA NextCreate == TypeOK /\ LateInv /\ CreateInv /\ [Next]_vars => CreateInv'
<1> SUFFICES ASSUME TypeOK, LateInv, CreateInv, [Next]_vars, NEW a \in Aliases
             PROVE  Cardinality(Acknowledged(a)')
                        <= Cardinality(Executed(a)') + (IF db'[a] = None THEN 0 ELSE 1)
  BY DEF CreateInv
<1>1. /\ Acknowledged(a) \in SUBSET Calls /\ Acknowledged(a)' \in SUBSET Calls
      /\ Executed(a) \in SUBSET Calls /\ Executed(a)' \in SUBSET Calls
  BY DEF Acknowledged, Executed, MayHaveDeleted
<1>2. Cardinality(Acknowledged(a)) <= Cardinality(Executed(a)) + (IF db[a] = None THEN 0 ELSE 1)
  BY DEF CreateInv
<1>3. Cardinality(Acknowledged(a)) \in Nat /\ Cardinality(Executed(a)) \in Nat
  BY <1>1, CardinalityOfCalls
<1>4. ASSUME NEW c \in Calls, SaveInsert(c)
      PROVE  Cardinality(Acknowledged(a)')
                <= Cardinality(Executed(a)') + (IF db'[a] = None THEN 0 ELSE 1)
  <2>1. /\ Executed(a)' = Executed(a)
        /\ \/ Acknowledged(a)' = Acknowledged(a) /\ db'[a] = db[a]
           \/ /\ Acknowledged(a)' = Acknowledged(a) \cup {c}
              /\ c \notin Acknowledged(a)
              /\ db[a] = None /\ db'[a] # None
    BY <1>4, SaveInsertCounts
  <2>2. CASE Acknowledged(a)' = Acknowledged(a) /\ db'[a] = db[a]
    BY <1>2, <2>1, <2>2
  <2>3. CASE /\ Acknowledged(a)' = Acknowledged(a) \cup {c}
             /\ c \notin Acknowledged(a)
             /\ db[a] = None /\ db'[a] # None
    <3>1. Cardinality(Acknowledged(a) \cup {c}) = Cardinality(Acknowledged(a)) + 1
      BY <1>1, <2>3, CacheAssumption, FS_Subset, FS_AddElement DEF CacheAssumption
    <3> QED
      BY <1>2, <1>3, <2>1, <2>3, <3>1
  <2> QED
    BY <2>1, <2>2, <2>3
<1>5. CASE \A c \in Calls : ~SaveInsert(c)
  <2>1. /\ Acknowledged(a)' = Acknowledged(a)
        /\ Executed(a) \subseteq Executed(a)'
        /\ db'[a] = None /\ db[a] # None => \E x \in Executed(a)' : x \notin Executed(a)
    BY <1>5, OtherCounts
  <2>2. /\ Cardinality(Executed(a)') \in Nat
        /\ Cardinality(Executed(a)) <= Cardinality(Executed(a)')
        /\ db'[a] = None /\ db[a] # None => Cardinality(Executed(a)) + 1 <= Cardinality(Executed(a)')
    BY <1>1, <2>1, CardinalityOfCalls
  <2> QED
    BY <1>2, <1>3, <2>1, <2>2
<1> QED
  BY <1>4, <1>5

(***************************************************************************)
(* PostgresRepo.Save under url_alias_key: per alias at most one Save more  *)
(* is acknowledged than Deletes may have freed the alias, for every number *)
(* of concurrent calls and every failure of theirs.                        *)
(***************************************************************************)
THEOREM ExclusiveCreateHolds == Spec => []ExclusiveCreate
<1>1. CreateInv => ExclusiveCreate
  <2> SUFFICES ASSUME CreateInv, NEW a \in Aliases
               PROVE  Cardinality(Acknowledged(a)) <= 1 + Cardinality(MayHaveDeleted(a))
    BY DEF ExclusiveCreate
  <2>1. Executed(a) \subseteq MayHaveDeleted(a) /\ Executed(a) \in SUBSET Calls
        /\ MayHaveDeleted(a) \in SUBSET Calls /\ Acknowledged(a) \in SUBSET Calls
    BY DEF Executed, MayHaveDeleted, Acknowledged
  <2>2. /\ Cardinality(Executed(a)) <= Cardinality(MayHaveDeleted(a))
        /\ Cardinality(Executed(a)) \in Nat /\ Cardinality(MayHaveDeleted(a)) \in Nat
        /\ Cardinality(Acknowledged(a)) \in Nat
    BY <2>1, CardinalityOfCalls
  <2> QED
    BY <2>2 DEF CreateInv
<1> QED
  BY <1>1, InitLate, NextLate, InitCreate, NextCreate, TypeCorrect, PTL DEF Spec
-----------------------------------------------------------------------------
(* Failures are only ever counted up, and a done context stays done. *)
LEMMA FailuresGrow ==
    ASSUME TypeOK, [Next]_vars
    PROVE  dbFaults <= dbFaults' /\ redisFaults <= redisFaults' /\ cancelled \subseteq cancelled'
<1> USE DEF TypeOK, PgTypeOK, pgVars, redisVars
<1>1. dbFaults <= dbFaults'
  BY DEF Next, Begin, Step, Save, SaveInsert, PgSave, SaveAvailable, SaveSet, Get, GetAvailable,
     GetRedis, GetDo, GetSelect, PgGet, ScanError, GetFillAvailable, GetFill, GetReturn, Delete, DeleteDelete,
     PgDelete, WriteAbandoned, QueryFails, DeleteAvailable, DeleteDel, CheckAvailable, Environment,
     Cancel, BreakerCloses, BreakerReopens, RedisExpire, RedisLateWrite, PgLate, LateStatement, vars
<1>2. redisFaults <= redisFaults'
  BY DEF Next, Begin, Step, Save, SaveInsert, SaveAvailable, SaveSet, Get, GetAvailable,
     GetRedis, GetHit, GetMiss, GetUnavailable, FallBack, RedisWrite, RedisFault, GetDo, GetSelect,
     GetFillAvailable, GetFill, GetReturn, Delete, DeleteDelete, DeleteAvailable, DeleteDel,
     CheckAvailable, Environment, Cancel, BreakerCloses, BreakerReopens, RedisExpire, RedisLateWrite, PgLate, vars
<1>3. cancelled \subseteq cancelled'
  BY DEF Next, Begin, Step, Save, SaveInsert, SaveAvailable, SaveSet, Get, GetAvailable,
     GetRedis, GetDo, GetSelect, GetFillAvailable, GetFill, GetReturn, Delete, DeleteDelete,
     DeleteAvailable, DeleteDel, CheckAvailable, Environment, Cancel, BreakerCloses, BreakerReopens, RedisExpire,
     RedisLateWrite, PgLate, vars
<1> QED
  BY <1>1, <1>2, <1>3

LEMMA NextBreaker == TypeOK /\ BreakerJustified /\ [Next]_vars => BreakerJustified'
<1> SUFFICES ASSUME TypeOK, BreakerJustified, [Next]_vars, breaker' # "closed"
             PROVE  redisFaults' > 0 \/ \E c \in Calls : CtxDone(c)' /\ PastRedis(c)'
  BY DEF BreakerJustified
<1>1. redisFaults \in Nat /\ redisFaults' \in Nat /\ redisFaults <= redisFaults'
  BY FailuresGrow, NextTypeOK DEF TypeOK
<1>2. \A c \in Calls : CtxDone(c) => CtxDone(c)'
  BY FailuresGrow DEF CtxDone
<1>3. CASE breaker # "closed"
  <2>1. ASSUME NEW c \in Calls, PastRedis(c) PROVE PastRedis(c)'
    <3>1. CallStep(c)
      BY NextCallStep
    <3>2. pc[c] # "idle"
      BY <2>1 DEF PastRedis, TypeOK, CallOK, NoRequest
    <3>3. ~SaveInsert(c) /\ ~DeleteDelete(c)
      BY <2>1 DEF PastRedis, SaveInsert, DeleteDelete, TypeOK, CallOK, SavePCs, DeletePCs
    <3> QED
      BY <2>1, <3>1, <3>2, <3>3 DEF CallStep, PastRedis
  <2> QED
    BY <1>1, <1>2, <1>3, <2>1 DEF BreakerJustified
<1>4. CASE breaker = "closed"
  <2>1. ASSUME NEW c \in Calls, NEW u, RedisWrite(c, u)
        PROVE  redisFaults' = redisFaults + 1 \/ CtxDone(c)
    BY <1>4, <2>1 DEF RedisWrite, RedisFault
  <2>2. ASSUME NEW c \in Calls, SaveSet(c) \/ DeleteDel(c)
        PROVE  redisFaults' = redisFaults + 1 \/ (CtxDone(c) /\ PastRedis(c)')
    <3>1. redisFaults' = redisFaults + 1 \/ CtxDone(c)
      BY <2>1, <2>2 DEF SaveSet, DeleteDel
    <3>2. PastRedis(c)'
      BY <2>2 DEF SaveSet, DeleteDel, Goto, PastRedis, TypeOK, CallOK, SavePCs, DeletePCs
    <3> QED
      BY <3>1, <3>2
  <2>3. ASSUME NEW c \in Calls, GetFill(c)
        PROVE  redisFaults' = redisFaults + 1 \/ (CtxDone(c) /\ PastRedis(c)')
    <3>1. redisFaults' = redisFaults + 1 \/ CtxDone(c)
      BY <2>1, <2>3 DEF GetFill
    <3>2. PastRedis(c)'
      BY <2>3 DEF GetFill, Goto, PastRedis, TypeOK, CallOK, GetPCs, FlightPCs
    <3> QED
      BY <3>1, <3>2
  <2>4. ASSUME NEW c \in Calls, GetRedis(c)
        PROVE  redisFaults' = redisFaults + 1 \/ (CtxDone(c) /\ PastRedis(c)')
    <3>1. GetUnavailable(c)
      BY <1>4, <2>4 DEF GetRedis, GetHit, GetMiss, redisVars
    <3>2. redisFaults' = redisFaults + 1 \/ CtxDone(c)
      BY <3>1 DEF GetUnavailable, RedisFault
    <3>3. PastRedis(c)'
      BY <2>4, <3>1 DEF GetRedis, GetUnavailable, FallBack, Goto, PastRedis, TypeOK, CallOK, GetPCs
    <3> QED
      BY <3>2, <3>3
  <2>5. \E c \in Calls : SaveSet(c) \/ DeleteDel(c) \/ GetFill(c) \/ GetRedis(c)
    BY <1>4 DEF Next, Begin, Step, Save, SaveInsert, SaveAvailable, Get, GetAvailable,
       GetDo, GetSelect, GetFillAvailable, GetReturn, Delete, DeleteDelete, DeleteAvailable,
       CheckAvailable, Environment, Cancel, BreakerCloses, BreakerReopens, RedisExpire, RedisLateWrite,
       PgLate, redisVars, vars
  <2> QED
    BY <1>1, <1>2, <2>2, <2>3, <2>4, <2>5
<1> QED
  BY <1>3, <1>4

(***************************************************************************)
(* Cache.Get, Save and Delete trip the breaker for a failed command only,  *)
(* never for a miss: a command that failed on the wire, or one of a call   *)
(* that got as far as Redis with its context done.                         *)
(***************************************************************************)
THEOREM BreakerJustifiedHolds == Spec => []BreakerJustified
<1>1. Init => BreakerJustified
  BY DEF Init, BreakerJustified
<1> QED
  BY <1>1, NextBreaker, TypeCorrect, PTL DEF Spec
-----------------------------------------------------------------------------
(* What a step can do to the error of one call. *)
LEMMA ErrorStep ==
    ASSUME TypeOK, [Next]_vars, NEW d \in Calls, err'[d] # err[d]
    PROVE  \/ err'[d] = "storage" /\ dbFaults' = dbFaults + 1
           \/ err'[d] = "context" /\ CtxDone(d) /\ cancelled' = cancelled
           \/ err'[d] \notin {"storage", "context"}
           \/ /\ req[d].m = "Get"
              /\ \E c \in Calls : /\ req[c].m = "Get"
                                   /\ req[c].alias = req[d].alias
                                   /\ err'[d] = err[c]
<1> DEFINE P == \/ err'[d] = "storage" /\ dbFaults' = dbFaults + 1
                \/ err'[d] = "context" /\ CtxDone(d) /\ cancelled' = cancelled
                \/ err'[d] \notin {"storage", "context"}
                \/ /\ req[d].m = "Get"
                   /\ \E c \in Calls : /\ req[c].m = "Get"
                                        /\ req[c].alias = req[d].alias
                                        /\ err'[d] = err[c]
<1>1. ASSUME NEW c \in Calls, SaveInsert(c) PROVE P
  BY <1>1 DEF AfterInsert, SaveInsert, PgSave, WriteAbandoned, QueryFails, TypeOK
<1>2. ASSUME NEW c \in Calls, DeleteDelete(c) PROVE P
  BY <1>2 DEF DeleteDelete, PgDelete, WriteAbandoned, QueryFails, TypeOK
<1>3. ASSUME NEW c \in Calls, GetSelect(c) PROVE P
  BY <1>3 DEF GetSelect, PgGet, ScanError, QueryFails, TypeOK
<1>4. ASSUME NEW c \in Calls, GetRedis(c) PROVE P
  BY <1>4 DEF GetRedis, GetHit, GetMiss, GetUnavailable, FallBack, Return, TypeOK
<1>5. ASSUME NEW c \in Calls, GetReturn(c) PROVE P
  BY <1>5 DEF GetReturn, Waiters, TypeOK, CallOK, GetPCs, FlightPCs
<1>6. \E c \in Calls : SaveInsert(c) \/ DeleteDelete(c) \/ GetSelect(c) \/ GetRedis(c) \/ GetReturn(c)
  <2> SUFFICES ASSUME \A c \in Calls : /\ ~SaveInsert(c) /\ ~DeleteDelete(c) /\ ~GetSelect(c)
                                       /\ ~GetRedis(c) /\ ~GetReturn(c)
               PROVE  err' = err
    OBVIOUS
  <2> QED
    BY DEF Next, Begin, Step, Save, SaveAvailable, SaveSet, Get, GetAvailable, GetDo,
       GetFillAvailable, GetFill, Delete, DeleteAvailable, DeleteDel, CheckAvailable, Environment,
       Cancel, BreakerCloses, BreakerReopens, RedisExpire, RedisLateWrite, PgLate, callVars, vars
<1> HIDE DEF P
<1>7. P
  BY <1>1, <1>2, <1>3, <1>4, <1>5, <1>6
<1> QED
  BY <1>7 DEF P

LEMMA NextErrors == TypeOK /\ ErrorsExplained /\ [Next]_vars => ErrorsExplained'
<1> SUFFICES ASSUME TypeOK, ErrorsExplained, [Next]_vars, NEW c \in Calls
             PROVE  /\ err'[c] = "storage" => dbFaults' > 0
                    /\ err'[c] = "context" =>
                        \/ CtxDone(c)'
                        \/ /\ req'[c].m = "Get"
                           /\ \E d \in Calls : /\ req'[d].m = "Get"
                                                /\ req'[d].alias = req'[c].alias
                                                /\ CtxDone(d)'
  BY DEF ErrorsExplained
<1>1. dbFaults \in Nat /\ dbFaults' \in Nat /\ dbFaults <= dbFaults'
  BY FailuresGrow, NextTypeOK DEF TypeOK, PgTypeOK
<1>2. \A d \in Calls : CtxDone(d) => CtxDone(d)'
  BY FailuresGrow DEF CtxDone
<1>3. \A d \in Calls : req[d].m = "Get" => req'[d] = req[d]
  BY NextCallStep DEF CallStep, TypeOK, CallOK, NoRequest
<1>4. err[c] # "nil" => req'[c] = req[c]
  BY NextCallStep DEF CallStep, TypeOK, CallOK
<1>5. CASE err'[c] = err[c]
  BY <1>1, <1>2, <1>3, <1>4, <1>5 DEF ErrorsExplained
<1>6. CASE err'[c] # err[c]
  <2>1. CASE err'[c] = "storage" /\ dbFaults' = dbFaults + 1
    BY <1>1, <2>1
  <2>2. CASE err'[c] = "context" /\ CtxDone(c)
    BY <1>2, <2>2
  <2>3. CASE req[c].m = "Get" /\ \E d \in Calls : /\ req[d].m = "Get"
                                                  /\ req[d].alias = req[c].alias
                                                  /\ err'[c] = err[d]
    <3>1. PICK d \in Calls : /\ req[d].m = "Get"
                             /\ req[d].alias = req[c].alias
                             /\ err'[c] = err[d]
      BY <2>3
    <3> QED
      BY <1>1, <1>2, <1>3, <2>3, <3>1 DEF ErrorsExplained
  <2> QED
    BY <1>6, <2>1, <2>2, <2>3, ErrorStep
<1> QED
  BY <1>5, <1>6

(***************************************************************************)
(* Every path of Cache falls back to the storage: whatever happens to      *)
(* Redis, a call fails only for a failed query, for its own client's       *)
(* disconnection, or for that of the Get whose flight it joined.           *)
(***************************************************************************)
THEOREM ErrorsExplainedHolds == Spec => []ErrorsExplained
<1>1. Init => ErrorsExplained
  BY DEF Init, ErrorsExplained
<1> QED
  BY <1>1, NextErrors, TypeCorrect, PTL DEF Spec
-----------------------------------------------------------------------------
(* How far a call is from its end: an upper bound of the steps it has left. *)
StepsLeft(l) ==
    CASE l = "idle" -> 9
      [] l = "Get.available" -> 8
      [] l = "Get.redis" -> 7
      [] l = "Get.do" -> 6
      [] l = "Get.select" -> 5
      [] l = "Get.fillAvailable" -> 4
      [] l \in {"Get.fill", "Save.insert", "Delete.delete"} -> 3
      [] l \in {"Get.return", "Save.available", "Delete.available"} -> 2
      [] l \in {"Get.wait", "Save.set", "Delete.del"} -> 1
      [] l = "done" -> 0

(***************************************************************************)
(* No call goes round in circles: a step of a call moves it on, and        *)
(* whatever moves a call, its own step or the end of the flight it waits   *)
(* for, brings it nearer to its end.  A call takes eight steps at most.    *)
(***************************************************************************)
CallsAdvance ==
    \A c \in Calls :
        /\ Step(c) => pc'[c] # pc[c]
        /\ pc'[c] # pc[c] => StepsLeft(pc'[c]) < StepsLeft(pc[c])

LEMMA NextAdvances == TypeOK /\ [Next]_vars => CallsAdvance
<1> SUFFICES ASSUME TypeOK, [Next]_vars, NEW c \in Calls
             PROVE  /\ Step(c) => pc'[c] # pc[c]
                    /\ pc'[c] # pc[c] => StepsLeft(pc'[c]) < StepsLeft(pc[c])
  BY DEF CallsAdvance
<1> DEFINE Moves(d) ==
        /\ \A b \in Calls : pc'[b] # pc[b] => StepsLeft(pc'[b]) < StepsLeft(pc[b])
        /\ pc'[d] # pc[d]
<1>1. ASSUME NEW d \in Calls, NEW l, Goto(d, l), StepsLeft(l) < StepsLeft(pc[d]), l # pc[d]
      PROVE  Moves(d)
  BY <1>1 DEF Goto, TypeOK
<1>2. ASSUME NEW d \in Calls, NEW r \in Requests, Begin(d, r) PROVE Moves(d)
  <2>1. FirstPC(r.m) \in {"Save.insert", "Get.available", "Delete.delete"}
    BY RequestFields DEF FirstPC
  <2>2. StepsLeft(FirstPC(r.m)) < StepsLeft("idle")
    BY <2>1 DEF StepsLeft
  <2> QED
    BY <1>1, <1>2, <2>1, <2>2 DEF Begin
<1>3. ASSUME NEW d \in Calls, Save(d) PROVE Moves(d)
  <2>1. /\ StepsLeft("Save.available") < StepsLeft("Save.insert")
        /\ StepsLeft("Save.set") < StepsLeft("Save.available")
        /\ StepsLeft("done") < StepsLeft("Save.insert")
        /\ StepsLeft("done") < StepsLeft("Save.available")
        /\ StepsLeft("done") < StepsLeft("Save.set")
    BY DEF StepsLeft
  <2>2. \/ pc[d] = "Save.insert" /\ (Goto(d, "Save.available") \/ Goto(d, "done"))
        \/ pc[d] = "Save.available" /\ (Goto(d, "Save.set") \/ Goto(d, "done"))
        \/ pc[d] = "Save.set" /\ Goto(d, "done")
    BY <1>3 DEF Save, SaveInsert, AfterInsert, SaveAvailable, SaveSet, CheckAvailable
  <2> QED
    BY <1>1, <2>1, <2>2
<1>4. ASSUME NEW d \in Calls, Delete(d) PROVE Moves(d)
  <2>1. /\ StepsLeft("Delete.available") < StepsLeft("Delete.delete")
        /\ StepsLeft("Delete.del") < StepsLeft("Delete.available")
        /\ StepsLeft("done") < StepsLeft("Delete.delete")
        /\ StepsLeft("done") < StepsLeft("Delete.available")
        /\ StepsLeft("done") < StepsLeft("Delete.del")
    BY DEF StepsLeft
  <2>2. \/ pc[d] = "Delete.delete" /\ (Goto(d, "Delete.available") \/ Goto(d, "done"))
        \/ pc[d] = "Delete.available" /\ (Goto(d, "Delete.del") \/ Goto(d, "done"))
        \/ pc[d] = "Delete.del" /\ Goto(d, "done")
    BY <1>4 DEF Delete, DeleteDelete, DeleteAvailable, DeleteDel, CheckAvailable
  <2> QED
    BY <1>1, <2>1, <2>2
<1>5. ASSUME NEW d \in Calls, Get(d), ~GetReturn(d) PROVE Moves(d)
  <2>1. /\ StepsLeft("Get.redis") < StepsLeft("Get.available")
        /\ StepsLeft("Get.do") < StepsLeft("Get.available")
        /\ StepsLeft("Get.do") < StepsLeft("Get.redis")
        /\ StepsLeft("done") < StepsLeft("Get.redis")
        /\ StepsLeft("Get.select") < StepsLeft("Get.do")
        /\ StepsLeft("Get.wait") < StepsLeft("Get.do")
    BY DEF StepsLeft
  <2>2. /\ StepsLeft("Get.fillAvailable") < StepsLeft("Get.select")
        /\ StepsLeft("Get.return") < StepsLeft("Get.select")
        /\ StepsLeft("Get.fill") < StepsLeft("Get.fillAvailable")
        /\ StepsLeft("Get.return") < StepsLeft("Get.fillAvailable")
        /\ StepsLeft("Get.return") < StepsLeft("Get.fill")
    BY DEF StepsLeft
  <2>3. CASE GetAvailable(d) \/ GetDo(d)
    <3>1. \/ pc[d] = "Get.available" /\ (Goto(d, "Get.redis") \/ Goto(d, "Get.do"))
          \/ pc[d] = "Get.do" /\ (Goto(d, "Get.select") \/ Goto(d, "Get.wait"))
      BY <2>3 DEF GetAvailable, GetDo, CheckAvailable
    <3> QED
      BY <1>1, <2>1, <3>1
  <2>4. CASE GetRedis(d)
    <3>1. pc[d] = "Get.redis" /\ (Goto(d, "done") \/ Goto(d, "Get.do"))
      BY <2>4 DEF GetRedis, GetHit, GetMiss, GetUnavailable, FallBack, Return
    <3> QED
      BY <1>1, <2>1, <3>1
  <2>5. CASE GetSelect(d) \/ GetFillAvailable(d) \/ GetFill(d)
    <3>1. \/ pc[d] = "Get.select" /\ (Goto(d, "Get.fillAvailable") \/ Goto(d, "Get.return"))
          \/ pc[d] = "Get.fillAvailable" /\ (Goto(d, "Get.fill") \/ Goto(d, "Get.return"))
          \/ pc[d] = "Get.fill" /\ Goto(d, "Get.return")
      BY <2>5 DEF GetSelect, GetFillAvailable, GetFill, CheckAvailable
    <3> QED
      BY <1>1, <2>2, <3>1
  <2> QED
    BY <1>5, <2>3, <2>4, <2>5 DEF Get
<1>6. ASSUME NEW d \in Calls, GetReturn(d) PROVE Moves(d)
  <2>1. \A b \in Calls : pc'[b] = pc[b] \/ (pc[b] \in {"Get.wait", "Get.return"} /\ pc'[b] = "done")
    BY <1>6 DEF GetReturn, Waiters
  <2>2. pc'[d] # pc[d]
    BY <1>6 DEF GetReturn
  <2>3. StepsLeft("done") < StepsLeft("Get.wait") /\ StepsLeft("done") < StepsLeft("Get.return")
    BY DEF StepsLeft
  <2> QED
    BY <2>1, <2>2, <2>3
<1>7. ASSUME Environment \/ UNCHANGED vars PROVE pc' = pc
  BY <1>7 DEF Environment, Cancel, BreakerCloses, BreakerReopens, RedisExpire, RedisLateWrite, PgLate,
     callVars, vars
<1>8. \A d \in Calls : Step(d) => Moves(d)
  BY <1>3, <1>4, <1>5, <1>6 DEF Step
<1> QED
  BY <1>2, <1>7, <1>8 DEF Next

(***************************************************************************)
(* Cache.Save, Get and Delete are loop-free under every interleaving: with *)
(* SingleFlightHolds, by which nobody waits for a flight that no active    *)
(* call leads, this is the part of CallsTerminate that is about safety.    *)
(***************************************************************************)
THEOREM CallsAlwaysAdvance == Spec => [][CallsAdvance]_vars
BY TypeCorrect, NextAdvances, PTL DEF Spec
=============================================================================
