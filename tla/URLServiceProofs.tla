-------------------------- MODULE URLServiceProofs --------------------------
(***************************************************************************)
(* The service runs on the cache as RedisCache describes it, so everything *)
(* proved there holds under it, for any number of clients and attempts.    *)
(***************************************************************************)
EXTENDS URLService, RedisCacheProofs

(* The current call of a client that may still make one. *)
LEMMA CurrentIsCall ==
    ASSUME ServiceTypeOK, NEW k \in Clients, attempt[k] <= MaxRetries
    PROVE  CurrentCall(k) \in Calls
BY ServiceAssumption DEF ServiceAssumption, ServiceTypeOK, CurrentCall

(* Init of the service, one conjunct at a time. *)
LEMMA InitService == ServiceInit => ServiceTypeOK /\ AttemptInv
<1> SUFFICES ASSUME ServiceInit PROVE ServiceTypeOK /\ AttemptInv
  OBVIOUS
<1> USE ServiceAssumption DEF ServiceAssumption
<1>1. ServiceTypeOK
  BY DEF ServiceInit, ServiceTypeOK
<1>2. AttemptInv
  BY DEF ServiceInit, Init, AttemptInv
<1> QED
  BY <1>1, <1>2

(* A step of a call or of the environment is a step of the cache and starts no call. *)
LEMMA IdleStays ==
    ASSUME TypeOK, (\E c \in Calls : Step(c)) \/ Environment, NEW d \in Calls, pc[d] = "idle"
    PROVE  pc'[d] = "idle"
<1>1. ASSUME NEW c \in Calls, Step(c) PROVE pc'[d] = "idle"
  BY <1>1 DEF Step, Save, SaveInsert, SaveAvailable, SaveSet, Get, GetAvailable, GetRedis, GetHit,
     GetMiss, GetUnavailable, FallBack, Return, GetDo, GetSelect, GetFillAvailable, GetFill,
     GetReturn, Waiters, Delete, DeleteDelete, DeleteAvailable, DeleteDel, CheckAvailable, Goto,
     TypeOK
<1>2. CASE Environment
  BY <1>2 DEF Environment, Cancel, BreakerCloses, BreakerReopens, RedisExpire, RedisLateWrite, PgLate, callVars
<1> QED
  BY <1>1, <1>2

(* What a step of the service can do: start the current call, or leave the cache alone. *)
LEMMA ServiceStep ==
    ASSUME ServiceTypeOK, NEW k \in Clients, Arrive(k) \/ Handle(k)
    PROVE  \/ vars' = vars
           \/ /\ attempt[k] <= MaxRetries /\ phase[k] \in {"new", "rolling"}
              /\ phase' = [phase EXCEPT ![k] = "calling"] /\ attempt' = attempt
              /\ \E r \in Requests : Begin(CurrentCall(k), r)
<1> USE ServiceAssumption DEF ServiceAssumption
<1>1. CASE CallOnce(k)
  <2>1. attempt[k] <= MaxRetries
    BY <1>1 DEF CallOnce, ServiceTypeOK
  <2> QED
    BY <1>1, <2>1 DEF CallOnce
<1>2. CASE Roll(k)
  <2>1. input[k].url \in URLs /\ phase[k] = "rolling"
    BY <1>2 DEF Roll, ServiceTypeOK, Generated, Inputs, NoInput
  <2>2. \A a \in Aliases : [m |-> "Save", alias |-> a, url |-> input[k].url] \in Requests
    BY <2>1 DEF Requests
  <2> QED
    BY <1>2, <2>1, <2>2 DEF Roll, AttemptsLeft
<1> QED
  BY <1>1, <1>2 DEF Arrive, Handle, Reject, RefuseBlank, StartRolling, GiveUp, GeneratorFails, Retry,
     Respond

(* Every step of the service is a step of the cache, or none. *)
LEMMA ServiceIsCache == ServiceTypeOK /\ [ServiceNext]_allVars => [Next]_vars
<1> SUFFICES ASSUME ServiceTypeOK, [ServiceNext]_allVars PROVE [Next]_vars
  OBVIOUS
<1>1. ASSUME NEW k \in Clients, Arrive(k) \/ Handle(k) PROVE [Next]_vars
  <2>1. vars' = vars \/ (CurrentCall(k) \in Calls /\ \E r \in Requests : Begin(CurrentCall(k), r))
    BY <1>1, ServiceStep, CurrentIsCall
  <2> QED
    BY <2>1 DEF Next
<1> QED
  BY <1>1 DEF ServiceNext, Next, allVars

LEMMA NextServiceType == TypeOK /\ ServiceTypeOK /\ [ServiceNext]_allVars => ServiceTypeOK'
<1> SUFFICES ASSUME TypeOK, ServiceTypeOK, [ServiceNext]_allVars PROVE ServiceTypeOK'
  OBVIOUS
<1> USE ServiceAssumption DEF ServiceAssumption
<1>0. \A m \in {"Save", "Get", "Delete"}, e \in Errors \cup {"ErrEmptyAlias"} :
        StatusOf(m, e) \in {200, 204, 302, 404, 409, 500}
  BY DEF StatusOf, Success, Errors
<1>1. [Next]_vars
  BY ServiceIsCache
<1>2. \A d \in Calls : pc[d] # "idle" => pc'[d] # "idle"
  BY <1>1, NextCallStep DEF CallStep
<1>3. ASSUME NEW k \in Clients, attempt[k] <= MaxRetries PROVE CurrentCall(k) \in Calls
  BY <1>3, CurrentIsCall
<1>4. ASSUME NEW k \in Clients, Reject(k) PROVE ServiceTypeOK'
  BY <1>4 DEF Reject, Answer, vars, ServiceTypeOK, CurrentCall, Generated
<1>5. ASSUME NEW k \in Clients, RefuseBlank(k) PROVE ServiceTypeOK'
  <2>1. PICK r \in Inputs :
            /\ r.alias = Blank /\ r.m # "Save"
            /\ input' = [input EXCEPT ![k] = r]
            /\ phase' = [phase EXCEPT ![k] = "answered"]
            /\ status' = [status EXCEPT ![k] = StatusOf(r.m, "ErrEmptyAlias")]
    BY <1>5 DEF RefuseBlank
  <2>2. StatusOf(r.m, "ErrEmptyAlias") \in {200, 204, 302, 404, 409, 500}
    BY <1>0 DEF Inputs
  <2> QED
    BY <1>5, <2>1, <2>2 DEF RefuseBlank, vars, ServiceTypeOK, CurrentCall, Generated
<1>6. ASSUME NEW k \in Clients, CallOnce(k) PROVE ServiceTypeOK'
  <2>1. PICK r \in Requests : input' = [input EXCEPT ![k] = r] /\ Begin(CurrentCall(k), r)
    BY <1>6 DEF CallOnce
  <2>2. r \in Inputs
    BY DEF Inputs, Requests
  <2>3. attempt[k] = 1 /\ CurrentCall(k) \in Calls
    BY <1>3, <1>6 DEF CallOnce, ServiceTypeOK
  <2>4. pc'[CurrentCall(k)] # "idle"
    BY <2>1, <2>3, RequestFields DEF Begin, Goto, FirstPC, TypeOK
  <2>5. UNCHANGED <<attempt, status, genFaults>> /\ phase' = [phase EXCEPT ![k] = "calling"]
    BY <1>6 DEF CallOnce
  <2>6. phase[k] = "new" /\ status[k] = 0
    BY <1>6 DEF CallOnce, ServiceTypeOK
  <2>7. r # NoInput
    BY RequestFields DEF NoInput
  <2> QED
    BY <1>2, <1>3, <2>1, <2>2, <2>3, <2>4, <2>5, <2>6, <2>7 DEF ServiceTypeOK, CurrentCall, Generated
<1>7. ASSUME NEW k \in Clients, StartRolling(k) PROVE ServiceTypeOK'
  <2>1. PICK u \in URLs : input' = [input EXCEPT ![k] = [m |-> "Save", alias |-> Blank, url |-> u]]
    BY <1>7 DEF StartRolling
  <2>2. [m |-> "Save", alias |-> Blank, url |-> u] \in Inputs
    BY DEF Inputs
  <2> QED
    BY <1>7, <2>1, <2>2 DEF StartRolling, vars, ServiceTypeOK, CurrentCall, Generated
<1>8. ASSUME NEW k \in Clients, GiveUp(k) \/ GeneratorFails(k) PROVE ServiceTypeOK'
  BY <1>8 DEF GiveUp, GeneratorFails, Answer, vars, ServiceTypeOK, CurrentCall, Generated
<1>9. ASSUME NEW k \in Clients, Roll(k) PROVE ServiceTypeOK'
  <2>1. PICK a \in Aliases :
            Begin(CurrentCall(k), [m |-> "Save", alias |-> a, url |-> input[k].url])
    BY <1>9 DEF Roll
  <2>2. attempt[k] <= MaxRetries /\ CurrentCall(k) \in Calls
    BY <1>3, <1>9 DEF Roll, AttemptsLeft
  <2>3. pc'[CurrentCall(k)] # "idle"
    BY <2>1, <2>2 DEF Begin, Goto, FirstPC, TypeOK
  <2>4. UNCHANGED <<input, attempt, status, genFaults>> /\ phase' = [phase EXCEPT ![k] = "calling"]
    BY <1>9 DEF Roll
  <2>5. phase[k] = "rolling" /\ status[k] = 0
    BY <1>9 DEF Roll, ServiceTypeOK
  <2> QED
    BY <1>2, <1>3, <2>2, <2>3, <2>4, <2>5 DEF ServiceTypeOK, CurrentCall, Generated, NoInput
<1>10. ASSUME NEW k \in Clients, Retry(k) PROVE ServiceTypeOK'
  BY <1>10 DEF Retry, Collided, NextAttempt, vars, ServiceTypeOK, CurrentCall, Generated
<1>11. ASSUME NEW k \in Clients, Respond(k) PROVE ServiceTypeOK'
  <2>1. input[k].m \in {"Save", "Get", "Delete"} /\ err[CurrentCall(k)] \in Errors
    <3>1. CurrentCall(k) \in Calls
      BY <1>3, <1>11 DEF Respond, ServiceTypeOK
    <3>2. input[k].m \in {"Save", "Get", "Delete"}
      BY <1>11 DEF Respond, ServiceTypeOK, Inputs
    <3> QED
      BY <3>1, <3>2 DEF TypeOK
  <2>2. StatusOf(input[k].m, err[CurrentCall(k)]) \in {200, 204, 302, 404, 409, 500}
    BY <1>0, <2>1
  <2> QED
    BY <1>11, <2>2 DEF Respond, Answer, vars, ServiceTypeOK, CurrentCall, Generated
<1>12. CASE UNCHANGED serviceVars
  BY <1>2, <1>3, <1>12 DEF serviceVars, ServiceTypeOK, CurrentCall, Generated
<1> QED
  BY <1>4, <1>5, <1>6, <1>7, <1>8, <1>9, <1>10, <1>11, <1>12
     DEF ServiceNext, Arrive, Handle, allVars

(***************************************************************************)
(* The detailed service implements the cache's own specification: whatever *)
(* the handlers and the retry loop do, the calls they make are calls as    *)
(* RedisCache describes them, one at a time per call.                      *)
(***************************************************************************)
THEOREM ServiceImplementsCache == ServiceSpec => Spec
<1>1. ServiceInit => Init
  BY DEF ServiceInit
<1>2. ServiceSpec => [](TypeOK /\ ServiceTypeOK)
  <2>1. ServiceInit => TypeOK /\ ServiceTypeOK
    BY <1>1, InitTypeOK, InitService
  <2>2. TypeOK /\ ServiceTypeOK /\ [ServiceNext]_allVars => (TypeOK /\ ServiceTypeOK)'
    BY ServiceIsCache, NextTypeOK, NextServiceType
  <2> QED
    BY <2>1, <2>2, PTL DEF ServiceSpec
<1> QED
  BY <1>1, <1>2, ServiceIsCache, PTL DEF ServiceSpec, Spec

(***************************************************************************)
(* The service's variables keep their types, a handler waits only for a    *)
(* call it has made, and the retry loop never leaves 1 .. MaxRetries + 1.  *)
(***************************************************************************)
THEOREM ServiceTypeCorrect == ServiceSpec => []ServiceTypeOK
BY InitService, NextServiceType, TypeCorrect, ServiceImplementsCache, PTL DEF ServiceSpec

(***************************************************************************)
(* Through the service too, the Saves that succeed on an alias outnumber   *)
(* the Deletes that may have freed it by one at most.                      *)
(***************************************************************************)
THEOREM ServiceExclusiveCreate == ServiceSpec => []ExclusiveCreate
BY ServiceImplementsCache, ExclusiveCreateHolds, PTL
-----------------------------------------------------------------------------
(* A call that has returned keeps its error. *)
LEMMA DoneStays ==
    ASSUME TypeOK, [Next]_vars, NEW d \in Calls, pc[d] = "done"
    PROVE  pc'[d] = "done" /\ err'[d] = err[d]
<1>1. ~SaveInsert(d) /\ ~DeleteDelete(d)
  BY DEF SaveInsert, DeleteDelete
<1> QED
  BY <1>1, NextCallStep DEF CallStep

LEMMA NextAttemptInv ==
    TypeOK /\ ServiceTypeOK /\ AttemptInv /\ [ServiceNext]_allVars => AttemptInv'
<1> SUFFICES ASSUME TypeOK, ServiceTypeOK, AttemptInv, [ServiceNext]_allVars,
                    NEW j \in Clients, NEW n \in 1 .. MaxRetries
             PROVE  /\ n < attempt'[j] => pc'[<<j, n>>] = "done" /\ err'[<<j, n>>] = "ErrURLExist"
                    /\ n > attempt'[j] => pc'[<<j, n>>] = "idle"
                    /\ n = attempt'[j] /\ phase'[j] \in {"new", "rolling"} => pc'[<<j, n>>] = "idle"
  BY DEF AttemptInv
<1> DEFINE d == <<j, n>>
<1> USE ServiceAssumption DEF ServiceAssumption
<1>1. d \in Calls /\ attempt[j] \in 1 .. MaxRetries + 1
  BY DEF ServiceTypeOK
<1>2. [Next]_vars
  BY ServiceIsCache
<1>3. /\ n < attempt[j] => pc[d] = "done" /\ err[d] = "ErrURLExist"
      /\ n > attempt[j] => pc[d] = "idle"
      /\ n = attempt[j] /\ phase[j] \in {"new", "rolling"} => pc[d] = "idle"
  BY DEF AttemptInv
<1>4. pc[d] = "done" => pc'[d] = "done" /\ err'[d] = err[d]
  BY <1>1, <1>2, DoneStays
<1> HIDE DEF d
<1>5. CASE UNCHANGED serviceVars
  <2>1. CASE (\E c \in Calls : Step(c)) \/ Environment
    <3>1. pc[d] = "idle" => pc'[d] = "idle"
      BY <1>1, <2>1, IdleStays
    <3> QED
      BY <1>3, <1>4, <1>5, <3>1 DEF serviceVars, d
  <2>2. CASE UNCHANGED vars
    BY <1>3, <1>5, <2>2 DEF serviceVars, vars, d
  <2>3. ASSUME NEW k \in Clients, Arrive(k) \/ Handle(k) PROVE UNCHANGED vars
    <3>1. phase[k] \in {"new", "rolling"} => phase' # [phase EXCEPT ![k] = "calling"]
      BY <1>5 DEF serviceVars, ServiceTypeOK
    <3> QED
      BY <2>3, <3>1, ServiceStep
  <2> QED
    BY <2>1, <2>2, <2>3 DEF ServiceNext, allVars
<1>6. ASSUME NEW k \in Clients, Retry(k) PROVE
        /\ n < attempt'[j] => pc'[d] = "done" /\ err'[d] = "ErrURLExist"
        /\ n > attempt'[j] => pc'[d] = "idle"
        /\ n = attempt'[j] /\ phase'[j] \in {"new", "rolling"} => pc'[d] = "idle"
  <2>1. /\ pc' = pc /\ err' = err
        /\ attempt' = [attempt EXCEPT ![k] = attempt[k] + 1]
        /\ phase' = [phase EXCEPT ![k] = "rolling"]
        /\ pc[<<k, attempt[k]>>] = "done" /\ err[<<k, attempt[k]>>] = "ErrURLExist"
    BY <1>6 DEF Retry, Collided, NextAttempt, CurrentCall, vars
  <2>2. CASE j = k
    <3>1. attempt'[j] = attempt[j] + 1
      BY <2>1, <2>2 DEF ServiceTypeOK
    <3>2. n = attempt[j] => pc[d] = "done" /\ err[d] = "ErrURLExist"
      BY <2>1, <2>2 DEF d
    <3> QED
      BY <1>1, <1>3, <2>1, <3>1, <3>2
  <2>3. CASE j # k
    BY <1>3, <2>1, <2>3 DEF ServiceTypeOK
  <2> QED
    BY <2>2, <2>3
<1>7. ASSUME NEW k \in Clients, Arrive(k) \/ Handle(k), ~Retry(k) PROVE
        /\ n < attempt'[j] => pc'[d] = "done" /\ err'[d] = "ErrURLExist"
        /\ n > attempt'[j] => pc'[d] = "idle"
        /\ n = attempt'[j] /\ phase'[j] \in {"new", "rolling"} => pc'[d] = "idle"
  <2>1. CASE vars' = vars
    <3>1. attempt' = attempt
      BY <1>7 DEF Arrive, Handle, Reject, RefuseBlank, CallOnce, StartRolling, GiveUp,
         GeneratorFails, Roll, Respond, Answer
    <3>2. phase'[j] \in {"new", "rolling"} => phase[j] \in {"new", "rolling"}
      BY <1>7 DEF Arrive, Handle, Reject, RefuseBlank, CallOnce, StartRolling, GiveUp,
         GeneratorFails, Roll, Respond, Answer, ServiceTypeOK
    <3> QED
      BY <1>3, <2>1, <3>1, <3>2 DEF vars
  <2>2. CASE /\ attempt[k] <= MaxRetries /\ phase[k] \in {"new", "rolling"}
             /\ phase' = [phase EXCEPT ![k] = "calling"] /\ attempt' = attempt
             /\ \E r \in Requests : Begin(CurrentCall(k), r)
    <3>1. d # CurrentCall(k) => pc'[d] = pc[d]
      BY <1>1, <2>2 DEF Begin, Goto, TypeOK
    <3>2. d = CurrentCall(k) => j = k /\ n = attempt[j]
      BY DEF CurrentCall, d
    <3>3. phase'[j] \in {"new", "rolling"} => phase[j] \in {"new", "rolling"} /\ j # k
      BY <2>2 DEF ServiceTypeOK
    <3> QED
      BY <1>1, <1>3, <1>4, <2>2, <3>1, <3>2, <3>3
  <2> QED
    BY <1>7, <2>1, <2>2, ServiceStep
<1> QED
  BY <1>5, <1>6, <1>7 DEF ServiceNext, allVars, d

(***************************************************************************)
(* A request leaves at most one row behind, for every number of clients,   *)
(* aliases and retries and every pattern of failures: saveGeneratedAlias   *)
(* rolls again only when the insert before was refused.                    *)
(***************************************************************************)
THEOREM OneRowPerRequestHolds == ServiceSpec => []OneRowPerRequest
<1>1. TypeOK /\ ServiceTypeOK /\ AttemptInv => OneRowPerRequest
  <2> SUFFICES ASSUME TypeOK, ServiceTypeOK, AttemptInv, NEW k \in Clients,
                      NEW n \in 1 .. MaxRetries, NEW a, NEW u,
                      req[<<k, n>>].m = "Save", MayHaveSaved(<<k, n>>, a, u)
               PROVE  n = attempt[k]
    BY DEF OneRowPerRequest
  <2>1. <<k, n>> \in Calls
    BY ServiceAssumption DEF ServiceAssumption
  <2>2. pc[<<k, n>>] # "idle" /\ err[<<k, n>>] # "ErrURLExist"
    BY <2>1 DEF MayHaveSaved, TypeOK, CallOK, NoRequest
  <2> QED
    BY <2>2, ServiceAssumption DEF AttemptInv, ServiceTypeOK, ServiceAssumption
<1> QED
  BY <1>1, InitService, NextAttemptInv, TypeCorrect, ServiceImplementsCache, ServiceTypeCorrect, PTL
     DEF ServiceSpec
-----------------------------------------------------------------------------
(***************************************************************************)
(* Which call can have which error: only a Save is refused with            *)
(* ErrURLExist, and no Save ends with ErrURLNotFound.                      *)
(***************************************************************************)
ErrorKinds ==
    \A c \in Calls : /\ err[c] = "ErrURLExist" => req[c].m = "Save"
                     /\ err[c] = "ErrURLNotFound" => req[c].m # "Save"

(* A Save is refused only because the table has a row for its alias. *)
LEMMA ErrorKindStep ==
    ASSUME TypeOK, ErrorKinds, [Next]_vars, NEW d \in Calls, err'[d] # err[d]
    PROVE  /\ req'[d] = req[d]
           /\ \/ /\ SaveInsert(d) /\ req[d].m = "Save" /\ err'[d] # "ErrURLNotFound"
                 /\ err'[d] = "ErrURLExist" => db[req[d].alias] # None
              \/ req[d].m # "Save" /\ err'[d] # "ErrURLExist"
<1>1. SaveInsert(d) \/ DeleteDelete(d) \/ (req[d].m = "Get" /\ pc[d] # "done")
  BY NextCallStep DEF CallStep
<1>2. CASE SaveInsert(d)
  <2>1. req[d] \in Requests /\ req[d].m = "Save" /\ req' = req
    BY <1>2, ActiveRequest DEF SaveInsert, TypeOK, CallOK, SavePCs
  <2>2. PICK e \in Errors : PgSave(d, CtxDone(d), req[d].url, req[d].alias, e) /\ err'[d] = e
    BY <1>2 DEF SaveInsert, TypeOK
  <2>3. req[d].url # None
    BY <2>1, PgAssumption DEF PgAssumption, Requests
  <2>4. e # "ErrURLNotFound" /\ (e = "ErrURLExist" => db[req[d].alias] # None)
    BY <2>2, <2>3 DEF PgSave, Affects, Insert, WriteAbandoned, QueryFails
  <2> QED
    BY <1>2, <2>1, <2>2, <2>4
<1>3. CASE DeleteDelete(d)
  <2>1. req[d].m = "Delete" /\ req' = req
    BY <1>3 DEF DeleteDelete, TypeOK, CallOK, DeletePCs
  <2>2. err'[d] # "ErrURLExist"
    BY <1>3 DEF DeleteDelete, PgDelete, WriteAbandoned, QueryFails, TypeOK
  <2> QED
    BY <2>1, <2>2
<1>4. CASE req[d].m = "Get"
  <2>1. req'[d] = req[d]
    BY <1>4, NextCallStep DEF CallStep, TypeOK, CallOK, NoRequest
  <2>2. err'[d] # "ErrURLExist"
    <3>1. \A c \in Calls : req[c].m = "Get" => err[c] # "ErrURLExist"
      BY DEF ErrorKinds
    <3>2. ASSUME NEW c \in Calls, SaveInsert(c) \/ DeleteDelete(c) PROVE err'[d] = err[d]
      BY <1>4, <3>2 DEF SaveInsert, DeleteDelete, TypeOK, CallOK, SavePCs, DeletePCs
    <3>3. ASSUME NEW c \in Calls, GetSelect(c) PROVE err'[d] # "ErrURLExist"
      BY <1>4, <3>1, <3>3 DEF GetSelect, PgGet, ScanError, QueryFails, TypeOK
    <3>4. ASSUME NEW c \in Calls, GetRedis(c) PROVE err'[d] # "ErrURLExist"
      BY <1>4, <3>1, <3>4 DEF GetRedis, GetHit, GetMiss, GetUnavailable, FallBack, Return, TypeOK
    <3>5. ASSUME NEW c \in Calls, GetReturn(c) PROVE err'[d] # "ErrURLExist"
      BY <1>4, <3>1, <3>5 DEF GetReturn, Waiters, TypeOK, CallOK, GetPCs, FlightPCs
    <3>6. \E c \in Calls :
            SaveInsert(c) \/ DeleteDelete(c) \/ GetSelect(c) \/ GetRedis(c) \/ GetReturn(c)
      <4> SUFFICES ASSUME \A c \in Calls : /\ ~SaveInsert(c) /\ ~DeleteDelete(c) /\ ~GetSelect(c)
                                           /\ ~GetRedis(c) /\ ~GetReturn(c)
                   PROVE  err' = err
        OBVIOUS
      <4> QED
        BY DEF Next, Begin, Step, Save, SaveAvailable, SaveSet, Get, GetAvailable, GetDo,
           GetFillAvailable, GetFill, Delete, DeleteAvailable, DeleteDel, CheckAvailable, Environment,
           Cancel, BreakerCloses, BreakerReopens, RedisExpire, RedisLateWrite, PgLate, callVars, vars
    <3> QED
      BY <3>2, <3>3, <3>4, <3>5, <3>6
  <2> QED
    BY <1>4, <2>1, <2>2
<1> QED
  BY <1>1, <1>2, <1>3, <1>4

(* A call keeps its request once it has an error. *)
LEMMA RequestStays ==
    ASSUME TypeOK, [Next]_vars, NEW d \in Calls, err[d] # "nil" \/ pc[d] # "idle"
    PROVE  req'[d] = req[d]
BY NextCallStep DEF CallStep, TypeOK, CallOK

LEMMA NextErrorKinds == TypeOK /\ ErrorKinds /\ [Next]_vars => ErrorKinds'
<1> SUFFICES ASSUME TypeOK, ErrorKinds, [Next]_vars, NEW c \in Calls
             PROVE  /\ err'[c] = "ErrURLExist" => req'[c].m = "Save"
                    /\ err'[c] = "ErrURLNotFound" => req'[c].m # "Save"
  BY DEF ErrorKinds
<1>1. CASE err'[c] = err[c]
  BY <1>1, RequestStays DEF ErrorKinds
<1>2. CASE err'[c] # err[c]
  BY <1>2, ErrorKindStep
<1> QED
  BY <1>1, <1>2

(* A Save that may have left its row is the current attempt of its client. *)
LEMMA SavedIsCurrent ==
    ASSUME TypeOK, ServiceTypeOK, AttemptInv, NEW k \in Clients, NEW n \in 1 .. MaxRetries,
           pc[<<k, n>>] # "idle", err[<<k, n>>] # "ErrURLExist"
    PROVE  n = attempt[k]
BY ServiceAssumption DEF AttemptInv, ServiceTypeOK, ServiceAssumption

LEMMA NextConflict ==
    /\ TypeOK /\ ServiceTypeOK /\ AttemptInv /\ ProvenanceInv /\ ErrorKinds
    /\ ConflictIsForeign /\ [ServiceNext]_allVars
    => ConflictIsForeign'
<1> SUFFICES ASSUME TypeOK, ServiceTypeOK, AttemptInv, ProvenanceInv, ErrorKinds,
                    ConflictIsForeign, [ServiceNext]_allVars,
                    NEW k \in Clients, NEW n \in 1 .. MaxRetries, err'[<<k, n>>] = "ErrURLExist"
             PROVE  \E c \in Calls : /\ c[1] # k
                                     /\ MayHaveSaved(c, req[<<k, n>>].alias, req[c].url)'
  BY DEF ConflictIsForeign
<1> DEFINE d == <<k, n>>
<1>1. d \in Calls /\ [Next]_vars
  BY ServiceIsCache, ServiceAssumption DEF ServiceAssumption
<1>2. CASE err[d] = "ErrURLExist"
  <2>1. PICK c \in Calls : c[1] # k /\ MayHaveSaved(c, req[d].alias, req[c].url)
    BY <1>2 DEF ConflictIsForeign
  <2>2. req'[d] = req[d] /\ req[d].alias \in Aliases
    BY <1>1, <1>2, RequestStays, RequestFields DEF TypeOK, CallOK
  <2>3. MayHaveSaved(c, req[d].alias, req[c].url)' /\ req'[c] = req[c]
    <3>1. pc[c] # "idle"
      BY <2>1 DEF MayHaveSaved, TypeOK, CallOK, NoRequest
    <3>2. req'[c] = req[c]
      BY <1>1, <3>1, RequestStays
    <3>3. \A a \in Aliases, u \in {req[c].url} : MayHaveSaved(c, a, u) => MayHaveSaved(c, a, u)'
      BY <1>1, SavedStable
    <3> QED
      BY <2>1, <2>2, <3>2, <3>3 DEF MayHaveSaved
  <2> QED
    BY <2>1, <2>3
<1>3. CASE err[d] # "ErrURLExist"
  <2>1. /\ SaveInsert(d) /\ req'[d] = req[d] /\ db[req[d].alias] # None
    BY <1>1, <1>3, ErrorKindStep
  <2>2. pc[d] = "Save.insert" /\ req[d].alias \in Aliases
    BY <1>1, <2>1, ActiveRequest, RequestFields DEF SaveInsert
  <2>3. PICK c \in Calls : MayHaveSaved(c, req[d].alias, db[req[d].alias])
    BY <2>1, <2>2 DEF ProvenanceInv
  <2>4. pc[c] \notin {"idle", "Save.insert"} /\ err[c] # "ErrURLExist"
        /\ req[c].url = db[req[d].alias]
    BY <2>3 DEF MayHaveSaved, TypeOK, CallOK, NoRequest
  <2>5. c[1] # k
    <3> SUFFICES ASSUME c[1] = k PROVE FALSE
      OBVIOUS
    <3>1. PICK m \in 1 .. MaxRetries : c = <<k, m>>
      BY ServiceAssumption DEF ServiceAssumption
    <3>2. m = attempt[k]
      BY <2>4, <3>1, SavedIsCurrent
    <3>3. n = attempt[k]
      BY <1>3, <2>2, SavedIsCurrent
    <3> QED
      BY <2>2, <2>4, <3>1, <3>2, <3>3
  <2>6. req'[c] = req[c]
    BY <1>1, <2>4, RequestStays
  <2>7. \A a \in Aliases, u \in {req[c].url} : MayHaveSaved(c, a, u) => MayHaveSaved(c, a, u)'
    BY <1>1, SavedStable
  <2> QED
    BY <2>1, <2>2, <2>3, <2>4, <2>5, <2>6, <2>7 DEF MayHaveSaved
<1> QED
  BY <1>2, <1>3

(* What the service and the cache keep together. *)
ServiceInv == TypeOK /\ ServiceTypeOK /\ AttemptInv /\ LateInv /\ ProvenanceInv /\ ErrorKinds

LEMMA ServiceInvHolds == ServiceSpec => []ServiceInv
<1>1. ServiceInit => ServiceInv
  <2>1. Init => ErrorKinds
    BY DEF Init, ErrorKinds
  <2> QED
    BY <2>1, InitTypeOK, InitService, InitLate, InitProvenance DEF ServiceInit, ServiceInv
<1>2. ServiceInv /\ [ServiceNext]_allVars => ServiceInv'
  BY ServiceIsCache, NextTypeOK, NextServiceType, NextAttemptInv, NextLate, NextProvenance,
     NextErrorKinds DEF ServiceInv
<1> QED
  BY <1>1, <1>2, PTL DEF ServiceSpec

(***************************************************************************)
(* A conflict is always somebody else's doing: no request is refused, and  *)
(* no retry is spent, because of a row of its own.                         *)
(***************************************************************************)
THEOREM ConflictIsForeignHolds == ServiceSpec => []ConflictIsForeign
<1>1. ServiceInit => ConflictIsForeign
  BY ServiceAssumption DEF ServiceAssumption, ServiceInit, Init, ConflictIsForeign
<1>2. ServiceInv /\ ConflictIsForeign /\ [ServiceNext]_allVars => ConflictIsForeign'
  BY NextConflict DEF ServiceInv
<1> QED
  BY <1>1, <1>2, ServiceInvHolds, PTL DEF ServiceSpec

(***************************************************************************)
(* What explains the end of a Save without an alias: a failure, the client *)
(* gone, or the last attempt spent.  A request is recorded when its        *)
(* handler starts, and the call of such a Save is a Save.                  *)
(***************************************************************************)
Explained(k) ==
    dbFaults > 0 \/ genFaults > 0 \/ k \in cancelled \/ attempt[k] = MaxRetries + 1

HonestInv ==
    \A k \in Clients :
        /\ phase[k] = "new" => input[k] = NoInput
        /\ Generated(k) /\ phase[k] = "calling" => req[CurrentCall(k)].m = "Save"
        /\ Generated(k) /\ phase[k] = "answered" /\ status[k] # 200 =>
            status[k] = 500 /\ Explained(k)

(* The answer to a Save that was neither stored nor refused. *)
LEMMA SaveStatus ==
    /\ StatusOf("Save", "nil") = 200
    /\ StatusOf("Save", "storage") = 500
    /\ StatusOf("Save", "context") = 500
BY DEF StatusOf, Success

LEMMA NextHonest ==
    ServiceInv /\ ErrorsExplained /\ HonestInv /\ [ServiceNext]_allVars => HonestInv'
<1> SUFFICES ASSUME ServiceInv, ErrorsExplained, HonestInv, [ServiceNext]_allVars PROVE HonestInv'
  OBVIOUS
<1> USE ServiceAssumption DEF ServiceAssumption
<1>0. TypeOK /\ ServiceTypeOK /\ ErrorKinds /\ [Next]_vars /\ genFaults \in Nat
  BY ServiceIsCache DEF ServiceInv, ServiceTypeOK
<1>1. dbFaults \in Nat /\ dbFaults' \in Nat /\ dbFaults <= dbFaults' /\ cancelled \subseteq cancelled'
  BY <1>0, FailuresGrow, NextTypeOK DEF TypeOK, PgTypeOK
<1>2. \A d \in Calls : pc[d] # "idle" => req'[d] = req[d]
  BY <1>0, RequestStays
<1>3. ASSUME NEW j \in Clients, UNCHANGED <<phase[j], input[j], attempt[j], status[j]>>,
             genFaults' \in {genFaults, genFaults + 1}
      PROVE  /\ phase'[j] = "new" => input'[j] = NoInput
             /\ Generated(j)' /\ phase'[j] = "calling" => req'[CurrentCall(j)'].m = "Save"
             /\ Generated(j)' /\ phase'[j] = "answered" /\ status'[j] # 200 =>
                    status'[j] = 500 /\ Explained(j)'
  <2>1. Generated(j)' <=> Generated(j)
    BY <1>3 DEF Generated
  <2>2. Explained(j) => Explained(j)'
    BY <1>0, <1>1, <1>3 DEF Explained
  <2>3. phase[j] = "calling" => req'[CurrentCall(j)'] = req[CurrentCall(j)]
    BY <1>0, <1>2, <1>3, CurrentIsCall DEF ServiceTypeOK, CurrentCall
  <2> QED
    BY <1>3, <2>1, <2>2, <2>3 DEF HonestInv
<1> DEFINE Good(k) ==
      /\ phase'[k] = "new" => input'[k] = NoInput
      /\ Generated(k)' /\ phase'[k] = "calling" => req'[CurrentCall(k)'].m = "Save"
      /\ Generated(k)' /\ phase'[k] = "answered" /\ status'[k] # 200 =>
            status'[k] = 500 /\ Explained(k)'
<1>4. ASSUME NEW k \in Clients, Arrive(k) \/ Handle(k)
      PROVE  /\ genFaults' \in {genFaults, genFaults + 1}
             /\ \A j \in Clients \ {k} : UNCHANGED <<phase[j], input[j], attempt[j], status[j]>>
  <2>1. genFaults' \in {genFaults, genFaults + 1}
    BY <1>4 DEF Arrive, Handle, Reject, RefuseBlank, CallOnce, StartRolling, GiveUp, GeneratorFails,
       Roll, Retry, Respond
  <2>2. \A j \in Clients \ {k} : UNCHANGED <<phase[j], input[j], attempt[j], status[j]>>
    BY <1>0, <1>4 DEF Arrive, Handle, Reject, RefuseBlank, CallOnce, StartRolling, GiveUp,
       GeneratorFails, Roll, Retry, Respond, Answer, ServiceTypeOK
  <2> QED
    BY <2>1, <2>2
<1>5. ASSUME NEW k \in Clients, Reject(k) PROVE Good(k)
  BY <1>0, <1>5 DEF Reject, Answer, HonestInv, Generated, NoInput, ServiceTypeOK
<1>6. ASSUME NEW k \in Clients, RefuseBlank(k) PROVE Good(k)
  BY <1>0, <1>6 DEF RefuseBlank, Generated, ServiceTypeOK
<1>7. ASSUME NEW k \in Clients, CallOnce(k) PROVE Good(k)
  <2>1. PICK r \in Requests : input' = [input EXCEPT ![k] = r]
    BY <1>7 DEF CallOnce
  <2>2. r.alias # Blank /\ input'[k] = r
    BY <1>0, <2>1, RequestFields DEF ServiceTypeOK
  <2> QED
    BY <1>0, <1>7, <2>2 DEF CallOnce, Generated, ServiceTypeOK
<1>8. ASSUME NEW k \in Clients, StartRolling(k) PROVE Good(k)
  BY <1>0, <1>8 DEF StartRolling, ServiceTypeOK
<1>9. ASSUME NEW k \in Clients, GiveUp(k) PROVE Good(k)
  <2>1. phase'[k] = "answered" /\ status'[k] = 500 /\ UNCHANGED <<attempt, cancelled>>
    BY <1>0, <1>9 DEF GiveUp, Answer, ServiceTypeOK, vars
  <2>2. attempt[k] = MaxRetries + 1 \/ k \in cancelled
    BY <1>0, <1>9 DEF GiveUp, AttemptsLeft, ServiceTypeOK
  <2> QED
    BY <2>1, <2>2 DEF Explained
<1>10. ASSUME NEW k \in Clients, GeneratorFails(k) PROVE Good(k)
  <2>1. phase'[k] = "answered" /\ status'[k] = 500 /\ genFaults' > 0
    BY <1>0, <1>10 DEF GeneratorFails, Answer, ServiceTypeOK
  <2> QED
    BY <2>1 DEF Explained
<1>11. ASSUME NEW k \in Clients, Roll(k) PROVE Good(k)
  <2>1. PICK a \in Aliases : Begin(CurrentCall(k), [m |-> "Save", alias |-> a, url |-> input[k].url])
    BY <1>11 DEF Roll
  <2>2. CurrentCall(k) \in Calls /\ CurrentCall(k)' = CurrentCall(k) /\ phase'[k] = "calling"
    BY <1>0, <1>11, CurrentIsCall DEF Roll, AttemptsLeft, CurrentCall, ServiceTypeOK
  <2>3. req'[CurrentCall(k)].m = "Save"
    BY <1>0, <2>1, <2>2 DEF Begin, TypeOK
  <2> QED
    BY <2>2, <2>3
<1>12. ASSUME NEW k \in Clients, Retry(k) PROVE Good(k)
  BY <1>0, <1>12 DEF Retry, ServiceTypeOK
<1>13. ASSUME NEW k \in Clients, Respond(k) PROVE Good(k)
  <2>1. /\ phase[k] = "calling" /\ phase'[k] = "answered" /\ UNCHANGED <<input, attempt, dbFaults, cancelled>>
        /\ status'[k] = StatusOf(input[k].m, err[CurrentCall(k)])
    BY <1>0, <1>13 DEF Respond, Answer, ServiceTypeOK, vars
  <2>2. CurrentCall(k) \in Calls /\ CtxOf[CurrentCall(k)] = k
    BY <1>0, <2>1, CurrentIsCall DEF ServiceTypeOK, CurrentCall
  <2>3. ASSUME Generated(k) PROVE status'[k] = 200 \/ (status'[k] = 500 /\ Explained(k)')
    <3>1. req[CurrentCall(k)].m = "Save" /\ input[k].m = "Save"
      BY <2>1, <2>3 DEF HonestInv, Generated
    <3>2. err[CurrentCall(k)] \in {"nil", "context", "storage"}
      BY <1>0, <1>13, <2>2, <2>3, <3>1 DEF Respond, Collided, ErrorKinds, TypeOK, Errors
    <3>3. err[CurrentCall(k)] # "nil" => dbFaults > 0 \/ k \in cancelled
      BY <2>2, <3>1, <3>2 DEF ErrorsExplained, CtxDone
    <3> QED
      BY <2>1, <3>1, <3>2, <3>3, SaveStatus DEF Explained
  <2>4. Generated(k)' <=> Generated(k)
    BY <2>1 DEF Generated
  <2> QED
    BY <2>1, <2>3, <2>4
<1>14. ASSUME NEW k \in Clients, Arrive(k) \/ Handle(k) PROVE Good(k)
  BY <1>14, <1>5, <1>6, <1>7, <1>8, <1>9, <1>10, <1>11, <1>12, <1>13 DEF Arrive, Handle
<1>15. ASSUME UNCHANGED serviceVars, NEW j \in Clients PROVE Good(j)
  BY <1>3, <1>15 DEF serviceVars
<1>16. ASSUME NEW j \in Clients PROVE Good(j)
  <2>1. ASSUME NEW k \in Clients, Arrive(k) \/ Handle(k) PROVE Good(j)
    BY <1>3, <1>4, <1>14, <2>1
  <2> QED
    BY <1>15, <2>1 DEF ServiceNext, allVars
<1> QED
  BY <1>16 DEF HonestInv

(***************************************************************************)
(* A Save without an alias is never answered with a conflict, and fails    *)
(* with nothing broken only after all its attempts met aliases taken.      *)
(***************************************************************************)
THEOREM ExhaustedHonestlyHolds == ServiceSpec => []ExhaustedHonestly
<1>1. ServiceInit => HonestInv
  BY DEF ServiceInit, HonestInv, Generated, NoInput
<1>2. ServiceInv /\ HonestInv => ExhaustedHonestly
  BY ServiceAssumption, PgAssumption
     DEF ServiceAssumption, PgAssumption, ServiceInv, HonestInv, Explained, ExhaustedHonestly,
         AttemptInv, TypeOK, PgTypeOK, ServiceTypeOK
<1> QED
  BY <1>1, <1>2, ServiceInvHolds, NextHonest, ErrorsExplainedHolds, ServiceImplementsCache, PTL
     DEF ServiceSpec
-----------------------------------------------------------------------------
(* What a status says of the call it was given for. *)
LEMMA StatusMeans ==
    ASSUME NEW m \in {"Save", "Get", "Delete"}, NEW e \in Errors
    PROVE  /\ StatusOf(m, e) = 200 => m = "Save" /\ e = "nil"
           /\ StatusOf(m, e) = 204 => m = "Delete" /\ e = "nil"
           /\ StatusOf(m, e) = 302 => m = "Get" /\ e = "nil"
           /\ StatusOf(m, e) = 404 => m # "Save" /\ e = "ErrURLNotFound"
           /\ StatusOf(m, e) = 409 => m = "Save" /\ e = "ErrURLExist"
           /\ StatusOf(m, e) # 400
BY DEF StatusOf, Success, Errors

(* What has been answered stays so: its call is over, or there was none. *)
LEMMA AnsweredStays ==
    ASSUME TypeOK, ServiceTypeOK, StatusInv, [Next]_vars, NEW k \in Clients,
           UNCHANGED <<phase[k], input[k], attempt[k], status[k]>>,
           \A n \in 1 .. MaxRetries : pc[<<k, n>>] = "idle" => phase[k] # "answered" \/ pc'[<<k, n>>] = "idle"
    PROVE  /\ phase'[k] = "calling" => Serves(CurrentCall(k), k)'
           /\ phase'[k] = "answered" =>
                \/ status'[k] = 500
                \/ status'[k] = 400 /\ \A n \in 1 .. MaxRetries : pc'[<<k, n>>] = "idle"
                \/ /\ attempt'[k] <= MaxRetries
                   /\ pc'[CurrentCall(k)'] = "done"
                   /\ Serves(CurrentCall(k), k)'
                   /\ ~Collided(k)'
                   /\ status'[k] = StatusOf(input'[k].m, err'[CurrentCall(k)'])
<1> DEFINE c == CurrentCall(k)
<1>1. CurrentCall(k)' = c
  BY DEF CurrentCall
<1>2. ASSUME attempt[k] <= MaxRetries, pc[c] # "idle" PROVE c \in Calls /\ req'[c] = req[c]
  BY <1>2, CurrentIsCall, RequestStays
<1>3. ASSUME attempt[k] <= MaxRetries, pc[c] # "idle", Serves(c, k) PROVE Serves(CurrentCall(k), k)'
  <2>1. req'[c] = req[c]
    BY <1>2, <1>3
  <2> QED
    BY <1>1, <1>3, <2>1 DEF Serves, Generated
<1>4. CASE phase[k] = "calling"
  <2>1. attempt[k] <= MaxRetries /\ pc[c] # "idle"
    BY <1>4 DEF ServiceTypeOK
  <2> QED
    BY <1>3, <1>4, <2>1 DEF StatusInv
<1>5. CASE phase[k] = "answered" /\ status[k] = 500
  BY <1>5
<1>6. CASE phase[k] = "answered" /\ status[k] = 400 /\ \A n \in 1 .. MaxRetries : pc[<<k, n>>] = "idle"
  BY <1>6
<1>7. CASE /\ phase[k] = "answered"
           /\ attempt[k] <= MaxRetries
           /\ pc[c] = "done"
           /\ Serves(c, k)
           /\ ~Collided(k)
           /\ status[k] = StatusOf(input[k].m, err[c])
  <2>1. pc'[c] = "done" /\ err'[c] = err[c]
    BY <1>2, <1>7, DoneStays
  <2>2. ~Collided(k)'
    BY <1>1, <1>7, <2>1 DEF Collided, Generated
  <2> QED
    BY <1>1, <1>3, <1>7, <2>1, <2>2
<1> QED
  BY <1>4, <1>5, <1>6, <1>7 DEF StatusInv

LEMMA NextStatus ==
    TypeOK /\ ServiceTypeOK /\ AttemptInv /\ StatusInv /\ [ServiceNext]_allVars => StatusInv'
<1> SUFFICES ASSUME TypeOK, ServiceTypeOK, AttemptInv, StatusInv, [ServiceNext]_allVars
             PROVE  StatusInv'
  OBVIOUS
<1> USE ServiceAssumption DEF ServiceAssumption
<1> DEFINE Good(k) ==
      /\ phase'[k] = "calling" => Serves(CurrentCall(k), k)'
      /\ phase'[k] = "answered" =>
            \/ status'[k] = 500
            \/ status'[k] = 400 /\ \A n \in 1 .. MaxRetries : pc'[<<k, n>>] = "idle"
            \/ /\ attempt'[k] <= MaxRetries
               /\ pc'[CurrentCall(k)'] = "done"
               /\ Serves(CurrentCall(k), k)'
               /\ ~Collided(k)'
               /\ status'[k] = StatusOf(input'[k].m, err'[CurrentCall(k)'])
<1>1. [Next]_vars
  BY ServiceIsCache
<1>2. ASSUME NEW k \in Clients, Reject(k) PROVE Good(k)
  <2>1. phase[k] = "new" /\ phase'[k] = "answered" /\ status'[k] = 400 /\ pc' = pc
    BY <1>2 DEF Reject, Answer, ServiceTypeOK, vars
  <2>2. \A n \in 1 .. MaxRetries : pc[<<k, n>>] = "idle"
    BY <2>1 DEF AttemptInv, ServiceTypeOK
  <2> QED
    BY <2>1, <2>2
<1>3. ASSUME NEW k \in Clients, RefuseBlank(k) PROVE Good(k)
  <2>1. PICK r \in Inputs : status' = [status EXCEPT ![k] = StatusOf(r.m, "ErrEmptyAlias")]
    BY <1>3 DEF RefuseBlank
  <2>2. StatusOf(r.m, "ErrEmptyAlias") = 500
    BY DEF StatusOf
  <2>3. phase'[k] = "answered" /\ status'[k] = 500
    BY <1>3, <2>1, <2>2 DEF RefuseBlank, ServiceTypeOK
  <2> QED
    BY <2>3
<1>4. ASSUME NEW k \in Clients, CallOnce(k) PROVE Good(k)
  <2>1. PICK r \in Requests : input' = [input EXCEPT ![k] = r] /\ Begin(CurrentCall(k), r)
    BY <1>4 DEF CallOnce
  <2>2. CurrentCall(k) \in Calls /\ CurrentCall(k)' = CurrentCall(k) /\ phase'[k] = "calling"
    BY <1>4, CurrentIsCall DEF CallOnce, CurrentCall, ServiceTypeOK
  <2>3. req'[CurrentCall(k)] = r /\ input'[k] = r
    BY <2>1, <2>2 DEF Begin, TypeOK, ServiceTypeOK
  <2> QED
    BY <2>2, <2>3 DEF Serves
<1>5. ASSUME NEW k \in Clients, StartRolling(k) \/ Retry(k) PROVE Good(k)
  BY <1>5 DEF StartRolling, Retry, ServiceTypeOK
<1>6. ASSUME NEW k \in Clients, GiveUp(k) \/ GeneratorFails(k) PROVE Good(k)
  BY <1>6 DEF GiveUp, GeneratorFails, Answer, ServiceTypeOK
<1>7. ASSUME NEW k \in Clients, Roll(k) PROVE Good(k)
  <2>1. PICK a \in Aliases : Begin(CurrentCall(k), [m |-> "Save", alias |-> a, url |-> input[k].url])
    BY <1>7 DEF Roll
  <2>2. CurrentCall(k) \in Calls /\ CurrentCall(k)' = CurrentCall(k) /\ phase'[k] = "calling"
    BY <1>7, CurrentIsCall DEF Roll, AttemptsLeft, CurrentCall, ServiceTypeOK
  <2>3. req'[CurrentCall(k)] = [m |-> "Save", alias |-> a, url |-> input[k].url]
    BY <2>1, <2>2 DEF Begin, TypeOK
  <2>4. Generated(k)' /\ Generated(k) /\ input' = input
    BY <1>7 DEF Roll, ServiceTypeOK, Generated
  <2> QED
    BY <2>2, <2>3, <2>4 DEF Serves, Generated
<1>8. ASSUME NEW k \in Clients, Respond(k) PROVE Good(k)
  <2>1. /\ phase'[k] = "answered" /\ input' = input /\ attempt' = attempt
        /\ pc' = pc /\ req' = req /\ err' = err
        /\ status'[k] = StatusOf(input[k].m, err[CurrentCall(k)])
    BY <1>8 DEF Respond, Answer, ServiceTypeOK, vars
  <2>2. phase[k] = "calling" /\ attempt[k] <= MaxRetries /\ pc[CurrentCall(k)] = "done" /\ ~Collided(k)
    BY <1>8 DEF Respond, ServiceTypeOK
  <2>3. Serves(CurrentCall(k), k)
    BY <2>2 DEF StatusInv
  <2>4. CurrentCall(k)' = CurrentCall(k) /\ Serves(CurrentCall(k), k)' /\ ~Collided(k)'
    BY <2>1, <2>2, <2>3 DEF CurrentCall, Serves, Generated, Collided
  <2> QED
    BY <2>1, <2>2, <2>4
<1>9. ASSUME NEW k \in Clients, Arrive(k) \/ Handle(k), NEW j \in Clients \ {k} PROVE Good(j)
  <2>1. UNCHANGED <<phase[j], input[j], attempt[j], status[j]>>
    BY <1>9 DEF Arrive, Handle, Reject, RefuseBlank, CallOnce, StartRolling, GiveUp,
       GeneratorFails, Roll, Retry, Respond, Answer, ServiceTypeOK
  <2>2. \A n \in 1 .. MaxRetries : pc'[<<j, n>>] = pc[<<j, n>>]
    <3>1. CASE vars' = vars
      BY <3>1 DEF vars
    <3>2. CASE attempt[k] <= MaxRetries /\ \E r \in Requests : Begin(CurrentCall(k), r)
      BY <1>9, <3>2 DEF Begin, Goto, CurrentCall, TypeOK
    <3> QED
      BY <1>9, <3>1, <3>2, ServiceStep
  <2> QED
    BY <1>1, <2>1, <2>2, AnsweredStays
<1>10. ASSUME UNCHANGED serviceVars, (\E c \in Calls : Step(c)) \/ Environment \/ UNCHANGED vars,
              NEW j \in Clients
       PROVE  Good(j)
  <2>1. \A n \in 1 .. MaxRetries : pc[<<j, n>>] = "idle" => pc'[<<j, n>>] = "idle"
    BY <1>10, IdleStays DEF vars
  <2>2. UNCHANGED <<phase[j], input[j], attempt[j], status[j]>>
    BY <1>10 DEF serviceVars
  <2> QED
    BY <1>1, <2>1, <2>2, AnsweredStays
<1>11. ASSUME NEW k \in Clients, Arrive(k) \/ Handle(k) PROVE Good(k)
  BY <1>11, <1>2, <1>3, <1>4, <1>5, <1>6, <1>7, <1>8 DEF Arrive, Handle
<1>12. ASSUME NEW j \in Clients PROVE Good(j)
  <2>1. ASSUME NEW k \in Clients, Arrive(k) \/ Handle(k) PROVE Good(j)
    BY <1>9, <1>11, <2>1
  <2> QED
    BY <1>10, <2>1 DEF ServiceNext, allVars
<1> QED
  BY <1>12 DEF StatusInv

(***************************************************************************)
(* The answer of every handler of url.go is true of the table, whatever    *)
(* fails below it: success means an acknowledged change, or a URL that was *)
(* saved; 400, 404 and 409 mean that the request changed nothing, and 409  *)
(* that another client's Save may hold the alias.                          *)
(***************************************************************************)
THEOREM StatusHonestHolds == ServiceSpec => []StatusHonest
<1>1. ServiceInit => StatusInv
  BY DEF ServiceInit, StatusInv
<1>2. ServiceInv /\ ConflictIsForeign /\ StatusInv => StatusHonest
  <2> SUFFICES ASSUME ServiceInv, ConflictIsForeign, StatusInv, NEW k \in Clients
               PROVE  LET calls == {c \in Calls : c[1] = k}
                      IN  /\ status[k] \in {200, 204} =>
                              \E c \in calls : Serves(c, k) /\ MayHaveChanged(c) /\ err[c] = "nil"
                          /\ status[k] = 302 =>
                              \E c \in calls, s \in Calls :
                                  val[c] # None /\ MayHaveSaved(s, input[k].alias, val[c])
                          /\ status[k] \in {400, 404, 409} => \A c \in calls : ~MayHaveChanged(c)
                          /\ status[k] = 409 =>
                              \E s \in Calls \ calls : MayHaveSaved(s, input[k].alias, req[s].url)
    BY DEF StatusHonest
  <2> DEFINE calls == {c \in Calls : c[1] = k}
             d == CurrentCall(k)
  <2> USE ServiceAssumption DEF ServiceAssumption
  <2>0. TypeOK /\ ServiceTypeOK /\ AttemptInv /\ ProvenanceInv /\ ErrorKinds
    BY DEF ServiceInv
  <2>1. \A c \in calls : \E n \in 1 .. MaxRetries : c = <<k, n>>
    OBVIOUS
  <2>2. \A c \in Calls : pc[c] = "idle" \/ err[c] = "ErrURLExist" => ~MayHaveChanged(c)
    BY <2>0 DEF MayHaveChanged, MayHaveSaved, MayHaveDeleted, TypeOK, CallOK, NoRequest, ErrorKinds
  <2>3. CASE status[k] \in {0, 500}
    BY <2>3
  <2>4. CASE status[k] = 400 /\ \A n \in 1 .. MaxRetries : pc[<<k, n>>] = "idle"
    BY <2>1, <2>2, <2>4
  <2>5. CASE /\ attempt[k] <= MaxRetries
             /\ pc[d] = "done"
             /\ Serves(d, k)
             /\ ~Collided(k)
             /\ status[k] = StatusOf(input[k].m, err[d])
    <3>1. d \in calls /\ d \in Calls /\ req[d] \in Requests /\ err[d] \in Errors
      BY <2>0, <2>5, CurrentIsCall, ActiveRequest DEF CurrentCall, TypeOK
    <3>2. input[k].m = req[d].m /\ req[d].m \in {"Save", "Get", "Delete"} /\ req[d].alias \in Aliases
      BY <2>5, <3>1, RequestFields DEF Serves
    <3>3. \A c \in calls : c # d => ~MayHaveChanged(c)
      <4> SUFFICES ASSUME NEW c \in calls, c # d PROVE pc[c] = "idle" \/ err[c] = "ErrURLExist"
        BY <2>2
      <4>1. PICK n \in 1 .. MaxRetries : c = <<k, n>>
        BY <2>1
      <4>2. n # attempt[k] /\ attempt[k] \in 1 .. MaxRetries
        BY <2>0, <2>5, <4>1 DEF CurrentCall, ServiceTypeOK
      <4> QED
        BY <2>0, <4>1, <4>2 DEF AttemptInv
    <3>4. ASSUME status[k] \in {200, 204}
          PROVE  Serves(d, k) /\ MayHaveChanged(d) /\ err[d] = "nil"
      <4>1. req[d].m \in {"Save", "Delete"} /\ err[d] = "nil"
        BY <2>5, <3>1, <3>2, <3>4, StatusMeans
      <4>2. req[d].m = "Save" => req[d] = [m |-> "Save", alias |-> req[d].alias, url |-> req[d].url]
        BY <3>1 DEF Requests
      <4> QED
        BY <2>5, <3>1, <4>1, <4>2 DEF MayHaveChanged, MayHaveSaved, MayHaveDeleted
    <3>5. ASSUME status[k] = 302
          PROVE  \E s \in Calls : val[d] # None /\ MayHaveSaved(s, input[k].alias, val[d])
      <4>1. req[d].m = "Get" /\ err[d] = "nil"
        BY <2>5, <3>1, <3>2, <3>5, StatusMeans
      <4>2. val[d] # None
        BY <2>0, <2>5, <3>1, <4>1 DEF TypeOK, CallOK
      <4>3. req[d].alias = input[k].alias
        BY <2>5, <3>2, <4>1 DEF Serves, Generated
      <4> QED
        BY <2>0, <3>1, <4>2, <4>3 DEF ProvenanceInv, Provenance
    <3>6. ASSUME status[k] \in {400, 404, 409} PROVE ~MayHaveChanged(d)
      <4>1. err[d] = "ErrURLExist" \/ (err[d] = "ErrURLNotFound" /\ req[d].m # "Save")
        BY <2>5, <3>1, <3>2, <3>6, StatusMeans
      <4> QED
        BY <2>2, <3>1, <4>1 DEF MayHaveChanged, MayHaveSaved, MayHaveDeleted
    <3>7. ASSUME status[k] = 409
          PROVE  \E s \in Calls \ calls : MayHaveSaved(s, input[k].alias, req[s].url)
      <4>1. input[k].m = "Save" /\ err[d] = "ErrURLExist"
        BY <2>5, <3>1, <3>2, <3>7, StatusMeans
      <4>2. req[d].alias = input[k].alias
        BY <2>5, <4>1 DEF Collided, Serves
      <4>3. \E s \in Calls : s[1] # k /\ MayHaveSaved(s, req[d].alias, req[s].url)
        BY <2>0, <2>5, <4>1 DEF ConflictIsForeign, CurrentCall, ServiceTypeOK
      <4> QED
        BY <4>2, <4>3
    <3> QED
      BY <3>1, <3>3, <3>4, <3>5, <3>6, <3>7
  <2>6. phase[k] # "answered" => status[k] = 0
    BY <2>0 DEF ServiceTypeOK
  <2> QED
    BY <2>3, <2>4, <2>5, <2>6 DEF StatusInv
<1>3. ServiceInv /\ StatusInv /\ [ServiceNext]_allVars => StatusInv'
  BY NextStatus DEF ServiceInv
<1> QED
  BY <1>1, <1>2, <1>3, ServiceInvHolds, ConflictIsForeignHolds, PTL DEF ServiceSpec
-----------------------------------------------------------------------------
(* How far the handler of client k is from its answer, in steps of its own. *)
WorkLeft(k) ==
    CASE phase[k] = "new"      -> 2 * MaxRetries + 2
      [] phase[k] = "rolling"  -> 2 * (MaxRetries + 1 - attempt[k]) + 1
      [] phase[k] = "calling"  -> 2 * (MaxRetries + 1 - attempt[k])
      [] phase[k] = "answered" -> 0

(***************************************************************************)
(* A handler takes at most 2 * MaxRetries + 2 steps, whatever the others   *)
(* do and however often the alias it rolls is taken: each step of its own  *)
(* brings it nearer to its answer, and nobody else's sets it back.         *)
(***************************************************************************)
RequestsAdvance ==
    \A k \in Clients :
        /\ WorkLeft(k) \in Nat
        /\ Arrive(k) \/ Handle(k) => WorkLeft(k)' < WorkLeft(k)
        /\ WorkLeft(k)' <= WorkLeft(k)

LEMMA WorkRange ==
    ASSUME ServiceTypeOK, NEW k \in Clients
    PROVE  /\ WorkLeft(k) \in Nat
           /\ phase[k] # "answered" => WorkLeft(k) > 0
           /\ phase[k] = "new" => WorkLeft(k) = 2 * MaxRetries + 2 /\ attempt[k] = 1
           /\ phase[k] = "rolling" => WorkLeft(k) = 2 * (MaxRetries + 1 - attempt[k]) + 1
           /\ phase[k] = "calling" => WorkLeft(k) = 2 * (MaxRetries + 1 - attempt[k])
           /\ attempt[k] \in Nat /\ MaxRetries \in Nat
BY ServiceAssumption DEF ServiceAssumption, ServiceTypeOK, WorkLeft

LEMMA NextWork == ServiceTypeOK /\ [ServiceNext]_allVars => RequestsAdvance
<1> SUFFICES ASSUME ServiceTypeOK, [ServiceNext]_allVars, NEW k \in Clients
             PROVE  /\ Arrive(k) \/ Handle(k) => WorkLeft(k)' < WorkLeft(k)
                    /\ WorkLeft(k)' <= WorkLeft(k)
  BY WorkRange DEF RequestsAdvance
<1>1. ASSUME NEW j \in Clients, Arrive(j) \/ Handle(j)
      PROVE  WorkLeft(j)' < WorkLeft(j) /\ WorkLeft(j)' \in Int
  <2>1. CASE Reject(j) \/ RefuseBlank(j) \/ GiveUp(j) \/ GeneratorFails(j) \/ Respond(j)
    <3>1. phase[j] # "answered" /\ phase'[j] = "answered"
      BY <2>1 DEF Reject, RefuseBlank, GiveUp, GeneratorFails, Respond, Answer, ServiceTypeOK
    <3>2. WorkLeft(j)' = 0
      BY <3>1 DEF WorkLeft
    <3> QED
      BY <3>1, <3>2, WorkRange
  <2>2. CASE CallOnce(j)
    <3>1. phase[j] = "new" /\ phase'[j] = "calling" /\ attempt' = attempt
      BY <2>2 DEF CallOnce, ServiceTypeOK
    <3>2. WorkLeft(j)' = 2 * (MaxRetries + 1 - attempt[j])
      BY <3>1 DEF WorkLeft
    <3> QED
      BY <3>1, <3>2, WorkRange
  <2>3. CASE StartRolling(j)
    <3>1. phase[j] = "new" /\ phase'[j] = "rolling" /\ attempt' = attempt
      BY <2>3 DEF StartRolling, ServiceTypeOK
    <3>2. WorkLeft(j)' = 2 * (MaxRetries + 1 - attempt[j]) + 1
      BY <3>1 DEF WorkLeft
    <3> QED
      BY <3>1, <3>2, WorkRange
  <2>4. CASE Roll(j)
    <3>1. phase[j] = "rolling" /\ phase'[j] = "calling" /\ attempt' = attempt
      BY <2>4 DEF Roll, ServiceTypeOK
    <3>2. WorkLeft(j)' = 2 * (MaxRetries + 1 - attempt[j])
      BY <3>1 DEF WorkLeft
    <3> QED
      BY <3>1, <3>2, WorkRange
  <2>5. CASE Retry(j)
    <3>1. phase[j] = "calling" /\ phase'[j] = "rolling" /\ attempt'[j] = attempt[j] + 1
      BY <2>5 DEF Retry, NextAttempt, ServiceTypeOK
    <3>2. WorkLeft(j)' = 2 * (MaxRetries + 1 - (attempt[j] + 1)) + 1
      BY <3>1 DEF WorkLeft
    <3> QED
      BY <3>1, <3>2, WorkRange
  <2> QED
    BY <1>1, <2>1, <2>2, <2>3, <2>4, <2>5 DEF Arrive, Handle
<1>2. ASSUME UNCHANGED <<phase[k], attempt[k]>> PROVE WorkLeft(k)' = WorkLeft(k)
  BY <1>2 DEF WorkLeft
<1>3. ASSUME NEW j \in Clients \ {k}, Arrive(j) \/ Handle(j) PROVE UNCHANGED <<phase[k], attempt[k]>>
  BY <1>3 DEF Arrive, Handle, Reject, RefuseBlank, CallOnce, StartRolling, GiveUp, GeneratorFails,
     Roll, Retry, Respond, Answer, ServiceTypeOK
<1>4. ASSUME UNCHANGED serviceVars PROVE UNCHANGED <<phase[k], attempt[k]>>
  BY <1>4 DEF serviceVars
<1>5. WorkLeft(k) \in Nat
  BY WorkRange
<1>6. CASE Arrive(k) \/ Handle(k)
  <2>1. WorkLeft(k)' < WorkLeft(k) /\ WorkLeft(k)' \in Int
    BY <1>1, <1>6
  <2> QED
    BY <1>5, <2>1
<1>7. CASE ~(Arrive(k) \/ Handle(k))
  <2>1. UNCHANGED <<phase[k], attempt[k]>>
    BY <1>3, <1>4, <1>7 DEF ServiceNext, allVars
  <2> QED
    BY <1>2, <1>5, <1>7, <2>1
<1> QED
  BY <1>6, <1>7

(***************************************************************************)
(* URLService.saveGeneratedAlias is bounded: with CallsAlwaysAdvance, the  *)
(* part of RequestsAnswered that is about safety, for every MaxRetries.    *)
(***************************************************************************)
THEOREM RequestsAlwaysAdvance == ServiceSpec => [][RequestsAdvance]_allVars
BY ServiceTypeCorrect, NextWork, PTL DEF ServiceSpec
=============================================================================
