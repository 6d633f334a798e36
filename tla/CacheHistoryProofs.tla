------------------------- MODULE CacheHistoryProofs -------------------------
(***************************************************************************)
(* The proof that Cache implements LinkStore, for any number of calls,     *)
(* aliases and URLs and any number of failures.                            *)
(***************************************************************************)
EXTENDS CacheHistory, RedisCacheProofs

(* A call is looking for a row exactly while a Get of it is in progress. *)
LookingOK == \A c \in Calls : Store!Looking(c) <=> pc[c] \in GetPCs

LEMMA LookingIsGet == TypeOK => LookingOK
<1> SUFFICES ASSUME TypeOK, NEW c \in Calls PROVE Store!Looking(c) <=> pc[c] \in GetPCs
  BY DEF LookingOK
<1>1. Phases[c] = PhaseOf(c)
  BY DEF Phases
<1>2. CASE pc[c] \in GetPCs
  BY <1>1, <1>2 DEF Store!Looking, PhaseOf, GetPCs, FlightPCs, TypeOK, CallOK
<1>3. CASE pc[c] \in {"idle", "done", "Save.available", "Save.set", "Delete.available", "Delete.del"}
  BY <1>1, <1>3 DEF Store!Looking, PhaseOf, GetPCs, FlightPCs
<1>4. CASE pc[c] \in {"Save.insert", "Delete.delete"}
  BY <1>1, <1>4 DEF Store!Looking, TypeOK, CallOK, GetPCs, FlightPCs, SavePCs, DeletePCs
<1> QED
  BY <1>2, <1>3, <1>4 DEF TypeOK, PCs, SavePCs, DeletePCs

(* What the histories record in one step. *)
LEMMA RememberStep ==
    ASSUME TypeOK, TypeOK', AnswerInv, Store!Remember
    PROVE  /\ former' \in [Aliases -> SUBSET URLs]
           /\ \A a \in Aliases : \A u : WasRow(a, u) => WasRow(a, u)'
           /\ \A c \in Calls : c \in missed' <=>
                /\ pc'[c] \in GetPCs
                /\ c \in missed \/ db'[req'[c].alias] = None
           /\ missed' \subseteq Calls
<1>1. former' = [a \in Aliases |-> former[a] \cup ({db[a]} \ {db'[a], None})]
  BY DEF Store!Remember
<1>2. former' \in [Aliases -> SUBSET URLs]
  BY <1>1 DEF AnswerInv, TypeOK, PgTypeOK
<1>3. \A a \in Aliases : \A u : WasRow(a, u) => WasRow(a, u)'
  BY <1>1 DEF WasRow
<1>4. missed' = {c \in Calls : Store!Looking(c)' /\ (c \in missed \/ db'[req'[c].alias] = None)}
  BY DEF Store!Remember
<1>5. \A c \in Calls : Store!Looking(c)' <=> pc'[c] \in GetPCs
  <2>1. LookingOK'
    BY LookingIsGet, PTL
  <2> QED
    BY <2>1 DEF LookingOK
<1> QED
  BY <1>2, <1>3, <1>4, <1>5

(* Wherever a URL comes from in one step, it is or was a row. *)
LEMMA SourceWasRow ==
    ASSUME TypeOK, AnswerInv, NEW a \in Aliases, NEW u, Source(a, u)
    PROVE  WasRow(a, u)
BY DEF AnswerInv, Source, WasRow

(* The Saves that are about to fill the cache. *)
LEMMA SettledSaves ==
    ASSUME TypeOK, [Next]_vars, NEW c \in Calls, pc'[c] \in {"Save.available", "Save.set"}
    PROVE  /\ req[c].alias \in Aliases /\ req'[c] = req[c]
           /\ \/ pc[c] \in {"Save.available", "Save.set"}
              \/ db'[req[c].alias] = req[c].url
<1>1. ASSUME NEW d \in Calls, NEW r \in Requests, Begin(d, r)
      PROVE  pc[c] = pc'[c]
  BY <1>1, RequestFields DEF Begin, Goto, FirstPC, TypeOK
<1>2. ASSUME NEW d \in Calls, SaveInsert(d)
      PROVE  pc[c] = pc'[c] \/ (c = d /\ db'[req[c].alias] = req[c].url)
  <2>1. req[d] \in Requests /\ req[d].alias \in Aliases
    BY <1>2, ActiveRequest, RequestFields DEF SaveInsert
  <2>2. CASE c = d
    <3>1. PICK e \in Errors : PgSave(d, CtxDone(d), req[d].url, req[d].alias, e) /\ Goto(d, AfterInsert(e))
      BY <1>2 DEF SaveInsert
    <3>2. e = "nil"
      BY <2>2, <3>1 DEF Goto, AfterInsert, TypeOK
    <3> QED
      BY <2>1, <2>2, <3>1, <3>2 DEF PgSave, WriteAbandoned, QueryFails, Insert, TableAfter, TypeOK, PgTypeOK
  <2>3. CASE c # d
    BY <1>2, <2>3 DEF SaveInsert, Goto, TypeOK
  <2> QED
    BY <2>2, <2>3
<1>3. ASSUME NEW d \in Calls, Step(d), ~SaveInsert(d)
      PROVE  pc[c] \in {"Save.available", "Save.set"}
  <2>1. pc'[c] = pc[c] \/ (c = d /\ pc[c] = "Save.available")
    <3>1. CASE SaveAvailable(d) \/ SaveSet(d)
      BY <3>1 DEF SaveAvailable, SaveSet, CheckAvailable, Goto, TypeOK
    <3>2. CASE DeleteDelete(d) \/ DeleteAvailable(d) \/ DeleteDel(d)
      BY <3>2 DEF DeleteDelete, DeleteAvailable, DeleteDel, CheckAvailable, Goto, TypeOK
    <3>3. CASE GetAvailable(d) \/ GetDo(d) \/ GetFillAvailable(d) \/ GetFill(d)
      BY <3>3 DEF GetAvailable, GetDo, GetFillAvailable, GetFill, CheckAvailable, Goto, TypeOK
    <3>4. CASE GetRedis(d)
      BY <3>4 DEF GetRedis, GetHit, GetMiss, GetUnavailable, FallBack, Return, Goto, TypeOK
    <3>5. CASE GetSelect(d)
      BY <3>5 DEF GetSelect, Goto, TypeOK
    <3>6. CASE GetReturn(d)
      BY <3>6 DEF GetReturn
    <3> QED
      BY <1>3, <3>1, <3>2, <3>3, <3>4, <3>5, <3>6 DEF Step, Save, Get, Delete
  <2> QED
    BY <2>1
<1>4. ASSUME Environment \/ UNCHANGED vars PROVE pc' = pc
  BY <1>4 DEF Environment, Cancel, BreakerCloses, BreakerReopens, RedisExpire, RedisLateWrite, PgLate,
     callVars, vars
<1>5. \/ pc[c] \in {"Save.available", "Save.set"}
      \/ pc[c] # "idle" /\ db'[req[c].alias] = req[c].url
  <2>1. ASSUME NEW d \in Calls, SaveInsert(d), c = d PROVE pc[c] # "idle"
    BY <2>1 DEF SaveInsert
  <2> QED
    BY <1>1, <1>2, <1>3, <1>4, <2>1 DEF Next
<1>6. req[c].alias \in Aliases
  BY <1>5, ActiveRequest, RequestFields
<1>7. req'[c] = req[c]
  BY <1>5, NextCallStep DEF CallStep
<1> QED
  BY <1>5, <1>6, <1>7

LEMMA NextAnswer ==
    TypeOK /\ TypeOK' /\ AnswerInv /\ [Next]_vars /\ Store!Remember => AnswerInv'
<1> SUFFICES ASSUME TypeOK, TypeOK', AnswerInv, [Next]_vars, Store!Remember PROVE AnswerInv'
  OBVIOUS
<1>1. /\ former' \in [Aliases -> SUBSET URLs]
      /\ \A a \in Aliases : \A u : WasRow(a, u) => WasRow(a, u)'
  BY RememberStep
<1>2. Sources
  BY NextSources
<1>3. ASSUME NEW a \in Aliases PROVE WasRow(a, redis[a])'
  <2>1. WasRow(a, redis'[a])
    BY <1>2, SourceWasRow DEF Sources
  <2> QED
    BY <1>1, <2>1 DEF WasRow
<1>4. ASSUME NEW w \in redisLate' PROVE WasRow(w.alias, w.url)'
  <2>1. w.alias \in Aliases
    BY DEF TypeOK, Writes
  <2>2. WasRow(w.alias, w.url)
    BY <1>2, <2>1, SourceWasRow DEF Sources
  <2> QED
    BY <1>1, <2>1, <2>2
<1>5. ASSUME NEW c \in Calls, val'[c] # None PROVE WasRow(req[c].alias, val[c])'
  <2>1. req'[c] = req[c] /\ Source(req[c].alias, val'[c])
    BY <1>2, <1>5 DEF Sources
  <2>2. req[c].alias \in Aliases
    <3>1. req'[c] \in Requests
      BY <1>5 DEF TypeOK, CallOK, NoRequest
    <3> QED
      BY <2>1, <3>1, RequestFields
  <2>3. WasRow(req[c].alias, val'[c])
    BY <2>1, <2>2, SourceWasRow
  <2> QED
    BY <1>1, <2>1, <2>2, <2>3 DEF WasRow
<1>6. ASSUME NEW c \in Calls, pc'[c] \in {"Save.available", "Save.set"}
      PROVE  WasRow(req[c].alias, req[c].url)'
  <2>1. /\ req[c].alias \in Aliases /\ req'[c] = req[c]
        /\ \/ pc[c] \in {"Save.available", "Save.set"}
           \/ db'[req[c].alias] = req[c].url
    BY <1>6, SettledSaves
  <2>2. CASE pc[c] \in {"Save.available", "Save.set"}
    BY <1>1, <2>1, <2>2 DEF AnswerInv, WasRow
  <2>3. CASE db'[req[c].alias] = req[c].url
    BY <2>1, <2>3 DEF WasRow
  <2> QED
    BY <2>1, <2>2, <2>3
<1> QED
  BY <1>1, <1>3, <1>4, <1>5, <1>6 DEF AnswerInv
-----------------------------------------------------------------------------
(* A Get that goes on with an error in hand had it before, or has just read it. *)
LEMMA GetErrorStep ==
    ASSUME TypeOK, [Next]_vars, NEW c \in Calls, pc'[c] \in GetPCs
    PROVE  \/ err'[c] = "nil"
           \/ pc[c] \in GetPCs /\ err'[c] = err[c]
           \/ /\ err'[c] \in {"ErrURLNotFound", "context", "storage"}
              /\ err'[c] = "ErrURLNotFound" => db'[req'[c].alias] = None
<1>1. ASSUME NEW d \in Calls, NEW r \in Requests, Begin(d, r)
      PROVE  err'[c] = "nil" \/ (pc[c] \in GetPCs /\ err'[c] = err[c])
  <2>1. pc'[c] = pc[c] \/ pc[c] = "idle"
    BY <1>1 DEF Begin, Goto, TypeOK
  <2>2. err' = err
    BY <1>1 DEF Begin
  <2> QED
    BY <2>1, <2>2 DEF TypeOK, CallOK
<1>2. ASSUME NEW d \in Calls, GetSelect(d), c = d
      PROVE  /\ err'[c] \in {"nil", "ErrURLNotFound", "context", "storage"}
             /\ err'[c] = "ErrURLNotFound" => db'[req'[c].alias] = None
  <2>1. PICK v \in URLs \cup {None}, e \in Errors :
            PgGet(CtxDone(d), req[d].alias, v, e) /\ err' = [err EXCEPT ![d] = e]
    BY <1>2 DEF GetSelect
  <2>2. err'[c] = e /\ req' = req
    BY <1>2, <2>1 DEF GetSelect, TypeOK
  <2>3. /\ e \in {"nil", "ErrURLNotFound", "context", "storage"}
        /\ e = "ErrURLNotFound" => db'[req[c].alias] = None
    BY <1>2, <2>1 DEF PgGet, ScanError, QueryFails, pgVars
  <2> QED
    BY <2>2, <2>3
<1>3. ASSUME NEW d \in Calls, Step(d), ~GetSelect(d) \/ c # d
      PROVE  pc[c] \in GetPCs /\ err'[c] = err[c]
  <2>1. CASE Save(d)
    BY <2>1 DEF Save, SaveInsert, AfterInsert, SaveAvailable, SaveSet, CheckAvailable, Goto, TypeOK,
       GetPCs, FlightPCs
  <2>2. CASE Delete(d)
    BY <2>2 DEF Delete, DeleteDelete, DeleteAvailable, DeleteDel, CheckAvailable, Goto, TypeOK,
       GetPCs, FlightPCs
  <2>3. CASE GetAvailable(d) \/ GetDo(d) \/ GetFillAvailable(d) \/ GetFill(d)
    BY <2>3 DEF GetAvailable, GetDo, GetFillAvailable, GetFill, CheckAvailable, Goto, TypeOK,
       GetPCs, FlightPCs
  <2>4. CASE GetRedis(d)
    BY <2>4 DEF GetRedis, GetHit, GetMiss, GetUnavailable, FallBack, Return, Goto, TypeOK,
       GetPCs, FlightPCs
  <2>5. CASE GetSelect(d)
    BY <1>3, <2>5 DEF GetSelect, Goto, TypeOK
  <2>6. CASE GetReturn(d)
    BY <2>6 DEF GetReturn, GetPCs, FlightPCs
  <2> QED
    BY <1>3, <2>1, <2>2, <2>3, <2>4, <2>5, <2>6 DEF Step, Get
<1>4. ASSUME Environment \/ UNCHANGED vars PROVE pc' = pc /\ err' = err
  BY <1>4 DEF Environment, Cancel, BreakerCloses, BreakerReopens, RedisExpire, RedisLateWrite, PgLate,
     callVars, vars
<1> QED
  BY <1>1, <1>2, <1>3, <1>4 DEF Next

LEMMA NextMiss ==
    TypeOK /\ TypeOK' /\ AnswerInv /\ MissInv /\ [Next]_vars /\ Store!Remember => MissInv'
<1> SUFFICES ASSUME TypeOK, TypeOK', AnswerInv, MissInv, [Next]_vars, Store!Remember PROVE MissInv'
  OBVIOUS
<1>1. /\ missed' \subseteq Calls
      /\ \A c \in Calls : c \in missed' <=>
            /\ pc'[c] \in GetPCs
            /\ c \in missed \/ db'[req'[c].alias] = None
  BY RememberStep
<1>2. ASSUME NEW c \in Calls, pc'[c] \in GetPCs
      PROVE  /\ db'[req'[c].alias] = None \/ err'[c] = "ErrURLNotFound" => c \in missed'
             /\ err'[c] # "ErrURLExist"
  <2>1. \/ err'[c] = "nil"
        \/ pc[c] \in GetPCs /\ err'[c] = err[c]
        \/ /\ err'[c] \in {"ErrURLNotFound", "context", "storage"}
           /\ err'[c] = "ErrURLNotFound" => db'[req'[c].alias] = None
    BY <1>2, GetErrorStep
  <2> QED
    BY <1>1, <1>2, <2>1 DEF MissInv
<1> QED
  BY <1>1, <1>2 DEF MissInv

HistInv == TypeOK /\ FlightInv /\ AnswerInv /\ MissInv

LEMMA InitHist == HistInit => HistInv
<1> SUFFICES ASSUME HistInit PROVE AnswerInv /\ MissInv
  BY InitTypeOK, InitFlight DEF HistInit, HistInv
<1> QED
  BY DEF HistInit, Init, PgInit, AnswerInv, MissInv, WasRow, GetPCs, FlightPCs

(* A step of the history is a step of the cache that also records. *)
LEMMA HistStep == HistInv /\ [HistNext]_histVars => HistInv'
<1> SUFFICES ASSUME HistInv, [HistNext]_histVars PROVE HistInv'
  OBVIOUS
<1>1. CASE HistNext
  BY <1>1, NextTypeOK, NextFlight, NextAnswer, NextMiss DEF HistNext, HistInv
<1>2. CASE UNCHANGED histVars
  <2>1. UNCHANGED vars /\ former' = former /\ missed' = missed
    BY <1>2 DEF histVars
  <2>2. TypeOK' /\ FlightInv'
    BY <2>1, NextTypeOK, NextFlight DEF HistInv
  <2> QED
    BY <2>1, <2>2 DEF HistInv, AnswerInv, MissInv, WasRow, vars
<1> QED
  BY <1>1, <1>2
-----------------------------------------------------------------------------
(* The abstract state after a step of the call c alone. *)
LEMMA OnePhase ==
    ASSUME NEW c \in Calls, NEW l, pc \in [Calls -> PCs], pc' = [pc EXCEPT ![c] = l]
    PROVE  /\ l \in {"idle", "done"} => Phases' = [Phases EXCEPT ![c] = l]
           /\ l \in {"Save.available", "Save.set", "Delete.available", "Delete.del"}
                => Phases' = [Phases EXCEPT ![c] = "settled"]
           /\ l \in GetPCs \cup {"Save.insert", "Delete.delete"}
                => Phases' = [Phases EXCEPT ![c] = "running"]
<1>1. \A d \in Calls : d # c => PhaseOf(d)' = PhaseOf(d)
  BY DEF PhaseOf
<1>2. pc'[c] = l
  OBVIOUS
<1>3. /\ l \in {"idle", "done"} => PhaseOf(c)' = l
      /\ l \in {"Save.available", "Save.set", "Delete.available", "Delete.del"}
            => PhaseOf(c)' = "settled"
      /\ l \in GetPCs \cup {"Save.insert", "Delete.delete"} => PhaseOf(c)' = "running"
  BY <1>2 DEF PhaseOf, GetPCs, FlightPCs
<1>4. ASSUME NEW p, PhaseOf(c)' = p PROVE Phases' = [Phases EXCEPT ![c] = p]
  BY <1>1, <1>4 DEF Phases
<1> QED
  BY <1>3, <1>4

LEMMA OneReport ==
    ASSUME NEW c \in Calls, pc' = [pc EXCEPT ![c] = "done"], pc \in [Calls -> PCs],
           \A d \in Calls : d # c => val'[d] = val[d] /\ err'[d] = err[d]
    PROVE  /\ Results' = [Results EXCEPT ![c] = val'[c]]
           /\ Reports' = [Reports EXCEPT ![c] = err'[c]]
BY DEF Results, Reports

LEMMA NoReport ==
    ASSUME \A d \in Calls : pc'[d] = "done" <=> pc[d] = "done",
           \A d \in Calls : pc[d] = "done" => val'[d] = val[d] /\ err'[d] = err[d]
    PROVE  Results' = Results /\ Reports' = Reports
BY DEF Results, Reports

(* A step that leaves the table, the late statements and the phases alone is silent. *)
LEMMA Silent ==
    ASSUME HistInv, HistInv', Store!Remember, db' = db, dbLate' = dbLate, req' = req,
           Phases' = Phases, Results' = Results, Reports' = Reports
    PROVE  UNCHANGED Store!storeVars
<1>1. former' = former
  BY DEF Store!Remember, HistInv, AnswerInv
<1>2. \A c \in Calls : pc'[c] \in GetPCs <=> pc[c] \in GetPCs
  <2>1. LookingOK /\ LookingOK'
    BY LookingIsGet, PTL DEF HistInv
  <2> QED
    BY <2>1 DEF LookingOK, Store!Looking
<1>3. missed' = missed
  <2>1. /\ missed' \subseteq Calls
        /\ \A c \in Calls : c \in missed' <=>
              /\ pc'[c] \in GetPCs
              /\ c \in missed \/ db'[req'[c].alias] = None
    BY RememberStep DEF HistInv
  <2>2. missed \subseteq Calls /\ \A c \in missed : pc[c] \in GetPCs
    BY DEF HistInv, MissInv
  <2>3. \A c \in Calls : pc[c] \in GetPCs /\ db[req[c].alias] = None => c \in missed
    BY DEF HistInv, MissInv
  <2> QED
    BY <1>2, <2>1, <2>2, <2>3
<1> QED
  BY <1>1, <1>3 DEF Store!storeVars
(* The query of a Save or a Delete: it takes effect, is refused or fails. *)
LEMMA QueryStep ==
    ASSUME TypeOK, NEW c \in Calls, NEW e \in Errors, NEW l \in {"Save.available", "Delete.available"},
           pc[c] \in {"Save.insert", "Delete.delete"},
           pc' = [pc EXCEPT ![c] = IF e = "nil" THEN l ELSE "done"],
           err' = [err EXCEPT ![c] = e], req' = req, val' = val,
           \/ /\ e = IF Store!Fits(Store!Statement(c)) THEN "nil" ELSE Store!Refusal(c)
              /\ db' = TableAfter(Store!Statement(c))
              /\ dbLate' = dbLate
           \/ /\ e \in {"context", "storage"}
              /\ dbLate' \in {dbLate, dbLate \cup {Store!Statement(c)}}
              /\ db' = db
    PROVE  Store!Operation
<1> DEFINE st == Store!Statement(c)
<1>1. Store!Writing(c)
  BY DEF Store!Writing, Phases, PhaseOf, TypeOK, CallOK, SavePCs, DeletePCs
<1>2. Store!Refusal(c) # "nil"
  BY DEF Store!Refusal
<1>3. val[c] = None /\ err[c] = "nil" /\ err'[c] = e
  BY DEF TypeOK, CallOK, SavePCs, DeletePCs
<1>4. ASSUME e # "nil"
      PROVE  /\ Phases' = [Phases EXCEPT ![c] = "done"]
             /\ Results' = Results
             /\ Reports' = [Reports EXCEPT ![c] = e]
  <2>1. pc' = [pc EXCEPT ![c] = "done"] /\ pc \in [Calls -> PCs]
    BY <1>4 DEF TypeOK
  <2>2. Phases' = [Phases EXCEPT ![c] = "done"]
    BY <2>1, OnePhase
  <2>3. Results' = Results
    BY <1>3, <2>1 DEF Results
  <2>4. Reports' = [Reports EXCEPT ![c] = e]
    BY <1>3, <2>1, OneReport DEF TypeOK
  <2> QED
    BY <2>2, <2>3, <2>4
<1>5. CASE /\ e = IF Store!Fits(st) THEN "nil" ELSE Store!Refusal(c)
           /\ db' = TableAfter(st)
           /\ dbLate' = dbLate
  <2>1. CASE Store!Fits(st)
    <3>1. pc' = [pc EXCEPT ![c] = l] /\ pc \in [Calls -> PCs] /\ err' = err
      BY <1>3, <1>5, <2>1 DEF TypeOK
    <3>2. Phases' = [Phases EXCEPT ![c] = "settled"]
      BY <3>1, OnePhase
    <3>3. Results' = Results /\ Reports' = Reports
      BY <3>1, NoReport
    <3>4. db' = IF Store!Fits(st) THEN [db EXCEPT ![st.alias] = st.url] ELSE db
      BY <1>5 DEF TableAfter, Affects, Store!Fits
    <3>5. Store!TakeEffect(c)
      BY <1>1, <1>5, <2>1, <3>2, <3>3, <3>4 DEF Store!TakeEffect, Store!Execute
    <3> QED
      BY <3>5 DEF Store!Operation
  <2>2. CASE ~Store!Fits(st)
    <3>1. e = Store!Refusal(c) /\ db' = db
      BY <1>5, <2>2 DEF TableAfter, Affects, Store!Fits
    <3>2. Store!Refuse(c)
      BY <1>1, <1>2, <1>4, <1>5, <2>2, <3>1 DEF Store!Refuse
    <3> QED
      BY <3>2 DEF Store!Operation
  <2> QED
    BY <2>1, <2>2
<1>6. CASE /\ e \in {"context", "storage"}
           /\ dbLate' \in {dbLate, dbLate \cup {st}}
           /\ db' = db
  <2>1. Store!Fail(c, e)
    BY <1>1, <1>4, <1>6 DEF Store!Fail
  <2> QED
    BY <1>6, <2>1 DEF Store!Operation
<1> QED
  BY <1>5, <1>6

LEMMA SaveIsWrite ==
    ASSUME TypeOK, NEW c \in Calls, SaveInsert(c)
    PROVE  Store!Operation
<1>1. PICK e \in Errors : /\ PgSave(c, CtxDone(c), req[c].url, req[c].alias, e)
                          /\ Goto(c, AfterInsert(e))
                          /\ err' = [err EXCEPT ![c] = e]
  BY DEF SaveInsert
<1>2. pc[c] = "Save.insert" /\ req' = req /\ val' = val
  BY DEF SaveInsert
<1>3. Insert(c, req[c].url, req[c].alias) = Store!Statement(c) /\ Store!Refusal(c) = "ErrURLExist"
  BY <1>2 DEF Insert, Store!Statement, Store!Refusal, TypeOK, CallOK, SavePCs
<1>4. \/ /\ e = IF Store!Fits(Store!Statement(c)) THEN "nil" ELSE Store!Refusal(c)
         /\ db' = TableAfter(Store!Statement(c))
         /\ dbLate' = dbLate
      \/ /\ e \in {"context", "storage"}
         /\ dbLate' \in {dbLate, dbLate \cup {Store!Statement(c)}}
         /\ db' = db
  BY <1>1, <1>3 DEF PgSave, WriteAbandoned, QueryFails, Affects, Store!Fits
<1>5. pc' = [pc EXCEPT ![c] = IF e = "nil" THEN "Save.available" ELSE "done"]
  BY <1>1 DEF Goto, AfterInsert
<1> QED
  BY <1>1, <1>2, <1>4, <1>5, QueryStep

LEMMA DeleteIsWrite ==
    ASSUME TypeOK, NEW c \in Calls, DeleteDelete(c)
    PROVE  Store!Operation
<1>1. PICK e \in Errors : /\ PgDelete(c, CtxDone(c), req[c].alias, e)
                          /\ Goto(c, IF e = "nil" THEN "Delete.available" ELSE "done")
                          /\ err' = [err EXCEPT ![c] = e]
  BY DEF DeleteDelete
<1>2. pc[c] = "Delete.delete" /\ req' = req /\ val' = val
  BY DEF DeleteDelete
<1>3. req[c].m = "Delete" /\ req[c].url = None
  BY <1>2, ActiveRequest DEF TypeOK, CallOK, DeletePCs, Requests
<1>4. DeleteRow(c, req[c].alias) = Store!Statement(c) /\ Store!Refusal(c) = "ErrURLNotFound"
  BY <1>3 DEF DeleteRow, Store!Statement, Store!Refusal
<1>5. \/ /\ e = IF Store!Fits(Store!Statement(c)) THEN "nil" ELSE Store!Refusal(c)
         /\ db' = TableAfter(Store!Statement(c))
         /\ dbLate' = dbLate
      \/ /\ e \in {"context", "storage"}
         /\ dbLate' \in {dbLate, dbLate \cup {Store!Statement(c)}}
         /\ db' = db
  BY <1>1, <1>4 DEF PgDelete, WriteAbandoned, QueryFails, Affects, Store!Fits
<1>6. pc' = [pc EXCEPT ![c] = IF e = "nil" THEN "Delete.available" ELSE "done"]
  BY <1>1 DEF Goto
<1> QED
  BY <1>1, <1>2, <1>5, <1>6, QueryStep
-----------------------------------------------------------------------------
(* A hit in Redis answers one Get, with a URL that is or was a row. *)
LEMMA HitIsAnswer ==
    ASSUME HistInv, NEW c \in Calls, GetRedis(c), GetHit(c)
    PROVE  Store!Operation
<1> DEFINE a == req[c].alias
           u == redis[a]
<1>1. TypeOK /\ LookingOK /\ pc[c] = "Get.redis" /\ a \in Aliases
  BY LookingIsGet, ActiveRequest, RequestFields DEF HistInv, GetRedis
<1>2. Store!Looking(c)
  BY <1>1 DEF LookingOK, GetPCs
<1>3. u \in URLs \cup {None} /\ u # None /\ u \in Store!Answers(a)
  BY <1>1 DEF GetHit, HistInv, AnswerInv, WasRow, TypeOK, Store!Answers
<1>4. /\ pc' = [pc EXCEPT ![c] = "done"] /\ pc \in [Calls -> PCs]
      /\ val' = [val EXCEPT ![c] = u] /\ val \in [Calls -> URLs \cup {None}]
      /\ err' = [err EXCEPT ![c] = "nil"] /\ err \in [Calls -> Errors]
      /\ req' = req
  BY <1>1 DEF GetHit, Return, Goto, TypeOK
<1>5. Phases' = [d \in Calls |-> IF d \in {c} THEN "done" ELSE Phases[d]]
  <2>1. \A d \in Calls : PhaseOf(d)' = IF d \in {c} THEN "done" ELSE PhaseOf(d)
    BY <1>4 DEF PhaseOf
  <2> QED
    BY <2>1 DEF Phases
<1>6. /\ Results' = [d \in Calls |-> IF d \in {c} THEN u ELSE Results[d]]
      /\ Reports' = [d \in Calls |-> IF d \in {c} THEN "nil" ELSE Reports[d]]
  BY <1>4 DEF Results, Reports
<1>7. db' = db /\ dbLate' = dbLate
  BY DEF GetRedis, pgVars
<1>8. Store!Answer(a, {c}, u, "nil")
  BY <1>3, <1>4, <1>5, <1>6, <1>7 DEF Store!Answer
<1>9. {c} \in SUBSET Store!Lookups(a)
  BY <1>2 DEF Store!Lookups
<1> QED
  BY <1>1, <1>3, <1>8, <1>9 DEF Store!Operation

(* The end of a flight answers its leader and all who wait for it together. *)
LEMMA FlightIsAnswer ==
    ASSUME HistInv, NEW c \in Calls, GetReturn(c)
    PROVE  Store!Operation
<1> DEFINE a == req[c].alias
           D == Waiters(a) \cup {c}
<1>1. TypeOK /\ LookingOK /\ pc[c] = "Get.return" /\ a \in Aliases /\ req[c].m = "Get"
  BY LookingIsGet, ActiveRequest, RequestFields DEF HistInv, GetReturn, TypeOK, CallOK, GetPCs, FlightPCs
<1>2. \A d \in D : d \in Calls /\ pc[d] \in GetPCs /\ req[d].alias = a
  BY <1>1 DEF Waiters, GetPCs, FlightPCs
<1>3. D \in SUBSET Store!Lookups(a)
  BY <1>1, <1>2 DEF LookingOK, Store!Lookups
<1>4. val[c] \in URLs \cup {None} /\ err[c] \in {"nil", "ErrURLNotFound", "context", "storage"}
  BY <1>1 DEF HistInv, MissInv, TypeOK, Errors, GetPCs, FlightPCs
<1>5. /\ D # {}
      /\ \/ val[c] \in Store!Answers(a) /\ err[c] = "nil"
         \/ val[c] = None /\ err[c] = "ErrURLNotFound" /\ D \cap missed # {}
         \/ val[c] = None /\ err[c] \in {"context", "storage"}
  <2>1. CASE err[c] = "nil"
    <3>1. val[c] # None
      BY <1>1, <2>1 DEF TypeOK, CallOK
    <3>2. val[c] \in Store!Answers(a)
      BY <3>1 DEF HistInv, AnswerInv, WasRow, Store!Answers
    <3> QED
      BY <2>1, <3>2
  <2>2. CASE err[c] = "ErrURLNotFound"
    <3>1. val[c] = None
      BY <1>1, <2>2 DEF TypeOK, CallOK
    <3>2. c \in missed
      BY <1>1, <2>2 DEF HistInv, MissInv, GetPCs, FlightPCs
    <3> QED
      BY <2>2, <3>1, <3>2
  <2>3. CASE err[c] \in {"context", "storage"}
    BY <1>1, <2>3 DEF TypeOK, CallOK
  <2> QED
    BY <1>4, <2>1, <2>2, <2>3
<1>6. /\ pc' = [d \in Calls |-> IF d \in D THEN "done" ELSE pc[d]]
      /\ val' = [d \in Calls |-> IF d \in D THEN val[c] ELSE val[d]]
      /\ err' = [d \in Calls |-> IF d \in D THEN err[c] ELSE err[d]]
      /\ req' = req /\ db' = db /\ dbLate' = dbLate
  BY DEF GetReturn, pgVars
<1>7. Phases' = [d \in Calls |-> IF d \in D THEN "done" ELSE Phases[d]]
  <2>1. \A d \in Calls : PhaseOf(d)' = IF d \in D THEN "done" ELSE PhaseOf(d)
    BY <1>6 DEF PhaseOf
  <2> QED
    BY <2>1 DEF Phases
<1>8. /\ Results' = [d \in Calls |-> IF d \in D THEN val[c] ELSE Results[d]]
      /\ Reports' = [d \in Calls |-> IF d \in D THEN err[c] ELSE Reports[d]]
  BY <1>6 DEF Results, Reports
<1>9. Store!Answer(a, D, val[c], err[c])
  BY <1>5, <1>6, <1>7, <1>8 DEF Store!Answer
<1> QED
  BY <1>1, <1>3, <1>4, <1>9 DEF Store!Operation
-----------------------------------------------------------------------------
(* A step that keeps a Get in progress, or a settled write settled, shows nothing. *)
LEMMA QuietMove ==
    ASSUME TypeOK, NEW c \in Calls, NEW l, Goto(c, l),
           \/ pc[c] \in GetPCs /\ l \in GetPCs
           \/ pc[c] = "Save.available" /\ l = "Save.set"
           \/ pc[c] = "Delete.available" /\ l = "Delete.del",
           \A d \in Calls : d # c => val'[d] = val[d] /\ err'[d] = err[d]
    PROVE  Phases' = Phases /\ Results' = Results /\ Reports' = Reports
<1>1. pc \in [Calls -> PCs] /\ pc' = [pc EXCEPT ![c] = l]
  BY DEF TypeOK, Goto
<1>2. Phases' = [Phases EXCEPT ![c] = Phases[c]]
  <2>1. \A d \in Calls : PhaseOf(d)' = PhaseOf(d)
    BY <1>1 DEF PhaseOf, GetPCs, FlightPCs
  <2> QED
    BY <2>1 DEF Phases
<1>3. Phases' = Phases
  BY <1>2 DEF Phases
<1>4. pc[c] # "done" /\ l # "done"
  BY DEF GetPCs, FlightPCs
<1> QED
  BY <1>1, <1>3, <1>4, NoReport

(* The steps of a Get before its end. *)
LEMMA GetIsQuiet ==
    ASSUME TypeOK, NEW c \in Calls,
           \/ GetAvailable(c) \/ GetDo(c) \/ GetSelect(c) \/ GetFillAvailable(c) \/ GetFill(c)
           \/ GetRedis(c) /\ ~GetHit(c)
    PROVE  /\ Phases' = Phases /\ Results' = Results /\ Reports' = Reports
           /\ db' = db /\ dbLate' = dbLate /\ req' = req
<1>1. db' = db /\ dbLate' = dbLate /\ req' = req
  BY DEF GetAvailable, GetDo, GetSelect, PgGet, GetFillAvailable, GetFill, GetRedis, GetMiss,
     GetUnavailable, FallBack, CheckAvailable, pgVars
<1>2. \A d \in Calls : d # c => val'[d] = val[d] /\ err'[d] = err[d]
  BY DEF GetAvailable, GetDo, GetSelect, GetFillAvailable, GetFill, GetRedis, GetMiss,
     GetUnavailable, FallBack, CheckAvailable, TypeOK
<1>3. pc[c] \in GetPCs /\ \E l \in GetPCs : Goto(c, l)
  <2>1. CASE GetAvailable(c) \/ GetFillAvailable(c)
    BY <2>1 DEF GetAvailable, GetFillAvailable, CheckAvailable, GetPCs, FlightPCs
  <2>2. CASE GetDo(c) \/ GetFill(c) \/ (GetRedis(c) /\ ~GetHit(c))
    BY <2>2 DEF GetDo, GetFill, GetRedis, GetMiss, GetUnavailable, FallBack, GetPCs, FlightPCs
  <2>3. CASE GetSelect(c)
    BY <2>3 DEF GetSelect, GetPCs, FlightPCs
  <2> QED
    BY <2>1, <2>2, <2>3
<1> QED
  BY <1>1, <1>2, <1>3, QuietMove

(* The cache writes of a Save or a Delete end it, or are quiet. *)
LEMMA WriteTail ==
    ASSUME TypeOK, NEW c \in Calls,
           SaveAvailable(c) \/ SaveSet(c) \/ DeleteAvailable(c) \/ DeleteDel(c)
    PROVE  /\ db' = db /\ dbLate' = dbLate /\ req' = req
           /\ \/ Store!Finish(c)
              \/ Phases' = Phases /\ Results' = Results /\ Reports' = Reports
<1>1. db' = db /\ dbLate' = dbLate /\ req' = req /\ val' = val /\ err' = err
  BY DEF SaveAvailable, SaveSet, DeleteAvailable, DeleteDel, CheckAvailable, pgVars
<1>2. \/ Goto(c, "done")
      \/ pc[c] = "Save.available" /\ Goto(c, "Save.set")
      \/ pc[c] = "Delete.available" /\ Goto(c, "Delete.del")
  BY DEF SaveAvailable, SaveSet, DeleteAvailable, DeleteDel, CheckAvailable
<1>3. CASE Goto(c, "done")
  <2>1. pc[c] \in {"Save.available", "Save.set", "Delete.available", "Delete.del"}
    BY DEF SaveAvailable, SaveSet, DeleteAvailable, DeleteDel, CheckAvailable
  <2>2. Phases[c] = "settled"
    BY <2>1 DEF Phases, PhaseOf
  <2>3. pc' = [pc EXCEPT ![c] = "done"] /\ pc \in [Calls -> PCs]
    BY <1>3 DEF Goto, TypeOK
  <2>4. Phases' = [Phases EXCEPT ![c] = "done"]
    BY <2>3, OnePhase
  <2>5. val[c] = None /\ err[c] = "nil"
    BY <2>1 DEF TypeOK, CallOK, SavePCs, DeletePCs
  <2>6. Results' = Results /\ Reports' = Reports
    BY <1>1, <2>1, <2>3, <2>5 DEF Results, Reports
  <2> QED
    BY <1>1, <2>2, <2>4, <2>6 DEF Store!Finish
<1>4. CASE \/ pc[c] = "Save.available" /\ Goto(c, "Save.set")
           \/ pc[c] = "Delete.available" /\ Goto(c, "Delete.del")
  BY <1>1, <1>4, QuietMove
<1> QED
  BY <1>1, <1>2, <1>3, <1>4

LEMMA BeginIsInvoke ==
    ASSUME TypeOK, NEW c \in Calls, NEW r \in Requests, Begin(c, r)
    PROVE  Store!Operation
<1>1. /\ pc[c] = "idle" /\ pc' = [pc EXCEPT ![c] = FirstPC(r.m)] /\ pc \in [Calls -> PCs]
      /\ req' = [req EXCEPT ![c] = r] /\ val' = val /\ err' = err /\ db' = db /\ dbLate' = dbLate
  BY DEF Begin, Goto, TypeOK, pgVars
<1>2. FirstPC(r.m) \in {"Save.insert", "Get.available", "Delete.delete"}
  BY RequestFields DEF FirstPC
<1>3. Phases[c] = "idle"
  BY <1>1 DEF Phases, PhaseOf
<1>4. Phases' = [Phases EXCEPT ![c] = "running"]
  BY <1>1, <1>2, OnePhase DEF GetPCs
<1>5. Results' = Results /\ Reports' = Reports
  BY <1>1, <1>2, NoReport
<1>6. Store!Invoke(c, r)
  BY <1>1, <1>3, <1>4, <1>5 DEF Store!Invoke
<1>7. r \in Store!Requests
  BY DEF Requests, Store!Requests
<1> QED
  BY <1>6, <1>7 DEF Store!Operation

LEMMA LateIsLate ==
    ASSUME TypeOK, NEW st \in dbLate, PgLate(st)
    PROVE  Store!Operation
<1>1. pc' = pc /\ req' = req /\ val' = val /\ err' = err
  BY DEF PgLate, callVars
<1>2. Phases' = Phases /\ Results' = Results /\ Reports' = Reports
  BY <1>1 DEF Phases, PhaseOf, Results, Reports
<1>3. /\ db' = IF Store!Fits(st) THEN [db EXCEPT ![st.alias] = st.url] ELSE db
      /\ dbLate' = dbLate \ {st}
  BY DEF PgLate, LateStatement, TableAfter, Affects, Store!Fits
<1>4. Store!Late(st)
  BY <1>1, <1>2, <1>3 DEF Store!Late, Store!Execute
<1> QED
  BY <1>4 DEF Store!Operation
-----------------------------------------------------------------------------
LEMMA InitStore == HistInit => Store!Init
<1> SUFFICES ASSUME HistInit PROVE Store!Init
  OBVIOUS
<1>1. Phases = [c \in Calls |-> "idle"]
  BY DEF HistInit, Init, Phases, PhaseOf
<1>2. Results = [c \in Calls |-> None] /\ Reports = [c \in Calls |-> "nil"]
  BY DEF HistInit, Init, Results, Reports
<1> QED
  BY <1>1, <1>2 DEF HistInit, Init, PgInit, NoRequest, Store!Init

(* Every step of the cache is a step of the store, or none that it can see. *)
LEMMA NextStore ==
    HistInv /\ HistInv' /\ [HistNext]_histVars => [Store!Next]_(Store!storeVars)
<1> SUFFICES ASSUME HistInv, HistInv', [HistNext]_histVars
             PROVE  Store!Next \/ UNCHANGED Store!storeVars
  OBVIOUS
<1>1. CASE UNCHANGED histVars
  <2>1. UNCHANGED vars /\ former' = former /\ missed' = missed
    BY <1>1 DEF histVars
  <2>2. Phases' = Phases /\ Results' = Results /\ Reports' = Reports
    BY <2>1 DEF vars, Phases, PhaseOf, Results, Reports
  <2> QED
    BY <2>1, <2>2 DEF vars, Store!storeVars
<1>2. CASE HistNext
  <2>0. TypeOK /\ Store!Remember /\ Next
    BY <1>2 DEF HistInv, HistNext
  <2>1. ASSUME NEW c \in Calls, NEW r \in Requests, Begin(c, r) PROVE Store!Operation
    BY <2>0, <2>1, BeginIsInvoke
  <2>2. ASSUME NEW c \in Calls, SaveInsert(c) \/ DeleteDelete(c) PROVE Store!Operation
    BY <2>0, <2>2, SaveIsWrite, DeleteIsWrite
  <2>3. ASSUME NEW c \in Calls, \/ SaveAvailable(c) \/ SaveSet(c)
                                \/ DeleteAvailable(c) \/ DeleteDel(c)
        PROVE  Store!Operation \/ UNCHANGED Store!storeVars
    BY <2>0, <2>3, WriteTail, Silent DEF Store!Operation
  <2>4. ASSUME NEW c \in Calls, Get(c)
        PROVE  Store!Operation \/ UNCHANGED Store!storeVars
    <3>1. CASE GetRedis(c) /\ GetHit(c)
      BY <3>1, HitIsAnswer
    <3>2. CASE GetReturn(c)
      BY <3>2, FlightIsAnswer
    <3>3. CASE \/ GetAvailable(c) \/ GetDo(c) \/ GetSelect(c) \/ GetFillAvailable(c) \/ GetFill(c)
               \/ GetRedis(c) /\ ~GetHit(c)
      BY <2>0, <3>3, GetIsQuiet, Silent
    <3> QED
      BY <2>4, <3>1, <3>2, <3>3 DEF Get
  <2>5. ASSUME NEW st \in dbLate, PgLate(st) PROVE Store!Operation
    BY <2>0, <2>5, LateIsLate
  <2>6. ASSUME Environment, \A st \in dbLate : ~PgLate(st) PROVE UNCHANGED Store!storeVars
    <3>1. db' = db /\ dbLate' = dbLate /\ UNCHANGED callVars
      BY <2>6 DEF Environment, Cancel, BreakerCloses, BreakerReopens, RedisExpire, RedisLateWrite,
         pgVars, callVars
    <3>2. Phases' = Phases /\ Results' = Results /\ Reports' = Reports
      BY <3>1 DEF callVars, Phases, PhaseOf, Results, Reports
    <3> QED
      BY <2>0, <3>1, <3>2, Silent DEF callVars
  <2> QED
    BY <2>0, <2>1, <2>2, <2>3, <2>4, <2>5, <2>6 DEF Store!Next, Next, Step, Save, Delete
<1> QED
  BY <1>1, <1>2

(***************************************************************************)
(* Cache.Save, Get and Delete, with Redis, the breaker and the flights of  *)
(* singleflight in between, implement LinkStore: writes are atomic, and a  *)
(* Get answers with a URL that is or was the row of its alias, or with     *)
(* ErrURLNotFound only if the row was missing during one of the Gets of    *)
(* its flight.                                                             *)
(***************************************************************************)
THEOREM StoreRefinement == HistSpec => ImplementsLinkStore
<1>1. Store!Init /\ [][Store!Next]_(Store!storeVars) => Store!Spec
  BY DEF Store!Spec
<1> QED
  BY <1>1, InitHist, HistStep, InitStore, NextStore, PTL DEF HistSpec, ImplementsLinkStore

(* The histories only observe: with them the cache takes the steps it takes without. *)
THEOREM HistoryObserves == HistSpec => Spec
<1>1. HistInit => Init
  BY DEF HistInit
<1>2. [HistNext]_histVars => [Next]_vars
  BY DEF HistNext, histVars
<1> QED
  BY <1>1, <1>2, PTL DEF HistSpec, Spec
=============================================================================
