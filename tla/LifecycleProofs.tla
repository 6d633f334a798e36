--------------------------- MODULE LifecycleProofs ---------------------------
(***************************************************************************)
(* The safety of start-up and shutdown, for any set of requests.           *)
(***************************************************************************)
EXTENDS Lifecycle, TLAPS

(* Where a failing step of start-up leads. *)
LEMMA UnwindTargets ==
    /\ Unwind("config") = "exited" /\ Unwind("migrate") = "exited"
    /\ Unwind("postgres") = "exited" /\ Unwind("redis") = "close.postgres"
    /\ Unwind("service") = "close.redis" /\ Unwind("sso") = "close.redis"
    /\ Unwind("verifier") = "close.sso"
BY DEF Unwind

(* The invariants, and what the theorems draw from them. *)
Inv == TypeOK /\ OpenInv /\ Released /\ DrainInv /\ DrainedBeforeClose /\ NoQueryCut

LEMMA InitInv == Init => Inv
<1> SUFFICES ASSUME Init PROVE Inv
  OBVIOUS
<1> USE DEF Init, Startup, Serving, Cleanup, Resources
<1>1. TypeOK
  BY DEF TypeOK
<1>2. OpenInv /\ Released
  BY DEF OpenInv, Released
<1>3. DrainInv /\ DrainedBeforeClose /\ NoQueryCut
  BY DEF DrainInv, DrainedBeforeClose, NoQueryCut, Drained
<1> QED
  BY <1>1, <1>2, <1>3 DEF Inv

(* Start-up: nothing runs beside main yet. *)
LEMMA StartupStep ==
    ASSUME Inv, \/ MustLoad \/ RunMigrations \/ InitPostgres \/ InitRedis
                \/ NewService \/ NewSSOClient \/ NewVerifier
    PROVE  Inv'
<1>1. PICK step \in Startup \ {"run"}, next \in Startup, xs \in SUBSET Resources :
        \/ /\ main = step /\ main' = next /\ open' = open \cup xs /\ cause' = cause
           /\ <<step, next, xs>> \in
                {<<"config", "migrate", {}>>, <<"config", "postgres", {}>>,
                 <<"migrate", "postgres", {}>>, <<"postgres", "redis", {"postgres"}>>,
                 <<"redis", "service", {"redis"}>>, <<"service", "sso", {}>>,
                 <<"sso", "verifier", {"sso"}>>, <<"verifier", "run", {}>>}
        \/ /\ main = step /\ main' = Unwind(step) /\ cause' = step
           /\ open' = open \cup (IF step = "redis" THEN {"redis"} ELSE {})
  BY ZenonT(60) DEF MustLoad, RunMigrations, InitPostgres, InitRedis, NewService, NewSSOClient,
     NewVerifier, Proceed, Fail, Startup, Resources
<1>2. UNCHANGED <<cfg, server, signalled, handler>>
  BY DEF MustLoad, RunMigrations, InitPostgres, InitRedis, NewService, NewSSOClient, NewVerifier,
     Proceed, Fail
<1>3. server = "new" /\ \A r \in Requests : handler[r] = "none"
  BY <1>1 DEF Inv, DrainInv
<1> USE DEF Startup, Serving, Cleanup, Resources
<1>4. TypeOK' /\ OpenInv' /\ Released'
  <2>1. TypeOK'
    BY <1>1, <1>2, UnwindTargets, ZenonT(60) DEF Inv, TypeOK, OpenInv
  <2>2. OpenInv' /\ Released'
    BY <1>1, UnwindTargets, ZenonT(60) DEF Inv, TypeOK, OpenInv, Released
  <2> QED
    BY <2>1, <2>2
<1>5. DrainInv' /\ DrainedBeforeClose' /\ NoQueryCut'
  BY <1>1, <1>2, <1>3 DEF Inv, DrainInv, DrainedBeforeClose, NoQueryCut, Drained
<1> QED
  BY <1>4, <1>5 DEF Inv

(* Serving and the way out of it. *)
LEMMA RunStep ==
    ASSUME Inv, RunServer \/ TakeSignal \/ TakeServerError \/ ShutdownDone \/ ShutdownTimeout
    PROVE  Inv'
<1> USE DEF Inv, Startup, Serving, Cleanup, Resources, RunServer, TakeSignal, TakeServerError,
        ShutdownDone, ShutdownTimeout
<1>1. TypeOK'
  BY DEF TypeOK
<1>2. OpenInv' /\ Released'
  BY DEF TypeOK, OpenInv, Released
<1>3. DrainInv'
  BY DEF TypeOK, DrainInv, Drained
<1>4. DrainedBeforeClose' /\ NoQueryCut'
  BY DEF TypeOK, DrainedBeforeClose, NoQueryCut
<1> QED
  BY <1>1, <1>2, <1>3, <1>4

LEMMA CloseStep ==
    ASSUME Inv, CloseSSO \/ CloseRedis \/ ClosePostgres \/ PoolClosed
    PROVE  Inv'
<1> USE DEF Inv, Startup, Serving, Cleanup, Resources, CloseSSO, CloseRedis, ClosePostgres,
        PoolClosed, Close
<1>1. TypeOK'
  BY ZenonT(60) DEF TypeOK
<1>2. OpenInv' /\ Released'
  BY DEF TypeOK, OpenInv, Released
<1>3. DrainInv'
  BY DEF TypeOK, DrainInv, Drained
<1>4. DrainedBeforeClose' /\ NoQueryCut'
  BY DEF TypeOK, DrainedBeforeClose, NoQueryCut, PoolIdle
<1> QED
  BY <1>1, <1>2, <1>3, <1>4

(* The server's goroutine and signals. *)
LEMMA ServerStep ==
    ASSUME Inv, Listen \/ ServeFails \/ Signal
    PROVE  Inv'
<1> USE DEF Inv, Startup, Serving, Cleanup, Resources, Listen, ServeFails, Signal
<1>1. TypeOK'
  BY ZenonT(60) DEF TypeOK
<1>2. OpenInv' /\ Released'
  BY DEF TypeOK, OpenInv, Released
<1>3. DrainInv'
  BY DEF TypeOK, DrainInv, Drained
<1>4. DrainedBeforeClose' /\ NoQueryCut'
  BY DEF TypeOK, DrainedBeforeClose, NoQueryCut
<1> QED
  BY <1>1, <1>2, <1>3, <1>4

(* A request: a closed resource is met only when the cleanup overtook the drain. *)
LEMMA HandlerStep ==
    ASSUME Inv, NEW r \in Requests, Handle(r)
    PROVE  Inv'
<1> USE DEF Inv, Startup, Serving, Cleanup, Resources
<1>1. PICK from \in {"none", "running", "holding", "pinging"},
           to \in {"running", "holding", "pinging", "failed", "done"} :
        /\ handler[r] = from /\ handler' = [handler EXCEPT ![r] = to]
        /\ from = "none" => server = "serving" /\ to = "running"
        /\ to = "failed" => ~({"postgres", "sso"} \subseteq open)
  BY DEF Handle, Accept, Acquire, Release, Ping, Pong, Refused, Finish, Goto
<1>2. main # "exited" /\ UNCHANGED <<cfg, main, open, server, signalled, cause>>
  BY DEF Handle, Accept, Acquire, Release, Ping, Pong, Refused, Finish, Goto
<1>3. TypeOK' /\ OpenInv' /\ Released' /\ NoQueryCut'
  BY <1>1, <1>2 DEF TypeOK, OpenInv, Released, NoQueryCut
<1>4. DrainInv'
  <2>1. server # "new"
    BY <1>1 DEF DrainInv
  <2>2. main \in Cleanup /\ cause \notin {"timeout", "server"} => ~(from \in {"running", "holding", "pinging"})
    BY <1>1 DEF DrainInv, Drained
  <2>3. main \in Cleanup /\ cause \notin {"timeout", "server"} => from # "none"
    BY <1>1 DEF DrainInv
  <2> QED
    BY <1>1, <1>2, <2>1, <2>2, <2>3 DEF DrainInv
<1>5. DrainedBeforeClose'
  <2>1. CASE to = "failed"
    <3>1. main \notin Serving
      BY <1>1, <2>1 DEF TypeOK
    <3>2. main \notin Startup
      BY <1>1 DEF DrainInv
    <3>3. main \in Cleanup
      BY <1>2, <3>1, <3>2 DEF TypeOK
    <3>4. from \in {"running", "holding", "pinging"}
      BY <1>1, <2>1
    <3>5. cause \in {"timeout", "server"}
      BY <1>1, <3>3, <3>4 DEF DrainInv, Drained
    <3> QED
      BY <1>1, <1>2, <3>5 DEF DrainedBeforeClose
  <2>2. CASE to # "failed"
    BY <1>1, <1>2, <2>2 DEF DrainedBeforeClose, TypeOK
  <2> QED
    BY <2>1, <2>2
<1> QED
  BY <1>3, <1>4, <1>5

LEMMA NextInv == Inv /\ [Next]_vars => Inv'
<1>1. ASSUME Inv, UNCHANGED vars PROVE Inv'
  BY <1>1 DEF vars, Inv, TypeOK, OpenInv, Released, DrainInv, Drained, DrainedBeforeClose, NoQueryCut
<1> QED
  BY <1>1, StartupStep, RunStep, CloseStep, ServerStep, HandlerStep 
     DEF Next, InitializeApp, ShutDown

LEMMA InvHolds == Spec => []Inv
BY InitInv, NextInv, PTL DEF Spec

(* While the process serves, nothing has failed and every resource is open. *)
THEOREM LifecycleTypeCorrect == Spec => []TypeOK
<1>1. Inv => TypeOK
  BY DEF Inv
<1> QED
  BY <1>1, InvHolds, PTL

(***************************************************************************)
(* InitializeApp closes what it has opened at whichever step it fails, and *)
(* Run's cleanup closes the rest; a Redis client whose ping failed is the  *)
(* one exception.                                                          *)
(***************************************************************************)
THEOREM ReleasedHolds == Spec => []Released
<1>1. Inv => Released
  BY DEF Inv
<1> QED
  BY <1>1, InvHolds, PTL

(***************************************************************************)
(* No accepted request meets a closed resource unless Shutdown ran into    *)
(* its timeout or the server had failed.                                   *)
(***************************************************************************)
THEOREM DrainedBeforeCloseHolds == Spec => []DrainedBeforeClose
<1>1. Inv => DrainedBeforeClose
  BY DEF Inv
<1> QED
  BY <1>1, InvHolds, PTL

(* A process that is not killed never ends in the middle of a query. *)
THEOREM NoQueryCutHolds == Spec => []NoQueryCut
<1>1. Inv => NoQueryCut
  BY DEF Inv
<1> QED
  BY <1>1, InvHolds, PTL
=============================================================================
