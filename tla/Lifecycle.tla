----------------------------- MODULE Lifecycle -----------------------------
(***************************************************************************)
(* The life of the process: cmd/url-shortener/main.go, the injector of     *)
(* internal/bootstrap/wire_gen.go with the constructors it calls, and      *)
(* internal/app/app.go.                                                    *)
(*                                                                         *)
(* Main opens the resources one after the other, closing what it has when  *)
(* a step fails, serves until a signal or an error of the server, drains   *)
(* the requests and closes the resources in the opposite order.  Beside it *)
(* run the goroutine of the server and one goroutine per request.          *)
(*                                                                         *)
(* A signal that no channel is registered for ends the process at once:    *)
(* before signal.Notify, and again after the deferred signal.Stop, which   *)
(* runs before the deferred cleanup.                                       *)
(***************************************************************************)
CONSTANTS Requests   \* the HTTP requests, each served at most once

VARIABLES
    cfg,       \* what of the configuration start-up depends on
    main,      \* where main is
    open,      \* the resources that are open
    server,    \* the server's goroutine
    signalled, \* a signal waits in the channel
    cause,     \* why the process ends: a step that failed, or how serving ended
    handler    \* [Requests -> where the handler of each request is]

vars == <<cfg, main, open, server, signalled, cause, handler>>

Resources == {"postgres", "redis", "sso"}

Startup == {"config", "migrate", "postgres", "redis", "service", "sso", "verifier", "run"}
Serving == {"select", "drain"}
Cleanup == {"close.sso", "close.redis", "close.postgres", "close.wait"}

(* RunMigrations, MaxRetries > 0, SSO_ADDR and SSO_APPLICATION_ID set, SSO_APP_SECRET set *)
Configs == [migrate : BOOLEAN, retries : BOOLEAN, ssoOptions : BOOLEAN, secret : BOOLEAN]

Init ==
    /\ cfg \in Configs
    /\ main = "config"
    /\ open = {}
    /\ server = "new"
    /\ signalled = FALSE
    /\ cause = "none"
    /\ handler = [r \in Requests |-> "none"]
-----------------------------------------------------------------------------
(* Start-up *)

(* Mutants: a failing client of sso leaves the Redis client open, *)
UnwindForgetsRedis(step) ==
    CASE step \in {"redis", "sso"} -> "close.postgres"
      [] step = "service"          -> "close.redis"
      [] step = "verifier"         -> "close.sso"
      [] OTHER                     -> "exited"

(* or its error is dropped. *)
IgnoreSSOError(step) ==
    CASE step = "redis"            -> "close.postgres"
      [] step = "service"          -> "close.redis"
      [] step = "sso"              -> "verifier"
      [] step = "verifier"         -> "close.sso"
      [] OTHER                     -> "exited"

(* The first of the cleanups that InitializeApp runs when a step fails. *)
Unwind(step) ==
    CASE step = "redis"            -> "close.postgres"
      [] step \in {"service", "sso"} -> "close.redis"
      [] step = "verifier"         -> "close.sso"
      [] OTHER                     -> "exited"

Proceed(step, next, gained) ==
    /\ main = step
    /\ main' = next
    /\ open' = open \cup gained
    /\ UNCHANGED <<cfg, server, signalled, cause, handler>>

Fail(step, leaked) ==
    /\ main = step
    /\ main' = Unwind(step)
    /\ cause' = step
    /\ open' = open \cup leaked
    /\ UNCHANGED <<cfg, server, signalled, handler>>

MustLoad ==
    \/ Proceed("config", IF cfg.migrate THEN "migrate" ELSE "postgres", {})
    \/ Fail("config", {})

RunMigrations == Proceed("migrate", "postgres", {}) \/ Fail("migrate", {})

(* A pool that does not answer the ping is closed before the error is returned, *)
InitPostgres == Proceed("postgres", "redis", {"postgres"}) \/ Fail("postgres", {})

(* a Redis client that does not answer it is not. *)
InitRedis == Proceed("redis", "service", {"redis"}) \/ Fail("redis", {"redis"})

(* service.New, and the validator, whose registrations are constant and succeed. *)
NewService ==
    \/ cfg.retries /\ Proceed("service", "sso", {})
    \/ ~cfg.retries /\ Fail("service", {})

(* The options are refused, or sso is not reached within the dial timeout. *)
NewSSOClient ==
    \/ cfg.ssoOptions /\ Proceed("sso", "verifier", {"sso"})
    \/ Fail("sso", {})

NewVerifier ==
    \/ cfg.secret /\ Proceed("verifier", "run", {})
    \/ ~cfg.secret /\ Fail("verifier", {})
-----------------------------------------------------------------------------
(* App.Run *)

(* signal.Notify, and the goroutine of the server. *)
RunServer ==
    /\ main = "run"
    /\ main' = "select"
    /\ server' = "starting"
    /\ UNCHANGED <<cfg, open, signalled, cause, handler>>

(* ListenAndServe; after Shutdown it returns ErrServerClosed at once. *)
Listen ==
    /\ main # "exited"
    /\ server = "starting"
    /\ \/ main = "select" /\ server' \in {"serving", "failed"}
       \/ main # "select" /\ server' = "closed"
    /\ UNCHANGED <<cfg, main, open, signalled, cause, handler>>

(* Accept fails for good and Serve returns. *)
ServeFails ==
    /\ main # "exited"
    /\ server = "serving"
    /\ server' = "failed"
    /\ UNCHANGED <<cfg, main, open, signalled, cause, handler>>

(* case sig := <-signals, and Shutdown closes the listener. *)
TakeSignal ==
    /\ main = "select" /\ signalled
    /\ main' = "drain"
    /\ signalled' = FALSE
    /\ server' = IF server = "serving" THEN "closed" ELSE server
    /\ UNCHANGED <<cfg, open, cause, handler>>

(* case err := <-serverErr: Run returns without Shutdown. *)
TakeServerError ==
    /\ main = "select" /\ server = "failed"
    /\ main' = "close.sso"
    /\ cause' = "server"
    /\ UNCHANGED <<cfg, open, server, signalled, handler>>

(* Mutant: Shutdown is not waited for. *)
NoDrain == TRUE

Drained == \A r \in Requests : handler[r] \notin {"running", "holding", "pinging"}

(* Shutdown returns nil. *)
ShutdownDone ==
    /\ main = "drain" /\ Drained
    /\ main' = "close.sso"
    /\ cause' = "shutdown"
    /\ UNCHANGED <<cfg, open, server, signalled, handler>>

(* Mutant: Shutdown is given a context without a deadline. *)
ShutdownWaits ==
    /\ main = "drain" /\ Drained
    /\ main' = "close.sso"
    /\ cause' = "timeout"
    /\ UNCHANGED <<cfg, open, server, signalled, handler>>

(* shutdownTimeout has passed. *)
ShutdownTimeout ==
    /\ main = "drain" /\ ~Drained
    /\ main' = "close.sso"
    /\ cause' = "timeout"
    /\ UNCHANGED <<cfg, open, server, signalled, handler>>
-----------------------------------------------------------------------------
(* The cleanups *)

Close(step, resource, next) ==
    /\ main = step
    /\ main' = next
    /\ open' = open \ {resource}
    /\ UNCHANGED <<cfg, server, signalled, cause, handler>>

CloseSSO      == Close("close.sso", "sso", "close.redis")
CloseRedis    == Close("close.redis", "redis", "close.postgres")
ClosePostgres == Close("close.postgres", "postgres", "close.wait")

(* Mutant: the pool is closed without waiting for its connections. *)
PoolBusy == TRUE

PoolIdle == \A r \in Requests : handler[r] \notin {"holding", "pinging"}

(* pgxpool's Close returns when every connection is back; main returns. *)
PoolClosed ==
    /\ main = "close.wait" /\ PoolIdle
    /\ main' = "exited"
    /\ UNCHANGED <<cfg, open, server, signalled, cause, handler>>

(* SIGINT or SIGTERM: into the channel, whose buffer holds one, or the end. *)
Signal ==
    /\ main # "exited"
    /\ \/ /\ main \in Serving
          /\ signalled' = TRUE
          /\ UNCHANGED <<main, cause>>
       \/ /\ main \notin Serving
          /\ main' = "exited"
          /\ cause' = "killed"
          /\ UNCHANGED signalled
    /\ UNCHANGED <<cfg, open, server, handler>>
-----------------------------------------------------------------------------
(* Requests *)

Goto(r, from, to) ==
    /\ main # "exited"
    /\ handler[r] = from
    /\ handler' = [handler EXCEPT ![r] = to]
    /\ UNCHANGED <<cfg, main, open, server, signalled, cause>>

Accept(r) == server = "serving" /\ Goto(r, "none", "running")

(* A query takes a connection of the pool and gives it back within its timeout. *)
Acquire(r) == "postgres" \in open /\ Goto(r, "running", "holding")
Release(r) == Goto(r, "holding", "running")

(* The ping of ReadinessProbe holds one too, and has no deadline but its client's patience. *)
Ping(r) == "postgres" \in open /\ Goto(r, "running", "pinging")
Pong(r) == Goto(r, "pinging", "running")

(* A query or a ping on the closed pool, or a call on the closed sso client; the cache bears a closed Redis. *)
Refused(r) == ~({"postgres", "sso"} \subseteq open) /\ Goto(r, "running", "failed")

Finish(r) == Goto(r, "running", "done")

InitializeApp ==
    \/ MustLoad \/ RunMigrations \/ InitPostgres \/ InitRedis
    \/ NewService \/ NewSSOClient \/ NewVerifier \/ RunServer

ShutDown ==
    \/ TakeSignal \/ TakeServerError \/ ShutdownDone \/ ShutdownTimeout
    \/ CloseSSO \/ CloseRedis \/ ClosePostgres \/ PoolClosed

Handle(r) ==
    \/ Accept(r) \/ Acquire(r) \/ Release(r) \/ Ping(r) \/ Pong(r) \/ Refused(r) \/ Finish(r)

Next ==
    \/ InitializeApp \/ ShutDown
    \/ Listen \/ ServeFails \/ Signal
    \/ \E r \in Requests : Handle(r)

Spec == Init /\ [][Next]_vars

(***************************************************************************)
(* Main goes on once it serves: the drain has a deadline, and closing the  *)
(* clients waits for nobody, only the pool does.  A query gives its        *)
(* connection back within defaultQueryTimeout.  Nothing else is assumed of *)
(* a handler: it may never finish, and a ping may never end.               *)
(***************************************************************************)
FairSpec == Spec /\ WF_vars(ShutDown) /\ \A r \in Requests : WF_vars(Release(r))
-----------------------------------------------------------------------------
(* Types; while the process serves nothing has failed and every resource is open. *)
TypeOK ==
    /\ cfg \in Configs
    /\ main \in Startup \cup Serving \cup Cleanup \cup {"exited"}
    /\ open \subseteq Resources
    /\ server \in {"new", "starting", "serving", "failed", "closed"}
    /\ signalled \in BOOLEAN
    /\ cause \in Startup \cup {"none", "shutdown", "timeout", "server", "killed"}
    /\ handler \in [Requests -> {"none", "running", "holding", "pinging", "failed", "done"}]
    /\ main \in Startup \cup Serving => cause = "none"
    /\ main \in Serving \cup {"run"} => open = Resources

(***************************************************************************)
(* However far start-up got, and however serving ended, the process leaves *)
(* nothing open behind it, but for the Redis client whose ping failed.     *)
(***************************************************************************)
Released ==
    main = "exited" /\ cause # "killed" =>
        open = IF cause = "redis" THEN {"redis"} ELSE {}

(***************************************************************************)
(* A request that the server accepted meets a closed resource only when    *)
(* the drain ran into its timeout or the server itself had failed.         *)
(***************************************************************************)
DrainedBeforeClose ==
    \A r \in Requests : handler[r] = "failed" => cause \in {"timeout", "server", "killed"}

(***************************************************************************)
(* Unless a signal kills it, the process does not end in the middle of a   *)
(* query or a ping, not even after the drain has timed out.                *)
(***************************************************************************)
NoQueryCut ==
    main = "exited" /\ cause # "killed" =>
        \A r \in Requests : handler[r] \notin {"holding", "pinging"}

(***************************************************************************)
(* A signal ends a serving process, whatever its requests do, unless a     *)
(* probe's ping never ends: the pool is then waiting for its connection    *)
(* without a deadline, and everything else has been closed.                *)
(***************************************************************************)
SignalEndsProcess ==
    main \in Serving /\ signalled ~>
        \/ main = "exited"
        \/ \E r \in Requests : [](main = "close.wait" /\ open = {} /\ handler[r] = "pinging")

(* Without the SSO variables the process still comes up: they end no start-up. *)
PublicWithoutSSO ==
    ~cfg.ssoOptions \/ ~cfg.secret => cause \notin {"sso", "verifier"}
-----------------------------------------------------------------------------
(* The inductive strengthening used by LifecycleProofs *)

(* What is open at each point of start-up and of cleanup. *)
OpenInv ==
    /\ main \in {"config", "migrate", "postgres"} => open = {}
    /\ main = "redis" => open = {"postgres"}
    /\ main \in {"service", "sso"} => open = {"postgres", "redis"}
    /\ main \in {"verifier", "close.sso"} => open = Resources
    /\ main = "close.redis" => open = {"postgres", "redis"}
    /\ main = "close.postgres" =>
        open = {"postgres"} \cup (IF cause = "redis" THEN {"redis"} ELSE {})
    /\ main = "close.wait" => open = IF cause = "redis" THEN {"redis"} ELSE {}
    /\ main = "close.sso" => cause # "redis"
    /\ main = "close.redis" => cause # "redis"

(* A request cannot be running once the drain is over, nor before the server has started. *)
DrainInv ==
    /\ main \in Startup => server = "new"
    /\ server = "new" => \A r \in Requests : handler[r] = "none"
    /\ main \notin {"select", "exited"} /\ cause \notin {"server"} => server # "serving"
    /\ main \in Cleanup /\ cause \notin {"timeout", "server"} => Drained
=============================================================================
