----------------------------- MODULE URLService -----------------------------
(***************************************************************************)
(* The requests on short links, from the HTTP handler to the cache:        *)
(* internal/transport/http/handlers/url.go and                             *)
(* internal/service/url/service.go on top of RedisCache.                   *)
(*                                                                         *)
(* A client sends one request.  Its handler runs in a goroutine of its own *)
(* under the request's context and makes one call of the cache, or, for a  *)
(* Save without an alias, one per attempt: the calls of client k are       *)
(* <<k, 1>>, <<k, 2>>, ... and all run under the context k.                *)
(***************************************************************************)
EXTENDS RedisCache

CONSTANTS
    Clients,       \* one request each
    MaxRetries,    \* cfg.MaxRetries
    Blank,         \* an alias that TrimSpace leaves empty
    MaxGenFaults   \* bound: how many times the alias generator fails

ASSUME ServiceAssumption ==
    /\ MaxRetries \in Nat /\ MaxRetries > 0
    /\ Calls = Clients \X (1 .. MaxRetries)
    /\ Contexts = Clients
    /\ CtxOf = [c \in Calls |-> c[1]]
    /\ Blank \notin Aliases
    /\ MaxGenFaults \in Nat

VARIABLES
    phase,      \* [Clients -> where the handler of each request is]
    input,      \* [Clients -> the request]
    attempt,    \* [Clients -> the loop variable of saveGeneratedAlias]
    status,     \* [Clients -> the HTTP status answered, 0 before that]
    genFaults   \* how many times the generator has failed

serviceVars == <<phase, input, attempt, status, genFaults>>
allVars == <<vars, serviceVars>>

(* What reaches a handler: no alias means that one is to be generated. *)
Inputs == [m : {"Save"}, alias : Aliases \cup {Blank}, url : URLs]
            \cup [m : {"Get", "Delete"}, alias : Aliases \cup {Blank}, url : {None}]
NoInput == [m |-> "none", alias |-> Blank, url |-> None]

Success(m) == CASE m = "Save" -> 200 [] m = "Get" -> 302 [] m = "Delete" -> 204

(* Mutant: an error that is not listed gets no answer. *)
UnlistedUnanswered(m, e) ==
    CASE e = "nil" -> Success(m)
      [] e = "ErrURLExist" /\ m = "Save" -> 409
      [] e = "ErrURLNotFound" /\ m # "Save" -> 404
      [] OTHER -> 0

(* Mutant: whatever keeps a Save from its row is a conflict. *)
EveryFailureConflicts(m, e) ==
    CASE e = "nil" -> Success(m)
      [] e \in Errors /\ m = "Save" -> 409
      [] e = "ErrURLNotFound" /\ m # "Save" -> 404
      [] OTHER -> 500

(* response.RespondError: the cases the handler of m lists, 500 for the rest. *)
StatusOf(m, e) ==
    CASE e = "nil" -> Success(m)
      [] e = "ErrURLExist" /\ m = "Save" -> 409
      [] e = "ErrURLNotFound" /\ m # "Save" -> 404
      [] OTHER -> 500

Generated(k) == input[k].m = "Save" /\ input[k].alias = Blank

CurrentCall(k) == <<k, attempt[k]>>

Answer(k, s) ==
    /\ phase' = [phase EXCEPT ![k] = "answered"]
    /\ status' = [status EXCEPT ![k] = s]
    /\ UNCHANGED <<input, attempt>>

ServiceInit ==
    /\ Init
    /\ phase = [k \in Clients |-> "new"]
    /\ input = [k \in Clients |-> NoInput]
    /\ attempt = [k \in Clients |-> 1]
    /\ status = [k \in Clients |-> 0]
    /\ genFaults = 0
-----------------------------------------------------------------------------
(* The body cannot be decoded or does not pass the validator. *)
Reject(k) ==
    /\ phase[k] = "new"
    /\ Answer(k, 400)
    /\ UNCHANGED <<vars, genFaults>>

(* Get and Delete of an alias that is blank: ErrEmptyAlias, which no handler lists. *)
RefuseBlank(k) ==
    /\ phase[k] = "new"
    /\ \E r \in Inputs :
        /\ r.alias = Blank /\ r.m # "Save"
        /\ input' = [input EXCEPT ![k] = r]
        /\ phase' = [phase EXCEPT ![k] = "answered"]
        /\ status' = [status EXCEPT ![k] = StatusOf(r.m, "ErrEmptyAlias")]
    /\ UNCHANGED <<vars, attempt, genFaults>>

(* Get, Delete, and Save under the client's own alias: one call of the cache. *)
CallOnce(k) ==
    /\ phase[k] = "new"
    /\ \E r \in Requests :
        /\ input' = [input EXCEPT ![k] = r]
        /\ Begin(CurrentCall(k), r)
    /\ phase' = [phase EXCEPT ![k] = "calling"]
    /\ UNCHANGED <<attempt, status, genFaults>>

(* Save without an alias. *)
StartRolling(k) ==
    /\ phase[k] = "new"
    /\ \E u \in URLs :
        input' = [input EXCEPT ![k] = [m |-> "Save", alias |-> Blank, url |-> u]]
    /\ phase' = [phase EXCEPT ![k] = "rolling"]
    /\ UNCHANGED <<vars, attempt, status, genFaults>>

(* Mutant: the last attempt is not made. *)
OneAttemptLess(k) == attempt[k] < MaxRetries

(* attempt <= s.cfg.MaxRetries *)
AttemptsLeft(k) == attempt[k] <= MaxRetries

(* The attempts are used up, or the client is gone. *)
GiveUp(k) ==
    /\ phase[k] = "rolling"
    /\ ~AttemptsLeft(k) \/ k \in cancelled
    /\ Answer(k, 500)
    /\ UNCHANGED <<vars, genFaults>>

GeneratorFails(k) ==
    /\ phase[k] = "rolling"
    /\ AttemptsLeft(k) /\ k \notin cancelled
    /\ genFaults < MaxGenFaults
    /\ genFaults' = genFaults + 1
    /\ Answer(k, 500)
    /\ UNCHANGED vars

(* Generate returns any alias, one that is taken too. *)
Roll(k) ==
    /\ phase[k] = "rolling"
    /\ AttemptsLeft(k) /\ k \notin cancelled
    /\ \E a \in Aliases :
        Begin(CurrentCall(k), [m |-> "Save", alias |-> a, url |-> input[k].url])
    /\ phase' = [phase EXCEPT ![k] = "calling"]
    /\ UNCHANGED <<input, attempt, status, genFaults>>

(* Mutant: the attempts are not counted. *)
SameAttempt(k) == attempt[k]

NextAttempt(k) == attempt[k] + 1

(* Mutant: every failure of the storage is retried. *)
RetryAnything(k) == Generated(k) /\ err[CurrentCall(k)] # "nil"

(* errors.Is(err, domain.ErrURLExist) in saveGeneratedAlias *)
Collided(k) == Generated(k) /\ err[CurrentCall(k)] = "ErrURLExist"

Retry(k) ==
    /\ phase[k] = "calling" /\ pc[CurrentCall(k)] = "done"
    /\ Collided(k)
    /\ phase' = [phase EXCEPT ![k] = "rolling"]
    /\ attempt' = [attempt EXCEPT ![k] = NextAttempt(k)]
    /\ UNCHANGED <<vars, input, status, genFaults>>

Respond(k) ==
    /\ phase[k] = "calling" /\ pc[CurrentCall(k)] = "done"
    /\ ~Collided(k)
    /\ Answer(k, StatusOf(input[k].m, err[CurrentCall(k)]))
    /\ UNCHANGED <<vars, genFaults>>

Handle(k) ==
    \/ GiveUp(k) \/ GeneratorFails(k) \/ Roll(k) \/ Retry(k) \/ Respond(k)

Arrive(k) == Reject(k) \/ RefuseBlank(k) \/ CallOnce(k) \/ StartRolling(k)

ServiceNext ==
    \/ \E k \in Clients : Arrive(k) \/ Handle(k)
    \/ (\E c \in Calls : Step(c)) /\ UNCHANGED serviceVars
    \/ Environment /\ UNCHANGED serviceVars

ServiceSpec == ServiceInit /\ [][ServiceNext]_allVars

(* Handlers and calls keep going, and no failure is counted on: see Fairness of RedisCache. *)
ServiceFairSpec ==
    /\ ServiceSpec
    /\ \A k \in Clients : WF_allVars(Handle(k) /\ UNCHANGED genFaults)
    /\ \A c \in Calls : WF_allVars(Step(c) /\ UNCHANGED serviceVars)
-----------------------------------------------------------------------------
(* Types, and that a client waits for a call it has made. *)
ServiceTypeOK ==
    /\ phase \in [Clients -> {"new", "rolling", "calling", "answered"}]
    /\ input \in [Clients -> Inputs \cup {NoInput}]
    /\ attempt \in [Clients -> 1 .. MaxRetries + 1]
    /\ status \in [Clients -> {0, 200, 204, 302, 400, 404, 409, 500}]
    /\ genFaults \in 0 .. MaxGenFaults
    /\ \A k \in Clients :
        /\ phase[k] = "answered" <=> status[k] # 0
        /\ phase[k] = "new" => attempt[k] = 1
        /\ phase[k] = "rolling" => Generated(k)
        /\ phase[k] = "calling" => /\ attempt[k] <= MaxRetries
                                  /\ pc[CurrentCall(k)] # "idle"
                                  /\ input[k] # NoInput

(***************************************************************************)
(* A request leaves at most one row behind: an attempt follows only a      *)
(* refused one, never one whose outcome is unknown.                        *)
(***************************************************************************)
OneRowPerRequest ==
    \A k \in Clients, m, n \in 1 .. MaxRetries :
        /\ req[<<k, m>>].m = "Save" /\ MayHaveSaved(<<k, m>>, req[<<k, m>>].alias, req[<<k, m>>].url)
        /\ req[<<k, n>>].m = "Save" /\ MayHaveSaved(<<k, n>>, req[<<k, n>>].alias, req[<<k, n>>].url)
        => m = n

(***************************************************************************)
(* A collision is a collision with somebody else: the alias of a call that *)
(* got ErrURLExist is one that another client's Save may have taken.       *)
(***************************************************************************)
ConflictIsForeign ==
    \A k \in Clients, n \in 1 .. MaxRetries :
        err[<<k, n>>] = "ErrURLExist" =>
            \E c \in Calls : /\ c[1] # k
                             /\ MayHaveSaved(c, req[<<k, n>>].alias, req[c].url)

(***************************************************************************)
(* A Save without an alias fails, with nothing broken and the client still *)
(* there, only after MaxRetries collisions, and never with a conflict.     *)
(***************************************************************************)
ExhaustedHonestly ==
    \A k \in Clients :
        Generated(k) /\ phase[k] = "answered" /\ status[k] # 200 =>
            /\ status[k] = 500
            /\ dbFaults = 0 /\ genFaults = 0 /\ k \notin cancelled =>
                \A n \in 1 .. MaxRetries : err[<<k, n>>] = "ErrURLExist"

(* The call c changed the table, or may have done so or do so yet. *)
MayHaveChanged(c) ==
    \/ MayHaveSaved(c, req[c].alias, req[c].url)
    \/ c \in MayHaveDeleted(req[c].alias)

(* The call c does what the request of client k asks for. *)
Serves(c, k) ==
    /\ req[c].m = input[k].m /\ req[c].url = input[k].url
    /\ req[c].alias = input[k].alias \/ Generated(k)

(***************************************************************************)
(* The status tells the client the truth about the table, whatever fails   *)
(* between the handler and the storage: 200 and 204 are only answered for  *)
(* an acknowledged change, 302 with a URL a Save stored under that alias,  *)
(* and 400, 404 and 409 only when the request changed nothing and never    *)
(* will; 409 moreover blames another client.  Only 500 leaves it open.     *)
(***************************************************************************)
StatusHonest ==
    \A k \in Clients :
        LET calls == {c \in Calls : c[1] = k}
        IN  /\ status[k] \in {200, 204} =>
                \E c \in calls : Serves(c, k) /\ MayHaveChanged(c) /\ err[c] = "nil"
            /\ status[k] = 302 =>
                \E c \in calls, s \in Calls :
                    val[c] # None /\ MayHaveSaved(s, input[k].alias, val[c])
            /\ status[k] \in {400, 404, 409} => \A c \in calls : ~MayHaveChanged(c)
            /\ status[k] = 409 =>
                \E s \in Calls \ calls : MayHaveSaved(s, input[k].alias, req[s].url)

(* Every request is answered, whatever fails and whoever disconnects. *)
RequestsAnswered ==
    \A k \in Clients : phase[k] # "new" ~> phase[k] = "answered"
-----------------------------------------------------------------------------
(* The inductive strengthenings used by URLServiceProofs *)

(* The calls before the current attempt were refused, the ones after it not made. *)
AttemptInv ==
    \A k \in Clients, n \in 1 .. MaxRetries :
        /\ n < attempt[k] => pc[<<k, n>>] = "done" /\ err[<<k, n>>] = "ErrURLExist"
        /\ n > attempt[k] => pc[<<k, n>>] = "idle"
        /\ n = attempt[k] /\ phase[k] \in {"new", "rolling"} => pc[<<k, n>>] = "idle"

(* What an answer was given for: the outcome of the current call, or no call at all. *)
StatusInv ==
    \A k \in Clients :
        /\ phase[k] = "calling" => Serves(CurrentCall(k), k)
        /\ phase[k] = "answered" =>
            \/ status[k] = 500
            \/ status[k] = 400 /\ \A n \in 1 .. MaxRetries : pc[<<k, n>>] = "idle"
            \/ /\ attempt[k] <= MaxRetries
               /\ pc[CurrentCall(k)] = "done"
               /\ Serves(CurrentCall(k), k)
               /\ ~Collided(k)
               /\ status[k] = StatusOf(input[k].m, err[CurrentCall(k)])
=============================================================================
