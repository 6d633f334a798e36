------------------------------ MODULE Gateway ------------------------------
(***************************************************************************)
(* The HTTP front: internal/transport/http/router.go with its middlewares  *)
(* (RequireAuth, the two rate limiters), the validation of aliases and the *)
(* health probe, composed with the auth handlers of module Auth and with   *)
(* limiters as TokenBucket promises them (RateLimiter implements it).      *)
(*                                                                         *)
(* A path is the sequence of its segments, and so is an alias: one with a  *)
(* slash in it is two segments.  Of the links it is only kept which        *)
(* aliases have a row, and of an answer which handler or middleware gave   *)
(* it: what a handler answers over the cache and the table is the subject  *)
(* of URLService and RedisCache.                                           *)
(***************************************************************************)
EXTENDS Auth, Sequences

CONSTANTS
    Addrs,        \* client addresses, the keys of the limiters
    AuthRate,     \* authEndpointRate, in tokens per tick
    AuthBurst,    \* authEndpointBurst
    WriteRate,    \* writeEndpointRate
    WriteBurst,   \* writeEndpointBurst
    Names,        \* path segments the router does not know
    Slugs,        \* the segments of 4 to 20 letters, digits, '-' and '_'
    Rolls         \* the segments the alias generator may return

ASSUME GatewayAssumption ==
    /\ AuthRate \in Nat /\ AuthBurst \in Nat
    /\ WriteRate \in Nat /\ WriteBurst \in Nat
    /\ Slugs \subseteq Names \cup {"auth", "healthz"}
    /\ Rolls \subseteq Slugs
    /\ Names \cap {"auth", "healthz", "url"} = {}

VARIABLES
    authLevel,    \* the buckets of authLimiter
    writeLevel,   \* the buckets of writeLimiter
    decision,     \* the last decision of a limiter
    links,        \* the aliases that have a row
    work,         \* [Slots -> the Save or Delete in progress, or NoWork]
    answer        \* the last answer outside /auth, if it was about a stored link

gatewayVars == <<authLevel, writeLevel, decision, links, work, answer>>
siteVars == <<authVars, gatewayVars>>

authLimiter == INSTANCE TokenBucket
    WITH Keys <- Addrs, Rate <- AuthRate, Burst <- AuthBurst, Cost <- 1, level <- authLevel
writeLimiter == INSTANCE TokenBucket
    WITH Keys <- Addrs, Rate <- WriteRate, Burst <- WriteBurst, Cost <- 1, level <- writeLevel

AuthRoutes ==
    [register |-> "Register", login |-> "Login", refresh |-> "Refresh", logout |-> "Logout"]

Methods == {"GET", "POST", "DELETE"}
Paths == {<<n>> : n \in Names \cup {"auth", "healthz", "url"}}
            \cup {<<"auth", o>> : o \in DOMAIN AuthRoutes}
            \cup {<<n, n>> : n \in Names}
Blank == <<>>

NoWork == [route |-> "none", path |-> Blank, alias |-> Blank, token |-> "none", at |-> 0]
NoAnswer == [method |-> "none", path |-> Blank, by |-> "none"]

Under(p, root) == Len(p) > 0 /\ p[1] = root

(* Which handler chi finds: a static route first, then the pattern {alias}. *)
Route(m, p) ==
    CASE Under(p, "auth") ->
            IF m = "POST" /\ Len(p) = 2 /\ p[2] \in DOMAIN AuthRoutes THEN AuthRoutes[p[2]] ELSE "none"
      [] m = "GET" /\ p = <<"healthz">> -> "ReadinessProbe"
      [] m = "POST" /\ p = <<"url">> -> "Save"
      [] m = "GET" /\ Len(p) = 1 -> "Get"
      [] m = "DELETE" /\ Len(p) = 1 -> "Delete"
      [] OTHER -> "none"

(* Who answers a request for p; it is of interest when p is a stored link. *)
Reply(m, p, by) ==
    answer' = IF p \in links THEN [method |-> m, path |-> p, by |-> by] ELSE NoAnswer

(* Mutant: the pattern of the alias tag is not anchored. *)
AnyPathIsValid(a) == Len(a) > 0

(* omitempty,min=4,max=20,alias *)
ValidAlias(a) == Len(a) = 1 /\ a[1] \in Slugs

GatewayInit ==
    /\ AuthInit
    /\ authLevel = [k \in Addrs |-> AuthBurst]
    /\ writeLevel = [k \in Addrs |-> WriteBurst]
    /\ decision = [key |-> "none", ok |-> "none"]
    /\ links = {}
    /\ work = [s \in Slots |-> NoWork]
    /\ answer = NoAnswer

Free(s) == pc[s] = "idle" /\ work[s] = NoWork
-----------------------------------------------------------------------------
(* /auth: the limiter comes before everything, requests to no route included. *)
AuthGroup(s, k, m, p) ==
    /\ Under(p, "auth")
    /\ \/ /\ authLimiter!Deny(k)
          /\ UNCHANGED authVars
       \/ /\ authLimiter!Admit(k)
          /\ \/ \E r \in Calls : r.op = Route(m, p) /\ Receive(s, r)
             \/ UNCHANGED authVars        \* 400: a body is refused; 404 or 405: no route
    /\ UNCHANGED <<writeLevel, links, work, answer>>

(* The handler starts, with any body in a Save: a blank alias is to be generated. *)
Enter(s, m, p, t) ==
    /\ \E a \in (IF Route(m, p) = "Save" THEN Paths \cup {Blank} ELSE {p}) :
        work' = [work EXCEPT ![s] = [route |-> Route(m, p), path |-> p, alias |-> a,
                                     token |-> t, at |-> now]]
    /\ UNCHANGED answer

(* Mutant: the limiter is mounted before RequireAuth. *)
LimitThenAuth(s, k, m, p, t) ==
    \/ writeLimiter!Deny(k) /\ Reply(m, p, "Limiter") /\ UNCHANGED work
    \/ writeLimiter!Admit(k) /\ ~RequireAuth(t) /\ Reply(m, p, "RequireAuth") /\ UNCHANGED work
    \/ writeLimiter!Admit(k) /\ RequireAuth(t) /\ Enter(s, m, p, t)

(* RequireAuth, then the limiter, then the handler. *)
AuthThenLimit(s, k, m, p, t) ==
    \/ ~RequireAuth(t) /\ Reply(m, p, "RequireAuth") /\ UNCHANGED <<writeLevel, decision, work>>
    \/ RequireAuth(t) /\ writeLimiter!Deny(k) /\ Reply(m, p, "Limiter") /\ UNCHANGED work
    \/ RequireAuth(t) /\ writeLimiter!Admit(k) /\ Enter(s, m, p, t)

WriteGroup(s, k, m, p) ==
    /\ Route(m, p) \in {"Save", "Delete"}
    /\ \E t \in StrayTokens \cup {AccessToken(q) : q \in known} : AuthThenLimit(s, k, m, p, t)
    /\ UNCHANGED <<authVars, authLevel, links>>

(* GET /{alias}, without a token or a limit. *)
Get(p) ==
    /\ Route("GET", p) = "Get"
    /\ Reply("GET", p, "Get")
    /\ UNCHANGED <<authVars, authLevel, writeLevel, decision, links, work>>

(* GET /healthz, without a token or a limit. *)
ReadinessProbe(p) ==
    /\ Route("GET", p) = "ReadinessProbe"
    /\ Reply("GET", p, "ReadinessProbe")
    /\ UNCHANGED <<authVars, authLevel, writeLevel, decision, links, work>>

(* No handler: 405 when the path has one for another method, else 404. *)
NotFound(m, p) ==
    /\ Route(m, p) = "none" /\ ~Under(p, "auth")
    /\ Reply(m, p, "none")
    /\ UNCHANGED <<authVars, authLevel, writeLevel, decision, links, work>>

(***************************************************************************)
(* Save refuses the body, its url or an alias that is not valid, fails, or *)
(* adds the row; an alias that is taken, and one that may not be executed  *)
(* after all, leave the table as it is.                                    *)
(***************************************************************************)
SaveLink(w) ==
    /\ \/ UNCHANGED links
       \/ \E a \in (IF w.alias = Blank THEN {<<n>> : n \in Rolls} ELSE {w.alias}) :
            /\ w.alias # Blank => ValidAlias(w.alias)
            /\ links' = links \cup {a}
    /\ Reply("POST", w.path, "Save")

(* Delete removes the row, or fails. *)
DeleteLink(w) ==
    /\ links' \in {links, links \ {w.alias}}
    /\ Reply("DELETE", w.path, "Delete")

(* The handler of s ends; a failure may leave its statement executed or not. *)
Finish(s) ==
    /\ work[s] # NoWork
    /\ \/ work[s].route = "Save" /\ SaveLink(work[s])
       \/ work[s].route = "Delete" /\ DeleteLink(work[s])
    /\ work' = [work EXCEPT ![s] = NoWork]
    /\ UNCHANGED <<authVars, authLevel, writeLevel, decision>>

Serve(s, k, m, p) == Free(s) /\ (AuthGroup(s, k, m, p) \/ WriteGroup(s, k, m, p))

Clock ==
    /\ Tick
    /\ authLimiter!Tick /\ writeLimiter!Tick
    /\ UNCHANGED <<links, work, answer>>

GatewayNext ==
    \/ \E s \in Slots, k \in Addrs, m \in Methods, p \in Paths : Serve(s, k, m, p)
    \/ \E p \in Paths : Get(p) \/ ReadinessProbe(p) \/ \E m \in Methods : NotFound(m, p)
    \/ \E s \in Slots : Finish(s)
    \/ /\ Background \/ \E s \in Slots : Execute(s) \/ Return(s) \/ Fail(s)
       /\ UNCHANGED gatewayVars
    \/ Clock

GatewaySpec == GatewayInit /\ [][GatewayNext]_siteVars
-----------------------------------------------------------------------------
(***************************************************************************)
(* A write is made with an access token that sso issued to this            *)
(* application and its client received, and not later than AccessTTL after *)
(* the end of the session: the token is checked locally, so a logout does  *)
(* not stop it at once.                                                    *)
(***************************************************************************)
WriteWithinSession ==
    \A s \in Slots : work[s] # NoWork =>
        LET p == work[s].token.pair
        IN  /\ p \in known
            /\ ended[family[p]] # Never => work[s].at < ended[family[p]] + AccessTTL

(***************************************************************************)
(* No call of sso and no write starts without a token of its limiter, and  *)
(* nothing but an authorised write spends one of the write limiter: the    *)
(* order in which NewRouter mounts the middlewares.                        *)
(***************************************************************************)
PaidOnce ==
    [][/\ \A s \in Slots : pc[s] = "idle" /\ pc'[s] = "calling" =>
            \E k \in Addrs : authLevel'[k] = authLevel[k] - 1
       /\ (\E s \in Slots : work[s] = NoWork /\ work'[s] # NoWork) <=>
            \E k \in Addrs : writeLevel'[k] < writeLevel[k]]_siteVars

(* The names the router has for itself. *)
Reserved == {<<"auth">>, <<"healthz">>}

(* The answer was given by the handler for links, or on the way to it. *)
Served(a) ==
    /\ a.method = "GET" => a.by = "Get"
    /\ a.method = "DELETE" => a.by \in {"Delete", "RequireAuth", "Limiter"}

(***************************************************************************)
(* Every link that is stored is reachable: validation and generator only   *)
(* let aliases into the table for which a request to follow or to delete   *)
(* the link gets to Handler.Get or Handler.Delete, but for the two names   *)
(* the router has for itself.                                              *)
(***************************************************************************)
LinkServed == answer.path \notin Reserved => Served(answer)

(* Every link that is stored can be followed and deleted. *)
EveryLinkServed == Served(answer)
=============================================================================
