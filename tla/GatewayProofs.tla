---------------------------- MODULE GatewayProofs ----------------------------
(***************************************************************************)
(* The front of the server, for any number of requests, addresses and      *)
(* names: it only uses the auth handlers as module Auth describes them, a  *)
(* write needs a token of a session, a limiter's token pays for exactly    *)
(* one call, and the router finds the links that are stored.               *)
(***************************************************************************)
EXTENDS Gateway, AuthProofs

(* Every step of the server is a step of the auth handlers or leaves them alone. *)
LEMMA AuthStep == [GatewayNext]_siteVars => [AuthNext]_authVars
<1> SUFFICES ASSUME [GatewayNext]_siteVars PROVE [AuthNext]_authVars
  OBVIOUS
<1>1. ASSUME NEW s \in Slots, NEW k \in Addrs, NEW m \in Methods, NEW p \in Paths,
             Serve(s, k, m, p)
      PROVE  [AuthNext]_authVars
  <2>1. CASE AuthGroup(s, k, m, p)
    BY <2>1 DEF AuthGroup, AuthNext
  <2>2. CASE WriteGroup(s, k, m, p)
    BY <2>2 DEF WriteGroup
  <2> QED
    BY <1>1, <2>1, <2>2 DEF Serve
<1>2. ASSUME NEW p \in Paths, NEW m \in Methods, Get(p) \/ ReadinessProbe(p) \/ NotFound(m, p)
      PROVE  UNCHANGED authVars
  BY <1>2 DEF Get, ReadinessProbe, NotFound
<1>3. ASSUME NEW s \in Slots, Finish(s) PROVE UNCHANGED authVars
  BY <1>3 DEF Finish
<1>4. CASE Background \/ \E s \in Slots : Execute(s) \/ Return(s) \/ Fail(s)
  BY <1>4 DEF AuthNext
<1>5. CASE Clock
  BY <1>5 DEF Clock, AuthNext
<1>6. CASE UNCHANGED siteVars
  BY <1>6 DEF siteVars
<1>7. "GET" \in Methods
  BY DEF Methods
<1> QED
  BY <1>1, <1>2, <1>3, <1>4, <1>5, <1>6, <1>7 DEF GatewayNext

(* The auth handlers behind the router behave as module Auth says they do. *)
THEOREM GatewayImplementsAuth == GatewaySpec => AuthSpec
<1>1. GatewayInit => AuthInit
  BY DEF GatewayInit
<1> QED
  BY <1>1, AuthStep, PTL DEF GatewaySpec, AuthSpec

LEMMA GatewayAuthInv == GatewaySpec => []AuthInv
BY GatewayImplementsAuth, AuthInvHolds, PTL

(* Known pairs stay known, and what sso has signed does not change. *)
LEMMA Grows ==
    ASSUME AuthInv, [AuthNext]_authVars
    PROVE  known \subseteq known' /\ \A p \in known : expiry'[p] = expiry[p]
<1> DEFINE Same == known' = known /\ expiry' = expiry
<1>1. ASSUME NEW s \in Slots, NEW r \in Calls, Receive(s, r) PROVE Same
  BY <1>1 DEF Receive, clientVars, ssoVars
<1>2. ASSUME NEW r \in Calls, r.tok \in 0 .. issued, NEW c \in Codes, Sso(r, c), UNCHANGED now
      PROVE  \A p \in known : expiry'[p] = expiry[p]
  <2>1. Effect(r, c)
    BY <1>2, SsoStep DEF AuthInv
  <2> QED
    BY <2>1 DEF Effect, AuthInv, ClientType
<1>3. ASSUME NEW s \in Slots, Execute(s)
      PROVE  known' = known /\ \A p \in known : expiry'[p] = expiry[p]
  <2>1. PICK c \in Codes : Sso(req[s], c)
    BY <1>3 DEF Execute
  <2>2. req[s] \in Calls /\ req[s].tok \in 0 .. issued /\ UNCHANGED now /\ known' = known
    BY <1>3 DEF Execute, clientVars, AuthInv, ClientType
  <2> QED
    BY <1>2, <2>1, <2>2
<1>4. ASSUME NEW s \in Slots, Return(s) \/ Fail(s) PROVE known \subseteq known' /\ expiry' = expiry
  BY <1>4 DEF Return, Fail, Answer, ssoVars
<1>5. ASSUME NEW r \in late, ExecuteLate(r)
      PROVE  known' = known /\ \A p \in known : expiry'[p] = expiry[p]
  <2>1. PICK c \in Codes : Sso(r, c)
    BY <1>5 DEF ExecuteLate
  <2>2. r \in Calls /\ r.tok \in {0} \cup unsure
    BY DEF AuthInv, ClientType
  <2>3. \A x \in {0} \cup unsure : x \in 0 .. issued
    BY AuthAssumption DEF AuthAssumption, AuthInv, ClientType, SsoInv, SsoType
  <2>4. UNCHANGED now /\ known' = known
    BY <1>5 DEF ExecuteLate, clientVars
  <2> QED
    BY <1>2, <2>1, <2>2, <2>3, <2>4
<1>6. ASSUME NEW t \in live, Expire(t) PROVE Same
  BY <1>6 DEF Expire, Revoke, clientVars
<1>7. CASE Tick \/ UNCHANGED authVars
  BY <1>7 DEF Tick, authVars, clientVars, ssoVars
<1> QED
  BY <1>1, <1>3, <1>4, <1>5, <1>6, <1>7 DEF AuthNext, Background

-----------------------------------------------------------------------------
(***************************************************************************)
(* A write in progress was let in by the access token of a pair its client *)
(* has, before that expired; the limiters never hold more than the burst.  *)
(***************************************************************************)
Allowed(w) ==
    /\ w.route \in {"Save", "Delete"}
    /\ w.token.pair \in known
    /\ w.at \in Nat /\ w.at < expiry[w.token.pair]

WorkInv ==
    /\ work = [s \in Slots |-> work[s]]
    /\ \A s \in Slots : work[s] # NoWork => Allowed(work[s])

LevelInv ==
    /\ authLevel \in [Addrs -> 0 .. AuthBurst]
    /\ writeLevel \in [Addrs -> 0 .. WriteBurst]

FrontInv == AuthInv /\ WorkInv /\ LevelInv

(* Only an access token that sso signed for this application is let in. *)
LEMMA AllowedToken ==
    ASSUME AuthInv, NEW t \in StrayTokens \cup {AccessToken(q) : q \in known}, RequireAuth(t)
    PROVE  t.pair \in known /\ now < expiry[t.pair]
<1>1. t \notin StrayTokens
  BY AuthAssumption DEF AuthAssumption, StrayTokens, RequireAuth, Verify
<1>2. PICK q \in known : t = AccessToken(q)
  BY <1>1
<1>3. expiry[q] # Never
  <2>1. q \in Pairs
    BY AuthAssumption DEF AuthAssumption, AuthInv, ClientType, SsoInv, SsoType, Pairs
  <2>2. expiry[q] \in Nat
    BY <2>1 DEF AuthInv, SsoInv, SsoType
  <2> QED
    BY <2>2 DEF Never
<1> QED
  BY <1>2, <1>3 DEF AccessToken, RequireAuth, Verify

(* The ways a request to the write group can go. *)
LEMMA WriteCases ==
    ASSUME FrontInv, NEW s \in Slots, NEW k \in Addrs, NEW m \in Methods, NEW p \in Paths,
           Free(s), WriteGroup(s, k, m, p)
    PROVE  /\ UNCHANGED <<authVars, authLevel, links>>
           /\ \/ UNCHANGED <<work, writeLevel>> /\ (Reply(m, p, "RequireAuth") \/ Reply(m, p, "Limiter"))
              \/ \E w : /\ Allowed(w) /\ work' = [work EXCEPT ![s] = w]
                        /\ w.route = Route(m, p) /\ w.path = p
                        /\ w.alias \in Paths \cup {Blank}
                        /\ writeLimiter!Admit(k) /\ UNCHANGED answer
<1>1. PICK t \in StrayTokens \cup {AccessToken(q) : q \in known} : AuthThenLimit(s, k, m, p, t)
  BY DEF WriteGroup
<1>2. UNCHANGED <<authVars, authLevel, links>>
  BY DEF WriteGroup
<1>3. CASE ~RequireAuth(t) /\ Reply(m, p, "RequireAuth") /\ UNCHANGED <<writeLevel, decision, work>>
  BY <1>2, <1>3
<1>4. CASE RequireAuth(t) /\ writeLimiter!Deny(k) /\ Reply(m, p, "Limiter") /\ UNCHANGED work
  BY <1>2, <1>4 DEF writeLimiter!Deny
<1>5. CASE RequireAuth(t) /\ writeLimiter!Admit(k) /\ Enter(s, m, p, t)
  <2>1. PICK a \in (IF Route(m, p) = "Save" THEN Paths \cup {Blank} ELSE {p}) :
          work' = [work EXCEPT ![s] = [route |-> Route(m, p), path |-> p, alias |-> a,
                                       token |-> t, at |-> now]]
    BY <1>5 DEF Enter
  <2> DEFINE w == [route |-> Route(m, p), path |-> p, alias |-> a, token |-> t, at |-> now]
  <2>2. Route(m, p) \in {"Save", "Delete"}
    BY DEF WriteGroup
  <2>3. now \in Nat
    BY AuthAssumption DEF AuthAssumption, FrontInv, AuthInv, SsoInv, SsoType
  <2>4. t.pair \in known /\ now < expiry[t.pair]
    BY <1>5, AllowedToken DEF FrontInv
  <2>5. /\ Allowed(w) /\ w.route = Route(m, p) /\ w.path = p
        /\ w.alias \in Paths \cup {Blank}
    BY <2>2, <2>3, <2>4 DEF Allowed
  <2>6. UNCHANGED answer
    BY <1>5 DEF Enter
  <2> QED
    BY <1>2, <1>5, <2>1, <2>5, <2>6
<1> QED
  BY <1>1, <1>3, <1>4, <1>5 DEF AuthThenLimit

(* What is allowed stays allowed. *)
LEMMA StaysAllowed ==
    ASSUME AuthInv, [AuthNext]_authVars, NEW w, Allowed(w)
    PROVE  Allowed(w)'
BY Grows DEF Allowed

LEMMA InitFrontInv == GatewayInit => FrontInv
<1> SUFFICES ASSUME GatewayInit PROVE FrontInv
  OBVIOUS
<1>1. AuthInv
  BY InitAuthInv DEF GatewayInit
<1>2. WorkInv
  BY DEF GatewayInit, WorkInv
<1>3. LevelInv
  BY GatewayAssumption DEF GatewayAssumption, GatewayInit, LevelInv
<1> QED
  BY <1>1, <1>2, <1>3 DEF FrontInv

(* Taking one token, and refilling, keep a bucket between 0 and its burst. *)
LEMMA AdmitLevel ==
    ASSUME NEW burst \in Nat, NEW lvl \in [Addrs -> 0 .. burst], NEW k \in Addrs, lvl[k] >= 1
    PROVE  [lvl EXCEPT ![k] = @ - 1] \in [Addrs -> 0 .. burst]
OBVIOUS

LEMMA RefillLevel ==
    ASSUME NEW burst \in Nat, NEW rate \in Nat, NEW x \in 0 .. burst
    PROVE  LET y == IF x + rate < burst THEN x + rate ELSE burst IN y \in 0 .. burst /\ y >= x
OBVIOUS

(* The clock only adds to the buckets. *)
LEMMA ClockLevels ==
    ASSUME LevelInv, Clock
    PROVE  LevelInv' /\ \A k \in Addrs : writeLevel'[k] >= writeLevel[k]
<1>1. /\ authLevel' = [k \in Addrs |-> IF authLevel[k] + AuthRate < AuthBurst
                                       THEN authLevel[k] + AuthRate ELSE AuthBurst]
      /\ writeLevel' = [k \in Addrs |-> IF writeLevel[k] + WriteRate < WriteBurst
                                        THEN writeLevel[k] + WriteRate ELSE WriteBurst]
  BY DEF Clock, authLimiter!Tick, writeLimiter!Tick, authLimiter!AtMost, writeLimiter!AtMost
<1>2. \A k \in Addrs : authLevel'[k] \in 0 .. AuthBurst
  BY <1>1, RefillLevel, GatewayAssumption DEF GatewayAssumption, LevelInv
<1>3. \A k \in Addrs : writeLevel'[k] \in 0 .. WriteBurst /\ writeLevel'[k] >= writeLevel[k]
  BY <1>1, RefillLevel, GatewayAssumption DEF GatewayAssumption, LevelInv
<1> QED
  BY <1>1, <1>2, <1>3 DEF LevelInv

(***************************************************************************)
(* How a step treats the writes in progress, the calls of sso and the      *)
(* buckets: the facts behind PaidOnce and the invariant.                   *)
(***************************************************************************)
Quiet ==
    /\ \A s \in Slots : work'[s] \in {work[s], NoWork}
    /\ work' = [s \in Slots |-> work'[s]]
    /\ \A k \in Addrs : writeLevel'[k] >= writeLevel[k]

LetIn(s) ==
    \E w : \E k \in Addrs :
        /\ Allowed(w) /\ work[s] = NoWork /\ work' = [work EXCEPT ![s] = w]
        /\ writeLevel[k] >= 1 /\ writeLevel' = [writeLevel EXCEPT ![k] = @ - 1]
        /\ UNCHANGED <<authVars, authLevel>>

CallPaid ==
    \A s \in Slots : pc[s] = "idle" /\ pc'[s] = "calling" =>
        \E k \in Addrs : authLevel'[k] = authLevel[k] - 1

LEMMA FrontStep ==
    ASSUME FrontInv, [GatewayNext]_siteVars
    PROVE  CallPaid /\ LevelInv' /\ (Quiet \/ \E s \in Slots : LetIn(s))
<1> USE DEF FrontInv
<1>0. UNCHANGED work /\ UNCHANGED writeLevel => Quiet
  BY GatewayAssumption DEF GatewayAssumption, Quiet, WorkInv, LevelInv
<1>1. ASSUME UNCHANGED authVars PROVE CallPaid
  BY <1>1 DEF authVars, handlerVars, CallPaid
<1>2. ASSUME NEW s \in Slots, NEW k \in Addrs, NEW m \in Methods, NEW p \in Paths,
             Free(s), AuthGroup(s, k, m, p)
      PROVE  CallPaid /\ LevelInv' /\ Quiet
  <2>1. UNCHANGED <<writeLevel, work>>
    BY <1>2 DEF AuthGroup
  <2>2. CASE authLimiter!Deny(k) /\ UNCHANGED authVars
    BY <1>0, <1>1, <2>1, <2>2 DEF authLimiter!Deny, LevelInv
  <2>3. CASE authLimiter!Admit(k)
    <3>1. authLevel[k] >= 1 /\ authLevel' = [authLevel EXCEPT ![k] = @ - 1]
      BY <2>3 DEF authLimiter!Admit
    <3>2. authLevel'[k] = authLevel[k] - 1
      BY <3>1 DEF LevelInv
    <3>3. LevelInv'
      BY <2>1, <3>1, AdmitLevel, GatewayAssumption DEF GatewayAssumption, LevelInv
    <3> QED
      BY <1>0, <2>1, <3>2, <3>3 DEF CallPaid
  <2> QED
    BY <1>2, <2>2, <2>3 DEF AuthGroup
<1>3. ASSUME NEW s \in Slots, NEW k \in Addrs, NEW m \in Methods, NEW p \in Paths,
             Free(s), WriteGroup(s, k, m, p)
      PROVE  CallPaid /\ LevelInv' /\ (Quiet \/ LetIn(s))
  <2>1. CallPaid /\ UNCHANGED <<authVars, authLevel>>
    BY <1>1, <1>3, WriteCases
  <2>2. CASE UNCHANGED <<work, writeLevel>>
    BY <1>0, <2>1, <2>2 DEF LevelInv
  <2>3. CASE \E w : Allowed(w) /\ work' = [work EXCEPT ![s] = w] /\ writeLimiter!Admit(k)
    <3>1. PICK w : Allowed(w) /\ work' = [work EXCEPT ![s] = w] /\ writeLimiter!Admit(k)
      BY <2>3
    <3>2. writeLevel[k] >= 1 /\ writeLevel' = [writeLevel EXCEPT ![k] = @ - 1]
      BY <3>1 DEF writeLimiter!Admit
    <3>3. LetIn(s)
      BY <1>3, <2>1, <3>1, <3>2 DEF LetIn, Free
    <3>4. LevelInv'
      BY <2>1, <3>2, AdmitLevel, GatewayAssumption DEF GatewayAssumption, LevelInv
    <3> QED
      BY <2>1, <3>3, <3>4
  <2> QED
    BY <1>3, <2>2, <2>3, WriteCases
<1>4. ASSUME NEW p \in Paths, NEW m \in Methods, Get(p) \/ ReadinessProbe(p) \/ NotFound(m, p)
      PROVE  CallPaid /\ LevelInv' /\ Quiet
  <2>1. UNCHANGED authVars /\ UNCHANGED <<authLevel, writeLevel, work>>
    BY <1>4 DEF Get, ReadinessProbe, NotFound
  <2> QED
    BY <1>0, <1>1, <2>1 DEF LevelInv
<1>5. ASSUME NEW s \in Slots, Finish(s) PROVE CallPaid /\ LevelInv' /\ Quiet
  <2>1. UNCHANGED authVars /\ UNCHANGED <<authLevel, writeLevel>>
        /\ work' = [work EXCEPT ![s] = NoWork]
    BY <1>5 DEF Finish
  <2>2. \A k \in Addrs : writeLevel'[k] >= writeLevel[k]
    BY <2>1, GatewayAssumption DEF GatewayAssumption, LevelInv
  <2>3. (\A u \in Slots : work'[u] \in {work[u], NoWork}) /\ work' = [u \in Slots |-> work'[u]]
    BY <2>1 DEF WorkInv
  <2> QED
    BY <1>1, <2>1, <2>2, <2>3 DEF Quiet, LevelInv
<1>6. CASE (Background \/ \E s \in Slots : Execute(s) \/ Return(s) \/ Fail(s)) /\ UNCHANGED gatewayVars
  <2>1. UNCHANGED <<authLevel, writeLevel, work>>
    BY <1>6 DEF gatewayVars
  <2>2. \A u \in Slots : pc'[u] \in {pc[u], "idle"}
    BY <1>6 DEF Background, Execute, Return, Fail, Answer, ExecuteLate, Expire, handlerVars,
       AuthInv, ClientType
  <2> QED
    BY <1>0, <2>1, <2>2 DEF CallPaid, LevelInv
<1>7. CASE Clock
  <2>1. UNCHANGED <<pc, work>>
    BY <1>7 DEF Clock, Tick, handlerVars
  <2> QED
    BY <1>7, <2>1, ClockLevels DEF CallPaid, Quiet, WorkInv
<1>8. CASE UNCHANGED siteVars
  <2>1. UNCHANGED authVars /\ UNCHANGED <<authLevel, writeLevel, work>>
    BY <1>8 DEF siteVars, gatewayVars
  <2> QED
    BY <1>0, <1>1, <2>1 DEF LevelInv
<1>9. "GET" \in Methods
  BY DEF Methods
<1> QED
  BY <1>2, <1>3, <1>4, <1>5, <1>6, <1>7, <1>8, <1>9 DEF GatewayNext, Serve

LEMMA NextFrontInv == FrontInv /\ [GatewayNext]_siteVars => FrontInv'
<1> SUFFICES ASSUME FrontInv, [GatewayNext]_siteVars PROVE FrontInv'
  OBVIOUS
<1>1. AuthInv' /\ [AuthNext]_authVars
  BY AuthStep, NextAuthInv DEF FrontInv
<1>2. \A w : Allowed(w) => Allowed(w)'
  BY <1>1, StaysAllowed DEF FrontInv
<1>3. WorkInv'
  <2>1. CASE Quiet
    BY <1>2, <2>1 DEF Quiet, FrontInv, WorkInv
  <2>2. ASSUME NEW s \in Slots, LetIn(s) PROVE WorkInv'
    <3>1. PICK w : Allowed(w) /\ work' = [work EXCEPT ![s] = w]
      BY <2>2 DEF LetIn
    <3> QED
      BY <1>2, <3>1 DEF FrontInv, WorkInv
  <2> QED
    BY <2>1, <2>2, FrontStep
<1> QED
  BY <1>1, <1>3, FrontStep DEF FrontInv

LEMMA FrontInvHolds == GatewaySpec => []FrontInv
BY InitFrontInv, NextFrontInv, PTL DEF GatewaySpec

(***************************************************************************)
(* A write in progress was let in with a token of sso, less than AccessTTL *)
(* after the end of its session at the latest.                             *)
(***************************************************************************)
THEOREM WriteWithinSessionAlways == GatewaySpec => []WriteWithinSession
<1>1. FrontInv => WriteWithinSession
  <2> SUFFICES ASSUME FrontInv, NEW s \in Slots, work[s] # NoWork
               PROVE  LET p == work[s].token.pair
                      IN  /\ p \in known
                          /\ ended[family[p]] # Never =>
                                work[s].at < ended[family[p]] + AccessTTL
    BY DEF WriteWithinSession
  <2> DEFINE p == work[s].token.pair
  <2>1. p \in known /\ work[s].at \in Nat /\ work[s].at < expiry[p]
    BY DEF FrontInv, WorkInv, Allowed
  <2>2. p \in 1 .. issued /\ p \in Pairs
    <3>1. \A x \in known : x \in 1 .. issued /\ x \in Pairs
      BY AuthAssumption DEF AuthAssumption, FrontInv, AuthInv, ClientType, SsoInv, SsoType, Pairs
    <3> QED
      BY <2>1, <3>1
  <2>3. expiry[p] \in Nat /\ family[p] \in Pairs
    BY <2>2, AuthAssumption DEF AuthAssumption, FrontInv, AuthInv, SsoInv, SsoType, Pairs
  <2>4. ended[family[p]] # Never => ended[family[p]] \in Nat
    BY <2>3, AuthAssumption DEF AuthAssumption, FrontInv, AuthInv, SsoInv, SsoType
  <2>5. ended[family[p]] # Never => expiry[p] <= ended[family[p]] + AccessTTL
    BY <2>2 DEF FrontInv, AuthInv, SsoInv, ExpiryBound
  <2> HIDE DEF p
  <2>6. ended[family[p]] # Never => work[s].at < ended[family[p]] + AccessTTL
    BY <2>1, <2>3, <2>4, <2>5, AuthAssumption DEF AuthAssumption
  <2> QED
    BY <2>1, <2>6 DEF p
<1> QED
  BY <1>1, FrontInvHolds, PTL

(***************************************************************************)
(* Every call of sso takes a token of its limiter, and the tokens of the   *)
(* write limiter pay for authorised writes and nothing else.               *)
(***************************************************************************)
THEOREM PaidOnceAlways == GatewaySpec => PaidOnce
<1> DEFINE Paid ==
      /\ CallPaid
      /\ (\E s \in Slots : work[s] = NoWork /\ work'[s] # NoWork) <=>
            \E k \in Addrs : writeLevel'[k] < writeLevel[k]
<1>1. ASSUME FrontInv, [GatewayNext]_siteVars PROVE Paid
  <2>1. CASE Quiet
    <3>1. \A k \in Addrs : ~(writeLevel'[k] < writeLevel[k])
      BY <1>1, <2>1, FrontStep, GatewayAssumption DEF GatewayAssumption, Quiet, FrontInv, LevelInv
    <3> QED
      BY <1>1, <2>1, <3>1, FrontStep DEF Quiet
  <2>2. ASSUME NEW s \in Slots, LetIn(s) PROVE Paid
    <3>0. PICK w : \E k \in Addrs :
            /\ Allowed(w) /\ work[s] = NoWork /\ work' = [work EXCEPT ![s] = w]
            /\ writeLevel' = [writeLevel EXCEPT ![k] = @ - 1]
      BY <2>2 DEF LetIn
    <3>1. PICK k \in Addrs :
            /\ Allowed(w) /\ work[s] = NoWork /\ work' = [work EXCEPT ![s] = w]
            /\ writeLevel' = [writeLevel EXCEPT ![k] = @ - 1]
      BY <3>0
    <3>2. w # NoWork
      BY <3>1 DEF Allowed, NoWork
    <3>3. work'[s] = w
      BY <1>1, <3>1 DEF FrontInv, WorkInv
    <3>4. writeLevel'[k] < writeLevel[k]
      BY <1>1, <3>1, GatewayAssumption DEF GatewayAssumption, FrontInv, LevelInv
    <3> QED
      BY <1>1, <3>1, <3>2, <3>3, <3>4, FrontStep
  <2> QED
    BY <1>1, <2>1, <2>2, FrontStep
<1>2. FrontInv /\ [GatewayNext]_siteVars => [Paid]_siteVars
  BY <1>1
<1>3. GatewaySpec => [][Paid]_siteVars
  BY <1>2, FrontInvHolds, PTL DEF GatewaySpec
<1> QED
  BY <1>3 DEF PaidOnce, CallPaid

-----------------------------------------------------------------------------
(***************************************************************************)
(* The links.  Each has one segment that the validation or the generator   *)
(* let through; but for the router's own names, the router finds the       *)
(* handlers of aliases for it.                                             *)
(***************************************************************************)
LinksInv == \A a \in links : \E n \in Slugs : a = <<n>>

AliasInv == \A s \in Slots : work[s].alias \in Paths \cup {Blank}

LinkInv == LinksInv /\ AliasInv /\ LinkServed

(* The routes of a link that is not one of the reserved names. *)
LEMMA LinkRoutes ==
    ASSUME LinksInv, NEW a \in links, a \notin Reserved
    PROVE  Route("GET", a) = "Get" /\ Route("DELETE", a) = "Delete"
<1>1. PICK n \in Slugs : a = <<n>>
  BY DEF LinksInv
<1>2. n \notin {"auth", "healthz"}
  BY <1>1 DEF Reserved
<1>3. Len(a) = 1 /\ a[1] = n /\ a # <<"healthz">> /\ ~Under(a, "auth")
  BY <1>1, <1>2 DEF Under
<1> QED
  BY <1>3 DEF Route

(* The only route to the probe, and the method of each route. *)
LEMMA RouteMethods ==
    ASSUME NEW m \in Methods, NEW p
    PROVE  /\ Route("GET", p) = "ReadinessProbe" => p \in Reserved
           /\ m = "GET" => Route(m, p) \notin {"Save", "Delete"}
<1>1. ASSUME Route("GET", p) = "ReadinessProbe" PROVE p = <<"healthz">>
  BY <1>1 DEF Route, AuthRoutes
<1>2. Route("GET", p) \notin {"Save", "Delete"}
  BY DEF Route, AuthRoutes
<1> QED
  BY <1>1, <1>2 DEF Reserved

(* An answer that serves its link, and one about no link. *)
LEMMA ServedReply ==
    ASSUME NEW m, NEW p, NEW by, Reply(m, p, by),
           p \in links => \/ p \in Reserved
                         \/ /\ m = "GET" => by = "Get"
                            /\ m = "DELETE" => by \in {"Delete", "RequireAuth", "Limiter"}
    PROVE  LinkServed'
BY DEF Reply, LinkServed, Served, NoAnswer, Blank, Reserved

LEMMA NextLinkInv == FrontInv /\ LinkInv /\ [GatewayNext]_siteVars => LinkInv'
<1> SUFFICES ASSUME FrontInv, LinkInv, [GatewayNext]_siteVars PROVE LinkInv'
  OBVIOUS
<1> USE DEF LinkInv
<1>0. ASSUME UNCHANGED <<links, work>>, LinkServed' PROVE LinkInv'
  BY <1>0 DEF LinksInv, AliasInv
<1>1. ASSUME NEW s \in Slots, NEW k \in Addrs, NEW m \in Methods, NEW p \in Paths,
             Free(s), WriteGroup(s, k, m, p)
      PROVE  LinkInv'
  <2>1. UNCHANGED links /\ m # "GET"
    BY <1>1, WriteCases, RouteMethods DEF WriteGroup
  <2>2. CASE UNCHANGED <<work, writeLevel>> /\ (Reply(m, p, "RequireAuth") \/ Reply(m, p, "Limiter"))
    BY <1>0, <2>1, <2>2, ServedReply
  <2>3. ASSUME NEW w, work' = [work EXCEPT ![s] = w], w.path = p, UNCHANGED answer,
               w.alias \in Paths \cup {Blank}
        PROVE  LinkInv'
    BY <2>1, <2>3 DEF LinksInv, AliasInv, LinkServed, FrontInv, WorkInv
  <2> QED
    BY <1>1, <2>2, <2>3, WriteCases
<1>2. ASSUME NEW s \in Slots, NEW k \in Addrs, NEW m \in Methods, NEW p \in Paths,
             AuthGroup(s, k, m, p)
      PROVE  LinkInv'
  BY <1>0, <1>2 DEF AuthGroup, LinkServed
<1>3. ASSUME NEW p \in Paths, Get(p) PROVE LinkInv'
  BY <1>0, <1>3, ServedReply DEF Get
<1>4. ASSUME NEW p \in Paths, ReadinessProbe(p) PROVE LinkInv'
  <2>1. p \in Reserved
    BY <1>4, RouteMethods DEF ReadinessProbe, Methods
  <2> QED
    BY <1>0, <1>4, <2>1, ServedReply DEF ReadinessProbe
<1>5. ASSUME NEW p \in Paths, NEW m \in Methods, NotFound(m, p) PROVE LinkInv'
  <2>1. p \in links /\ p \notin Reserved => m \notin {"GET", "DELETE"}
    BY <1>5, LinkRoutes DEF NotFound
  <2> QED
    BY <1>0, <1>5, <2>1, ServedReply DEF NotFound
<1>6. ASSUME NEW s \in Slots, Finish(s) PROVE LinkInv'
  <2>1. work' = [work EXCEPT ![s] = NoWork]
    BY <1>6 DEF Finish
  <2>2. AliasInv'
    BY <2>1 DEF AliasInv, NoWork, Blank, FrontInv, WorkInv
  <2>3. CASE SaveLink(work[s])
    <3>1. Reply("POST", work[s].path, "Save")
      BY <2>3 DEF SaveLink
    <3>2. LinkServed'
      BY <3>1, ServedReply
    <3>3. LinksInv'
      <4>1. ASSUME NEW a, links' = links \cup {a}, \E n \in Slugs : a = <<n>> PROVE LinksInv'
        BY <4>1 DEF LinksInv
      <4>2. CASE UNCHANGED links
        BY <4>2 DEF LinksInv
      <4>3. ASSUME NEW a \in (IF work[s].alias = Blank THEN {<<n>> : n \in Rolls} ELSE {work[s].alias}),
                   work[s].alias # Blank => ValidAlias(work[s].alias)
            PROVE  \E n \in Slugs : a = <<n>>
        <5>1. CASE work[s].alias = Blank
          BY <4>3, <5>1, GatewayAssumption DEF GatewayAssumption
        <5>2. CASE work[s].alias # Blank
          <6>1. a = work[s].alias /\ ValidAlias(a) /\ a \in Paths
            BY <4>3, <5>2 DEF AliasInv
          <6>2. \A b \in Paths : Len(b) = 1 => b = <<b[1]>>
            BY DEF Paths
          <6> QED
            BY <6>1, <6>2 DEF ValidAlias
        <5> QED
          BY <5>1, <5>2
      <4> QED
        BY <2>3, <4>1, <4>2, <4>3 DEF SaveLink
    <3> QED
      BY <2>2, <3>2, <3>3
  <2>4. CASE work[s].route = "Delete" /\ DeleteLink(work[s])
    <3>1. links' \subseteq links
      BY <2>4 DEF DeleteLink
    <3>2. LinksInv'
      BY <3>1 DEF LinksInv
    <3>3. LinkServed'
      BY <2>4, ServedReply DEF DeleteLink
    <3> QED
      BY <2>2, <3>2, <3>3
  <2> QED
    BY <1>6, <2>3, <2>4 DEF Finish
<1>7. CASE UNCHANGED gatewayVars \/ Clock \/ UNCHANGED siteVars
  BY <1>0, <1>7 DEF gatewayVars, siteVars, Clock, LinkServed
<1> QED
  BY <1>1, <1>2, <1>3, <1>4, <1>5, <1>6, <1>7 DEF GatewayNext, Serve

(***************************************************************************)
(* A request for a stored link, under a name the router has not for        *)
(* itself, gets to Handler.Get or Handler.Delete or is turned away on the  *)
(* way by RequireAuth or the limiter: no route shadows the link and no     *)
(* alias is stored that the router cannot match.                           *)
(***************************************************************************)
THEOREM LinkServedAlways == GatewaySpec => []LinkServed
<1>1. GatewayInit => LinkInv
  BY DEF GatewayInit, LinkInv, LinksInv, AliasInv, LinkServed, Served, NoWork, NoAnswer
<1>2. LinkInv => LinkServed
  BY DEF LinkInv
<1> QED
  BY <1>1, <1>2, FrontInvHolds, NextLinkInv, PTL DEF GatewaySpec
=============================================================================
