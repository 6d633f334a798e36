----------------------------- MODULE AuthProofs -----------------------------
(***************************************************************************)
(* What a client can rely on about its refresh tokens, for any number of   *)
(* requests, users and tokens.                                             *)
(***************************************************************************)
EXTENDS Auth, TLAPS

Ops == {"Register", "Login", "Refresh", "Logout"}

(* What is known of a request. *)
LEMMA CallFields ==
    ASSUME NEW r \in Calls
    PROVE  /\ r.op \in Ops /\ r # NoCall
           /\ r.tok \in {0} \cup Pairs
           /\ r.op \in {"Register", "Login"} => r.tok = 0 /\ r.email \in Emails
BY DEF Calls, NoCall, Ops

(* The status a handler answers with, from the code of its RPC. *)
LEMMA Statuses ==
    ASSUME NEW op \in Ops, NEW c \in Codes \cup {"Unavailable"}
    PROVE  LET st == StatusOf(op, MapErr(c))
           IN  /\ st = 200 <=> op \in {"Login", "Refresh"} /\ c = "OK"
               /\ st = 204 <=> op = "Logout" /\ c = "OK"
               /\ st = 401 => op = "Login" \/ (op = "Refresh" /\ c = "Unauthenticated")
               /\ c = "Unavailable" => st = 500
BY DEF Ops, Codes, MapErr, StatusOf, RegisterStatus, LoginStatus, RefreshStatus, LogoutStatus

-----------------------------------------------------------------------------
(***************************************************************************)
(* The state of sso.  A session has at most one live token and none once   *)
(* it has ended; no access token outlives the end of its session by more   *)
(* than AccessTTL.                                                         *)
(***************************************************************************)
SsoType ==
    /\ now \in 0 .. MaxTime
    /\ users \subseteq Emails
    /\ issued \in 0 .. MaxPairs
    /\ family \in [Pairs -> 0 .. MaxPairs]
    /\ expiry \in [Pairs -> Nat]
    /\ ended \in [Pairs -> {Never} \cup (0 .. MaxTime)]
    /\ live \subseteq 1 .. issued
    /\ \A p \in 1 .. issued : family[p] \in 1 .. p /\ family[family[p]] = family[p]

OneLive == \A p, q \in live : family[p] = family[q] => p = q

EndedIsDead ==
    /\ \A p \in live : ended[family[p]] = Never
    /\ \A p \in Pairs : p > issued => ended[p] = Never

ExpiryBound ==
    \A p \in 1 .. issued :
        /\ expiry[p] <= now + AccessTTL
        /\ ended[family[p]] # Never => expiry[p] <= ended[family[p]] + AccessTTL

SsoInv == SsoType /\ OneLive /\ EndedIsDead /\ ExpiryBound

(***************************************************************************)
(* What an RPC changes: dead tokens stay dead, and a token dies only by    *)
(* its own Refresh, which buys the next pair of its session, or by a       *)
(* Logout, which ends it.                                                  *)
(***************************************************************************)
Effect(r, c) ==
    /\ issued' \in {issued, issued + 1}
    /\ \A p \in 1 .. issued : family'[p] = family[p] /\ expiry'[p] = expiry[p]
    /\ live' \cap (1 .. issued) \subseteq live
    /\ issued' = issued + 1 => issued' \in live'
    /\ c = "OK" /\ r.op \in {"Login", "Refresh"} => issued' = issued + 1
    /\ r.op = "Refresh" /\ c = "OK" => r.tok \in 1 .. issued /\ family'[issued'] = family[r.tok]
    /\ c = "Unauthenticated" \/ (r.op = "Logout" /\ c = "OK") => r.tok \notin live'
    /\ \A p \in live \ live' :
        \/ p = r.tok /\ r.op = "Refresh" /\ c = "OK"
        \/ p = r.tok /\ r.op = "Logout" /\ ended'[family[p]] # Never
    /\ \A f \in Pairs : ended[f] # Never => ended'[f] # Never

(* Issue gives the session f its next live token and disturbs no other. *)
LEMMA IssueSso ==
    ASSUME SsoInv, UNCHANGED now,
           NEW f \in 1 .. issued + 1, NEW spent \in SUBSET live, Issue(f, spent),
           \/ f = issued + 1 /\ spent = {}
           \/ \E t \in live : f = family[t] /\ spent = {t}
    PROVE  SsoInv'
<1> USE AuthAssumption DEF SsoInv, SsoType, Issue, AuthAssumption, Pairs, Never
<1>1. issued + 1 \in Pairs /\ f \in Pairs /\ issued \in Nat /\ now + AccessTTL \in Nat
  OBVIOUS
<1>2. f \in 1 .. issued => family[f] = f
  OBVIOUS
<1>3. SsoType'
  <2>1. /\ family' \in [Pairs -> 0 .. MaxPairs]
        /\ expiry' \in [Pairs -> Nat]
        /\ live' \subseteq 1 .. issued' /\ issued' \in 0 .. MaxPairs
    <3>1. family' \in [Pairs -> 0 .. MaxPairs]
      BY <1>1
    <3>2. expiry' \in [Pairs -> Nat]
      BY <1>1
    <3>3. live' \subseteq 1 .. issued' /\ issued' \in 0 .. MaxPairs
      BY <1>1
    <3> QED
      BY <3>1, <3>2, <3>3
  <2>2. ASSUME NEW p \in 1 .. issued'
        PROVE  family'[p] \in 1 .. p /\ family'[family'[p]] = family'[p]
    <3>1. CASE p = issued + 1
      BY <1>1, <1>2, <3>1
    <3>2. CASE p \in 1 .. issued
      <4>1. family[p] \in 1 .. issued /\ family[p] \in 1 .. p /\ family[family[p]] = family[p]
        BY <1>1, <3>2
      <4>2. \A q \in 1 .. issued : family'[q] = family[q]
        BY <1>1
      <4> QED
        BY <3>2, <4>1, <4>2
    <3> QED
      BY <1>1, <3>1, <3>2
  <2> QED
    BY <2>1, <2>2
<1>4. OneLive'
  <2>1. \A q \in live \ spent : family[q] # f
    <3>1. CASE f = issued + 1
      BY <1>1, <3>1
    <3>2. CASE \E t \in live : f = family[t] /\ spent = {t}
      BY <3>2 DEF OneLive
    <3> QED
      BY <3>1, <3>2
  <2>2. \A q \in live : family'[q] = family[q]
    BY <1>1
  <2>3. family'[issued + 1] = f
    BY <1>1
  <2> QED
    BY <2>1, <2>2, <2>3 DEF OneLive
<1>5. ended[f] = Never
  <2>1. CASE f = issued + 1
    BY <1>1, <2>1 DEF EndedIsDead
  <2>2. CASE \E t \in live : f = family[t] /\ spent = {t}
    BY <2>2 DEF EndedIsDead
  <2> QED
    BY <2>1, <2>2
<1>6. EndedIsDead'
  BY <1>1, <1>5 DEF EndedIsDead
<1>7. ExpiryBound'
  <2> SUFFICES ASSUME NEW p \in 1 .. issued'
               PROVE  /\ expiry'[p] <= now + AccessTTL
                      /\ ended[family'[p]] # Never =>
                            expiry'[p] <= ended[family'[p]] + AccessTTL
    BY <1>1 DEF ExpiryBound
  <2>1. CASE p = issued + 1
    <3>1. expiry'[p] = now + AccessTTL /\ family'[p] = f
      BY <1>1, <2>1
    <3> QED
      BY <1>5, <3>1
  <2>2. CASE p \in 1 .. issued
    <3>1. expiry'[p] = expiry[p] /\ family'[p] = family[p]
      BY <1>1, <2>2
    <3> QED
      BY <2>2, <3>1 DEF ExpiryBound
  <2> QED
    BY <1>1, <2>1, <2>2
<1> QED
  BY <1>3, <1>4, <1>6, <1>7

(* Revoke ends the session of the token it takes away. *)
LEMMA RevokeSso ==
    ASSUME SsoInv, UNCHANGED now, NEW t \in {0} \cup Pairs, Revoke(t)
    PROVE  SsoInv'
<1> USE AuthAssumption DEF SsoInv, SsoType, Revoke, AuthAssumption, Pairs, Never
<1>1. \A p \in 1 .. issued : family[p] \in Pairs /\ family[p] <= issued
  OBVIOUS
<1>2. SsoType'
  BY <1>1
<1>3. OneLive'
  BY DEF OneLive
<1>4. EndedIsDead'
  <2>1. CASE t \in live
    <3>1. \A p \in live' : p \in live /\ family[p] # family[t]
      BY <2>1 DEF OneLive
    <3>2. \A p \in Pairs : p # family[t] => ended'[p] = ended[p]
      BY <1>1, <2>1
    <3>3. t \in 1 .. issued /\ live \subseteq 1 .. issued
      BY <2>1
    <3>4. \A p \in live' : ended'[family[p]] = Never
      <4>1. \A p \in live : family[p] \in Pairs
        BY <1>1, <3>3
      <4> QED
        BY <3>1, <3>2, <4>1 DEF EndedIsDead
    <3>5. \A p \in Pairs : p > issued => ended'[p] = Never
      <4>1. \A p \in Pairs : p > issued => p # family[t]
        BY <1>1, <3>3
      <4> QED
        BY <3>2, <4>1 DEF EndedIsDead
    <3> QED
      BY <3>4, <3>5 DEF EndedIsDead
  <2>2. CASE t \notin live
    BY <2>2 DEF EndedIsDead
  <2> QED
    BY <2>1, <2>2
<1>5. ExpiryBound'
  <2> SUFFICES ASSUME NEW p \in 1 .. issued
               PROVE  /\ expiry[p] <= now + AccessTTL
                      /\ ended'[family[p]] # Never => expiry[p] <= ended'[family[p]] + AccessTTL
    BY DEF ExpiryBound
  <2>1. ended'[family[p]] \in {ended[family[p]], now}
    BY <1>1
  <2> QED
    BY <2>1 DEF ExpiryBound
<1> QED
  BY <1>2, <1>3, <1>4, <1>5

(* Every RPC keeps sso's invariant and has no other effect than Effect. *)
LEMMA SsoStep ==
    ASSUME SsoInv, UNCHANGED now,
           NEW r \in Calls, r.tok \in 0 .. issued, NEW c \in Codes, Sso(r, c)
    PROVE  SsoInv' /\ Effect(r, c)
<1> USE AuthAssumption DEF AuthAssumption, Pairs, Codes, Ops
<1>0. issued \in Nat
  BY DEF SsoInv, SsoType
<1>1. CASE r.op = "Register"
  <2>1. SsoRegister(r, c) /\ c # "Unauthenticated" /\ users' \subseteq Emails
    BY <1>1, CallFields DEF Sso, SsoRegister, SsoInv, SsoType
  <2>2. UNCHANGED <<issued, family, expiry, live, ended>>
    BY <2>1 DEF SsoRegister
  <2>3. SsoInv'
    <3>1. SsoType'
      BY <2>1, <2>2 DEF SsoInv, SsoType
    <3>2. OneLive' /\ EndedIsDead' /\ ExpiryBound'
      BY <2>2 DEF SsoInv, OneLive, EndedIsDead, ExpiryBound
    <3> QED
      BY <3>1, <3>2 DEF SsoInv
  <2> QED
    BY <1>0, <1>1, <2>1, <2>2, <2>3 DEF Effect
<1>2. CASE r.op = "Login"
  <2>1. SsoAuthenticate(r, c)
    BY <1>2 DEF Sso
  <2>2. CASE c = "OK"
    <3>1. Issue(issued + 1, {})
      BY <2>1, <2>2 DEF SsoAuthenticate
    <3>2. SsoInv'
      <4>1. issued + 1 \in 1 .. issued + 1 /\ {} \in SUBSET live
        BY <1>0
      <4> QED
        BY <3>1, <4>1, IssueSso
    <3>3. Effect(r, c)
      BY <1>2, <2>2, <3>1 DEF Effect, Issue, SsoInv, SsoType
    <3> QED
      BY <3>2, <3>3
  <2>3. CASE c = "InvalidArgument"
    <3>1. UNCHANGED <<users, issued, family, expiry, live, ended>>
      BY <2>1, <2>3 DEF SsoAuthenticate, ssoVars
    <3>2. SsoInv'
      BY <3>1 DEF SsoInv, SsoType, OneLive, EndedIsDead, ExpiryBound
    <3>3. Effect(r, c)
      BY <1>0, <1>2, <2>3, <3>1 DEF Effect
    <3> QED
      BY <3>2, <3>3
  <2> QED
    BY <2>1, <2>2, <2>3 DEF SsoAuthenticate
<1>3. CASE r.op = "Refresh"
  <2>1. SsoRefreshTokens(r, c)
    BY <1>3 DEF Sso
  <2>2. CASE c = "OK"
    <3>1. r.tok \in live /\ Issue(family[r.tok], {r.tok})
      BY <2>1, <2>2 DEF SsoRefreshTokens
    <3>2. r.tok \in 1 .. issued /\ family[r.tok] \in 1 .. issued + 1
      <4>1. r.tok \in 1 .. issued
        BY <3>1 DEF SsoInv, SsoType
      <4>2. family[r.tok] \in 1 .. r.tok
        BY <4>1 DEF SsoInv, SsoType
      <4> QED
        BY <1>0, <4>1, <4>2
    <3>3. SsoInv'
      BY <3>1, <3>2, IssueSso
    <3>4. Effect(r, c)
      <4>1. /\ issued' = issued + 1 /\ issued + 1 \in Pairs
            /\ live' = (live \ {r.tok}) \cup {issued + 1} /\ ended' = ended
        BY <1>0, <3>1 DEF Issue
      <4>2. /\ family'[issued + 1] = family[r.tok]
            /\ \A p \in 1 .. issued : family'[p] = family[p] /\ expiry'[p] = expiry[p]
        <5>1. /\ family \in [Pairs -> 0 .. MaxPairs] /\ expiry \in [Pairs -> Nat]
              /\ \A p \in 1 .. issued : p \in Pairs /\ p # issued + 1
          BY <1>0, <4>1 DEF SsoInv, SsoType
        <5> QED
          BY <3>1, <4>1, <5>1 DEF Issue
      <4> QED
        BY <1>0, <1>3, <2>2, <3>2, <4>1, <4>2 DEF Effect
    <3> QED
      BY <3>3, <3>4
  <2>3. CASE c = "Unauthenticated"
    <3>1. UNCHANGED <<users, issued, family, expiry, live, ended>> /\ r.tok \notin live
      BY <2>1, <2>3 DEF SsoRefreshTokens, ssoVars
    <3>2. SsoInv'
      BY <3>1 DEF SsoInv, SsoType, OneLive, EndedIsDead, ExpiryBound
    <3>3. Effect(r, c)
      BY <1>0, <1>3, <2>3, <3>1 DEF Effect
    <3> QED
      BY <3>2, <3>3
  <2> QED
    BY <2>1, <2>2, <2>3 DEF SsoRefreshTokens
<1>4. CASE r.op = "Logout"
  <2>1. Revoke(r.tok)
    BY <1>4 DEF Sso, SsoLogout
  <2>2. SsoInv'
    BY <2>1, RevokeSso, CallFields
  <2>3. \A f \in Pairs : ended[f] # Never => ended'[f] # Never
    BY <2>1 DEF Revoke, SsoInv, SsoType, Never
  <2>4. \A p \in live \ live' : p = r.tok /\ ended'[family[p]] # Never
    <3>1. \A p \in live : family[p] \in Pairs
      <4>1. \A p \in live : p \in 1 .. issued /\ family[p] \in 1 .. p
        BY DEF SsoInv, SsoType
      <4> QED
        BY <1>0, <4>1 DEF SsoInv, SsoType
    <3>2. now # Never
      BY DEF SsoInv, SsoType, Never
    <3>3. ended \in [Pairs -> {Never} \cup (0 .. MaxTime)]
      BY DEF SsoInv, SsoType
    <3> QED
      BY <2>1, <3>1, <3>2, <3>3 DEF Revoke
  <2>5. Effect(r, c)
    BY <1>0, <1>4, <2>1, <2>3, <2>4 DEF Effect, Revoke
  <2> QED
    BY <2>2, <2>5
<1> QED
  BY <1>1, <1>2, <1>3, <1>4, CallFields

-----------------------------------------------------------------------------
(***************************************************************************)
(* The handlers and their clients.  Answers agree with sso: a refused or   *)
(* revoked token is dead, a new pair follows the one that bought it.       *)
(***************************************************************************)
ClientType ==
    /\ known \subseteq 1 .. issued
    /\ closed \subseteq 1 .. issued
    /\ unsure \subseteq 1 .. issued
    /\ late \subseteq Calls
    /\ pc \in [Slots -> {"idle", "calling"}]
    /\ req \in [Slots -> Calls \cup {NoCall}]
    /\ code \in [Slots -> Codes \cup {"none"}]
    /\ pair \in [Slots -> 0 .. issued]
    /\ \A s \in Slots : /\ pc[s] = "calling" <=> req[s] # NoCall
                        /\ pc[s] = "idle" => code[s] = "none"
                        /\ req[s].tok \in 0 .. issued
    /\ \A r \in late : r.tok \in {0} \cup unsure

Replies ==
    \A s \in Slots :
        /\ code[s] = "Unauthenticated" \/ (req[s].op = "Logout" /\ code[s] = "OK") =>
            req[s].tok \notin live
        /\ req[s].op \in {"Login", "Refresh"} /\ code[s] = "OK" => pair[s] \in 1 .. issued
        /\ req[s].op = "Refresh" /\ code[s] = "OK" =>
            req[s].tok \in 1 .. pair[s] - 1 /\ family[req[s].tok] = family[pair[s]]

(***************************************************************************)
(* Where every pair has gone: it is live, its session has ended, its       *)
(* client is unsure of it or has a newer one, or the newer one is on its   *)
(* way.                                                                    *)
(***************************************************************************)
OnItsWay(p, s) ==
    pc[s] = "calling" /\ req[s].op = "Refresh" /\ req[s].tok = p /\ code[s] = "OK"

Accounted ==
    \A p \in 1 .. issued :
        \/ p \in live \cup unsure
        \/ ended[family[p]] # Never
        \/ \E q \in known : q > p /\ family[q] = family[p]
        \/ \E s \in Slots : OnItsWay(p, s)

AuthInv == SsoInv /\ ClientType /\ Replies /\ Accounted /\ ClosedIsDead

LEMMA InitAuthInv == AuthInit => AuthInv
<1> SUFFICES ASSUME AuthInit PROVE AuthInv
  OBVIOUS
<1> USE AuthAssumption DEF AuthAssumption, AuthInit, Pairs, Never
<1>1. SsoInv
  BY DEF SsoInv, SsoType, OneLive, EndedIsDead, ExpiryBound
<1>2. ClientType
  BY DEF ClientType, NoCall, Codes
<1>3. Replies /\ Accounted /\ ClosedIsDead
  BY DEF Replies, Accounted, ClosedIsDead, NoCall
<1> QED
  BY <1>1, <1>2, <1>3 DEF AuthInv

(***************************************************************************)
(* An RPC is executed, and its answer goes to the slots that have asked;   *)
(* if there is none, the client is already unsure of the token.            *)
(***************************************************************************)
LEMMA RpcKeeps ==
    ASSUME AuthInv, NEW r \in Calls, r.tok \in 0 .. issued, NEW c \in Codes, Sso(r, c),
           UNCHANGED <<now, pc, req, known, closed, unsure>>, late' \subseteq late,
           NEW S \in SUBSET Slots,
           \A u \in S : req[u] = r /\ pc[u] = "calling" /\ code[u] = "none",
           S # {} \/ r.tok \in {0} \cup unsure \/ r.op = "Logout",
           code' = [u \in Slots |-> IF u \in S THEN c ELSE code[u]],
           pair' = [u \in Slots |->
                        IF u \in S THEN IF c = "OK" THEN issued' ELSE 0 ELSE pair[u]]
    PROVE  AuthInv'
<1>1. SsoInv' /\ Effect(r, c)
  BY SsoStep DEF AuthInv
<1>2. issued \in Nat /\ 1 .. issued \subseteq 1 .. issued' /\ issued' \in Nat
      /\ 0 .. issued \subseteq 0 .. issued' /\ issued <= issued'
  BY <1>1 DEF AuthInv, SsoInv, SsoType, Effect
<1>3. ClientType'
  BY <1>2 DEF AuthInv, ClientType, Codes
<1>4. Replies'
  <2> SUFFICES ASSUME NEW s \in Slots
               PROVE  /\ code'[s] = "Unauthenticated" \/ (req[s].op = "Logout" /\ code'[s] = "OK")
                            => req[s].tok \notin live'
                      /\ req[s].op \in {"Login", "Refresh"} /\ code'[s] = "OK" =>
                            pair'[s] \in 1 .. issued'
                      /\ req[s].op = "Refresh" /\ code'[s] = "OK" =>
                            req[s].tok \in 1 .. pair'[s] - 1 /\ family'[req[s].tok] = family'[pair'[s]]
    BY DEF Replies
  <2>1. CASE s \in S
    BY <1>1, <1>2, <2>1 DEF Effect
  <2>2. CASE s \notin S
    <3>1. code'[s] = code[s] /\ pair'[s] = pair[s] /\ req[s].tok \in 0 .. issued
      BY <2>2 DEF AuthInv, ClientType
    <3>2. req[s].tok \notin live => req[s].tok \notin live'
      BY <1>1, <1>2, <3>1 DEF Effect, SsoInv, SsoType
    <3>3. \A p \in 1 .. issued : family'[p] = family[p]
      BY <1>1 DEF Effect
    <3> QED
      BY <1>2, <3>1, <3>2, <3>3 DEF AuthInv, Replies
  <2> QED
    BY <2>1, <2>2
<1>5. Accounted'
  <2> SUFFICES ASSUME NEW p \in 1 .. issued'
               PROVE  \/ p \in live' \cup unsure
                      \/ ended'[family'[p]] # Never
                      \/ \E q \in known : q > p /\ family'[q] = family'[p]
                      \/ \E s \in Slots : OnItsWay(p, s)'
    BY DEF Accounted
  <2>1. CASE p \notin 1 .. issued
    BY <1>1, <1>2, <2>1 DEF Effect
  <2>2. CASE p \in 1 .. issued
    <3>1. family'[p] = family[p] /\ family[p] \in Pairs
      BY <1>1, <2>2, AuthAssumption DEF AuthAssumption, Effect, AuthInv, SsoInv, SsoType, Pairs
    <3>2. CASE p \in live
      <4>1. CASE p = r.tok /\ r.op = "Refresh" /\ c = "OK"
        <5>1. p \in unsure \/ \E u \in S : TRUE
          BY <1>2, <2>2, <4>1
        <5> QED
          BY <4>1, <5>1 DEF OnItsWay
      <4> QED
        BY <1>1, <3>1, <3>2, <4>1 DEF Effect
    <3>3. CASE ended[family[p]] # Never
      BY <1>1, <3>1, <3>3 DEF Effect
    <3>4. CASE \E q \in known : q > p /\ family[q] = family[p]
      BY <1>1, <3>1, <3>4 DEF Effect, AuthInv, ClientType
    <3>5. CASE \E s \in Slots : OnItsWay(p, s)
      <4>1. PICK s \in Slots : OnItsWay(p, s)
        BY <3>5
      <4>2. s \notin S
        BY <4>1 DEF OnItsWay
      <4> QED
        BY <4>1, <4>2 DEF OnItsWay
    <3> QED
      BY <2>2, <3>2, <3>3, <3>4, <3>5 DEF AuthInv, Accounted
  <2> QED
    BY <2>1, <2>2
<1>6. ClosedIsDead'
  BY <1>1 DEF Effect, AuthInv, ClosedIsDead, ClientType
<1> QED
  BY <1>1, <1>3, <1>4, <1>5, <1>6 DEF AuthInv

(* The handler of s answers, with sso's code or without one. *)
LEMMA AnswerKeeps ==
    ASSUME AuthInv, NEW s \in Slots, pc[s] = "calling", NEW received \in BOOLEAN,
           NEW c \in Codes \cup {"Unavailable"}, c \in {code[s], "Unavailable"},
           Answer(s, MapErr(c), received), UNCHANGED <<now, ssoVars>>,
           late' = late \/ (c = "Unavailable" /\ late' = late \cup {req[s]})
    PROVE  AuthInv'
<1> DEFINE st == StatusOf(req[s].op, MapErr(c))
           tok == {req[s].tok} \ {0}
<1>1. UNCHANGED <<users, issued, family, expiry, live, ended, now>>
  BY DEF ssoVars
<1>2. req[s] \in Calls /\ req[s].op \in Ops /\ tok \subseteq 1 .. issued /\ issued \in Nat
  BY CallFields DEF AuthInv, ClientType, SsoInv, SsoType
<1>3. /\ st = 200 <=> req[s].op \in {"Login", "Refresh"} /\ c = "OK"
      /\ st = 204 <=> req[s].op = "Logout" /\ c = "OK"
      /\ st = 401 => req[s].op = "Login" \/ (req[s].op = "Refresh" /\ c = "Unauthenticated")
      /\ c = "Unavailable" => st = 500
  BY <1>2, Statuses
<1>4. /\ pc' = [pc EXCEPT ![s] = "idle"]
      /\ req' = [req EXCEPT ![s] = NoCall]
      /\ code' = [code EXCEPT ![s] = "none"]
      /\ pair' = [pair EXCEPT ![s] = 0]
      /\ known' = IF received /\ st = 200 THEN known \cup {pair[s]} ELSE known
      /\ closed' = IF received /\ st \in {204, 401} THEN closed \cup tok ELSE closed
      /\ unsure' = IF ~received \/ st = 500 THEN unsure \cup tok ELSE unsure
  BY DEF Answer, Granted
<1> HIDE DEF st, tok
<1>5. c = "OK" => code[s] = "OK"
  OBVIOUS
<1>6. SsoInv'
  BY <1>1 DEF AuthInv, SsoInv, SsoType, OneLive, EndedIsDead, ExpiryBound
<1>7. ClientType'
  <2>1. st = 200 => pair[s] \in 1 .. issued
    BY <1>3, <1>5 DEF AuthInv, Replies
  <2>2. known' \subseteq 1 .. issued /\ closed' \subseteq 1 .. issued /\ unsure' \subseteq 1 .. issued
    BY <1>2, <1>4, <2>1 DEF AuthInv, ClientType
  <2>3. late' \subseteq Calls /\ \A r \in late' : r.tok \in {0} \cup unsure'
    BY <1>2, <1>3, <1>4 DEF AuthInv, ClientType, tok
  <2>4. pc' \in [Slots -> {"idle", "calling"}] /\ req' \in [Slots -> Calls \cup {NoCall}]
        /\ code' \in [Slots -> Codes \cup {"none"}] /\ pair' \in [Slots -> 0 .. issued]
    BY <1>2, <1>4 DEF AuthInv, ClientType
  <2>5. \A u \in Slots : /\ pc'[u] = "calling" <=> req'[u] # NoCall
                         /\ pc'[u] = "idle" => code'[u] = "none"
                         /\ req'[u].tok \in 0 .. issued
    BY <1>2, <1>4 DEF AuthInv, ClientType, NoCall
  <2> QED
    BY <1>1, <2>2, <2>3, <2>4, <2>5 DEF ClientType
<1>8. Replies'
  BY <1>1, <1>4 DEF AuthInv, ClientType, Replies, NoCall
<1>9. Accounted'
  <2>1. known \subseteq known' /\ unsure \subseteq unsure'
    BY <1>4
  <2>2. ASSUME NEW p \in 1 .. issued, OnItsWay(p, s)
        PROVE  p \in unsure' \/ \E q \in known' : q > p /\ family[q] = family[p]
    <3>1. req[s].op = "Refresh" /\ req[s].tok = p /\ code[s] = "OK" /\ tok = {p}
      BY <1>2, <2>2 DEF OnItsWay, tok
    <3>2. CASE c = "Unavailable" \/ ~received
      BY <1>3, <1>4, <3>1, <3>2
    <3>3. CASE c = "OK" /\ received
      <4>1. pair[s] \in known'
        BY <1>3, <1>4, <3>1, <3>3
      <4>2. pair[s] > p /\ family[pair[s]] = family[p]
        BY <1>2, <3>1 DEF AuthInv, Replies, ClientType
      <4> QED
        BY <4>1, <4>2
    <3> QED
      BY <3>1, <3>2, <3>3
  <2>3. \A u \in Slots \ {s} : \A p \in 1 .. issued : OnItsWay(p, u) => OnItsWay(p, u)'
    BY <1>4 DEF OnItsWay, AuthInv, ClientType
  <2> QED
    BY <1>1, <2>1, <2>2, <2>3 DEF AuthInv, Accounted
<1>10. ClosedIsDead'
  <2>1. received /\ st \in {204, 401} => tok \cap live = {}
    <3>1. CASE req[s].op = "Login"
      BY <1>2, <3>1, CallFields DEF tok
    <3>2. CASE req[s].op # "Login"
      BY <1>3, <1>5, <3>2 DEF AuthInv, Replies, tok, Codes
    <3> QED
      BY <3>1, <3>2
  <2> QED
    BY <1>1, <1>4, <2>1 DEF AuthInv, ClosedIsDead
<1> QED
  BY <1>6, <1>7, <1>8, <1>9, <1>10 DEF AuthInv

(* Every step keeps the invariant. *)
LEMMA NextAuthInv == AuthInv /\ [AuthNext]_authVars => AuthInv'
<1> SUFFICES ASSUME AuthInv, [AuthNext]_authVars PROVE AuthInv'
  OBVIOUS
<1>1. ASSUME NEW s \in Slots, NEW r \in Calls, Receive(s, r) PROVE AuthInv'
  <2>1. UNCHANGED <<now, users, issued, family, expiry, live, ended, late, code, pair,
                    known, closed, unsure>>
    BY <1>1 DEF Receive, ssoVars, clientVars
  <2>2. pc[s] = "idle" /\ req[s] = NoCall /\ r.tok \in 0 .. issued /\ r # NoCall
    <3>1. issued \in Nat /\ known \subseteq 1 .. issued
      BY AuthAssumption DEF AuthAssumption, AuthInv, ClientType, SsoInv, SsoType
    <3>2. r.tok \in 0 .. issued
      <4>1. r.tok \in known \cup {0}
        BY <1>1 DEF Receive
      <4>2. \A x \in known \cup {0} : x \in 0 .. issued
        BY <3>1
      <4> QED
        BY <4>1, <4>2
    <3> QED
      BY <1>1, <3>2, CallFields DEF Receive, AuthInv, ClientType
  <2>3. pc' = [pc EXCEPT ![s] = "calling"] /\ req' = [req EXCEPT ![s] = r]
    BY <1>1 DEF Receive
  <2>4. SsoInv' /\ ClosedIsDead'
    BY <2>1 DEF AuthInv, SsoInv, SsoType, OneLive, EndedIsDead, ExpiryBound, ClosedIsDead
  <2>5. ClientType'
    BY <2>1, <2>2, <2>3 DEF AuthInv, ClientType
  <2>6. Replies'
    <3>1. code[s] = "none"
      BY <2>2 DEF AuthInv, ClientType
    <3> QED
      BY <2>1, <2>2, <2>3, <3>1 DEF AuthInv, ClientType, Replies
  <2>7. Accounted'
    <3>1. \A u \in Slots : \A p \in 1 .. issued : OnItsWay(p, u) => OnItsWay(p, u)'
      BY <2>1, <2>2, <2>3 DEF OnItsWay, AuthInv, ClientType
    <3> QED
      BY <2>1, <3>1 DEF AuthInv, Accounted
  <2> QED
    BY <2>4, <2>5, <2>6, <2>7 DEF AuthInv
<1>2. ASSUME NEW s \in Slots, Execute(s) PROVE AuthInv'
  <2>1. PICK c \in Codes :
          /\ Sso(req[s], c)
          /\ code' = [code EXCEPT ![s] = c]
          /\ pair' = [pair EXCEPT ![s] = IF c = "OK" THEN issued' ELSE 0]
    BY <1>2 DEF Execute
  <2> DEFINE r == req[s]
             S == {s}
  <2>2. r \in Calls /\ r.tok \in 0 .. issued /\ Sso(r, c)
    BY <1>2, <2>1 DEF Execute, AuthInv, ClientType
  <2>3. UNCHANGED <<now, pc, req, known, closed, unsure, late>> /\ late' \subseteq late
    BY <1>2 DEF Execute, clientVars
  <2>4. /\ S \in SUBSET Slots /\ S # {}
        /\ \A u \in S : req[u] = r /\ pc[u] = "calling" /\ code[u] = "none"
    BY <1>2 DEF Execute
  <2>5. /\ code' = [u \in Slots |-> IF u \in S THEN c ELSE code[u]]
        /\ pair' = [u \in Slots |->
                        IF u \in S THEN IF c = "OK" THEN issued' ELSE 0 ELSE pair[u]]
    BY <2>1 DEF AuthInv, ClientType
  <2> HIDE DEF r, S
  <2> QED
    BY <2>2, <2>3, <2>4, <2>5, RpcKeeps
<1>3. ASSUME NEW s \in Slots, Return(s) PROVE AuthInv'
  <2>1. PICK received \in BOOLEAN : Answer(s, MapErr(code[s]), received)
    BY <1>3 DEF Return
  <2>2. code[s] \in Codes
    BY <1>3 DEF Return, AuthInv, ClientType
  <2> QED
    BY <1>3, <2>1, <2>2, AnswerKeeps DEF Return
<1>4. ASSUME NEW s \in Slots, Fail(s) PROVE AuthInv'
  <2>1. PICK received \in BOOLEAN : Answer(s, MapErr("Unavailable"), received)
    BY <1>4 DEF Fail
  <2> QED
    BY <1>4, <2>1, AnswerKeeps DEF Fail
<1>5. ASSUME NEW r \in late, ExecuteLate(r) PROVE AuthInv'
  <2>1. PICK c \in Codes : Sso(r, c)
    BY <1>5 DEF ExecuteLate
  <2>2. r \in Calls /\ r.tok \in {0} \cup unsure /\ r.tok \in 0 .. issued
    <3>1. r \in Calls /\ r.tok \in {0} \cup unsure
      BY DEF AuthInv, ClientType
    <3>2. \A x \in {0} \cup unsure : x \in 0 .. issued
      BY AuthAssumption DEF AuthAssumption, AuthInv, ClientType, SsoInv, SsoType
    <3> QED
      BY <3>1, <3>2
  <2>3. UNCHANGED <<now, pc, req, code, pair, known, closed, unsure>> /\ late' \subseteq late
    BY <1>5 DEF ExecuteLate, handlerVars, clientVars
  <2>4. /\ code' = [u \in Slots |-> IF u \in {} THEN c ELSE code[u]]
        /\ pair' = [u \in Slots |-> IF u \in {} THEN IF c = "OK" THEN issued' ELSE 0 ELSE pair[u]]
    BY <2>3 DEF AuthInv, ClientType
  <2>5. {} \in SUBSET Slots
    OBVIOUS
  <2> QED
    BY <2>5, <2>1, <2>2, <2>3, <2>4, RpcKeeps
<1>6. ASSUME NEW t \in live, Expire(t) PROVE AuthInv'
  <2> DEFINE r == [op |-> "Logout", email |-> None, tok |-> t]
  <2>1. r \in Calls /\ r.op = "Logout" /\ r.tok = t /\ t \in 0 .. issued
    BY AuthAssumption DEF AuthAssumption, Calls, Pairs, AuthInv, SsoInv, SsoType
  <2> HIDE DEF r
  <2>2. "OK" \in Codes /\ Sso(r, "OK")
    BY <1>6, <2>1 DEF Expire, Sso, SsoLogout, Codes
  <2>3. UNCHANGED <<now, pc, req, code, pair, known, closed, unsure, late>>
    BY <1>6 DEF Expire, handlerVars, clientVars
  <2>4. /\ code' = [u \in Slots |-> IF u \in {} THEN "OK" ELSE code[u]]
        /\ pair' = [u \in Slots |->
                        IF u \in {} THEN IF "OK" = "OK" THEN issued' ELSE 0 ELSE pair[u]]
    BY <2>3 DEF AuthInv, ClientType
  <2>5. {} \in SUBSET Slots
    OBVIOUS
  <2> QED
    BY <2>5, <2>1, <2>2, <2>3, <2>4, RpcKeeps
<1>7. CASE Tick
  <2>1. UNCHANGED <<users, issued, family, expiry, live, ended, late, pc, req, code, pair,
                    known, closed, unsure>>
    BY <1>7 DEF Tick, ssoVars, handlerVars, clientVars
  <2>2. SsoInv'
    <3>1. SsoType' /\ OneLive' /\ EndedIsDead'
      BY <1>7, <2>1, AuthAssumption
         DEF Tick, AuthAssumption, AuthInv, SsoInv, SsoType, OneLive, EndedIsDead
    <3>2. now' = now + 1 /\ now \in Nat /\ \A p \in 1 .. issued : expiry[p] \in Nat
      BY <1>7, AuthAssumption DEF Tick, AuthAssumption, AuthInv, SsoInv, SsoType, Pairs
    <3>3. ExpiryBound'
      BY <2>1, <3>2, AuthAssumption DEF AuthAssumption, AuthInv, SsoInv, ExpiryBound
    <3> QED
      BY <3>1, <3>3 DEF SsoInv
  <2> QED
    BY <2>1, <2>2 DEF AuthInv, ClientType, Replies, Accounted, OnItsWay, ClosedIsDead
<1>8. CASE UNCHANGED authVars
  BY <1>8 DEF authVars, ssoVars, handlerVars, clientVars, AuthInv, SsoInv, SsoType, OneLive,
     EndedIsDead, ExpiryBound, ClientType, Replies, Accounted, OnItsWay, ClosedIsDead
<1> QED
  BY <1>1, <1>2, <1>3, <1>4, <1>5, <1>6, <1>7, <1>8 DEF AuthNext, Background

LEMMA AuthInvHolds == AuthSpec => []AuthInv
BY InitAuthInv, NextAuthInv, PTL DEF AuthSpec

(* Type correctness, with the shape of the sessions. *)
THEOREM AuthTypeCorrect == AuthSpec => []AuthTypeOK
<1>1. ASSUME AuthInv PROVE AuthTypeOK
  <2>1. 1 .. issued \subseteq Pairs
    BY <1>1, AuthAssumption DEF AuthAssumption, AuthInv, SsoInv, SsoType, Pairs
  <2>2. closed \subseteq Pairs /\ unsure \subseteq Pairs
    BY <1>1, <2>1 DEF AuthInv, ClientType
  <2> QED
    BY <1>1, <2>2 DEF AuthInv, SsoInv, SsoType, ClientType, AuthTypeOK
<1> QED
  BY <1>1, AuthInvHolds, PTL

(* What a client was told about a refresh token (401, 204) stays true.  *)
THEOREM ClosedIsDeadAlways == AuthSpec => []ClosedIsDead
<1>1. AuthInv => ClosedIsDead
  BY DEF AuthInv
<1> QED
  BY <1>1, AuthInvHolds, PTL

(***************************************************************************)
(* A client that stores the newest pair loses its session only to its end, *)
(* or to a Refresh or Logout whose answer it has not got.                  *)
(***************************************************************************)
THEOREM SessionKeptAlways == AuthSpec => []SessionKept
<1>1. AuthInv => SessionKept
  <2> SUFFICES ASSUME AuthInv, NEW p \in known,
                      \A q \in known : family[q] = family[p] => q <= p
               PROVE  \/ p \in live \cup unsure
                      \/ ended[family[p]] # Never
                      \/ \E s \in Slots : pc[s] = "calling" /\ req[s].tok = p
    BY DEF SessionKept
  <2>1. p \in 1 .. issued /\ \A q \in known : family[q] = family[p] => ~(q > p)
    BY DEF AuthInv, ClientType, SsoInv, SsoType
  <2> QED
    BY <2>1 DEF AuthInv, Accounted, OnItsWay
<1> QED
  BY <1>1, AuthInvHolds, PTL
=============================================================================
