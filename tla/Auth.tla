-------------------------------- MODULE Auth --------------------------------
(***************************************************************************)
(* Registration, login and sessions: internal/transport/http/handlers/     *)
(* handlers.go over internal/ssoclient/ssoclient.go, and the local check   *)
(* of access tokens in internal/authn/authn.go.                            *)
(*                                                                         *)
(* Users and sessions live in sso, another process behind gRPC, of which   *)
(* the Sso operators state what the code and docs/auth.md rely on: a login *)
(* opens a session with a pair of tokens, a refresh token is single-use    *)
(* and buys the next pair, an access token is valid until it expires.      *)
(* Pairs are numbered as they are issued and stand for both their tokens;  *)
(* a session is named by its first pair.  A handler makes one RPC under a  *)
(* timeout and the request's context, so an RPC can end without its answer *)
(* while sso has executed it, executes it later, or never does.            *)
(***************************************************************************)
EXTENDS Integers, FiniteSets

CONSTANTS
    Emails,      \* what people register with
    Slots,       \* the requests that can be in progress at one time
    AppID,       \* cfg.SSO.ApplicationID
    AccessTTL,   \* the life of an access token, in ticks
    None,        \* no email
    MaxPairs,    \* bound: how many pairs sso issues
    MaxLate,     \* bound: how many abandoned RPCs sso holds at one time
    MaxTime      \* bound: the clock stops there

(* A verifier is not made without an application id (authn.NewVerifier). *)
ASSUME AuthAssumption ==
    /\ AppID \in Nat \ {0}
    /\ AccessTTL \in Nat
    /\ MaxPairs \in Nat
    /\ MaxLate \in Nat
    /\ MaxTime \in Nat
    /\ None \notin Emails

VARIABLES
    now,       \* time.Now(), in ticks
    users,     \* sso: the registered emails
    issued,    \* sso: how many pairs have been issued
    family,    \* sso: the session each pair belongs to
    expiry,    \* sso: the exp claim of each access token
    live,      \* sso: the pairs whose refresh token can still be used
    late,      \* sso: RPCs whose caller has given up and that may yet be executed
    ended,     \* history: when each session lost its last refresh token
    pc,        \* [Slots -> "idle", or "calling" sso]
    req,       \* [Slots -> the request of each handler]
    code,      \* [Slots -> the status code sso has answered, "none" before]
    pair,      \* [Slots -> the pair in sso's answer]
    known,     \* the pairs that have reached their client
    closed,    \* history: refresh tokens a client was told are invalid (401) or revoked (204)
    unsure     \* history: tokens of a Refresh or Logout whose outcome the client did not learn

ssoVars == <<users, issued, family, expiry, live, ended>>
handlerVars == <<pc, req, code, pair>>
clientVars == <<known, closed, unsure>>
authVars == <<now, ssoVars, late, handlerVars, clientVars>>

Pairs == 1 .. MaxPairs
Never == 0 - 1

Calls == [op : {"Register", "Login"}, email : Emails, tok : {0}]
            \cup [op : {"Refresh", "Logout"}, email : {None}, tok : {0} \cup Pairs]
NoCall == [op |-> "none", email |-> None, tok |-> 0]
Codes == {"OK", "InvalidArgument", "AlreadyExists", "Unauthenticated"}

AuthInit ==
    /\ now = 0
    /\ users = {} /\ issued = 0 /\ live = {} /\ late = {}
    /\ family = [p \in Pairs |-> 0]
    /\ expiry = [p \in Pairs |-> 0]
    /\ ended = [p \in Pairs |-> Never]
    /\ pc = [s \in Slots |-> "idle"]
    /\ req = [s \in Slots |-> NoCall]
    /\ code = [s \in Slots |-> "none"]
    /\ pair = [s \in Slots |-> 0]
    /\ known = {} /\ closed = {} /\ unsure = {}
-----------------------------------------------------------------------------
(* What sso does with the RPC r, and the status code c of its answer. *)

SsoRegister(r, c) ==
    /\ \/ c = "OK" /\ r.email \notin users /\ users' = users \cup {r.email}
       \/ c = "AlreadyExists" /\ r.email \in users /\ UNCHANGED users
       \/ c = "InvalidArgument" /\ UNCHANGED users
    /\ UNCHANGED <<issued, family, expiry, live, ended>>

(* The next pair of the session f, in place of the pairs in spent. *)
Issue(f, spent) ==
    /\ issued < MaxPairs
    /\ issued' = issued + 1
    /\ family' = [family EXCEPT ![issued + 1] = f]
    /\ expiry' = [expiry EXCEPT ![issued + 1] = now + AccessTTL]
    /\ live' = (live \ spent) \cup {issued + 1}
    /\ UNCHANGED <<users, ended>>

(* Whether the password is right is sso's to say. *)
SsoAuthenticate(r, c) ==
    \/ c = "OK" /\ r.email \in users /\ Issue(issued + 1, {})
    \/ c = "InvalidArgument" /\ UNCHANGED ssoVars

SsoRefreshTokens(r, c) ==
    \/ c = "OK" /\ r.tok \in live /\ Issue(family[r.tok], {r.tok})
    \/ c = "Unauthenticated" /\ r.tok \notin live /\ UNCHANGED ssoVars

Revoke(t) ==
    /\ live' = live \ {t}
    /\ ended' = IF t \in live THEN [ended EXCEPT ![family[t]] = now] ELSE ended
    /\ UNCHANGED <<users, issued, family, expiry>>

(* Whether a token that is no longer live is an error is not known here. *)
SsoLogout(r, c) ==
    /\ c = "OK" \/ (c = "Unauthenticated" /\ r.tok \notin live)
    /\ Revoke(r.tok)

Sso(r, c) ==
    \/ r.op = "Register" /\ SsoRegister(r, c)
    \/ r.op = "Login" /\ SsoAuthenticate(r, c)
    \/ r.op = "Refresh" /\ SsoRefreshTokens(r, c)
    \/ r.op = "Logout" /\ SsoLogout(r, c)
-----------------------------------------------------------------------------
(* Mutant: an RPC that failed counts as a refused token. *)
AnyFailureIsRefusal(c) ==
    CASE c = "OK" -> "nil"
      [] c = "InvalidArgument" -> "ErrInvalidCredentials"
      [] c = "AlreadyExists" -> "ErrUserExists"
      [] OTHER -> "ErrRefreshInvalid"

(* The same mapping for all four RPCs. *)
MapErr(c) ==
    CASE c = "OK" -> "nil"
      [] c = "InvalidArgument" -> "ErrInvalidCredentials"
      [] c = "AlreadyExists" -> "ErrUserExists"
      [] c = "Unauthenticated" -> "ErrRefreshInvalid"
      [] OTHER -> "sso rpc"

RegisterStatus(e) == CASE e = "nil" -> 201 [] e = "ErrUserExists" -> 409 [] OTHER -> 500

LoginStatus(e) == CASE e = "nil" -> 200 [] e = "ErrInvalidCredentials" -> 401 [] OTHER -> 500

RefreshStatus(e) == CASE e = "nil" -> 200 [] e = "ErrRefreshInvalid" -> 401 [] OTHER -> 500

LogoutStatus(e) == IF e = "nil" THEN 204 ELSE 500

StatusOf(op, e) ==
    CASE op = "Register" -> RegisterStatus(e)
      [] op = "Login" -> LoginStatus(e)
      [] op = "Refresh" -> RefreshStatus(e)
      [] op = "Logout" -> LogoutStatus(e)

(* Mutant: the client keeps the refresh token it has sent. *)
KeptPair(s) == IF req[s].op = "Refresh" THEN req[s].tok ELSE pair[s]

(* Mutant: the tokens of sso's answer are not passed on. *)
NoPair(s) == 0

(* The tokens in the tokenResponse. *)
Granted(s) == pair[s]

(***************************************************************************)
(* A request whose body is decoded and passes the handler's checks becomes *)
(* an RPC; one that is refused (400) leaves no trace.  A client sends      *)
(* refresh tokens it has got, or anything else (0).                        *)
(***************************************************************************)
Receive(s, r) ==
    /\ pc[s] = "idle"
    /\ r.tok \in known \cup {0}
    /\ pc' = [pc EXCEPT ![s] = "calling"]
    /\ req' = [req EXCEPT ![s] = r]
    /\ UNCHANGED <<now, ssoVars, late, code, pair, clientVars>>

(* sso executes the RPC while the handler waits. *)
Execute(s) ==
    /\ pc[s] = "calling" /\ code[s] = "none"
    /\ \E c \in Codes :
        /\ Sso(req[s], c)
        /\ code' = [code EXCEPT ![s] = c]
        /\ pair' = [pair EXCEPT ![s] = IF c = "OK" THEN issued' ELSE 0]
    /\ UNCHANGED <<now, late, pc, req, clientVars>>

(***************************************************************************)
(* The handler is done with the error e; the client gets the answer, or is *)
(* gone, or the server's WriteTimeout has passed and the write fails.      *)
(***************************************************************************)
Answer(s, e, received) ==
    LET r   == req[s]
        st  == StatusOf(r.op, e)
        tok == {r.tok} \ {0}
    IN  /\ pc' = [pc EXCEPT ![s] = "idle"]
        /\ req' = [req EXCEPT ![s] = NoCall]
        /\ code' = [code EXCEPT ![s] = "none"]
        /\ pair' = [pair EXCEPT ![s] = 0]
        /\ known' = IF received /\ st = 200 THEN known \cup {Granted(s)} ELSE known
        /\ closed' = IF received /\ st \in {204, 401} THEN closed \cup tok ELSE closed
        /\ unsure' = IF ~received \/ st = 500 THEN unsure \cup tok ELSE unsure

Return(s) ==
    /\ pc[s] = "calling" /\ code[s] # "none"
    /\ \E received \in BOOLEAN : Answer(s, MapErr(code[s]), received)
    /\ UNCHANGED <<now, ssoVars, late>>

(* The RPC's deadline passes, its context is cancelled or the connection breaks. *)
Fail(s) ==
    /\ pc[s] = "calling"
    /\ \E received \in BOOLEAN : Answer(s, MapErr("Unavailable"), received)
    /\ \/ late' = late
       \/ code[s] = "none" /\ Cardinality(late) < MaxLate /\ late' = late \cup {req[s]}
    /\ UNCHANGED <<now, ssoVars>>

(* sso executes an RPC whose caller has given up. *)
ExecuteLate(r) ==
    /\ r \in late
    /\ \E c \in Codes : Sso(r, c)
    /\ late' = late \ {r}
    /\ UNCHANGED <<now, handlerVars, clientVars>>

(* A refresh token expires unused. *)
Expire(t) ==
    /\ t \in live
    /\ Revoke(t)
    /\ UNCHANGED <<now, late, handlerVars, clientVars>>

Tick ==
    /\ now < MaxTime
    /\ now' = now + 1
    /\ UNCHANGED <<ssoVars, late, handlerVars, clientVars>>

Background == (\E r \in late : ExecuteLate(r)) \/ (\E t \in live : Expire(t))

AuthNext ==
    \/ \E s \in Slots : \/ \E r \in Calls : Receive(s, r)
                        \/ Execute(s) \/ Return(s) \/ Fail(s)
    \/ Background
    \/ Tick

AuthSpec == AuthInit /\ [][AuthNext]_authVars
-----------------------------------------------------------------------------
(* The access token of the pair p, as sso signs it. *)
AccessToken(p) ==
    [alg |-> "HS256", key |-> "ours", app |-> AppID, exp |-> expiry[p], pair |-> p]

(* No token; a token of another method, another key, with or without exp, or another application. *)
StrayTokens ==
    LET t == [alg |-> "HS256", key |-> "ours", app |-> AppID, exp |-> MaxTime + 1, pair |-> 0]
    IN  {[t EXCEPT !.alg = "none"], [t EXCEPT !.alg = "RS256"], [t EXCEPT !.key = "other"],
         [t EXCEPT !.key = "other", !.exp = Never], [t EXCEPT !.app = 0]}

(* Mutant: the claims are not validated, so a token never expires. *)
VerifySignature(t) == t.alg = "HS256" /\ t.key = "ours" /\ t.app = AppID

(***************************************************************************)
(* Verifier.Verify without an error: method, signature, expiry if the      *)
(* token has one (jwt.Parse does not ask for it, but sso always sets it),  *)
(* application.                                                            *)
(***************************************************************************)
Verify(t) ==
    /\ t.alg = "HS256"
    /\ t.key = "ours"
    /\ t.exp # Never => now < t.exp
    /\ t.app = AppID

(* A bearer token, and a valid one: the request goes on with its claims. *)
RequireAuth(t) == t.alg # "none" /\ Verify(t)
-----------------------------------------------------------------------------
(* The properties *)

AuthTypeOK ==
    /\ now \in 0 .. MaxTime
    /\ users \subseteq Emails
    /\ issued \in 0 .. MaxPairs
    /\ family \in [Pairs -> 0 .. MaxPairs]
    /\ expiry \in [Pairs -> Nat]
    /\ ended \in [Pairs -> {Never} \cup (0 .. MaxTime)]
    /\ live \subseteq 1 .. issued
    /\ known \subseteq 1 .. issued
    /\ late \subseteq Calls
    /\ pc \in [Slots -> {"idle", "calling"}]
    /\ req \in [Slots -> Calls \cup {NoCall}]
    /\ code \in [Slots -> Codes \cup {"none"}]
    /\ pair \in [Slots -> 0 .. issued]
    /\ closed \subseteq Pairs
    /\ unsure \subseteq Pairs
    /\ \A p \in 1 .. issued : family[p] \in 1 .. p /\ family[family[p]] = family[p]
    /\ \A s \in Slots : pc[s] = "calling" <=> req[s] # NoCall

(***************************************************************************)
(* An answer about a refresh token is final: one that was reported invalid *)
(* (401 on Refresh) or revoked (204 on Logout) can never be used again.    *)
(* An RPC that failed must not look like either.                           *)
(***************************************************************************)
ClosedIsDead == closed \cap live = {}

(***************************************************************************)
(* A client that always stores the newest pair it got keeps its session:   *)
(* if that pair's refresh token is dead, the session has ended (logout or  *)
(* expiry), or a Refresh or Logout with it is under way or ended without   *)
(* the client learning its outcome.  A lost answer costs that session and  *)
(* no other.                                                               *)
(***************************************************************************)
SessionKept ==
    \A p \in known :
        (\A q \in known : family[q] = family[p] => q <= p) =>
            \/ p \in live \cup unsure
            \/ ended[family[p]] # Never
            \/ \E s \in Slots : pc[s] = "calling" /\ req[s].tok = p
=============================================================================
