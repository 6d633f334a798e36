# Verification of url-shortener

TLA+ models of the URL shortener, model-checked with TLC on small instances and
proved with TLAPS for every value of the constants. The models follow the Go
code under `src/`; `PROJECT.json` maps every definition to the lines it models.

## The system

A client talks HTTP to one Go process. Handlers call a service, the service
calls a cache, the cache calls a repository: PostgreSQL is the source of truth,
Redis a cache in front of it. Every request runs in a goroutine of its own under
a context that is cancelled when its client disconnects.

| Component | State | Operations | Interacts with |
| --- | --- | --- | --- |
| PostgreSQL repository (`storage/postgres/repository.go`) | table `url`, unique on `alias` | Save, Get, Delete: one statement each under a 5 s timeout; Ping under the caller's context alone | called by the cache, Ping by the health probe |
| Redis cache (`storage/redis/cache.go`) | entries with a ttl, the breaker `downUntil`, the singleflight group | Save, Get, Delete: the table first, Redis after it | repository, Redis |
| URL service (`service/url/service.go`) | none; the loop variable of the retry loop | Save, Get, Delete; `saveGeneratedAlias` retries on a collision | cache, alias generator |
| URL handlers (`handlers/url.go`, `response/errors.go`) | none | Save, Get, Delete | service |
| Rate limiter (`middleware/ratelimit`) | a bucket per client address under a mutex | `allow`, and a sweeper goroutine | wraps the write and auth routes |
| Lifecycle (`main.go`, `app.go`, `wire_gen.go`, constructors) | open pools and clients, signals, the server | start-up, serve, drain, cleanup | every component |
| SSO client and auth handlers (`ssoclient.go`, `handlers/handlers.go`) | none here; tokens live in sso | Register, Login, Refresh, Logout | sso over gRPC |
| Token verifier (`authn.go`, `middleware/auth`) | secret and application id | Verify, RequireAuth | wraps the write routes |
| Router and validation (`router.go`, `validation`) | none | dispatch, middlewares in order, validate | handlers, limiters, verifier |
| Health probe (`handlers/health.go`) | none | ReadinessProbe: two pings | PostgreSQL, Redis |
| Alias generator (`pkg/random`) | none | Generate | service |

What is hard about it, and what makes each part correct:

* **Cache.** A call is a sequence of steps on three shared things (table, Redis,
  breaker) with no lock around them. Steps of other calls, of disconnecting
  clients and of servers that execute an abandoned command late come in between.
  It is correct if it never shows a URL that was not stored under the alias, if
  nothing makes it stale but a deletion whose DEL did not get through or that other
  calls overlapped, and if Redis can never make a request fail.
* **Service.** The retry loop repeats a write. It is correct if a request never
  leaves two rows and gives up only when its attempts are used up.
* **Rate limiter.** Lazy refilling and a sweeper that forgets entries must not
  show: the limiter has to behave like a plain token bucket.
* **Sessions.** The tokens live in sso, behind RPCs that can fail after sso has
  executed them, and a refresh token is used up by its first use. The code is correct
  if it never reports as final what it does not know, if a lost answer costs one
  session at most, and if the local check of access tokens lets a write outlive its
  session by no more than the token's life.
* **Router.** The order of the middlewares decides who pays which limit, and static
  routes share their name space with the aliases: every link that validation or the
  generator lets in has to reach its handler.
* **Lifecycle.** Partial failure of start-up, a drain with a timeout, and
  signals at any moment: nothing may stay open, and requests must not lose their
  resources while they are being drained.

`PROJECT.json` lists these dangers under `hazards`, each at its line and with the
properties that would show it going wrong.

## Modules

| Module | Models |
| --- | --- |
| `PostgresRepo` | the table and the repository's three methods |
| `RedisCache` (extends it) | the cache: concurrent calls, singleflight, breaker, Redis |
| `LinkStore` | what a storage of links promises its callers (abstract) |
| `CacheHistory` (extends `RedisCache`) | the cache with the two histories of `LinkStore`; implements it |
| `CacheStaleness` (extends `RedisCache`) | the cache with two histories that tell why an entry is stale |
| `URLService` (extends `RedisCache`) | handlers and service over the cache, with the retry loop |
| `TokenBucket` | what a rate limiter promises (abstract) |
| `RateLimiter` | the limiter as written; implements `TokenBucket` |
| `Auth` | auth handlers, sso client, token verifier, and sso as they rely on it |
| `Gateway` (extends `Auth`, two instances of `TokenBucket`) | router, middlewares, alias validation, health probe |
| `Lifecycle` | the process from `main` to exit |
| `MCRedisCache`, `MCCacheHistory`, `MCCacheStaleness`, `MCURLService`, `MCGateway` | instances for TLC: contexts, call sets, symmetry |
| `*Proofs` | theorems and proofs about the module they are named after |

Operators marked "Mutant" in a module are the wrong variants of the definition
after them; each property is known to fail when its mutant takes that place.

### PostgresRepo and RedisCache

`Calls` is a set of invocations; `pc[c]` names the next statement of call `c`,
`req[c]` is its method and arguments, `val[c]` and `err[c]` what it has in hand
and finally returns. Each statement that touches something shared is an action:
`SaveInsert`, `SaveAvailable`, `SaveSet` for `Cache.Save`, and so on, so any
interleaving of the statements of different calls is explored. A check of the
breaker and the Redis command after it are separate steps, as in the code.

* `db` is a function from aliases to URLs, since the unique constraint allows one
  row per alias. `Affects` is the constraint and `RowsAffected`.
* A query fails because the caller's context is done (`"context"`) or for any
  other reason (`"storage"`: timeout, lost connection, exhausted pool). A failed
  INSERT or DELETE may have reached the server; it is then in `dbLate` and
  executed at any later moment or never. Redis has `redisLate` likewise, and since
  go-redis sends a failed command again (`MaxRetries` is left at its default), a
  command that succeeds may leave an earlier copy of itself there too.
* go-redis refuses a command under a done context, and the code treats that like
  any failure: it trips the breaker.
* `flight` is the singleflight group: the call that leads the query for an alias.
  The leader's context is used for the query; `GetReturn` hands the result to all
  waiters in one step, which is what singleflight does under its lock together
  with what a waiter does on its own afterwards.
* The breaker says where `downUntil` lies: `"closed"` before the first trip (the zero
  value), `"open"` while it is in the future, `"cooled"` once it has passed. The
  cooldown may end at any moment, and `BreakerReopens` is a wall clock that is set
  back: `time.Now()` is compared as a plain number, so a breaker that had cooled is
  open again. This covers every timing of `downUntil`.
* An error value is abstracted to what `errors.Is` tells apart.

### LinkStore and CacheHistory

`LinkStore` is the interface `Storage` of `cache.go` seen from above: rows, calls that
are idle, running, settled or done, and nothing of Redis, flights or the breaker. It
says what a caller may rely on.

* A Save or a Delete takes effect at one moment between its invocation and its return
  (`TakeEffect`), or is refused at one moment because its alias is taken or free
  (`Refuse`), or fails and may take effect later, at most once (`Fail`, then `Late`).
* Gets are weaker than that. One may answer with a URL that was deleted from its alias
  (`former`), since an entry outlives its row until its ttl ends. Several on one alias may
  be answered together (`Answer`), and `ErrURLNotFound` then only means that the row
  was missing at some moment of one of them (`missed`): a Get that begins after a Save
  has returned can join a flight that had read the table before the insert, and is told
  that the link does not exist. It never means less: if the row was there all the time
  for all the Gets of the flight, they are answered with it or with a failure.

`former` and `missed` are history variables. `CacheHistory` conjoins their update,
`Store!Remember`, to every step of `RedisCache`; it restricts no step, since it
assigns only the two new variables. The mapping takes `rows` from the table, `limbo`
from `dbLate`, and the phase from the position of the call: a write is settled while
it is at its Redis commands, and what a call has in hand shows only when it has
returned.

### CacheStaleness

An entry can outlive its row; the question is when. Two histories are conjoined to
every step and restrict none. `stray` holds the calls that had a SET ahead of them, or
one that Redis still held, at the moment the row of their alias was removed; `cleared`
holds the Deletes whose DEL came back without an error. `StaleExplained` says that an
entry that is not the row has a Delete that is not in `cleared`, or a call in `stray`
that stores just that URL. So a Delete whose DEL is acknowledged clears the entry for
good, against everything that did not overlap it. The expiry of an entry is an action,
but nothing rests on it: how long a stale entry stays is the ttl, which is a time.

### URLService

Client `k` sends one request; its cache calls are `<<k, 1>>`, `<<k, 2>>`, ... under
the context `k`. `Arrive` is the handler up to the first call, `Handle` the loop of
`saveGeneratedAlias` and the answer. The generator returns any alias. Statuses are
kept because `StatusOf` decides them; bodies are not. The rate limiter and
RequireAuth stand before these handlers and are not composed with them here: they
can only keep a request from arriving, and `Gateway` says when.

### Auth

A request slot is `"idle"` or `"calling"` sso. `Receive` is a handler up to its RPC (a
body that it refuses leaves no trace, and is no step of the model), `Execute` is sso executing the RPC,
`Return` and `Fail` are the end of the RPC and the whole answer: `MapErr`, then the
handler's own choice of a status. `Fail` covers the deadline, a cancelled context and a
broken connection; sso may have executed the RPC before it, or does later
(`late`, `ExecuteLate`), or never. Every answer may fail to reach its client: clients
disconnect, and the server's `WriteTimeout` of 4 s is shorter than the 5 s an RPC may
take.

sso is not in this repository. It is modelled from what the client and `docs/auth.md`
rely on, and as freely as that allows: pairs of tokens are numbered, a login opens a
session with a pair, a refresh uses up the token it was called with and issues the
next pair of the session, a logout or an expiry ends the session. Whether a password
is right, and whether revoking a dead token is an error, is left open.

`known`, `closed` and `unsure` record what clients have been told; they are read by
the properties only, except that a client sends tokens it knows. `Verify` checks the
method, the key, the expiry and the application; the string of a token is a record of
those four. The expiry is checked when the token has one: `jwt.Parse` does not ask for
it, sso always sets it.

### Gateway

A path is a sequence of segments, so that an alias with a slash in it would be
a different route. `Route` is chi's choice: static routes before `{alias}`, and
everything under `/auth` goes to that sub-router, for every method. `AuthGroup` and
`WriteGroup` are the two groups with their middlewares in the order they are mounted;
the limiters are instances of `TokenBucket`, which `RateLimiter` is proved to implement.
A write is in two steps, because time passes and other requests run while it is
executed. The store is a set of aliases here (what happens below it is the subject of
`URLService` and `RedisCache`), and a failing Save or Delete may or may not have taken
effect. `answer` says of the last request whose path was a stored link which handler or
middleware answered it. It does not say with what status: a Get that has reached
`Handler.Get` may still be told 404 by a flight that read the table before the insert,
which is `LinkStore`'s subject.

### RateLimiter

Time is counted in ticks and tokens in units, so a bucket can hold a fraction of
a token (`Cost` units are one token). `allow` is one step because it runs under the
mutex and reads the clock there. The sweeper is two: it computes `cutoff` before it
takes the mutex. `Slack` bounds how late it wakes up or gets the mutex. `since` and
`passed` are history variables of an observer who may start counting at any time.

### Lifecycle

`main` is where the main goroutine is; a failing step of start-up jumps to the first
cleanup the injector runs (`Unwind`). The server's goroutine and the requests run
beside it. `signal.Stop` is deferred after the cleanup and therefore runs before it,
so a signal during the cleanup kills the process. A request may hold a connection of the
pool for a query (`Acquire`, `Release`) or for the probe's ping (`Ping`, `Pong`), and
`pool.Close` waits for both. A query ends within its timeout; a ping ends when
PostgreSQL answers or the client goes away, which may be never.

## What the runs check

| Run | Instance | Shows |
| --- | --- | --- |
| `cache_safety` | 3 calls, 2 aliases, 2 URLs, 1 query fault, 1 Redis fault, any cancellations; symmetry in calls, aliases, URLs | `TypeOK`, `Provenance`, `ExclusiveCreate`, `CoherentUntilDeleted`, `SingleFlight`, `BreakerJustified`, `ErrorsExplained`, and refinement of `LinkStore` (`ImplementsLinkStore`) |
| `cache_liveness` | 3 calls on one alias, two of them of one request, 1 Redis fault | `CallsTerminate` |
| `cache_overlap` | 4 calls under one context, 2 aliases, 1 URL, 1 Redis fault; symmetry in calls and aliases | `Provenance` with two flights at once, one of them with a waiter; `StaleExplained` |
| `cache_delete_race` | 3 calls, no faults | `DeletedFromCache` is **violated** |
| `cache_breaker_cancel` | 2 calls, no faults | `BreakerTracksRedis` is **violated** |
| `service` | 3 clients, 2 attempts, 1 alias, 1 query fault | `ServiceTypeOK`, `OneRowPerRequest`, `ConflictIsForeign`, `ExhaustedHonestly`, `StatusHonest` |
| `service_liveness` | 2 clients, faults of table, Redis and generator | `RequestsAnswered` |
| `rate_limiter` | 2 keys, 8 ticks, a tick refills less than a request costs | `TypeOK`, `WindowBound`, `IdleBound`, and refinement of `TokenBucket` |
| `lifecycle` | 2 requests, every configuration | `TypeOK`, `Released`, `DrainedBeforeClose`, `NoQueryCut`, `SignalEndsProcess` |
| `lifecycle_no_sso` | 1 request | `PublicWithoutSSO` is **violated** |
| `gateway` | 2 requests at a time, 2 pairs of tokens, 1 abandoned RPC, 1 address with 2 auth requests and 1 write per tick, 2 aliases of which one is a reserved name; symmetry in requests | `AuthTypeOK`, `ClosedIsDead`, `SessionKept`, `WriteWithinSession`, `LinkServed`, `PaidOnce` |
| `reserved_alias` | 1 request at a time, 1 pair | `EveryLinkServed` is **violated** |

Bounds. Three calls are what the races need: a leader, a follower and a Delete, or
two Saves and a Delete. Two things need four: an answer that crosses from one flight
to another (a Save, a leader on its alias, and a leader and a waiter on the other), and
a late SET that meets a link deleted, created again and deleted again. Both are in
`cache_overlap`. Two aliases and two URLs let an answer cross over or be replaced.
Four calls leave room for one URL only, so there a link created again has the URL it
had; `cache_safety` has two URLs, and a link created again with another URL while the
entry of the first survives is within `StaleExplainedHolds`, which bounds nothing. One fault of each kind is enough for every error path, and a fault can
meet every state of the other calls; cancellations are not bounded. For the
service, one alias makes every roll collide, which is the case of interest; the
other aliases only make it rarer. The limiter's 8 ticks hold four periods of its
ticker. In `gateway` two pairs are either two sessions or one that is refreshed, two
slots let a retry of Refresh overtake the first attempt, one abandoned RPC lets sso
execute it after the retry, and one tick is the life of an access token, so a token
and its session can each end first. One address makes clients share their buckets. The theorems below remove these bounds for the properties they state.
Calls and requests are one-shot and a process ends, so the runs of the cache, the
service and the lifecycle do not check for deadlock; that they do not stop early
is what the liveness properties say. `rate_limiter` and `gateway` do check it.

Fairness. A call that can take its next step takes it (weak fairness of `Step(c)`):
every query ends within `defaultQueryTimeout` and every Redis command within the
client's timeouts, with an answer or an error, and the Go scheduler runs every
goroutine. Nothing is assumed of clients, faults, late statements or the breaker.
Nor is the expiry of entries. In `Lifecycle` the steps of main from the signal on are
taken when they can be (`ShutDown`; the drain has a deadline, and `pool.Close` is a step
that may not be possible) and a query gives its connection back within
`defaultQueryTimeout`. Start-up is not assumed to end, since the migrations have no
deadline, nor a handler, which is why the drain needs its timeout, nor a ping.

### Disagreements found

* `cache_delete_race`: a Delete that succeeds can leave the link in Redis. Save
  inserts, Delete removes the row and the (absent) entry, Save sets the entry; or
  a Get reads the row before the deletion and fills the cache after it. The test
  of Delete says "Record MUST be deleted from Redis Cache". The entry redirects
  until its ttl ends. `StaleExplained` shows that such an overlapping SET is the only
  way, once the DEL is acknowledged.
* `cache_breaker_cancel`: a client that disconnects trips the breaker for all
  clients, although the breaker is documented as being for a degraded Redis.
* `lifecycle_no_sso`: the README promises the public endpoints without the SSO
  variables; the process does not start without them.
* `reserved_alias`: validation admits the aliases `healthz` and `auth`, and Save answers
  200, but `GET /healthz` is the probe and `/auth` is mounted for all methods, so the
  link cannot be followed (and one under `auth` not be deleted). The README says of
  `GET /{alias}` "Resolve a short alias and redirect to the original URL".
  `LinkServed` shows that these two names are the only exceptions.

Some more facts the models make visible without contradicting anything: a Redis
client whose first ping fails is not closed (the exception in `Released`), and a
Get can fail with the cancellation of another client whose flight it joined (the
last case of `ErrorsExplained`); a client whose Refresh ends in a 500, or whose answer
is lost, may have lost its session (`unsure` in `SessionKept`); an access token
goes on working after a logout until it expires (`WriteWithinSession`); and a readiness
probe whose ping hangs, with its client still waiting, can keep the process from ending
after a signal: the drain gives up after ten seconds, but `pool.Close` has no deadline
(the second case of `SignalEndsProcess`, without which it is violated).

## What is proved

All theorems are for any sets of calls, clients, aliases, URLs, keys and requests
(finite where cardinalities occur) and any numbers of faults, from the assumptions
named in the modules: `PgAssumption`, `CacheAssumption`, `ServiceAssumption`,
`LimiterAssumption`, `AuthAssumption`, `GatewayAssumption`.

* **RedisCacheProofs.** `TypeCorrect`, then one invariant after the other on top of
  it. `SingleFlightHolds` needs `FlightInv`: the group's map and the calls' positions
  agree in both directions, or a released alias could still have a leader.
  `ProvenanceHolds` needs `LateInv` (a statement the server still holds belongs to a
  failed call of that kind and is its only one) and `ProvenanceInv` (rows and
  pending Redis writes have a source too). `CoherentUntilDeletedHolds` needs
  `CoherenceInv`: also what is still on its way to Redis agrees with the table.
  `ExclusiveCreateHolds` needs `CreateInv`, a count: acknowledged Saves are at most
  the Deletes already executed plus the row in the table; a Delete that may yet be
  executed is counted when it is. `BreakerJustified` and `ErrorsExplained` are
  inductive with the types and with what a step can do to a call. `CallsAlwaysAdvance` bounds the steps of a call: each
  one, and each end of a flight it waits for, lowers `StepsLeft`. `NextCallStep` says once what a step can do to any
  call and carries most of the frame reasoning.
* **CacheHistoryProofs.** `StoreRefinement`: the cache implements `LinkStore`. The initial
  states map to initial states, and each step maps to one abstract step or to none: the
  statement of a Save or a Delete to `TakeEffect`, `Refuse` or `Fail`, its last step to
  `Finish`, a hit in Redis and the end of a flight to `Answer`, all others to stuttering
  (`Silent`). It needs `AnswerInv`, that every URL in Redis, in a late write, in the hands
  of a Get or of a Save about to fill the cache is or was a row of its alias, and
  `MissInv`, that a Get with `ErrURLNotFound` in hand, or one that is in progress while
  there is no row, is in `missed`. `NextSources` of RedisCacheProofs, which says where a
  URL can come from in one step, gives the first. `HistoryObserves`: with the histories
  the cache takes only steps it takes without them.
* **CacheStalenessProofs.** `StaleExplainedHolds` needs `StaleInv`: what a call is about
  to store is the row or the call is in `stray` (`InHandInv`), so is a SET that Redis
  still holds (`HeldInv`), a call in `stray` never changes the URL it stores, and a Delete
  whose statement the server still holds is not in `cleared` (`ObservedInv`). `RowGoes`
  is the step that matters: a row disappears only for a Delete that is not cleared yet.
* **URLServiceProofs.** `ServiceImplementsCache`: every behaviour of the service is a
  behaviour of `RedisCache`, so the cache's theorems hold under it;
  `ServiceExclusiveCreate` is one such consequence. `OneRowPerRequestHolds` needs
  `AttemptInv`: the calls before the current attempt were refused, the later ones
  have not begun. `ConflictIsForeignHolds` also needs `ErrorKinds` (which error belongs
  to which method) and the cache's `ProvenanceInv`: the row an insert collides with has
  a source, and that is not a call of the same client, whose earlier ones were all
  refused. `ExhaustedHonestlyHolds` needs `HonestInv`, which says of an answered request
  what the property says and of a running one which call it is waiting for.
  `StatusHonestHolds` is the end-to-end statement: what the HTTP status says about the
  table is true. It needs `StatusInv` (a status other than 500 was given for the outcome
  of the current call, which did what the client asked for, or for no call at all), and
  rests on `AttemptInv`, `ErrorKinds`, `ProvenanceInv` and `ConflictIsForeign`.
  `RequestsAlwaysAdvance` bounds the steps of a handler by `2 * MaxRetries + 2`.
* **RateLimiterProofs.** `Refinement`: the limiter implements `TokenBucket` under the
  mapping `level[k] = Level(k)`, the tokens a bucket would have if refilled now. A
  sweep is a stuttering step because an entry old enough to be dropped has had time
  to fill (`TTL * Rate >= Burst`, true of both limiters by orders of magnitude) and
  an absent entry counts as full. `WindowBoundHolds` needs `WindowInv` (what passed
  plus what is left is within what the window supplied), `IdleBoundHolds` needs
  `SweepInv` (the sweeper's position and the age of entries).
* **LifecycleProofs.** `ReleasedHolds` needs `OpenInv` (what is open at each point),
  `DrainedBeforeCloseHolds` needs `DrainInv` (no request runs in a cleanup that
  follows a completed drain); `NoQueryCutHolds` follows with them.
* **AuthProofs.** One invariant, `AuthInv`. Of sso it says that a session has one live
  token at most and none once it has ended, and that no access token outlives the end
  of its session by more than its life. `Replies` says what an answer on its way to its
  client implies (a code "Unauthenticated" means that the token is dead), without which
  `ClosedIsDead` is not inductive. `Accounted` says where each token that died is: it
  ended its session, or its successor is in an answer, known to the client, or the
  outcome was lost; `SessionKeptAlways` follows from it. `SsoStep` says once what an RPC
  can do and serves both `Execute` and `ExecuteLate`.
* **GatewayProofs.** `GatewayImplementsAuth`: the front is a behaviour of `Auth`, so its
  theorems hold behind router and limiters. `WriteWithinSessionAlways` needs `WorkInv`
  (a write was let in by a known pair before that expired), `PaidOnceAlways` needs
  `LevelInv` (the buckets stay within their bounds), and `LinkServedAlways` needs
  `LinksInv` (a stored alias is one segment that validation or the generator let
  through) together with `LinkRoutes`, what the router does with such a path: it is about
  the handler that is reached, not about what that answers.

Every invariant and action property of the passing runs is proved. Only model-checked:
the liveness properties (`CallsTerminate`, `RequestsAnswered`, `SignalEndsProcess`), since fairness is outside the prover's reach, and the violated
properties. Of `CallsTerminate` and `RequestsAnswered` the part that is about safety is
proved: by `CallsAlwaysAdvance` and `RequestsAlwaysAdvance` nobody can go on forever, and
by `SingleFlightHolds` whoever waits waits for a call that is active. What TLC adds is
that the next step is possible whenever it is needed.

## Not modelled

* The alias generator as an algorithm: its result is any alias of its alphabet, and a
  generator that fails is an action. What is left is that its results are evenly
  distributed, which is a probabilistic claim.
* sso itself, chi, go-redis, pgx and singleflight are modelled from how the code uses
  them; what is written for them is marked external in the map.
* Response bodies and messages, request ids and logging. The checks of the auth
  handlers' request bodies are refusals without a trace. The check of a URL (form and
  scheme) is one of the refusals of a Save. No handler reads the claims of a token.
* The composition of `Gateway` with `URLService`: the front needs of the store only that
  a Save adds its alias and a Delete removes it, and what the cache does in between is
  independent of who is let in.
* The size of the connection pools: an exhausted pool is a failing query.
* Times as such: timeouts are events that may happen whenever they can. Only the
  limiters and the access tokens count ticks.
* `wire.go` (the generator's input), the logger's set-up and plain accessors in
  `providers.go`.

## Order of the work, and what is left

1. `PostgresRepo`, `RedisCache`, `URLService`, `RateLimiter` with `TokenBucket`, and
   `Lifecycle`, with their runs and theorems.
2. `Auth` and `Gateway`, the breaker under a clock that is set back, and the proofs of
   all remaining invariants.
3. `LinkStore` and the refinement of the cache; what a Get that joins an older flight may
   miss; the truth of the statuses; the bounds behind the liveness properties.
4. Why an entry is stale (`CacheStaleness`), the probe's ping in `Lifecycle`, repeated
   Redis commands.
5. Left: a bound like `CallsAlwaysAdvance` for the shutdown, and joining `Gateway` and
   `URLService` over `LinkStore`.
