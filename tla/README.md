# A verification of the Core Gateway

The Core Gateway is a Go program between a mobile app and some dozens of gRPC
services. It serves HTTP (gin, with a grpc-gateway mux behind it) and gRPC,
keeps a response cache and call counters in Redis, listens to a Kafka topic,
and polls other services for small pieces of state. It has no database of
its own: what it keeps is copies of other people's data, and most of what can
go wrong is that a copy is wrong, old or somebody else's; the rest is what
happens to a call on its way through, when something fails, is late, or the
process goes. These modules are about both. Line numbers refer to the files
under `src/`.

Contents: [Inventory](#inventory) - [Modules](#modules) -
[Runs](#runs-what-each-checks-and-shows) - [Bounds](#bounds) -
[Fairness](#fairness) - [Proofs](#proofs) - [Disagreements](#disagreements) -
[Left out](#what-is-not-modelled) - [Plan](#plan)

## Inventory

| Component | State | Operations | Hard behaviour |
|---|---|---|---|
| Response cache (`grpcApi/middleware/cache.go`) | Redis strings with a TTL, shared by replicas | GET hit or miss, SET, SCAN + DEL after a mutation | a refill in flight during an invalidation; TTL and token expiry; Redis failing between commands |
| Impersonation guard (`grpcApi/middleware/impersonation.go`) | list of ended view-as-user sessions, when it was fetched, two locks | look-up, refresh under the lock | refreshes that queue, fail or are slow |
| gRPC rate limit (`internal/interceptors/ratelimit.go`) | one Redis counter per caller | INCR, EXPIRE | the two are not atomic; fixed windows |
| App Check (`internal/interceptors/appcheck*.go`) | a mode, when it was stored, whether there is one | judge a call, fetch the mode | fetches overtake each other; enforcement changes under logins |
| User proxy (`internal/proxy/user_proxy.go`) | none; the record is in notifications-service | read, change, write back | another write in between; a read that fails |
| HTTP chain, JWT (`main.go`, `grpcApi/middleware/auth.go`, `middleware.go`) | a response under way | authenticate, intercept, time out, report errors, recover | a HIT is answered before authentication; each middleware may add to a response that is written already |
| gRPC chain (`main.go:783-816`, `internal/interceptors`) | the context of a call | recover, log, attest, authenticate, limit, gate | the order; which guard is on which transport; which methods are public |
| Balance invalidator (`internal/kafka/balance_consumer.go`) | the consumer's offset | SCAN + DEL per event | offsets committed before events are handled; a start without a commit begins with the events to come |
| Degradation, feature gates (`main.go:187-238, 498-550`, `featuregate_rules.go`) | switches in a library | set, query | a missing body is answered twice |
| Start-up, shutdown (`main.go:98-182, 885-932`) | two servers, consumer, Redis | drain and stop | order, and what is waited for: not the HTTP calls, nor the gRPC handlers after a forced stop |
| Unified search (`unified_search_proxy.go`) | none | merge saved recipients and group members with pages of the directory | one person on two pages, or on none; one person saved for several accounts |
| Uploads (`storage_proxy.go`, `support_proxy.go`) | none | settle a type, name an object, rewrite a signed URL | type, name and keyspace contradict each other; a host that is signed |
| Forwarding proxies, AI chat, voice (`internal/proxy`) | none | convert and forward with the caller's metadata | several authorization values; failures answered OK |
| Client logs (`client_logs_proxy.go`) | none | filter and pass on | - |
| Client pool (`gateway/proxy`, not wired) | connections by address | get, close | double-checked locking |
| Security middleware (`middleware/security.go`, not wired) | limiters by address | check | - |
| Helpers (`utils`, not wired) | none | retry, paginate, cache | - |
| Task queue (`tasks`, not wired) | none | enqueue; nobody here consumes | - |

How they meet. An HTTP call passes recovery, logging, timeout, the error
handler, **cache**, a **rate limit** that does nothing, **CORS**, then the
group's **JWT** and **impersonation** middleware, then the handlers that
intercept paths, then the mux, which dials the services directly
(`main.go:383-444, 650-684`). The cache is in front of authentication: a HIT
passes neither it nor the impersonation guard and has no headers of CORS. A gRPC call passes the
interceptors of `main.go:785-797`. Only AI chat and voice sessions go from the
HTTP mux to the gateway's own gRPC server, so the gRPC interceptors do not see
the rest: a login over HTTP meets no App Check. Cache, counters and the Kafka invalidator share one Redis client,
which may be nil: then there is neither cache nor limit. The main goroutine
closes that client before it stops the consumer.

What makes each correct is stated as the properties below; `PROJECT.json`
lists the hazards line by line with the property that covers each.

## Modules

| Module | Models | With |
|---|---|---|
| `ResponseCache` | `CacheMiddleware`, `InvalidateCacheMiddleware`, the deadline before them, authentication after them, Redis, a service | `MCResponseCache`, `ResponseCacheProofs` |
| `RevocationList` | the revocation list and the verdicts of both transports | `MCRevocationList`, `RevocationListProofs` |
| `RevocationPromise` | the abstract promise that `RevocationList` implements | |
| `RateLimit` | `RateLimitInterceptor` and its counters | `MCRateLimit`, `RateLimitProofs` |
| `AppCheck` | `AppCheckModeProvider`, `AppCheckInterceptor`, and auth-service as far as sessions go | `MCAppCheck`, `AppCheckProofs` |
| `HttpChain` | one HTTP call after another through the middlewares, the intercepting handlers and the way back out | `MCGatewayRequests`, `ChainProofs` |
| `GrpcChain` | one gRPC call after another through the interceptors, the proxies and what they tell their services | `MCGatewayRequests`, `ChainProofs` |
| `UnifiedSearch` | `HandleUnifiedSearch` as an app pages through it | `MCGatewayRequests`, `RequestProofs` |
| `StorageUploads` | the upload URLs of `StorageProxy` | `MCGatewayRequests`, `RequestProofs` |
| `Preferences` | `GetUserProfile` and `UpdatePreferences` of the user proxy, notification flags | `MCGatewayRequests`, `RequestProofs` |
| `Lifecycle` | `main` from its first connection to its exit, with its calls | `MCGatewayProcess`, `ProcessProofs` |
| `BalanceInvalidator` | the Kafka consumer, its offsets and what it clears | `MCGatewayProcess`, `ConsumerAndPoolProofs` |
| `ClientPool` | `ClientPool` and `GRPCProxy` | `MCGatewayProcess`, `ConsumerAndPoolProofs` |

`MCGatewayRequests` and `MCGatewayProcess` put several components under one
run. Where components share nothing (a search and an upload; a pool that is
not wired and a consumer) their interleaving would only multiply the states, so
a behaviour of these two is a behaviour of *one* part, named by `part`, and the
others stand still. What components do share is inside one module: the cache
and authentication in `ResponseCache` and `HttpChain`, calls and shutdown in
`Lifecycle`, the consumer and the cache's skipped paths in
`BalanceInvalidator`, App Check and auth-service in `AppCheck`.

Conventions. A *handler* is a goroutine that serves one call; its `pc` names
where it is between two calls of something outside the process (Redis, a
service, a lock), so one action is the code between two such points and every
interleaving of handlers, of one replica or several, is a behaviour. Time is
an integer clock (in `RateLimit` ages and remaining lives, in `Lifecycle`
seconds left, in `HttpChain` whether a deadline has passed); `Tick` is kept
from passing a timeout that the code sets.

Failures are actions of their own and may happen at any time. Where a property
cannot survive one, the state says exactly what the failure touched - a scan
is `faltering`, a look-up `unrefreshed`, a counter `stranded`, a decision
`guessed`, a write `outdated`, an event `faulted`, a search `blind` - and the
property exempts that and nothing else: a failure of one call never excuses
another. Only where a failure or an overlap leaves no such mark is there a
constant to rule it out (`RedisMayFail` and `Overlapping` of `ResponseCache`,
for `ReadYourWrites`).

Definitions marked *Mutant* are plausible slips in the code; each property is
known to catch one.

### ResponseCache

`cache` is the set of Redis entries: key (token, scope of headers, path), body,
expiry. A path is a sequence of words, each behind a `/` or, inside a segment, a
`:`, with a query or none; `KeyPath` is what `generateCacheKey` keeps of it,
where every separator is `:` and the query is one word more (encoded, it has
neither). So two paths may have one key, and `cache_one_client` has such a pair. A body is the call it was built for, the number of mutations committed
when the service read its data, and the instant. Handler states: `lookup`
(a scope was found, Redis GET sent), `passed` (going on to authentication),
`forwarded` (with the service), `answered`, `storing` (TTL computed, SET under
way), `scanning` (invalidation), `faltering` (a DEL or the SCAN itself has
failed). `targets` is what a SCAN still owes: Redis promises keys present
throughout, and may or may not return later ones, so `DeleteKey` may delete
any matching key while `EndScan` waits for those owed. `start`, `floor`, `at`
remember when a call arrived, what its client had been told was committed, and
when the last TTL, HIT or scan was. `ScopeOf` is `principalScope` with
`sanitizeScopeValue` (the function `Clean`), `HasScope` its early returns,
`TTLFor` is `cacheTTLFor` with the token's remaining life.

### RevocationList and RevocationPromise

`revokedSet`, `fetchedAt` and the mutex `writer`. A call whose copy is old
waits for the lock, looks again (`FindFresh`) or fetches while holding it
(`BeginFetch`, `ServiceAnswers`, `FetchSucceeds` or `FetchFails`). A call whose
own fetch failed is judged by the old copy and ends as `unrefreshed`. `ended`
and `endedAt` are what auth-service knows. `Guarded` says which transport looks.
In front of the guard is the response cache: `StoreAnswer` stores the answer to
a read that the guard let through, `AnswerFromCache` answers a HIT without the
guard. One entry stands for a session, with the time of the decision it goes
back to and whether that was a guess; it lives `CacheLife` from then at most,
which is the `StalenessBound` of `ResponseCache`.

`RevocationPromise` has no copy, lock or fetch: sessions end, the gateway may
come to know of ended sessions whenever it answers, never forgets one, says
`revoked` exactly of those it knows, and lets an ended one through only within
`Window` of its end or as a `guess`. The mapping: what is known is
`revokedSet`; the window is the TTL plus the fetch timeout; the answer of a
handler is its verdict once it has decided. `FetchSucceeds`, `FetchFails`,
`FindFresh` and a `ReadCopy` that decides are answers; the rest stutters.

### RateLimit

`count` and `ttl` are Redis'. `Incr` counts a call and decides it, unless it
created the counter, when `Expire` follows within `Lag`. A call whose INCR
fails is served, counted or not. `recent` and `admitted` count past calls by
age (all those counted; those let through by their count), and `stranded`
holds the counters whose creation or first EXPIRE failed; the three are there
for the properties only. Counts are saturated just above the limit, where the
code sees no difference. `Sums` adds the calls of the younger ages up; the
properties and `RateLimitInv` compare `count` with such a sum.

### AppCheck

`cached`, `cachedAt`, `hasValue` are the provider's. A fetch is sent
(`Arrive`), read by admin-gateway (`AdminAnswers`) and stored
(`FetchSucceeds`) in three steps, by any number of handlers at once. `InForce`
is the parsing of the setting, with the fallback for a blank one and `report`
for an unknown one. `lastInForce` remembers when each mode was replaced, and
`age` how long before its decision the mode that judged a call had been. A
login accepted by auth-service mints a session or sends a challenge, which a
step-up turns into one; `session` and `stepUp` hold the *grounds* on which the
login at the root had been let through, so that a session minted by a step-up
inherits those of its challenge. `AuthenticateOverHTTP` is a login or a step-up
that the mux sends to auth-service directly (`main.go:307, 1582`): App Check is
not asked, in any mode, and the grounds of such a login are `unseen`.

### HttpChain

A call goes from `arrived` to a `CacheHit` or to `Dispatch`, which is
everything that happens without a service: CORS, authentication, the 403 of
the impersonation guard (when is a matter of `RevocationList`), the routes
for internal callers, the handlers in front of authentication (`Early`) and
behind it, with the checks of each PIN handler in the order of its source
(`Refusal`). Then a service answers (`ServiceAnswers`, with the status each
handler makes of it), an admin switch is set (`AdminSwitches`, whose
`BindJSON` aborts but whose handler goes on), or something panics (`Panic`,
which skips every way out but the first). `LeaveChain` is the way back:
the cache stores or clears, the error handler adds its document when
`c.Errors` is not empty, the timeout adds a 408 when the deadline has passed.
A response keeps its first status (`Respond`), and every `c.JSON` adds a
document. `late` is the server's `WriteTimeout`: both are 30 seconds
(`main.go:395, 700`), but `WriteTimeout` begins when the headers are read, so
`TimePasses` lets it pass first.

### GrpcChain

`stage` is the interceptor or handler that has the call, `After` the order of
the chain. `bearer` is what the caller put under `authorization`, none, one or
two values, genuine or not; `known` is who `JWTAuthInterceptor` says it is;
`told` is what the proxy sends on (`ForwardContext`, or for chat and voice
what they make of it). App Check, the rate limit and preferences have their
own modules; here they let pass or refuse. `stepUp` is the token an app holds
between a login and its second step. `PollGates` changes the snapshot of the
feature gates at any time. `AnswerOf` is what each kind of proxy makes of a
service that served, failed, answered something malformed or was unreachable.

### UnifiedSearch, StorageUploads, Preferences

`UnifiedSearch`: `directory` is auth-service's list in its order; `AnswerPage`
is one request, with any of the four services up or down; the directory stands
still between two pages. A page has three parts, `local` (the saved rows of each
person, one for each account; rows without a user id are left out), `connections` (members of groups) and
`listed`, what `DirectoryOf` leaves of the directory's page after the caller
and those in the other parts; `NextOffset` and `HasMore` count what the
directory returned, not what was shown. `shownOn` remembers on which pages each
person has been.

`StorageUploads`: `Resolved` settles type and extension as the keyspace's
function does (documents: a PDF by type *or* by name first), `BuildScopedKey`
names the object, `ToPublicURL` replaces the host of URLs that point at the
storage service's own store. `tickets` is the sequence of answers handed out;
an object's identifier is the number of the answer that made it.

`Preferences`: `stored` is the record of notifications-service, `screen` what
each device shows, `intended` what the user has asked for toggle by toggle. The
app sends all switches with each change. `Write` merges the request into the
record that was read; `WriteLost` is a write whose answer does not come back.
`outdated` holds the calls about to write whose read failed or was overtaken.

### Lifecycle

`phase` is where `main` is, `http` and `grpc` its servers, `sleep` and `left`
the seconds of the pause and of `shutdownCtx` still to go. A call is `http`
(answered by an upstream service, then clearing the cache on its way out),
`grpc`, or `chat`: an HTTP call that dials the gateway's own gRPC port
(`CallSelf`), which fails when mTLS is asked of a server that has none.
`ForceStop` cuts the connections of gRPC calls and makes the inner calls of
chats fail. `grpcServer.Stop` is not told to wait for handlers (`main.go:920`),
so theirs go on as `orphans` until they return (`OrphanReturns`) or `main` does;
`Exit` cuts off whatever is left. `uncleared` are the calls that changed
something whose cached copies still stand: from the service's answer until the
clearing on the way out, and for ever if Redis is closed or the process gone
by then. Only waiting is counted as time, so `cutAfter` is never more than the
time that has passed.

### BalanceInvalidator

An offset is the number of events before it. `ReadMessage` hands out the next
event; `Commit`, in the background, commits whatever has been handed out
since the reader began (`from`), handled or not. `StartConsumer` goes on at the
commit, or, without one, with the events still to come (`LastOffset`):
`passedOver` remembers which those leave out, counted from `origin`, where the
group first began; `ClearPath` and `ClearFails` are SCAN and DEL for one path;
`Crash` loses what is in hand; `CloseRedisFirst` and `StopConsumer` are the
end of `main` in its order. `copies` says how old the cached answers of each
path are. `handled` and `faulted` remember which events were seen through and
which Redis failed on.

### ClientPool

`connections` is the map, `writer` holds the write lock. `LookUp` is under the
read lock, `Examine` (the state of the connection) under none, `Lock`,
`TakeAnothers`, `Dial`, `DialFails` under the write lock, as is `Close`, one
connection after another.

## Runs: what each checks and shows

A component's questions are asked together in one run wherever they can hold
of the same instance.

| Run | Checks | Shows |
|---|---|---|
| `cache_calls` | `CacheInv` (with the types), `StalenessIsBounded` | with calls that overlap, expire and are invalidated, and a Redis that may fail at each command, a HIT is at most TTL + deadline + one Redis command old |
| | `HitWithinCredential` | it is asked for before, and answered no more than one Redis command after, its token's expiry |
| | `OnlyItsTokenInvalidates` | nothing but expiry and a scan of its own token removes an entry early |
| | `InvalidationReachesEveryScope` | a scan none of whose own commands failed has removed every older entry of its token in all scopes |
| `cache_one_client` | `ReadYourWrites` | a client that has one call per token in flight and sends no PIN header reads its writes |
| | `HitAnswersItsOwnCall` | a HIT has the token and scope of its call and a path with the same words, the same path if both are `Plain` |
| `revocation_window` | `RevocationInv` (with the types), `WindowIsBounded` | the guard lets an ended session through for less than TTL + fetch, and a HIT serves it for less than the life of an entry more, unless the fetch that the answer goes back to failed |
| | `NothingKnownIsForgotten`, `KeepsThePromise` | failed and concurrent refreshes forget nothing; step by step the guard does only what `RevocationPromise` allows |
| | `EveryCallIsDecided` | no caller waits for ever, however often auth-service fails |
| `ratelimit_window` | `EveryCounterWillExpire`, `CounterIsRecent`, `LimitedIsServedAgain` | unless the commands that create it fail, a counter expires, counts recent calls only, and serves its caller again |
| | `AtMostTwiceTheLimit` | no window of time admits more than twice the limit by count, whatever fails |
| `appcheck_window` | `AppCheckInv` (with the types), `ModeIsRecent` | a mode is acted on for less than TTL + fetch after it was replaced, whichever answer is stored last |
| | `GrpcSessionsAreAttested` | every session, step-ups included, goes back to a login that was attested, let through within that time, judged after a failed fetch, or made over HTTP |
| | `LastGoodOrFallback` | with a value once known, no failure makes the gateway act on a mode no admin set |
| `gateway_process` | `ProcessInv` | the types and inductive invariants of the three parts |
| | `LossesAreLate`, `RedisOutlivesGrpc`, `SignalEndsIt` | a shutdown ends, cuts off no gRPC call before pause and grace period are over and no HTTP call before the pause is, leaves nothing uncleared before that either, and closes Redis under a gRPC handler only after the grace period and a forced stop |
| | `OneLossPerCrash`, `NoEventBlocks` | a consumer that commits first loses at most one event per crash, besides those that a start without a commit passes over, and is held up by none |
| | `OpenOnesAreThePools`, `CallsReturn` | callers racing each other and `Close` leave no open connection outside the map, and none waits for ever |
| `gateway_requests` | `RequestsInv` | the types and inductive invariants of the five parts |
| | `OneDocument`, `ServicesKnowTheCaller`, `OkMeansAuthorised` | a client gets one JSON document (an admin without a body excepted); no private route reaches a service without a verified user; a 200 on one, cached or not, goes to a verified token |
| | `ServicesAreToldTheCaller`, `TestersAreNeverGated`, `SuccessIsTheServices` | a service is told the user of the token it is handed, whatever else is in the metadata; the gates come late enough to know testers; no failure is answered as a success |
| | `EverybodyIsFound`, `RepeatsAreOfTheFirstPage` | whoever pages to the end has seen everybody who can be paid; nobody twice on a page but by several saved rows, and nobody on two pages but for those the first had shown |
| | `UploadsAreSound` | keys, types and keyspaces of uploads fit each other, and every URL handed out can be used |
| | `OnlyOutdatedWritesClobber` | a notification flag is undone only by a write whose own read failed or was overtaken |

Five more runs (`cache_refill`, `revocation_grpc`, `ratelimit_lockout`,
`preferences_clobbered`, `grpc_stepup`) end in a violation on purpose: they
check what a comment promises, see [Disagreements](#disagreements).

## Bounds

The concurrent components are checked with two handlers, callers or devices,
which is the least that interleaves; the proofs cover any number. `SYMMETRY` on
handlers is used with invariants and action properties, never with liveness.

- `cache_*`: two tokens of two people, one of which expires at 2 and one
  never, two currencies (one of which sanitises to the empty value), one
  header outside the key. In `cache_calls` TTL 2, lag 1 and
  a deadline of 0 - the call itself takes no time - with a clock to 3 and one
  mutation: an entry lives through a tick and past the token's expiry if it
  can. In `cache_one_client` the deadline is 1, there are four paths (two
  cached ones with one key, one skipped, one public), no-cache reads and two mutations, so that a body can be
  older than a commit and two commits can follow each other.
- `revocation_*`: one session, TTL 2, a fetch of 1, entries of 2, a clock to 4
  (2 over gRPC). The program
  starts without a list (it is as old as a list can get), so the copy is
  fetched, grows old and is refreshed while the session ends.
- `ratelimit_*`: limit 2, window 3, EXPIRE up to 2 late (2 and 1 in
  `ratelimit_lockout`). There is no bound on time or on the number of calls:
  ages and counts saturate where the code and the properties stop telling them
  apart. One caller: counters do not share state.
- `appcheck_window`: one device, login and step-up, a misspelt setting and
  `enforce_auth`, `off` as the fallback; TTL 2, fetch 1, a clock to 3, so that
  a copy can go stale after the setting has changed and be overwritten by an
  older answer.
- `gateway_process`: two calls of any kinds, a pause of 1 and a grace period
  of 2, so that a call can be cut off after either and both can differ; three
  events and one crash (`MaxEvents`, `MaxCrashes`): one event can be handled,
  one lost and one in hand, or one read before a crash and two passed over after
  it; two callers, two addresses and two closes
  (`MaxCloses`), so that a pool is emptied, refilled and emptied again.
- `gateway_requests`: HTTP and gRPC calls without bound, one after the other,
  over all routes and methods named; two users, one of them a tester, up to
  two bearer values of either, genuine or not. Three people, pages of two:
  a directory has none, one or all of its pages full; one person may be saved
  twice (`MaxRows`). Two uploads
  (`MaxUploads`), the least that can collide, over four types and two names
  that disagree. Two devices, one switch, one flag.

`MaxTime`, `MaxVersion`, `MaxEvents`, `MaxCrashes`, `MaxCloses` and
`MaxUploads` bound guards, `MaxRows` the initial state, and nothing else depends
on them. `CHECK_DEADLOCK FALSE` is said of the two
composed runs and of `grpc_stepup`: a process exits, an app that has seen all
pages stops, and the bounded parts come to their bounds.

## Fairness

`FairSpec` of `RevocationList`: strong fairness for what each handler does in
its look-up, since nothing but the lock and the 3-second client timeout stops
a goroutine, and whoever waits for a mutex gets it (Go's mutex hands over to a
starving waiter after a millisecond). Nothing is assumed of auth-service:
a fetch may fail every time.
`FairSpec` of `RateLimit`: time passes, and a handler's EXPIRE ends one way or
the other, because the Redis client has timeouts; callers need not call.
`ProcessSpec`: what `main`, its servers, its clock and the consumer's goroutine
do by themselves goes on (weak; only one part is ever enabled), and a caller of
the pool that can go on again and again does (strong, for the `RWMutex`).
Neither the end of a call, nor a signal, nor a commit, nor a restart is assumed:
`SignalEndsIt` holds with calls that never end, because the grace period does.

## Proofs

All theorems are about the specifications above with their constants left
open: any number of handlers, callers, tokens, headers, sessions, devices,
people, events and crashes, any TTL, timeout, limit and page size, subject to
the assumptions of each module (the TTL is positive, sets of calls are not
empty, and so on). TLC evaluates those assumptions in every run. One theorem
assumes more, `OwnWritesAreRead`, and says what. Failures are covered as the
properties state them. Every safety property of a passing run, invariant or
step property, is a theorem.

Each follows from an inductive invariant. Those that are properties of a run
TLC checks with it; `RateLimitInv` and `WritesInv` were checked once by TLC with
the constants of `ratelimit_window` and `cache_one_client`, where they hold,
before they were proved.

- **ResponseCacheProofs.** `CacheInv` is inductive: an entry stands under the
  key of the call its body was built for, which is not the key of that call
  alone, and expires within the bound; a SET
  under way computed its TTL in time; a HIT was an entry when it was read; a
  scan owes every entry of its token older than itself. A property of a HIT
  cannot be inductive by itself, since it depends on the entry it came from,
  which depends on the SET. From it: `HitsAreTheCallersOwn`, `HitsAreFresh`,
  `HitsAreWithinTheCredential`, `InvalidationIsComplete`.
  `InvalidationIsIsolated` is a step property.
  `OwnWritesAreRead` is `ReadYourWrites` for clients that take turns
  (`ClientsTakeTurns`): no two calls of a token overlap, no Redis command fails,
  a person keeps one token, and no mutation has the header that takes its scope
  away. The constants of `cache_one_client` are such, and each of the four is
  needed, as TLC finds: `cache_refill` breaks it without the first,
  a dropped DEL without the second, a refreshed token without the third, and
  `cache.go:316` without the fourth. The invariant, `WritesInv`, follows what a
  client has been told into all that the gateway holds: the entries of its live
  tokens, a body on its way to the cache, and the keys that a scan still owes.
- **RevocationListProofs.** `RevocationInv`: what the copy misses ended at
  most one fetch before it was stored; one handler fetches at a time; its
  answer knows what the copy knows, so that storing it loses nothing. Of the
  cache in front it says that an entry goes back to a decision of the guard less
  than its life ago, and that the decision was in time unless it was a guess.
  `WindowTheorem` and `MemoryTheorem`. `PromiseIsKept` is the refinement: the
  initial states map to those of `RevocationPromise`, and every step, from a
  state of the invariant, to one of its steps or to a stutter. The invariant is
  needed for exactly the steps that answer: that what was just learnt is
  older than the window and a superset of what was known.
- **RateLimitProofs.** `CountersExpire`: a counter that is not stranded has a
  life or its creator is about to give it one. An EXPIRE aimed at one counter
  cannot use up the promise of another.
  `CountersAreRecent` and `TwiceTheLimitAtMost` are about sums of calls by age,
  and `RateLimitInv` relates those to the counters. A counter not stranded
  counts at most the calls as old as its creator has waited, or, with its life
  begun, as old as that life is, with `Lag` (`CountsItsOwn`). For the limit,
  there is an age that splits the calls of a window in two: the younger are in
  the counter that stands, the older were let through by the one before it,
  and each of the two admits `Limit` at most (`TwoCountersAtMost`); it needs no
  EXPIRE to succeed, since a counter that never dies is the only one. Sums are a
  recursive function. That they grow with the age, shift when time passes and
  differ by one for a call more are inductions over the ages: by `Climb`, which
  is induction over `0..m` for a *set*, and is proved from the finiteness of
  `0..n` - were `n` the first age outside, the successor would map those below
  into themselves, one to one but not onto.
- **AppCheckProofs.** `AppCheckInv` does not order the answers: each was given
  after it was asked for and is stored within its timeout, so the copy is at
  most one fetch old when stored, whichever answer it is. `ModesAreRecent`
  follows; `GrpcSessionsGoBackToAttestation` needs the same of challenges
  (`LoginInv`), since a session minted by a step-up is as sound as the
  challenge it answers. `NoModeIsInvented`, a step property: an answer was
  in force after it was asked for, and the copy was an answer once.
- **ChainProofs.** The two chains. `HttpInv` says what has been written and who
  is known at each stage, and that what is cached of a private route was
  answered to a verified token; without that last part a HIT, which is answered
  before authentication, could be anybody's. From it: `ResponsesAreWhole`,
  `PrivateRoutesHaveAUser`, `OkIsForTheVerified`.
  `GrpcInv`: from authentication on, a call that is not
  public has the user of its first, verified token, and what was told is made
  of the two; a call without an end has no outcome. Neither half alone says
  whom a gate refuses. `ServicesKnowWhoCalls`, `TestersPass`, `SuccessIsReal`.
- **RequestProofs.** The proxies. `FlagsAreKept`: `PreferencesInv` says that a
  record about to be written back holds the flags as they are unless the call is
  `outdated`; a step that undoes a flag is therefore the write of an outdated
  call. `SearchInv`: the pages shown lie a page size apart (`PagesLieApart`),
  whoever was shown on one was saved, a member, or in its part of the directory
  (`ShownForAReason`), and, with the directory up, everybody in the part covered
  so far has been shown (`NobodyIsPassedOver`); `EverybodyFound` is what that
  says of the last page, and `RepeatsAreFirst` counts: two pages of the
  directory that show one person would have to overlap, and the three parts of
  a page are disjoint, so that only rows of one part repeat. `UploadsSound`: that
  keys differ is `KeysAreFresh`, the rest is a lemma for each keyspace about its
  lists. `RequestsInvariant` puts the five parts together.
- **ProcessProofs.** `LifecycleInv` joins to the types what each phase says
  of servers, Redis and the clocks (`PhasesAreOrdered`) and what the servers say
  of calls (`CallsHaveServers`): that a call in the gRPC server means the server
  is there, that a call alive means the process is. Without it a cut could not
  be dated, since its time is what the phase has waited. Handlers without a
  connection exist only once a forced stop has come and before `main` is gone
  (`OrphansAreForced`). `ShutdownIsLate` and `RedisIsThere` follow. `ProcessInvariant` puts shutdown, consumer and pool
  together.
- **ConsumerAndPoolProofs.** `InvalidatorInv` bounds the events *read* and
  missed, not those committed and missed: a commit comes later than the crash
  it makes costly, so only the former grows in step with the crashes, one at a
  time. A commit is never ahead of what was read, nor behind where the
  group first began, so `LossIsBounded` follows by monotonicity of cardinality;
  what a start passes over is left out of both sides, and is not bounded. `NothingLeaks`: `PoolInv`; the
  second look under the write lock is what keeps an address from being dialled
  twice.

Every component has its type invariant as a theorem, by itself (`TypeCorrect`,
`GrpcTypes`, `LifecycleTypes`, `PreferencesTypes`) or as a part of its inductive
invariant.

Only model-checked are the five liveness properties (`EveryCallIsDecided`,
`LimitedIsServedAgain`, `SignalEndsIt`, `NoEventBlocks`, `CallsReturn`): they
follow from fairness, which is about `ENABLED`, and that is out of the prover's
reach. The runs that end in a violation refute their properties, so there is
nothing to prove there.

## Disagreements

Each of these runs ends in the shortest behaviour that breaks what the quoted
text says.

| Run | Text | Behaviour |
|---|---|---|
| `cache_refill` | `cache.go:303-304`, "their next read reflects the change immediately" | a GET in flight during the mutation stores the old body after the scan |
| `revocation_grpc` | `impersonation.go:20-30`, read-only on both transports | the gRPC chain of `main.go` does not install the guard |
| `ratelimit_lockout` | `ratelimit.go:36`, "100 requests per minute per user" | a lost EXPIRE limits the user for ever |
| `preferences_clobbered` | `user_proxy.go:215-217`, "so we don't clobber the granular per-type flags" | a failed read is an empty record |
| `grpc_stepup` | `proto/auth.proto:492`, "Public: issue a fresh step-up code for an in-flight challenge" | `ResendLoginOtp` is not on the list of public methods, so who has no session yet is refused |

Eight more are stated in a module, next to the property that does hold, and have
no run of their own: TLC finds each violated when it is named in
the configuration of its component's passing run (`cache_one_client.cfg` for the
cache).

- `HitAnswersItsOwnPath` (`ResponseCache`): `cache.go:102`, "same path+query".
  `/a/b` and `/a:b`, or a query and a last word that reads like it, have one key
  (`cache.go:408-411`), and a HIT of one may be the body of the other.
- `ExitIsWithinTheTTL` (`RevocationList`): `impersonation.go:39-41`, the window
  between Exit and an inert token "is the cache TTL". A HIT in front of the
  guard is served after it, as `cache.go:64-68` says, and without a HIT it is
  the TTL and a fetch, because the list is dated when it is stored;
  `WindowIsBounded` is what holds.
- `HttpSessionsAreAttested` (`AppCheck`): `main.go:1571-1572`, the App Check
  header is forwarded "so the App Check interceptor can verify it". Logins over
  HTTP go to auth-service (`main.go:307, 1582`), and the interceptor is on the
  gateway's own gRPC server.
- `NothingIsPassedOver` (`BalanceInvalidator`): the same mechanism as
  `BalancesAreCleared` below. Until its group has committed once, a gateway that
  starts again passes over what was published while it was down, and what a
  crashed one had read (`balance_consumer.go:55`).
- `BrowsersCanRead` (`HttpChain`): `main.go:435`, "CORS enabled in PERMISSIVE
  mode - all origins allowed". The cache answers before CORS adds its headers:
  a browser of another origin cannot read a HIT.
- `StoppedGracefully` (`Lifecycle`): `main.go:932`, "Core Gateway stopped
  gracefully". `main` waits for the gRPC server only; an HTTP call still being
  served is cut off with time to spare (`main.go:900-906`).
- `BalancesAreCleared` (`BalanceInvalidator`): `balance_consumer.go:166-169`,
  "the ONE mechanism that cleared a cached balance after a credit nobody asked
  for over HTTP". Its patterns name paths the cache skips; the family accounts,
  which are cached and show balances, none of them names.
- `NobodyOnTwoPages` (`UnifiedSearch`): `unified_search_proxy.go:323-324`,
  "fetching it per-page would duplicate members across load-more pages". Since
  the later pages do not know the members, the directory shows them again.

Others follow from the models without a definition of their own:

- `cache.go:303-304` again: `InvalidateCacheMiddleware` asks `principalScope`
  whose entries to clear, which returns no scope for a request with
  `X-Transaction-Pin` (`cache.go:134`): such a mutation clears nothing.
- `cache.go:16`, "any mutation by a principal drops that principal's cached
  reads": `InvalidatedBy` matches the token, so reads under another token of
  the same person stay. `StalenessIsBounded` is what such a client has.
- `cache_test.go:127`, "an entry must not outlive the token": `ComputeTTL` and
  `RedisSet` are two steps, and the life is counted from the second;
  `HitWithinCredential` is the bound that holds.
- `cache.go:13-15`, the key has "every request header these gateways FORWARD":
  `X-Service-Name` is forwarded and not in the key, and values that sanitise
  alike share one.
- `main.go:918-930`: Redis is closed right after `grpcServer.Stop()`, which does
  not wait for handlers; those still running find it closed, and are not rate
  limited. `RedisOutlivesGrpc` is what holds.
- `unified_search_proxy.go:296`, the directory is "deduped vs local+self", but the
  saved rows are not deduped among themselves (258-276): who is saved for two
  accounts is shown twice on the first page (`OnlySavedRowsRepeat`).
- `ratelimit.go:36` again: across the border of two windows a minute has up to
  twice as many (`AtMostTwiceTheLimit`).
- `appcheck.go:98`, "on non-public methods": in mode `enforce` public calls
  without a token are rejected as well (`EnforcedOn`).
- `appcheck.go:29-31`, "a JWT is only ever minted for an attested device": a
  step-up begun before enforcement ends after it, however late; what holds is
  `GrpcSessionsAreAttested`, about the login it began with.
- `user_proxy.go:58-59`, "so the app reflects persisted state": a failed read
  shows every switch off, and the next toggle saves that.
- `auth.go:264-304` lists the public HTTP paths; resending a step-up code is
  missing there too, and `handleResolvePhoneToUser`, a route for services that
  authenticates by a secret of its own, is behind the JWT middleware as well.
- `middleware.go:76-95`: the 408 of the timeout cannot be read by anybody,
  since the server's `WriteTimeout` is as long and began earlier; what a client
  sees is a closed connection. `OneDocument` depends on that.
- `main.go:498-550`: `BindJSON` has written a 400 and an error by the time the
  admin handlers ask whether it failed: the error handler appends a document.
- `k8s/deployment.yaml:46-49` takes the pod out of service by `/ready`, but only
  the gRPC health status is withdrawn at a signal; `/ready` answers 200 through
  the pause, so HTTP traffic still comes in when it ends. The liveness probe is
  `/health`, which is only as healthy as Redis, auth-service and
  accounts-service, and dials them without TLS even with `ENABLE_MTLS`.
- `storage_proxy.go:516-527`: a document named `.pdf` is a PDF whatever type it
  declares; audio and PDFs are reported with the media kind of images; and
  `pointsAtOurStorage` takes any port of a loopback address for its own.

## What is not modelled

Inside the modules: the contents of bodies, the size limit and content type of
cached answers (`ReplyUncached` may happen to any answer), which substrings of
a path make it skipped, the verification of signatures (a token is valid, or a
call attested, or not), a nil verifier of App Check (as mode `off`), the
contents of `NotificationPreferences` and of chat messages, and which fields a
proxy renames. In a search, saved rows without a user id, which the code compares
with nothing. Which headers of an HTTP call the mux hands on (`X-User-Id` among
them) is not in `HttpChain`: `ServicesKnowTheCaller` is about who has been
verified, and `ServicesAreToldTheCaller` about the gRPC chain. Panics are actions of the two chains
(`Panic`, `PanicRecovered`) and nowhere else. `Lifecycle` does not
have a gRPC server whose `Serve` begins only after its `GracefulStop`, which
would take a signal within the first moments of the process.

Whole components: see `PROJECT.json`, which lists each with its reason. The
degradation manager and the feature gates' client are libraries outside the
repository, modelled as far as `main.go` uses them. `middleware/security.go`,
`utils`, `tasks`, `configs` and `gateway/proxy` are imported by nothing that
`main.go` installs; of these only the pool, which has state and a lock, is
modelled. A data race on a Go map has no outcomes to enumerate. The filter of
client logs, TLS loading and configuration are conversions of strings.

## Plan

Done: the modules above, and every safety property of the runs as a theorem.
What is left:

1. `ClientPool` against an atomic pool, as a refinement; `OpenOnesAreThePools`
   is its invariant already.
2. The consumer against a promise of its own, "at most one event lost per
   crash", as `RevocationList` is against `RevocationPromise`.
3. The theorem that `ReadYourWrites` fails only for an entry stored by a call
   that was in flight, which would join `OwnWritesAreRead` and `cache_refill`.
