--------------------------- MODULE ResponseCache ---------------------------
(***************************************************************************)
(* The per-principal HTTP response cache of the Core Gateway:              *)
(* CacheMiddleware and InvalidateCacheMiddleware                           *)
(* (src/grpcApi/middleware/cache.go), the gin chain main.go puts them in   *)
(* (TimeoutMiddleware before them, JWTAuthMiddleware after them), the      *)
(* Redis they share and the services behind the gateway.                   *)
(*                                                                         *)
(* A handler is one goroutine serving one HTTP call.  Between any two of   *)
(* its steps time may pass and the other handlers, of this process or of   *)
(* another replica on the same Redis, may take theirs.                     *)
(*                                                                         *)
(* What a service answers is abstracted to a "body": the call it was built *)
(* for, the version of the data it shows and the instant it was read.  A   *)
(* header value is a model value; Clean says what sanitizeScopeValue       *)
(* leaves of it.                                                           *)
(***************************************************************************)
EXTENDS Integers, Sequences

CONSTANTS
  Handlers,       \* goroutines serving HTTP calls
  Tokens,         \* Authorization header values
  NoToken,        \* no Authorization header
  Principals,     \* the people the tokens were issued to
  Owner,          \* [Tokens -> Principals]
  Expiry,         \* [Tokens -> Nat \cup {NoExpiry}], the exp claim
  NoExpiry,       \* a bearer that is not a JWT with an exp claim
  Headers,        \* request headers the gateway forwards
  ScopingHeaders, \* those principalScope puts in the key
  Values,         \* raw header values, the absent one included
  Clean,          \* [Values -> Values], sanitizeScopeValue
  Words,          \* what stands between the separators of a path
  Queries,        \* encoded query strings, which hold neither "/" nor ":"
  NoQuery,        \* no query string
  Paths,          \* the paths, with their queries, that calls may ask for
  SkippedPaths,   \* those shouldSkipCache refuses
  PublicPaths,    \* those isPublicHTTPPath lets through without a token
  Calls,          \* the HTTP calls clients may make
  DefaultTTL,     \* CACHE_TTL
  Deadline,       \* TimeoutMiddleware's deadline for one call
  RedisLag,       \* longest time from computing a TTL to Redis applying it
  RedisMayFail,   \* whether a Redis command may return an error
  Overlapping,    \* whether one token may have several calls in flight
  NoBody,         \* no response body
  MaxTime,        \* bound of the clock
  MaxVersion      \* bound of the number of committed mutations

\* Words are separated by "/" or, inside what the router takes for one
\* segment, by ":".
Separators == {"slash", "colon"}
Urls == [path  : Seq([sep : Separators, word : Words]),
         query : Queries \cup {NoQuery}]

Authorizations == Tokens \cup {NoToken}
Views          == [Headers -> Values]

\* fresh: Cache-Control: no-cache.  nonce: an X-Transaction-Pin header.
Call == [method : {"GET", "MUTATION"}, token : Authorizations, view : Views,
         path : Paths, nonce : BOOLEAN, fresh : BOOLEAN]

ASSUME ConstantsAssumption ==
  /\ NoToken \notin Tokens
  /\ Owner \in [Tokens -> Principals]
  /\ NoExpiry \notin Int
  /\ Expiry \in [Tokens -> Nat \cup {NoExpiry}]
  /\ ScopingHeaders \subseteq Headers
  /\ Clean \in [Values -> Values]
  /\ NoQuery \notin Queries
  /\ Paths \subseteq Urls
  /\ SkippedPaths \subseteq Paths
  /\ PublicPaths \subseteq Paths
  /\ Calls \subseteq Call /\ Calls # {}
  /\ DefaultTTL \in Nat \ {0}
  /\ Deadline \in Nat
  /\ RedisLag \in Nat \ {0}
  /\ RedisMayFail \in BOOLEAN
  /\ Overlapping \in BOOLEAN
  /\ MaxTime \in Nat
  /\ MaxVersion \in Nat

Scopes == [ScopingHeaders -> Values]
Keys   == [token : Tokens, scope : Scopes, path : Seq(Words \cup Queries)]
Bodies == [token : Authorizations, view : Views, path : Paths,
           version : Nat, readAt : Nat]
Entries == [key : Keys, body : Bodies, expires : Int, storedAt : Nat]

ASSUME NoBodyAssumption == NoBody \notin Bodies

VARIABLES
  clock,    \* the gateways' and Redis' wall clock
  version,  \* number of mutations the services have committed
  acked,    \* [Principals -> version of the last mutation acknowledged]
  cache,    \* the set of live Redis entries
  pc,       \* where each handler is
  call,     \* the HTTP call each handler serves
  start,    \* when it arrived
  floor,    \* acked of the caller when it arrived
  body,     \* the response body captured, served or NoBody
  at,       \* when the handler computed a TTL, hit the cache or began a scan
  ttl,      \* the TTL computed for the body
  targets   \* keys that the running SCAN still has to return

storeVars   == <<clock, version, acked, cache>>
handlerVars == <<pc, call, start, floor, body, at, ttl, targets>>
vars        == <<storeVars, handlerVars>>

-----------------------------------------------------------------------------
(* Keys, credentials and lifetimes.                                        *)

\* The exp claim, if the token has one, has not passed.
Live(t, now) == Expiry[t] # NoExpiry => now < Expiry[t]

\* principalScope: the scoping headers as they are after sanitising.
ScopeOf(view) == [h \in ScopingHeaders |-> Clean[view[h]]]

\* Mutant: the expiry of the token is not looked at.
HasScopeExpired(c, now) == c.token # NoToken /\ ~c.nonce

\* principalScope returns a scope: a live token and no single-use nonce.
HasScope(c, now) == c.token # NoToken /\ ~c.nonce /\ Live(c.token, now)

WordsOf(path) == [i \in DOMAIN path |-> path[i].word]

\* In a key every separator is ":", the one before the query too, so that two
\* paths may have one key.
KeyPath(url) ==
  IF url.query = NoQuery
  THEN WordsOf(url.path)
  ELSE Append(WordsOf(url.path), url.query)

\* Mutant: the scope is the same for everyone.
KeyOfAnyScope(c) ==
  [token |-> c.token, path |-> KeyPath(c.path),
   scope |-> [h \in ScopingHeaders |-> CHOOSE v \in Values : TRUE]]

\* generateCacheKey.
KeyOf(c) ==
  [token |-> c.token, scope |-> ScopeOf(c.view), path |-> KeyPath(c.path)]

\* Words separated by "/" alone, none of which reads like a query.
Plain(url) == \A i \in DOMAIN url.path :
  url.path[i].sep = "slash" /\ url.path[i].word \notin Queries

\* CacheMiddleware's two early returns not taken.
UsesCache(c, now) ==
  /\ c.method = "GET"
  /\ c.path \notin SkippedPaths
  /\ HasScope(c, now)

\* cacheTTLFor: the default TTL or what is left of the token, if less.
TTLFor(t, now) ==
  IF Expiry[t] # NoExpiry /\ Expiry[t] - now < DefaultTTL
  THEN Expiry[t] - now
  ELSE DefaultTTL

\* Mutants: the pattern holds the full scope, or only the prefix.
InvalidatedByScope(c, key) == key.token = c.token /\ key.scope = ScopeOf(c.view)
InvalidatedByPrefix(c, key) == TRUE

\* The pattern InvalidateCacheMiddleware scans: prefix:tokenHash*.
InvalidatedBy(c, key) == key.token = c.token

\* The JWT gate: public paths pass, others need a verifiable, live token.
Authorised(c, now) ==
  \/ c.path \in PublicPaths
  \/ c.token # NoToken /\ Live(c.token, now)

KeysIn(entries) == {e.key : e \in entries}

\* A SCAN must return the keys present from its beginning to its end; one
\* that vanishes meanwhile is no longer owed.
StillOwed(entries) == [h \in Handlers |-> targets[h] \cap KeysIn(entries)]

Free(h) == pc[h] \in {"idle", "hit"}

\* Between the first command of a scan and its last.
Scanning(h) == pc[h] \in {"scanning", "faltering"}

AnyCall == CHOOSE c \in Calls : TRUE

\* The handler returns and its goroutine's state is gone.
Return(h) ==
  /\ pc' = [pc EXCEPT ![h] = "idle"]
  /\ call' = [call EXCEPT ![h] = AnyCall]
  /\ start' = [start EXCEPT ![h] = 0]
  /\ floor' = [floor EXCEPT ![h] = 0]
  /\ body' = [body EXCEPT ![h] = NoBody]
  /\ at' = [at EXCEPT ![h] = 0]
  /\ ttl' = [ttl EXCEPT ![h] = 0]

\* The handler goes on to the step `label' names.
Goto(h, label) ==
  /\ pc' = [pc EXCEPT ![h] = label]
  /\ UNCHANGED <<call, start, floor>>

-----------------------------------------------------------------------------
Init ==
  /\ clock = 0
  /\ version = 0
  /\ acked = [p \in Principals |-> 0]
  /\ cache = {}
  /\ pc = [h \in Handlers |-> "idle"]
  /\ call = [h \in Handlers |-> AnyCall]
  /\ start = [h \in Handlers |-> 0]
  /\ floor = [h \in Handlers |-> 0]
  /\ body = [h \in Handlers |-> NoBody]
  /\ at = [h \in Handlers |-> 0]
  /\ ttl = [h \in Handlers |-> 0]
  /\ targets = [h \in Handlers |-> {}]

\* A second passes.  Redis drops what has expired.  The SET of a computed
\* TTL is on the wire for at most RedisLag.
Tick ==
  /\ clock < MaxTime
  /\ \A h \in Handlers : pc[h] = "storing" => clock < at[h] + RedisLag
  /\ clock' = clock + 1
  /\ cache' = {e \in cache : clock' < e.expires}
  /\ targets' = StillOwed(cache')
  /\ UNCHANGED <<version, acked, pc, call, start, floor, body, at, ttl>>

\* A call arrives.  A client that does not overlap its calls waits for the
\* previous answer.  CacheMiddleware decides whether the cache is used.
Arrive(h, c) ==
  /\ Free(h)
  /\ Overlapping \/ \A g \in Handlers \ {h} : call[g].token = c.token => Free(g)
  /\ pc' = [pc EXCEPT ![h] = IF UsesCache(c, clock) THEN "lookup" ELSE "passed"]
  /\ call' = [call EXCEPT ![h] = c]
  /\ start' = [start EXCEPT ![h] = clock]
  /\ floor' = [floor EXCEPT
                 ![h] = IF c.token = NoToken THEN 0 ELSE acked[Owner[c.token]]]
  /\ body' = [body EXCEPT ![h] = NoBody]
  /\ at' = [at EXCEPT ![h] = 0]
  /\ UNCHANGED <<storeVars, ttl, targets>>

-----------------------------------------------------------------------------
(* CacheMiddleware around a GET.                                           *)

\* Mutant: a HIT renews the life of its entry.
RedisGetHitSliding(h) ==
  /\ pc[h] = "lookup"
  /\ ~call[h].fresh
  /\ \E e \in cache :
       /\ e.key = KeyOf(call[h])
       /\ body' = [body EXCEPT ![h] = e.body]
       /\ cache' = (cache \ {e}) \cup {[e EXCEPT !.expires = clock + DefaultTTL]}
  /\ at' = [at EXCEPT ![h] = clock]
  /\ Goto(h, "hit")
  /\ UNCHANGED <<clock, version, acked, ttl, targets>>

\* The HIT: a live entry of the key, and the client did not ask for no-cache.
RedisGetHit(h) ==
  /\ pc[h] = "lookup"
  /\ ~call[h].fresh
  /\ \E e \in cache :
       /\ e.key = KeyOf(call[h])
       /\ body' = [body EXCEPT ![h] = e.body]
  /\ at' = [at EXCEPT ![h] = clock]
  /\ Goto(h, "hit")
  /\ UNCHANGED <<storeVars, ttl, targets>>

\* The MISS: no entry, a deliberate refresh or an error of Redis.
RedisGetMiss(h) ==
  /\ pc[h] = "lookup"
  /\ call[h].fresh \/ KeyOf(call[h]) \notin KeysIn(cache) \/ RedisMayFail
  /\ Goto(h, "passed")
  /\ UNCHANGED <<storeVars, body, at, ttl, targets>>

\* JWTAuthMiddleware lets the call through ...
Authorise(h) ==
  /\ pc[h] = "passed"
  /\ Authorised(call[h], clock)
  /\ Goto(h, "forwarded")
  /\ UNCHANGED <<storeVars, body, at, ttl, targets>>

\* ... or answers 401, which is neither stored nor followed by a scan.
Unauthorised(h) ==
  /\ pc[h] = "passed"
  /\ ~Authorised(call[h], clock)
  /\ Return(h)
  /\ UNCHANGED <<storeVars, targets>>

\* The service behind the gateway reads the data and builds the body.
ServiceReads(h) ==
  /\ pc[h] = "forwarded"
  /\ call[h].method = "GET"
  /\ body' = [body EXCEPT ![h] =
                [token |-> call[h].token, view |-> call[h].view,
                 path |-> call[h].path, version |-> version, readAt |-> clock]]
  /\ Goto(h, "answered")
  /\ UNCHANGED <<storeVars, at, ttl, targets>>

\* c.Next() returned a cacheable 200 within the deadline, and the call used
\* the cache: the TTL is computed from the token's life as it is now.
ComputeTTL(h) ==
  /\ pc[h] = "answered"
  /\ call[h].method = "GET"
  /\ clock <= start[h] + Deadline
  /\ UsesCache(call[h], start[h])
  /\ TTLFor(call[h].token, clock) > 0
  /\ ttl' = [ttl EXCEPT ![h] = TTLFor(call[h].token, clock)]
  /\ at' = [at EXCEPT ![h] = clock]
  /\ Goto(h, "storing")
  /\ UNCHANGED <<storeVars, body, targets>>

\* Nothing is stored: the cache is not used, the answer is not cacheable or
\* an error (past the deadline it always is), or the token has expired.
ReplyUncached(h) ==
  /\ pc[h] = "answered"
  /\ call[h].method = "GET"
  /\ Return(h)
  /\ UNCHANGED <<storeVars, targets>>

\* Redis applies SET key body PX ttl: the life begins now.
RedisSet(h) ==
  /\ pc[h] = "storing"
  /\ cache' = {e \in cache : e.key # KeyOf(call[h])} \cup
              {[key |-> KeyOf(call[h]), body |-> body[h],
                expires |-> clock + ttl[h], storedAt |-> clock]}
  /\ Return(h)
  /\ UNCHANGED <<clock, version, acked, targets>>

\* The error of SET is dropped.
RedisSetFails(h) ==
  /\ pc[h] = "storing"
  /\ RedisMayFail
  /\ Return(h)
  /\ UNCHANGED <<storeVars, targets>>

-----------------------------------------------------------------------------
(* InvalidateCacheMiddleware around a mutation.                            *)

\* The service commits the mutation.
ServiceCommits(h) ==
  /\ pc[h] = "forwarded"
  /\ call[h].method = "MUTATION"
  /\ version < MaxVersion
  /\ version' = version + 1
  /\ body' = [body EXCEPT ![h] =
                [token |-> call[h].token, view |-> call[h].view,
                 path |-> call[h].path, version |-> version', readAt |-> clock]]
  /\ Goto(h, "answered")
  /\ UNCHANGED <<clock, acked, cache, at, ttl, targets>>

\* The service refuses it, or the answer to a committed one is an error for
\* the gateway (deadline, lost connection): status >= 300, no scan.
MutationFails(h) ==
  /\ pc[h] \in {"forwarded", "answered"}
  /\ call[h].method = "MUTATION"
  /\ Return(h)
  /\ UNCHANGED <<storeVars, targets>>

\* The client learns that its mutation succeeded.
Acknowledge(h) ==
  acked' = IF call[h].token = NoToken
           THEN acked
           ELSE [acked EXCEPT ![Owner[call[h].token]] =
                   IF @ < body[h].version THEN body[h].version ELSE @]

\* Mutant: only the first key SCAN returns is dropped.
BeginScanFirstKey(h) ==
  /\ pc[h] = "answered"
  /\ call[h].method = "MUTATION"
  /\ clock <= start[h] + Deadline
  /\ HasScope(call[h], clock)
  /\ LET owed == {k \in KeysIn(cache) : InvalidatedBy(call[h], k)}
     IN  targets' = [targets EXCEPT ![h] =
                       IF owed = {} THEN {} ELSE {CHOOSE k \in owed : TRUE}]
  /\ at' = [at EXCEPT ![h] = clock]
  /\ Goto(h, "scanning")
  /\ UNCHANGED <<storeVars, body, ttl>>

\* Answered in time, with a scope as principalScope sees the call now: SCAN
\* begins and owes every key of the token.
BeginScan(h) ==
  /\ pc[h] = "answered"
  /\ call[h].method = "MUTATION"
  /\ clock <= start[h] + Deadline
  /\ HasScope(call[h], clock)
  /\ targets' = [targets EXCEPT ![h] =
                   {k \in KeysIn(cache) : InvalidatedBy(call[h], k)}]
  /\ at' = [at EXCEPT ![h] = clock]
  /\ Goto(h, "scanning")
  /\ UNCHANGED <<storeVars, body, ttl>>

\* Answered in time, but principalScope is empty: nothing is dropped.
ReplyWithoutScan(h) ==
  /\ pc[h] = "answered"
  /\ call[h].method = "MUTATION"
  /\ clock <= start[h] + Deadline
  /\ ~HasScope(call[h], clock)
  /\ Acknowledge(h)
  /\ Return(h)
  /\ UNCHANGED <<clock, version, cache, targets>>

\* DEL of one key the iterator returned: a key it owes or a later one.
DeleteKey(h) ==
  /\ Scanning(h)
  /\ \E e \in cache :
       /\ InvalidatedBy(call[h], e.key)
       /\ cache' = {d \in cache : d.key # e.key}
  /\ targets' = StillOwed(cache')
  /\ UNCHANGED <<clock, version, acked, pc, call, start, floor, body, at, ttl>>

\* The error of a DEL is dropped and the iterator goes on, or SCAN itself
\* fails and it stops: either way this scan no longer clears all it should.
DeleteFails(h) ==
  /\ Scanning(h)
  /\ RedisMayFail
  /\ \E k \in targets[h] : targets' = [targets EXCEPT ![h] = @ \ {k}]
  /\ Goto(h, "faltering")
  /\ UNCHANGED <<storeVars, body, at, ttl>>
ScanFails(h) ==
  /\ Scanning(h)
  /\ RedisMayFail
  /\ targets' = [targets EXCEPT ![h] = {}]
  /\ Goto(h, "faltering")
  /\ UNCHANGED <<storeVars, body, at, ttl>>

\* The iterator is exhausted.
EndScan(h) ==
  /\ Scanning(h)
  /\ targets[h] = {}
  /\ Acknowledge(h)
  /\ Return(h)
  /\ UNCHANGED <<clock, version, cache, targets>>

-----------------------------------------------------------------------------
Step(h) ==
  \/ \E c \in Calls : Arrive(h, c)
  \/ RedisGetHit(h)
  \/ RedisGetMiss(h)
  \/ Authorise(h)
  \/ Unauthorised(h)
  \/ ServiceReads(h)
  \/ ComputeTTL(h)
  \/ ReplyUncached(h)
  \/ RedisSet(h)
  \/ RedisSetFails(h)
  \/ ServiceCommits(h)
  \/ MutationFails(h)
  \/ BeginScan(h)
  \/ ReplyWithoutScan(h)
  \/ DeleteKey(h)
  \/ DeleteFails(h)
  \/ ScanFails(h)
  \/ EndScan(h)

Next == Tick \/ \E h \in Handlers : Step(h)

Spec == Init /\ [][Next]_vars

-----------------------------------------------------------------------------
Labels == {"idle", "lookup", "hit", "passed", "forwarded", "answered",
           "storing", "scanning", "faltering"}

\* Every variable has its type.
TypeOK ==
  /\ clock \in Nat
  /\ version \in Nat
  /\ acked \in [Principals -> Nat]
  /\ cache \in SUBSET Entries
  /\ pc \in [Handlers -> Labels]
  /\ call \in [Handlers -> Calls]
  /\ start \in [Handlers -> Nat]
  /\ floor \in [Handlers -> Nat]
  /\ body \in [Handlers -> Bodies \cup {NoBody}]
  /\ at \in [Handlers -> Nat]
  /\ ttl \in [Handlers -> Int]
  /\ targets \in [Handlers -> SUBSET Keys]

\* Nobody is served another call's body: a HIT answers the same credential,
\* the same scoping headers as principalScope renders them and the same words
\* of a path, which is the same path if both are plain (cache.go:101-104).
HitAnswersItsOwnCall ==
  \A h \in Handlers : pc[h] = "hit" =>
    /\ body[h].token = call[h].token
    /\ ScopeOf(body[h].view) = ScopeOf(call[h].view)
    /\ KeyPath(body[h].path) = KeyPath(call[h].path)
    /\ Plain(body[h].path) /\ Plain(call[h].path) =>
         body[h].path = call[h].path
    /\ {body[h].path, call[h].path} \cap SkippedPaths = {}

StalenessBound == Deadline + RedisLag + DefaultTTL

\* "The TTL is what bounds the staleness of everything this cache cannot
\* invalidate" (main.go:101-104): a HIT shows data read from the service at
\* most a TTL, one call's deadline and one Redis command ago.
StalenessIsBounded ==
  \A h \in Handlers :
    pc[h] = "hit" => at[h] < body[h].readAt + StalenessBound

\* A HIT, which no middleware authenticates, was asked for with a credential
\* that had not expired, and answers at most a Redis command after it did.
HitWithinCredential ==
  \A h \in Handlers : pc[h] = "hit" /\ Expiry[call[h].token] # NoExpiry =>
    /\ start[h] < Expiry[call[h].token]
    /\ at[h] < Expiry[call[h].token] + RedisLag

\* When a scan none of whose commands failed ends, whatever the account,
\* currency or locale of its mutation, no entry of its token is left that is
\* older than the scan: what fails for other scans does not matter.
InvalidationReachesEveryScope ==
  [][\A h \in Handlers : pc[h] = "scanning" /\ pc'[h] = "idle" =>
       \A e \in cache' : e.key.token = call[h].token => e.storedAt >= at[h]]_vars

\* An entry that disappears before its time was dropped by a scan of a
\* mutation with the entry's own token: no caller clears another's reads.
OnlyItsTokenInvalidates ==
  [][\A e \in cache : KeysIn({e}) \cap KeysIn(cache') = {} =>
       \/ e.expires <= clock'
       \/ \E h \in Handlers : Scanning(h) /\ call[h].token = e.key.token]_vars

-----------------------------------------------------------------------------
(* The inductive invariant behind the properties above, proved in          *)
(* ResponseCacheProofs.                                                    *)

\* The body was built for this call, after it arrived.
BuiltFor(h) ==
  /\ body[h] \in Bodies
  /\ body[h].token = call[h].token
  /\ body[h].view = call[h].view
  /\ body[h].path = call[h].path
  /\ start[h] <= body[h].readAt

\* An entry stands under the key of the call its body answers and dies with
\* the TTL that call computed, give or take a Redis command.
EntryInv(e) ==
  /\ e.key.token = e.body.token
  /\ e.key.scope = ScopeOf(e.body.view)
  /\ e.key.path = KeyPath(e.body.path)
  /\ e.body.path \notin SkippedPaths
  /\ e.storedAt <= clock
  /\ clock < e.expires
  /\ e.expires <= e.body.readAt + StalenessBound
  /\ Expiry[e.key.token] # NoExpiry =>
       e.expires <= Expiry[e.key.token] + RedisLag

\* A handler that looks its call up found a scope when the call arrived.
LookupInv(h) == pc[h] = "lookup" => UsesCache(call[h], start[h])

AnswerInv(h) ==
  pc[h] \in {"answered", "storing", "scanning", "faltering"} => BuiltFor(h)

\* A TTL being stored was computed in time, for a call that uses the cache.
StoreInv(h) == pc[h] = "storing" =>
  /\ UsesCache(call[h], start[h])
  /\ at[h] <= start[h] + Deadline
  /\ clock <= at[h] + RedisLag
  /\ ttl[h] \in 1..DefaultTTL
  /\ Expiry[call[h].token] # NoExpiry =>
       at[h] + ttl[h] <= Expiry[call[h].token]

\* What a HIT served was an entry, and is still what it was.
HitInv(h) == pc[h] = "hit" =>
  /\ UsesCache(call[h], start[h])
  /\ body[h] \in Bodies
  /\ body[h].token = call[h].token
  /\ ScopeOf(body[h].view) = ScopeOf(call[h].view)
  /\ KeyPath(body[h].path) = KeyPath(call[h].path)
  /\ body[h].path \notin SkippedPaths
  /\ at[h] < body[h].readAt + StalenessBound
  /\ Expiry[call[h].token] # NoExpiry =>
       at[h] < Expiry[call[h].token] + RedisLag

\* A scan that has not failed still owes every entry of its token that is
\* older than itself.
ScanInv(h) == pc[h] = "scanning" =>
  /\ call[h].token \in Tokens
  /\ at[h] <= clock
  /\ \A e \in cache : InvalidatedBy(call[h], e.key) /\ e.storedAt < at[h]
                       => e.key \in targets[h]

HandlerInv(h) ==
  /\ start[h] <= clock
  /\ LookupInv(h) /\ AnswerInv(h) /\ StoreInv(h) /\ HitInv(h) /\ ScanInv(h)

\* Every handler and every entry is sound: the inductive invariant of the
\* cache, from which every property of a HIT follows.
CacheInv ==
  /\ TypeOK
  /\ \A e \in cache : EntryInv(e)
  /\ \A h \in Handlers : HandlerInv(h)

-----------------------------------------------------------------------------
(* What the comments promise and some clients do not get.                  *)

\* "For the same principal on the same path+query" (cache.go:102) a body is kept,
\* and served to nobody else.  False for two paths that differ in a separator
\* alone, or for a query that stands in a path as a word.
HitAnswersItsOwnPath ==
  \A h \in Handlers : pc[h] = "hit" => body[h].path = call[h].path

\* "Their next read reflects the change immediately" (cache.go:303-304): a
\* read that arrives after one's mutation was acknowledged sees it, HIT or not.
ReadYourWrites ==
  \A h \in Handlers : pc[h] = "hit" => body[h].version >= floor[h]

=============================================================================
