------------------------ MODULE ResponseCacheProofs ------------------------
(***************************************************************************)
(* Proofs about ResponseCache, for every set of handlers, tokens, headers  *)
(* and calls and every TTL, deadline and Redis lag.                        *)
(*                                                                         *)
(* CacheInv is inductive.  Its type part is proved first; the rest has one *)
(* lemma for what is stored and one for what the handlers hold, each with  *)
(* a step per action that can disturb it.                                  *)
(***************************************************************************)
EXTENDS ResponseCache, TLAPS

\* The placeholder call is one of the calls.
LEMMA AnyCallIsACall == AnyCall \in Calls
BY ConstantsAssumption DEF AnyCall

\* What a key says of a path: its words, and its query as one word more.
LEMMA KeyPathWords ==
  ASSUME NEW url \in Urls
  PROVE  /\ KeyPath(url) \in Seq(Words \cup Queries)
         /\ Len(url.path) \in Nat
         /\ \A i \in 1..Len(url.path) :
              /\ url.path[i] \in [sep : Separators, word : Words]
              /\ KeyPath(url)[i] = url.path[i].word
         /\ url.query = NoQuery => Len(KeyPath(url)) = Len(url.path)
         /\ url.query # NoQuery =>
              /\ url.query \in Queries
              /\ Len(KeyPath(url)) = Len(url.path) + 1
              /\ KeyPath(url)[Len(url.path) + 1] = url.query
<1> DEFINE words == WordsOf(url.path)
           n == Len(url.path)
<1>1. /\ url.path \in Seq([sep : Separators, word : Words])
      /\ url.query \in Queries \cup {NoQuery}
  BY DEF Urls
<1>2. /\ n \in Nat /\ DOMAIN url.path = 1..n
      /\ \A i \in 1..n : url.path[i] \in [sep : Separators, word : Words]
  <2>1. ASSUME NEW S, NEW path \in Seq(S)
        PROVE  /\ Len(path) \in Nat /\ DOMAIN path = 1..Len(path)
               /\ \A i \in 1..Len(path) : path[i] \in S
    OBVIOUS
  <2> QED
    BY <1>1, <2>1, Zenon
<1>3. words \in [1..n -> Words] /\ \A i \in 1..n : words[i] = url.path[i].word
  <2>1. \A i \in 1..n : url.path[i].word \in Words
    BY <1>2
  <2> QED
    BY <1>2, <2>1, Zenon DEF WordsOf
<1> HIDE DEF words, n
<1>4. words \in Seq(Words) /\ Len(words) = n
  BY <1>2, <1>3
<1>5. KeyPath(url) = IF url.query = NoQuery THEN words
                     ELSE Append(words, url.query)
  BY DEF KeyPath, words
<1>6. CASE url.query = NoQuery
  BY <1>2, <1>3, <1>4, <1>5, <1>6 DEF n
<1>7. CASE url.query # NoQuery
  <2>1. url.query \in Queries /\ words \in Seq(Words \cup Queries)
    BY <1>1, <1>4, <1>7
  <2> QED
    BY <1>2, <1>3, <1>4, <1>5, <1>7, <2>1 DEF n
<1> QED
  BY <1>6, <1>7

\* A plain path is not the key of another path with a query.
LEMMA PlainWordsAreNoQuery ==
  ASSUME NEW u \in Urls, NEW v \in Urls, Plain(u), u.query = NoQuery,
         v.query # NoQuery, KeyPath(u) = KeyPath(v)
  PROVE  FALSE
<1>1. Len(u.path) = Len(v.path) + 1 /\ Len(v.path) \in Nat
      /\ u.path[Len(u.path)].word = v.query /\ v.query \in Queries
  BY KeyPathWords
<1>2. Len(u.path) \in DOMAIN u.path
  BY <1>1 DEF Urls
<1> QED
  BY <1>1, <1>2 DEF Plain

\* Plain paths with one key are one path.
LEMMA PlainPathsHaveTheirOwnKeys ==
  ASSUME NEW u \in Urls, NEW v \in Urls, Plain(u), Plain(v),
         KeyPath(u) = KeyPath(v)
  PROVE  u = v
<1>1. (u.query = NoQuery) <=> (v.query = NoQuery)
  BY PlainWordsAreNoQuery
<1>2. Len(u.path) = Len(v.path) /\ u.query = v.query
  BY <1>1, KeyPathWords
<1>3. ASSUME NEW i \in 1..Len(u.path) PROVE u.path[i] = v.path[i]
  <2>1. /\ u.path[i] \in [sep : Separators, word : Words]
        /\ v.path[i] \in [sep : Separators, word : Words]
        /\ u.path[i].word = v.path[i].word
    BY <1>2, <1>3, KeyPathWords
  <2>2. u.path[i].sep = "slash" /\ v.path[i].sep = "slash"
    BY <1>2, <1>3 DEF Plain, Urls
  <2> QED
    BY <2>1, <2>2
<1>4. u.path = v.path
  BY <1>2, <1>3 DEF Urls
<1> QED
  BY <1>2, <1>4 DEF Urls

\* The key of a call that has a scope is a key.
LEMMA KeyOfType ==
  ASSUME NEW c \in Calls, c.token # NoToken
  PROVE  KeyOf(c) \in Keys
<1>1. c.path \in Urls
  BY ConstantsAssumption DEF Call
<1>2. KeyPath(c.path) \in Seq(Words \cup Queries)
  BY <1>1, KeyPathWords
<1> QED
  BY <1>2, ConstantsAssumption
     DEF KeyOf, Keys, ScopeOf, Scopes, Call, Authorizations, Views

\* A handler that returns leaves well-typed state behind.
LEMMA ReturnType ==
  ASSUME TypeOK, NEW h \in Handlers, Return(h)
  PROVE  /\ pc' \in [Handlers -> Labels]
         /\ call' \in [Handlers -> Calls]
         /\ start' \in [Handlers -> Nat]
         /\ floor' \in [Handlers -> Nat]
         /\ body' \in [Handlers -> Bodies \cup {NoBody}]
         /\ at' \in [Handlers -> Nat]
         /\ ttl' \in [Handlers -> Int]
BY AnyCallIsACall DEF TypeOK, Return, Labels

\* Moving on keeps the types of what each handler holds.
LEMMA GotoType ==
  ASSUME TypeOK, NEW h \in Handlers, NEW label \in Labels, Goto(h, label)
  PROVE  /\ pc' \in [Handlers -> Labels]
         /\ call' \in [Handlers -> Calls]
         /\ start' \in [Handlers -> Nat]
         /\ floor' \in [Handlers -> Nat]
BY DEF TypeOK, Goto

\* The keys a scan is owed stay keys whatever disappears.
LEMMA StillOwedType ==
  ASSUME TypeOK, NEW entries
  PROVE  StillOwed(entries) \in [Handlers -> SUBSET Keys]
BY DEF TypeOK, StillOwed

\* A service's answer to a call is a body.
LEMMA BodyType ==
  ASSUME NEW c \in Calls, NEW v \in Nat, NEW t \in Nat
  PROVE  [token |-> c.token, view |-> c.view, path |-> c.path,
          version |-> v, readAt |-> t] \in Bodies
BY ConstantsAssumption DEF Bodies, Call

\* The TTL is an integer, never above the default, never past the token.
LEMMA TTLForBounds ==
  ASSUME NEW t \in Tokens, NEW now \in Nat
  PROVE  /\ TTLFor(t, now) \in Int
         /\ TTLFor(t, now) <= DefaultTTL
         /\ Expiry[t] # NoExpiry => now + TTLFor(t, now) <= Expiry[t]
<1>1. CASE Expiry[t] = NoExpiry
  BY <1>1, ConstantsAssumption DEF TTLFor
<1>2. CASE Expiry[t] # NoExpiry
  <2>1. Expiry[t] \in Nat
    BY <1>2, ConstantsAssumption
  <2> QED
    BY <1>2, <2>1, ConstantsAssumption DEF TTLFor
<1> QED
  BY <1>1, <1>2

-----------------------------------------------------------------------------
\* An empty cache with idle handlers is sound.
THEOREM InitCacheInv == Init => CacheInv
<1> SUFFICES ASSUME Init PROVE CacheInv
  OBVIOUS
<1>1. TypeOK
  BY AnyCallIsACall DEF Init, TypeOK, Labels
<1>2. \A e \in cache : EntryInv(e)
  BY DEF Init
<1>3. ASSUME NEW h \in Handlers
      PROVE  HandlerInv(h)
  BY DEF Init, HandlerInv, LookupInv, AnswerInv, StoreInv, HitInv, ScanInv
<1> QED
  BY <1>1, <1>2, <1>3 DEF CacheInv

-----------------------------------------------------------------------------
(* Type correctness, action by action.                                     *)

\* The steps of a read keep the types,
LEMMA ReadStepsType ==
  ASSUME CacheInv, NEW h \in Handlers,
         \/ \E c \in Calls : Arrive(h, c)
         \/ RedisGetHit(h)
         \/ RedisGetMiss(h)
         \/ Authorise(h)
         \/ Unauthorised(h)
         \/ ServiceReads(h)
         \/ ComputeTTL(h)
         \/ ReplyUncached(h)
  PROVE  TypeOK'
<1> USE DEF CacheInv, storeVars
<1>1. ASSUME NEW c \in Calls, Arrive(h, c) PROVE TypeOK'
  <2>1. (IF c.token = NoToken THEN 0 ELSE acked[Owner[c.token]]) \in Nat
    BY ConstantsAssumption DEF TypeOK, Call, Authorizations
  <2> QED
    BY <1>1, <2>1 DEF Arrive, TypeOK, Labels
<1>2. CASE RedisGetHit(h)
  <2>1. PICK e \in cache : body' = [body EXCEPT ![h] = e.body]
    BY <1>2 DEF RedisGetHit
  <2>2. e.body \in Bodies
    BY DEF TypeOK, Entries
  <2> QED
    BY <1>2, <2>1, <2>2, GotoType DEF RedisGetHit, TypeOK, Labels
<1>3. CASE RedisGetMiss(h)
  BY <1>3, GotoType DEF RedisGetMiss, TypeOK, Labels
<1>4. CASE Authorise(h)
  BY <1>4, GotoType DEF Authorise, TypeOK, Labels
<1>5. CASE Unauthorised(h)
  BY <1>5, ReturnType DEF Unauthorised, TypeOK
<1>6. CASE ServiceReads(h)
  BY <1>6, GotoType, BodyType DEF ServiceReads, TypeOK, Labels
<1>7. CASE ComputeTTL(h)
  <2>1. call[h].token \in Tokens
    BY <1>7, ConstantsAssumption
       DEF ComputeTTL, UsesCache, HasScope, TypeOK, Call, Authorizations
  <2>2. TTLFor(call[h].token, clock) \in Int
    BY <2>1, TTLForBounds DEF TypeOK
  <2> QED
    BY <1>7, <2>2, GotoType DEF ComputeTTL, TypeOK, Labels
<1>8. CASE ReplyUncached(h)
  BY <1>8, ReturnType DEF ReplyUncached, TypeOK
<1> QED
  BY <1>1, <1>2, <1>3, <1>4, <1>5, <1>6, <1>7, <1>8

\* and so do those of a refill, of a mutation and of a scan.
LEMMA WriteStepsType ==
  ASSUME CacheInv, NEW h \in Handlers,
         \/ RedisSet(h)
         \/ RedisSetFails(h)
         \/ ServiceCommits(h)
         \/ MutationFails(h)
         \/ BeginScan(h)
         \/ ReplyWithoutScan(h)
         \/ DeleteKey(h)
         \/ DeleteFails(h)
         \/ ScanFails(h)
         \/ EndScan(h)
  PROVE  TypeOK'
<1> USE DEF CacheInv, storeVars
<1>1. CASE RedisSet(h)
  <2>1. KeyOf(call[h]) \in Keys
    BY <1>1, KeyOfType DEF RedisSet, HandlerInv, StoreInv, UsesCache, HasScope, TypeOK
  <2>2. body[h] \in Bodies
    BY <1>1 DEF RedisSet, HandlerInv, AnswerInv, BuiltFor
  <2>3. [key |-> KeyOf(call[h]), body |-> body[h],
         expires |-> clock + ttl[h], storedAt |-> clock] \in Entries
    BY <2>1, <2>2 DEF Entries, TypeOK
  <2> QED
    BY <1>1, <2>3, ReturnType DEF RedisSet, TypeOK
<1>2. CASE RedisSetFails(h)
  BY <1>2, ReturnType DEF RedisSetFails, TypeOK
<1>3. CASE ServiceCommits(h)
  <2>1. version' \in Nat
    BY <1>3 DEF ServiceCommits, TypeOK
  <2> QED
    BY <1>3, <2>1, GotoType, BodyType DEF ServiceCommits, TypeOK, Labels
<1>4. CASE MutationFails(h)
  BY <1>4, ReturnType DEF MutationFails, TypeOK
<1>5. CASE BeginScan(h)
  <2>1. {k \in KeysIn(cache) : InvalidatedBy(call[h], k)} \in SUBSET Keys
    BY DEF KeysIn, TypeOK, Entries
  <2> QED
    BY <1>5, <2>1, GotoType DEF BeginScan, TypeOK, Labels
<1>6. ASSUME pc[h] = "answered" \/ Scanning(h), Acknowledge(h)
      PROVE  acked' \in [Principals -> Nat]
  <2>1. body[h].version \in Nat
    BY <1>6 DEF Scanning, HandlerInv, AnswerInv, BuiltFor, Bodies
  <2> QED
    BY <1>6, <2>1 DEF Acknowledge, TypeOK
<1>7. CASE ReplyWithoutScan(h)
  BY <1>6, <1>7, ReturnType DEF ReplyWithoutScan, TypeOK
<1>8. CASE DeleteKey(h)
  <2>1. cache' \in SUBSET Entries
    BY <1>8 DEF DeleteKey, TypeOK
  <2> QED
    BY <1>8, <2>1, StillOwedType DEF DeleteKey, TypeOK
<1>9. CASE DeleteFails(h)
  BY <1>9, GotoType DEF DeleteFails, TypeOK, Labels
<1>10. CASE ScanFails(h)
  BY <1>10, GotoType DEF ScanFails, TypeOK, Labels
<1>11. CASE EndScan(h)
  BY <1>6, <1>11, ReturnType DEF EndScan, Scanning, TypeOK
<1> QED
  BY <1>1, <1>2, <1>3, <1>4, <1>5, <1>7, <1>8, <1>9, <1>10, <1>11

\* Every step keeps the types.
LEMMA TypeStep == CacheInv /\ [Next]_vars => TypeOK'
<1> SUFFICES ASSUME CacheInv, [Next]_vars PROVE TypeOK'
  OBVIOUS
<1>1. CASE Tick
  <2>1. cache' \in SUBSET Entries
    BY <1>1 DEF Tick, CacheInv, TypeOK
  <2> QED
    BY <1>1, <2>1, StillOwedType DEF Tick, CacheInv, TypeOK
<1>2. ASSUME NEW h \in Handlers, Step(h) PROVE TypeOK'
  BY <1>2, ReadStepsType, WriteStepsType DEF Step
<1>3. CASE UNCHANGED vars
  BY <1>3 DEF CacheInv, TypeOK, vars, storeVars, handlerVars
<1> QED
  BY <1>1, <1>2, <1>3 DEF Next

-----------------------------------------------------------------------------
(* What Redis holds.                                                       *)

\* The entry a handler stores is sound: its life ends within the staleness
\* bound of the read and within a Redis command of the token's life.
LEMMA StoredEntrySound ==
  ASSUME CacheInv, NEW h \in Handlers, RedisSet(h)
  PROVE  EntryInv([key |-> KeyOf(call[h]), body |-> body[h],
                   expires |-> clock + ttl[h], storedAt |-> clock])
<1> DEFINE e == [key |-> KeyOf(call[h]), body |-> body[h],
                 expires |-> clock + ttl[h], storedAt |-> clock]
<1>1. pc[h] = "storing" /\ call[h] \in Calls
  BY DEF RedisSet, CacheInv, TypeOK
<1>2. StoreInv(h) /\ BuiltFor(h)
  BY <1>1 DEF CacheInv, HandlerInv, AnswerInv
<1>3. call[h].path \notin SkippedPaths /\ call[h].token \in Tokens
  BY <1>1, <1>2, ConstantsAssumption
     DEF StoreInv, UsesCache, HasScope, Call, Authorizations
<1>4. body[h].readAt \in Nat /\ clock \in Nat /\ at[h] \in Nat
      /\ start[h] \in Nat /\ ttl[h] \in 1..DefaultTTL
  BY <1>1, <1>2 DEF StoreInv, BuiltFor, Bodies, CacheInv, TypeOK
<1>5. e.expires <= e.body.readAt + StalenessBound
  BY <1>1, <1>2, <1>4, ConstantsAssumption
     DEF StoreInv, BuiltFor, StalenessBound
<1>6. Expiry[e.key.token] # NoExpiry =>
        e.expires <= Expiry[e.key.token] + RedisLag
  BY <1>1, <1>2, <1>3, <1>4, ConstantsAssumption DEF StoreInv, KeyOf
<1> QED
  BY <1>1, <1>2, <1>3, <1>4, <1>5, <1>6, ConstantsAssumption
     DEF EntryInv, KeyOf, BuiltFor

\* Every entry after a step is sound: it was before, or a SET in time has just
\* stored it.
LEMMA EntriesStep ==
  ASSUME CacheInv, [Next]_vars, NEW e \in cache'
  PROVE  EntryInv(e)'
<1>1. CASE Tick
  <2>1. e \in cache /\ clock' < e.expires /\ clock' = clock + 1
    BY <1>1 DEF Tick
  <2>2. EntryInv(e) /\ e.storedAt \in Nat /\ clock \in Nat
    BY <2>1 DEF CacheInv, TypeOK, Entries
  <2> QED
    BY <2>1, <2>2 DEF EntryInv
<1>2. ASSUME NEW h \in Handlers, RedisSet(h) PROVE EntryInv(e)'
  <2>1. clock' = clock
    BY <1>2 DEF RedisSet
  <2>2. CASE e \in cache
    BY <2>1, <2>2 DEF CacheInv, EntryInv
  <2>3. CASE e = [key |-> KeyOf(call[h]), body |-> body[h],
                  expires |-> clock + ttl[h], storedAt |-> clock]
    <3>1. EntryInv(e)
      BY <1>2, <2>3, StoredEntrySound
    <3> QED
      BY <2>1, <3>1 DEF EntryInv
  <2> QED
    BY <1>2, <2>2, <2>3 DEF RedisSet
<1>3. ASSUME NEW h \in Handlers, Step(h), ~RedisSet(h)
      PROVE  cache' \subseteq cache /\ clock' = clock
  BY <1>3 DEF Step, Arrive, RedisGetHit, RedisGetMiss, Authorise,
     Unauthorised, ServiceReads, ComputeTTL, ReplyUncached, RedisSetFails,
     ServiceCommits, MutationFails, BeginScan, ReplyWithoutScan, DeleteKey,
     DeleteFails, ScanFails, EndScan, storeVars
<1>4. ASSUME cache' \subseteq cache, clock' = clock PROVE EntryInv(e)'
  BY <1>4 DEF CacheInv, EntryInv
<1>5. CASE UNCHANGED vars
  BY <1>4, <1>5 DEF vars, storeVars
<1> QED
  BY <1>1, <1>2, <1>3, <1>4, <1>5 DEF Next

-----------------------------------------------------------------------------
(* What the handlers hold.                                                 *)

\* Another handler's step, or time, leaves handler g where it is.
Untouched(g) ==
  /\ pc'[g] = pc[g] /\ call'[g] = call[g] /\ start'[g] = start[g]
  /\ body'[g] = body[g] /\ at'[g] = at[g] /\ ttl'[g] = ttl[g]

\* What g is owed may shrink only with the entries, and what is stored
\* meanwhile is stored now.
CacheMovesOn(g) ==
  \A e \in cache' :
    \/ e.storedAt = clock
    \/ e \in cache /\ (e.key \in targets[g] => e.key \in targets'[g])

\* A handler that a step does not touch stays sound while the cache moves on.
LEMMA BystanderInv ==
  ASSUME CacheInv, NEW g \in Handlers, Untouched(g), CacheMovesOn(g),
         clock' \in Nat, clock <= clock',
         pc[g] = "storing" => clock' <= at[g] + RedisLag
  PROVE  HandlerInv(g)'
<1> USE DEF Untouched
<1>1. HandlerInv(g) /\ TypeOK
  BY DEF CacheInv
<1>2. start'[g] <= clock'
  BY <1>1 DEF HandlerInv, TypeOK
<1>3. LookupInv(g)'
  BY <1>1 DEF HandlerInv, LookupInv
<1>4. AnswerInv(g)'
  BY <1>1 DEF HandlerInv, AnswerInv, BuiltFor
<1>5. StoreInv(g)'
  BY <1>1 DEF HandlerInv, StoreInv
<1>6. HitInv(g)'
  BY <1>1 DEF HandlerInv, HitInv
<1>7. ScanInv(g)'
  BY <1>1 DEF HandlerInv, ScanInv, CacheMovesOn, TypeOK
<1> QED
  BY <1>2, <1>3, <1>4, <1>5, <1>6, <1>7 DEF HandlerInv

\* After a removal from the cache, the pruned debts still cover what is left.
LEMMA StillOwedCovers ==
  ASSUME NEW g \in Handlers, cache' \subseteq cache,
         targets' = StillOwed(cache')
  PROVE  CacheMovesOn(g)
BY DEF CacheMovesOn, StillOwed, KeysIn

\* Time makes no handler unsound, as Tick waits for deadlines and commands.
LEMMA TickHandlers ==
  ASSUME CacheInv, Tick, NEW g \in Handlers
  PROVE  HandlerInv(g)'
<1>1. cache' \subseteq cache /\ Untouched(g) /\ CacheMovesOn(g)
  BY StillOwedCovers DEF Tick, Untouched
<1>2. /\ clock' \in Nat /\ clock <= clock'
      /\ pc[g] = "storing" => clock' <= at[g] + RedisLag
  BY ConstantsAssumption DEF Tick, CacheInv, TypeOK
<1> QED
  BY <1>1, <1>2, BystanderInv

\* Whatever another handler does to Redis, g still owes what is left of its keys.
LEMMA OthersMoveTheCacheOn ==
  ASSUME CacheInv, NEW h \in Handlers, Step(h), NEW g \in Handlers, g # h
  PROVE  CacheMovesOn(g)
<1>1. CASE RedisSet(h)
  BY <1>1 DEF RedisSet, CacheMovesOn
<1>2. CASE DeleteKey(h)
  BY <1>2, StillOwedCovers DEF DeleteKey
<1>3. ASSUME ~RedisSet(h), ~DeleteKey(h)
      PROVE  cache' = cache /\ targets'[g] = targets[g]
  BY <1>3 DEF Step, Arrive, RedisGetHit, RedisGetMiss, Authorise,
     Unauthorised, ServiceReads, ComputeTTL, ReplyUncached,
     RedisSetFails, ServiceCommits, MutationFails, BeginScan,
     ReplyWithoutScan, DeleteFails, ScanFails, EndScan, storeVars, CacheInv, TypeOK
<1> QED
  BY <1>1, <1>2, <1>3 DEF CacheMovesOn

\* A handler's step leaves the others sound.
LEMMA OtherHandlers ==
  ASSUME CacheInv, NEW h \in Handlers, Step(h), NEW g \in Handlers, g # h
  PROVE  HandlerInv(g)'
<1>1. Untouched(g) /\ clock' = clock
  BY DEF Step, Arrive, RedisGetHit, RedisGetMiss, Authorise,
     Unauthorised, ServiceReads, ComputeTTL, ReplyUncached, RedisSet,
     RedisSetFails, ServiceCommits, MutationFails, BeginScan,
     ReplyWithoutScan, DeleteKey, DeleteFails, ScanFails, EndScan, storeVars, Untouched,
     Return, Goto, CacheInv, TypeOK
<1>2. CacheMovesOn(g)
  BY OthersMoveTheCacheOn
<1>3. /\ clock' \in Nat /\ clock <= clock'
      /\ pc[g] = "storing" => clock' <= at[g] + RedisLag
  BY <1>1 DEF CacheInv, TypeOK, HandlerInv, StoreInv
<1> QED
  BY <1>1, <1>2, <1>3, BystanderInv

\* An idle handler holds nothing.
LEMMA ReturnInv ==
  ASSUME CacheInv, NEW h \in Handlers, Return(h), clock' = clock
  PROVE  HandlerInv(h)'
<1>1. pc'[h] = "idle" /\ start'[h] = 0
  BY DEF Return, CacheInv, TypeOK
<1> QED
  BY <1>1 DEF HandlerInv, LookupInv, AnswerInv, StoreInv, HitInv, ScanInv,
     CacheInv, TypeOK

\* A new call starts sound.
LEMMA ArriveInv ==
  ASSUME CacheInv, NEW h \in Handlers, NEW c \in Calls, Arrive(h, c)
  PROVE  HandlerInv(h)'
<1>1. /\ pc'[h] = IF UsesCache(c, clock) THEN "lookup" ELSE "passed"
      /\ call'[h] = c /\ start'[h] = clock /\ clock' = clock
  BY DEF Arrive, CacheInv, TypeOK, storeVars
<1> QED
  BY <1>1 DEF HandlerInv, LookupInv, AnswerInv, StoreInv, HitInv, ScanInv,
     CacheInv, TypeOK

\* A HIT: what EntryInv says of the entry, the handler now holds.
LEMMA HitStepInv ==
  ASSUME CacheInv, NEW h \in Handlers, RedisGetHit(h)
  PROVE  HandlerInv(h)'
<1>1. PICK e \in cache : /\ e.key = KeyOf(call[h])
                         /\ body' = [body EXCEPT ![h] = e.body]
  BY DEF RedisGetHit
<1>2. EntryInv(e) /\ e.body \in Bodies /\ e.expires \in Int
  BY DEF CacheInv, TypeOK, Entries
<1>3. UsesCache(call[h], start[h])
  BY DEF RedisGetHit, CacheInv, HandlerInv, LookupInv
<1>4. /\ pc'[h] = "hit" /\ call'[h] = call[h] /\ start'[h] = start[h]
      /\ body'[h] = e.body /\ at'[h] = clock /\ clock' = clock
  BY <1>1 DEF RedisGetHit, Goto, CacheInv, TypeOK, storeVars
<1>5. call[h].token \in Tokens
  BY <1>3, ConstantsAssumption
     DEF UsesCache, HasScope, Call, Authorizations, CacheInv, TypeOK
<1>6. clock < e.body.readAt + StalenessBound
  BY <1>2, ConstantsAssumption
     DEF EntryInv, Bodies, CacheInv, TypeOK, StalenessBound
<1>7. Expiry[call[h].token] # NoExpiry =>
        clock < Expiry[call[h].token] + RedisLag
  BY <1>1, <1>2, <1>5, ConstantsAssumption
     DEF EntryInv, CacheInv, TypeOK, KeyOf
<1>8. HitInv(h)'
  BY <1>1, <1>2, <1>3, <1>4, <1>6, <1>7 DEF HitInv, EntryInv, KeyOf
<1> QED
  BY <1>4, <1>8
     DEF HandlerInv, LookupInv, AnswerInv, StoreInv, ScanInv, CacheInv

\* The service builds a body: the call's own, not older than its arrival.
LEMMA ServiceInv ==
  ASSUME CacheInv, NEW h \in Handlers, ServiceReads(h) \/ ServiceCommits(h)
  PROVE  HandlerInv(h)'
<1>1. PICK v \in Nat :
        body'[h] = [token |-> call[h].token, view |-> call[h].view,
                    path |-> call[h].path, version |-> v, readAt |-> clock]
  BY DEF ServiceReads, ServiceCommits, CacheInv, TypeOK
<1>2. /\ pc'[h] = "answered" /\ call'[h] = call[h] /\ start'[h] = start[h]
      /\ clock' = clock
  BY DEF ServiceReads, ServiceCommits, Goto, CacheInv, TypeOK, storeVars
<1>3. call[h] \in Calls /\ clock \in Nat /\ start[h] <= clock
  BY DEF CacheInv, TypeOK, HandlerInv
<1>4. body'[h] \in Bodies
  BY <1>1, <1>3, BodyType
<1>5. BuiltFor(h)'
  BY <1>1, <1>2, <1>3, <1>4 DEF BuiltFor
<1> QED
  BY <1>2, <1>3, <1>5
     DEF HandlerInv, LookupInv, AnswerInv, StoreInv, HitInv, ScanInv

\* A TTL is computed from a token that is still valid.
LEMMA ComputeTTLInv ==
  ASSUME CacheInv, NEW h \in Handlers, ComputeTTL(h)
  PROVE  HandlerInv(h)'
<1>1. /\ pc'[h] = "storing" /\ call'[h] = call[h] /\ start'[h] = start[h]
      /\ body'[h] = body[h] /\ clock' = clock /\ at'[h] = clock
      /\ ttl'[h] = TTLFor(call[h].token, clock)
  BY DEF ComputeTTL, Goto, CacheInv, TypeOK, storeVars
<1>2. call[h].token \in Tokens
  BY ConstantsAssumption
     DEF ComputeTTL, UsesCache, HasScope, TypeOK, Call, Authorizations,
         CacheInv
<1>3. /\ ttl'[h] \in 1..DefaultTTL
      /\ Expiry[call[h].token] # NoExpiry =>
           clock + ttl'[h] <= Expiry[call[h].token]
  BY <1>1, <1>2, TTLForBounds, ConstantsAssumption
     DEF ComputeTTL, CacheInv, TypeOK
<1>4. StoreInv(h)'
  BY <1>1, <1>3, ConstantsAssumption
     DEF StoreInv, ComputeTTL, CacheInv, TypeOK
<1>5. AnswerInv(h)'
  BY <1>1 DEF AnswerInv, BuiltFor, ComputeTTL, CacheInv, HandlerInv
<1> QED
  BY <1>1, <1>4, <1>5
     DEF HandlerInv, LookupInv, HitInv, ScanInv, CacheInv

\* A scan that begins owes every key of its token.
LEMMA BeginScanInv ==
  ASSUME CacheInv, NEW h \in Handlers, BeginScan(h)
  PROVE  HandlerInv(h)'
<1>1. /\ pc'[h] = "scanning" /\ call'[h] = call[h] /\ start'[h] = start[h]
      /\ body'[h] = body[h] /\ clock' = clock /\ at'[h] = clock
      /\ targets'[h] = {k \in KeysIn(cache) : InvalidatedBy(call[h], k)}
      /\ cache' = cache
  BY DEF BeginScan, Goto, CacheInv, TypeOK, storeVars
<1>2. call[h].token \in Tokens
  BY ConstantsAssumption
     DEF BeginScan, HasScope, TypeOK, Call, Authorizations, CacheInv
<1>3. ScanInv(h)'
  BY <1>1, <1>2 DEF ScanInv, KeysIn, CacheInv, TypeOK
<1>4. AnswerInv(h)'
  BY <1>1 DEF AnswerInv, BuiltFor, BeginScan, CacheInv, HandlerInv
<1> QED
  BY <1>1, <1>3, <1>4
     DEF HandlerInv, LookupInv, HitInv, StoreInv, CacheInv

\* DEL forgives only what has gone.
LEMMA DeleteInv ==
  ASSUME CacheInv, NEW h \in Handlers, DeleteKey(h)
  PROVE  HandlerInv(h)'
<1>1. Untouched(h) /\ clock' = clock /\ Scanning(h)
  BY DEF DeleteKey, Untouched
<1>2. CacheMovesOn(h)
  BY StillOwedCovers DEF DeleteKey
<1> QED
  BY <1>1, <1>2, BystanderInv DEF Scanning, CacheInv, TypeOK

\* A scan that fails still knows for whom it acknowledges.
LEMMA FalterInv ==
  ASSUME CacheInv, NEW h \in Handlers, DeleteFails(h) \/ ScanFails(h)
  PROVE  HandlerInv(h)'
<1>1. /\ pc'[h] = "faltering" /\ call'[h] = call[h] /\ start'[h] = start[h]
      /\ body'[h] = body[h] /\ clock' = clock /\ Scanning(h)
  BY DEF DeleteFails, ScanFails, Goto, CacheInv, TypeOK, storeVars
<1>2. AnswerInv(h)'
  BY <1>1 DEF AnswerInv, BuiltFor, Scanning, CacheInv, HandlerInv
<1> QED
  BY <1>1, <1>2
     DEF HandlerInv, LookupInv, StoreInv, HitInv, ScanInv, CacheInv

\* Every step leaves its own handler sound.
LEMMA OwnStep ==
  ASSUME CacheInv, NEW h \in Handlers, Step(h)
  PROVE  HandlerInv(h)'
<1>1. ASSUME \/ RedisGetMiss(h)
             \/ Authorise(h)
      PROVE  HandlerInv(h)'
  <2>1. /\ pc'[h] \in {"passed", "forwarded"} /\ start'[h] = start[h]
        /\ clock' = clock
    BY <1>1 DEF RedisGetMiss, Authorise, Goto, CacheInv, TypeOK, storeVars
  <2> QED
    BY <2>1 DEF HandlerInv, LookupInv, AnswerInv, StoreInv, HitInv, ScanInv,
       CacheInv
<1>2. ASSUME \/ Unauthorised(h)
             \/ ReplyUncached(h)
             \/ RedisSet(h)
             \/ RedisSetFails(h)
             \/ MutationFails(h)
             \/ ReplyWithoutScan(h)
             \/ EndScan(h)
      PROVE  HandlerInv(h)'
  BY <1>2, ReturnInv DEF Unauthorised, ReplyUncached, RedisSet,
     RedisSetFails, MutationFails, ReplyWithoutScan, EndScan, storeVars
<1> QED
  BY <1>1, <1>2, ArriveInv, HitStepInv, ServiceInv, ComputeTTLInv,
     BeginScanInv, DeleteInv, FalterInv DEF Step

-----------------------------------------------------------------------------
\* Every step keeps the cache sound.
LEMMA CacheInvStep == CacheInv /\ [Next]_vars => CacheInv'
<1> SUFFICES ASSUME CacheInv, [Next]_vars PROVE CacheInv'
  OBVIOUS
<1>1. TypeOK'
  BY TypeStep
<1>2. \A e \in cache' : EntryInv(e)'
  BY EntriesStep
<1>3. ASSUME NEW g \in Handlers PROVE HandlerInv(g)'
  <2>1. CASE Tick
    BY <2>1, TickHandlers
  <2>2. ASSUME NEW h \in Handlers, Step(h) PROVE HandlerInv(g)'
    BY <2>2, OwnStep, OtherHandlers
  <2>3. CASE UNCHANGED vars
    BY <2>3 DEF vars, storeVars, handlerVars, CacheInv, HandlerInv, LookupInv,
       AnswerInv, BuiltFor, StoreInv, HitInv, ScanInv
  <2> QED
    BY <2>1, <2>2, <2>3 DEF Next
<1> QED
  BY <1>1, <1>2, <1>3 DEF CacheInv

\* Every reachable state is sound.
THEOREM CacheInvariant == Spec => []CacheInv
BY InitCacheInv, CacheInvStep, PTL DEF Spec

\* Every variable keeps its type.
THEOREM TypeCorrect == Spec => []TypeOK
<1>1. CacheInv => TypeOK
  BY DEF CacheInv
<1> QED
  BY <1>1, CacheInvariant, PTL

\* No HIT answers another credential, another scope or other words of a path,
\* and none another plain path.
THEOREM HitsAreTheCallersOwn == Spec => []HitAnswersItsOwnCall
<1>1. CacheInv => HitAnswersItsOwnCall
  <2> SUFFICES ASSUME CacheInv, NEW h \in Handlers, pc[h] = "hit"
               PROVE  /\ body[h].token = call[h].token
                      /\ ScopeOf(body[h].view) = ScopeOf(call[h].view)
                      /\ KeyPath(body[h].path) = KeyPath(call[h].path)
                      /\ Plain(body[h].path) /\ Plain(call[h].path) =>
                           body[h].path = call[h].path
                      /\ {body[h].path, call[h].path} \cap SkippedPaths = {}
    BY DEF HitAnswersItsOwnCall
  <2>1. HitInv(h) /\ call[h].path \notin SkippedPaths
    BY DEF CacheInv, HandlerInv, HitInv, UsesCache
  <2>2. body[h].path \in Urls /\ call[h].path \in Urls
    BY <2>1, ConstantsAssumption DEF HitInv, Bodies, CacheInv, TypeOK, Call
  <2> QED
    BY <2>1, <2>2, PlainPathsHaveTheirOwnKeys DEF HitInv
<1> QED
  BY <1>1, CacheInvariant, PTL

\* No HIT is older than a TTL, a deadline and a Redis command together.
THEOREM HitsAreFresh == Spec => []StalenessIsBounded
<1>1. CacheInv => StalenessIsBounded
  BY DEF CacheInv, HandlerInv, HitInv, StalenessIsBounded
<1> QED
  BY <1>1, CacheInvariant, PTL

\* No HIT outlives its credential by more than a Redis command.
THEOREM HitsAreWithinTheCredential == Spec => []HitWithinCredential
<1>1. CacheInv => HitWithinCredential
  BY DEF CacheInv, HandlerInv, HitInv, UsesCache, HasScope, Live,
     HitWithinCredential
<1> QED
  BY <1>1, CacheInvariant, PTL

\* An invalidation none of whose own commands failed leaves no entry of its
\* token that is older than itself.
THEOREM InvalidationIsComplete == Spec => InvalidationReachesEveryScope
<1>1. ASSUME CacheInv, [Next]_vars, NEW h \in Handlers, pc[h] = "scanning",
             pc'[h] = "idle", NEW e \in cache', e.key.token = call[h].token
      PROVE  e.storedAt >= at[h]
  <2>1. PICK g \in Handlers : Step(g)
    BY <1>1 DEF Next, Tick, vars, handlerVars
  <2>2. EndScan(h)
    BY <1>1, <2>1 DEF Step, Arrive, Free, RedisGetHit, RedisGetMiss,
       Authorise, Unauthorised, ServiceReads, ComputeTTL, ReplyUncached,
       RedisSet, RedisSetFails, ServiceCommits, MutationFails, BeginScan,
       ReplyWithoutScan, DeleteKey, DeleteFails, ScanFails, EndScan, Return, Goto,
       CacheInv, TypeOK
  <2>3. targets[h] = {} /\ cache' = cache
    BY <2>2 DEF EndScan
  <2>4. e.storedAt \in Nat /\ at[h] \in Nat
    BY <1>1, <2>3 DEF CacheInv, TypeOK, Entries
  <2> QED
    BY <1>1, <2>3, <2>4 DEF CacheInv, HandlerInv, ScanInv, InvalidatedBy
<1>2. CacheInv /\ [Next]_vars =>
        [\A h \in Handlers : pc[h] = "scanning" /\ pc'[h] = "idle" =>
           \A e \in cache' :
             e.key.token = call[h].token => e.storedAt >= at[h]]_vars
  BY <1>1
<1> QED
  BY <1>2, CacheInvariant, PTL DEF Spec, InvalidationReachesEveryScope

\* Only a scan with its token, expiry or a newer answer takes an entry away.
THEOREM InvalidationIsIsolated == Spec => OnlyItsTokenInvalidates
<1>1. ASSUME CacheInv, [Next]_vars, NEW e \in cache,
             KeysIn({e}) \cap KeysIn(cache') = {}
      PROVE  \/ e.expires <= clock'
             \/ \E h \in Handlers :
                  Scanning(h) /\ call[h].token = e.key.token
  <2>1. e.expires \in Int /\ clock' \in Nat
    BY <1>1, TypeStep DEF CacheInv, TypeOK, Entries
  <2>2. \A d \in cache' : d.key # e.key
    BY <1>1 DEF KeysIn
  <2>3. CASE Tick
    BY <2>1, <2>2, <2>3 DEF Tick
  <2>4. ASSUME NEW h \in Handlers, DeleteKey(h)
        PROVE  Scanning(h) /\ call[h].token = e.key.token
    BY <2>2, <2>4 DEF DeleteKey, InvalidatedBy
  <2>5. ASSUME NEW h \in Handlers, RedisSet(h) PROVE FALSE
    <3> DEFINE new == [key |-> KeyOf(call[h]), body |-> body[h],
                       expires |-> clock + ttl[h], storedAt |-> clock]
    <3>1. new \in cache' /\ new.key = KeyOf(call[h])
      BY <2>5 DEF RedisSet
    <3> QED
      BY <2>2, <2>5, <3>1 DEF RedisSet
  <2>6. ASSUME NEW h \in Handlers, Step(h), ~DeleteKey(h), ~RedisSet(h)
        PROVE  cache' = cache
    BY <2>6 DEF Step, Arrive, RedisGetHit, RedisGetMiss, Authorise,
       Unauthorised, ServiceReads, ComputeTTL, ReplyUncached, RedisSetFails,
       ServiceCommits, MutationFails, BeginScan, ReplyWithoutScan,
       DeleteFails, ScanFails, EndScan, storeVars
  <2>7. CASE UNCHANGED vars
    BY <2>2, <2>7 DEF vars, storeVars
  <2> QED
    BY <1>1, <2>2, <2>3, <2>4, <2>5, <2>6, <2>7 DEF Next
<1>2. CacheInv /\ [Next]_vars =>
        [\A e \in cache : KeysIn({e}) \cap KeysIn(cache') = {} =>
           \/ e.expires <= clock'
           \/ \E h \in Handlers :
                Scanning(h) /\ call[h].token = e.key.token]_vars
  BY <1>1
<1> QED
  BY <1>2, CacheInvariant, PTL DEF Spec, OnlyItsTokenInvalidates

-----------------------------------------------------------------------------
(* Reading one's own writes.  cache_refill shows that a client with two    *)
(* calls in flight may not; a client that waits for each answer, on a      *)
(* Redis that does not fail, does.                                         *)

\* A client waits for the answer to a call before it makes the next, Redis
\* answers, a person uses one token, and a mutation is not sent with the
\* single-use nonce that takes its scope away.
ClientsTakeTurns ==
  /\ ~Overlapping
  /\ ~RedisMayFail
  /\ \A t, u \in Tokens : Owner[t] = Owner[u] => t = u
  /\ \A c \in Calls : c.method = "MUTATION" => ~c.nonce

\* A token has at most one call in flight.
OneCallPerToken ==
  \A g, h \in Handlers :
    g # h /\ call[g].token = call[h].token => Free(g) \/ Free(h)

\* While a token lives, its entries show every mutation acknowledged to it.
EntriesShowWrites ==
  \A e \in cache :
    Live(e.key.token, clock) => acked[Owner[e.key.token]] <= e.body.version

\* What was read for a token shows every mutation acknowledged to it; a
\* lookup finds nothing older than what its client knew when it made the
\* call, even if its token expires meanwhile; a scan still owes every entry
\* of its token, however young.
ShowsWrites(h) ==
  /\ pc[h] # "faltering"
  /\ pc[h] \in {"answered", "scanning"} => body[h].version <= version
  /\ /\ pc[h] \in {"answered", "storing"}
     /\ call[h].method = "GET"
     /\ call[h].token # NoToken
     => acked[Owner[call[h].token]] <= body[h].version
  /\ pc[h] = "lookup" =>
       \A e \in cache : e.key.token = call[h].token
                          => floor[h] <= e.body.version
  /\ pc[h] = "scanning" =>
       \A e \in cache : e.key.token = call[h].token => e.key \in targets[h]
  /\ pc[h] = "hit" => floor[h] <= body[h].version

WritesInv ==
  /\ OneCallPerToken
  /\ \A p \in Principals : acked[p] <= version
  /\ EntriesShowWrites
  /\ \A h \in Handlers : ShowsWrites(h)

\* A person's acknowledgements are those of one token.
LEMMA OthersAcknowledge ==
  ASSUME ClientsTakeTurns, CacheInv, NEW h \in Handlers, NEW t \in Tokens,
         Acknowledge(h), call[h].token # t
  PROVE  acked'[Owner[t]] = acked[Owner[t]]
<1>1. call[h].token # NoToken => Owner[call[h].token] # Owner[t]
  BY ConstantsAssumption
     DEF ClientsTakeTurns, CacheInv, TypeOK, Call, Authorizations
<1> QED
  BY <1>1, ConstantsAssumption DEF Acknowledge, CacheInv, TypeOK

\* A step of h takes no other handler's call, and h either takes a call, goes
\* on with the one it has or is free when it is done.
LEMMA StepShape ==
  ASSUME CacheInv, NEW h \in Handlers, Step(h)
  PROVE  /\ \A g \in Handlers \ {h} :
              pc'[g] = pc[g] /\ call'[g] = call[g] /\ floor'[g] = floor[g]
              /\ body'[g] = body[g]
         /\ \/ \E c \in Calls : Arrive(h, c)
            \/ ~Free(h) /\ call'[h] = call[h]
            \/ pc'[h] = "idle"
BY DEF Step, Arrive, RedisGetHit, RedisGetMiss, Authorise,
   Unauthorised, ServiceReads, ComputeTTL, ReplyUncached, RedisSet,
   RedisSetFails, ServiceCommits, MutationFails, BeginScan,
   ReplyWithoutScan, DeleteKey, DeleteFails, ScanFails, EndScan, Free,
   Scanning, Return, Goto, CacheInv, TypeOK

\* Clients that take turns have one call per token under way.
LEMMA OneCallStep ==
  ASSUME ClientsTakeTurns, CacheInv, OneCallPerToken, [Next]_vars
  PROVE  OneCallPerToken'
<1>1. ASSUME NEW h \in Handlers, Step(h), NEW g \in Handlers \ {h},
             call'[g].token = call'[h].token
      PROVE  Free(g)' \/ Free(h)'
  <2>1. pc'[g] = pc[g] /\ call'[g] = call[g]
    BY <1>1, StepShape
  <2>2. ASSUME NEW c \in Calls, Arrive(h, c) PROVE Free(g)'
    BY <1>1, <2>1, <2>2 DEF Arrive, Free, ClientsTakeTurns, CacheInv, TypeOK
  <2>3. CASE ~Free(h) /\ call'[h] = call[h]
    BY <1>1, <2>1, <2>3 DEF OneCallPerToken, Free
  <2>4. CASE pc'[h] = "idle"
    BY <2>4 DEF Free
  <2> QED
    BY <1>1, <2>2, <2>3, <2>4, StepShape
<1>2. ASSUME NEW f \in Handlers, Step(f), NEW g \in Handlers,
             NEW h \in Handlers, g # h, call'[g].token = call'[h].token
      PROVE  Free(g)' \/ Free(h)'
  <2>1. CASE f = g
    BY <1>1, <1>2, <2>1
  <2>2. CASE f = h
    BY <1>1, <1>2, <2>2
  <2>3. CASE f # g /\ f # h
    BY <1>2, <2>3, StepShape DEF OneCallPerToken, Free
  <2> QED
    BY <2>1, <2>2, <2>3
<1>3. CASE Tick \/ UNCHANGED vars
  BY <1>3 DEF Tick, vars, handlerVars, OneCallPerToken, Free
<1> QED
  BY <1>2, <1>3 DEF Next, OneCallPerToken

\* The answer to a mutation is acknowledged: its token keeps no entry that
\* can be a HIT, and nobody has been told more than there is.
LEMMA AcknowledgeWrites ==
  ASSUME ClientsTakeTurns, CacheInv, WritesInv, NEW h \in Handlers,
         ReplyWithoutScan(h) \/ EndScan(h)
  PROVE  /\ \A p \in Principals : acked'[p] <= version'
         /\ EntriesShowWrites'
<1>1. /\ Acknowledge(h) /\ version' = version /\ cache' = cache
      /\ clock' = clock /\ pc[h] \in {"answered", "scanning"}
  BY DEF ReplyWithoutScan, EndScan, Scanning, WritesInv, ShowsWrites
<1>2. body[h].version \in Nat /\ body[h].version <= version
  BY <1>1 DEF CacheInv, HandlerInv, AnswerInv, BuiltFor, Bodies, WritesInv,
     ShowsWrites
<1>3. \A p \in Principals : acked'[p] <= version'
  BY <1>1, <1>2 DEF Acknowledge, WritesInv, CacheInv, TypeOK
<1>4. ASSUME NEW e \in cache, Live(e.key.token, clock)
      PROVE  acked'[Owner[e.key.token]] <= e.body.version
  <2>1. e.key.token \in Tokens
    BY DEF CacheInv, TypeOK, Entries, Keys
  <2>2. call[h].token # e.key.token
    <3>1. CASE ReplyWithoutScan(h)
      BY <1>4, <2>1, <3>1, ConstantsAssumption
         DEF ReplyWithoutScan, HasScope, ClientsTakeTurns, CacheInv, TypeOK
    <3>2. CASE EndScan(h)
      BY <1>1, <3>2 DEF EndScan, WritesInv, ShowsWrites, Scanning
    <3> QED
      BY <3>1, <3>2
  <2>3. acked'[Owner[e.key.token]] = acked[Owner[e.key.token]]
    BY <1>1, <2>1, <2>2, OthersAcknowledge
  <2> QED
    BY <1>4, <2>3 DEF WritesInv, EntriesShowWrites
<1> QED
  BY <1>1, <1>3, <1>4 DEF EntriesShowWrites

\* Every other step leaves what has been acknowledged alone.
LEMMA OnlyAnswersAcknowledge ==
  ASSUME NEW h \in Handlers, Step(h), ~ReplyWithoutScan(h), ~EndScan(h)
  PROVE  acked' = acked /\ clock' = clock
BY DEF Step, Arrive, RedisGetHit, RedisGetMiss, Authorise,
   Unauthorised, ServiceReads, ComputeTTL, ReplyUncached, RedisSet,
   RedisSetFails, ServiceCommits, MutationFails, BeginScan,
   DeleteKey, DeleteFails, ScanFails, storeVars

\* Only SET adds an entry.
LEMMA OnlySetStores ==
  ASSUME NEW h \in Handlers, Step(h), ~RedisSet(h)
  PROVE  cache' \subseteq cache
BY DEF Step, Arrive, RedisGetHit, RedisGetMiss, Authorise,
   Unauthorised, ServiceReads, ComputeTTL, ReplyUncached, RedisSetFails,
   ServiceCommits, MutationFails, BeginScan, ReplyWithoutScan, DeleteKey,
   DeleteFails, ScanFails, EndScan, storeVars

\* Mutations commit and are never undone.
LEMMA VersionsOnlyGrow ==
  ASSUME CacheInv, NEW h \in Handlers, Step(h)
  PROVE  version' \in Nat /\ version <= version'
BY DEF Step, Arrive, RedisGetHit, RedisGetMiss, Authorise,
   Unauthorised, ServiceReads, ComputeTTL, ReplyUncached, RedisSet,
   RedisSetFails, ServiceCommits, MutationFails, BeginScan,
   ReplyWithoutScan, DeleteKey, DeleteFails, ScanFails, EndScan, storeVars,
   CacheInv, TypeOK

\* What a read stores shows what its token was told.
LEMMA StoreShowsWrites ==
  ASSUME CacheInv, WritesInv, NEW h \in Handlers, RedisSet(h)
  PROVE  /\ call[h].token \in Tokens
         /\ acked[Owner[call[h].token]] <= body[h].version
<1>1. pc[h] = "storing" /\ UsesCache(call[h], start[h])
  BY DEF RedisSet, CacheInv, HandlerInv, StoreInv
<1>2. call[h].token \in Tokens /\ call[h].method = "GET"
  BY <1>1, ConstantsAssumption
     DEF UsesCache, HasScope, CacheInv, TypeOK, Call, Authorizations
<1> QED
  BY <1>1, <1>2, ConstantsAssumption DEF WritesInv, ShowsWrites

\* Every entry of a live token shows what its client had been told.
LEMMA EntriesShowWritesStep ==
  ASSUME ClientsTakeTurns, CacheInv, WritesInv, [Next]_vars
  PROVE  /\ \A p \in Principals : acked'[p] <= version'
         /\ EntriesShowWrites'
<1>1. CASE Tick
  <2>1. ASSUME NEW e \in cache', Live(e.key.token, clock')
        PROVE  e \in cache /\ Live(e.key.token, clock)
    <3>1. e \in cache /\ clock' = clock + 1 /\ clock \in Nat
      BY <1>1 DEF Tick, CacheInv, TypeOK
    <3>2. e.key.token \in Tokens
      BY <3>1 DEF CacheInv, TypeOK, Entries, Keys
    <3> QED
      BY <2>1, <3>1, <3>2, ConstantsAssumption DEF Live
  <2> QED
    BY <1>1, <2>1 DEF Tick, WritesInv, EntriesShowWrites
<1>2. ASSUME NEW h \in Handlers, Step(h), ~ReplyWithoutScan(h), ~EndScan(h)
      PROVE  /\ \A p \in Principals : acked'[p] <= version'
             /\ EntriesShowWrites'
  <2>1. acked' = acked /\ clock' = clock /\ version' \in Nat
        /\ version <= version'
    BY <1>2, OnlyAnswersAcknowledge, VersionsOnlyGrow
  <2>2. CASE RedisSet(h)
    BY <2>1, <2>2, StoreShowsWrites
       DEF RedisSet, KeyOf, WritesInv, EntriesShowWrites, CacheInv, TypeOK
  <2>3. CASE ~RedisSet(h)
    BY <1>2, <2>1, <2>3, OnlySetStores
       DEF WritesInv, EntriesShowWrites, CacheInv, TypeOK
  <2>4. \A p \in Principals : acked'[p] <= version'
    BY <2>1 DEF WritesInv, CacheInv, TypeOK
  <2> QED
    BY <2>2, <2>3, <2>4
<1>3. CASE UNCHANGED vars
  BY <1>3 DEF vars, storeVars, WritesInv, EntriesShowWrites
<1> QED
  BY <1>1, <1>2, <1>3, AcknowledgeWrites DEF Next

\* What a handler that does not move holds stays good: its token is told
\* nothing more and stores nothing while the call is in flight.
LEMMA BystanderShowsWrites ==
  ASSUME CacheInv, WritesInv, NEW g \in Handlers, pc'[g] = pc[g],
         call'[g] = call[g], floor'[g] = floor[g], body'[g] = body[g],
         version' \in Nat, version <= version', CacheMovesOn(g),
         ~Free(g) /\ call[g].token # NoToken
           => acked'[Owner[call[g].token]] = acked[Owner[call[g].token]],
         ~Free(g) => \A e \in cache' :
                       e.key.token = call[g].token => e \in cache,
         pc[g] = "scanning" => \A e \in cache' : e.key.token = call[g].token
                                 => e.key \in targets'[g]
  PROVE  ShowsWrites(g)'
<1>1. ShowsWrites(g)
  BY DEF WritesInv
<1>2. pc'[g] \in {"answered", "scanning"} => body'[g].version <= version'
  <2>1. pc[g] \in {"answered", "scanning"} => body[g].version \in Nat
    BY DEF CacheInv, HandlerInv, AnswerInv, BuiltFor, Bodies
  <2> QED
    BY <1>1, <2>1 DEF ShowsWrites, CacheInv, TypeOK
<1> QED
  BY <1>1, <1>2 DEF ShowsWrites, Free

\* Entries that go take their debts with them.
LEMMA StillOwedEveryEntry ==
  ASSUME CacheInv, WritesInv, NEW g \in Handlers, cache' \subseteq cache,
         targets' = StillOwed(cache'), pc[g] = "scanning"
  PROVE  \A e \in cache' : e.key.token = call[g].token
                             => e.key \in targets'[g]
BY DEF StillOwed, KeysIn, WritesInv, ShowsWrites

\* Another call's step: it is of another token.
LEMMA OthersShowWrites ==
  ASSUME ClientsTakeTurns, CacheInv, WritesInv, NEW h \in Handlers, Step(h),
         NEW g \in Handlers, g # h
  PROVE  ShowsWrites(g)'
<1>1. /\ pc'[g] = pc[g] /\ call'[g] = call[g] /\ floor'[g] = floor[g]
      /\ body'[g] = body[g] /\ version' \in Nat /\ version <= version'
  BY StepShape, VersionsOnlyGrow
<1>2. CacheMovesOn(g)
  BY OthersMoveTheCacheOn
<1>3. ASSUME ~Free(g), ~Free(h) PROVE call[g].token # call[h].token
  BY <1>3 DEF WritesInv, OneCallPerToken
<1>4. ASSUME ~Free(g), call[g].token # NoToken
      PROVE  acked'[Owner[call[g].token]] = acked[Owner[call[g].token]]
  <2>1. call[g].token \in Tokens
    BY <1>4, ConstantsAssumption DEF CacheInv, TypeOK, Call, Authorizations
  <2>2. CASE ReplyWithoutScan(h) \/ EndScan(h)
    BY <1>3, <1>4, <2>1, <2>2, OthersAcknowledge
       DEF ReplyWithoutScan, EndScan, Scanning, Free
  <2>3. CASE ~ReplyWithoutScan(h) /\ ~EndScan(h)
    BY <2>3, OnlyAnswersAcknowledge
  <2> QED
    BY <2>2, <2>3
<1>5. ASSUME ~Free(g), NEW e \in cache', e.key.token = call[g].token
      PROVE  e \in cache
  <2>1. CASE RedisSet(h)
    BY <1>3, <1>5, <2>1 DEF RedisSet, KeyOf, Free
  <2> QED
    BY <2>1, OnlySetStores
<1>6. ASSUME pc[g] = "scanning", NEW e \in cache',
             e.key.token = call[g].token
      PROVE  e.key \in targets'[g]
  <2>1. e \in cache
    BY <1>5, <1>6 DEF Free
  <2>2. CASE DeleteKey(h)
    BY <1>6, <2>2, StillOwedEveryEntry DEF DeleteKey
  <2>3. CASE ~DeleteKey(h)
    <3>1. targets'[g] = targets[g]
      BY <2>3 DEF Step, Arrive, RedisGetHit, RedisGetMiss, Authorise,
         Unauthorised, ServiceReads, ComputeTTL, ReplyUncached, RedisSet,
         RedisSetFails, ServiceCommits, MutationFails, BeginScan,
         ReplyWithoutScan, DeleteFails, ScanFails, EndScan, storeVars,
         CacheInv, TypeOK
    <3> QED
      BY <1>6, <2>1, <3>1 DEF WritesInv, ShowsWrites
  <2> QED
    BY <2>2, <2>3
<1> QED
  BY <1>1, <1>2, <1>4, <1>5, <1>6, BystanderShowsWrites

\* A handler's own step does not lose sight of its client's writes.
LEMMA OwnShowsWrites ==
  ASSUME ClientsTakeTurns, CacheInv, WritesInv, NEW h \in Handlers, Step(h)
  PROVE  ShowsWrites(h)'
<1> USE DEF ShowsWrites
<1>1. ASSUME NEW c \in Calls, Arrive(h, c) PROVE ShowsWrites(h)'
  <2>1. CASE ~UsesCache(c, clock)
    BY <1>1, <2>1 DEF Arrive, CacheInv, TypeOK
  <2>2. CASE UsesCache(c, clock)
    <3>1. c.token \in Tokens /\ Live(c.token, clock)
      BY <2>2, ConstantsAssumption
         DEF UsesCache, HasScope, Call, Authorizations
    <3>2. /\ pc'[h] = "lookup" /\ call'[h] = c /\ cache' = cache
          /\ floor'[h] = acked[Owner[c.token]]
      BY <1>1, <2>2, <3>1, ConstantsAssumption
         DEF Arrive, CacheInv, TypeOK, storeVars
    <3> QED
      BY <3>1, <3>2 DEF WritesInv, EntriesShowWrites
  <2> QED
    BY <2>1, <2>2
<1>2. CASE RedisGetHit(h)
  BY <1>2 DEF RedisGetHit, Goto, KeyOf, WritesInv, CacheInv, TypeOK
<1>3. CASE RedisGetMiss(h) \/ Authorise(h)
  BY <1>3 DEF RedisGetMiss, Authorise, Goto, CacheInv, TypeOK
<1>4. CASE ServiceReads(h)
  <2>1. call[h].token # NoToken => Owner[call[h].token] \in Principals
    BY ConstantsAssumption DEF CacheInv, TypeOK, Call, Authorizations
  <2>2. /\ pc'[h] = "answered" /\ call'[h] = call[h]
        /\ body'[h].version = version /\ version' = version /\ acked' = acked
    BY <1>4 DEF ServiceReads, Goto, CacheInv, TypeOK, storeVars
  <2> QED
    BY <2>1, <2>2 DEF WritesInv, CacheInv, TypeOK
<1>5. CASE ServiceCommits(h)
  <2>1. /\ pc'[h] = "answered" /\ call'[h] = call[h]
        /\ body'[h].version = version' /\ version' \in Nat
        /\ call[h].method = "MUTATION"
    BY <1>5 DEF ServiceCommits, Goto, CacheInv, TypeOK
  <2> QED
    BY <2>1
<1>6. CASE ComputeTTL(h)
  BY <1>6 DEF ComputeTTL, Goto, WritesInv, CacheInv, TypeOK, storeVars
<1>7. ASSUME \/ Unauthorised(h)
             \/ ReplyUncached(h)
             \/ RedisSet(h)
             \/ RedisSetFails(h)
             \/ MutationFails(h)
             \/ ReplyWithoutScan(h)
             \/ EndScan(h)
      PROVE  ShowsWrites(h)'
  <2>1. pc'[h] = "idle"
    BY <1>7 DEF Unauthorised, ReplyUncached, RedisSet, RedisSetFails,
       MutationFails, ReplyWithoutScan, EndScan, Return, CacheInv, TypeOK
  <2> QED
    BY <2>1
<1>8. CASE BeginScan(h)
  <2>1. /\ pc'[h] = "scanning" /\ call'[h] = call[h] /\ body'[h] = body[h]
        /\ version' = version /\ cache' = cache /\ pc[h] = "answered"
        /\ targets'[h] = {k \in KeysIn(cache) : InvalidatedBy(call[h], k)}
    BY <1>8 DEF BeginScan, Goto, CacheInv, TypeOK, storeVars
  <2> QED
    BY <2>1 DEF WritesInv, InvalidatedBy, KeysIn
<1>9. CASE DeleteKey(h)
  <2>1. pc[h] = "scanning"
    BY <1>9 DEF DeleteKey, Scanning, WritesInv
  <2>2. \A e \in cache' : e.key.token = call[h].token
                            => e.key \in targets'[h]
    BY <1>9, <2>1, StillOwedEveryEntry DEF DeleteKey
  <2> QED
    BY <1>9, <2>1, <2>2 DEF DeleteKey, WritesInv
<1>10. ~DeleteFails(h) /\ ~ScanFails(h)
  BY DEF DeleteFails, ScanFails, ClientsTakeTurns
<1> QED
  BY <1>1, <1>2, <1>3, <1>4, <1>5, <1>6, <1>7, <1>8, <1>9, <1>10 DEF Step

\* Every step of clients that take turns keeps their writes in sight.
LEMMA WritesInvStep ==
  ASSUME ClientsTakeTurns
  PROVE  CacheInv /\ WritesInv /\ [Next]_vars => WritesInv'
<1> SUFFICES ASSUME CacheInv, WritesInv, [Next]_vars PROVE WritesInv'
  OBVIOUS
<1>1. ASSUME NEW g \in Handlers PROVE ShowsWrites(g)'
  <2>1. CASE Tick
    <3>1. CacheMovesOn(g)
      BY <2>1, StillOwedCovers DEF Tick
    <3>2. pc[g] = "scanning" => \A e \in cache' :
            e.key.token = call[g].token => e.key \in targets'[g]
      BY <2>1, StillOwedEveryEntry DEF Tick
    <3> QED
      BY <2>1, <3>1, <3>2, BystanderShowsWrites DEF Tick, CacheInv, TypeOK
  <2>2. ASSUME NEW h \in Handlers, Step(h) PROVE ShowsWrites(g)'
    BY <2>2, OwnShowsWrites, OthersShowWrites
  <2>3. CASE UNCHANGED vars
    BY <2>3 DEF vars, storeVars, handlerVars, WritesInv, ShowsWrites
  <2> QED
    BY <2>1, <2>2, <2>3 DEF Next
<1> QED
  BY <1>1, OneCallStep, EntriesShowWritesStep DEF WritesInv

\* A client that takes turns reads its own writes: a HIT shows every mutation
\* that had been acknowledged to its caller when the call arrived.
THEOREM OwnWritesAreRead ==
  ASSUME ClientsTakeTurns
  PROVE  Spec => []ReadYourWrites
<1>1. Init => WritesInv
  BY DEF Init, WritesInv, OneCallPerToken, EntriesShowWrites, ShowsWrites,
     Free
<1>2. CacheInv /\ WritesInv /\ [Next]_vars => WritesInv'
  BY WritesInvStep
<1>3. CacheInv /\ WritesInv => ReadYourWrites
  <2> SUFFICES ASSUME CacheInv, WritesInv, NEW h \in Handlers, pc[h] = "hit"
               PROVE  body[h].version >= floor[h]
    BY DEF ReadYourWrites
  <2>1. body[h].version \in Nat /\ floor[h] \in Nat
    BY DEF CacheInv, TypeOK, HandlerInv, HitInv, Bodies
  <2> QED
    BY <2>1 DEF WritesInv, ShowsWrites
<1> QED
  BY <1>1, <1>2, <1>3, CacheInvariant, PTL DEF Spec

=============================================================================
