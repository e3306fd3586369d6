--------------------------- MODULE RevocationList ---------------------------
(***************************************************************************)
(* The view-as-user guard of the gateway and its cached list of ended      *)
(* sessions: impersonationSessionRevoked, refreshRevokedSet,               *)
(* ImpersonationHTTPGuard and CheckImpersonationGRPC                       *)
(* (src/grpcApi/middleware/impersonation.go).  The list is kept by         *)
(* auth-service; the gateway fetches it when its copy is older than        *)
(* RevokedTTL, under the write lock of an RWMutex that every reader of the *)
(* copy takes too.  In front of the guard stands the response cache        *)
(* (ResponseCache): a HIT is answered without asking it.                   *)
(*                                                                         *)
(* The read-locked section copies two words and never blocks, so it is one *)
(* step, possible when nobody holds the write lock.                        *)
(***************************************************************************)
EXTENDS Integers

CONSTANTS
  Handlers,      \* goroutines serving calls
  Sessions,      \* the jti of view-as-user sessions
  NoJti,         \* a view-as-user token without a jti
  Ordinary,      \* the token of an ordinary session
  Calls,         \* the calls clients may make
  RevokedTTL,    \* revokedTTL
  FetchTimeout,  \* revokedClient.Timeout
  CacheLife,     \* longest time from the guard's decision to the end of the
                 \* cache entry it let be stored: StalenessBound of ResponseCache
  NoEntry,       \* nothing is cached, or the answer is not from the cache
  Nobody,        \* nobody holds the write lock
  MaxTime        \* bound of the clock

Identities == Sessions \cup {NoJti, Ordinary}

\* read: the HTTP method is safe, the gRPC method a read.
Call == [session : Identities, transport : {"HTTP", "GRPC"}, read : BOOLEAN]

\* The decision of the guard an answer goes back to.  guess: the fetch of the
\* call it was made for had failed.
Origins == [at : Nat, guess : BOOLEAN]

ASSUME ConstantsAssumption ==
  /\ NoJti \notin Sessions
  /\ Ordinary \notin Sessions
  /\ NoJti # Ordinary
  /\ Nobody \notin Handlers
  /\ Calls \subseteq Call /\ Calls # {}
  /\ RevokedTTL \in Nat \ {0}
  /\ FetchTimeout \in Nat
  /\ CacheLife \in Nat
  /\ NoEntry \notin Origins
  /\ MaxTime \in Nat

VARIABLES
  clock,
  ended,       \* sessions auth-service has ended
  endedAt,     \* and when
  revokedSet,  \* the gateway's copy of the list
  fetchedAt,   \* revokedFetched: when it was stored
  writer,      \* who holds the write lock of revokedMu
  pc, call,    \* what each handler does, and for which call
  begun,       \* when its fetch was sent
  snapshot,    \* the list auth-service answered it with
  verdict,     \* what it was told
  decidedAt,   \* and when
  cached,      \* the answer Redis keeps for each session: entries of different
               \* paths and scopes do not touch, so one stands for all
  origin       \* the entry a HIT was answered with

serviceVars == <<ended, endedAt>>
copyVars    == <<revokedSet, fetchedAt>>
vars == <<clock, serviceVars, copyVars, writer, pc, call, begun, snapshot,
          verdict, decidedAt, cached, origin>>

-----------------------------------------------------------------------------
AnyCall == CHOOSE c \in Calls : TRUE

\* Mutant: off by one, a copy lives a second longer.
FreshInclusive == clock - fetchedAt <= RevokedTTL

Fresh == clock - fetchedAt < RevokedTTL

\* ImpersonationHTTPGuard after JWTAuthMiddleware; the gRPC chain of main.go
\* has no interceptor that calls CheckImpersonationGRPC.
Guarded(c) == c.transport = "HTTP"

\* Neither an ordinary session nor one without a jti is looked up.
LookedUp(c) == Guarded(c) /\ c.session \in Sessions

\* What the guard says of a call, given the list it looked it up in.
VerdictOn(c, list) ==
  IF ~Guarded(c) \/ c.session = Ordinary THEN "allowed"
  ELSE IF c.session \in list THEN "revoked"
  ELSE IF c.read THEN "allowed"
  ELSE "read_only"

\* outcome: "decided", or "unrefreshed" when a fetch for this call has failed.
Decide(h, c, list, outcome) ==
  /\ pc' = [pc EXCEPT ![h] = outcome]
  /\ verdict' = [verdict EXCEPT ![h] = VerdictOn(c, list)]
  /\ decidedAt' = [decidedAt EXCEPT ![h] = clock]
  /\ snapshot' = [snapshot EXCEPT ![h] = {}]
  /\ begun' = [begun EXCEPT ![h] = 0]
  /\ origin' = [origin EXCEPT ![h] = NoEntry]

Free(h) == pc[h] \in {"idle", "decided", "unrefreshed", "hit"}

\* A session whose answer is in the cache, and still is at time t.
Held(s, t) == cached[s] # NoEntry /\ t < cached[s].at + CacheLife

-----------------------------------------------------------------------------
\* revokedFetched is the zero time: long enough ago.  A nil map and an empty
\* one answer every lookup alike.
Init ==
  /\ clock = 0
  /\ ended = {}
  /\ endedAt = [s \in Sessions |-> 0]
  /\ revokedSet = {}
  /\ fetchedAt = -(RevokedTTL + 1)
  /\ writer = Nobody
  /\ pc = [h \in Handlers |-> "idle"]
  /\ call = [h \in Handlers |-> AnyCall]
  /\ begun = [h \in Handlers |-> 0]
  /\ snapshot = [h \in Handlers |-> {}]
  /\ verdict = [h \in Handlers |-> "none"]
  /\ decidedAt = [h \in Handlers |-> 0]
  /\ cached = [s \in Sessions |-> NoEntry]
  /\ origin = [h \in Handlers |-> NoEntry]

\* A second passes, unless the client's timeout is due on a fetch.  Redis drops
\* what has expired.
Tick ==
  /\ clock < MaxTime
  /\ \A h \in Handlers :
       pc[h] \in {"fetching", "answered"} => clock < begun[h] + FetchTimeout
  /\ clock' = clock + 1
  /\ cached' = [s \in Sessions |->
                  IF Held(s, clock') THEN cached[s] ELSE NoEntry]
  /\ UNCHANGED <<serviceVars, copyVars, writer, pc, call, begun, snapshot,
                 verdict, decidedAt, origin>>

\* An admin presses Exit: auth-service records the jti for good.
EndSession(s) ==
  /\ s \notin ended
  /\ ended' = ended \cup {s}
  /\ endedAt' = [endedAt EXCEPT ![s] = clock]
  /\ UNCHANGED <<clock, copyVars, writer, pc, call, begun, snapshot, verdict,
                 decidedAt, cached, origin>>

\* CacheMiddleware, in front of the guard, answers a read from its entry: a
\* session's token is the same string after its end.
AnswerFromCache(h, c) ==
  /\ Free(h)
  /\ LookedUp(c) /\ c.read
  /\ cached[c.session] # NoEntry
  /\ pc' = [pc EXCEPT ![h] = "hit"]
  /\ call' = [call EXCEPT ![h] = c]
  /\ verdict' = [verdict EXCEPT ![h] = "allowed"]
  /\ decidedAt' = [decidedAt EXCEPT ![h] = clock]
  /\ origin' = [origin EXCEPT ![h] = cached[c.session]]
  /\ UNCHANGED <<clock, serviceVars, copyVars, writer, begun, snapshot, cached>>

\* A MISS, or a call that does not use the cache, reaches the guard; what needs
\* no lookup is decided at once.
Arrive(h, c) ==
  /\ Free(h)
  /\ call' = [call EXCEPT ![h] = c]
  /\ IF LookedUp(c)
     THEN /\ pc' = [pc EXCEPT ![h] = "checking"]
          /\ verdict' = [verdict EXCEPT ![h] = "none"]
          /\ decidedAt' = [decidedAt EXCEPT ![h] = 0]
          /\ origin' = [origin EXCEPT ![h] = NoEntry]
          /\ UNCHANGED <<begun, snapshot>>
     ELSE Decide(h, c, {}, "decided")
  /\ UNCHANGED <<clock, serviceVars, copyVars, writer, cached>>

\* Under RLock: the copy and its age.  A fresh copy decides.
ReadCopy(h) ==
  /\ pc[h] = "checking"
  /\ writer = Nobody
  /\ IF Fresh
     THEN Decide(h, call[h], revokedSet, "decided")
     ELSE /\ pc' = [pc EXCEPT ![h] = "waiting"]
          /\ UNCHANGED <<begun, snapshot, verdict, decidedAt, origin>>
  /\ UNCHANGED <<clock, serviceVars, copyVars, writer, call, cached>>

\* refreshRevokedSet has the lock; another goroutine has refreshed meanwhile.
FindFresh(h) ==
  /\ pc[h] = "waiting"
  /\ writer = Nobody
  /\ Fresh
  /\ Decide(h, call[h], revokedSet, "decided")
  /\ UNCHANGED <<clock, serviceVars, copyVars, writer, call, cached>>

\* It has the lock, the copy is still stale: the fetch is sent.
BeginFetch(h) ==
  /\ pc[h] = "waiting"
  /\ writer = Nobody
  /\ ~Fresh
  /\ writer' = h
  /\ pc' = [pc EXCEPT ![h] = "fetching"]
  /\ begun' = [begun EXCEPT ![h] = clock]
  /\ UNCHANGED <<clock, serviceVars, copyVars, call, snapshot, verdict,
                 decidedAt, cached, origin>>

\* auth-service reads its list.
ServiceAnswers(h) ==
  /\ pc[h] = "fetching"
  /\ snapshot' = [snapshot EXCEPT ![h] = ended]
  /\ pc' = [pc EXCEPT ![h] = "answered"]
  /\ UNCHANGED <<clock, serviceVars, copyVars, writer, call, begun, verdict,
                 decidedAt, cached, origin>>

\* Mutant: the copy is dated but not replaced.
FetchSucceedsDatingOnly(h) ==
  /\ pc[h] = "answered"
  /\ revokedSet' = revokedSet
  /\ fetchedAt' = clock
  /\ writer' = Nobody
  /\ Decide(h, call[h], revokedSet', "decided")
  /\ UNCHANGED <<clock, serviceVars, call, cached>>

\* The body is decoded: the copy is replaced and dated now, the lock released.
FetchSucceeds(h) ==
  /\ pc[h] = "answered"
  /\ revokedSet' = snapshot[h]
  /\ fetchedAt' = clock
  /\ writer' = Nobody
  /\ Decide(h, call[h], revokedSet', "decided")
  /\ UNCHANGED <<clock, serviceVars, call, cached>>

\* Mutants: the copy is emptied before the fetch, or the error path returns
\* with the lock held.
FetchFailsEmptying(h) ==
  /\ pc[h] \in {"fetching", "answered"}
  /\ writer' = Nobody
  /\ revokedSet' = {}
  /\ Decide(h, call[h], {}, "unrefreshed")
  /\ UNCHANGED <<clock, serviceVars, fetchedAt, call, cached>>
FetchFailsLocked(h) ==
  /\ pc[h] \in {"fetching", "answered"}
  /\ Decide(h, call[h], revokedSet, "unrefreshed")
  /\ UNCHANGED <<clock, serviceVars, copyVars, writer, call, cached>>

\* An error, a status other than 200, a bad body or the timeout: what was
\* there is kept, with its date.
FetchFails(h) ==
  /\ pc[h] \in {"fetching", "answered"}
  /\ writer' = Nobody
  /\ Decide(h, call[h], revokedSet, "unrefreshed")
  /\ UNCHANGED <<clock, serviceVars, copyVars, call, cached>>

\* Mutant: the entry counts its life from when it is stored.
StoreAnswerAnew(h) ==
  /\ pc[h] \in {"decided", "unrefreshed"}
  /\ LookedUp(call[h]) /\ call[h].read /\ verdict[h] = "allowed"
  /\ cached' = [cached EXCEPT ![call[h].session] =
                  [at |-> clock, guess |-> pc[h] = "unrefreshed"]]
  /\ UNCHANGED <<clock, serviceVars, copyVars, writer, pc, call, begun, snapshot,
                 verdict, decidedAt, origin>>

\* The 200 that a read let through was answered with is stored, in time.
StoreAnswer(h) ==
  /\ pc[h] \in {"decided", "unrefreshed"}
  /\ LookedUp(call[h]) /\ call[h].read /\ verdict[h] = "allowed"
  /\ clock < decidedAt[h] + CacheLife
  /\ cached' = [cached EXCEPT ![call[h].session] =
                  [at |-> decidedAt[h], guess |-> pc[h] = "unrefreshed"]]
  /\ UNCHANGED <<clock, serviceVars, copyVars, writer, pc, call, begun, snapshot,
                 verdict, decidedAt, origin>>

Serve(h) ==
  \/ ReadCopy(h)
  \/ FindFresh(h)
  \/ BeginFetch(h)
  \/ ServiceAnswers(h)
  \/ FetchSucceeds(h)
  \/ FetchFails(h)

Next ==
  \/ Tick
  \/ \E s \in Sessions : EndSession(s)
  \/ \E h \in Handlers, c \in Calls : AnswerFromCache(h, c) \/ Arrive(h, c)
  \/ \E h \in Handlers : Serve(h) \/ StoreAnswer(h)

Spec == Init /\ [][Next]_vars

\* A goroutine that can run does; a mutex does not starve a goroutine that
\* waits for it; an exchange with auth-service ends, at the latest with the
\* timeout of revokedClient.
Fairness == \A h \in Handlers : SF_vars(Serve(h))

FairSpec == Spec /\ Fairness

-----------------------------------------------------------------------------
\* Every variable has its type.
TypeOK ==
  /\ clock \in Nat
  /\ ended \in SUBSET Sessions
  /\ endedAt \in [Sessions -> Nat]
  /\ revokedSet \in SUBSET Sessions
  /\ fetchedAt \in Int
  /\ writer \in Handlers \cup {Nobody}
  /\ pc \in [Handlers -> {"idle", "checking", "waiting", "fetching",
                          "answered", "decided", "unrefreshed", "hit"}]
  /\ call \in [Handlers -> Calls]
  /\ begun \in [Handlers -> Nat]
  /\ snapshot \in [Handlers -> SUBSET Sessions]
  /\ verdict \in [Handlers -> {"none", "allowed", "revoked", "read_only"}]
  /\ decidedAt \in [Handlers -> Nat]
  /\ cached \in [Sessions -> Origins \cup {NoEntry}]
  /\ origin \in [Handlers -> Origins \cup {NoEntry}]

\* An ended session is served over HTTP only within the TTL and one fetch of its
\* end, and by a HIT, in front of the guard, only within the life of a cache
\* entry more: unless the fetch of the call the answer goes back to failed
\* (impersonation.go:36-47, cache.go:64-68).  That the fetches of other calls
\* fail does not matter.
WindowIsBounded ==
  \A h \in Handlers :
    verdict[h] = "allowed" /\ LookedUp(call[h]) /\ call[h].session \in ended =>
      LET window == endedAt[call[h].session] + RevokedTTL + FetchTimeout
      IN  /\ pc[h] = "decided" => decidedAt[h] < window
          /\ pc[h] = "hit" /\ ~origin[h].guess =>
               decidedAt[h] < window + CacheLife

\* "A stale list [...] still blocks everything it already knew about"
\* (impersonation.go:234-235): no refresh, failed, slow or concurrent with
\* another, forgets a session.
NothingKnownIsForgotten == [][revokedSet \subseteq revokedSet']_vars

\* Whatever auth-service does, every call is decided: no caller waits for the
\* list for ever.
EveryCallIsDecided ==
  \A h \in Handlers : pc[h] = "checking" ~> pc[h] \in {"decided", "unrefreshed"}

-----------------------------------------------------------------------------
(* The inductive invariant, proved in RevocationListProofs.                *)

\* What the copy misses ended at most one fetch before the copy was stored.
CopyInv ==
  /\ revokedSet \subseteq ended
  /\ fetchedAt <= clock
  /\ \A s \in ended : endedAt[s] <= clock
  /\ \A s \in ended \ revokedSet : fetchedAt <= endedAt[s] + FetchTimeout

\* A fetch holds the lock and its timeout is not over.  Its answer knows what
\* the copy knows and misses only what ended since it was sent.
FetchInv(h) ==
  /\ pc[h] \in {"fetching", "answered"} =>
       /\ writer = h
       /\ begun[h] <= clock /\ clock <= begun[h] + FetchTimeout
  /\ pc[h] = "answered" =>
       /\ revokedSet \subseteq snapshot[h] /\ snapshot[h] \subseteq ended
       /\ \A s \in ended \ snapshot[h] : begun[h] <= endedAt[s]

\* A call that was let through was decided with a list recent enough.
DecisionInv(h) == pc[h] = "decided" =>
  /\ decidedAt[h] <= clock
  /\ verdict[h] = "allowed" /\ LookedUp(call[h])
       /\ call[h].session \in ended
     => decidedAt[h] < endedAt[call[h].session] + RevokedTTL + FetchTimeout

\* What has been decided was decided before now.
AnsweredInv(h) == pc[h] \in {"decided", "unrefreshed"} => decidedAt[h] <= clock

\* A decision the guard took at time t on a session, with a list recent enough.
Justified(s, t) ==
  s \in ended => t < endedAt[s] + RevokedTTL + FetchTimeout

\* An entry goes back to a decision less than its life ago.
EntryInv(s) == cached[s] # NoEntry =>
  /\ cached[s].at <= clock /\ clock < cached[s].at + CacheLife
  /\ ~cached[s].guess => Justified(s, cached[s].at)

\* And so did a HIT when it was answered.
HitInv(h) == pc[h] = "hit" =>
  /\ origin[h] # NoEntry
  /\ LookedUp(call[h])
  /\ origin[h].at <= clock
  /\ decidedAt[h] < origin[h].at + CacheLife
  /\ ~origin[h].guess => Justified(call[h].session, origin[h].at)

\* Only calls that need the list get as far as the list.
LookupInv(h) ==
  pc[h] \in {"checking", "waiting", "fetching", "answered"} =>
    LookedUp(call[h])

\* The copy and every handler are sound: the inductive invariant, from which
\* the window and the memory of the guard follow.
RevocationInv ==
  /\ TypeOK
  /\ CopyInv
  /\ \A h \in Handlers :
       FetchInv(h) /\ DecisionInv(h) /\ LookupInv(h) /\ AnsweredInv(h)
         /\ HitInv(h)
  /\ \A s \in Sessions : EntryInv(s)

-----------------------------------------------------------------------------
(* The promise, which the detailed specification implements.               *)

\* What is seen of a handler: the guard's answer to a call that needs the list.
\* A HIT is no answer of the guard.
AnswerSeen(h) ==
  IF pc[h] \in {"decided", "unrefreshed"} /\ LookedUp(call[h])
  THEN [session |-> call[h].session, verdict |-> verdict[h],
        guess |-> pc[h] = "unrefreshed"]
  ELSE [verdict |-> "pending"]

Promise == INSTANCE RevocationPromise WITH
  Window <- RevokedTTL + FetchTimeout,
  known  <- revokedSet,
  answer <- [h \in Handlers |-> AnswerSeen(h)]

\* With its copy, its lock and its fetches that overlap, fail and come late,
\* the guard does nothing that RevocationPromise does not allow
\* (impersonation.go:197-260).
KeepsThePromise == Promise!PromiseSpec

-----------------------------------------------------------------------------
(* What the comments promise and the code does not keep.                   *)

\* "The window between an admin pressing Exit and the token becoming inert is
\* the cache TTL" (impersonation.go:39-41).  False for a HIT in front of the
\* guard, and by a fetch.
ExitIsWithinTheTTL ==
  \A h \in Handlers :
    /\ pc[h] \in {"decided", "hit"} /\ verdict[h] = "allowed"
    /\ LookedUp(call[h]) /\ call[h].session \in ended
    => decidedAt[h] <= endedAt[call[h].session] + RevokedTTL

\* "HTTP - only GET / HEAD / OPTIONS are allowed [...]  gRPC - an ALLOWLIST of
\* read verb prefixes" (impersonation.go:20-30): a view-as-user session does
\* not change anything.
ViewAsUserOnlyReads ==
  \A h \in Handlers :
    verdict[h] = "allowed" /\ Free(h) /\ call[h].session # Ordinary
    => call[h].read

=============================================================================
