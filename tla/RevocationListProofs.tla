------------------------ MODULE RevocationListProofs ------------------------
(***************************************************************************)
(* Proofs about RevocationList, for every number of goroutines and         *)
(* sessions, every TTL and every timeout.                                  *)
(*                                                                         *)
(* RevocationInv is inductive: the lock makes the fetches take turns, so   *)
(* the answer stored last was also read last, and knows what the copy it   *)
(* replaces knew.                                                          *)
(***************************************************************************)
EXTENDS RevocationList, TLAPS

\* The placeholder call is one of the calls.
LEMMA AnyCallIsACall == AnyCall \in Calls
BY ConstantsAssumption DEF AnyCall

Decided == {"none", "allowed", "revoked", "read_only"}

\* A decision is well typed, dated now and says what the list says.
LEMMA DecideFacts ==
  ASSUME TypeOK, NEW h \in Handlers, NEW c, NEW list,
         NEW how \in {"decided", "unrefreshed"}, Decide(h, c, list, how)
  PROVE  /\ pc' \in [Handlers -> {"idle", "checking", "waiting", "fetching",
                                  "answered", "decided", "unrefreshed", "hit"}]
         /\ begun' \in [Handlers -> Nat]
         /\ snapshot' \in [Handlers -> SUBSET Sessions]
         /\ verdict' \in [Handlers -> Decided]
         /\ decidedAt' \in [Handlers -> Nat]
         /\ origin' \in [Handlers -> Origins \cup {NoEntry}]
         /\ pc'[h] = how /\ decidedAt'[h] = clock
         /\ verdict'[h] = VerdictOn(c, list)
         /\ \A g \in Handlers \ {h} :
              /\ pc'[g] = pc[g] /\ begun'[g] = begun[g]
              /\ snapshot'[g] = snapshot[g] /\ verdict'[g] = verdict[g]
              /\ decidedAt'[g] = decidedAt[g] /\ origin'[g] = origin[g]
<1>1. VerdictOn(c, list) \in Decided
  BY DEF VerdictOn, Decided
<1> QED
  BY <1>1 DEF TypeOK, Decide, Decided

\* Every step keeps the types.
LEMMA TypeStep ==
  ASSUME RevocationInv, [Next]_vars
  PROVE  TypeOK'
<1> USE DEF RevocationInv, serviceVars, copyVars, Decided
<1>1. CASE Tick
  <2>1. cached' \in [Sessions -> Origins \cup {NoEntry}]
    BY <1>1 DEF Tick, TypeOK
  <2> QED
    BY <1>1, <2>1 DEF Tick, TypeOK
<1>2. ASSUME NEW s \in Sessions, EndSession(s) PROVE TypeOK'
  BY <1>2 DEF EndSession, TypeOK
<1>11. ASSUME NEW h \in Handlers, NEW c \in Calls, AnswerFromCache(h, c)
       PROVE  TypeOK'
  BY <1>11 DEF AnswerFromCache, LookedUp, TypeOK
<1>12. ASSUME NEW h \in Handlers, StoreAnswer(h) PROVE TypeOK'
  <2>1. PICK guess \in BOOLEAN : guess = (pc[h] = "unrefreshed")
    OBVIOUS
  <2>2. [at |-> decidedAt[h], guess |-> guess] \in Origins
    BY DEF TypeOK, Origins
  <2> QED
    BY <1>12, <2>1, <2>2 DEF StoreAnswer, TypeOK
<1>3. ASSUME NEW h \in Handlers, NEW c \in Calls, Arrive(h, c) PROVE TypeOK'
  <2>1. CASE LookedUp(c)
    BY <1>3, <2>1 DEF Arrive, TypeOK
  <2>2. CASE ~LookedUp(c)
    BY <1>3, <2>2, DecideFacts DEF Arrive, TypeOK
  <2> QED
    BY <2>1, <2>2
<1>4. ASSUME NEW h \in Handlers, ReadCopy(h) PROVE TypeOK'
  <2>1. CASE Fresh
    BY <1>4, <2>1, DecideFacts DEF ReadCopy, TypeOK
  <2>2. CASE ~Fresh
    BY <1>4, <2>2 DEF ReadCopy, TypeOK
  <2> QED
    BY <2>1, <2>2
<1>5. ASSUME NEW h \in Handlers, FindFresh(h) PROVE TypeOK'
  BY <1>5, DecideFacts DEF FindFresh, TypeOK
<1>6. ASSUME NEW h \in Handlers, BeginFetch(h) PROVE TypeOK'
  BY <1>6 DEF BeginFetch, TypeOK
<1>7. ASSUME NEW h \in Handlers, ServiceAnswers(h) PROVE TypeOK'
  BY <1>7 DEF ServiceAnswers, TypeOK
<1>8. ASSUME NEW h \in Handlers, FetchSucceeds(h) PROVE TypeOK'
  BY <1>8, DecideFacts DEF FetchSucceeds, TypeOK
<1>9. ASSUME NEW h \in Handlers, FetchFails(h) PROVE TypeOK'
  BY <1>9, DecideFacts DEF FetchFails, TypeOK
<1>10. CASE UNCHANGED vars
  BY <1>10 DEF vars, TypeOK
<1> QED
  BY <1>1, <1>2, <1>3, <1>4, <1>5, <1>6, <1>7, <1>8, <1>9, <1>10, <1>11, <1>12
     DEF Next, Serve

\* The stored answer was sent for at most a timeout ago.
LEMMA CopyStep ==
  ASSUME RevocationInv, [Next]_vars
  PROVE  CopyInv'
<1> USE DEF RevocationInv, serviceVars, copyVars
<1>1. CASE Tick
  BY <1>1 DEF Tick, CopyInv, TypeOK
<1>2. ASSUME NEW s \in Sessions, EndSession(s) PROVE CopyInv'
  <2>1. /\ clock \in Nat /\ fetchedAt \in Int /\ fetchedAt <= clock
        /\ fetchedAt' = fetchedAt /\ clock' = clock
        /\ revokedSet' = revokedSet
    BY <1>2 DEF EndSession, CopyInv, TypeOK
  <2>2. ended' = ended \cup {s} /\ s \notin ended /\ endedAt'[s] = clock
    BY <1>2 DEF EndSession, TypeOK
  <2>3. \A r \in ended : r # s /\ endedAt'[r] = endedAt[r]
    BY <1>2, <2>2 DEF EndSession, TypeOK
  <2> QED
    BY <2>1, <2>2, <2>3, ConstantsAssumption DEF CopyInv
<1>3. ASSUME NEW h \in Handlers, FetchSucceeds(h) PROVE CopyInv'
  <2>1. /\ begun[h] \in Nat /\ clock \in Nat
        /\ clock <= begun[h] + FetchTimeout
        /\ snapshot[h] \subseteq ended
        /\ \A s \in ended \ snapshot[h] : begun[h] <= endedAt[s]
    BY <1>3 DEF FetchSucceeds, FetchInv, TypeOK
  <2>2. /\ revokedSet' = snapshot[h] /\ fetchedAt' = clock /\ clock' = clock
        /\ ended' = ended /\ endedAt' = endedAt
    BY <1>3 DEF FetchSucceeds
  <2>3. \A s \in ended : endedAt[s] \in Nat
    BY DEF TypeOK
  <2> QED
    BY <2>1, <2>2, <2>3, ConstantsAssumption DEF CopyInv
<1>4. ASSUME NEW h \in Handlers, \/ \E c \in Calls : AnswerFromCache(h, c)
                                 \/ \E c \in Calls : Arrive(h, c)
                                 \/ StoreAnswer(h)
                                 \/ ReadCopy(h) \/ FindFresh(h)
                                 \/ BeginFetch(h) \/ ServiceAnswers(h)
                                 \/ FetchFails(h)
      PROVE  CopyInv'
  <2>1. UNCHANGED <<clock, ended, endedAt, revokedSet, fetchedAt>>
    BY <1>4 DEF AnswerFromCache, Arrive, StoreAnswer, ReadCopy, FindFresh,
       BeginFetch, ServiceAnswers, FetchFails
  <2> QED
    BY <2>1 DEF CopyInv
<1>5. CASE UNCHANGED vars
  BY <1>5 DEF vars, CopyInv
<1> QED
  BY <1>1, <1>2, <1>3, <1>4, <1>5 DEF Next, Serve


\* The steps of a handler.
OwnStep(h) ==
  \/ \E c \in Calls : AnswerFromCache(h, c) \/ Arrive(h, c)
  \/ StoreAnswer(h)
  \/ Serve(h)

\* They leave time, the sessions and what the other handlers hold alone.
LEMMA OthersStay ==
  ASSUME TypeOK, NEW h \in Handlers, OwnStep(h)
  PROVE  /\ UNCHANGED <<clock, ended, endedAt>>
         /\ \A g \in Handlers \ {h} :
              /\ pc'[g] = pc[g] /\ call'[g] = call[g] /\ begun'[g] = begun[g]
              /\ snapshot'[g] = snapshot[g] /\ verdict'[g] = verdict[g]
              /\ decidedAt'[g] = decidedAt[g] /\ origin'[g] = origin[g]
<1> USE DEF serviceVars, copyVars, TypeOK
<1>1. CASE \E c \in Calls : AnswerFromCache(h, c) \/ Arrive(h, c)
  BY <1>1 DEF AnswerFromCache, Arrive, Decide
<1>2. CASE StoreAnswer(h)
  BY <1>2 DEF StoreAnswer
<1>3. CASE Serve(h)
  BY <1>3 DEF Serve, ReadCopy, FindFresh, BeginFetch, ServiceAnswers,
     FetchSucceeds, FetchFails, Decide
<1> QED
  BY <1>1, <1>2, <1>3 DEF OwnStep

\* The write lock lets one fetch run at a time.
LEMMA OneFetch ==
  ASSUME RevocationInv, NEW g \in Handlers, NEW h \in Handlers,
         pc[g] \in {"fetching", "answered"},
         writer = Nobody \/ pc[h] \in {"fetching", "answered"}
  PROVE  g = h
BY ConstantsAssumption DEF RevocationInv, FetchInv

\* A fetch under way holds the lock, is in time, and its answer, once given,
\* knows what the copy knows.
LEMMA FetchStep ==
  ASSUME RevocationInv, [Next]_vars, NEW g \in Handlers
  PROVE  FetchInv(g)'
<1> USE DEF RevocationInv, serviceVars, copyVars
<1>1. FetchInv(g) /\ begun[g] \in Nat /\ clock \in Nat
  BY DEF TypeOK
<1>2. CASE Tick
  BY <1>1, <1>2, ConstantsAssumption DEF Tick, FetchInv
<1>3. ASSUME NEW s \in Sessions, EndSession(s) PROVE FetchInv(g)'
  <2>1. /\ UNCHANGED <<clock, revokedSet, writer, pc, begun, snapshot>>
        /\ ended' = ended \cup {s} /\ endedAt'[s] = clock
        /\ \A r \in ended : endedAt'[r] = endedAt[r]
    BY <1>3 DEF EndSession, TypeOK
  <2> QED
    BY <1>1, <2>1 DEF FetchInv
<1>4. ASSUME NEW h \in Handlers, h # g, OwnStep(h)
      PROVE  FetchInv(g)'
  <2>1. /\ UNCHANGED <<clock, ended, endedAt>>
        /\ pc'[g] = pc[g] /\ begun'[g] = begun[g]
        /\ snapshot'[g] = snapshot[g]
    BY <1>4, OthersStay
  <2>2. CASE pc[g] \notin {"fetching", "answered"}
    BY <2>1, <2>2 DEF FetchInv
  <2>3. CASE pc[g] \in {"fetching", "answered"}
    <3>1. writer # Nobody /\ pc[h] \notin {"fetching", "answered"}
      BY <1>4, <2>3, OneFetch
    <3>2. writer' = writer /\ revokedSet' = revokedSet
      BY <1>4, <3>1 DEF OwnStep, AnswerFromCache, StoreAnswer, Arrive, Serve,
         ReadCopy, FindFresh, BeginFetch, ServiceAnswers, FetchSucceeds,
         FetchFails
    <3> QED
      BY <1>1, <2>1, <3>2 DEF FetchInv
  <2> QED
    BY <2>2, <2>3
<1>5. CASE \/ \E c \in Calls : AnswerFromCache(g, c) \/ Arrive(g, c)
           \/ StoreAnswer(g) \/ ReadCopy(g) \/ FindFresh(g)
           \/ FetchSucceeds(g) \/ FetchFails(g)
  <2>1. pc'[g] \notin {"fetching", "answered"}
    BY <1>5 DEF AnswerFromCache, StoreAnswer, Arrive, Free, ReadCopy, FindFresh, FetchSucceeds, FetchFails,
       Decide, TypeOK
  <2> QED
    BY <2>1 DEF FetchInv
<1>6. CASE BeginFetch(g)
  BY <1>1, <1>6, ConstantsAssumption DEF BeginFetch, FetchInv, TypeOK
<1>7. CASE ServiceAnswers(g)
  <2>1. /\ UNCHANGED <<clock, ended, endedAt, revokedSet, writer, begun>>
        /\ pc[g] = "fetching" /\ pc'[g] = "answered" /\ snapshot'[g] = ended
    BY <1>7 DEF ServiceAnswers, TypeOK
  <2> QED
    BY <1>1, <2>1 DEF FetchInv, CopyInv
<1>8. CASE UNCHANGED vars
  BY <1>1, <1>8 DEF vars, FetchInv
<1> QED
  BY <1>2, <1>3, <1>4, <1>5, <1>6, <1>7, <1>8 DEF Next, Serve, OwnStep

\* Only calls that need the list get as far as it.
LEMMA LookupStep ==
  ASSUME RevocationInv, [Next]_vars, NEW g \in Handlers
  PROVE  LookupInv(g)'
<1> USE DEF RevocationInv, LookupInv, TypeOK, serviceVars, copyVars
<1>1. ASSUME NEW h \in Handlers, NEW c \in Calls, Arrive(h, c)
      PROVE  LookupInv(g)'
  BY <1>1 DEF Arrive, Decide
<1>4. ASSUME NEW h \in Handlers, NEW c \in Calls,
             AnswerFromCache(h, c) \/ StoreAnswer(h)
      PROVE  LookupInv(g)'
  BY <1>4 DEF AnswerFromCache, StoreAnswer
<1>2. ASSUME NEW h \in Handlers, Serve(h) PROVE LookupInv(g)'
  <2>1. call' = call /\ (pc'[g] \in {"decided", "unrefreshed"} \/ LookedUp(call[g]) \/ pc'[g] = pc[g])
    BY <1>2 DEF Serve, ReadCopy, FindFresh, BeginFetch, ServiceAnswers,
       FetchSucceeds, FetchFails, Decide
  <2> QED
    BY <2>1
<1>3. CASE UNCHANGED <<pc, call>>
  BY <1>3
<1> QED
  BY <1>1, <1>2, <1>3, <1>4 DEF Next, Tick, EndSession, vars

\* A list no older than the TTL and a fetch lets nothing older through.
LEMMA RecentListDecides ==
  ASSUME TypeOK, NEW s \in ended, NEW c, c.session = s, LookedUp(c), NEW list,
         VerdictOn(c, list) = "allowed"
  PROVE  s \notin list
BY ConstantsAssumption DEF VerdictOn, LookedUp, Guarded, TypeOK

\* Decisions taken stand.
LEMMA DecisionStep ==
  ASSUME RevocationInv, [Next]_vars, NEW g \in Handlers
  PROVE  DecisionInv(g)'
<1> USE DEF RevocationInv, serviceVars, copyVars
<1>1. /\ DecisionInv(g) /\ CopyInv /\ FetchInv(g) /\ TypeOK
      /\ clock \in Nat /\ fetchedAt \in Int /\ decidedAt[g] \in Nat
      /\ \A s \in Sessions : endedAt[s] \in Nat
  BY DEF TypeOK
<1>2. CASE Tick
  BY <1>1, <1>2 DEF Tick, DecisionInv
<1>3. ASSUME NEW s \in Sessions, EndSession(s) PROVE DecisionInv(g)'
  <2>1. /\ UNCHANGED <<clock, pc, call, verdict, decidedAt>>
        /\ ended' = ended \cup {s} /\ endedAt'[s] = clock
        /\ \A r \in ended : endedAt'[r] = endedAt[r]
    BY <1>3 DEF EndSession, TypeOK
  <2> QED
    BY <1>1, <2>1, ConstantsAssumption DEF DecisionInv
<1>4. ASSUME NEW h \in Handlers, h # g, OwnStep(h)
      PROVE  DecisionInv(g)'
  <2>1. /\ UNCHANGED <<clock, ended, endedAt>>
        /\ pc'[g] = pc[g] /\ call'[g] = call[g]
        /\ verdict'[g] = verdict[g] /\ decidedAt'[g] = decidedAt[g]
    BY <1>4, OthersStay
  <2> QED
    BY <1>1, <2>1 DEF DecisionInv
<1>12. CASE StoreAnswer(g) \/ \E c \in Calls : AnswerFromCache(g, c)
  BY <1>1, <1>12 DEF StoreAnswer, AnswerFromCache, DecisionInv, TypeOK
<1>5. ASSUME NEW c \in Calls, Arrive(g, c) PROVE DecisionInv(g)'
  <2>1. CASE LookedUp(c)
    BY <1>5, <2>1 DEF Arrive, DecisionInv, TypeOK
  <2>2. CASE ~LookedUp(c)
    <3>1. decidedAt'[g] = clock /\ clock' = clock /\ call'[g] = c
      BY <1>5, <2>2, DecideFacts DEF Arrive, TypeOK
    <3> QED
      BY <1>1, <2>2, <3>1 DEF DecisionInv
  <2> QED
    BY <2>1, <2>2
<1>6. ASSUME NEW list, Decide(g, call[g], list, "decided"),
             UNCHANGED <<clock, ended, endedAt, call>>,
             \A s \in ended \ list :
               clock < endedAt[s] + RevokedTTL + FetchTimeout
      PROVE  DecisionInv(g)'
  <2>1. decidedAt'[g] = clock /\ verdict'[g] = VerdictOn(call[g], list)
    BY <1>1, <1>6, DecideFacts
  <2> QED
    BY <1>1, <1>6, <2>1, RecentListDecides DEF DecisionInv
<1>7. CASE (ReadCopy(g) /\ Fresh) \/ FindFresh(g)
  <2>1. \A s \in ended \ revokedSet :
          clock < endedAt[s] + RevokedTTL + FetchTimeout
    BY <1>1, <1>7, ConstantsAssumption
       DEF CopyInv, Fresh, FindFresh, TypeOK
  <2> QED
    BY <1>6, <1>7, <2>1 DEF ReadCopy, FindFresh
<1>8. CASE \/ ReadCopy(g) /\ ~Fresh
           \/ BeginFetch(g)
           \/ ServiceAnswers(g)
  BY <1>8 DEF ReadCopy, BeginFetch, ServiceAnswers, DecisionInv, TypeOK
<1>9. CASE FetchSucceeds(g)
  <2>1. \A s \in ended \ snapshot[g] :
          clock < endedAt[s] + RevokedTTL + FetchTimeout
    BY <1>1, <1>9, ConstantsAssumption DEF FetchSucceeds, FetchInv, TypeOK
  <2>2. Decide(g, call[g], snapshot[g], "decided")
    BY <1>9 DEF FetchSucceeds
  <2> QED
    BY <1>6, <1>9, <2>1, <2>2 DEF FetchSucceeds
<1>10. CASE FetchFails(g)
  BY <1>1, <1>10, DecideFacts DEF FetchFails, DecisionInv
<1>11. CASE UNCHANGED vars
  BY <1>1, <1>11 DEF vars, DecisionInv
<1> QED
  BY <1>2, <1>3, <1>4, <1>5, <1>7, <1>8, <1>9, <1>10, <1>11, <1>12
     DEF Next, Serve, OwnStep

\* An entry goes back to a decision less than its life ago, and was let through
\* then by a list recent enough or for want of one.
LEMMA EntryStep ==
  ASSUME RevocationInv, [Next]_vars, NEW s \in Sessions
  PROVE  EntryInv(s)'
<1> USE DEF RevocationInv, serviceVars, copyVars
<1>1. /\ EntryInv(s) /\ TypeOK /\ clock \in Nat /\ endedAt[s] \in Nat
      /\ cached[s] # NoEntry => cached[s] \in Origins
      /\ \A h \in Handlers : decidedAt[h] \in Nat
  BY DEF TypeOK
<1>2. CASE Tick
  <2>1. /\ clock' = clock + 1 /\ UNCHANGED <<ended, endedAt>>
        /\ cached'[s] = IF Held(s, clock') THEN cached[s] ELSE NoEntry
    BY <1>2 DEF Tick
  <2> QED
    BY <1>1, <2>1 DEF EntryInv, Held, Justified, Origins
<1>3. ASSUME NEW r \in Sessions, EndSession(r) PROVE EntryInv(s)'
  <2>1. /\ UNCHANGED <<clock, cached>> /\ ended' = ended \cup {r}
        /\ r \notin ended /\ endedAt'[r] = clock
        /\ s # r => endedAt'[s] = endedAt[s]
    BY <1>3 DEF EndSession, TypeOK
  <2> QED
    BY <1>1, <2>1, ConstantsAssumption DEF EntryInv, Justified, Origins
<1>4. ASSUME NEW h \in Handlers, StoreAnswer(h) PROVE EntryInv(s)'
  <2>1. UNCHANGED <<clock, ended, endedAt>>
    BY <1>4 DEF StoreAnswer
  <2>2. CASE s # call[h].session
    <3>1. cached'[s] = cached[s]
      BY <1>4, <2>2 DEF StoreAnswer, TypeOK
    <3> QED
      BY <1>1, <2>1, <3>1 DEF EntryInv, Justified
  <2>3. CASE s = call[h].session
    <3>1. /\ cached'[s].at = decidedAt[h]
          /\ cached'[s].guess = (pc[h] = "unrefreshed")
          /\ clock < decidedAt[h] + CacheLife
          /\ pc[h] \in {"decided", "unrefreshed"}
          /\ LookedUp(call[h]) /\ verdict[h] = "allowed"
      BY <1>4, <2>3 DEF StoreAnswer, TypeOK
    <3>2. decidedAt[h] <= clock
      BY <3>1 DEF AnsweredInv
    <3>3. pc[h] = "decided" => Justified(s, decidedAt[h])
      BY <2>3, <3>1 DEF DecisionInv, Justified
    <3> QED
      BY <1>1, <2>1, <3>1, <3>2, <3>3 DEF EntryInv, Justified
  <2> QED
    BY <2>2, <2>3
<1>5. ASSUME UNCHANGED <<clock, ended, endedAt, cached>> PROVE EntryInv(s)'
  BY <1>1, <1>5 DEF EntryInv, Justified
<1>6. ASSUME NEW h \in Handlers, OwnStep(h), ~StoreAnswer(h)
      PROVE  UNCHANGED <<clock, ended, endedAt, cached>>
  BY <1>6 DEF OwnStep, AnswerFromCache, Arrive, Serve, ReadCopy, FindFresh,
     BeginFetch, ServiceAnswers, FetchSucceeds, FetchFails
<1> QED
  BY <1>2, <1>3, <1>4, <1>5, <1>6 DEF Next, OwnStep, vars

\* What a HIT goes back to it keeps.
LEMMA HitStep ==
  ASSUME RevocationInv, [Next]_vars, NEW g \in Handlers
  PROVE  HitInv(g)' /\ AnsweredInv(g)'
<1> USE DEF RevocationInv, serviceVars, copyVars
<1>1. /\ HitInv(g) /\ AnsweredInv(g) /\ TypeOK
      /\ clock \in Nat /\ decidedAt[g] \in Nat
      /\ origin[g] # NoEntry => origin[g] \in Origins
      /\ \A s \in Sessions : endedAt[s] \in Nat
  BY DEF TypeOK
<1>2. ASSUME UNCHANGED <<ended, endedAt>>, clock <= clock', clock' \in Nat,
             pc'[g] = pc[g], call'[g] = call[g],
             decidedAt'[g] = decidedAt[g], origin'[g] = origin[g]
      PROVE  HitInv(g)' /\ AnsweredInv(g)'
  <2>1. AnsweredInv(g)'
    BY <1>1, <1>2 DEF AnsweredInv
  <2>2. ASSUME pc[g] = "hit" PROVE origin[g].at \in Nat
    BY <1>1, <2>2 DEF HitInv, Origins
  <2>3. HitInv(g)'
    BY <1>1, <1>2, <2>2 DEF HitInv, Justified, LookedUp, Guarded
  <2> QED
    BY <2>1, <2>3
<1>3. CASE Tick \/ UNCHANGED vars
  BY <1>1, <1>2, <1>3 DEF Tick, vars
<1>4. ASSUME NEW s \in Sessions, EndSession(s)
      PROVE  HitInv(g)' /\ AnsweredInv(g)'
  <2>1. /\ UNCHANGED <<clock, pc, call, decidedAt, origin>>
        /\ ended' = ended \cup {s} /\ endedAt'[s] = clock
        /\ \A r \in ended : endedAt'[r] = endedAt[r]
    BY <1>4 DEF EndSession, TypeOK
  <2> QED
    BY <1>1, <2>1, ConstantsAssumption
       DEF HitInv, AnsweredInv, Justified, LookedUp, Guarded, Origins
<1>5. ASSUME NEW h \in Handlers, h # g, OwnStep(h)
      PROVE  HitInv(g)' /\ AnsweredInv(g)'
  BY <1>1, <1>2, <1>5, OthersStay
<1>6. ASSUME NEW c \in Calls, AnswerFromCache(g, c)
      PROVE  HitInv(g)' /\ AnsweredInv(g)'
  <2>1. /\ UNCHANGED <<clock, ended, endedAt>> /\ decidedAt'[g] = clock
        /\ call'[g] = c /\ origin'[g] = cached[c.session]
        /\ LookedUp(c) /\ cached[c.session] # NoEntry
    BY <1>6 DEF AnswerFromCache, TypeOK
  <2>2. c.session \in Sessions /\ EntryInv(c.session)
    BY <2>1 DEF LookedUp
  <2> QED
    BY <1>1, <2>1, <2>2
       DEF EntryInv, HitInv, AnsweredInv, Justified, LookedUp, Guarded
<1>7. CASE StoreAnswer(g)
  BY <1>1, <1>2, <1>7 DEF StoreAnswer
<1>8. ASSUME NEW c \in Calls, Arrive(g, c)
      PROVE  HitInv(g)' /\ AnsweredInv(g)'
  BY <1>1, <1>8 DEF Arrive, Decide, HitInv, AnsweredInv, TypeOK
<1>9. CASE Serve(g)
  <2>1. pc'[g] # "hit"
        /\ (pc'[g] \in {"decided", "unrefreshed"} => decidedAt'[g] = clock)
        /\ clock' = clock
    BY <1>9 DEF Serve, ReadCopy, FindFresh, BeginFetch, ServiceAnswers,
       FetchSucceeds, FetchFails, Decide, TypeOK
  <2> QED
    BY <1>1, <2>1 DEF HitInv, AnsweredInv
<1> QED
  BY <1>3, <1>4, <1>5, <1>6, <1>7, <1>8, <1>9 DEF Next, OwnStep

-----------------------------------------------------------------------------
\* A gateway without a list is sound.
LEMMA InitRevocationInv == Init => RevocationInv
<1> SUFFICES ASSUME Init PROVE RevocationInv
  OBVIOUS
<1>1. TypeOK
  BY AnyCallIsACall, ConstantsAssumption DEF Init, TypeOK
<1>2. CopyInv
  BY ConstantsAssumption DEF Init, CopyInv
<1>3. /\ \A h \in Handlers : FetchInv(h) /\ DecisionInv(h) /\ LookupInv(h)
                             /\ HitInv(h) /\ AnsweredInv(h)
      /\ \A s \in Sessions : EntryInv(s)
  BY DEF Init, FetchInv, DecisionInv, LookupInv, HitInv, AnsweredInv, EntryInv
<1> QED
  BY <1>1, <1>2, <1>3 DEF RevocationInv

\* Every reachable state is sound.
THEOREM RevocationInvariant == Spec => []RevocationInv
<1>1. RevocationInv /\ [Next]_vars => RevocationInv'
  BY TypeStep, CopyStep, FetchStep, DecisionStep, LookupStep, EntryStep,
     HitStep DEF RevocationInv
<1> QED
  BY <1>1, InitRevocationInv, PTL DEF Spec

\* Every variable keeps its type.
THEOREM TypeCorrect == Spec => []TypeOK
<1>1. RevocationInv => TypeOK
  BY DEF RevocationInv
<1> QED
  BY <1>1, RevocationInvariant, PTL

\* An ended session is let through by the guard for at most a TTL and a fetch,
\* and served by the cache in front of it for the life of an entry more, unless
\* the own fetch of the call failed, whatever became of the others'.
THEOREM WindowTheorem == Spec => []WindowIsBounded
<1>1. RevocationInv => WindowIsBounded
  <2> SUFFICES ASSUME RevocationInv, NEW h \in Handlers, verdict[h] = "allowed",
                      LookedUp(call[h]), call[h].session \in ended
               PROVE  LET window == endedAt[call[h].session] + RevokedTTL
                                      + FetchTimeout
                      IN  /\ pc[h] = "decided" => decidedAt[h] < window
                          /\ pc[h] = "hit" /\ ~origin[h].guess =>
                               decidedAt[h] < window + CacheLife
    BY DEF WindowIsBounded
  <2>1. pc[h] = "decided" =>
          decidedAt[h] < endedAt[call[h].session] + RevokedTTL + FetchTimeout
    BY DEF RevocationInv, DecisionInv
  <2>2. ASSUME pc[h] = "hit", ~origin[h].guess
        PROVE  decidedAt[h] < endedAt[call[h].session] + RevokedTTL
                                + FetchTimeout + CacheLife
    <3>1. /\ decidedAt[h] < origin[h].at + CacheLife /\ origin[h] # NoEntry
          /\ origin[h].at < endedAt[call[h].session] + RevokedTTL + FetchTimeout
      BY <2>2 DEF RevocationInv, HitInv, Justified
    <3>2. /\ origin[h].at \in Nat /\ decidedAt[h] \in Nat
          /\ endedAt[call[h].session] \in Nat
      BY <3>1 DEF RevocationInv, TypeOK, Origins, LookedUp
    <3> QED
      BY <3>1, <3>2, ConstantsAssumption
  <2> QED
    BY <2>1, <2>2
<1> QED
  BY <1>1, RevocationInvariant, PTL

\* Whether fetches succeed or fail, what the guard knows it keeps.
THEOREM MemoryTheorem == Spec => NothingKnownIsForgotten
<1>1. ASSUME RevocationInv, [Next]_vars
      PROVE  revokedSet \subseteq revokedSet'
  <2>1. ASSUME NEW h \in Handlers, FetchSucceeds(h)
        PROVE  revokedSet \subseteq revokedSet'
    BY <1>1, <2>1 DEF FetchSucceeds, RevocationInv, FetchInv
  <2>2. ASSUME \A h \in Handlers : ~FetchSucceeds(h)
        PROVE  revokedSet' = revokedSet
    BY <1>1, <2>2 DEF Next, Tick, EndSession, AnswerFromCache, Arrive,
       StoreAnswer, Serve, ReadCopy, FindFresh, BeginFetch, ServiceAnswers, FetchFails, copyVars, vars
  <2> QED
    BY <2>1, <2>2
<1>2. RevocationInv /\ [Next]_vars => [revokedSet \subseteq revokedSet']_vars
  BY <1>1
<1> QED
  BY <1>2, RevocationInvariant, PTL DEF Spec, NothingKnownIsForgotten

-----------------------------------------------------------------------------
(* RevocationList implements RevocationPromise.                            *)

Seen == [h \in Handlers |-> AnswerSeen(h)]

\* What handlers do is seen of none but themselves.
LEMMA OthersAreSeenAlike ==
  ASSUME TypeOK, NEW h \in Handlers, OwnStep(h), NEW g \in Handlers, g # h
  PROVE  AnswerSeen(g)' = AnswerSeen(g)
<1>1. /\ pc'[g] = pc[g] /\ verdict'[g] = verdict[g] /\ call'[g] = call[g]
  BY OthersStay
<1> QED
  BY <1>1 DEF AnswerSeen, LookedUp, Guarded

\* A list that knows what the copy knew, and nothing that has not happened,
\* gives an answer that the promise allows.
LEMMA DecisionsAreAnswers ==
  ASSUME RevocationInv, NEW h \in Handlers, Serve(h),
         NEW list, NEW how \in {"decided", "unrefreshed"},
         Decide(h, call[h], list, how),
         pc[h] \in {"checking", "waiting", "fetching", "answered"},
         UNCHANGED <<clock, ended, endedAt, call>>,
         revokedSet' = list, revokedSet \subseteq list, list \subseteq ended,
         how = "decided" => \A s \in ended \ list :
                              clock < endedAt[s] + RevokedTTL + FetchTimeout
  PROVE  Promise!Answer(h)
<1>1. TypeOK /\ LookedUp(call[h])
  BY DEF RevocationInv, LookupInv
<1>2. call[h].session \in Sessions
  BY <1>1 DEF LookedUp
<1>3. /\ pc'[h] = how /\ verdict'[h] = VerdictOn(call[h], list)
      /\ LookedUp(call'[h])
  BY <1>1, DecideFacts DEF LookedUp, Guarded
<1>4. /\ verdict'[h] \in {"allowed", "revoked", "read_only"}
      /\ verdict'[h] = "revoked" <=> call[h].session \in list
  BY <1>1, <1>2, <1>3, ConstantsAssumption DEF VerdictOn, LookedUp
<1>5. AnswerSeen(h)' = [session |-> call[h].session, verdict |-> verdict'[h],
                        guess |-> how = "unrefreshed"]
  BY <1>3 DEF AnswerSeen
<1>6. AnswerSeen(h) = [verdict |-> "pending"]
  BY DEF AnswerSeen
<1>7. Seen' = [Seen EXCEPT ![h] = AnswerSeen(h)'] /\ Seen[h] = AnswerSeen(h)
  BY <1>1, OthersAreSeenAlike DEF Seen, OwnStep
<1>8. Seen'[h] \in Promise!Answers
  <2>1. Seen'[h] = AnswerSeen(h)'
    BY DEF Seen
  <2>2. PICK guess \in BOOLEAN : guess = (how = "unrefreshed")
    OBVIOUS
  <2>3. AnswerSeen(h)' = [session |-> call[h].session, verdict |-> verdict'[h],
                          guess |-> guess]
    BY <1>5, <2>2
  <2> QED
    BY <1>2, <1>4, <2>1, <2>3 DEF Promise!Answers, Promise!Verdicts
<1>9. call[h].session \in ended /\ verdict'[h] = "allowed" /\ how = "decided"
      => clock < endedAt[call[h].session] + (RevokedTTL + FetchTimeout)
  <2>1. ASSUME call[h].session \in ended, verdict'[h] = "allowed", how = "decided"
        PROVE  /\ clock < endedAt[call[h].session] + RevokedTTL + FetchTimeout
               /\ endedAt[call[h].session] \in Nat
    BY <1>1, <1>2, <1>4, <2>1 DEF TypeOK
  <2> QED
    BY <2>1, ConstantsAssumption
<1>10. /\ Seen'[h].session = call[h].session
       /\ Seen'[h].verdict = verdict'[h]
       /\ Seen'[h].guess = (how = "unrefreshed")
  BY <1>5, <1>7 DEF Seen
<1> QED
  BY <1>4, <1>6, <1>7, <1>8, <1>9, <1>10
     DEF Promise!Answer, Promise!Pending, Seen

\* Every step of the guard is one of the promise, or is not seen.
LEMMA StepsKeepThePromise ==
  ASSUME RevocationInv, [Next]_vars
  PROVE  [Promise!PromiseNext]_(Promise!promiseVars)
<1> USE DEF RevocationInv, serviceVars, copyVars
<1>1. CASE Tick
  <2>1. Seen' = Seen
    BY <1>1 DEF Tick, Seen, AnswerSeen, LookedUp, Guarded
  <2> QED
    BY <1>1, <2>1 DEF Tick, Promise!PromiseNext, Promise!TimePasses, Seen
<1>2. ASSUME NEW s \in Sessions, EndSession(s) PROVE Promise!End(s)
  <2>1. Seen' = Seen
    BY <1>2 DEF EndSession, Seen, AnswerSeen, LookedUp, Guarded
  <2> QED
    BY <1>2, <2>1 DEF EndSession, Promise!End, Seen
<1>3. ASSUME NEW h \in Handlers, NEW c \in Calls,
             AnswerFromCache(h, c) \/ Arrive(h, c)
      PROVE  Promise!Ask(h)
  <2>1. AnswerSeen(h)' = [verdict |-> "pending"]
    BY <1>3 DEF AnswerFromCache, Arrive, AnswerSeen, LookedUp, Guarded, TypeOK
  <2>2. Seen' = [Seen EXCEPT ![h] = [verdict |-> "pending"]]
    BY <1>3, <2>1, OthersAreSeenAlike DEF Seen, OwnStep
  <2> QED
    BY <1>3, <2>2
       DEF AnswerFromCache, Arrive, Promise!Ask, Promise!Pending, Seen
<1>9. ASSUME NEW h \in Handlers, StoreAnswer(h)
      PROVE  UNCHANGED Promise!promiseVars
  BY <1>9 DEF StoreAnswer, Promise!promiseVars, AnswerSeen, LookedUp, Guarded
<1>4. ASSUME NEW h \in Handlers,
             (ReadCopy(h) /\ ~Fresh) \/ BeginFetch(h) \/ ServiceAnswers(h)
      PROVE  UNCHANGED Promise!promiseVars
  <2>1. /\ AnswerSeen(h) = [verdict |-> "pending"]
        /\ AnswerSeen(h)' = [verdict |-> "pending"]
    BY <1>4 DEF ReadCopy, BeginFetch, ServiceAnswers, AnswerSeen, TypeOK
  <2>2. Seen' = Seen
    BY <1>4, <2>1, OthersAreSeenAlike DEF Seen, Serve, OwnStep
  <2>3. UNCHANGED <<clock, ended, endedAt, revokedSet>>
    BY <1>4 DEF ReadCopy, BeginFetch, ServiceAnswers
  <2> QED
    BY <2>2, <2>3 DEF Promise!promiseVars, Seen
<1>5. ASSUME NEW h \in Handlers, (ReadCopy(h) /\ Fresh) \/ FindFresh(h)
      PROVE  Promise!Answer(h)
  <2>1. \A s \in ended \ revokedSet :
          clock < endedAt[s] + RevokedTTL + FetchTimeout
    BY <1>5, ConstantsAssumption DEF CopyInv, Fresh, FindFresh, TypeOK
  <2>2. /\ Serve(h) /\ Decide(h, call[h], revokedSet, "decided")
        /\ pc[h] \in {"checking", "waiting"}
        /\ UNCHANGED <<clock, ended, endedAt, call, revokedSet>>
    BY <1>5 DEF ReadCopy, FindFresh, Serve
  <2> QED
    BY <2>1, <2>2, DecisionsAreAnswers DEF CopyInv
<1>6. ASSUME NEW h \in Handlers, FetchSucceeds(h) PROVE Promise!Answer(h)
  <2>1. \A s \in ended \ snapshot[h] :
          clock < endedAt[s] + RevokedTTL + FetchTimeout
    BY <1>6, ConstantsAssumption DEF FetchSucceeds, FetchInv, TypeOK
  <2>2. /\ Serve(h) /\ Decide(h, call[h], snapshot[h], "decided")
        /\ pc[h] = "answered" /\ revokedSet' = snapshot[h]
        /\ UNCHANGED <<clock, ended, endedAt, call>>
    BY <1>6 DEF FetchSucceeds, Serve
  <2>3. revokedSet \subseteq snapshot[h] /\ snapshot[h] \subseteq ended
    BY <2>2 DEF FetchInv
  <2> QED
    BY <2>1, <2>2, <2>3, DecisionsAreAnswers
<1>7. ASSUME NEW h \in Handlers, FetchFails(h) PROVE Promise!Answer(h)
  <2>1. /\ Serve(h) /\ Decide(h, call[h], revokedSet, "unrefreshed")
        /\ pc[h] \in {"fetching", "answered"}
        /\ UNCHANGED <<clock, ended, endedAt, call, revokedSet>>
    BY <1>7 DEF FetchFails, Serve
  <2> QED
    BY <2>1, DecisionsAreAnswers DEF CopyInv
<1>8. CASE UNCHANGED vars
  BY <1>8 DEF vars, Promise!promiseVars, AnswerSeen, LookedUp, Guarded
<1> QED
  BY <1>1, <1>2, <1>3, <1>4, <1>5, <1>6, <1>7, <1>8, <1>9
     DEF Next, Serve, Promise!PromiseNext

\* The copy, its lock and its fetches are one way to keep the promise, for
\* any number of goroutines and sessions, any TTL and any timeout.
THEOREM PromiseIsKept == Spec => KeepsThePromise
<1>1. Init => Promise!PromiseInit
  BY DEF Init, Promise!PromiseInit, Promise!Pending, AnswerSeen
<1>2. RevocationInv /\ [Next]_vars => [Promise!PromiseNext]_(Promise!promiseVars)
  BY StepsKeepThePromise
<1> QED
  BY <1>1, <1>2, RevocationInvariant, PTL
     DEF Spec, KeepsThePromise, Promise!PromiseSpec

=============================================================================
