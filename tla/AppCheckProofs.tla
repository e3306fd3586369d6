--------------------------- MODULE AppCheckProofs ---------------------------
(***************************************************************************)
(* Proofs about AppCheck, for every number of goroutines and devices, every*)
(* TTL and every timeout.                                                  *)
(*                                                                         *)
(* Answers may be stored in another order than they were given, but each   *)
(* was given after it was asked for and is stored within its own timeout:  *)
(* that, and not their order, bounds the age of the copy.                  *)
(***************************************************************************)
EXTENDS AppCheck, TLAPS

USE ConstantsAssumption DEF Staleness, Never

\* The placeholder call is one of the calls.
LEMMA AnyCallIsACall == AnyCall \in Calls
  BY DEF AnyCall

\* Whatever an admin writes is taken for a mode.
LEMMA InForceIsAMode == \A value : InForce(value) \in Modes
  BY DEF InForce, Modes

\* A mode's last moment in force is never in the future.
LEMMA AsOfType ==
  ASSUME AppCheckInv, NEW m \in Modes
  PROVE  AsOf(m) \in Int /\ AsOf(m) <= clock
  BY DEF AppCheckInv, TypeOK, AsOf

\* Nor does it move back.
LEMMA AsOfGrows ==
  ASSUME AppCheckInv, [Next]_vars
  PROVE  \A m \in Modes : AsOf(m)' \in Int /\ AsOf(m) <= AsOf(m)'
<1> SUFFICES ASSUME NEW m \in Modes
             PROVE  AsOf(m)' \in Int /\ AsOf(m) <= AsOf(m)'
  OBVIOUS
<1> USE DEF AppCheckInv, TypeOK, AsOf
<1>1. CASE Tick
  BY <1>1 DEF Tick, adminVars
<1>2. ASSUME NEW value \in Settings, AdminSets(value)
      PROVE  AsOf(m)' \in Int /\ AsOf(m) <= AsOf(m)'
  BY <1>2, InForceIsAMode DEF AdminSets
<1>3. CASE UNCHANGED <<clock, adminVars>>
  BY <1>3 DEF adminVars
<1> QED
  BY <1>1, <1>2, <1>3
     DEF Next, Serve, Arrive, AdminAnswers, FetchSucceeds, FetchFails,
         AuthenticateOverHTTP, vars

\* A judgement is typed, and records how old its mode is.
LEMMA JudgeFacts ==
  ASSUME AppCheckInv, NEW h \in Handlers, NEW c \in Calls, NEW m \in Modes,
         NEW outcome \in {"decided", "guessed"}, Judge(h, c, m, outcome)
  PROVE  /\ pc' \in [Handlers -> {"idle", "fetching", "answered", "decided",
                                 "guessed"}]
         /\ call' \in [Handlers -> Calls]
         /\ begun' \in [Handlers -> Nat]
         /\ answer' \in [Handlers -> Modes]
         /\ verdict' \in [Handlers -> {"none", "passed", "rejected"}]
         /\ age' \in [Handlers -> Int]
         /\ pc'[h] = outcome /\ age'[h] = clock - AsOf(m)
         /\ \A g \in Handlers \ {h} :
              /\ pc'[g] = pc[g] /\ begun'[g] = begun[g]
              /\ answer'[g] = answer[g] /\ age'[g] = age[g]
<1>1. clock - AsOf(m) \in Int
  BY AsOfType DEF AppCheckInv, TypeOK
<1>2. AnyCall \in Calls
  BY DEF AnyCall
<1> QED
  BY <1>1, <1>2 DEF AppCheckInv, TypeOK, Judge

\* What auth-service does after a judgement is typed.  A new session or
\* challenge goes back to the login just judged, a session also to the
\* challenge it answers.
LEMMA SessionFacts ==
  ASSUME AppCheckInv, NEW h \in Handlers, NEW c \in Calls, NEW m \in Modes,
         NEW outcome \in {"decided", "guessed"}, Judge(h, c, m, outcome)
  PROVE  /\ stepUp' \in [Devices -> Grounds \cup {NoLogin}]
         /\ session' \in [Devices -> Grounds \cup {NoLogin}]
         /\ \A d \in Devices :
              /\ \/ session'[d] \in {session[d], stepUp[d]}
                 \/ /\ session'[d] = GroundsOf(c, outcome)
                    /\ Passes(c, m) /\ c.method = "Login"
              /\ \/ stepUp'[d] \in {stepUp[d], NoLogin}
                 \/ /\ stepUp'[d] = GroundsOf(c, outcome)
                    /\ Passes(c, m) /\ c.method = "Login"
<1>1. c.device \in Devices
  BY DEF Call
<1>2. GroundsOf(c, outcome) \in Grounds
  BY DEF GroundsOf, Grounds
<1>3. CASE UNCHANGED authVars
  BY <1>3 DEF authVars, AppCheckInv, TypeOK
<1>4. CASE Passes(c, m) /\ AuthServiceHandles(c, GroundsOf(c, outcome))
  BY <1>1, <1>2, <1>4
     DEF AuthServiceHandles, authVars, AppCheckInv, TypeOK
<1> QED
  BY <1>3, <1>4 DEF Judge

\* Over HTTP too, and no session or challenge is opened from nothing.
LEMMA HttpFacts ==
  ASSUME AppCheckInv, NEW c \in Calls, AuthenticateOverHTTP(c)
  PROVE  /\ stepUp' \in [Devices -> Grounds \cup {NoLogin}]
         /\ session' \in [Devices -> Grounds \cup {NoLogin}]
         /\ LoginInv'
<1>1. c.device \in Devices /\ "unseen" \in Grounds
  BY DEF Call, Grounds
<1>2. AuthServiceHandles(c, "unseen")
  BY DEF AuthenticateOverHTTP
<1>3. /\ stepUp \in [Devices -> Grounds \cup {NoLogin}]
      /\ session \in [Devices -> Grounds \cup {NoLogin}]
      /\ LoginInv
  BY DEF AppCheckInv, TypeOK
<1>4. /\ stepUp' \in [Devices -> Grounds \cup {NoLogin}]
      /\ session' \in [Devices -> Grounds \cup {NoLogin}]
  BY <1>1, <1>2, <1>3 DEF AuthServiceHandles, authVars
<1>5. ASSUME NEW d \in Devices
      PROVE  /\ session'[d] \in {session[d], stepUp[d], "unseen"}
             /\ stepUp'[d] \in {stepUp[d], NoLogin, "unseen"}
  BY <1>1, <1>2, <1>3 DEF AuthServiceHandles, authVars
<1>6. LoginInv'
  BY <1>3, <1>5, ConstantsAssumption
     DEF LoginInv, GrpcSessionsAreAttested, Grounds
<1> QED
  BY <1>4, <1>6

-----------------------------------------------------------------------------
\* The gateway starts sound.
LEMMA InvInit == Init => AppCheckInv
<1> SUFFICES ASSUME Init PROVE AppCheckInv
  OBVIOUS
<1>1. TypeOK
  <2>1. Never \in Int
    OBVIOUS
  <2>2. lastInForce \in [Modes -> Int]
    BY <2>1 DEF Init
  <2>3. /\ stepUp \in [Devices -> Grounds \cup {NoLogin}]
        /\ session \in [Devices -> Grounds \cup {NoLogin}]
    BY DEF Init
  <2>4. /\ call \in [Handlers -> Calls]
        /\ pc \in [Handlers -> {"idle", "fetching", "answered", "decided",
                               "guessed"}]
        /\ verdict \in [Handlers -> {"none", "passed", "rejected"}]
    BY AnyCallIsACall DEF Init
  <2>5. /\ begun \in [Handlers -> Nat]
        /\ answer \in [Handlers -> Modes]
        /\ age \in [Handlers -> Int]
    BY DEF Init
  <2> QED
    BY <2>2, <2>3, <2>4, <2>5 DEF Init, TypeOK
<1>2. LoginInv
  BY DEF Init, LoginInv, GrpcSessionsAreAttested, Grounds
<1> QED
  BY <1>1, <1>2 DEF Init, AppCheckInv, CopyInv, FetchInv, DecisionInv

\* Every step keeps the types.
LEMMA TypeStep == AppCheckInv /\ [Next]_vars => TypeOK'
<1> SUFFICES ASSUME AppCheckInv, [Next]_vars PROVE TypeOK'
  OBVIOUS
<1> USE DEF adminVars, providerVars, verdictVars, authVars
<1>0. TypeOK
  BY DEF AppCheckInv
<1>1. CASE Tick
  BY <1>0, <1>1 DEF Tick, TypeOK
<1>2. ASSUME NEW value \in Settings, AdminSets(value)
      PROVE  TypeOK'
  <2>1. lastInForce' \in [Modes -> Int]
    <3>1. /\ lastInForce \in [Modes -> Int] /\ clock \in Int
          /\ lastInForce' = [lastInForce EXCEPT ![InForce(setting)] = clock]
      BY <1>0, <1>2 DEF AdminSets, TypeOK
    <3> QED
      BY <3>1
  <2> QED
    BY <1>0, <1>2, <2>1 DEF AdminSets, TypeOK
<1>3. ASSUME NEW h \in Handlers, NEW c \in Calls, Arrive(h, c)
      PROVE  TypeOK'
  <2>1. CASE Fresh
    <3>1. Judge(h, c, cached, "decided") /\ cached \in Modes
      BY <1>0, <1>3, <2>1 DEF Arrive, TypeOK
    <3> QED
      BY <1>0, <1>3, <3>1, JudgeFacts, SessionFacts DEF Arrive, TypeOK
  <2>2. CASE ~Fresh
    BY <1>0, <1>3, <2>2 DEF Arrive, TypeOK
  <2> QED
    BY <2>1, <2>2
<1>4. ASSUME NEW h \in Handlers, AdminAnswers(h)
      PROVE  TypeOK'
  BY <1>0, <1>4, InForceIsAMode DEF AdminAnswers, TypeOK
<1>5. ASSUME NEW h \in Handlers, FetchSucceeds(h)
      PROVE  TypeOK'
  <2>1. /\ Judge(h, call[h], answer[h], "decided")
        /\ call[h] \in Calls /\ answer[h] \in Modes
    BY <1>0, <1>5 DEF FetchSucceeds, TypeOK
  <2> QED
    BY <1>0, <1>5, <2>1, JudgeFacts, SessionFacts DEF FetchSucceeds, TypeOK
<1>6. ASSUME NEW h \in Handlers, FetchFails(h)
      PROVE  TypeOK'
  <2> DEFINE m == IF hasValue THEN cached ELSE Fallback
  <2>1. Judge(h, call[h], m, "guessed") /\ call[h] \in Calls /\ m \in Modes
    BY <1>0, <1>6 DEF FetchFails, TypeOK
  <2> HIDE DEF m
  <2> QED
    BY <1>0, <1>6, <2>1, JudgeFacts, SessionFacts DEF FetchFails, TypeOK
<1>7. CASE UNCHANGED vars
  BY <1>0, <1>7 DEF vars, TypeOK
<1>8. ASSUME NEW c \in Calls, AuthenticateOverHTTP(c) PROVE TypeOK'
  BY <1>0, <1>8, HttpFacts DEF AuthenticateOverHTTP, TypeOK
<1> QED
  BY <1>1, <1>2, <1>3, <1>4, <1>5, <1>6, <1>7, <1>8 DEF Next, Serve

-----------------------------------------------------------------------------
\* What a judgement by mode m preserves, given that m is recent enough.
LEMMA JudgePreserves ==
  ASSUME AppCheckInv, [Next]_vars, NEW h \in Handlers, NEW c \in Calls,
         NEW m \in Modes, NEW outcome \in {"decided", "guessed"},
         Judge(h, c, m, outcome), clock' = clock,
         outcome = "decided" => clock < AsOf(m) + Staleness
  PROVE  /\ \A g \in Handlers : FetchInv(g)' /\ DecisionInv(g)'
         /\ LoginInv'
<1>1. ASSUME NEW g \in Handlers
      PROVE  FetchInv(g)' /\ DecisionInv(g)'
  <2>1. CASE g = h
    <3>1. pc'[g] = outcome /\ age'[g] = clock - AsOf(m) /\ clock \in Int
      BY <2>1, JudgeFacts DEF AppCheckInv, TypeOK
    <3> QED
      BY <3>1, AsOfType DEF FetchInv, DecisionInv
  <2>2. CASE g # h
    <3>1. PICK a \in Modes : a = answer[g]
      BY DEF AppCheckInv, TypeOK
    <3>2. /\ AsOf(a) \in Int /\ AsOf(a)' \in Int /\ AsOf(a) <= AsOf(a)'
          /\ begun[g] \in Nat
      BY <3>1, AsOfType, AsOfGrows DEF AppCheckInv, TypeOK
    <3>3. /\ pc'[g] = pc[g] /\ begun'[g] = begun[g] /\ answer'[g] = a
          /\ age'[g] = age[g]
      BY <2>2, <3>1, JudgeFacts
    <3>4. FetchInv(g) /\ DecisionInv(g)
      BY DEF AppCheckInv
    <3>5. pc[g] = "answered" => begun[g] <= AsOf(a)
      BY <3>1, <3>4 DEF FetchInv
    <3>6. pc[g] = "answered" => begun[g] <= AsOf(a)'
      BY <3>2, <3>5
    <3>7. DecisionInv(g)'
      BY <3>3, <3>4 DEF DecisionInv
    <3>8. FetchInv(g)'
      BY <3>3, <3>4, <3>6 DEF FetchInv, AsOf
    <3> QED
      BY <3>7, <3>8
  <2> QED
    BY <2>1, <2>2
<1>2. c.method = "Login" /\ Passes(c, m) => GroundsOf(c, outcome) # "none"
  <2> SUFFICES ASSUME c.method = "Login", Passes(c, m), ~c.attested,
                      outcome = "decided"
               PROVE  clock < LenientAsOf + Staleness
    BY DEF GroundsOf
  <2>1. m \in {"off", "report"}
    BY DEF Passes, EnforcedOn, Issuing, Modes
  <2>2. AsOf(m) <= LenientAsOf /\ AsOf(m) \in Int /\ LenientAsOf \in Int
    BY <2>1, AsOfType, "off" \in Modes, "report" \in Modes
       DEF LenientAsOf, Modes
  <2> QED
    BY <2>2 DEF AppCheckInv, TypeOK
<1>3. LoginInv'
  BY <1>2, SessionFacts
     DEF AppCheckInv, LoginInv, GrpcSessionsAreAttested, Grounds
<1> QED
  BY <1>1, <1>3

\* What a step that judges no call preserves.
LEMMA QuietPreserves ==
  ASSUME AppCheckInv, [Next]_vars, UNCHANGED <<providerVars, authVars>>,
         clock' \in Nat, clock <= clock'
  PROVE  CopyInv' /\ LoginInv'
<1>1. CopyInv'
  <2> SUFFICES ASSUME hasValue PROVE CopyInv'
    BY DEF CopyInv, providerVars
  <2>1. PICK k \in Modes : k = cached
    BY DEF AppCheckInv, TypeOK
  <2>2. AsOf(k) \in Int /\ AsOf(k)' \in Int /\ AsOf(k) <= AsOf(k)'
    BY AsOfType, AsOfGrows
  <2>3. cached' = k /\ cachedAt' = cachedAt /\ cachedAt \in Nat /\ clock \in Nat
    BY <2>1 DEF providerVars, AppCheckInv, TypeOK
  <2>4. /\ cachedAt <= clock
        /\ cachedAt <= AsOf(k) + FetchTimeout
        /\ 0 <= AsOf(k)
    BY <2>1 DEF AppCheckInv, CopyInv
  <2>5. /\ cachedAt <= AsOf(k)' + FetchTimeout
        /\ 0 <= AsOf(k)'
    BY <2>2, <2>3, <2>4
  <2>6. cachedAt' <= clock'
    BY <2>3, <2>4
  <2>7. AsOf(cached)' = AsOf(k)'
    BY <2>3 DEF AsOf
  <2> QED
    BY <2>3, <2>5, <2>6, <2>7, Zenon DEF CopyInv
<1>2. LoginInv'
  BY DEF AppCheckInv, LoginInv, GrpcSessionsAreAttested, authVars
<1> QED
  BY <1>1, <1>2

\* The mode in force is never older than now.
LEMMA LastInForceStep ==
  ASSUME AppCheckInv, [Next]_vars
  PROVE  /\ clock' \in Nat /\ clock <= clock'
         /\ \A m \in Modes : lastInForce'[m] <= clock'
<1> USE DEF AppCheckInv, TypeOK, adminVars
<1>1. CASE Tick
  BY <1>1 DEF Tick
<1>2. ASSUME NEW value \in Settings, AdminSets(value)
      PROVE  /\ clock' \in Nat /\ clock <= clock'
             /\ \A m \in Modes : lastInForce'[m] <= clock'
  BY <1>2 DEF AdminSets
<1>3. CASE UNCHANGED <<clock, adminVars>>
  BY <1>3
<1> QED
  BY <1>1, <1>2, <1>3
     DEF Next, Serve, Arrive, AdminAnswers, FetchSucceeds, FetchFails,
         AuthenticateOverHTTP, vars

\* The step of every action.
LEMMA InvStep == AppCheckInv /\ [Next]_vars => AppCheckInv'
<1> SUFFICES ASSUME AppCheckInv, [Next]_vars
             PROVE  /\ CopyInv' /\ LoginInv'
                    /\ \A g \in Handlers : FetchInv(g)' /\ DecisionInv(g)'
  BY TypeStep, LastInForceStep DEF AppCheckInv
<1> USE DEF adminVars, verdictVars
<1>0. TypeOK /\ clock \in Nat
  BY DEF AppCheckInv, TypeOK
<1>q. ASSUME UNCHANGED <<providerVars, authVars>>
      PROVE  CopyInv' /\ LoginInv'
  BY <1>q, QuietPreserves, LastInForceStep
\* A handler whose fetch is not touched, by a step that leaves the decisions.
<1>g. ASSUME NEW g \in Handlers, clock' <= begun[g] + FetchTimeout \/ pc[g] \notin {"fetching", "answered"},
             pc'[g] = pc[g], begun'[g] = begun[g], answer'[g] = answer[g],
             age'[g] = age[g]
      PROVE  FetchInv(g)' /\ DecisionInv(g)'
  <2>1. PICK a \in Modes : a = answer[g]
    BY <1>0 DEF TypeOK
  <2>2. FetchInv(g) /\ DecisionInv(g) /\ begun[g] \in Nat
    BY <1>0 DEF AppCheckInv, TypeOK
  <2>3. AsOf(a) \in Int /\ AsOf(a)' \in Int /\ AsOf(a) <= AsOf(a)'
    BY AsOfType, AsOfGrows
  <2>4. pc[g] = "answered" => begun[g] <= AsOf(a)'
    BY <2>1, <2>2, <2>3 DEF FetchInv
  <2>5. answer'[g] = a /\ clock' \in Nat /\ clock <= clock'
    BY <1>g, <2>1, LastInForceStep
  <2>6. DecisionInv(g)'
    BY <1>g, <2>2 DEF DecisionInv
  <2>7. FetchInv(g)'
    BY <1>0, <1>g, <2>2, <2>4, <2>5 DEF FetchInv, AsOf
  <2> QED
    BY <2>6, <2>7
<1>1. CASE Tick
  <2>1. \A g \in Handlers : FetchInv(g)' /\ DecisionInv(g)'
    <3> SUFFICES ASSUME NEW g \in Handlers
                 PROVE  FetchInv(g)' /\ DecisionInv(g)'
      OBVIOUS
    <3>1. \/ clock' <= begun[g] + FetchTimeout
          \/ pc[g] \notin {"fetching", "answered"}
      BY <1>0, <1>1 DEF Tick, TypeOK
    <3> QED
      BY <1>1, <1>g, <3>1 DEF Tick
  <2> QED
    BY <1>1, <1>q, <2>1 DEF Tick
<1>2. ASSUME NEW value \in Settings, AdminSets(value)
      PROVE  /\ CopyInv' /\ LoginInv'
             /\ \A g \in Handlers : FetchInv(g)' /\ DecisionInv(g)'
  <2>1. \A g \in Handlers : FetchInv(g)' /\ DecisionInv(g)'
    <3> SUFFICES ASSUME NEW g \in Handlers
                 PROVE  FetchInv(g)' /\ DecisionInv(g)'
      OBVIOUS
    <3>1. \/ clock' <= begun[g] + FetchTimeout
          \/ pc[g] \notin {"fetching", "answered"}
      BY <1>2 DEF AdminSets, AppCheckInv, FetchInv
    <3> QED
      BY <1>2, <1>g, <3>1 DEF AdminSets
  <2> QED
    BY <1>2, <1>q, <2>1 DEF AdminSets
<1>3. ASSUME NEW h \in Handlers, NEW c \in Calls, Arrive(h, c)
      PROVE  /\ CopyInv' /\ LoginInv'
             /\ \A g \in Handlers : FetchInv(g)' /\ DecisionInv(g)'
  <2>1. CASE Fresh
    <3>1. /\ Judge(h, c, cached, "decided") /\ cached \in Modes /\ clock' = clock
          /\ UNCHANGED <<providerVars, adminVars>>
      BY <1>0, <1>3, <2>1 DEF Arrive, TypeOK
    <3>2. clock < AsOf(cached) + Staleness
      <4>1. PICK k \in Modes : k = cached
        BY <3>1
      <4>2. AsOf(k) \in Int
        BY AsOfType
      <4>3. cachedAt <= AsOf(k) + FetchTimeout /\ clock - cachedAt < ModeTTL
        BY <2>1, <4>1 DEF AppCheckInv, CopyInv, Fresh
      <4>4. cachedAt \in Nat
        BY <1>0 DEF TypeOK
      <4> QED
        BY <1>0, <4>1, <4>2, <4>3, <4>4
    <3>3. /\ \A g \in Handlers : FetchInv(g)' /\ DecisionInv(g)'
          /\ LoginInv'
      BY <3>1, <3>2, JudgePreserves
    <3>4. CopyInv'
      BY <3>1 DEF AppCheckInv, CopyInv, AsOf, providerVars
    <3> QED
      BY <3>3, <3>4
  <2>2. CASE ~Fresh
    <3>1. /\ pc' = [pc EXCEPT ![h] = "fetching"]
          /\ begun' = [begun EXCEPT ![h] = clock]
          /\ age' = [age EXCEPT ![h] = 0]
          /\ UNCHANGED <<answer, authVars, clock, providerVars>>
      BY <1>3, <2>2 DEF Arrive
    <3>2. ASSUME NEW g \in Handlers
          PROVE  FetchInv(g)' /\ DecisionInv(g)'
      <4>1. CASE g = h
        BY <1>0, <3>1, <4>1 DEF FetchInv, DecisionInv, TypeOK
      <4>2. CASE g # h
        <5>1. /\ pc'[g] = pc[g] /\ begun'[g] = begun[g]
              /\ answer'[g] = answer[g] /\ age'[g] = age[g]
          BY <1>0, <3>1, <4>2 DEF TypeOK
        <5>2. \/ clock' <= begun[g] + FetchTimeout
              \/ pc[g] \notin {"fetching", "answered"}
          BY <3>1 DEF AppCheckInv, FetchInv
        <5> QED
          BY <1>g, <5>1, <5>2
      <4> QED
        BY <4>1, <4>2
    <3> QED
      BY <1>q, <3>1, <3>2
  <2> QED
    BY <2>1, <2>2
<1>4. ASSUME NEW h \in Handlers, AdminAnswers(h)
      PROVE  /\ CopyInv' /\ LoginInv'
             /\ \A g \in Handlers : FetchInv(g)' /\ DecisionInv(g)'
  <2>1. ASSUME NEW g \in Handlers
        PROVE  FetchInv(g)' /\ DecisionInv(g)'
    <3>1. CASE g = h
      <4>1. /\ pc'[h] = "answered" /\ begun'[h] = begun[h]
            /\ answer'[h] = InForce(setting) /\ clock' = clock
            /\ setting' = setting
        BY <1>0, <1>4 DEF AdminAnswers, TypeOK
      <4>2. begun[h] <= clock /\ clock <= begun[h] + FetchTimeout
        BY <1>4 DEF AdminAnswers, AppCheckInv, FetchInv
      <4> QED
        BY <3>1, <4>1, <4>2 DEF FetchInv, DecisionInv, AsOf, InForce
    <3>2. CASE g # h
      <4>1. /\ pc'[g] = pc[g] /\ begun'[g] = begun[g]
            /\ answer'[g] = answer[g] /\ age'[g] = age[g]
        BY <1>0, <1>4, <3>2 DEF AdminAnswers, TypeOK
      <4>2. \/ clock' <= begun[g] + FetchTimeout
            \/ pc[g] \notin {"fetching", "answered"}
        BY <1>4 DEF AdminAnswers, AppCheckInv, FetchInv
      <4> QED
        BY <1>g, <4>1, <4>2
    <3> QED
      BY <3>1, <3>2
  <2> QED
    BY <1>4, <1>q, <2>1 DEF AdminAnswers
<1>5. ASSUME NEW h \in Handlers, FetchSucceeds(h)
      PROVE  /\ CopyInv' /\ LoginInv'
             /\ \A g \in Handlers : FetchInv(g)' /\ DecisionInv(g)'
  <2>1. /\ Judge(h, call[h], answer[h], "decided") /\ clock' = clock
        /\ call[h] \in Calls /\ answer[h] \in Modes /\ begun[h] \in Nat
        /\ UNCHANGED adminVars
    BY <1>0, <1>5 DEF FetchSucceeds, TypeOK
  <2>2. PICK a \in Modes : a = answer[h]
    BY <2>1
  <2>3. AsOf(a) \in Int
    BY AsOfType
  <2>4. /\ begun[h] <= AsOf(a) /\ clock <= begun[h] + FetchTimeout
    BY <1>5, <2>2 DEF FetchSucceeds, AppCheckInv, FetchInv
  <2>5. clock < AsOf(a) + Staleness /\ clock <= AsOf(a) + FetchTimeout
    BY <1>0, <2>1, <2>3, <2>4
  <2>6. /\ \A g \in Handlers : FetchInv(g)' /\ DecisionInv(g)'
        /\ LoginInv'
    BY <2>1, <2>2, <2>5, JudgePreserves
  <2>7. cached' = a /\ cachedAt' = clock /\ AsOf(a)' = AsOf(a)
    BY <1>5, <2>1, <2>2 DEF FetchSucceeds, AsOf
  <2>8. 0 <= AsOf(a)
    BY <2>1, <2>3, <2>4
  <2>9. CopyInv'
    BY <1>0, <2>1, <2>5, <2>7, <2>8 DEF CopyInv, AsOf
  <2> QED
    BY <2>6, <2>9
<1>6. ASSUME NEW h \in Handlers, FetchFails(h)
      PROVE  /\ CopyInv' /\ LoginInv'
             /\ \A g \in Handlers : FetchInv(g)' /\ DecisionInv(g)'
  <2> DEFINE m == IF hasValue THEN cached ELSE Fallback
  <2>1. /\ Judge(h, call[h], m, "guessed") /\ clock' = clock
        /\ call[h] \in Calls /\ m \in Modes
        /\ UNCHANGED <<providerVars, adminVars>>
    BY <1>0, <1>6 DEF FetchFails, TypeOK
  <2> HIDE DEF m
  <2>2. /\ \A g \in Handlers : FetchInv(g)' /\ DecisionInv(g)'
        /\ LoginInv'
    BY <2>1, JudgePreserves
  <2>3. CopyInv'
    BY <2>1 DEF AppCheckInv, CopyInv, AsOf, providerVars
  <2> QED
    BY <2>2, <2>3
<1>7. CASE UNCHANGED vars
  <2>1. ASSUME NEW g \in Handlers
        PROVE  FetchInv(g)' /\ DecisionInv(g)'
    <3>1. \/ clock' <= begun[g] + FetchTimeout
          \/ pc[g] \notin {"fetching", "answered"}
      BY <1>7 DEF vars, AppCheckInv, FetchInv
    <3> QED
      BY <1>7, <1>g, <3>1 DEF vars
  <2> QED
    BY <1>7, <1>q, <2>1 DEF vars
<1>8. ASSUME NEW c \in Calls, AuthenticateOverHTTP(c)
      PROVE  /\ CopyInv' /\ LoginInv'
             /\ \A g \in Handlers : FetchInv(g)' /\ DecisionInv(g)'
  <2>1. UNCHANGED <<clock, adminVars, providerVars, pc, begun, answer, age>>
    BY <1>8 DEF AuthenticateOverHTTP, verdictVars
  <2>2. CopyInv' /\ \A g \in Handlers : FetchInv(g)' /\ DecisionInv(g)'
    BY <2>1 DEF AppCheckInv, CopyInv, FetchInv, DecisionInv, AsOf, InForce,
       adminVars, providerVars
  <2> QED
    BY <1>8, <2>2, HttpFacts
<1> QED
  BY <1>1, <1>2, <1>3, <1>4, <1>5, <1>6, <1>7, <1>8 DEF Next, Serve

-----------------------------------------------------------------------------
\* The inductive invariant of the provider and the interceptor.
THEOREM AppCheckInvariant == Spec => []AppCheckInv
  BY InvInit, InvStep, PTL DEF Spec

\* Every variable keeps its type.
THEOREM TypeCorrect == Spec => []TypeOK
<1>1. AppCheckInv => TypeOK
  BY DEF AppCheckInv
<1> QED
  BY <1>1, AppCheckInvariant, PTL

\* A call whose own fetch did not fail is judged by a mode that was in force
\* within the TTL and one fetch, in whatever order answers are stored.
THEOREM ModesAreRecent == Spec => []ModeIsRecent
<1>1. AppCheckInv => ModeIsRecent
  BY DEF AppCheckInv, DecisionInv, ModeIsRecent
<1> QED
  BY <1>1, AppCheckInvariant, PTL

\* Every session goes back to an attested login, a failed fetch, a time before
\* enforcement arrived or a login over HTTP: no step-up opens a session from
\* nothing, and no call over gRPC passes enforcement unattested.
THEOREM GrpcSessionsGoBackToAttestation == Spec => []GrpcSessionsAreAttested
<1>1. AppCheckInv => GrpcSessionsAreAttested
  BY DEF AppCheckInv, LoginInv
<1> QED
  BY <1>1, AppCheckInvariant, PTL

\* Once a value is known, whether the fetch of a call succeeds or fails, the
\* mode it is judged by is one that an admin had set: the answer, which was
\* in force after it was asked for, or the copy, which was in force too.
LEMMA JudgedByAModeSet ==
  ASSUME AppCheckInv, [Next]_vars, NEW h \in Handlers,
         pc[h] \in {"fetching", "answered"}, Free(h)', hasValue
  PROVE  age'[h] <= clock
<1>0. TypeOK /\ clock \in Nat
  BY DEF AppCheckInv, TypeOK
<1>n. pc'[h] # pc[h]
  BY DEF Free
<1>j. ASSUME NEW m \in Modes, NEW outcome \in {"decided", "guessed"},
             Judge(h, call[h], m, outcome), 0 <= AsOf(m)
      PROVE  age'[h] <= clock
  <2>1. call[h] \in Calls
    BY <1>0 DEF TypeOK
  <2>2. age'[h] = clock - AsOf(m)
    BY <1>j, <2>1, JudgeFacts
  <2>3. AsOf(m) \in Int
    BY AsOfType
  <2> QED
    BY <1>0, <1>j, <2>2, <2>3
<1>1. CASE Tick
  BY <1>1, <1>n DEF Tick
<1>2. ASSUME NEW value \in Settings, AdminSets(value)
      PROVE  age'[h] <= clock
  BY <1>2, <1>n DEF AdminSets
<1>3. ASSUME NEW g \in Handlers, NEW c \in Calls, Arrive(g, c)
      PROVE  age'[h] <= clock
  <2>1. Free(g) /\ g # h
    BY <1>3 DEF Arrive, Free
  <2>2. CASE Fresh
    <3>1. Judge(g, c, cached, "decided") /\ cached \in Modes
      BY <1>0, <1>3, <2>2 DEF Arrive, TypeOK
    <3> QED
      BY <1>n, <2>1, <3>1, JudgeFacts
  <2>3. CASE ~Fresh
    BY <1>0, <1>3, <1>n, <2>1, <2>3 DEF Arrive, TypeOK
  <2> QED
    BY <2>2, <2>3
<1>4. ASSUME NEW g \in Handlers, AdminAnswers(g)
      PROVE  age'[h] <= clock
  <2>1. pc' = [pc EXCEPT ![g] = "answered"]
    BY <1>4 DEF AdminAnswers
  <2> QED
    BY <1>0, <1>n, <2>1 DEF TypeOK, Free
<1>5. ASSUME NEW g \in Handlers, FetchSucceeds(g)
      PROVE  age'[h] <= clock
  <2>1. /\ Judge(g, call[g], answer[g], "decided") /\ pc[g] = "answered"
        /\ call[g] \in Calls /\ answer[g] \in Modes /\ begun[g] \in Nat
    BY <1>0, <1>5 DEF FetchSucceeds, TypeOK
  <2>2. CASE g = h
    <3>1. PICK a \in Modes : a = answer[h]
      BY <2>1, <2>2
    <3>2. begun[h] <= AsOf(a) /\ AsOf(a) \in Int
      BY <2>1, <2>2, <3>1, AsOfType DEF AppCheckInv, FetchInv
    <3>3. 0 <= AsOf(a)
      BY <2>1, <2>2, <3>2
    <3> QED
      BY <1>j, <2>1, <2>2, <3>1, <3>3
  <2>3. CASE g # h
    BY <1>n, <2>1, <2>3, JudgeFacts
  <2> QED
    BY <2>2, <2>3
<1>6. ASSUME NEW g \in Handlers, FetchFails(g)
      PROVE  age'[h] <= clock
  <2>1. /\ Judge(g, call[g], cached, "guessed")
        /\ call[g] \in Calls /\ cached \in Modes
    BY <1>0, <1>6 DEF FetchFails, TypeOK
  <2>2. CASE g = h
    <3>1. 0 <= AsOf(cached)
      BY DEF AppCheckInv, CopyInv
    <3> QED
      BY <1>j, <2>1, <2>2, <3>1
  <2>3. CASE g # h
    BY <1>n, <2>1, <2>3, JudgeFacts
  <2> QED
    BY <2>2, <2>3
<1>7. CASE UNCHANGED vars
  BY <1>7, <1>n DEF vars
<1>8. ASSUME NEW c \in Calls, AuthenticateOverHTTP(c)
      PROVE  age'[h] <= clock
  BY <1>8, <1>n DEF AuthenticateOverHTTP
<1> QED
  BY <1>1, <1>2, <1>3, <1>4, <1>5, <1>6, <1>7, <1>8 DEF Next, Serve

\* Once a value is known, no call is judged by a mode that no admin ever set,
\* whatever fails and in whatever order answers are stored.
THEOREM NoModeIsInvented == Spec => LastGoodOrFallback
<1>1. AppCheckInv /\ [Next]_vars
        => [\A h \in Handlers :
              pc[h] \in {"fetching", "answered"} /\ Free(h)' /\ hasValue =>
                age'[h] <= clock]_vars
  BY JudgedByAModeSet
<1> QED
  BY <1>1, AppCheckInvariant, PTL DEF Spec, LastGoodOrFallback

=============================================================================
