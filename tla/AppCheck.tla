------------------------------ MODULE AppCheck ------------------------------
(***************************************************************************)
(* Device attestation on the gRPC server: AppCheckInterceptor and the      *)
(* cached mode it asks AppCheckModeProvider for                            *)
(* (src/internal/interceptors/appcheck.go, appcheck_mode.go).  The mode is *)
(* a setting of admin-gateway.  Unlike the list of RevocationList it is    *)
(* fetched outside the lock, by every caller that finds it old, so that a  *)
(* slow answer may be stored after a newer one.  Over HTTP the mux calls   *)
(* auth-service itself and App Check sees nothing.                         *)
(***************************************************************************)
EXTENDS Integers

CONSTANTS
  Handlers,      \* goroutines serving gRPC calls
  Devices,       \* installations of the app
  Calls,         \* the calls they may make
  Settings,      \* what an admin may write into auth_appcheck_mode
  Unset,         \* the key is not set
  Fallback,      \* AUTH_APPCHECK_MODE
  ModeTTL,       \* appCheckModeTTL
  FetchTimeout,  \* the timeout of the provider's http.Client
  NoLogin,       \* a device has no JWT, or no challenge
  MaxTime        \* bound of the clock

Modes     == {"off", "report", "enforce", "enforce_auth"}
Enforcing == {"enforce", "enforce_auth"}

\* Login stands for authTokenIssuingMethods, VerifyLoginOtp for the step-up
\* methods, both public; GetAccounts for everything else.
Issuing == {"Login"}
Public  == {"Login", "VerifyLoginOtp"}

\* attested: the call carries an App Check token that the verifier accepts.
Call == [device : Devices, method : Public \cup {"GetAccounts"},
         attested : BOOLEAN]

\* Why a login that auth-service accepted had been let through; "unseen" over
\* HTTP.
Grounds == {"attested", "guessed", "lenient", "unseen", "none"}

ASSUME ConstantsAssumption ==
  /\ Calls \subseteq Call /\ Calls # {}
  /\ NoLogin \notin Grounds
  /\ Settings # {}
  /\ Fallback \in Modes
  /\ ModeTTL \in Nat \ {0}
  /\ FetchTimeout \in Nat
  /\ MaxTime \in Nat

\* A mode served now was in force less than this long ago.
Staleness == ModeTTL + FetchTimeout

\* Before anything the model remembers.
Never == -Staleness

VARIABLES
  clock,
  setting,      \* the value admin-gateway has
  lastInForce,  \* when each mode was last in force
  cached, cachedAt, hasValue,  \* the provider's copy
  pc, call,     \* what each handler does, and for which call it waits
  begun,        \* when its fetch was sent
  answer,       \* the mode admin-gateway answered it with
  verdict,      \* what the interceptor decided
  age,          \* and for how long the mode it judged by had been replaced
  stepUp,       \* the grounds of the login each device is challenged for
  session       \* the grounds of the login each device's JWT goes back to

adminVars    == <<setting, lastInForce>>
providerVars == <<cached, cachedAt, hasValue>>
verdictVars  == <<verdict, age>>
authVars     == <<stepUp, session>>
vars == <<clock, adminVars, providerVars, pc, call, begun, answer,
          verdictVars, authVars>>

-----------------------------------------------------------------------------
AnyCall == CHOOSE c \in Calls : TRUE

\* ParseAppCheckMode, and the fallback for a blank value.
InForce(value) ==
  IF value = Unset THEN Fallback
  ELSE IF value \in Modes THEN value
  ELSE "report"

\* When mode m was last in force.
AsOf(m) == IF m = InForce(setting) THEN clock ELSE lastInForce[m]

\* When a mode that lets everybody log in was last in force.
LenientAsOf ==
  IF AsOf("off") > AsOf("report") THEN AsOf("off") ELSE AsOf("report")

\* Mutant: a copy is never old.
FreshForEver == hasValue

Fresh == hasValue /\ clock - cachedAt < ModeTTL

\* Mutant: only the strictest mode enforces.
EnforcedStrictly(c, m) == m = "enforce"

\* enforceThis.
EnforcedOn(c, m) ==
  \/ m = "enforce"
  \/ m = "enforce_auth" /\ c.method \in Issuing

Passes(c, m) == EnforcedOn(c, m) => c.attested

Free(h) == pc[h] \in {"idle", "decided", "guessed"}

\* It was attested; or a fetch of its own had failed; or a mode that lets
\* everybody log in had been in force within Staleness.
GroundsOf(c, outcome) ==
  IF c.attested THEN "attested"
  ELSE IF outcome = "guessed" THEN "guessed"
  ELSE IF clock < LenientAsOf + Staleness THEN "lenient"
  ELSE "none"

\* auth-service handles a call that reaches it: a login mints a JWT, sends a
\* challenge (whose temp token the step-up needs) or is refused; a step-up mints
\* the JWT the challenge was for, or is refused.
AuthServiceHandles(c, grounds) ==
  \/ UNCHANGED authVars
  \/ /\ c.method = "Login"
     /\ \/ /\ session' = [session EXCEPT ![c.device] = grounds]
           /\ UNCHANGED stepUp
        \/ /\ stepUp' = [stepUp EXCEPT ![c.device] = grounds]
           /\ UNCHANGED session
  \/ /\ c.method = "VerifyLoginOtp"
     /\ stepUp[c.device] # NoLogin
     /\ session' = [session EXCEPT ![c.device] = stepUp[c.device]]
     /\ stepUp' = [stepUp EXCEPT ![c.device] = NoLogin]

\* The interceptor judges call c by mode m.  outcome: "decided", or "guessed"
\* when a fetch for this call has failed.
Judge(h, c, m, outcome) ==
  /\ pc' = [pc EXCEPT ![h] = outcome]
  /\ call' = [call EXCEPT ![h] = AnyCall]
  /\ verdict' = [verdict EXCEPT ![h] =
                   IF Passes(c, m) THEN "passed" ELSE "rejected"]
  /\ age' = [age EXCEPT ![h] = clock - AsOf(m)]
  /\ begun' = [begun EXCEPT ![h] = 0]
  /\ answer' = [answer EXCEPT ![h] = Fallback]
  /\ IF Passes(c, m)
     THEN AuthServiceHandles(c, GroundsOf(c, outcome))
     ELSE UNCHANGED authVars

-----------------------------------------------------------------------------
Init ==
  /\ clock = 0
  /\ setting \in Settings
  /\ lastInForce = [m \in Modes |-> Never]
  /\ cached = Fallback
  /\ cachedAt = 0
  /\ hasValue = FALSE
  /\ pc = [h \in Handlers |-> "idle"]
  /\ call = [h \in Handlers |-> AnyCall]
  /\ begun = [h \in Handlers |-> 0]
  /\ answer = [h \in Handlers |-> Fallback]
  /\ verdict = [h \in Handlers |-> "none"]
  /\ age = [h \in Handlers |-> 0]
  /\ stepUp = [d \in Devices |-> NoLogin]
  /\ session = [d \in Devices |-> NoLogin]

\* A second passes, unless the client's timeout is due on a fetch.
Tick ==
  /\ clock < MaxTime
  /\ \A h \in Handlers :
       pc[h] \in {"fetching", "answered"} => clock < begun[h] + FetchTimeout
  /\ clock' = clock + 1
  /\ UNCHANGED <<adminVars, providerVars, pc, call, begun, answer,
                 verdictVars, authVars>>

\* An admin changes the setting.
AdminSets(value) ==
  /\ value # setting
  /\ setting' = value
  /\ lastInForce' = [lastInForce EXCEPT ![InForce(setting)] = clock]
  /\ UNCHANGED <<clock, providerVars, pc, call, begun, answer, verdictVars,
                 authVars>>

\* A call reaches the interceptor, which asks for the mode.  A fresh copy,
\* read under RLock, judges it; else a fetch is sent.
Arrive(h, c) ==
  /\ Free(h)
  /\ IF Fresh
     THEN Judge(h, c, cached, "decided")
     ELSE /\ call' = [call EXCEPT ![h] = c]
          /\ pc' = [pc EXCEPT ![h] = "fetching"]
          /\ begun' = [begun EXCEPT ![h] = clock]
          /\ verdict' = [verdict EXCEPT ![h] = "none"]
          /\ age' = [age EXCEPT ![h] = 0]
          /\ UNCHANGED <<answer, authVars>>
  /\ UNCHANGED <<clock, adminVars, providerVars>>

\* admin-gateway reads the setting.
AdminAnswers(h) ==
  /\ pc[h] = "fetching"
  /\ answer' = [answer EXCEPT ![h] = InForce(setting)]
  /\ pc' = [pc EXCEPT ![h] = "answered"]
  /\ UNCHANGED <<clock, adminVars, providerVars, call, begun, verdictVars,
                 authVars>>

\* The answer is stored, whatever has been stored meanwhile, and judges.
FetchSucceeds(h) ==
  /\ pc[h] = "answered"
  /\ cached' = answer[h]
  /\ cachedAt' = clock
  /\ hasValue' = TRUE
  /\ Judge(h, call[h], answer[h], "decided")
  /\ UNCHANGED <<clock, adminVars>>

\* Mutants: the copy is not looked at, or is dated anew to spare the service.
FetchFailsToFallback(h) ==
  /\ pc[h] \in {"fetching", "answered"}
  /\ Judge(h, call[h], Fallback, "guessed")
  /\ UNCHANGED <<clock, adminVars, providerVars>>

FetchFailsRedating(h) ==
  /\ pc[h] \in {"fetching", "answered"}
  /\ cachedAt' = clock
  /\ Judge(h, call[h], IF hasValue THEN cached ELSE Fallback, "guessed")
  /\ UNCHANGED <<clock, adminVars, cached, hasValue>>

\* An error, a status other than 200, a bad body or the timeout: the copy, if
\* there is one, judges, whatever its age.
FetchFails(h) ==
  /\ pc[h] \in {"fetching", "answered"}
  /\ Judge(h, call[h], IF hasValue THEN cached ELSE Fallback, "guessed")
  /\ UNCHANGED <<clock, adminVars, providerVars>>

\* A login or a step-up over HTTP: the path is public and the mux passes it to
\* auth-service, attested or not, in every mode.
AuthenticateOverHTTP(c) ==
  /\ c.method \in Public
  /\ AuthServiceHandles(c, "unseen")
  /\ UNCHANGED <<clock, adminVars, providerVars, pc, call, begun, answer,
                 verdictVars>>

Serve(h) ==
  \/ \E c \in Calls : Arrive(h, c)
  \/ AdminAnswers(h)
  \/ FetchSucceeds(h)
  \/ FetchFails(h)

Next ==
  \/ Tick
  \/ \E value \in Settings : AdminSets(value)
  \/ \E c \in Calls : AuthenticateOverHTTP(c)
  \/ \E h \in Handlers : Serve(h)

Spec == Init /\ [][Next]_vars

-----------------------------------------------------------------------------
\* Every variable has its type.
TypeOK ==
  /\ clock \in Nat
  /\ setting \in Settings
  /\ lastInForce \in [Modes -> Int]
  /\ cached \in Modes
  /\ cachedAt \in Nat
  /\ hasValue \in BOOLEAN
  /\ pc \in [Handlers -> {"idle", "fetching", "answered", "decided",
                          "guessed"}]
  /\ call \in [Handlers -> Calls]
  /\ begun \in [Handlers -> Nat]
  /\ answer \in [Handlers -> Modes]
  /\ verdict \in [Handlers -> {"none", "passed", "rejected"}]
  /\ age \in [Handlers -> Int]
  /\ stepUp \in [Devices -> Grounds \cup {NoLogin}]
  /\ session \in [Devices -> Grounds \cup {NoLogin}]

\* A call whose own fetch did not fail is judged by a mode that was in force
\* within the TTL and one fetch, although answers overtake each other on their
\* way to the copy and other calls' fetches fail.
ModeIsRecent ==
  \A h \in Handlers : pc[h] = "decided" => age[h] < Staleness

\* "The JWT chain is rooted in an attested device" (appcheck.go:38), although
\* the step-up methods are not attested themselves: every session goes back,
\* at once or through a challenge, to a login that was attested, unless a fetch
\* of that login's own had failed, enforcement had not had the time to reach
\* the gateway, or the login came over HTTP.
GrpcSessionsAreAttested == \A d \in Devices : session[d] # "none"

\* "On any error it serves the last good value, or the fallback"
\* (appcheck_mode.go:20): once a value is known, no call is judged by a mode
\* that no admin ever set.
LastGoodOrFallback ==
  [][\A h \in Handlers :
       pc[h] \in {"fetching", "answered"} /\ Free(h)' /\ hasValue =>
         age'[h] <= clock]_vars

-----------------------------------------------------------------------------
(* The inductive invariant, proved in AppCheckProofs.                      *)

\* The copy holds a mode that was in force at most one fetch before it was
\* stored, even when an older answer has replaced a newer one.
CopyInv == hasValue =>
  /\ cachedAt <= clock
  /\ cachedAt <= AsOf(cached) + FetchTimeout
  /\ 0 <= AsOf(cached)

\* An answer under way holds a mode that was in force after it was asked for.
FetchInv(h) ==
  /\ pc[h] \in {"fetching", "answered"} =>
       begun[h] <= clock /\ clock <= begun[h] + FetchTimeout
  /\ pc[h] = "answered" => begun[h] <= AsOf(answer[h])

DecisionInv(h) == pc[h] = "decided" => age[h] < Staleness

\* Challenges are as sound as sessions.
LoginInv == GrpcSessionsAreAttested /\ \A d \in Devices : stepUp[d] # "none"

\* Every copy, answer, decision and login is sound: the inductive invariant.
AppCheckInv ==
  /\ TypeOK
  /\ \A m \in Modes : lastInForce[m] <= clock
  /\ CopyInv
  /\ \A h \in Handlers : FetchInv(h) /\ DecisionInv(h)
  /\ LoginInv

-----------------------------------------------------------------------------
(* What the comments promise and the code does not keep.                   *)

\* "Forward the Firebase App Check token [...] from the HTTP path to gRPC
\* metadata so the App Check interceptor can verify it" (main.go:1571-1572), "a
\* JWT is only ever minted for an attested device" (appcheck.go:29-30): a login
\* over HTTP is judged like any other.  No interceptor of the gateway is on its
\* way.
HttpSessionsAreAttested == \A d \in Devices : session[d] # "unseen"

=============================================================================
