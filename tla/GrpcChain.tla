------------------------------ MODULE GrpcChain ------------------------------
(***************************************************************************)
(* A unary call to the gateway's gRPC server: the chain of interceptors    *)
(* (src/main.go:783-803), the proxy that answers it (src/internal/proxy)   *)
(* and what that proxy tells the service behind it, while an app signs in  *)
(* and makes its calls one after the other.                                *)
(*                                                                         *)
(* A method stands for all of its service that are treated alike; the      *)
(* requests and answers themselves are left out.  App Check, the rate      *)
(* limit and the user's preferences have modules of their own: here they   *)
(* may refuse, or not.                                                     *)
(***************************************************************************)
EXTENDS Integers, Sequences

CONSTANTS
  Accounts,     \* the users
  Whitelisted,  \* those that every feature gate lets through
  Anyone        \* no user: nobody has been authenticated

ASSUME GrpcAssumption == Whitelisted \subseteq Accounts /\ Anyone \notin Accounts

\* The methods that proxies forward with forwardContext.
SignInMethods   == {"Login", "VerifyLoginOtp", "SkipLoginOtp", "ResendLoginOtp"}
AuthMethods     == {"GetMe"}
PinMethods      == {"VerifyTransactionPin"}
AccountsMethods == {"GetAccounts"}
FamilyMethods   == {"GetFamilyAccount", "AddFamilyMember"}
ReferralMethods == {"GetMyReferralCode"}
WhatsAppMethods == {"InitiateLinking"}
RecipientMethods    == {"CreateRecipient"}
CountryMethods      == {"GetUserLocale"}
NotificationMethods == {"GetNotifications"}
ContactMethods      == {"FindLazerVaultUsers"}

ForwardedMethods ==
  SignInMethods \cup AuthMethods \cup PinMethods \cup AccountsMethods
    \cup FamilyMethods \cup ReferralMethods \cup WhatsAppMethods
    \cup RecipientMethods \cup CountryMethods \cup NotificationMethods
    \cup ContactMethods

\* The user proxy asks for the caller itself, then forwards.
ProfileMethods  == {"UpdateUserProfile"}
PasscodeMethods == {"VerifyPasscode", "CheckPasscodeExists"}
DeviceMethods   == {"UpdateDevicePermissions"}

UserMethods == ProfileMethods \cup PasscodeMethods \cup DeviceMethods

\* These go to the Python gateways over HTTP.
ChatMethods  == {"ProcessChat", "GetAIChatHistory"}
VoiceMethods == {"StartVoiceSession"}

\* These go nowhere.
UserStubs  == {"UploadIDDocument"}
AgentStubs == {"IndexChatHistory", "ProcessVoiceNote"}

GrpcMethods ==
  ForwardedMethods \cup UserMethods \cup ChatMethods \cup VoiceMethods
    \cup UserStubs \cup AgentStubs

\* A bearer token, which verifies or does not.
Tokens == [user : Accounts, good : BOOLEAN]

NoTokens == <<>>
Nothing  == [user |-> Anyone, tokens |-> NoTokens, appcheck |-> "absent"]

VARIABLES
  stage,      \* the interceptor or handler that has the call
  method,
  bearer,     \* the values of its authorization metadata, in their order
  verdict,    \* App Check's: "absent", "valid" or "invalid"
  known,      \* the user in the call's context
  told,       \* what the service behind has been told, or Nothing
  replied,    \* how that service replied, or "none"
  outcome,    \* of the call
  refusedBy,  \* the interceptor that refused it
  stepUp,     \* whether the app holds a step-up token
  closedGates \* "unpolled", or whether the gates are "open" or "closed"

callerVars == <<method, bearer>>
grpcVars == <<stage, callerVars, verdict, known, told, replied, outcome,
              refusedBy, stepUp, closedGates>>

-----------------------------------------------------------------------------
GrpcInit ==
  /\ stage = "idle"
  /\ method = "Login"
  /\ bearer = NoTokens
  /\ verdict = "absent"
  /\ known = Anyone
  /\ told = Nothing
  /\ replied = "none"
  /\ outcome = "none"
  /\ refusedBy = "nobody"
  /\ stepUp = FALSE
  /\ closedGates = "unpolled"

\* Mutant: the gates come before the authentication.
AfterGateFirst(s) ==
  CASE s = "appcheck" -> "gate"
    [] s = "gate"     -> "jwt"
    [] s = "jwt"      -> "ratelimit"
    [] OTHER          -> "handler"

\* The order of the chain.  Recovery and logging surround it.
After(s) ==
  CASE s = "appcheck"  -> "jwt"
    [] s = "jwt"       -> "ratelimit"
    [] s = "ratelimit" -> "gate"
    [] OTHER           -> "handler"

Goes(s) == stage' = After(s) /\ UNCHANGED <<outcome, refusedBy>>

Refuses(s, code) ==
  stage' = "done" /\ outcome' = code /\ refusedBy' = s

Ends(code) ==
  stage' = "done" /\ outcome' = code /\ refusedBy' = "nobody"

\* An app without a session calls without a token; ResendLoginOtp and the two
\* that complete a step-up are called by who holds a step-up token.
Call(m, tokens) ==
  /\ stage = "idle"
  /\ m \in {"VerifyLoginOtp", "SkipLoginOtp", "ResendLoginOtp"} =>
       stepUp /\ tokens = NoTokens
  /\ stage' = "appcheck"
  /\ method' = m
  /\ bearer' = tokens
  /\ UNCHANGED <<verdict, known, told, replied, outcome, refusedBy, stepUp,
                 closedGates>>

\* AppCheckInterceptor leaves its verdict in the context, or refuses.
AppCheck ==
  /\ stage = "appcheck"
  /\ verdict' \in {"absent", "valid", "invalid"}
  /\ \/ Goes("appcheck")
     \/ verdict' # "valid" /\ Refuses("appcheck", "Unauthenticated")
  /\ UNCHANGED <<callerVars, known, told, replied, stepUp, closedGates>>

PublicEndpoint(m) == m \in {"Login", "VerifyLoginOtp", "SkipLoginOtp"}

\* JWTAuthInterceptor: the first value counts.
AuthenticatesGrpc ==
  /\ stage = "jwt"
  /\ IF PublicEndpoint(method) THEN Goes("jwt") /\ UNCHANGED known
     ELSE IF bearer # NoTokens /\ bearer[1].good
     THEN Goes("jwt") /\ known' = bearer[1].user
     ELSE Refuses("jwt", "Unauthenticated") /\ UNCHANGED known
  /\ UNCHANGED <<callerVars, verdict, told, replied, stepUp, closedGates>>

\* RateLimitInterceptor.
Limits ==
  /\ stage = "ratelimit"
  /\ Goes("ratelimit") \/ Refuses("ratelimit", "ResourceExhausted")
  /\ UNCHANGED <<callerVars, verdict, known, told, replied, stepUp, closedGates>>

\* The rules name two services; their reads are exempt.
GatedMethod(m) == m \in (FamilyMethods \cup ReferralMethods)
                          \ {"GetFamilyAccount", "GetMyReferralCode"}

\* featuregate.UnaryInterceptor with the snapshot polled last.
Gates ==
  /\ stage = "gate"
  /\ IF GatedMethod(method) /\ closedGates = "closed" /\ known \notin Whitelisted
     THEN Refuses("gate", "PermissionDenied") ELSE Goes("gate")
  /\ UNCHANGED <<callerVars, verdict, known, told, replied, stepUp, closedGates>>

\* The poll of the feature gates, in the background.
PollGates ==
  /\ closedGates' \in {"open", "closed"}
  /\ UNCHANGED <<stage, callerVars, verdict, known, told, replied, outcome,
                 refusedBy, stepUp>>

-----------------------------------------------------------------------------
\* Mutant: the last of several tokens is forwarded.
ForwardedTokensLast ==
  IF bearer = NoTokens THEN NoTokens ELSE <<bearer[Len(bearer)]>>

\* The first value of authorization, verified or not.
ForwardedTokens ==
  IF bearer = NoTokens THEN NoTokens ELSE <<bearer[1]>>

\* forwardContext: a caller's own x-user-id is not among the headers taken.
ForwardContext ==
  [user |-> known, tokens |-> ForwardedTokens, appcheck |-> verdict]

\* A proxy calls its service.
Forwards ==
  /\ stage = "handler"
  /\ method \in ForwardedMethods
  /\ stage' = "upstream"
  /\ told' = ForwardContext
  /\ UNCHANGED <<callerVars, verdict, known, replied, outcome, refusedBy, stepUp,
                 closedGates>>

UserProxyForwards ==
  /\ stage = "handler"
  /\ method \in UserMethods
  /\ IF known = Anyone THEN Ends("Unauthenticated") /\ UNCHANGED told
     ELSE /\ stage' = "upstream"
          /\ told' = ForwardContext
          /\ UNCHANGED <<outcome, refusedBy>>
  /\ UNCHANGED <<callerVars, verdict, known, replied, stepUp, closedGates>>

\* extractAuthToken takes the same value, without its scheme.
ExtractAuthToken == ForwardedTokens

\* ProcessChat and GetAIChatHistory send who the caller is in the body or the
\* query, with the token; without a user they answer by themselves.
ChatForwards ==
  /\ stage = "handler"
  /\ method \in ChatMethods
  /\ IF known = Anyone
     THEN Ends(IF method = "ProcessChat" THEN "NoSuccess" ELSE "Empty")
          /\ UNCHANGED told
     ELSE /\ stage' = "upstream"
          /\ told' = [user |-> known, tokens |-> ExtractAuthToken, appcheck |-> "absent"]
          /\ UNCHANGED <<outcome, refusedBy>>
  /\ UNCHANGED <<callerVars, verdict, known, replied, stepUp, closedGates>>

\* StartVoiceSession sends the token only.
VoiceForwards ==
  /\ stage = "handler"
  /\ method \in VoiceMethods
  /\ IF bearer = NoTokens THEN Ends("Unauthenticated") /\ UNCHANGED told
     ELSE /\ stage' = "upstream"
          /\ told' = [Nothing EXCEPT !.tokens = ExtractAuthToken]
          /\ UNCHANGED <<outcome, refusedBy>>
  /\ UNCHANGED <<callerVars, verdict, known, replied, stepUp, closedGates>>

Stubs ==
  /\ stage = "handler"
  /\ method \in UserStubs \cup AgentStubs
  /\ Ends(IF method = "IndexChatHistory" THEN "NothingDone" ELSE "Unimplemented")
  /\ UNCHANGED <<callerVars, verdict, known, told, replied, stepUp, closedGates>>

\* Mutant: whatever the agent answers is the assistant's reply.
AnswerOfChatAny(reply) ==
  IF reply = "unreachable" THEN "NoSuccess" ELSE "OK"

\* What ProcessChat makes of the chat gateway's reply.
AnswerOfChat(reply) ==
  CASE reply = "served"    -> "OK"
    [] reply = "malformed" -> "Internal"
    [] OTHER               -> "NoSuccess"

\* What each proxy makes of the reply: forwarders return it as it is.  A reply
\* is malformed if what the proxy needs of it is not there.
AnswerOf(reply) ==
  CASE method = "ProcessChat" -> AnswerOfChat(reply)
    [] method = "CheckPasscodeExists" /\ reply = "malformed" -> "NotFound"
    [] method = "GetAIChatHistory" -> IF reply = "served" THEN "OK" ELSE "Empty"
    [] method = "StartVoiceSession" ->
         IF reply = "served" THEN "OK"
         ELSE IF reply = "unreachable" THEN "Unavailable" ELSE "Internal"
    [] OTHER ->
         IF reply = "served" THEN "OK"
         ELSE IF reply = "unreachable" THEN "Unavailable" ELSE "refused"

\* The service answers; signing in, it may ask for a step-up or end it.  A
\* panic anywhere below the recovery interceptor becomes Internal.
ServiceReplies(reply) ==
  /\ stage = "upstream"
  /\ replied' = reply
  /\ Ends(AnswerOf(reply))
  /\ stepUp' \in IF reply # "served" THEN {stepUp}
                 ELSE CASE method = "Login" -> BOOLEAN
                        [] method \in {"VerifyLoginOtp", "SkipLoginOtp"} -> {FALSE}
                        [] OTHER -> {stepUp}
  /\ UNCHANGED <<callerVars, verdict, known, told, closedGates>>

PanicRecovered ==
  /\ stage \notin {"idle", "done"}
  /\ Ends("Internal")
  /\ UNCHANGED <<callerVars, verdict, known, told, replied, stepUp, closedGates>>

\* The answer reaches the app, and nothing is left of the call.
Return ==
  /\ stage = "done"
  /\ stage' = "idle"
  /\ method' = "Login" /\ bearer' = NoTokens
  /\ verdict' = "absent" /\ known' = Anyone /\ told' = Nothing
  /\ replied' = "none" /\ outcome' = "none" /\ refusedBy' = "nobody"
  /\ UNCHANGED <<stepUp, closedGates>>

GrpcNext ==
  \/ \E m \in GrpcMethods :
       \/ Call(m, NoTokens)
       \/ \E t \in Tokens : Call(m, <<t>>) \/ \E u \in Tokens : Call(m, <<t, u>>)
  \/ AppCheck \/ AuthenticatesGrpc \/ Limits \/ Gates \/ PollGates
  \/ Forwards \/ UserProxyForwards \/ ChatForwards \/ VoiceForwards \/ Stubs
  \/ \E reply \in {"served", "failed", "malformed", "unreachable"} :
       ServiceReplies(reply)
  \/ PanicRecovered \/ Return

GrpcSpec == GrpcInit /\ [][GrpcNext]_grpcVars

-----------------------------------------------------------------------------
\* Every variable has its type.
GrpcTypeOK ==
  /\ stage \in {"idle", "appcheck", "jwt", "ratelimit", "gate", "handler", "upstream",
               "done"}
  /\ method \in GrpcMethods
  /\ bearer \in Seq(Tokens) /\ Len(bearer) <= 2
  /\ verdict \in {"absent", "valid", "invalid"}
  /\ known \in Accounts \cup {Anyone}
  /\ told.user \in Accounts \cup {Anyone}
  /\ told.tokens \in Seq(Tokens)
  /\ told.appcheck \in {"absent", "valid", "invalid"}
  /\ replied \in {"none", "served", "failed", "malformed", "unreachable"}
  /\ outcome \in {"none", "OK", "Empty", "NoSuccess", "NothingDone",
                  "refused", "Internal", "NotFound", "PermissionDenied", "ResourceExhausted",
                  "Unauthenticated", "Unavailable", "Unimplemented"}
  /\ refusedBy \in {"nobody", "appcheck", "jwt", "ratelimit", "gate"}
  /\ stepUp \in BOOLEAN
  /\ closedGates \in {"unpolled", "open", "closed"}

\* Whatever a caller sends, twice or expired, a service that is told a user is
\* told the one of the token it is handed, and that token has been verified;
\* only public calls reach one without (auth_proxy.go:26-75,
\* ai_chat_proxy.go:192-250, interceptors/auth.go:14-50).
ServicesAreToldTheCaller ==
  told # Nothing /\ ~PublicEndpoint(method) =>
    /\ Len(told.tokens) = 1 /\ told.tokens[1].good
    /\ told.user \in {told.tokens[1].user}
         \cup IF method = "StartVoiceSession" THEN {Anyone} ELSE {}
    /\ known = told.tokens[1].user

\* "Placed before it, every gate would fall back to its switch and no
\* whitelisted tester would ever be let through" (main.go:790-794): a closed
\* gate never refuses a whitelisted user with a session, nor anybody before
\* the first poll.
TestersAreNeverGated ==
  refusedBy = "gate" =>
    /\ bearer # NoTokens /\ bearer[1].user \notin Whitelisted
    /\ closedGates # "unpolled"

\* An OK that carries an answer is the answer of a service that served the
\* call (ai_chat_proxy.go:262-330, voice_session_proxy.go:97-126).
SuccessIsTheServices == outcome = "OK" => replied = "served"

\* A call past the authentication has the user of its first token, and what
\* its service is told is made of the two (interceptors/auth.go:14-53,
\* auth_proxy.go:26-75).
CallersAreKnown ==
  /\ (stage \in {"ratelimit", "gate", "handler", "upstream"} \/ told # Nothing)
       /\ ~PublicEndpoint(method) =>
       bearer # NoTokens /\ bearer[1].good /\ known = bearer[1].user
  /\ told # Nothing =>
       /\ stage \in {"upstream", "done"}
       /\ told.tokens = ForwardedTokens
       /\ told.user = known \/ (method = "StartVoiceSession" /\ told.user = Anyone)

\* A call that goes on has no outcome, and none that ended goes on.
OutcomesAreLast ==
  /\ stage # "done" => outcome = "none" /\ refusedBy = "nobody"
  /\ stage \notin {"upstream", "done"} => told = Nothing

\* The inductive invariant (main.go:783-803).
GrpcInv ==
  /\ GrpcTypeOK
  /\ CallersAreKnown /\ OutcomesAreLast
  /\ TestersAreNeverGated /\ SuccessIsTheServices

\* "Public: issue a fresh step-up code for an in-flight challenge"
\* (src/proto/auth.proto:492): who holds a step-up token, and no session, is
\* not refused for the want of one.
PublicCallsPass ==
  method \in SignInMethods => refusedBy # "jwt"

=============================================================================
