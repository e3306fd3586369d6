----------------------------- MODULE ChainProofs -----------------------------
(***************************************************************************)
(* Proofs about the chains of HTTP and gRPC calls.                         *)
(*                                                                         *)
(* An HTTP call: HttpInv is inductive, and from it how many documents a    *)
(* client gets, for whom a service is called and who is told OK.           *)
(*                                                                         *)
(* A unary gRPC call, for any users and testers: GrpcInv is inductive, and *)
(* from it what a service is told, whom a gate refuses, and what an OK     *)
(* stands for.                                                             *)
(***************************************************************************)
EXTENDS HttpChain, GrpcChain, TLAPS

-----------------------------------------------------------------------------
(* HTTP.                                                                   *)

\* What a request consists of.
LEMMA RequestFields ==
  ASSUME NEW q \in Request
  PROVE  /\ q.route \in Routes /\ q.token \in {"none", "bad", "good"}
         /\ q.body \in BOOLEAN /\ q.browser \in BOOLEAN
BY DEF Request

\* The handlers of the PINs refuse with an error.
LEMMA RefusalsAreErrors ==
  ASSUME NEW q \in Request, NEW verified \in BOOLEAN, q.route \in Pins
  PROVE  Refusal(q, verified) \in {0, 400, 401, 403}
<1> DEFINE Codes == {0, 400, 401, 403}
<1>1. q.body \in BOOLEAN
  BY RequestFields
<1>2. /\ VerifyTransactionPin(q) \in Codes /\ GetChannelPins(verified) \in Codes
      /\ RegisterChannel(q, verified) \in Codes
      /\ VerifyChannelOTP(q, verified) \in Codes
      /\ GetChannelRegistrations \in Codes
      /\ DeactivateChannel(q, verified) \in Codes
      /\ ResolvePhoneToUser(q) \in Codes
  BY <1>1 DEF VerifyTransactionPin, GetChannelPins, RegisterChannel,
     VerifyChannelOTP, GetChannelRegistrations, DeactivateChannel,
     ResolvePhoneToUser
<1> HIDE DEF Codes
<1>3. Refusal(q, verified) \in Codes
  BY <1>2, Zenon DEF Refusal, Pins
<1> QED
  BY <1>3 DEF Codes

\* What is answered without a service: an OK only by the root's own routes,
\* and nothing else but a call on to a service for a known caller.
LEMMA ImmediateFacts ==
  ASSUME NEW q \in Request, NEW denied \in BOOLEAN
  PROVE  /\ Immediate(q, denied) \in {0, 200, 400, 401, 403, 404}
         /\ q.route \in Private /\ Immediate(q, denied) = 0 => q.token = "good"
         /\ q.route \in Private => Immediate(q, denied) # 200
<1> DEFINE verified == q.route \in Authenticated /\ q.token = "good"
           guarded  == denied /\ q.route \in Private \cup Public /\ q.token # "none"
<1>1. CASE (q.route \in Authenticated /\ ~verified) \/ guarded
  BY <1>1 DEF Immediate, Authenticated
<1>2. CASE ~((q.route \in Authenticated /\ ~verified) \/ guarded)
  <2>1. q.route \in Private => q.token = "good"
    BY <1>2 DEF Authenticated
  <2>2. q.route \in Private => q.route \notin {"metrics", "degradation"}
    BY DEF Private, Reads, Blocked, Pins, Uploads
  <2>3. CASE q.route \in Blocked
    BY <1>2, <2>1, <2>3 DEF Immediate
  <2>4. CASE q.route \notin Blocked /\ q.route \in Pins /\ Intercepted(q)
    <3>1. Refusal(q, verified) \in {0, 400, 401, 403}
      <4>1. verified \in BOOLEAN
        OBVIOUS
      <4> HIDE DEF verified
      <4> QED
        BY <2>4, <4>1, RefusalsAreErrors
    <3>2. Immediate(q, denied) = Refusal(q, verified)
      BY <1>2, <2>4 DEF Immediate
    <3> QED
      BY <2>1, <3>1, <3>2
  <2>5. CASE q.route \notin Blocked /\ ~(q.route \in Pins /\ Intercepted(q))
    BY <1>2, <2>1, <2>2, <2>5 DEF Immediate
  <2> QED
    BY <2>3, <2>4, <2>5
<1> QED
  BY <1>1, <1>2

\* The statuses that an answer of a service can become.
LEMMA StatusFacts ==
  ASSUME NEW q \in Request, NEW ok \in BOOLEAN
  PROVE  StatusOf(q, ok) \in {200, 202, 400, 500, 502, 503}
<1> DEFINE Codes == {200, 202, 400, 500, 502, 503}
<1>1. q.body \in BOOLEAN
  BY RequestFields
<1>2. /\ ClientLogs(q) \in Codes /\ HealthCheck(ok) \in Codes
      /\ ReadinessCheck(ok) \in Codes /\ Support(ok) \in Codes
      /\ Upload(ok) \in Codes /\ UnifiedSearch(ok) \in Codes
      /\ PinHandler(ok) \in Codes /\ GrpcGateway(ok) \in Codes
  BY <1>1 DEF ClientLogs, HealthCheck, ReadinessCheck, Support, Upload,
     UnifiedSearch, PinHandler, GrpcGateway
<1> HIDE DEF Codes
<1>3. StatusOf(q, ok) \in Codes
  BY <1>2, Zenon DEF StatusOf
<1> QED
  BY <1>3 DEF Codes

\* The chain starts sound.
LEMMA HttpInitInv == ChainInit => HttpInv
<1> SUFFICES ASSUME ChainInit PROVE HttpInv
  OBVIOUS
<1>1. request \in Request /\ request.route = "ready"
  BY DEF ChainInit
<1>2. ChainTypeOK
  <2>1. /\ user \in BOOLEAN /\ cors \in BOOLEAN /\ errors \in BOOLEAN
        /\ late \in BOOLEAN /\ expired \in BOOLEAN
    BY Zenon DEF ChainInit
  <2> QED
    BY <1>1, <2>1 DEF ChainInit, ChainTypeOK
<1>3. ResponseInv
  BY DEF ChainInit, ResponseInv
<1>4. CallerInv
  BY DEF ChainInit, CallerInv
<1> QED
  BY <1>2, <1>3, <1>4 DEF HttpInv

\* A call arrives; time passes; an entry expires.
LEMMA ArrivalInv ==
  ASSUME HttpInv, (\E q \in Request : ArriveHttp(q)) \/ TimePasses \/ EntryExpires
  PROVE  HttpInv'
<1>1. ASSUME NEW q \in Request, ArriveHttp(q) PROVE HttpInv'
  <2>1. ChainTypeOK'
    <3>1. /\ user' \in BOOLEAN /\ cors' \in BOOLEAN /\ errors' \in BOOLEAN
          /\ late' \in BOOLEAN /\ expired' \in BOOLEAN
      BY <1>1, Zenon DEF ArriveHttp
    <3> QED
      BY <1>1, <3>1 DEF ArriveHttp, HttpInv, ChainTypeOK
  <2>2. ResponseInv'
    BY <1>1 DEF ArriveHttp, ResponseInv
  <2>3. CallerInv'
    BY <1>1 DEF ArriveHttp, HttpInv, CallerInv
  <2> QED
    BY <2>1, <2>2, <2>3 DEF HttpInv
<1>2. CASE TimePasses
  <2>1. ChainTypeOK'
    BY <1>2 DEF TimePasses, HttpInv, ChainTypeOK, responseVars
  <2>2. ResponseInv'
    BY <1>2 DEF TimePasses, HttpInv, ResponseInv, responseVars
  <2>3. CallerInv'
    BY <1>2 DEF TimePasses, HttpInv, CallerInv, responseVars
  <2> QED
    BY <2>1, <2>2, <2>3 DEF HttpInv
<1>3. CASE EntryExpires
  BY <1>3 DEF EntryExpires, HttpInv, ChainTypeOK, ResponseInv, CallerInv,
     responseVars, timeVars
<1> QED
  BY <1>1, <1>2, <1>3

\* A HIT keeps the chain sound: what is cached was a verified token's.
LEMMA CacheHitInv ==
  ASSUME HttpInv, CacheHit
  PROVE  HttpInv'
<1>1. request.token = "good"
  <2>1. <<request.route, request.token>>[2] = "good"
    BY DEF CacheHit, HttpInv, CallerInv
  <2> QED
    BY <2>1
<1> QED
  BY <1>1 DEF CacheHit, Respond, HttpInv, ChainTypeOK, ResponseInv,
     CallerInv, timeVars

\* Whatever answers without a service answers once, and only refuses or
\* passes on a private route.
LEMMA DispatchInv ==
  ASSUME HttpInv, Dispatch
  PROVE  HttpInv'
<1>0. PICK denied \in BOOLEAN :
        IF Immediate(request, denied) = 0
        THEN at' = "upstream" /\ UNCHANGED <<status, documents>>
        ELSE at' = "leaving" /\ Respond(Immediate(request, denied), 1)
  BY DEF Dispatch
<1> DEFINE now == Immediate(request, denied)
<1>1. /\ now \in {0, 200, 400, 401, 403, 404}
      /\ request.route \in Private /\ now = 0 => request.token = "good"
      /\ request.route \in Private => now # 200
  BY ImmediateFacts DEF HttpInv, ChainTypeOK
<1>2. request.browser \in BOOLEAN
  BY RequestFields DEF HttpInv, ChainTypeOK
<1>3. /\ request' = request /\ cachedReads' = cachedReads
      /\ errors' = errors /\ late' = late /\ expired' = expired
      /\ cors' = request.browser /\ at = "arrived"
      /\ user' = (request.route \in Private /\ request.token = "good")
  BY DEF Dispatch, timeVars, Authenticated
<1>4. /\ user' \in BOOLEAN /\ cors' \in BOOLEAN
      /\ user' => request.route \in Private /\ request.token = "good"
      /\ request.route \in Private /\ request.token = "good" => user'
  BY <1>2, <1>3, Zenon
<1>5. CASE now = 0
  <2>1. at' = "upstream" /\ status' = status /\ documents' = documents
    BY <1>0, <1>5
  <2> QED
    BY <1>1, <1>3, <1>4, <1>5, <2>1
       DEF HttpInv, ChainTypeOK, ResponseInv, CallerInv
<1>6. CASE now # 0
  <2>1. at' = "leaving" /\ status' = now /\ documents' = 1
    BY <1>0, <1>3, <1>6 DEF Respond, HttpInv, ResponseInv
  <2> QED
    BY <1>1, <1>3, <1>4, <1>6, <2>1
       DEF HttpInv, ChainTypeOK, ResponseInv, CallerInv
<1> QED
  BY <1>5, <1>6

\* A service, a switch or a panic answers once.
LEMMA AnswerInv ==
  ASSUME HttpInv, AdminSwitches \/ (\E ok \in BOOLEAN : ServiceAnswers(ok)) \/ Panic
  PROVE  HttpInv'
<1>1. request.route \in Private => request.token = "good"
  BY DEF AdminSwitches, ServiceAnswers, Panic, HttpInv, CallerInv
<1>2. request.body \in BOOLEAN /\ request.route \in Routes
  BY RequestFields DEF HttpInv, ChainTypeOK
<1>3. CASE AdminSwitches
  <2>1. errors' \in BOOLEAN /\ (errors' => ~request.body)
    BY <1>2, <1>3, Zenon DEF AdminSwitches
  <2>2. status' \in {200, 400, 404}
    BY <1>3 DEF AdminSwitches
  <2> QED
    BY <1>1, <1>3, <2>1, <2>2
       DEF AdminSwitches, HttpInv, ChainTypeOK, ResponseInv, CallerInv, timeVars
<1>4. ASSUME NEW ok \in BOOLEAN, ServiceAnswers(ok) PROVE HttpInv'
  <2>1. StatusOf(request, ok) \in {200, 202, 400, 500, 502, 503}
    BY StatusFacts DEF HttpInv, ChainTypeOK
  <2> QED
    BY <1>1, <1>4, <2>1
       DEF ServiceAnswers, Respond, HttpInv, ChainTypeOK, ResponseInv,
           CallerInv, timeVars
<1>5. CASE Panic
  BY <1>1, <1>5
     DEF Panic, Respond, HttpInv, ChainTypeOK, ResponseInv, CallerInv, timeVars
<1> QED
  BY <1>3, <1>4, <1>5

\* Only an OK is stored, so only for a verified token; and no document is
\* added but to a BindJSON's refusal or after WriteTimeout.
LEMMA LeaveInv ==
  ASSUME HttpInv, LeaveChain
  PROVE  HttpInv'
<1>1. /\ request' = request /\ user' = user /\ cors' = cors
      /\ errors' = errors /\ late' = late /\ expired' = expired
      /\ at' = "over" /\ at = "leaving" /\ status' = status
      /\ documents' = documents + ((IF errors THEN 1 ELSE 0) + (IF expired THEN 1 ELSE 0))
  BY DEF LeaveChain, Respond, timeVars, HttpInv, ResponseInv
<1>2. documents' \in 0 .. 3 /\ (documents' = 1 \/ late' \/ errors')
  BY <1>1 DEF HttpInv, ChainTypeOK, ResponseInv
<1>3. /\ cachedReads' \in SUBSET (Reads \X {"good", "bad"})
      /\ \A e \in cachedReads' : e[2] = "good"
  <2>1. CASE Cacheable
    <3>1. request.route \in Reads /\ request.token = "good"
      BY <1>1, <2>1 DEF Cacheable, HttpInv, CallerInv, Private
    <3>2. cachedReads' = cachedReads \cup {<<request.route, request.token>>}
      BY <2>1 DEF LeaveChain
    <3> QED
      BY <3>1, <3>2 DEF HttpInv, ChainTypeOK, CallerInv
  <2>2. CASE ~Cacheable
    <3>1. cachedReads' \subseteq cachedReads
      BY <2>2 DEF LeaveChain
    <3> QED
      BY <3>1 DEF HttpInv, ChainTypeOK, CallerInv
  <2> QED
    BY <2>1, <2>2
<1> QED
  BY <1>1, <1>2, <1>3 DEF HttpInv, ChainTypeOK, ResponseInv, CallerInv

\* Every step keeps the chain sound.
LEMMA HttpStepInv == HttpInv /\ [ChainNext]_chainVars => HttpInv'
<1> SUFFICES ASSUME HttpInv, [ChainNext]_chainVars PROVE HttpInv'
  OBVIOUS
<1>1. CASE UNCHANGED chainVars
  BY <1>1 DEF chainVars, responseVars, timeVars, HttpInv, ChainTypeOK,
     ResponseInv, CallerInv
<1> QED
  BY <1>1, ArrivalInv, CacheHitInv, DispatchInv, AnswerInv, LeaveInv
     DEF ChainNext, ChainStep

\* Every reachable state of the chain is sound.
THEOREM HttpInvariant == ChainSpec => []HttpInv
BY HttpInitInv, HttpStepInv, PTL DEF ChainSpec

\* A response that reaches its client holds one document, unless an admin sent
\* no body: the 408 of TimeoutMiddleware never gets out.
THEOREM ResponsesAreWhole == ChainSpec => []OneDocument
<1>1. HttpInv => OneDocument
  BY DEF HttpInv, ResponseInv, OneDocument, Delivered
<1> QED
  BY <1>1, HttpInvariant, PTL

\* No service is called for a private route but for a verified user.
THEOREM PrivateRoutesHaveAUser == ChainSpec => []ServicesKnowTheCaller
<1>1. HttpInv => ServicesKnowTheCaller
  BY DEF HttpInv, CallerInv, ServicesKnowTheCaller
<1> QED
  BY <1>1, HttpInvariant, PTL

\* Nobody without a verified token is told OK on a private route, although the
\* cache answers before authentication.
THEOREM OkIsForTheVerified == ChainSpec => []OkMeansAuthorised
<1>1. HttpInv => OkMeansAuthorised
  BY DEF HttpInv, CallerInv, OkMeansAuthorised
<1> QED
  BY <1>1, HttpInvariant, PTL

-----------------------------------------------------------------------------
(* gRPC.                                                                   *)


\* A bearer that is not empty has a first token.
LEMMA FirstToken ==
  ASSUME NEW b \in Seq(Tokens), b # NoTokens
  PROVE  /\ b[1] \in Tokens /\ b[1].user \in Accounts
         /\ <<b[1]>> \in Seq(Tokens) /\ Len(<<b[1]>>) = 1 /\ <<b[1]>>[1] = b[1]
  <1>1. Len(b) \in Nat /\ Len(b) # 0
    BY DEF NoTokens
  <1>2. b[1] \in Tokens
    BY <1>1
  <1> QED
    BY <1>2 DEF Tokens

\* What is forwarded of the tokens is a sequence of tokens.
LEMMA ForwardedAreTokens ==
  ASSUME bearer \in Seq(Tokens)
  PROVE  ForwardedTokens \in Seq(Tokens)
  <1>1. CASE bearer = NoTokens
    BY <1>1 DEF ForwardedTokens
  <1>2. CASE bearer # NoTokens
    BY <1>2, FirstToken DEF ForwardedTokens
  <1> QED
    BY <1>1, <1>2

\* The server starts sound.
LEMMA InitIsSound == GrpcInit => GrpcInv
  <1> SUFFICES ASSUME GrpcInit PROVE GrpcInv
    OBVIOUS
  <1>1. GrpcTypeOK
    <2>1. "Login" \in GrpcMethods
      BY DEF GrpcMethods, ForwardedMethods, SignInMethods
    <2>2. NoTokens \in Seq(Tokens) /\ Len(NoTokens) <= 2
      BY DEF NoTokens
    <2> QED
      BY <2>1, <2>2 DEF GrpcInit, GrpcTypeOK, Nothing
  <1>2. CallersAreKnown /\ OutcomesAreLast /\ TestersAreNeverGated /\ SuccessIsTheServices
    BY DEF GrpcInit, CallersAreKnown, OutcomesAreLast, TestersAreNeverGated,
           SuccessIsTheServices
  <1> QED
    BY <1>1, <1>2 DEF GrpcInv

-----------------------------------------------------------------------------
\* A call begins with nothing told and no outcome.
LEMMA CallKeeps ==
  ASSUME GrpcInv, NEW m \in GrpcMethods, NEW tokens \in Seq(Tokens), Len(tokens) <= 2,
         Call(m, tokens)
  PROVE  GrpcInv'
  BY DEF GrpcInv, GrpcTypeOK, CallersAreKnown, OutcomesAreLast,
         TestersAreNeverGated, SuccessIsTheServices, Call

\* App Check passes or refuses; it says nothing of the caller.
LEMMA AppCheckKeeps ==
  ASSUME GrpcInv, AppCheck
  PROVE  GrpcInv'
  BY DEF GrpcInv, GrpcTypeOK, CallersAreKnown, OutcomesAreLast, TestersAreNeverGated,
         SuccessIsTheServices, AppCheck, Goes, After, Refuses, callerVars

\* The authentication makes the first token's user known, or ends the call.
LEMMA AuthenticationKeeps ==
  ASSUME GrpcInv, AuthenticatesGrpc
  PROVE  GrpcInv'
  <1> USE DEF AuthenticatesGrpc, Goes, After, Refuses, callerVars
  <1>1. bearer # NoTokens => bearer[1].user \in Accounts
    BY FirstToken DEF GrpcInv, GrpcTypeOK
  <1>2. GrpcTypeOK'
    BY <1>1 DEF GrpcInv, GrpcTypeOK
  <1>3. CallersAreKnown'
    BY DEF GrpcInv, CallersAreKnown, OutcomesAreLast, PublicEndpoint
  <1>4. OutcomesAreLast' /\ TestersAreNeverGated' /\ SuccessIsTheServices'
    BY DEF GrpcInv, OutcomesAreLast, TestersAreNeverGated, SuccessIsTheServices
  <1> QED
    BY <1>2, <1>3, <1>4 DEF GrpcInv

\* Limit and gates refuse; a gate knows whom by then.
LEMMA LimitsKeep ==
  ASSUME GrpcInv, Limits
  PROVE  GrpcInv'
  BY DEF GrpcInv, GrpcTypeOK, CallersAreKnown, OutcomesAreLast, TestersAreNeverGated,
         SuccessIsTheServices, Limits, Goes, After, Refuses, callerVars, ForwardedTokens,
         PublicEndpoint

\* A gate that refuses knows whom: the methods behind one are not public.
LEMMA GatesKeep ==
  ASSUME GrpcInv, Gates
  PROVE  GrpcInv'
  <1> USE DEF Gates, Goes, After, Refuses, callerVars
  <1>1. GrpcTypeOK'
    BY DEF GrpcInv, GrpcTypeOK
  <1>2. CallersAreKnown' /\ OutcomesAreLast' /\ SuccessIsTheServices'
    BY DEF GrpcInv, CallersAreKnown, OutcomesAreLast, SuccessIsTheServices,
           ForwardedTokens, PublicEndpoint
  <1>3. GatedMethod(method) => ~PublicEndpoint(method)
    BY DEF GatedMethod, PublicEndpoint, FamilyMethods, ReferralMethods
  <1>4. TestersAreNeverGated'
    BY <1>3 DEF GrpcInv, CallersAreKnown, OutcomesAreLast, TestersAreNeverGated
  <1> QED
    BY <1>1, <1>2, <1>4 DEF GrpcInv

\* A poll changes what a gate will say, not what it has said.
LEMMA PollKeeps ==
  ASSUME GrpcInv, PollGates
  PROVE  GrpcInv'
  BY DEF GrpcInv, GrpcTypeOK, CallersAreKnown, OutcomesAreLast, TestersAreNeverGated,
         SuccessIsTheServices, PollGates, callerVars, ForwardedTokens

-----------------------------------------------------------------------------
\* A proxy that tells its service something about the caller of a call that
\* has come through the chain.
LEMMA TellingKeeps ==
  ASSUME GrpcInv, stage = "handler", stage' = "upstream",
         told'.user = known \/ (method = "StartVoiceSession" /\ told'.user = Anyone),
         told'.tokens = ForwardedTokens,
         told'.appcheck \in {"absent", "valid", "invalid"},
         UNCHANGED <<callerVars, verdict, known, replied, outcome, refusedBy,
                     stepUp, closedGates>>
  PROVE  GrpcInv'
  <1>1. GrpcTypeOK'
    BY ForwardedAreTokens DEF GrpcInv, GrpcTypeOK, callerVars
  <1>2. CallersAreKnown' /\ OutcomesAreLast'
    BY DEF GrpcInv, CallersAreKnown, OutcomesAreLast, callerVars, ForwardedTokens,
           PublicEndpoint
  <1>3. TestersAreNeverGated' /\ SuccessIsTheServices'
    BY DEF GrpcInv, TestersAreNeverGated, SuccessIsTheServices, OutcomesAreLast
  <1> QED
    BY <1>1, <1>2, <1>3 DEF GrpcInv

\* A call that ends without having reached a service.
LEMMA EndingKeeps ==
  ASSUME GrpcInv, NEW code, stage \notin {"idle", "done"}, Ends(code),
         code \in {"Empty", "NoSuccess", "NothingDone", "Internal",
                   "Unauthenticated", "Unimplemented"},
         UNCHANGED <<callerVars, verdict, known, told, replied, stepUp, closedGates>>
  PROVE  GrpcInv'
  <1>1. GrpcTypeOK'
    BY DEF GrpcInv, GrpcTypeOK, Ends, callerVars
  <1>2. CallersAreKnown' /\ OutcomesAreLast'
    BY DEF GrpcInv, CallersAreKnown, OutcomesAreLast, callerVars, ForwardedTokens,
           PublicEndpoint, Ends
  <1>3. TestersAreNeverGated' /\ SuccessIsTheServices'
    BY DEF TestersAreNeverGated, SuccessIsTheServices, Ends
  <1> QED
    BY <1>1, <1>2, <1>3 DEF GrpcInv

\* What a call has been verified to say is one of the three verdicts.
LEMMA HandlersKeep ==
  ASSUME GrpcInv,
         Forwards \/ UserProxyForwards \/ ChatForwards \/ VoiceForwards \/ Stubs
           \/ PanicRecovered
  PROVE  GrpcInv'
  <1>1. verdict \in {"absent", "valid", "invalid"}
    BY DEF GrpcInv, GrpcTypeOK
  <1>2. CASE Forwards
    BY <1>1, <1>2, TellingKeeps DEF Forwards, ForwardContext, callerVars
  <1>3. CASE UserProxyForwards
    BY <1>1, <1>3, TellingKeeps, EndingKeeps
       DEF UserProxyForwards, ForwardContext, callerVars
  <1>4. CASE ChatForwards
    <2>1. CASE known = Anyone
      BY <1>4, <2>1, EndingKeeps DEF ChatForwards
    <2>2. CASE known # Anyone
      BY <1>4, <2>2, TellingKeeps DEF ChatForwards, ExtractAuthToken, callerVars
    <2> QED
      BY <2>1, <2>2
  <1>5. CASE VoiceForwards
    <2>1. CASE bearer = NoTokens
      BY <1>5, <2>1, EndingKeeps DEF VoiceForwards
    <2>2. CASE bearer # NoTokens
      BY <1>5, <2>2, TellingKeeps
         DEF VoiceForwards, VoiceMethods, ExtractAuthToken, Nothing, callerVars
    <2> QED
      BY <2>1, <2>2
  <1>6. CASE Stubs
    BY <1>6, EndingKeeps DEF Stubs
  <1>7. CASE PanicRecovered
    BY <1>7, EndingKeeps DEF PanicRecovered
  <1> QED
    BY <1>2, <1>3, <1>4, <1>5, <1>6, <1>7

\* No proxy makes an OK of anything but an answer.
LEMMA AnswersAreServed ==
  ASSUME NEW reply \in {"served", "failed", "malformed", "unreachable"}
  PROVE  /\ AnswerOf(reply) \in {"OK", "Empty", "NoSuccess", "refused",
                                 "Internal", "NotFound", "Unavailable"}
         /\ AnswerOf(reply) = "OK" => reply = "served"
  BY DEF AnswerOf, AnswerOfChat

\* What a service replies becomes the outcome that its proxy makes of it.
LEMMA RepliesKeep ==
  ASSUME GrpcInv, NEW reply \in {"served", "failed", "malformed", "unreachable"},
         ServiceReplies(reply)
  PROVE  GrpcInv'
  <1>1. stepUp' \in BOOLEAN
    BY DEF ServiceReplies, GrpcInv, GrpcTypeOK
  <1>2. GrpcTypeOK'
    BY <1>1, AnswersAreServed DEF GrpcInv, GrpcTypeOK, ServiceReplies, Ends, callerVars
  <1>3. CallersAreKnown' /\ OutcomesAreLast'
    BY DEF GrpcInv, CallersAreKnown, OutcomesAreLast, callerVars, ForwardedTokens,
           PublicEndpoint, ServiceReplies, Ends
  <1>4. TestersAreNeverGated' /\ SuccessIsTheServices'
    BY AnswersAreServed DEF TestersAreNeverGated, SuccessIsTheServices, ServiceReplies, Ends
  <1> QED
    BY <1>2, <1>3, <1>4 DEF GrpcInv

\* An answer that has gone leaves nothing behind.
LEMMA ReturnKeeps ==
  ASSUME GrpcInv, Return
  PROVE  GrpcInv'
  BY DEF GrpcInv, GrpcTypeOK, CallersAreKnown, OutcomesAreLast, TestersAreNeverGated,
         SuccessIsTheServices, Return, NoTokens, Nothing, GrpcMethods, ForwardedMethods,
         SignInMethods

\* Nor does a step of somebody else.
LEMMA StutterKeeps ==
  ASSUME GrpcInv, UNCHANGED grpcVars
  PROVE  GrpcInv'
  BY DEF GrpcInv, GrpcTypeOK, CallersAreKnown, OutcomesAreLast, TestersAreNeverGated,
         SuccessIsTheServices, grpcVars, callerVars, ForwardedTokens

\* Every step keeps the call sound.
LEMMA NextKeeps ==
  ASSUME GrpcInv, [GrpcNext]_grpcVars
  PROVE  GrpcInv'
  <1>1. CASE UNCHANGED grpcVars
    BY <1>1, StutterKeeps
  <1>2. ASSUME NEW m \in GrpcMethods,
               \/ Call(m, NoTokens)
               \/ \E t \in Tokens : Call(m, <<t>>) \/ \E u \in Tokens : Call(m, <<t, u>>)
        PROVE  GrpcInv'
    <2>1. CASE Call(m, NoTokens)
      <3>1. NoTokens \in Seq(Tokens) /\ Len(NoTokens) <= 2
        BY DEF NoTokens
      <3> QED
        BY <1>2, <2>1, <3>1, CallKeeps
    <2>2. ASSUME NEW t \in Tokens, Call(m, <<t>>)
          PROVE  GrpcInv'
      <3>1. <<t>> \in Seq(Tokens) /\ Len(<<t>>) <= 2
        OBVIOUS
      <3> QED
        BY <1>2, <2>2, <3>1, CallKeeps
    <2>3. ASSUME NEW t \in Tokens, NEW u \in Tokens, Call(m, <<t, u>>)
          PROVE  GrpcInv'
      <3>1. <<t, u>> \in Seq(Tokens) /\ Len(<<t, u>>) <= 2
        OBVIOUS
      <3> QED
        BY <1>2, <2>3, <3>1, CallKeeps
    <2> QED
      BY <1>2, <2>1, <2>2, <2>3
  <1>3. ASSUME NEW reply \in {"served", "failed", "malformed", "unreachable"},
               ServiceReplies(reply)
        PROVE  GrpcInv'
    BY <1>3, RepliesKeep
  <1> QED
    BY <1>1, <1>2, <1>3, AppCheckKeeps, AuthenticationKeeps, LimitsKeep, GatesKeep,
       PollKeeps, HandlersKeep, ReturnKeeps DEF GrpcNext

-----------------------------------------------------------------------------
\* The invariant holds whatever is sent, answered, polled or recovered
\* (main.go:783-803).
THEOREM GrpcInvariant == GrpcSpec => []GrpcInv
  BY InitIsSound, NextKeeps, PTL DEF GrpcSpec

\* Every variable has its type, for any users.
THEOREM GrpcTypes == GrpcSpec => []GrpcTypeOK
  <1>1. GrpcInv => GrpcTypeOK
    BY DEF GrpcInv
  <1> QED
    BY <1>1, GrpcInvariant, PTL

\* A service that is told a user is told the one of the verified token it is
\* handed (auth_proxy.go:26-75, interceptors/auth.go:14-50).
THEOREM ServicesKnowWhoCalls == GrpcSpec => []ServicesAreToldTheCaller
  <1>1. GrpcInv => ServicesAreToldTheCaller
    <2> SUFFICES ASSUME GrpcInv, told # Nothing, ~PublicEndpoint(method)
                 PROVE  /\ Len(told.tokens) = 1 /\ told.tokens[1].good
                        /\ told.user \in {told.tokens[1].user}
                             \cup IF method = "StartVoiceSession" THEN {Anyone} ELSE {}
                        /\ known = told.tokens[1].user
      BY DEF ServicesAreToldTheCaller
    <2>1. bearer # NoTokens /\ bearer[1].good /\ known = bearer[1].user
      BY DEF GrpcInv, CallersAreKnown
    <2>2. told.tokens = <<bearer[1]>>
      BY <2>1 DEF GrpcInv, CallersAreKnown, ForwardedTokens
    <2>3. Len(told.tokens) = 1 /\ told.tokens[1] = bearer[1]
      BY <2>1, <2>2, FirstToken DEF GrpcInv, GrpcTypeOK
    <2>4. told.user = known \/ (method = "StartVoiceSession" /\ told.user = Anyone)
      BY DEF GrpcInv, CallersAreKnown
    <2> QED
      BY <2>1, <2>3, <2>4
  <1> QED
    BY <1>1, GrpcInvariant, PTL

\* No closed gate refuses a tester with a session (main.go:790-794).
THEOREM TestersPass == GrpcSpec => []TestersAreNeverGated
  <1>1. GrpcInv => TestersAreNeverGated
    BY DEF GrpcInv
  <1> QED
    BY <1>1, GrpcInvariant, PTL

\* An OK that carries an answer is the service's (ai_chat_proxy.go:262-330).
THEOREM SuccessIsReal == GrpcSpec => []SuccessIsTheServices
  <1>1. GrpcInv => SuccessIsTheServices
    BY DEF GrpcInv
  <1> QED
    BY <1>1, GrpcInvariant, PTL

=============================================================================
