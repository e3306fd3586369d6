------------------------------ MODULE HttpChain ------------------------------
(***************************************************************************)
(* What happens to an HTTP call inside the gateway: the middlewares of     *)
(* src/main.go in their order, the handlers that intercept paths of /api   *)
(* before and after authentication, and the way back out, where each       *)
(* middleware may add to a response that has been written already.  Calls  *)
(* share nothing but the response cache: one is served after another.      *)
(*                                                                         *)
(* A response keeps its first status; every c.JSON adds a document to its  *)
(* body.  The server writes it out when the call is over, unless its       *)
(* WriteTimeout, which began before the timeout of the middleware and is   *)
(* as long, has passed.                                                    *)
(***************************************************************************)
EXTENDS Integers

VARIABLES
  request,   \* the call being served
  at,        \* "idle", "arrived", "upstream", "leaving" or "over"
  user,      \* whether user_id has been set from a verified token
  status,    \* the response's status, 0 before the first header
  documents, \* the JSON documents written into its body
  cors,      \* whether it has the headers of CORS
  errors,    \* whether c.Errors holds one
  late,      \* WriteTimeout has passed
  expired,   \* the timeout of the middleware has passed
  cachedReads \* the reads with a cached answer, each for one token

responseVars == <<status, documents, cors, errors>>
timeVars     == <<late, expired>>
chainVars    == <<request, at, user, responseVars, timeVars, cachedReads>>

-----------------------------------------------------------------------------
(* Calls.  Each name stands for one route, or for several served alike.    *)

Reads   == {"search", "support", "recipients", "other"}  \* GETs, cached
Root    == {"health", "ready", "metrics", "degradation"} \* outside /api
Admin   == {"enable", "disable", "readonly"}
Early   == {"apiHealth", "clientLogs"}
Public  == {"login"}
Blocked == {"byReference", "ledgerEntries"}
Pins    == {"verifyPin", "channelPins", "registerChannel", "verifyOtp",
            "channelStatus", "resolvePhone", "deactivate"}
Uploads == {"upload"}  \* asks storage-service for a URL
Private == Reads \cup Blocked \cup Pins \cup Uploads \cup {"save"}
Writes  == {"upload", "save", "verifyPin", "registerChannel", "verifyOtp",
            "resolvePhone", "deactivate", "clientLogs", "login"} \cup Admin
Routes  == Root \cup Admin \cup Early \cup Public \cup Private

\* The routes whose body is bound from JSON.
Bound == {"verifyPin", "registerChannel", "verifyOtp", "resolvePhone",
          "disable", "readonly", "clientLogs"}

\* valid: the phone number, code, channel type, secret or feature name is.
Request ==
  {q \in [route : Routes, token : {"none", "bad", "good"},
          body : BOOLEAN, valid : BOOLEAN, browser : BOOLEAN] :
     /\ ~q.body => q.route \in Bound
     /\ ~q.valid => q.route \in Pins \cup Admin}

\* Mutant: the handlers of the PIN come before authentication.
AuthenticatedButPins == Private \ Pins

\* The routes behind JWTAuthMiddleware that are not public.
Authenticated == Private

\* What the handlers of the PINs answer before they call auth-service, 0 if
\* they do call it: each checks in the order of its source.  known: the
\* request has a user.
VerifyTransactionPin(q) == IF q.body THEN 0 ELSE 400
GetChannelPins(known)   == IF known THEN 0 ELSE 401

\* handleRegisterChannel, which checks a channel type and a phone number.
RegisterChannel(q, known) ==
  IF ~q.body THEN 400 ELSE IF ~known THEN 401 ELSE IF q.valid THEN 0 ELSE 400

\* handleVerifyChannelOTP, which checks the form of the code.
VerifyChannelOTP(q, known) ==
  IF ~q.body THEN 400 ELSE IF ~known THEN 401 ELSE IF q.valid THEN 0 ELSE 400

\* handleGetChannelRegistrations calls for whoever there is.
GetChannelRegistrations == 0

DeactivateChannel(q, known) ==
  IF ~q.valid THEN 400 ELSE IF known THEN 0 ELSE 401

\* handleResolvePhoneToUser is for services, by a secret.
ResolvePhoneToUser(q) == IF ~q.valid THEN 403 ELSE IF q.body THEN 0 ELSE 400

Refusal(q, known) ==
  CASE q.route = "verifyPin"       -> VerifyTransactionPin(q)
    [] q.route = "channelPins"     -> GetChannelPins(known)
    [] q.route = "registerChannel" -> RegisterChannel(q, known)
    [] q.route = "verifyOtp"       -> VerifyChannelOTP(q, known)
    [] q.route = "channelStatus"   -> GetChannelRegistrations
    [] q.route = "deactivate"       -> DeactivateChannel(q, known)
    [] q.route = "resolvePhone"    -> ResolvePhoneToUser(q)

\* interceptVerifyTransactionPin takes DELETE for two channel types only.
Intercepted(q) == q.route # "deactivate" \/ q.valid

\* The status of the answer each handler makes of a service's.  One error
\* status stands for all that it may pass on.
HealthCheck(ok)    == IF ok THEN 200 ELSE 503
ReadinessCheck(ok) == IF ok THEN 200 ELSE 503
Support(ok)        == IF ok THEN 200 ELSE 503
Upload(ok)         == IF ok THEN 200 ELSE 502
UnifiedSearch(ok)  == IF ok THEN 200 ELSE 502
GrpcGateway(ok)    == IF ok THEN 200 ELSE 500
PinHandler(ok)     == IF ok THEN 200 ELSE 500

\* ClientLogsProxy.Handle: whether Loki takes the logs makes no difference.
ClientLogs(q) == IF q.body THEN 202 ELSE 400

StatusOf(q, ok) ==
  CASE q.route = "clientLogs"              -> ClientLogs(q)
    [] q.route \in {"health", "apiHealth"} -> HealthCheck(ok)
    [] q.route = "ready"                    -> ReadinessCheck(ok)
    [] q.route = "support"                  -> Support(ok)
    [] q.route = "upload"                   -> Upload(ok)
    [] q.route = "search"                   -> UnifiedSearch(ok)
    [] q.route \in Pins                     -> PinHandler(ok)
    [] OTHER                                -> GrpcGateway(ok)

\* count documents are written, with a status if there is none yet.
Respond(code, count) ==
  /\ status' = IF status = 0 THEN code ELSE status
  /\ documents' = documents + count

-----------------------------------------------------------------------------
ChainInit ==
  /\ request \in {q \in Request : q.route = "ready"}
  /\ at = "idle"
  /\ user = FALSE
  /\ status = 0 /\ documents = 0 /\ cors = FALSE /\ errors = FALSE
  /\ late = FALSE /\ expired = FALSE
  /\ cachedReads = {}

\* The server has read the headers of a call.
ArriveHttp(q) ==
  /\ at \in {"idle", "over"}
  /\ request' = q
  /\ at' = "arrived"
  /\ user' = FALSE
  /\ status' = 0 /\ documents' = 0 /\ cors' = FALSE /\ errors' = FALSE
  /\ late' = FALSE /\ expired' = FALSE
  /\ UNCHANGED cachedReads

\* Mutant: WriteTimeout is the longer one.
TimePassesLongWrite ==
  /\ at \in {"arrived", "upstream", "leaving"}
  /\ ~late
  /\ expired' = TRUE
  /\ late' = expired
  /\ UNCHANGED <<request, at, user, responseVars, cachedReads>>

\* WriteTimeout, then the timeout of the context.
TimePasses ==
  /\ at \in {"arrived", "upstream", "leaving"}
  /\ ~expired
  /\ late' = TRUE
  /\ expired' = late
  /\ UNCHANGED <<request, at, user, responseVars, cachedReads>>

\* CacheMiddleware, which comes before CORS, has an answer.
CacheHit ==
  /\ at = "arrived"
  /\ <<request.route, request.token>> \in cachedReads
  /\ Respond(200, 1)
  /\ at' = "leaving"
  /\ UNCHANGED <<request, user, cors, errors, timeVars, cachedReads>>

\* What is answered without a service, 0 if one is called: authentication,
\* ImpersonationHTTPGuard, which may refuse whoever brings a token (denied: see
\* RevocationList), internal-only routes, the interceptors in their order, the
\* root's own.
Immediate(q, denied) ==
  LET known == q.route \in Authenticated /\ q.token = "good"
  IN IF q.route \in Authenticated /\ ~known THEN 401
     ELSE IF denied /\ q.route \in Private \cup Public /\ q.token # "none" THEN 403
     ELSE IF q.route \in Blocked THEN 404
     ELSE IF q.route \in Pins /\ Intercepted(q) THEN Refusal(q, known)
     ELSE IF q.route \in {"metrics", "degradation"} THEN 200
     ELSE 0

\* No cached answer: the headers of CORS, then the route's handler.
Dispatch ==
  /\ at = "arrived"
  /\ cors' = request.browser
  /\ user' = (request.route \in Authenticated /\ request.token = "good")
  /\ \E denied \in BOOLEAN :
       IF Immediate(request, denied) = 0
       THEN at' = "upstream" /\ UNCHANGED <<status, documents>>
       ELSE at' = "leaving" /\ Respond(Immediate(request, denied), 1)
  /\ UNCHANGED <<request, errors, timeVars, cachedReads>>

\* The degradation manager: BindJSON answers a missing body with a 400 and an
\* entry in c.Errors, but its caller goes on.
AdminSwitches ==
  /\ at = "upstream" /\ request.route \in Admin
  /\ errors' = ~request.body
  /\ status' = IF ~request.body THEN 400
               ELSE IF request.valid THEN 200 ELSE 404
  /\ documents' = 1
  /\ at' = "leaving"
  /\ UNCHANGED <<request, user, cors, timeVars, cachedReads>>

\* A service, or the checks of a health route, answers the handler: well, or
\* with an error, which each kind of handler turns into its own status.
ServiceAnswers(ok) ==
  /\ at = "upstream" /\ request.route \notin Admin
  /\ expired => ~ok
  /\ Respond(StatusOf(request, ok), 1)
  /\ at' = "leaving"
  /\ UNCHANGED <<request, user, cors, errors, timeVars, cachedReads>>

\* A panic passes every middleware but the first, which answers it.
Panic ==
  /\ at = "upstream"
  /\ Respond(500, 1)
  /\ at' = "over"
  /\ UNCHANGED <<request, user, cors, errors, timeVars, cachedReads>>

\* Mutant: any status is cacheable.
CacheableAny == request.route \in Reads /\ request.token # "none"

\* An OK to a read with a token is stored.
Cacheable == request.route \in Reads /\ request.token # "none" /\ status = 200

\* A write that succeeds clears what is stored for its token.
Clears == request.route \in Writes /\ status < 300

\* The way out: the cache, ErrorHandlerMiddleware, TimeoutMiddleware.
LeaveChain ==
  /\ at = "leaving"
  /\ cachedReads' =
       IF Cacheable THEN cachedReads \cup {<<request.route, request.token>>}
       ELSE {e \in cachedReads : ~(Clears /\ e[2] = request.token)}
  /\ Respond(408, (IF errors THEN 1 ELSE 0) + (IF expired THEN 1 ELSE 0))
  /\ at' = "over"
  /\ UNCHANGED <<request, user, cors, errors, timeVars>>

EntryExpires ==
  /\ \E e \in cachedReads : cachedReads' = cachedReads \ {e}
  /\ UNCHANGED <<request, at, user, responseVars, timeVars>>

ChainStep ==
  \/ CacheHit \/ Dispatch
  \/ AdminSwitches
  \/ \E ok \in BOOLEAN : ServiceAnswers(ok)
  \/ Panic
  \/ LeaveChain

ChainNext ==
  \/ ChainStep
  \/ \E q \in Request : ArriveHttp(q)
  \/ TimePasses
  \/ EntryExpires

ChainSpec == ChainInit /\ [][ChainNext]_chainVars

-----------------------------------------------------------------------------
\* Every variable has its type.
ChainTypeOK ==
  /\ request \in Request
  /\ at \in {"idle", "arrived", "upstream", "leaving", "over"}
  /\ user \in BOOLEAN
  /\ status \in {0, 200, 202, 400, 401, 403, 404, 500, 502, 503}
  /\ documents \in 0 .. 3
  /\ cors \in BOOLEAN /\ errors \in BOOLEAN
  /\ late \in BOOLEAN /\ expired \in BOOLEAN
  /\ cachedReads \in SUBSET (Reads \X {"good", "bad"})

\* The client gets a response.
Delivered == at = "over" /\ ~late

\* A client that gets a response gets one document: the 408 that
\* TimeoutMiddleware adds to what the handler has written (middleware.go:
\* 86-93) is never sent, because WriteTimeout (main.go:700) has passed.  The
\* exception is an admin who sends no body: two documents under a 400.
OneDocument ==
  Delivered => documents = 1 \/ (request.route \in Admin /\ ~request.body)

\* A service is called for a private route only on behalf of the user of a
\* verified token, though two of the PIN handlers do not look (main.go:953,
\* 1133): the interceptors come after JWTAuthMiddleware.
ServicesKnowTheCaller ==
  at = "upstream" /\ request.route \in Private => user

\* An answer of 200 on a private route goes to a verified token, though a
\* cached one passes authentication by (main.go:402-405): nothing else is
\* ever stored.
OkMeansAuthorised ==
  at \in {"leaving", "over"} /\ status = 200 /\ request.route \in Private =>
    request.token = "good"

\* The body of the response: nothing while a service is asked, one document
\* on the way out, and what the middlewares add only to a refusal of
\* BindJSON or when the client is not there any more.
ResponseInv ==
  /\ expired => late
  /\ at \in {"arrived", "upstream"} => status = 0 /\ documents = 0 /\ ~errors
  /\ at = "leaving" => status # 0 /\ documents = 1
  /\ at = "over" => documents = 1 \/ late \/ errors
  /\ errors => request.route \in Admin /\ ~request.body

\* Who the call is for: a private route goes upstream with its user, an OK
\* is for a verified token, and so is whatever is stored.
CallerInv ==
  /\ at = "upstream" /\ request.route \in Private => user
  /\ user => request.token = "good"
  /\ at \in {"leaving", "over"} /\ status = 200 /\ request.route \in Private
       => request.token = "good"
  /\ \A e \in cachedReads : e[2] = "good"

\* The inductive invariant of the chain (main.go:402-470, middleware.go:60-93).
HttpInv == ChainTypeOK /\ ResponseInv /\ CallerInv

\* "CORS enabled in PERMISSIVE mode - all origins allowed" (main.go:435): a
\* browser of another origin can read every answer.
BrowsersCanRead == Delivered /\ request.browser => cors

=============================================================================
