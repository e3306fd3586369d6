------------------------------ MODULE Lifecycle ------------------------------
(***************************************************************************)
(* The life of one gateway process: main of src/main.go from its first     *)
(* connection to its exit, with the calls it serves meanwhile.  An HTTP    *)
(* server and a gRPC server start one after the other; a signal withdraws  *)
(* the gRPC health status, and after a pause both servers are told to      *)
(* stop.  main waits for the gRPC server, at most for a grace period,      *)
(* closes Redis and returns.  Nobody waits for the HTTP server.            *)
(*                                                                         *)
(* A call is "http" (handled by the mux, upstream), "grpc", or "chat": an  *)
(* HTTP call whose handler dials the gateway's own gRPC port.              *)
(* Time is counted only while main waits for it, so that a count is never  *)
(* more than the time that has passed since the signal.                    *)
(***************************************************************************)
EXTENDS Integers

CONSTANTS
  Requests, \* the calls that clients may make
  Drain,    \* the pause after NOT_SERVING, in seconds
  Grace     \* the timeout of shutdownCtx

ASSUME LifecycleAssumption ==
  /\ Drain \in Nat
  /\ Grace \in Nat

VARIABLES
  phase,     \* what main is doing
  mtls,      \* ENABLE_MTLS
  redis,     \* the Redis client: "none", "open" or "closed"
  http,      \* the HTTP server
  grpc,      \* the gRPC server
  sleep,     \* seconds left of the pause
  left,      \* seconds left of the grace period
  killed,    \* the process died without its shutdown
  kind,      \* the kind of each call
  stage,     \* how far each call is
  cutAfter,  \* how long after the signal a call was cut off
  uncleared, \* calls that changed something whose cached copies still stand
  orphans    \* gRPC calls whose handlers run on without a connection

lifecycleVars == <<phase, mtls, redis, http, grpc, sleep, left, killed,
                   kind, stage, cutAfter, uncleared, orphans>>
callVars == <<kind, stage, cutAfter, uncleared, orphans>>
mainVars == <<phase, mtls, redis, http, grpc, sleep, left, killed>>

-----------------------------------------------------------------------------
\* A call some goroutine is serving.
Live(c) == stage[c] \in {"handling", "inner", "answering"}

Waited == (Drain - sleep) + (Grace - left)

LifecycleInit ==
  /\ phase = "connecting"
  /\ mtls \in BOOLEAN
  /\ redis = "none"
  /\ http = "off" /\ grpc = "off"
  /\ sleep = Drain /\ left = Grace
  /\ killed = FALSE
  /\ kind = [c \in Requests |-> "http"]
  /\ stage = [c \in Requests |-> "none"]
  /\ cutAfter = [c \in Requests |-> 0]
  /\ uncleared = {}
  /\ orphans = {}

\* The calls of set cut lose their process, or their server.
Cut(cut) ==
  /\ stage' = [c \in Requests |-> IF c \in cut THEN "cut" ELSE stage[c]]
  /\ cutAfter' = [c \in Requests |-> IF c \in cut THEN Waited ELSE cutAfter[c]]
  /\ UNCHANGED <<kind, uncleared>>

Leave ==
  /\ phase' = "exited"
  /\ http' = "off" /\ grpc' = "off"
  /\ orphans' = {}
  /\ Cut({c \in Requests : Live(c)})

\* log.Fatal, or a signal nobody listens for yet: no deferred call is made.
Die ==
  /\ Leave
  /\ killed' = TRUE
  /\ UNCHANGED <<mtls, redis, sleep, left>>

-----------------------------------------------------------------------------
(* Start-up.                                                               *)

\* Redis is there, or the gateway does without a cache.
ConnectRedis ==
  /\ phase = "connecting"
  /\ redis' \in {"none", "open"}
  /\ phase' = "registering"
  /\ UNCHANGED <<mtls, http, grpc, sleep, left, killed, callVars>>

\* The handlers of auth, accounts and users are registered, those of the
\* optional services if they can be; then the HTTP server is started.
RegisterHandlers ==
  /\ phase = "registering"
  /\ phase' = "dialling"
  /\ http' = "starting"
  /\ UNCHANGED <<mtls, redis, grpc, sleep, left, killed, callVars>>

\* The connections for the gRPC server; its start; signal.Notify.
StartGrpc ==
  /\ phase = "dialling"
  /\ phase' = "up"
  /\ grpc' = "starting"
  /\ UNCHANGED <<mtls, redis, http, sleep, left, killed, callVars>>

HttpListens ==
  /\ http = "starting"
  /\ http' = "serving"
  /\ UNCHANGED <<phase, mtls, redis, grpc, sleep, left, killed, callVars>>

GrpcListens ==
  /\ grpc = "starting"
  /\ grpc' = "serving"
  /\ UNCHANGED <<phase, mtls, redis, http, sleep, left, killed, callVars>>

\* No JWT verifier, no auth-service or accounts-service connection, a port
\* in use; or SIGTERM before main listens for it.
StartFails ==
  /\ \/ phase \in {"connecting", "registering", "dialling"}
     \/ phase # "exited" /\ (http = "starting" \/ grpc = "starting")
  /\ Die

-----------------------------------------------------------------------------
(* Shutdown.                                                               *)

Signal ==
  /\ phase = "up"
  /\ phase' = "draining"
  /\ UNCHANGED <<mtls, redis, http, grpc, sleep, left, killed, callVars>>

\* Mutant: seconds are counted on after the grace period.
SecondTooMany ==
  /\ \/ /\ phase = "draining" /\ sleep > 0
        /\ sleep' = sleep - 1
        /\ UNCHANGED left
     \/ /\ phase = "stopping"
        /\ left' = left - 1
        /\ UNCHANGED sleep
  /\ UNCHANGED <<phase, mtls, redis, http, grpc, killed, callVars>>

\* A second passes.
Second ==
  /\ \/ /\ phase = "draining" /\ sleep > 0
        /\ sleep' = sleep - 1
        /\ UNCHANGED left
     \/ /\ phase = "stopping" /\ left > 0
        /\ left' = left - 1
        /\ UNCHANGED sleep
  /\ UNCHANGED <<phase, mtls, redis, http, grpc, killed, callVars>>

\* Mutant: the pause is left out.
EndDrainAtOnce ==
  /\ phase = "draining"
  /\ phase' = "stopping"
  /\ UNCHANGED <<mtls, redis, http, grpc, sleep, left, killed, callVars>>

\* Both shutdowns are begun, each in a goroutine.
EndDrain ==
  /\ phase = "draining" /\ sleep = 0
  /\ phase' = "stopping"
  /\ UNCHANGED <<mtls, redis, http, grpc, sleep, left, killed, callVars>>

\* srv.Shutdown: no more calls are accepted.  Its end concerns nobody.
HttpShutdown ==
  /\ phase \in {"stopping", "closing", "closed"}
  /\ http \in {"starting", "serving"}
  /\ http' = "stopping"
  /\ UNCHANGED <<phase, mtls, redis, grpc, sleep, left, killed, callVars>>

\* grpcServer.GracefulStop begins ...
GracefulStop ==
  /\ phase = "stopping"
  /\ grpc \in {"starting", "serving"}
  /\ grpc' = "stopping"
  /\ UNCHANGED <<phase, mtls, redis, http, sleep, left, killed, callVars>>

\* Mutant: it waits for nobody.
GracefulStopReturnsAtOnce ==
  /\ grpc = "stopping"
  /\ grpc' = "stopped"
  /\ phase' = IF phase = "stopping" THEN "closing" ELSE phase
  /\ UNCHANGED <<mtls, redis, http, sleep, left, killed, callVars>>

\* ... and returns when the last gRPC call has: main goes on.
GracefulStopReturns ==
  /\ grpc = "stopping"
  /\ \A c \in Requests : stage[c] # "inner"
  /\ grpc' = "stopped"
  /\ phase' = IF phase = "stopping" THEN "closing" ELSE phase
  /\ UNCHANGED <<mtls, redis, http, sleep, left, killed, callVars>>

\* Mutant: there is no deadline.
ForceStopNever ==
  /\ FALSE
  /\ UNCHANGED lifecycleVars

\* shutdownCtx is over: grpcServer.Stop cuts the connections and, without
\* WaitForHandlers, does not wait for the handlers behind them.  A chat call's
\* own call fails, and its handler answers that.
ForceStop ==
  /\ phase = "stopping" /\ left = 0
  /\ phase' = "closing"
  /\ grpc' = "stopped"
  /\ stage' = [c \in Requests |->
                 IF stage[c] # "inner" THEN stage[c]
                 ELSE IF kind[c] = "grpc" THEN "cut" ELSE "answering"]
  /\ cutAfter' = [c \in Requests |->
                    IF stage[c] = "inner" /\ kind[c] = "grpc"
                    THEN Waited ELSE cutAfter[c]]
  /\ orphans' = {c \in Requests : stage[c] = "inner"}
  /\ UNCHANGED <<mtls, redis, http, sleep, left, killed, kind, uncleared>>

CloseRedis ==
  /\ phase = "closing"
  /\ phase' = "closed"
  /\ redis' = IF redis = "open" THEN "closed" ELSE redis
  /\ UNCHANGED <<mtls, http, grpc, sleep, left, killed, callVars>>

\* main returns: its deferred calls close the connections, and the process
\* ends with whatever it still serves.
Exit ==
  /\ phase = "closed"
  /\ Leave
  /\ UNCHANGED <<mtls, redis, sleep, left, killed>>

-----------------------------------------------------------------------------
(* Calls.                                                                  *)

Arrive(c, k) ==
  /\ stage[c] = "none"
  /\ IF k = "grpc" THEN grpc = "serving" ELSE http = "serving"
  /\ kind' = [kind EXCEPT ![c] = k]
  /\ stage' = [stage EXCEPT ![c] = IF k = "grpc" THEN "inner" ELSE "handling"]
  /\ UNCHANGED <<mainVars, cutAfter, uncleared, orphans>>

\* The upstream service answers an HTTP call, having changed something or not.
UpstreamAnswers(c, changed) ==
  /\ stage[c] = "handling" /\ kind[c] = "http"
  /\ stage' = [stage EXCEPT ![c] = "answering"]
  /\ uncleared' = IF changed /\ redis # "none"
                  THEN uncleared \cup {c} ELSE uncleared
  /\ UNCHANGED <<mainVars, kind, cutAfter, orphans>>

\* A chat call reaches the gateway's own gRPC server, which has no TLS
\* credentials though the call may insist on them; or it fails.
CallSelf(c) ==
  /\ stage[c] = "handling" /\ kind[c] = "chat"
  /\ stage' = [stage EXCEPT ![c] =
                 IF grpc = "serving" /\ ~mtls THEN "inner" ELSE "answering"]
  /\ UNCHANGED <<mainVars, kind, cutAfter, uncleared, orphans>>

\* A gRPC call is answered: to its client, or to the chat call that made it.
InnerAnswers(c) ==
  /\ stage[c] = "inner"
  /\ stage' = [stage EXCEPT ![c] =
                 IF kind[c] = "grpc" THEN "done" ELSE "answering"]
  /\ UNCHANGED <<mainVars, kind, cutAfter, uncleared, orphans>>

\* The handler of a gRPC call that nobody waits for any more returns.
OrphanReturns(c) ==
  /\ c \in orphans
  /\ orphans' = orphans \ {c}
  /\ UNCHANGED <<mainVars, kind, stage, cutAfter, uncleared>>

\* An HTTP call clears what it has changed, and is answered.
Finish(c) ==
  /\ stage[c] = "answering"
  /\ stage' = [stage EXCEPT ![c] = "done"]
  /\ uncleared' = IF redis = "open" THEN uncleared \ {c} ELSE uncleared
  /\ UNCHANGED <<mainVars, kind, cutAfter, orphans>>

\* The steps main and the goroutines of its servers take by themselves.
ProcessStep ==
  \/ ConnectRedis \/ RegisterHandlers \/ StartGrpc
  \/ HttpListens \/ GrpcListens
  \/ Second \/ EndDrain
  \/ HttpShutdown \/ GracefulStop \/ GracefulStopReturns \/ ForceStop
  \/ CloseRedis \/ Exit

LifecycleNext ==
  \/ ProcessStep
  \/ StartFails
  \/ Signal
  \/ \E c \in Requests :
       \/ \E k \in {"http", "grpc", "chat"} : Arrive(c, k)
       \/ \E changed \in BOOLEAN : UpstreamAnswers(c, changed)
       \/ CallSelf(c)
       \/ InnerAnswers(c)
       \/ OrphanReturns(c)
       \/ Finish(c)

LifecycleSpec ==
  LifecycleInit /\ [][LifecycleNext]_lifecycleVars

-----------------------------------------------------------------------------
\* Every variable has its type.
LifecycleTypeOK ==
  /\ phase \in {"connecting", "registering", "dialling", "up", "draining",
                "stopping", "closing", "closed", "exited"}
  /\ mtls \in BOOLEAN
  /\ redis \in {"none", "open", "closed"}
  /\ http \in {"off", "starting", "serving", "stopping"}
  /\ grpc \in {"off", "starting", "serving", "stopping", "stopped"}
  /\ sleep \in 0 .. Drain
  /\ left \in 0 .. Grace
  /\ killed \in BOOLEAN
  /\ kind \in [Requests -> {"http", "grpc", "chat"}]
  /\ stage \in [Requests ->
                 {"none", "handling", "inner", "answering", "done", "cut"}]
  /\ cutAfter \in [Requests -> Nat]
  /\ uncleared \in SUBSET Requests
  /\ orphans \in SUBSET Requests

\* What main's phases say of its servers, of Redis and of its pause.
PhasesAreOrdered ==
  /\ phase = "connecting" => redis = "none"
  /\ phase \in {"connecting", "registering", "dialling"} => grpc = "off"
  /\ phase \in {"stopping", "closing", "closed"} => sleep = 0
  /\ phase \in {"closing", "closed"} => grpc = "stopped"
  /\ phase = "exited" => grpc = "off" /\ http = "off" /\ (killed \/ sleep = 0)
  /\ killed => phase = "exited"
  /\ redis = "closed" => phase \in {"closed", "exited"}
  /\ redis = "none" => uncleared = {}

\* What the servers say of their calls.
CallsHaveServers ==
  \A c \in Requests :
    /\ stage[c] = "inner" => kind[c] # "http" /\ grpc \in {"serving", "stopping"}
    /\ Live(c) => phase # "exited" /\ (kind[c] = "grpc" => stage[c] = "inner")
    /\ c \in uncleared =>
         /\ kind[c] = "http" /\ stage[c] # "none"
         /\ Live(c) \/ killed
              \/ (sleep = 0 /\ phase \in {"stopping", "closing", "closed", "exited"})

\* How long after the signal a call is safe.
Notice(k) == IF k = "grpc" THEN Drain + Grace ELSE Drain

\* "GracefulStop waits for active RPCs" (main.go:908): a process that was up
\* cuts a gRPC call off only after the pause and the whole grace period; an
\* HTTP call, which nobody waits for, not before the end of the pause.
CutsAreLate ==
  \A c \in Requests :
    stage[c] = "cut" => killed \/ cutAfter[c] >= Notice(kind[c])

\* A change whose cached copies were never cleared, so that they are served
\* by the gateways that remain, was made by a call that ended, or was cut off,
\* not before the end of the pause (main.go:896-930).
UnclearedIsLate ==
  \A c \in uncleared :
    Live(c) \/ killed \/ (sleep = 0 /\ phase \notin {"up", "draining"})

\* What the shutdown costs a client, it costs late: calls and clearings alike
\* (main.go:893-933).
LossesAreLate == CutsAreLate /\ UnclearedIsLate

\* The handlers that a forced stop leaves behind.
OrphansAreForced ==
  orphans # {} => left = 0 /\ sleep = 0 /\ phase \in {"closing", "closed"}

\* A gRPC handler at work, connected to its client or not.
InHandler(c) == stage[c] = "inner" \/ c \in orphans

\* gRPC handlers need Redis for their rate limits.  It is closed only after
\* the last of them has returned, be it a chat call's (main.go:908-930), unless
\* main has waited for the whole grace period and stopped the server by force,
\* which waits for nobody (main.go:918-920).
RedisOutlivesGrpc ==
  redis = "closed" /\ (\E c \in Requests : InHandler(c)) =>
    /\ left = 0
    /\ \A c \in Requests : stage[c] # "inner"

\* The inductive invariant: with the types, the order of the phases and the
\* calls' servers, calls are cut off late (main.go:885-933).
LifecycleInv ==
  /\ LifecycleTypeOK /\ PhasesAreOrdered /\ CallsHaveServers
  /\ OrphansAreForced /\ CutsAreLate

\* A signal ends the process, whether its calls end or not (main.go:885-932).
SignalEndsIt == phase = "draining" ~> phase = "exited"

\* "Core Gateway stopped gracefully" (main.go:932), with time to spare: no
\* call was cut off.
StoppedGracefully ==
  phase = "exited" /\ ~killed /\ left > 0 =>
    \A c \in Requests : stage[c] # "cut"

=============================================================================
