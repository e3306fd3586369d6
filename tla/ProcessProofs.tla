--------------------------- MODULE ProcessProofs ---------------------------
(***************************************************************************)
(* Proofs about Lifecycle, for any number of calls, any pause and any      *)
(* grace period: its types, that what a shutdown costs its clients it      *)
(* costs them late, and that Redis outlives the gRPC calls.                *)
(*                                                                         *)
(* And about the process as a whole: a behaviour of MCGatewayProcess is    *)
(* one of each of its three parts, so that what is proved of a part        *)
(* holds of the process.                                                   *)
(***************************************************************************)
EXTENDS ConsumerAndPoolProofs, MCGatewayProcess

USE LifecycleAssumption

\* Waiting is counted from nothing to both periods.
LEMMA WaitedType ==
  ASSUME LifecycleTypeOK
  PROVE  /\ Waited \in Nat
         /\ sleep = 0 => Waited >= Drain
         /\ sleep = 0 /\ left = 0 => Waited >= Drain + Grace
BY DEF LifecycleTypeOK, Waited

\* The gateway starts within the invariant.
LEMMA InitInv == LifecycleInit => LifecycleInv
<1> SUFFICES ASSUME LifecycleInit PROVE LifecycleInv
  OBVIOUS
<1>1. LifecycleTypeOK
  <2>1. sleep \in 0 .. Drain /\ left \in 0 .. Grace
    BY DEF LifecycleInit
  <2> QED
    BY <2>1 DEF LifecycleInit, LifecycleTypeOK
<1>2. PhasesAreOrdered
  BY DEF LifecycleInit, PhasesAreOrdered
<1>3. CallsHaveServers
  BY DEF LifecycleInit, CallsHaveServers, Live
<1>4. OrphansAreForced /\ CutsAreLate
  BY DEF LifecycleInit, OrphansAreForced, CutsAreLate
<1> QED
  BY <1>1, <1>2, <1>3, <1>4 DEF LifecycleInv

\* Calls that lose the process are cut off, and their types kept.
LEMMA LeaveTypes ==
  ASSUME LifecycleTypeOK, Leave
  PROVE  /\ phase' = "exited" /\ http' = "off" /\ grpc' = "off"
         /\ kind' = kind /\ uncleared' = uncleared /\ orphans' = {}
         /\ stage' \in [Requests ->
              {"none", "handling", "inner", "answering", "done", "cut"}]
         /\ cutAfter' \in [Requests -> Nat]
         /\ \A c \in Requests :
              /\ ~Live(c)'
              /\ Live(c) => stage'[c] = "cut" /\ cutAfter'[c] = Waited
              /\ ~Live(c) => stage'[c] = stage[c] /\ cutAfter'[c] = cutAfter[c]
BY WaitedType DEF Leave, Cut, Live, LifecycleTypeOK

\* A process that dies keeps the invariant: it is known to be killed.
LEMMA DieInv ==
  ASSUME LifecycleInv, Die
  PROVE  LifecycleInv'
<1> USE DEF LifecycleInv
<1>1. LifecycleTypeOK /\ Leave /\ killed' = TRUE
      /\ UNCHANGED <<mtls, redis, sleep, left>>
  BY DEF Die
<1>2. LifecycleTypeOK'
  BY <1>1, LeaveTypes DEF LifecycleTypeOK
<1>3. PhasesAreOrdered'
  BY <1>1, LeaveTypes DEF PhasesAreOrdered
<1>4. CallsHaveServers'
  BY <1>1, LeaveTypes DEF CallsHaveServers, Live
<1>5. CutsAreLate' /\ OrphansAreForced'
  BY <1>1, LeaveTypes DEF CutsAreLate, OrphansAreForced
<1> QED
  BY <1>2, <1>3, <1>4, <1>5

\* The orderly exit cuts off HTTP calls only, and after the pause.
LEMMA ExitInv ==
  ASSUME LifecycleInv, Exit
  PROVE  LifecycleInv'
<1> USE DEF LifecycleInv
<1>1. LifecycleTypeOK /\ Leave /\ phase = "closed"
      /\ UNCHANGED <<mtls, redis, sleep, left, killed>>
  BY DEF Exit
<1>2. sleep = 0 /\ grpc = "stopped" /\ killed = FALSE
  BY <1>1 DEF PhasesAreOrdered, LifecycleTypeOK
<1>3. LifecycleTypeOK'
  BY <1>1, LeaveTypes DEF LifecycleTypeOK
<1>4. PhasesAreOrdered'
  BY <1>1, <1>2, LeaveTypes DEF PhasesAreOrdered
<1>5. CallsHaveServers'
  BY <1>1, <1>2, LeaveTypes DEF CallsHaveServers, Live
<1>6. CutsAreLate'
  <2> SUFFICES ASSUME NEW c \in Requests, stage'[c] = "cut"
               PROVE  cutAfter'[c] >= Notice(kind[c])
    BY <1>1, LeaveTypes DEF CutsAreLate, Notice
  <2>1. CASE Live(c)
    <3>1. kind[c] # "grpc"
      BY <1>2, <2>1 DEF CallsHaveServers
    <3>2. cutAfter'[c] = Waited /\ Waited >= Drain
      BY <1>1, <1>2, <2>1, LeaveTypes, WaitedType
    <3> QED
      BY <3>1, <3>2 DEF Notice
  <2>2. CASE ~Live(c)
    BY <1>1, <1>2, <2>2, LeaveTypes DEF CutsAreLate
  <2> QED
    BY <2>1, <2>2
<1>7. OrphansAreForced'
  BY <1>1, LeaveTypes DEF OrphansAreForced
<1> QED
  BY <1>3, <1>4, <1>5, <1>6, <1>7

\* The end of the grace period cuts off gRPC calls, and nothing else; what
\* their handlers do is no longer waited for.
LEMMA ForceStopInv ==
  ASSUME LifecycleInv, ForceStop
  PROVE  LifecycleInv'
<1> USE DEF LifecycleInv
<1>1. LifecycleTypeOK /\ phase = "stopping" /\ left = 0 /\ sleep = 0
  BY DEF ForceStop, PhasesAreOrdered
<1>2. /\ phase' = "closing" /\ grpc' = "stopped"
      /\ UNCHANGED <<mtls, redis, http, sleep, left, killed, kind, uncleared>>
  BY DEF ForceStop
<1>3. \A c \in Requests :
        /\ stage'[c] = IF stage[c] # "inner" THEN stage[c]
                       ELSE IF kind[c] = "grpc" THEN "cut" ELSE "answering"
        /\ cutAfter'[c] = IF stage[c] = "inner" /\ kind[c] = "grpc"
                          THEN Waited ELSE cutAfter[c]
  BY DEF ForceStop
<1>4. LifecycleTypeOK'
  BY <1>1, WaitedType DEF ForceStop, LifecycleTypeOK
<1>5. PhasesAreOrdered'
  BY <1>1, <1>2 DEF PhasesAreOrdered
<1>6. CallsHaveServers'
  BY <1>1, <1>2, <1>3 DEF CallsHaveServers, Live
<1>7. CutsAreLate'
  <2> SUFFICES ASSUME NEW c \in Requests, stage'[c] = "cut", ~killed
               PROVE  cutAfter'[c] >= Notice(kind[c])
    BY <1>2 DEF CutsAreLate, Notice
  <2>1. CASE stage[c] = "inner"
    BY <1>1, <1>3, <2>1, WaitedType DEF Notice
  <2>2. CASE stage[c] # "inner"
    BY <1>3, <2>2 DEF CutsAreLate
  <2> QED
    BY <2>1, <2>2
<1>8. OrphansAreForced'
  BY <1>1, <1>2 DEF OrphansAreForced
<1> QED
  BY <1>4, <1>5, <1>6, <1>7, <1>8

\* What main does besides, calls left alone.
LEMMA MainInv ==
  ASSUME LifecycleInv, UNCHANGED callVars,
         \/ ConnectRedis \/ RegisterHandlers \/ StartGrpc
         \/ HttpListens \/ GrpcListens \/ Signal \/ Second \/ EndDrain
         \/ HttpShutdown \/ GracefulStop \/ GracefulStopReturns \/ CloseRedis
  PROVE  LifecycleInv'
<1> USE DEF LifecycleInv, callVars
<1>1. LifecycleTypeOK'
  BY DEF ConnectRedis, RegisterHandlers, StartGrpc, HttpListens, GrpcListens,
         Signal, Second, EndDrain, HttpShutdown, GracefulStop,
         GracefulStopReturns, CloseRedis, LifecycleTypeOK
<1>2. PhasesAreOrdered'
  BY DEF ConnectRedis, RegisterHandlers, StartGrpc, HttpListens, GrpcListens,
         Signal, Second, EndDrain, HttpShutdown, GracefulStop,
         GracefulStopReturns, CloseRedis, LifecycleTypeOK, PhasesAreOrdered
<1>3. CallsHaveServers'
  <2> SUFFICES ASSUME NEW c \in Requests
               PROVE  /\ stage[c] = "inner" => grpc' \in {"serving", "stopping"}
                      /\ Live(c) => phase' # "exited"
                      /\ sleep = 0 /\ phase \in {"stopping", "closing", "closed", "exited"}
                           => sleep' = 0 /\ phase' \in {"stopping", "closing", "closed", "exited"}
                      /\ killed => killed'
    BY DEF CallsHaveServers, Live
  <2>1. stage[c] = "inner" => grpc' \in {"serving", "stopping"}
    BY DEF ConnectRedis, RegisterHandlers, StartGrpc, HttpListens, GrpcListens,
           Signal, Second, EndDrain, HttpShutdown, GracefulStop,
           GracefulStopReturns, CloseRedis, PhasesAreOrdered, CallsHaveServers
  <2>2. Live(c) => phase' # "exited"
    BY DEF ConnectRedis, RegisterHandlers, StartGrpc, HttpListens, GrpcListens,
           Signal, Second, EndDrain, HttpShutdown, GracefulStop,
           GracefulStopReturns, CloseRedis, CallsHaveServers
  <2>3. sleep = 0 /\ phase \in {"stopping", "closing", "closed", "exited"}
          => sleep' = 0 /\ phase' \in {"stopping", "closing", "closed", "exited"}
    BY DEF ConnectRedis, RegisterHandlers, StartGrpc, HttpListens, GrpcListens,
           Signal, Second, EndDrain, HttpShutdown, GracefulStop,
           GracefulStopReturns, CloseRedis
  <2>4. killed => killed'
    BY DEF ConnectRedis, RegisterHandlers, StartGrpc, HttpListens, GrpcListens,
           Signal, Second, EndDrain, HttpShutdown, GracefulStop,
           GracefulStopReturns, CloseRedis
  <2> QED
    BY <2>1, <2>2, <2>3, <2>4
<1>4. killed' = killed
  BY DEF ConnectRedis, RegisterHandlers, StartGrpc, HttpListens, GrpcListens,
         Signal, Second, EndDrain, HttpShutdown, GracefulStop,
         GracefulStopReturns, CloseRedis
<1>5. CutsAreLate'
  BY <1>4 DEF CutsAreLate, Notice
<1>6. OrphansAreForced'
  BY DEF ConnectRedis, RegisterHandlers, StartGrpc, HttpListens, GrpcListens,
         Signal, Second, EndDrain, HttpShutdown, GracefulStop,
         GracefulStopReturns, CloseRedis, OrphansAreForced, LifecycleTypeOK
<1> QED
  BY <1>1, <1>2, <1>3, <1>5, <1>6

\* A new call goes to a server that is serving.
LEMMA ArriveInv ==
  ASSUME LifecycleInv, NEW c \in Requests, NEW k \in {"http", "grpc", "chat"},
         Arrive(c, k)
  PROVE  LifecycleInv'
<1> USE DEF LifecycleInv, mainVars
<1>1. LifecycleTypeOK'
  BY DEF Arrive, LifecycleTypeOK
<1>2. PhasesAreOrdered'
  BY DEF Arrive, PhasesAreOrdered
<1>3. CallsHaveServers'
  <2>1. phase # "exited"
    BY DEF Arrive, PhasesAreOrdered
  <2>2. c \notin uncleared
    BY DEF Arrive, CallsHaveServers
  <2> QED
    BY <2>1, <2>2 DEF Arrive, CallsHaveServers, Live, LifecycleTypeOK
<1>4. CutsAreLate'
  BY DEF Arrive, CutsAreLate, Notice, LifecycleTypeOK
<1>5. OrphansAreForced'
  BY DEF Arrive, OrphansAreForced
<1> QED
  BY <1>1, <1>2, <1>3, <1>4, <1>5

\* A call that has arrived goes on.
LEMMA CallInv ==
  ASSUME LifecycleInv, NEW c \in Requests,
         \/ \E changed \in BOOLEAN : UpstreamAnswers(c, changed)
         \/ CallSelf(c) \/ InnerAnswers(c) \/ OrphanReturns(c) \/ Finish(c)
  PROVE  LifecycleInv'
<1> USE DEF LifecycleInv, mainVars
<1>1. UNCHANGED <<mainVars, kind, cutAfter>>
  BY DEF UpstreamAnswers, CallSelf, InnerAnswers, OrphanReturns, Finish
<1>2. LifecycleTypeOK'
  BY <1>1 DEF UpstreamAnswers, CallSelf, InnerAnswers, OrphanReturns, Finish,
              LifecycleTypeOK
<1>3. PhasesAreOrdered'
  BY <1>1 DEF UpstreamAnswers, CallSelf, InnerAnswers, OrphanReturns, Finish,
              PhasesAreOrdered
<1>4. CallsHaveServers'
  <2>1. CASE \E changed \in BOOLEAN : UpstreamAnswers(c, changed)
    BY <1>1, <2>1 DEF UpstreamAnswers, CallsHaveServers, Live, LifecycleTypeOK
  <2>2. CASE CallSelf(c)
    BY <1>1, <2>2 DEF CallSelf, CallsHaveServers, Live, LifecycleTypeOK
  <2>3. CASE InnerAnswers(c)
    BY <1>1, <2>3 DEF InnerAnswers, CallsHaveServers, Live, LifecycleTypeOK
  <2>4. CASE Finish(c)
    BY <1>1, <2>4 DEF Finish, CallsHaveServers, Live, LifecycleTypeOK,
                      PhasesAreOrdered
  <2>5. CASE OrphanReturns(c)
    BY <1>1, <2>5 DEF OrphanReturns, CallsHaveServers, Live, mainVars
  <2> QED
    BY <2>1, <2>2, <2>3, <2>4, <2>5
<1>5. CutsAreLate'
  BY <1>1 DEF UpstreamAnswers, CallSelf, InnerAnswers, OrphanReturns, Finish,
              CutsAreLate, Notice, LifecycleTypeOK
<1>6. OrphansAreForced'
  BY <1>1 DEF UpstreamAnswers, CallSelf, InnerAnswers, OrphanReturns, Finish,
              OrphansAreForced
<1> QED
  BY <1>2, <1>3, <1>4, <1>5, <1>6

\* Every step keeps the invariant.
LEMMA StepInv ==
  ASSUME LifecycleInv, [LifecycleNext]_lifecycleVars
  PROVE  LifecycleInv'
<1>1. CASE ProcessStep \/ Signal
  <2>1. CASE ForceStop
    BY <2>1, ForceStopInv
  <2>2. CASE Exit
    BY <2>2, ExitInv
  <2>3. CASE ~ForceStop /\ ~Exit
    <3>1. UNCHANGED callVars
      BY <1>1, <2>3 DEF ProcessStep, ConnectRedis, RegisterHandlers, StartGrpc,
           HttpListens, GrpcListens, Signal, Second, EndDrain, HttpShutdown,
           GracefulStop, GracefulStopReturns, CloseRedis
    <3> QED
      BY <1>1, <2>3, <3>1, MainInv DEF ProcessStep
  <2> QED
    BY <2>1, <2>2, <2>3
<1>2. CASE StartFails
  BY <1>2, DieInv DEF StartFails
<1>3. ASSUME NEW c \in Requests, \E k \in {"http", "grpc", "chat"} : Arrive(c, k)
      PROVE  LifecycleInv'
  BY <1>3, ArriveInv
<1>4. ASSUME NEW c \in Requests,
             \/ \E changed \in BOOLEAN : UpstreamAnswers(c, changed)
             \/ CallSelf(c) \/ InnerAnswers(c) \/ OrphanReturns(c)
             \/ Finish(c)
      PROVE  LifecycleInv'
  BY <1>4, CallInv
<1>5. CASE UNCHANGED lifecycleVars
  BY <1>5 DEF lifecycleVars, LifecycleInv, LifecycleTypeOK, PhasesAreOrdered,
              CallsHaveServers, OrphansAreForced, CutsAreLate, Live,
              Notice
<1> QED
  BY <1>1, <1>2, <1>3, <1>4, <1>5 DEF LifecycleNext

\* The inductive invariant holds in every reachable state (main.go:885-933).
THEOREM LifecycleInvariant == LifecycleSpec => []LifecycleInv
<1> QED
  BY InitInv, StepInv, PTL DEF LifecycleSpec

\* Every variable keeps its type, whatever fails and whenever the signal comes.
THEOREM LifecycleTypes == LifecycleSpec => []LifecycleTypeOK
<1>1. LifecycleInv => LifecycleTypeOK
  BY DEF LifecycleInv
<1> QED
  BY <1>1, LifecycleInvariant, PTL

\* A shutdown cuts no gRPC call off before the pause and the grace period are
\* over, and neither cuts an HTTP call off nor leaves a change uncleared before
\* the end of the pause (main.go:893-933).
THEOREM ShutdownIsLate == LifecycleSpec => []LossesAreLate
<1>1. LifecycleInv => LossesAreLate
  BY DEF LifecycleInv, LossesAreLate, UnclearedIsLate, CallsHaveServers,
         LifecycleTypeOK
<1> QED
  BY <1>1, LifecycleInvariant, PTL

\* Redis is closed under a gRPC handler only after the whole grace period, by a
\* stop that waits for no handler, and then no client is connected to one
\* (main.go:908-930).
THEOREM RedisIsThere == LifecycleSpec => []RedisOutlivesGrpc
<1>1. LifecycleInv => RedisOutlivesGrpc
  BY DEF LifecycleInv, RedisOutlivesGrpc, InHandler, PhasesAreOrdered,
         CallsHaveServers, OrphansAreForced
<1> QED
  BY <1>1, LifecycleInvariant, PTL

-----------------------------------------------------------------------------
(* The process.                                                            *)

\* The three parts share no state: a step of the process is one of each of
\* them, or leaves it alone.
THEOREM ProcessHasItsParts ==
  ProcessSpec => LifecycleSpec /\ InvalidatorSpec /\ PoolSpec
<1>1. ProcessInit => LifecycleInit /\ InvalidatorInit /\ PoolInit
  BY DEF ProcessInit
<1>2. [ProcessNext]_processVars =>
        /\ [LifecycleNext]_lifecycleVars
        /\ [InvalidatorNext]_invalidatorVars
        /\ [PoolNext]_poolVars
  BY DEF ProcessNext, LifecyclePart, InvalidatorPart, PoolPart, processVars
<1> QED
  BY <1>1, <1>2, PTL
     DEF ProcessSpec, LifecycleSpec, InvalidatorSpec, PoolSpec

\* The inductive invariants of the three parts hold of the process.
THEOREM ProcessInvariant == ProcessSpec => []ProcessInv
<1>1. LifecycleInv /\ InvalidatorInv /\ PoolInv => ProcessInv
  BY DEF ProcessInv
<1> QED
  BY <1>1, ProcessHasItsParts, LifecycleInvariant, InvalidatorInvariant,
     PoolInvariant, PTL

=============================================================================
