-------------------------- MODULE MCGatewayProcess --------------------------
(***************************************************************************)
(* What runs in the process of the gateway besides its handlers, for TLC:  *)
(* the life of the process (Lifecycle), the consumer of balance events     *)
(* (BalanceInvalidator) and a pool of connections (ClientPool).  The three *)
(* share no state, so a behaviour is one of any of them: "part" says of    *)
(* which, and the other two stand still.                                   *)
(***************************************************************************)
EXTENDS Lifecycle, BalanceInvalidator, ClientPool

VARIABLE part

processVars == <<part, lifecycleVars, invalidatorVars, poolVars>>

ProcessInit ==
  /\ part \in {"lifecycle", "invalidator", "pool"}
  /\ LifecycleInit /\ InvalidatorInit /\ PoolInit

LifecyclePart   == part = "lifecycle" /\ UNCHANGED <<part, invalidatorVars, poolVars>>
InvalidatorPart == part = "invalidator" /\ UNCHANGED <<part, lifecycleVars, poolVars>>
PoolPart        == part = "pool" /\ UNCHANGED <<part, lifecycleVars, invalidatorVars>>

ProcessNext ==
  \/ LifecyclePart /\ LifecycleNext
  \/ InvalidatorPart /\ InvalidatorNext
  \/ PoolPart /\ PoolNext

\* main, its servers and its clock go on; so does the consumer's goroutine
\* while it is up, and a Close once begun.  Only one part is ever enabled.
GoesOn ==
  \/ LifecyclePart /\ ProcessStep
  \/ InvalidatorPart /\ ConsumerStep
  \/ PoolPart /\ CloseStep

\* A caller that can go on does so, its service answers or its deadline ends
\* the call, and a sync.RWMutex lets everybody pass in the end.
ProcessFairness ==
  /\ WF_processVars(GoesOn)
  /\ \A c \in Callers : SF_processVars(PoolPart /\ CallStep(c))

ProcessSpec == ProcessInit /\ [][ProcessNext]_processVars /\ ProcessFairness

\* The inductive invariants of the three parts, types included: what main's
\* phases say of its servers and calls (main.go:885-933), the consumer's
\* position of its offsets (balance_consumer.go:71-97), and the pool's map of
\* its connections (client_pool.go:28-91).
ProcessInv == LifecycleInv /\ InvalidatorInv /\ PoolInv
=============================================================================
