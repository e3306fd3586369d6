----------------------------- MODULE ClientPool -----------------------------
(***************************************************************************)
(* The pool of gRPC connections and the proxy that calls through it        *)
(* (src/gateway/proxy/client_pool.go, grpc_proxy.go): a connection is      *)
(* looked up under the read lock, examined without any lock, and dialled   *)
(* under the write lock after a second look; Close closes them one by one. *)
(*                                                                         *)
(* Every caller makes one call.  A connection is known by its number, in   *)
(* the order of dialling; 0 is none.  Dialling does not wait for the       *)
(* service (grpc.DialContext without WithBlock).  What is called and what  *)
(* is answered is left out.                                                *)
(***************************************************************************)
EXTENDS Integers, FiniteSets

CONSTANTS
  Callers,
  Addresses,
  MaxCloses,   \* bound: how often Close is called
  NoOne        \* nobody holds the write lock

ASSUME PoolAssumption ==
  /\ MaxCloses \in Nat
  /\ Addresses # {}
  /\ "Close" \notin Callers /\ NoOne \notin Callers \cup {"Close"}

NoConn == 0

VARIABLES
  connections,  \* the map of the pool: address -> connection
  dialled,      \* how many connections have been dialled
  at,           \* the address of each
  opened,       \* those that are not closed
  writer,       \* who holds the write lock: a caller, "Close" or NoOne
  caller,       \* what each caller is about to do
  target,       \* the address it calls
  conn,         \* the connection it has in hand
  closes        \* how often Close has been called

poolVars == <<connections, dialled, at, opened, writer, caller, target, conn,
              closes>>
inHandVars == <<caller, target, conn>>

-----------------------------------------------------------------------------
\* NewClientPool.
PoolInit ==
  /\ connections = [a \in Addresses |-> NoConn]
  /\ dialled = 0
  /\ at = <<>>
  /\ opened = {}
  /\ writer = NoOne
  /\ caller = [c \in Callers |-> "idle"]
  /\ target = [c \in Callers |-> CHOOSE a \in Addresses : TRUE]
  /\ conn = [c \in Callers |-> NoConn]
  /\ closes = 0

Usable(k) == k # NoConn /\ k \in opened

\* A call for the service at address a: GetConnection begins.
Ask(c, a) ==
  /\ caller[c] = "idle"
  /\ target' = [target EXCEPT ![c] = a]
  /\ caller' = [caller EXCEPT ![c] = "asking"]
  /\ UNCHANGED <<connections, dialled, at, opened, writer, conn, closes>>

\* The look into the map under the read lock, which a writer holds up.
LookUp(c) ==
  /\ caller[c] = "asking"
  /\ writer = NoOne
  /\ conn' = [conn EXCEPT ![c] = connections[target[c]]]
  /\ caller' = [caller EXCEPT ![c] = "examining"]
  /\ UNCHANGED <<connections, dialled, at, opened, writer, target, closes>>

\* conn.GetState, when no lock is held any more.
Examine(c) ==
  /\ caller[c] = "examining"
  /\ caller' = [caller EXCEPT ![c] =
                  IF Usable(conn[c]) THEN "calling" ELSE "waiting"]
  /\ UNCHANGED <<connections, dialled, at, opened, writer, target, conn, closes>>

Lock(c) ==
  /\ caller[c] = "waiting"
  /\ writer = NoOne
  /\ writer' = c
  /\ caller' = [caller EXCEPT ![c] = "locked"]
  /\ UNCHANGED <<connections, dialled, at, opened, target, conn, closes>>

\* Mutant: no second look under the write lock.
FoundByAnotherNever(c) == FALSE

\* The second look: another caller has dialled meanwhile.
FoundByAnother(c) == Usable(connections[target[c]])

TakeAnothers(c) ==
  /\ caller[c] = "locked"
  /\ FoundByAnother(c)
  /\ conn' = [conn EXCEPT ![c] = connections[target[c]]]
  /\ writer' = NoOne
  /\ caller' = [caller EXCEPT ![c] = "calling"]
  /\ UNCHANGED <<connections, dialled, at, opened, target, closes>>

Dial(c) ==
  /\ caller[c] = "locked"
  /\ ~FoundByAnother(c)
  /\ dialled' = dialled + 1
  /\ at' = [k \in 1 .. dialled + 1 |-> IF k = dialled + 1 THEN target[c] ELSE at[k]]
  /\ opened' = opened \cup {dialled + 1}
  /\ connections' = [connections EXCEPT ![target[c]] = dialled + 1]
  /\ conn' = [conn EXCEPT ![c] = dialled + 1]
  /\ writer' = NoOne
  /\ caller' = [caller EXCEPT ![c] = "calling"]
  /\ UNCHANGED <<target, closes>>

\* Mutant: the error is returned with the lock held.
DialFailsLocked(c) ==
  /\ caller[c] = "locked"
  /\ ~FoundByAnother(c)
  /\ caller' = [caller EXCEPT ![c] = "failed"]
  /\ UNCHANGED <<connections, dialled, at, opened, writer, target, conn, closes>>

\* The address cannot be dialled: the deferred Unlock, and 500.
DialFails(c) ==
  /\ caller[c] = "locked"
  /\ ~FoundByAnother(c)
  /\ writer' = NoOne
  /\ caller' = [caller EXCEPT ![c] = "failed"]
  /\ UNCHANGED <<connections, dialled, at, opened, target, conn, closes>>

\* ProxyRequest: the body may not parse, and the service may fail or be late
\* on any connection; on one that was closed in the meantime it always fails.
Answered(c) ==
  /\ caller[c] = "calling"
  /\ \E end \in {"failed"} \cup IF Usable(conn[c]) THEN {"served"} ELSE {} :
       caller' = [caller EXCEPT ![c] = end]
  /\ UNCHANGED <<connections, dialled, at, opened, writer, target, conn, closes>>

-----------------------------------------------------------------------------
BeginClose ==
  /\ writer = NoOne
  /\ closes < MaxCloses
  /\ writer' = "Close"
  /\ closes' = closes + 1
  /\ UNCHANGED <<connections, dialled, at, opened, inHandVars>>

CloseOne(a) ==
  /\ writer = "Close"
  /\ Usable(connections[a])
  /\ opened' = opened \ {connections[a]}
  /\ UNCHANGED <<connections, dialled, at, writer, inHandVars, closes>>

\* The map is replaced when every connection has been closed.
EndClose ==
  /\ writer = "Close"
  /\ \A a \in Addresses : ~Usable(connections[a])
  /\ connections' = [a \in Addresses |-> NoConn]
  /\ writer' = NoOne
  /\ UNCHANGED <<dialled, at, opened, inHandVars, closes>>

CallStep(c) ==
  \/ LookUp(c) \/ Examine(c) \/ Lock(c)
  \/ TakeAnothers(c) \/ Dial(c) \/ DialFails(c) \/ Answered(c)

CloseStep == (\E a \in Addresses : CloseOne(a)) \/ EndClose

PoolNext ==
  \/ \E c \in Callers : CallStep(c) \/ \E a \in Addresses : Ask(c, a)
  \/ BeginClose
  \/ CloseStep

PoolSpec == PoolInit /\ [][PoolNext]_poolVars

-----------------------------------------------------------------------------
\* Every variable has its type.
PoolTypeOK ==
  /\ dialled \in Nat
  /\ connections \in [Addresses -> 0 .. dialled]
  /\ at \in [1 .. dialled -> Addresses]
  /\ opened \subseteq 1 .. dialled
  /\ writer \in Callers \cup {"Close", NoOne}
  /\ caller \in [Callers -> {"idle", "asking", "examining", "waiting",
                             "locked", "calling", "served", "failed"}]
  /\ target \in [Callers -> Addresses]
  /\ conn \in [Callers -> 0 .. dialled]
  /\ closes \in 0 .. MaxCloses

\* However callers that miss at the same time and Close overlap
\* (client_pool.go:33-46, 71-91), a connection that is open is the pool's: no
\* second one is open to its address, and Close finds it.
OpenOnesAreThePools ==
  \A k \in opened : connections[at[k]] = k

\* The inductive invariant (client_pool.go:28-91).
PoolInv == PoolTypeOK /\ OpenOnesAreThePools

\* Nobody waits for ever for the lock, and every call ends: a failure to dial
\* gives the lock back (client_pool.go:41-42, 61-63).
CallsReturn ==
  \A c \in Callers : caller[c] = "asking" ~> caller[c] \in {"served", "failed"}

=============================================================================
