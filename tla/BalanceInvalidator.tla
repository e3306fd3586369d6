------------------------- MODULE BalanceInvalidator -------------------------
(***************************************************************************)
(* BalanceCacheInvalidator (src/internal/kafka/balance_consumer.go): one   *)
(* consumer group reads the balance-changed events of a partition and      *)
(* deletes the cached answers they make wrong.  ReadMessage commits the    *)
(* offset of what it returns, in the background and before it is handled.  *)
(*                                                                         *)
(* An offset is the number of events before it.  copies is what the        *)
(* response cache (src/grpcApi/middleware/cache.go) holds under each kind  *)
(* of path: the number of events its answer knew of.  How a cached answer  *)
(* can overtake its own deletion is a matter of ResponseCache: here an     *)
(* answer is stored at once.                                               *)
(***************************************************************************)
EXTENDS Integers, FiniteSets

CONSTANTS
  MaxEvents, \* bound of the events published
  MaxCrashes \* bound of the crashes

ASSUME InvalidatorAssumption ==
  /\ MaxEvents \in Nat
  /\ MaxCrashes \in Nat

Paths == {"accounts", "transactions", "family-accounts"}

\* The paths skipPatterns keep out of the cache: "family-accounts" does not
\* contain "/accounts".
Skipped == {"accounts", "transactions"}

\* The paths the patterns of an event match.
Matched == {"accounts", "transactions"}

None == -1

VARIABLES
  published,   \* the events of the partition
  consumer,    \* "down", "up", or "closing": up, but Redis is closed
  from,        \* the offset its reader began at
  position,    \* the offset that ReadMessage returns next
  origin,      \* where the group first began, or None
  passedOver,  \* the events that a later start without a commit began after
  committed,   \* the group's offset at the broker, or None
  hand,        \* the event being handled, or None
  todo,        \* the paths still to be scanned for it
  handled,     \* the events handled with no error from Redis
  faulted,     \* the events Redis failed on
  crashes,
  copies

busVars   == <<published, from, origin, committed>>
handVars  == <<hand, todo>>
ghostVars == <<handled, faulted, crashes, passedOver>>
invalidatorVars ==
  <<busVars, consumer, position, handVars, ghostVars, copies>>

-----------------------------------------------------------------------------
InvalidatorInit ==
  /\ published = 0
  /\ consumer = "down"
  /\ from = 0 /\ position = 0 /\ origin = None /\ committed = None
  /\ hand = None /\ todo = {}
  /\ handled = {} /\ faulted = {} /\ crashes = 0 /\ passedOver = {}
  /\ copies = [p \in Paths |-> None]

\* accounts-service moves money.
Publish ==
  /\ published < MaxEvents
  /\ published' = published + 1
  /\ UNCHANGED <<consumer, from, position, origin, committed, handVars,
                 ghostVars, copies>>

\* A GET is answered by accounts-service and stored, unless its path is
\* skipped; or a stored answer expires.
Store(p) ==
  /\ p \notin Skipped
  /\ copies' = [copies EXCEPT ![p] = published]
  /\ UNCHANGED <<busVars, consumer, position, handVars, ghostVars>>

Expire(p) ==
  /\ copies[p] # None
  /\ copies' = [copies EXCEPT ![p] = None]
  /\ UNCHANGED <<busVars, consumer, position, handVars, ghostVars>>

\* A gateway starts: where its group left off, or, if nothing has been
\* committed yet, with the events still to come (LastOffset), whatever was
\* published since the group first began.
StartConsumer ==
  /\ consumer = "down"
  /\ consumer' = "up"
  /\ IF committed # None
     THEN /\ position' = committed
          /\ UNCHANGED <<origin, passedOver>>
     ELSE /\ position' = published
          /\ origin' = IF origin = None THEN published ELSE origin
          /\ passedOver' = IF origin = None THEN {}
                           ELSE passedOver \cup position .. published - 1
  /\ from' = position'
  /\ UNCHANGED <<published, committed, handVars, handled, faulted, crashes,
                 copies>>

ReadMessage ==
  /\ consumer # "down" /\ hand = None
  /\ position < published
  /\ hand' = position
  /\ todo' = Matched
  /\ position' = position + 1
  /\ UNCHANGED <<busVars, consumer, ghostVars, copies>>

\* Mutant: what has been fetched ahead is committed with it.
CommitFetched ==
  /\ consumer # "down"
  /\ position > from
  /\ committed' = published
  /\ UNCHANGED <<published, from, origin, consumer, position, handVars,
                 ghostVars, copies>>

\* The reader's own loop, once a second.
Commit ==
  /\ consumer # "down"
  /\ position > from
  /\ committed' = position
  /\ UNCHANGED <<published, from, origin, consumer, position, handVars,
                 ghostVars, copies>>

\* SCAN and DEL of one pattern, ...
ClearPath(p) ==
  /\ consumer = "up"
  /\ p \in todo
  /\ todo' = todo \ {p}
  /\ copies' = [copies EXCEPT ![p] = None]
  /\ UNCHANGED <<busVars, consumer, position, hand, ghostVars>>

\* Mutant: an error ends the handling, and the event stays in hand.
ClearFailsAndRetries(p) ==
  /\ p \in todo
  /\ faulted' = faulted \cup {hand}
  /\ UNCHANGED <<busVars, consumer, position, handVars, handled, crashes,
                 passedOver, copies>>

\* ... whose errors are logged and forgotten.
ClearFails(p) ==
  /\ p \in todo
  /\ todo' = todo \ {p}
  /\ faulted' = faulted \cup {hand}
  /\ UNCHANGED <<busVars, consumer, position, hand, handled, crashes,
                 passedOver, copies>>

EndEvent ==
  /\ hand # None /\ todo = {}
  /\ hand' = None
  /\ handled' = handled \cup ({hand} \ faulted)
  /\ UNCHANGED <<busVars, consumer, position, todo, faulted, crashes,
                 passedOver, copies>>

\* The process dies.
Crash ==
  /\ consumer # "down"
  /\ crashes < MaxCrashes
  /\ crashes' = crashes + 1
  /\ consumer' = "down"
  /\ hand' = None /\ todo' = {}
  /\ UNCHANGED <<busVars, position, handled, faulted, passedOver, copies>>

\* main closes Redis, and only then, deferred, stops the consumer ...
CloseRedisFirst ==
  /\ consumer = "up"
  /\ consumer' = "closing"
  /\ UNCHANGED <<busVars, position, handVars, ghostVars, copies>>

\* ... which flushes its commits.  What it had in hand is not finished.
StopConsumer ==
  /\ consumer = "closing"
  /\ consumer' = "down"
  /\ committed' = IF position > from THEN position ELSE committed
  /\ faulted' = IF hand = None THEN faulted ELSE faulted \cup {hand}
  /\ hand' = None /\ todo' = {}
  /\ UNCHANGED <<published, from, origin, position, handled, crashes,
                 passedOver, copies>>

\* What the consumer's goroutine does by itself.
ConsumerStep ==
  \/ ReadMessage
  \/ \E p \in Matched : ClearPath(p) \/ ClearFails(p)
  \/ EndEvent

InvalidatorNext ==
  \/ ConsumerStep
  \/ Publish
  \/ \E p \in Paths : Store(p) \/ Expire(p)
  \/ StartConsumer \/ Commit \/ Crash
  \/ CloseRedisFirst \/ StopConsumer

InvalidatorSpec == InvalidatorInit /\ [][InvalidatorNext]_invalidatorVars

-----------------------------------------------------------------------------
\* Every variable has its type.
InvalidatorTypeOK ==
  /\ published \in 0 .. MaxEvents
  /\ consumer \in {"down", "up", "closing"}
  /\ from \in 0 .. published /\ position \in 0 .. published
  /\ origin \in {None} \cup 0 .. published
  /\ committed \in {None} \cup 0 .. published
  /\ hand \in {None} \cup 0 .. published - 1
  /\ todo \in SUBSET Matched
  /\ handled \in SUBSET (0 .. published - 1)
  /\ faulted \in SUBSET (0 .. published - 1)
  /\ crashes \in 0 .. MaxCrashes
  /\ passedOver \in SUBSET (0 .. published - 1)
  /\ copies \in [Paths -> {None} \cup 0 .. published]

\* Seen through, tried, or being handled.
Attended(e) == e \in handled \cup faulted \cup {hand}

\* The events published since the group first began that it will not read
\* again: a start resumes at its commit, or further on still.
Resumes == IF committed = None THEN position ELSE committed
Lost    == {e \in 0 .. Resumes - 1 : e >= origin /\ ~Attended(e)}

\* Offsets are committed before their events are handled (balance_consumer.go:
\* 81-92): an event is lost to a crash, and no crash loses more than one,
\* besides those that a start of a group without a commit passes over
\* (balance_consumer.go:55).  Those Redis failed on are lost as well, but each
\* has been tried.
OneLossPerCrash == Cardinality(Lost \ passedOver) <= crashes

\* The events read, and neither seen through nor in hand.
Missed == {e \in 0 .. position - 1 :
             e >= origin /\ ~Attended(e) /\ e \notin passedOver}

\* The inductive invariant: no commit is ahead of what has been read, and what
\* has been read and missed is no more than the crashes
\* (balance_consumer.go:71-97).
InvalidatorInv ==
  /\ InvalidatorTypeOK
  /\ origin <= from /\ from <= position
  /\ origin = None => consumer = "down" /\ position = 0
  /\ committed # None =>
       origin # None /\ origin <= committed /\ committed <= position
  /\ consumer = "down" => hand = None
  /\ hand # None => from <= hand /\ hand < position
  /\ hand = None => todo = {}
  /\ Cardinality(Missed) <= crashes

\* "Don't retry" (balance_consumer.go:92-94, 132-146): no event, whatever
\* Redis does to it, keeps a running consumer from the events after it.
NoEventBlocks ==
  \A e \in 0 .. MaxEvents - 1 :
    (consumer # "down" /\ e < published) ~> (position > e \/ consumer = "down")

\* "the ONE mechanism that cleared a cached balance after a credit nobody
\* asked for over HTTP" (balance_consumer.go:166-169): with every event
\* handled, no cached answer is older than one.
BalancesAreCleared ==
  handled = 0 .. published - 1 =>
    \A p \in Paths : copies[p] \in {None, published}

\* The same mechanism against a group that has not committed yet: no event is
\* passed over.  A start at LastOffset (balance_consumer.go:55) passes over
\* what was published while the gateway was down.
NothingIsPassedOver == passedOver = {}

=============================================================================
