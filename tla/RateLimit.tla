----------------------------- MODULE RateLimit -----------------------------
(***************************************************************************)
(* The rate limit of the gRPC server: RateLimitInterceptor                 *)
(* (src/internal/interceptors/ratelimit.go), an INCR of a Redis counter    *)
(* per caller and, by the call that created the counter, an EXPIRE.        *)
(*                                                                         *)
(* Only differences of time matter, so there is no clock: the counter's    *)
(* life and the ages of past calls are counted down and up by Tick, and    *)
(* the state space is finite without a bound on time or on calls.          *)
(***************************************************************************)
EXTENDS Integers

CONSTANTS
  Handlers,      \* goroutines serving gRPC calls
  Users, NoUser, \* payload.UserID; a call JWTAuthInterceptor let by as public
  Addresses, NoAddress,  \* x-forwarded-for
  Anonymous,     \* the counter of calls with neither
  Calls,         \* who may call
  Limit,         \* calls per window
  Window,        \* the life EXPIRE gives a counter
  Lag            \* longest time from an INCR's reply to its EXPIRE

Call == [user : Users \cup {NoUser}, address : Addresses \cup {NoAddress}]

ASSUME ConstantsAssumption ==
  /\ NoUser \notin Users
  /\ NoAddress \notin Addresses
  /\ Calls \subseteq Call /\ Calls # {}
  /\ Limit \in Nat \ {0}
  /\ Window \in Nat \ {0}
  /\ Lag \in Nat \ {0}

Counters == Users \cup Addresses \cup {Anonymous}

NoTTL == 0

\* Ages of calls that a counter may still count, and of a window.
Horizon == 0..(Window + Lag - 1)
Minute  == 0..(Window - 1)

\* Beyond these the interceptor, and the properties, see no difference.
CountCap    == Limit + 1
AdmittedCap == 2 * Limit + 1

VARIABLES
  count,    \* the value of each counter, 0 when there is none
  ttl,      \* what is left of its life
  pc,       \* where each handler is
  counter,  \* the counter its call is counted by
  waited,   \* how long its EXPIRE has been on the way
  verdict,  \* what the interceptor decided
  recent,   \* how many calls of each age INCR has counted
  admitted, \* how many calls of each age their count let through
  stranded  \* counters whose creator, or its EXPIRE, failed

redisVars   == <<count, ttl>>
handlerVars == <<pc, counter, waited, verdict>>
vars        == <<redisVars, handlerVars, recent, admitted, stranded>>

-----------------------------------------------------------------------------
Smaller(m, n) == IF m < n THEN m ELSE n

\* payload.UserID, else the first x-forwarded-for, else one for all the rest.
CounterOf(c) ==
  IF c.user # NoUser THEN c.user
  ELSE IF c.address # NoAddress THEN c.address
  ELSE Anonymous

Free(h) == pc[h] \in {"idle", "decided"}

\* Mutant: off by one.
AdmitsOneMore(n) == n <= Limit + 1

\* count > 100 is refused.
Admits(n) == n <= Limit

\* Mutants: INCR taken to reply the old value, or EXPIRE sent by every call.
CreatedOldValue(n) == n = 0
CreatedAlways(n) == n > 0

\* INCR replies 1 to the call that created the counter.
Created(n) == n = 1

Decide(h, n) ==
  /\ pc' = [pc EXCEPT ![h] = "decided"]
  /\ waited' = [waited EXCEPT ![h] = 0]
  /\ verdict' = [verdict EXCEPT ![h] = IF Admits(n) THEN "served" ELSE "rejected"]

\* One more call of age 0.
Counted(b) == [recent EXCEPT ![b][0] = Smaller(@ + 1, CountCap)]
Admitted(b, n) ==
  IF Admits(n)
  THEN [admitted EXCEPT ![b][0] = Smaller(@ + 1, AdmittedCap)]
  ELSE admitted

\* How many calls are of each age or less.
Sums(ages) ==
  LET sum[a \in DOMAIN ages] == IF a = 0 THEN ages[0] ELSE sum[a - 1] + ages[a]
  IN sum

Older(ages) == [a \in DOMAIN ages |-> IF a = 0 THEN 0 ELSE ages[a - 1]]

-----------------------------------------------------------------------------
Init ==
  /\ count = [b \in Counters |-> 0]
  /\ ttl = [b \in Counters |-> NoTTL]
  /\ pc = [h \in Handlers |-> "idle"]
  /\ counter = [h \in Handlers |-> Anonymous]
  /\ waited = [h \in Handlers |-> 0]
  /\ verdict = [h \in Handlers |-> "none"]
  /\ recent = [b \in Counters |-> [a \in Horizon |-> 0]]
  /\ admitted = [b \in Counters |-> [a \in Minute |-> 0]]
  /\ stranded = {}

\* Time passes: lives get shorter, a counter whose life is over is gone.
Tick ==
  /\ \A h \in Handlers : pc[h] = "expiring" => waited[h] < Lag
  /\ ttl' = [b \in Counters |-> IF ttl[b] = NoTTL THEN NoTTL ELSE ttl[b] - 1]
  /\ count' = [b \in Counters |-> IF ttl[b] = 1 THEN 0 ELSE count[b]]
  /\ waited' = [h \in Handlers |->
                  IF pc[h] = "expiring" THEN waited[h] + 1 ELSE waited[h]]
  /\ recent' = [b \in Counters |-> Older(recent[b])]
  /\ admitted' = [b \in Counters |-> Older(admitted[b])]
  /\ UNCHANGED <<pc, counter, verdict, stranded>>

\* INCR creates or increments the counter.  The call that created it goes on
\* to EXPIRE; any other is decided.
Incr(h, c) ==
  /\ Free(h)
  /\ LET b == CounterOf(c)
         n == count[b] + 1
     IN  /\ count' = [count EXCEPT ![b] = Smaller(n, CountCap)]
         /\ counter' = [counter EXCEPT ![h] = b]
         /\ recent' = Counted(b)
         /\ admitted' = Admitted(b, n)
         /\ IF Created(n)
            THEN /\ pc' = [pc EXCEPT ![h] = "expiring"]
                 /\ waited' = [waited EXCEPT ![h] = 0]
                 /\ verdict' = [verdict EXCEPT ![h] = "none"]
            ELSE Decide(h, n)
  /\ UNCHANGED <<ttl, stranded>>

\* INCR ends in an error, executed or not: count is 0 in the code, and the
\* call is served without having been counted, or without a count to judge it.
IncrFails(h, c) ==
  /\ Free(h)
  /\ LET b == CounterOf(c)
     IN  /\ \/ UNCHANGED <<count, recent, stranded>>
            \/ /\ count' = [count EXCEPT ![b] = Smaller(@ + 1, CountCap)]
               /\ recent' = Counted(b)
               /\ stranded' = IF count[b] = 0 THEN stranded \cup {b} ELSE stranded
         /\ counter' = [counter EXCEPT ![h] = b]
         /\ Decide(h, 0)
  /\ UNCHANGED <<ttl, admitted>>

\* EXPIRE gives the counter, if there is one, its life.
Expire(h) ==
  /\ pc[h] = "expiring"
  /\ ttl' = [ttl EXCEPT ![counter[h]] =
                IF count[counter[h]] = 0 THEN NoTTL ELSE Window]
  /\ Decide(h, 1)
  /\ UNCHANGED <<count, counter, recent, admitted, stranded>>

\* Its error, such as the cancelled context of a client that went away, is
\* dropped; so is everything when the process dies.
ExpireFails(h) ==
  /\ pc[h] = "expiring"
  /\ stranded' = stranded \cup {counter[h]}
  /\ Decide(h, 1)
  /\ UNCHANGED <<redisVars, counter, recent, admitted>>

Next ==
  \/ Tick
  \/ \E h \in Handlers, c \in Calls : Incr(h, c) \/ IncrFails(h, c)
  \/ \E h \in Handlers : Expire(h) \/ ExpireFails(h)

Spec == Init /\ [][Next]_vars

\* Time passes, and a handler waits for Redis no longer than its timeouts.
Fairness ==
  /\ WF_vars(Tick)
  /\ \A h \in Handlers : WF_vars(Expire(h) \/ ExpireFails(h))

FairSpec == Spec /\ Fairness

-----------------------------------------------------------------------------
\* Every variable has its type.
TypeOK ==
  /\ count \in [Counters -> 0..CountCap]
  /\ ttl \in [Counters -> 0..Window]
  /\ pc \in [Handlers -> {"idle", "expiring", "decided"}]
  /\ counter \in [Handlers -> Counters]
  /\ waited \in [Handlers -> 0..Lag]
  /\ verdict \in [Handlers -> {"none", "served", "rejected"}]
  /\ recent \in [Counters -> [Horizon -> 0..CountCap]]
  /\ admitted \in [Counters -> [Minute -> 0..AdmittedCap]]
  /\ stranded \in SUBSET Counters

\* Every counter will expire, unless the call that created it failed: one
\* without a life has a handler about to give it one.  No call that fails
\* later, and no interleaving, takes a counter's life away.
EveryCounterWillExpire ==
  \A b \in Counters \ stranded : count[b] > 0 /\ ttl[b] = NoTTL =>
    \E h \in Handlers : pc[h] = "expiring" /\ counter[h] = b

\* A counter counts only recent calls, so that nobody is rejected for what
\* they did more than a window and one EXPIRE ago.
CounterIsRecent ==
  \A b \in Counters \ stranded : count[b] <= Sums(recent[b])[Window + Lag - 1]

\* No window of time, wherever it begins, admits one caller more than twice
\* the limit by its count: the price of counting in fixed windows.
AtMostTwiceTheLimit ==
  \A b \in Counters : Sums(admitted[b])[Window - 1] <= 2 * Limit

\* A caller that has been limited is served again when time has passed,
\* whatever fails after its counter was given a life.
LimitedIsServedAgain ==
  \A b \in Counters :
    ~Admits(count[b] + 1) ~> Admits(count[b] + 1) \/ b \in stranded

-----------------------------------------------------------------------------
(* The inductive invariant, proved in RateLimitProofs.                     *)

\* The call that is about to give a counter its life is the one that created
\* it: there is one at most, and the counter is there and has no life yet.
OneCreator ==
  \A h \in Handlers : pc[h] = "expiring" /\ counter[h] \notin stranded =>
    /\ count[counter[h]] > 0 /\ ttl[counter[h]] = NoTTL
    /\ \A g \in Handlers :
         pc[g] = "expiring" /\ counter[g] = counter[h] => g = h

\* A counter counts calls no older than itself: it is as old as its EXPIRE has
\* been on the way, or at most Lag older than its life so far.
CountsItsOwn ==
  \A b \in Counters \ stranded : count[b] > 0 =>
    IF ttl[b] = NoTTL
    THEN \E h \in Handlers : /\ pc[h] = "expiring" /\ counter[h] = b
                             /\ count[b] <= Sums(recent[b])[waited[h]]
    ELSE count[b] <= Sums(recent[b])[Window - ttl[b] + Lag]

\* Of the calls of the last window, those younger than the counter are in its
\* count, and the older ones, if any, were let through by the one before it.
OneBefore(b, age) ==
  /\ Sums(admitted[b])[age] <= count[b]
  /\ Sums(admitted[b])[age] <= Limit
  /\ Sums(admitted[b])[Window - 1] - Sums(admitted[b])[age] <= Limit
  /\ ttl[b] # NoTTL => age >= Window - ttl[b]

TwoCountersAtMost ==
  \A b \in Counters :
    IF count[b] = 0
    THEN /\ ttl[b] = NoTTL /\ admitted[b][0] = 0
         /\ Sums(admitted[b])[Window - 1] <= Limit
    ELSE \E age \in Minute : OneBefore(b, age)

RateLimitInv == TypeOK /\ OneCreator /\ CountsItsOwn /\ TwoCountersAtMost

-----------------------------------------------------------------------------
(* What the comment promises and the code does not keep.                   *)

\* "100 requests per minute per user" (ratelimit.go:36): whoever is limited
\* is served again in another minute.
EveryoneIsServedAgain ==
  \A b \in Counters : ~Admits(count[b] + 1) ~> Admits(count[b] + 1)

=============================================================================
