-------------------------- MODULE RevocationPromise --------------------------
(***************************************************************************)
(* What the gateway promises about ended view-as-user sessions, without    *)
(* the copy, its lock and its fetches (RevocationList): it may learn late  *)
(* that a session has ended, by less than Window; it never forgets it; and *)
(* what it knows it always says.                                           *)
(***************************************************************************)
EXTENDS Integers

CONSTANTS
  Handlers,  \* those who answer calls
  Sessions,  \* the view-as-user sessions
  Window     \* how long an ended session may be let through

VARIABLES
  clock,
  ended, endedAt,  \* the sessions that have ended, and when
  known,           \* those the gateway knows of
  answer           \* the last answer of each handler

promiseVars == <<clock, ended, endedAt, known, answer>>

Verdicts == {"allowed", "revoked", "read_only"}

\* An answer is a guess if the gateway has tried to learn and failed.
Answers == [session : Sessions, verdict : Verdicts, guess : BOOLEAN]

Pending == [verdict |-> "pending"]

PromiseInit ==
  /\ clock = 0
  /\ ended = {}
  /\ endedAt = [s \in Sessions |-> 0]
  /\ known = {}
  /\ answer = [h \in Handlers |-> Pending]

TimePasses ==
  /\ clock' = clock + 1
  /\ UNCHANGED <<ended, endedAt, known, answer>>

End(s) ==
  /\ s \notin ended
  /\ ended' = ended \cup {s}
  /\ endedAt' = [endedAt EXCEPT ![s] = clock]
  /\ UNCHANGED <<clock, known, answer>>

Ask(h) ==
  /\ answer' = [answer EXCEPT ![h] = Pending]
  /\ UNCHANGED <<clock, ended, endedAt, known>>

\* The gateway may learn of ended sessions first.
Answer(h) ==
  LET a == answer'[h]
  IN /\ answer[h] = Pending
     /\ a \in Answers
     /\ answer' = [answer EXCEPT ![h] = a]
     /\ known \subseteq known' /\ known' \subseteq ended
     /\ a.verdict = "revoked" <=> a.session \in known'
     /\ a.session \in ended /\ a.verdict = "allowed" /\ ~a.guess =>
          clock < endedAt[a.session] + Window
     /\ UNCHANGED <<clock, ended, endedAt>>

PromiseNext ==
  \/ TimePasses
  \/ \E s \in Sessions : End(s)
  \/ \E h \in Handlers : Ask(h) \/ Answer(h)

PromiseSpec == PromiseInit /\ [][PromiseNext]_promiseVars

=============================================================================
