---------------------------- MODULE Preferences ----------------------------
(***************************************************************************)
(* The preferences of one user, kept by notifications-service and changed  *)
(* through UserServiceProxy (src/internal/proxy/user_proxy.go), which      *)
(* shows and sets the master switches, and through                         *)
(* NotificationsServiceProxy, which passes the per-type flags on.          *)
(* UpdatePreferences reads the whole record, replaces its switches and     *)
(* writes the whole record back: two calls with nothing to hold them       *)
(* together.                                                               *)
(*                                                                         *)
(* The app sends every switch as its screen shows it, the one the user has *)
(* just toggled changed.  "intended" is the record the user has asked for, *)
(* one toggle at a time.                                                   *)
(***************************************************************************)
CONSTANTS
  Devices,      \* the user's devices, each with one call in flight
  Switches,     \* push, e-mail, SMS, dark mode
  Flags,        \* the per-type flags: transfers, payments, ...
  NotLoaded     \* a screen that shows no profile yet

Entries == Switches \cup Flags

ASSUME PreferencesAssumption ==
  /\ Switches \cap Flags = {}
  /\ Switches # {}

ASSUME NotLoadedAssumption == NotLoaded \notin [Switches -> BOOLEAN]

VARIABLES
  stored,    \* the record of notifications-service
  intended,  \* the record the user has asked for
  screen,    \* the switches each device shows
  pc,        \* what each device's call does
  toggled,   \* the switch the user toggled
  base,      \* the record UpdatePreferences starts from
  outdated   \* the calls whose base is not, or no longer, the record

preferencesVars == <<stored, intended, screen, pc, toggled, base, outdated>>

-----------------------------------------------------------------------------
\* A message of protobuf with nothing set: every boolean is false.
Empty == [e \in Entries |-> FALSE]

SwitchesOf(record) == [s \in Switches |-> record[s]]

\* The request: what the screen shows, but for the toggled switch.
Requested(d) == [screen[d] EXCEPT ![toggled[d]] = ~@]

\* Mutant: the request replaces the record.
MergedOver(record, switches) ==
  [e \in Entries |-> IF e \in Switches THEN switches[e] ELSE FALSE]

\* The record with its switches replaced.
Merged(record, switches) ==
  [e \in Entries |-> IF e \in Switches THEN switches[e] ELSE record[e]]

\* The calls that have read the record and are about to write it back.
Writing == {d \in Devices : pc[d] = "writing"}

AnySwitch == CHOOSE s \in Switches : TRUE

PreferencesInit ==
  /\ stored \in [Entries -> BOOLEAN]
  /\ intended = stored
  /\ screen = [d \in Devices |-> NotLoaded]
  /\ pc = [d \in Devices |-> "idle"]
  /\ toggled = [d \in Devices |-> AnySwitch]
  /\ base = [d \in Devices |-> Empty]
  /\ outdated = {}

\* GetUserProfile shows the stored switches ...
GetUserProfile(d) ==
  /\ pc[d] = "idle"
  /\ screen' = [screen EXCEPT ![d] = SwitchesOf(stored)]
  /\ UNCHANGED <<stored, intended, pc, toggled, base, outdated>>

\* ... or, when they cannot be read, succeeds all the same, with none set.
GetUserProfileWithout(d) ==
  /\ pc[d] = "idle"
  /\ screen' = [screen EXCEPT ![d] = SwitchesOf(Empty)]
  /\ UNCHANGED <<stored, intended, pc, toggled, base, outdated>>

\* The user toggles a switch: UpdatePreferences begins.
Toggle(d, s) ==
  /\ pc[d] = "idle"
  /\ screen[d] # NotLoaded
  /\ toggled' = [toggled EXCEPT ![d] = s]
  /\ pc' = [pc EXCEPT ![d] = "reading"]
  /\ UNCHANGED <<stored, intended, screen, base, outdated>>

\* It reads the current record ...
ReadCurrent(d) ==
  /\ pc[d] = "reading"
  /\ base' = [base EXCEPT ![d] = stored]
  /\ pc' = [pc EXCEPT ![d] = "writing"]
  /\ outdated' = outdated \ {d}
  /\ UNCHANGED <<stored, intended, screen, toggled>>

\* Mutant: it starts from the switches alone.
ReadCurrentFailsShort(d) ==
  /\ pc[d] = "reading"
  /\ base' = [base EXCEPT ![d] = SwitchesOf(Empty)]
  /\ pc' = [pc EXCEPT ![d] = "writing"]
  /\ outdated' = outdated \cup {d}
  /\ UNCHANGED <<stored, intended, screen, toggled>>

\* ... or, when that fails, starts from an empty one.
ReadCurrentFails(d) ==
  /\ pc[d] = "reading"
  /\ base' = [base EXCEPT ![d] = Empty]
  /\ pc' = [pc EXCEPT ![d] = "writing"]
  /\ outdated' = outdated \cup {d}
  /\ UNCHANGED <<stored, intended, screen, toggled>>

\* The record is written back; the answer holds the stored switches.
Write(d) ==
  /\ pc[d] = "writing"
  /\ stored' = Merged(base[d], Requested(d))
  /\ intended' = [intended EXCEPT ![toggled[d]] = Requested(d)[toggled[d]]]
  /\ screen' = [screen EXCEPT ![d] = SwitchesOf(stored')]
  /\ base' = [base EXCEPT ![d] = Empty]
  /\ pc' = [pc EXCEPT ![d] = "idle"]
  /\ outdated' = (outdated \cup Writing) \ {d}
  /\ UNCHANGED toggled

\* notifications-service refuses: the caller gets the error.
WriteFails(d) ==
  /\ pc[d] = "writing"
  /\ base' = [base EXCEPT ![d] = Empty]
  /\ pc' = [pc EXCEPT ![d] = "idle"]
  /\ outdated' = outdated \ {d}
  /\ UNCHANGED <<stored, intended, screen, toggled>>

\* It has written the record, but its answer does not come back.
WriteLost(d) ==
  /\ pc[d] = "writing"
  /\ stored' = Merged(base[d], Requested(d))
  /\ intended' = [intended EXCEPT ![toggled[d]] = Requested(d)[toggled[d]]]
  /\ base' = [base EXCEPT ![d] = Empty]
  /\ pc' = [pc EXCEPT ![d] = "idle"]
  /\ outdated' = (outdated \cup Writing) \ {d}
  /\ UNCHANGED <<screen, toggled>>

\* UpdateNotificationPreferences, passed on, with one flag changed.
ChangeFlag(d, f) ==
  /\ pc[d] = "idle"
  /\ stored' = [stored EXCEPT ![f] = ~@]
  /\ intended' = [intended EXCEPT ![f] = stored'[f]]
  /\ outdated' = outdated \cup Writing
  /\ UNCHANGED <<screen, pc, toggled, base>>

PreferencesNext == \E d \in Devices :
  \/ GetUserProfile(d)
  \/ GetUserProfileWithout(d)
  \/ \E s \in Switches : Toggle(d, s)
  \/ ReadCurrent(d)
  \/ ReadCurrentFails(d)
  \/ Write(d)
  \/ WriteFails(d)
  \/ WriteLost(d)
  \/ \E f \in Flags : ChangeFlag(d, f)

PreferencesSpec == PreferencesInit /\ [][PreferencesNext]_preferencesVars

-----------------------------------------------------------------------------
\* Every variable has its type.
PreferencesTypeOK ==
  /\ stored \in [Entries -> BOOLEAN]
  /\ intended \in [Entries -> BOOLEAN]
  /\ screen \in [Devices -> [Switches -> BOOLEAN] \cup {NotLoaded}]
  /\ pc \in [Devices -> {"idle", "reading", "writing"}]
  /\ toggled \in [Devices -> Switches]
  /\ base \in [Devices -> [Entries -> BOOLEAN]]
  /\ outdated \in SUBSET Devices

\* A flag is as the user has set it until a write undoes it whose own read
\* failed, or which another write or change has overtaken since that read;
\* stale screens and lost answers undo none (user_proxy.go:215-231).
OnlyOutdatedWritesClobber ==
  [][\A f \in Flags : stored[f] = intended[f] /\ stored'[f] # intended'[f] =>
       \E d \in outdated : pc[d] = "writing" /\ pc'[d] = "idle"]_preferencesVars

\* "We don't clobber the granular per-type flags" (user_proxy.go:215-217):
\* whatever switches are set, the flags stay as the user set them.
FlagsAreIntended == \A f \in Flags : stored[f] = intended[f]

-----------------------------------------------------------------------------
(* The inductive invariant, proved in PreferencesProofs.                   *)

\* A request is made from a screen that shows a profile, and a record about
\* to be written back has the flags as they are unless it is outdated.
PreferencesInv ==
  /\ PreferencesTypeOK
  /\ \A d \in Devices : pc[d] # "idle" => screen[d] # NotLoaded
  /\ \A d \in Devices : pc[d] = "writing" /\ d \notin outdated =>
       \A f \in Flags : base[d][f] = stored[f]

=============================================================================
