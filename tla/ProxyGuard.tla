---------------------------- MODULE ProxyGuard ----------------------------
(***************************************************************************)
(* SystemStateGuard: PCE points the host's system proxy at itself and must *)
(* put the user's setting back, also after a crash, from the snapshot it   *)
(* keeps on disk.  The guard's operations hold one lock; a step ends where *)
(* the outside world changes: the file, the operating system's proxy slot. *)
(* Between two steps the process may crash, and a signal handler, which    *)
(* the reentrant lock lets in, may restore and then end the process.       *)
(*                                                                         *)
(* A setting is a host and port the guard can record, or Off; the bypass   *)
(* list that goes with it is not modelled.                                 *)
(***************************************************************************)

CONSTANTS
    UserSettings, \* proxies the user, or another tool, may configure
    Off,          \* no system proxy
    Pce,          \* the slot points at PCE's own proxy
    Modes         \* how PCE is started: "panel" recovers and traps signals, "tray" does not

Settings == UserSettings \cup {Off}

ASSUME GuardAssumption ==
    /\ Off \notin UserSettings
    /\ Pce \notin Settings
    /\ Modes \subseteq {"panel", "tray"}

VARIABLES
    slot,      \* the operating system's proxy setting
    process,   \* whether PCE runs, and how it was started
    stage,        \* where the guard's operation stands
    ending,    \* how the process ends once the running restore is through
    held,      \* _snapshot: absent, or pce_owns_proxy
    snap,      \* _snapshot.proxy
    file,      \* system_state.json: absent, torn, or its pce_owns_proxy
    fileSnap,  \* its proxy
    found,     \* history: the setting PCE found when it had no snapshot
    causes     \* history: what happened that the guard does not survive

guardVars == <<slot, process, stage, ending, held, snap, file, fileSnap, found, causes>>

Stages == {"idle", "saving", "enabling", "claiming", "disowning",
           "restoring", "applying", "deleting", "netting"}
Slots  == Settings \cup {Pce}

GuardTypeOK ==
    /\ slot \in Slots
    /\ process \in {"dead"} \cup Modes
    /\ stage \in Stages
    /\ ending \in {"no", "quit", "emergency"}
    /\ held \in {"none", "unowned", "owned"}
    /\ snap \in Slots
    /\ file \in {"none", "torn", "unowned", "owned"}
    /\ fileSnap \in Slots
    /\ found \in Settings
    /\ causes \subseteq {"io", "race", "window", "tray", "emergency"}

GuardInit ==
    /\ slot \in Settings
    /\ process = "dead" /\ stage = "idle" /\ ending = "no"
    /\ held = "none" /\ snap = Off
    /\ file = "none" /\ fileSnap = Off
    /\ found = slot
    /\ causes = {}

---------------------------------------------------------------------------
(* Helpers                                                                 *)

Up == process # "dead"
Idle == Up /\ stage = "idle" /\ ending = "no"

Because(c) == causes' = causes \cup {c}

\* from_path finds a snapshot it can parse.
Readable == file \in {"unowned", "owned"}

Forget == held' = "none" /\ snap' = Off

\* The process is gone, and what it held in memory with it.
Die == process' = "dead" /\ stage' = "idle" /\ ending' = "no" /\ Forget

\* An operation is over: the process goes on, or ends as it was asked to.
Conclude ==
    \/ ending = "no" /\ stage' = "idle" /\ Forget /\ UNCHANGED <<process, ending>>
    \/ ending = "quit" /\ Die
    \/ ending = "emergency" /\ stage' = "netting" /\ Forget /\ UNCHANGED <<process, ending>>

---------------------------------------------------------------------------
(* Start, and recover_from_crash                                           *)

StartUnrecovered ==
    /\ process = "dead" /\ "panel" \in Modes
    /\ process' = "panel"
    /\ UNCHANGED <<slot, stage, ending, held, snap, file, fileSnap, found, causes>>

StartPanel ==
    /\ process = "dead" /\ "panel" \in Modes
    /\ process' = "panel"
    /\ IF Readable THEN held' = file /\ snap' = fileSnap /\ stage' = "restoring"
                   ELSE UNCHANGED <<held, snap, stage>>
    /\ UNCHANGED <<slot, ending, file, fileSnap, found, causes>>

\* The legacy tray never looks for a snapshot an earlier run left.
StartTray ==
    /\ process = "dead" /\ "tray" \in Modes
    /\ process' = "tray"
    /\ IF file = "none" THEN UNCHANGED causes ELSE Because("tray")
    /\ UNCHANGED <<slot, stage, ending, held, snap, file, fileSnap, found>>

---------------------------------------------------------------------------
(* take_over_proxy                                                         *)

\* Already owned and not drifted: nothing to do.
MustTakeOver == ~(held = "owned" /\ slot = Pce)

\* A snapshot is taken only when there is none; a read that fails looks like
\* a proxy that is off.
TakeOverAfresh ==
    /\ Idle /\ MustTakeOver
    /\ held' = "unowned" /\ snap' = slot /\ stage' = "saving"
    /\ UNCHANGED <<slot, process, ending, file, fileSnap, found, causes>>

TakeOver ==
    /\ Idle /\ MustTakeOver
    /\ \/ /\ held = "none"
          /\ \/ snap' = slot /\ UNCHANGED causes
             \/ snap' = Off /\ Because("io")
          /\ held' = "unowned" /\ stage' = "saving"
       \/ /\ held # "none"
          /\ stage' = "enabling"
          /\ UNCHANGED <<held, snap, causes>>
    /\ UNCHANGED <<slot, process, ending, file, fileSnap, found>>

\* to_path; an OSError is only logged.
Save ==
    /\ stage = "saving"
    /\ \/ file' = held /\ fileSnap' = snap /\ UNCHANGED causes
       \/ UNCHANGED <<file, fileSnap>> /\ Because("io")
    /\ stage' = "enabling"
    /\ UNCHANGED <<slot, process, ending, held, snap, found>>

Enable ==
    /\ stage = "enabling"
    /\ slot' = Pce
    /\ stage' = "claiming"
    /\ UNCHANGED <<process, ending, held, snap, file, fileSnap, found, causes>>

\* enable_system_proxy reports failure, perhaps after part of its commands.
EnableFails ==
    /\ stage = "enabling"
    /\ slot' \in {slot, Pce}
    /\ Because("io")
    /\ stage' = "disowning"
    /\ UNCHANGED <<process, ending, held, snap, file, fileSnap, found>>

\* pce_owns_proxy = ok, persisted again.
ClaimInMemory ==
    /\ stage \in {"claiming", "disowning"}
    /\ held' = IF stage = "claiming" THEN "owned" ELSE "unowned"
    /\ stage' = "idle"
    /\ UNCHANGED <<slot, process, ending, snap, file, fileSnap, found, causes>>

Claim ==
    /\ stage \in {"claiming", "disowning"}
    /\ held' = IF stage = "claiming" THEN "owned" ELSE "unowned"
    /\ \/ file' = held' /\ fileSnap' = snap /\ UNCHANGED causes
       \/ UNCHANGED <<file, fileSnap>> /\ Because("io")
    /\ stage' = "idle"
    /\ UNCHANGED <<slot, process, ending, snap, found>>

---------------------------------------------------------------------------
(* restore, and who calls it                                               *)

\* stop_service hands the slot back while PCE goes on.
StopProxy ==
    /\ Idle
    /\ stage' = "restoring"
    /\ UNCHANGED <<slot, process, ending, held, snap, file, fileSnap, found, causes>>

Quit ==
    /\ Idle
    /\ stage' = "restoring" /\ ending' = "quit"
    /\ UNCHANGED <<slot, process, held, snap, file, fileSnap, found, causes>>

\* The tray's emergency entry restores, then disables as a last safety net.
Emergency ==
    /\ Idle
    /\ stage' = "restoring" /\ ending' = "emergency"
    /\ Because("emergency")
    /\ UNCHANGED <<slot, process, held, snap, file, fileSnap, found>>

\* SIGINT or SIGTERM: the handler interrupts whatever the guard is doing,
\* restores, and ends the process; the interrupted operation never resumes.
Signal ==
    /\ process = "panel" /\ ending = "no"
    /\ stage' = "restoring" /\ ending' = "quit"
    /\ IF stage = "claiming" THEN Because("window") ELSE UNCHANGED causes
    /\ UNCHANGED <<slot, process, held, snap, file, fileSnap, found>>

RestoreFromDisk ==
    /\ stage = "restoring" /\ held = "none" /\ Readable
    /\ held' = file /\ snap' = fileSnap
    /\ UNCHANGED <<slot, process, stage, ending, file, fileSnap, found, causes>>

RestoreNothing ==
    /\ stage = "restoring" /\ held = "none" /\ ~Readable
    /\ Conclude
    /\ UNCHANGED <<slot, file, fileSnap, found, causes>>

RestoreBegin ==
    /\ stage = "restoring" /\ held # "none"
    /\ stage' = IF held = "owned" THEN "applying" ELSE "deleting"
    /\ UNCHANGED <<slot, process, ending, held, snap, file, fileSnap, found, causes>>

\* The outcome of enable_system_proxy or disable_system_proxy is not looked at.
RevertedOff == Off
Reverted == snap

Apply ==
    /\ stage = "applying"
    /\ \/ slot' = Reverted /\ UNCHANGED causes
       \/ UNCHANGED slot /\ Because("io")
    /\ stage' = "deleting"
    /\ UNCHANGED <<process, ending, held, snap, file, fileSnap, found>>

\* An OSError of unlink is only logged.
Delete ==
    /\ stage = "deleting"
    /\ \/ file' = "none" /\ fileSnap' = Off /\ UNCHANGED causes
       \/ UNCHANGED <<file, fileSnap>> /\ Because("io")
    /\ Conclude
    /\ UNCHANGED <<slot, found>>

SafetyNet ==
    /\ stage = "netting"
    /\ slot' = Off
    /\ Die
    /\ UNCHANGED <<file, fileSnap, found, causes>>

---------------------------------------------------------------------------
(* Surroundings                                                            *)

\* Killed or crashed: only the slot and the file remain, and a file that was
\* being written is torn.  Dying between enabling and claiming is the window
\* in which the file does not say that PCE owns the slot.
Crash ==
    /\ Up
    /\ Die
    /\ \/ UNCHANGED <<file, fileSnap>>
       \/ stage \in {"saving", "claiming", "disowning"} /\ file' = "torn" /\ fileSnap' = Off
    /\ causes' = causes \cup (IF stage = "claiming" THEN {"window"} ELSE {})
                        \cup (IF file' = "torn" THEN {"io"} ELSE {})
    /\ UNCHANGED <<slot, found>>

\* The user or another tool changes the slot, under PCE's hands or not.  A
\* change between the snapshot and the take-over, or between the revert and
\* the deletion, falls into a gap the guard cannot see.
UserChange ==
    /\ \E s \in Settings \ {slot} :
          /\ slot' = s
          /\ found' = IF held = "none" /\ file = "none" THEN s ELSE found
    /\ IF "unowned" \in {held, file} \/ stage = "deleting" THEN Because("race") ELSE UNCHANGED causes
    /\ UNCHANGED <<process, stage, ending, held, snap, file, fileSnap>>

---------------------------------------------------------------------------

GuardStep ==
    \/ Save \/ Enable \/ EnableFails \/ Claim
    \/ RestoreFromDisk \/ RestoreNothing \/ RestoreBegin \/ Apply \/ Delete \/ SafetyNet

GuardNext ==
    \/ StartPanel \/ StartTray
    \/ TakeOver \/ StopProxy \/ Quit \/ Emergency \/ Signal
    \/ GuardStep
    \/ Crash \/ UserChange

\* An operation that began goes on; the user opens the panel again some day.
GuardFairness == WF_guardVars(GuardStep) /\ WF_guardVars(StartPanel)

GuardSpec == GuardInit /\ [][GuardNext]_guardVars
GuardFairSpec == GuardSpec /\ GuardFairness

---------------------------------------------------------------------------
(* Properties.  causes names what the guard does not survive: a failing    *)
(* file or proxy operation, a user's change in a gap, the end of the       *)
(* process inside the window, the legacy tray started over a left-over     *)
(* snapshot, and the emergency entry.                                      *)

\* PCE never takes its own setting for the user's, in memory or on disk:
\* not when Start is clicked twice, not when it re-applies a drifted slot,
\* not when it starts over what a crash left.
SnapshotIsTheUsers ==
    causes = {} =>
        /\ held # "none" => snap = found
        /\ file \in {"unowned", "owned"} => fileSnap = found

\* Whenever the slot points at PCE and no operation is under way, the disk
\* has what it takes to undo that: the user's setting, marked as owned.  So
\* whatever kills the process there, the next start can revert.
AlwaysRevertible ==
    causes = {} /\ slot = Pce /\ stage = "idle" => file = "owned" /\ fileSnap = found

\* Once PCE holds nothing, in memory or on disk, the slot is as it was found.
SlotGivenBack ==
    causes = {} /\ held = "none" /\ file = "none" /\ stage = "idle" => slot = found

\* A slot that a dead PCE left pointing at itself is reverted by the run that
\* follows, provided PCE does not die again and again.
DeadProxyReverted ==
    <>[]Up => (process = "dead" /\ slot = Pce /\ causes = {} ~> slot # Pce \/ causes # {})

\* "we must put it back to exactly the pre-PCE state ... regardless of how the
\* exit happens": with every file and proxy operation succeeding, the snapshot
\* is thrown away only when the slot does not point at PCE any more.
SnapshotOutlivesTakeOver ==
    [][file # "none" /\ file' = "none" /\ "io" \notin causes' => slot # Pce]_guardVars

===========================================================================
