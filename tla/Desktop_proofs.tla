---------------------------- MODULE Desktop_proofs ----------------------------
(***************************************************************************)
(* The two keepers of the desktop, for every set of processes and every    *)
(* policy, and for every user's setting and every way PCE is started.      *)
(*                                                                         *)
(* Of the supervisor, SupInv is the inductive invariant.  It says what     *)
(* each label of a task implies about its child, that _processes is exact, *)
(* that stop_all still terminates what was running when it began, and what *)
(* the spawn counter of a limited process is at each label.                *)
(*                                                                         *)
(* Of the guard, as long as none of the causes it does not survive has     *)
(* happened, memory, disk and slot agree at every label (Consistent): a    *)
(* snapshot is the user's setting, an owned snapshot in memory is owned on *)
(* disk, and a slot no snapshot owns has the user's setting.               *)
(***************************************************************************)
EXTENDS ProcSupervisor, ProxyGuard, TLAPS

---------------------------------------------------------------------------
(* The supervisor                                                          *)

\* A task runs from start_all to the end of stop_all.
Phases ==
    \A p \in Procs :
        /\ life = "new" => pc[p] = "absent"
        /\ life # "new" => pc[p] # "absent"
        /\ life = "stopped" => pc[p] = "done"

\* Only a task that awaits its child has a live one.
Owned ==
    \A p \in Procs :
        /\ pc[p] = "waiting" => child[p] # "none"
        /\ child[p] = "alive" => pc[p] = "waiting" \/ life = "stopped"

\* After stop_all began, a live child is being terminated or came late.
Doomed ==
    \A p \in Procs :
        /\ StopRequested /\ pc[p] = "spawning" => p \in late
        /\ StopRequested /\ child[p] = "alive" =>
              p \in late \/ (life = "terminating" /\ <<"stop_all", p>> \in term)

\* A child was spawned for the first run and once more per restart.
Paid ==
    \A p \in Limited :
        /\ restarts[p] <= MaxRestarts[p]
        /\ spawns[p] <= restarts[p] + 1
        /\ pc[p] \in {"absent", "top", "spawning", "respawning"} => spawns[p] <= restarts[p]
        /\ pc[p] = "sleeping" => restarts[p] < MaxRestarts[p]

\* A final status goes with a task that has ended, and left no child.
Settled ==
    \A p \in Procs : status[p] \in {"stopped", "failed", "disabled"} =>
                        pc[p] = "done" /\ child[p] # "alive"

SupInv == TypeOK /\ Phases /\ RegistryIsExact /\ Owned /\ Doomed /\ Paid /\ Settled

\* SupInv is inductive: it holds initially and every step of the supervisor,
\* its children and its callers preserves it.
LEMMA SupInvInductive == Spec => []SupInv
<1>1. Init => SupInv
  BY SupervisorAssumption
  DEF SupervisorAssumption, Init, SupInv, TypeOK, Phases, RegistryIsExact, Owned, Doomed, Paid,
      Settled, StopRequested, Lives, Labels, States, Children, Callers
<1>2. SupInv /\ [Next]_vars => SupInv'
  <2> SUFFICES ASSUME SupInv, [Next]_vars
               PROVE  SupInv'
    OBVIOUS
  <2>a. TypeOK /\ Phases /\ RegistryIsExact /\ Owned /\ Doomed /\ Paid /\ Settled
    BY DEF SupInv
  <2>1. CASE StartAll
    <3>1. TypeOK'
      BY <2>a, <2>1 DEF TypeOK, Lives, Labels, StartAll
    <3>2. Phases'
      BY <2>a, <2>1 DEF Phases, StartAll
    <3>3. RegistryIsExact'
      BY <2>a, <2>1 DEF RegistryIsExact, Phases, StartAll
    <3>4. Owned'
      BY <2>a, <2>1 DEF Owned, Phases, StartAll
    <3>5. Doomed'
      BY <2>a, <2>1 DEF Doomed, StopRequested, StartAll
    <3>6. Paid'
      BY <2>a, <2>1, SupervisorAssumption DEF SupervisorAssumption, Paid, Phases, StartAll
    <3>7. Settled'
      BY <2>a, <2>1 DEF Settled, Phases, StartAll
    <3> QED
      BY <3>1, <3>2, <3>3, <3>4, <3>5, <3>6, <3>7 DEF SupInv
  <2>2. CASE StopAll
    <3>1. TypeOK'
      BY <2>a, <2>2 DEF TypeOK, Lives, Callers, StopAll
    <3>2. Phases'
      BY <2>a, <2>2 DEF Phases, StopAll
    <3>3. Owned'
      BY <2>a, <2>2 DEF Owned, StopAll
    <3>4. Doomed'
      BY <2>a, <2>2 DEF Doomed, Owned, RegistryIsExact, StopAll
    <3>5. RegistryIsExact' /\ Paid' /\ Settled'
      BY <2>a, <2>2 DEF RegistryIsExact, Paid, Settled, StopAll
    <3> QED
      BY <3>1, <3>2, <3>3, <3>4, <3>5 DEF SupInv
  <2>3. CASE StopTerminated
    <3>1. TypeOK'
      BY <2>a, <2>3 DEF TypeOK, Lives, StopTerminated
    <3>2. Phases'
      BY <2>a, <2>3 DEF Phases, StopTerminated
    <3>3. Owned'
      BY <2>a, <2>3 DEF Owned, StopTerminated
    <3>4. Doomed'
      BY <2>a, <2>3 DEF Doomed, StopRequested, StopTerminated
    <3>5. RegistryIsExact' /\ Paid' /\ Settled'
      BY <2>a, <2>3 DEF RegistryIsExact, Paid, Settled, StopTerminated
    <3> QED
      BY <3>1, <3>2, <3>3, <3>4, <3>5 DEF SupInv
  <2>4. CASE StopJoined
    <3>1. TypeOK'
      BY <2>a, <2>4 DEF TypeOK, Lives, StopJoined
    <3>2. Phases'
      BY <2>a, <2>4 DEF Phases, StopJoined
    <3>3. RegistryIsExact'
      BY <2>a, <2>4 DEF RegistryIsExact, StopJoined
    <3>4. Owned'
      BY <2>a, <2>4 DEF Owned, StopJoined
    <3>5. Doomed'
      BY <2>a, <2>4 DEF Doomed, StopRequested, StopJoined
    <3>6. Paid' /\ Settled'
      BY <2>a, <2>4 DEF Paid, Settled, StopJoined
    <3> QED
      BY <3>1, <3>2, <3>3, <3>4, <3>5, <3>6 DEF SupInv
  <2>5. CASE StopTimesOut
    <3>1. TypeOK'
      BY <2>a, <2>5 DEF TypeOK, Lives, Labels, StopTimesOut
    <3>2. Phases'
      BY <2>a, <2>5 DEF Phases, StopTimesOut, StopRequested
    <3>3. RegistryIsExact'
      BY <2>a, <2>5 DEF RegistryIsExact, StopTimesOut
    <3>4. Owned'
      BY <2>a, <2>5 DEF Owned, StopTimesOut
    <3>5. Doomed'
      BY <2>a, <2>5 DEF Doomed, StopRequested, StopTimesOut
    <3>6. Paid'
      BY <2>a, <2>5, SupervisorAssumption DEF SupervisorAssumption, Paid, StopTimesOut
    <3>7. Settled'
      BY <2>a, <2>5 DEF Settled, StopTimesOut
    <3> QED
      BY <3>1, <3>2, <3>3, <3>4, <3>5, <3>6, <3>7 DEF SupInv
  <2>6. ASSUME NEW p \in Procs, LoopHead(p) PROVE SupInv'
    <3>1. TypeOK'
      BY <2>a, <2>6 DEF TypeOK, Labels, LoopHead, Goto
    <3>2. Phases'
      BY <2>a, <2>6 DEF Phases, LoopHead, Goto
    <3>3. RegistryIsExact'
      BY <2>a, <2>6 DEF RegistryIsExact, LoopHead, Goto
    <3>4. Owned'
      BY <2>a, <2>6 DEF Owned, LoopHead, Goto
    <3>5. Doomed'
      BY <2>a, <2>6 DEF TypeOK, Doomed, StopRequested, LoopHead, Goto
    <3>6. Paid'
      BY <2>a, <2>6 DEF Paid, LoopHead, Goto
    <3>7. Settled'
      BY <2>a, <2>6 DEF Settled, LoopHead, Goto
    <3> QED
      BY <3>1, <3>2, <3>3, <3>4, <3>5, <3>6, <3>7 DEF SupInv
  <2>7. ASSUME NEW p \in Procs, SpawnMissing(p) PROVE SupInv'
    <3>1. TypeOK'
      BY <2>a, <2>7 DEF TypeOK, Labels, States, SpawnMissing, Goto, Becomes
    <3>2. Phases'
      BY <2>a, <2>7 DEF Phases, SpawnMissing, Goto
    <3>3. RegistryIsExact'
      BY <2>a, <2>7 DEF RegistryIsExact, SpawnMissing, Goto
    <3>4. Owned'
      BY <2>a, <2>7 DEF Owned, SpawnMissing, Goto
    <3>5. Doomed'
      BY <2>a, <2>7 DEF TypeOK, Doomed, StopRequested, SpawnMissing, Goto
    <3>6. Paid'
      BY <2>a, <2>7 DEF Paid, SpawnMissing, Goto
    <3>7. Settled'
      BY <2>a, <2>7 DEF TypeOK, Settled, Owned, Phases, SpawnMissing, Goto, Becomes
    <3> QED
      BY <3>1, <3>2, <3>3, <3>4, <3>5, <3>6, <3>7 DEF SupInv
  <2>8. ASSUME NEW p \in Procs, SpawnFails(p) PROVE SupInv'
    <3>1. TypeOK'
      BY <2>a, <2>8 DEF TypeOK, Labels, States, SpawnFails, Goto, Becomes
    <3>2. Phases'
      BY <2>a, <2>8 DEF Phases, SpawnFails, Goto
    <3>3. RegistryIsExact'
      BY <2>a, <2>8 DEF RegistryIsExact, SpawnFails, Goto
    <3>4. Owned'
      BY <2>a, <2>8 DEF Owned, SpawnFails, Goto
    <3>5. Doomed'
      BY <2>a, <2>8 DEF TypeOK, Doomed, StopRequested, SpawnFails, Goto
    <3>6. Paid'
      BY <2>a, <2>8 DEF Paid, SpawnFails, Goto
    <3>7. Settled'
      BY <2>a, <2>8 DEF Settled, SpawnFails, Goto, Becomes
    <3> QED
      BY <3>1, <3>2, <3>3, <3>4, <3>5, <3>6, <3>7 DEF SupInv
  <2>9. ASSUME NEW p \in Procs, Spawned(p) PROVE SupInv'
    <3>1. TypeOK'
      BY <2>a, <2>9 DEF TypeOK, Labels, States, Children, Spawned, Goto, Becomes
    <3>2. Phases'
      BY <2>a, <2>9 DEF Phases, Spawned, Goto
    <3>3. RegistryIsExact'
      BY <2>a, <2>9 DEF TypeOK, RegistryIsExact, Spawned, Goto
    <3>4. Owned'
      BY <2>a, <2>9 DEF TypeOK, Owned, Spawned, Goto
    <3>5. Doomed'
      BY <2>a, <2>9 DEF TypeOK, Doomed, StopRequested, Spawned, Goto
    <3>6. Paid'
      BY <2>a, <2>9 DEF TypeOK, Paid, Spawned, Goto
    <3>7. Settled'
      BY <2>a, <2>9 DEF Settled, Spawned, Goto, Becomes
    <3> QED
      BY <3>1, <3>2, <3>3, <3>4, <3>5, <3>6, <3>7 DEF SupInv
  <2>10. ASSUME NEW p \in Procs, Reap(p) PROVE SupInv'
    <3>1. TypeOK'
      BY <2>a, <2>10, SupervisorAssumption
      DEF SupervisorAssumption, TypeOK, Labels, States, Reap, Goto, Becomes, Unregistered
    <3>2. Phases'
      BY <2>a, <2>10 DEF TypeOK, Phases, Reap, Goto
    <3>3. RegistryIsExact'
      BY <2>a, <2>10 DEF TypeOK, RegistryIsExact, Reap, Goto, Unregistered
    <3>4. Owned'
      BY <2>a, <2>10 DEF TypeOK, Owned, Reap, Goto, Exited
    <3>5. Doomed'
      BY <2>a, <2>10 DEF TypeOK, Doomed, StopRequested, Reap, Goto
    <3>6. Paid'
      BY <2>a, <2>10, SupervisorAssumption
      DEF SupervisorAssumption, TypeOK, Paid, Reap, Goto, LimitHit
    <3>7. Settled'
      BY <2>a, <2>10 DEF TypeOK, Settled, Reap, Goto, Becomes, Exited
    <3> QED
      BY <3>1, <3>2, <3>3, <3>4, <3>5, <3>6, <3>7 DEF SupInv
  <2>11. ASSUME NEW p \in Procs, WakeStopped(p) PROVE SupInv'
    <3>1. TypeOK'
      BY <2>a, <2>11 DEF TypeOK, Labels, States, WakeStopped, Goto, Becomes
    <3>2. Phases'
      BY <2>a, <2>11 DEF Phases, WakeStopped, Goto
    <3>3. RegistryIsExact'
      BY <2>a, <2>11 DEF RegistryIsExact, WakeStopped, Goto
    <3>4. Owned'
      BY <2>a, <2>11 DEF Owned, WakeStopped, Goto
    <3>5. Doomed'
      BY <2>a, <2>11 DEF TypeOK, Doomed, WakeStopped, Goto
    <3>6. Paid'
      BY <2>a, <2>11 DEF Paid, WakeStopped, Goto
    <3>7. Settled'
      BY <2>a, <2>11 DEF TypeOK, Settled, Owned, Phases, WakeStopped, Goto, Becomes
    <3> QED
      BY <3>1, <3>2, <3>3, <3>4, <3>5, <3>6, <3>7 DEF SupInv
  <2>12. ASSUME NEW p \in Procs, WakeElapsed(p) PROVE SupInv'
    <3>1. TypeOK'
      BY <2>a, <2>12, SupervisorAssumption
      DEF SupervisorAssumption, TypeOK, Labels, WakeElapsed, Goto, Counted, Doubled
    <3>2. Phases'
      BY <2>a, <2>12 DEF Phases, WakeElapsed, Goto
    <3>3. RegistryIsExact'
      BY <2>a, <2>12 DEF RegistryIsExact, WakeElapsed, Goto
    <3>4. Owned'
      BY <2>a, <2>12 DEF Owned, RegistryIsExact, WakeElapsed, Goto
    <3>5. Doomed'
      BY <2>a, <2>12 DEF TypeOK, Doomed, StopRequested, WakeElapsed, Goto
    <3>6. Paid'
      <4> SUFFICES ASSUME NEW q \in Limited
                   PROVE  /\ restarts'[q] <= MaxRestarts[q]
                          /\ spawns'[q] <= restarts'[q] + 1
                          /\ pc'[q] \in {"absent", "top", "spawning", "respawning"} =>
                                spawns'[q] <= restarts'[q]
                          /\ pc'[q] = "sleeping" => restarts'[q] < MaxRestarts[q]
        BY DEF Paid
      <4>a. q \in Procs /\ MaxRestarts[q] \in 0 .. RestartCap /\ RestartCap \in Nat
        BY SupervisorAssumption DEF SupervisorAssumption
      <4>1. CASE q # p
        BY <2>a, <2>12, <4>1, <4>a DEF TypeOK, Paid, WakeElapsed, Goto
      <4>2. CASE q = p /\ pc[p] = "respawning"
        BY <2>a, <2>12, <4>2, <4>a DEF TypeOK, Paid, WakeElapsed, Goto
      <4>3. CASE q = p /\ pc[p] = "sleeping"
        BY <2>a, <2>12, <4>3, <4>a DEF TypeOK, Paid, WakeElapsed, Goto, Counted
      <4> QED
        BY <2>12, <4>1, <4>2, <4>3 DEF WakeElapsed
    <3>7. Settled'
      BY <2>a, <2>12 DEF Settled, WakeElapsed, Goto
    <3> QED
      BY <3>1, <3>2, <3>3, <3>4, <3>5, <3>6, <3>7 DEF SupInv
  <2>13. ASSUME NEW p \in Procs, Exit(p) PROVE SupInv'
    <3>1. TypeOK'
      BY <2>a, <2>13 DEF TypeOK, Children, Exit
    <3>2. Owned'
      BY <2>a, <2>13 DEF Owned, Exit
    <3>3. Doomed'
      BY <2>a, <2>13 DEF TypeOK, Doomed, StopRequested, Exit
    <3>4. Phases' /\ RegistryIsExact' /\ Paid' /\ Settled'
      BY <2>a, <2>13 DEF Phases, RegistryIsExact, Paid, Settled, Exit
    <3> QED
      BY <3>1, <3>2, <3>3, <3>4 DEF SupInv
  <2>14. ASSUME NEW p \in Procs, Restart(p) PROVE SupInv'
    <3>1. TypeOK'
      BY <2>a, <2>14 DEF TypeOK, Callers, Restart
    <3>2. Doomed'
      BY <2>a, <2>14 DEF Doomed, StopRequested, Restart
    <3>3. Phases' /\ RegistryIsExact' /\ Owned' /\ Paid' /\ Settled'
      BY <2>a, <2>14 DEF Phases, RegistryIsExact, Owned, Paid, Settled, Restart
    <3> QED
      BY <3>1, <3>2, <3>3 DEF SupInv
  <2>15. ASSUME NEW p \in Procs, NEW a \in Callers, TerminateTimesOut(a, p) PROVE SupInv'
    <3>1. TypeOK'
      BY <2>a, <2>15 DEF TypeOK, TerminateTimesOut
    <3>2. Phases' /\ RegistryIsExact' /\ Owned' /\ Doomed' /\ Paid' /\ Settled'
      BY <2>a, <2>15
      DEF Phases, RegistryIsExact, Owned, Doomed, Paid, Settled, StopRequested,
          TerminateTimesOut
    <3> QED
      BY <3>1, <3>2 DEF SupInv
  <2>16. CASE UNCHANGED vars
    BY <2>a, <2>16
    DEF SupInv, vars, TypeOK, Phases, RegistryIsExact, Owned, Doomed, Paid, Settled, StopRequested
  <2> QED
    BY <2>1, <2>2, <2>3, <2>4, <2>5, <2>6, <2>7, <2>8, <2>9, <2>10, <2>11, <2>12, <2>13,
       <2>14, <2>15, <2>16
    DEF Next, RunOne, Finish
<1> QED
  BY <1>1, <1>2, PTL DEF Spec

---------------------------------------------------------------------------
(* What follows from SupInv                                                *)

\* Every variable keeps its type.
THEOREM SupervisorTypes == Spec => []TypeOK
<1>1. SupInv => TypeOK
  BY DEF SupInv
<1> QED
  BY <1>1, SupInvInductive, PTL

\* _processes holds exactly the children some task awaits, also while stop_all
\* and restart terminate some of them.
THEOREM RegistryStaysExact == Spec => []RegistryIsExact
<1>1. SupInv => RegistryIsExact
  BY DEF SupInv
<1> QED
  BY <1>1, SupInvInductive, PTL

\* Only a child whose spawn was in flight when stop_all began outlives it.
THEOREM StopLeavesOnlyLateSpawns == Spec => []OnlyLateSpawnsSurvive
<1>1. SupInv => OnlyLateSpawnsSurvive
  BY DEF SupInv, Doomed, StopRequested, OnlyLateSpawnsSurvive
<1> QED
  BY <1>1, SupInvInductive, PTL

\* max_restarts bounds the children spawned, whatever order exits, failing
\* spawns, restarts and backoffs come in.
THEOREM SpawnsStayWithinLimit == Spec => []SpawnsWithinLimit
<1>1. SupInv => SpawnsWithinLimit
  <2> SUFFICES ASSUME SupInv, NEW p \in Limited
               PROVE  spawns[p] <= MaxRestarts[p] + 1
    BY DEF SpawnsWithinLimit
  <2>1. p \in Procs /\ MaxRestarts[p] \in Nat
    BY SupervisorAssumption DEF SupervisorAssumption
  <2>2. restarts[p] \in Nat /\ spawns[p] \in Nat
    BY <2>1, SupervisorAssumption DEF SupervisorAssumption, SupInv, TypeOK
  <2> QED
    BY <2>1, <2>2 DEF SupInv, Paid
<1> QED
  BY <1>1, SupInvInductive, PTL

\* Once stop_all has begun, no child appears but those in flight.
THEOREM NothingSpawnsAfterStop == Spec => NoSpawnAfterStop
<1>1. SupInv /\ [Next]_vars =>
        [\A p \in Procs :
            StopRequested /\ child[p] # "alive" /\ child'[p] = "alive" => p \in late]_vars
  <2> SUFFICES ASSUME SupInv, [Next]_vars, NEW p \in Procs,
                      StopRequested, child[p] # "alive", child'[p] = "alive"
               PROVE  p \in late
    OBVIOUS
  <2>1. PICK q \in Procs : Spawned(q) \/ Exit(q)
    BY DEF Next, RunOne, Finish, vars, StartAll, StopAll, StopTerminated, StopJoined, StopTimesOut,
           LoopHead, SpawnMissing, SpawnFails, Reap, WakeStopped, WakeElapsed, Restart,
           TerminateTimesOut
  <2>2. CASE Spawned(q)
    BY <2>2 DEF Spawned, SupInv, TypeOK, Doomed
  <2>3. CASE Exit(q)
    BY <2>3 DEF Exit, SupInv, TypeOK
  <2> QED
    BY <2>1, <2>2, <2>3
<1> QED
  BY <1>1, SupInvInductive, PTL DEF Spec, NoSpawnAfterStop

\* A status that says a process is over is never taken back, and no further
\* child of that process is spawned or exits.
THEOREM FinalStatusIsFinal == Spec => FinalStatusStays
<1>1. SupInv /\ [Next]_vars =>
        [\A p \in Procs :
            status[p] \in {"stopped", "failed", "disabled"} =>
                /\ status'[p] = status[p]
                /\ child'[p] = child[p]]_vars
  <2> SUFFICES ASSUME SupInv, [Next]_vars, NEW p \in Procs,
                      status[p] \in {"stopped", "failed", "disabled"}
               PROVE  status'[p] = status[p] /\ child'[p] = child[p]
    OBVIOUS
  <2>1. pc[p] = "done"
    BY DEF SupInv, Settled
  <2>2. ASSUME NEW q \in Procs, RunOne(q) PROVE status'[p] = status[p] /\ child'[p] = child[p]
    BY <2>1, <2>2
    DEF RunOne, LoopHead, SpawnMissing, SpawnFails, Spawned, Reap, WakeStopped, WakeElapsed,
        Becomes, SupInv, TypeOK
  <2>3. ASSUME NEW q \in Procs, Exit(q) PROVE status'[p] = status[p] /\ child'[p] = child[p]
    BY <2>3 DEF Exit, SupInv, TypeOK, Settled
  <2> QED
    BY <2>2, <2>3
    DEF Next, Finish, vars, StartAll, StopAll, StopTerminated, StopJoined, StopTimesOut, Restart,
        TerminateTimesOut
<1> QED
  BY <1>1, SupInvInductive, PTL DEF Spec, FinalStatusStays

---------------------------------------------------------------------------
(* The guard                                                               *)

\* What each label implies about the snapshot in memory.
AtLabel ==
    /\ stage = "saving" => held = "unowned"
    /\ stage \in {"enabling", "claiming", "deleting"} => held # "none"
    /\ stage = "applying" => held = "owned"
    /\ stage \notin {"disowning", "netting"}
    /\ ending # "emergency"
    /\ process = "dead" => held = "none" /\ stage = "idle"

Consistent ==
    /\ file # "torn"
    /\ held # "none" => snap = found
    /\ file # "none" => fileSnap = found
    /\ held = "owned" => file = "owned"
    /\ held = "unowned" => file # "owned"
    /\ Up /\ held = "none" => file = "none"
    /\ file # "owned" /\ stage # "claiming" => slot = found
    /\ stage = "deleting" => slot = found

GuardInv == GuardTypeOK /\ (causes = {} => AtLabel /\ Consistent)

\* Every step of the guard, of its callers and of the world around it
\* preserves the agreement.
LEMMA GuardInvariant == GuardSpec => []GuardInv
<1>1. GuardInit => GuardInv
  BY GuardAssumption
  DEF GuardAssumption, GuardInit, GuardInv, GuardTypeOK, AtLabel, Consistent, Stages, Slots, Settings, Up
<1>2. GuardInv /\ [GuardNext]_guardVars => GuardInv'
  <2> SUFFICES ASSUME GuardInv, [GuardNext]_guardVars
               PROVE  GuardInv'
    OBVIOUS
  <2>a. Modes \subseteq {"panel", "tray"} /\ Off \in Settings /\ Settings \subseteq Slots /\ Pce \in Slots
    BY GuardAssumption DEF GuardAssumption, Settings, Slots
  <2>1. CASE StartPanel
    <3>1. GuardTypeOK'
      BY <2>a, <2>1 DEF GuardInv, GuardTypeOK, Stages, StartPanel, Readable
    <3>2. causes' = {} => AtLabel' /\ Consistent'
      BY <2>a, <2>1 DEF GuardInv, GuardTypeOK, AtLabel, Consistent, Up, StartPanel, Readable
    <3> QED
      BY <3>1, <3>2 DEF GuardInv
  <2>2. CASE StartTray
    <3>1. GuardTypeOK'
      BY <2>a, <2>2 DEF GuardInv, GuardTypeOK, Stages, StartTray, Because
    <3>2. causes' = {} => AtLabel' /\ Consistent'
      BY <2>a, <2>2 DEF GuardInv, GuardTypeOK, AtLabel, Consistent, Up, StartTray, Because
    <3> QED
      BY <3>1, <3>2 DEF GuardInv
  <2>3. CASE TakeOver
    <3>1. GuardTypeOK'
      BY <2>a, <2>3 DEF GuardInv, GuardTypeOK, Stages, TakeOver, Idle, Up, Because
    <3>2. causes' = {} => AtLabel' /\ Consistent'
      BY <2>a, <2>3 DEF GuardInv, GuardTypeOK, AtLabel, Consistent, Up, TakeOver, Idle, MustTakeOver, Because
    <3> QED
      BY <3>1, <3>2 DEF GuardInv
  <2>4. CASE StopProxy
    <3>1. GuardTypeOK'
      BY <2>a, <2>4 DEF GuardInv, GuardTypeOK, Stages, StopProxy, Idle, Up
    <3>2. causes' = {} => AtLabel' /\ Consistent'
      BY <2>a, <2>4 DEF GuardInv, GuardTypeOK, AtLabel, Consistent, Up, StopProxy, Idle
    <3> QED
      BY <3>1, <3>2 DEF GuardInv
  <2>5. CASE Quit
    <3>1. GuardTypeOK'
      BY <2>a, <2>5 DEF GuardInv, GuardTypeOK, Stages, Quit, Idle, Up
    <3>2. causes' = {} => AtLabel' /\ Consistent'
      BY <2>a, <2>5 DEF GuardInv, GuardTypeOK, AtLabel, Consistent, Up, Quit, Idle
    <3> QED
      BY <3>1, <3>2 DEF GuardInv
  <2>6. CASE Emergency
    <3>1. GuardTypeOK'
      BY <2>a, <2>6 DEF GuardInv, GuardTypeOK, Stages, Emergency, Idle, Up, Because
    <3>2. causes' = {} => AtLabel' /\ Consistent'
      BY <2>a, <2>6 DEF GuardInv, GuardTypeOK, AtLabel, Consistent, Up, Emergency, Idle, Because
    <3> QED
      BY <3>1, <3>2 DEF GuardInv
  <2>7. CASE Signal
    <3>1. GuardTypeOK'
      BY <2>a, <2>7 DEF GuardInv, GuardTypeOK, Stages, Signal, Because
    <3>2. causes' = {} => AtLabel' /\ Consistent'
      BY <2>a, <2>7 DEF GuardInv, GuardTypeOK, AtLabel, Consistent, Up, Signal, Because
    <3> QED
      BY <3>1, <3>2 DEF GuardInv
  <2>8. CASE Save
    <3>1. GuardTypeOK'
      BY <2>a, <2>8 DEF GuardInv, GuardTypeOK, Stages, Save, Because
    <3>2. causes' = {} => AtLabel' /\ Consistent'
      BY <2>a, <2>8 DEF GuardInv, GuardTypeOK, AtLabel, Consistent, Up, Save, Because
    <3> QED
      BY <3>1, <3>2 DEF GuardInv
  <2>9. CASE Enable
    <3>1. GuardTypeOK'
      BY <2>a, <2>9 DEF GuardInv, GuardTypeOK, Stages, Enable
    <3>2. causes' = {} => AtLabel' /\ Consistent'
      BY <2>a, <2>9 DEF GuardInv, GuardTypeOK, AtLabel, Consistent, Up, Enable
    <3> QED
      BY <3>1, <3>2 DEF GuardInv
  <2>10. CASE EnableFails
    <3>1. GuardTypeOK'
      BY <2>a, <2>10 DEF GuardInv, GuardTypeOK, Stages, EnableFails, Because
    <3>2. causes' = {} => AtLabel' /\ Consistent'
      BY <2>a, <2>10 DEF GuardInv, GuardTypeOK, AtLabel, Consistent, Up, EnableFails, Because
    <3> QED
      BY <3>1, <3>2 DEF GuardInv
  <2>11. CASE Claim
    <3>1. GuardTypeOK'
      BY <2>a, <2>11 DEF GuardInv, GuardTypeOK, Stages, Claim, Because
    <3>2. causes' = {} => AtLabel' /\ Consistent'
      BY <2>a, <2>11 DEF GuardInv, GuardTypeOK, AtLabel, Consistent, Up, Claim, Because
    <3> QED
      BY <3>1, <3>2 DEF GuardInv
  <2>12. CASE RestoreFromDisk
    <3>1. GuardTypeOK'
      BY <2>a, <2>12 DEF GuardInv, GuardTypeOK, Stages, RestoreFromDisk, Readable
    <3>2. causes' = {} => AtLabel' /\ Consistent'
      BY <2>a, <2>12 DEF GuardInv, GuardTypeOK, AtLabel, Consistent, Up, RestoreFromDisk, Readable
    <3> QED
      BY <3>1, <3>2 DEF GuardInv
  <2>13. CASE RestoreNothing
    <3>1. GuardTypeOK'
      BY <2>a, <2>13 DEF GuardInv, GuardTypeOK, Stages, RestoreNothing, Readable, Conclude, Forget, Die
    <3>2. causes' = {} => AtLabel' /\ Consistent'
      BY <2>a, <2>13 DEF GuardInv, GuardTypeOK, AtLabel, Consistent, Up, RestoreNothing, Readable, Conclude, Forget, Die
    <3> QED
      BY <3>1, <3>2 DEF GuardInv
  <2>14. CASE RestoreBegin
    <3>1. GuardTypeOK'
      BY <2>a, <2>14 DEF GuardInv, GuardTypeOK, Stages, RestoreBegin
    <3>2. causes' = {} => AtLabel' /\ Consistent'
      BY <2>a, <2>14 DEF GuardInv, GuardTypeOK, AtLabel, Consistent, Up, RestoreBegin
    <3> QED
      BY <3>1, <3>2 DEF GuardInv
  <2>15. CASE Apply
    <3>1. GuardTypeOK'
      BY <2>a, <2>15 DEF GuardInv, GuardTypeOK, Stages, Apply, Reverted, Because
    <3>2. causes' = {} => AtLabel' /\ Consistent'
      BY <2>a, <2>15 DEF GuardInv, GuardTypeOK, AtLabel, Consistent, Up, Apply, Reverted, Because
    <3> QED
      BY <3>1, <3>2 DEF GuardInv
  <2>16. CASE Delete
    <3>1. GuardTypeOK'
      BY <2>a, <2>16 DEF GuardInv, GuardTypeOK, Stages, Delete, Because, Conclude, Forget, Die
    <3>2. causes' = {} => AtLabel' /\ Consistent'
      BY <2>a, <2>16 DEF GuardInv, GuardTypeOK, AtLabel, Consistent, Up, Delete, Because, Conclude, Forget, Die
    <3> QED
      BY <3>1, <3>2 DEF GuardInv
  <2>17. CASE SafetyNet
    <3>1. GuardTypeOK'
      BY <2>a, <2>17 DEF GuardInv, GuardTypeOK, Stages, SafetyNet, Die, Forget
    <3>2. causes' = {} => AtLabel' /\ Consistent'
      BY <2>a, <2>17 DEF GuardInv, GuardTypeOK, AtLabel, Consistent, Up, SafetyNet, Die, Forget
    <3> QED
      BY <3>1, <3>2 DEF GuardInv
  <2>18. CASE Crash
    <3>1. GuardTypeOK'
      BY <2>a, <2>18 DEF GuardInv, GuardTypeOK, Stages, Crash, Up, Die, Forget
    <3>2. causes' = {} => AtLabel' /\ Consistent'
      BY <2>a, <2>18 DEF GuardInv, GuardTypeOK, AtLabel, Consistent, Up, Crash, Die, Forget
    <3> QED
      BY <3>1, <3>2 DEF GuardInv
  <2>19. CASE UserChange
    <3>1. GuardTypeOK'
      BY <2>a, <2>19 DEF GuardInv, GuardTypeOK, Stages, UserChange, Because
    <3>2. causes' = {} => AtLabel' /\ Consistent'
      BY <2>a, <2>19 DEF GuardInv, GuardTypeOK, AtLabel, Consistent, Up, UserChange, Because
    <3> QED
      BY <3>1, <3>2 DEF GuardInv
  <2>20. CASE UNCHANGED guardVars
    BY <2>20 DEF GuardInv, guardVars, GuardTypeOK, AtLabel, Consistent, Up
  <2> QED
    BY <2>1, <2>2, <2>3, <2>4, <2>5, <2>6, <2>7, <2>8, <2>9, <2>10, <2>11, <2>12, <2>13, <2>14, <2>15, <2>16, <2>17, <2>18, <2>19, <2>20 DEF GuardNext, GuardStep
<1> QED
  BY <1>1, <1>2, PTL DEF GuardSpec

---------------------------------------------------------------------------
(* What follows from the agreement                                         *)

\* Every variable keeps its type.
THEOREM GuardTypes == GuardSpec => []GuardTypeOK
<1>1. GuardInv => GuardTypeOK
  BY DEF GuardInv
<1> QED
  BY <1>1, GuardInvariant, PTL

\* take_over_proxy never records PCE's own setting as the user's, however
\* often it is called and whatever an earlier run left on disk.
THEOREM SnapshotStaysTheUsers == GuardSpec => []SnapshotIsTheUsers
<1>1. GuardInv => SnapshotIsTheUsers
  BY DEF GuardInv, Consistent, SnapshotIsTheUsers
<1> QED
  BY <1>1, GuardInvariant, PTL

\* Whenever the slot points at PCE between two operations, the file holds the
\* user's setting and says that PCE owns the slot: recover_from_crash can
\* revert it.
THEOREM StaysRevertible == GuardSpec => []AlwaysRevertible
<1>1. GuardInv => AlwaysRevertible
  <2> SUFFICES ASSUME GuardInv, causes = {}, slot = Pce, stage = "idle"
               PROVE  file = "owned" /\ fileSnap = found
    BY DEF AlwaysRevertible
  <2>1. found # Pce
    BY GuardAssumption DEF GuardAssumption, GuardInv, GuardTypeOK
  <2> QED
    BY <2>1 DEF GuardInv, Consistent
<1> QED
  BY <1>1, GuardInvariant, PTL

\* Once no snapshot is left, in memory or on disk, the slot is as it was found.
THEOREM SlotIsGivenBack == GuardSpec => []SlotGivenBack
<1>1. GuardInv => SlotGivenBack
  BY DEF GuardInv, Consistent, SlotGivenBack
<1> QED
  BY <1>1, GuardInvariant, PTL
==============================================================================
