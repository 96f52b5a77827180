-------------------------- MODULE ProcSupervisor --------------------------
(***************************************************************************)
(* The asyncio supervisor of child processes: one task per managed process *)
(* spawns it, awaits its exit and restarts it after a backoff, while       *)
(* stop_all and restart run in tasks of their own.  A step ends where the  *)
(* code awaits, so the tasks interleave exactly there.                     *)
(*                                                                         *)
(* A Supervisor is started once: its user, the LiteLLM bridge, makes a new *)
(* one before every start_all.  Delays are abstracted to the exponent of   *)
(* the backoff, and a timeout may fire whenever its wait has not ended.    *)
(***************************************************************************)
EXTENDS Integers, FiniteSets

CONSTANTS
    Procs,        \* names of the managed processes
    Policy,       \* RestartPolicy of each
    Limited,      \* those whose max_restarts is not None
    MaxRestarts,  \* max_restarts of those
    MaxBackoff,   \* log2(max_backoff_s / initial_backoff_s), rounded up
    RestartCap    \* bound: where the counter of an unlimited process saturates

Policies == {"always", "on_failure", "never"}

ASSUME SupervisorAssumption ==
    /\ Policy \in [Procs -> Policies]
    /\ Limited \subseteq Procs
    /\ RestartCap \in Nat
    /\ MaxRestarts \in [Procs -> 0 .. RestartCap]
    /\ MaxBackoff \in Nat

VARIABLES
    life,      \* where start_all and stop_all stand
    pc,        \* where the task of each process stands in _run_one
    status,    \* ProcessStatus.state
    child,     \* the process last spawned, as the operating system has it
    registry,  \* the names in _processes
    backoff,   \* the local backoff, as an exponent
    restarts,  \* the local restarts
    term,      \* the running calls of _terminate: <<caller, name>>
    killed,    \* children that were sent a signal they cannot ignore
    spawns,    \* history: children spawned so far (of an unlimited process: whether any)
    late       \* history: names being spawned when stop_all began

vars == <<life, pc, status, child, registry, backoff, restarts, term, killed, spawns, late>>

Callers  == {"stop_all", "restart"}
Lives    == {"new", "running", "terminating", "joining", "stopped"}
Labels   == {"absent", "top", "spawning", "waiting", "respawning", "sleeping", "done"}
States   == {"pending", "running", "backoff", "stopped", "failed", "disabled"}
Children == {"none", "alive", "clean", "crashed"}

TypeOK ==
    /\ life \in Lives
    /\ pc \in [Procs -> Labels]
    /\ status \in [Procs -> States]
    /\ child \in [Procs -> Children]
    /\ registry \subseteq Procs
    /\ backoff \in [Procs -> 0 .. MaxBackoff]
    /\ restarts \in [Procs -> 0 .. RestartCap]
    /\ term \subseteq Callers \X Procs
    /\ killed \subseteq Procs
    /\ spawns \in [Procs -> Nat]
    /\ late \subseteq Procs

Init ==
    /\ life = "new"
    /\ pc = [p \in Procs |-> "absent"]
    /\ status = [p \in Procs |-> "pending"]
    /\ child = [p \in Procs |-> "none"]
    /\ registry = {} /\ term = {} /\ killed = {} /\ late = {}
    /\ backoff = [p \in Procs |-> 0]
    /\ restarts = [p \in Procs |-> 0]
    /\ spawns = [p \in Procs |-> 0]

---------------------------------------------------------------------------
(* Helpers                                                                 *)

\* stop_all sets every stop event and _global_stop at once.
StopRequested == life \in {"terminating", "joining", "stopped"}

Exited(p)    == child[p] \in {"clean", "crashed"}
Goto(p, l)   == pc' = [pc EXCEPT ![p] = l]
Becomes(p, s) == status' = [status EXCEPT ![p] = s]

\* min(backoff * 2, max_backoff_s)
Doubled(p) == IF backoff[p] < MaxBackoff THEN backoff[p] + 1 ELSE MaxBackoff

\* The restart decision: the policy, then max_restarts.
PolicyStopsAnyClean(p) == Policy[p] = "never" \/ child[p] = "clean"
PolicyStops(p) ==
    \/ Policy[p] = "never"
    \/ Policy[p] = "on_failure" /\ child[p] = "clean"

LimitHitLate(p) == p \in Limited /\ restarts[p] > MaxRestarts[p]
LimitHit(p) == p \in Limited /\ restarts[p] >= MaxRestarts[p]

\* _processes.pop(name)
Unregistered(p) == registry \ {p}

Counted(p) == IF restarts[p] < RestartCap THEN restarts[p] + 1 ELSE RestartCap

---------------------------------------------------------------------------
(* start_all                                                               *)

StartAll ==
    /\ life = "new"
    /\ life' = "running"
    /\ pc' = [p \in Procs |-> "top"]
    /\ UNCHANGED <<status, child, registry, backoff, restarts, term, killed, spawns, late>>

---------------------------------------------------------------------------
(* _run_one                                                                *)

\* The head of the loop.
LoopHead(p) ==
    /\ pc[p] = "top"
    /\ Goto(p, IF StopRequested THEN "done" ELSE "spawning")
    /\ UNCHANGED <<life, status, child, registry, backoff, restarts, term, killed, spawns, late>>

\* FileNotFoundError
SpawnMissing(p) ==
    /\ pc[p] = "spawning"
    /\ Becomes(p, "disabled")
    /\ Goto(p, "done")
    /\ UNCHANGED <<life, child, registry, backoff, restarts, term, killed, spawns, late>>

\* Any other exception; the wait that follows leaves the status alone.
SpawnFails(p) ==
    /\ pc[p] = "spawning"
    /\ Becomes(p, "backoff")
    /\ Goto(p, "respawning")
    /\ UNCHANGED <<life, child, registry, backoff, restarts, term, killed, spawns, late>>

Spawned(p) ==
    /\ pc[p] = "spawning"
    /\ child' = [child EXCEPT ![p] = "alive"]
    /\ killed' = killed \ {p}
    /\ registry' = registry \cup {p}
    /\ Becomes(p, "running")
    /\ Goto(p, "waiting")
    /\ spawns' = [spawns EXCEPT ![p] = IF p \in Limited THEN @ + 1 ELSE 1]
    /\ UNCHANGED <<life, backoff, restarts, term, late>>

\* proc.wait() returned: the registry entry goes, a healthy run resets the
\* backoff, and the loop ends or sleeps before the next child.
Reap(p) ==
    /\ pc[p] = "waiting" /\ Exited(p)
    /\ registry' = Unregistered(p)
    /\ backoff' \in {backoff, [backoff EXCEPT ![p] = 0]}
    /\ \/ /\ StopRequested
          /\ Becomes(p, "stopped") /\ Goto(p, "done")
       \/ /\ ~StopRequested /\ PolicyStops(p)
          /\ Becomes(p, IF child[p] = "clean" THEN "stopped" ELSE "failed")
          /\ Goto(p, "done")
       \/ /\ ~StopRequested /\ ~PolicyStops(p) /\ LimitHit(p)
          /\ Becomes(p, "failed") /\ Goto(p, "done")
       \/ /\ ~StopRequested /\ ~PolicyStops(p) /\ ~LimitHit(p)
          /\ Becomes(p, "backoff") /\ Goto(p, "sleeping")
    /\ UNCHANGED <<life, child, restarts, term, killed, spawns, late>>

\* _wait_backoff saw the stop event.  After a failed spawn the loop is left
\* with the status it had.
WakeStopped(p) ==
    /\ pc[p] \in {"sleeping", "respawning"} /\ StopRequested
    /\ IF pc[p] = "sleeping" THEN Becomes(p, "stopped") ELSE UNCHANGED status
    /\ Goto(p, "done")
    /\ UNCHANGED <<life, child, registry, backoff, restarts, term, killed, spawns, late>>

\* _wait_backoff timed out; a failed spawn is not counted as a restart.
WakeElapsed(p) ==
    /\ pc[p] \in {"sleeping", "respawning"}
    /\ restarts' = [restarts EXCEPT ![p] = IF pc[p] = "sleeping" THEN Counted(p) ELSE @]
    /\ backoff' = [backoff EXCEPT ![p] = Doubled(p)]
    /\ Goto(p, "top")
    /\ UNCHANGED <<life, status, child, registry, term, killed, spawns, late>>

---------------------------------------------------------------------------
(* The child, _terminate and its two callers                               *)

\* The child ends, of itself or by a signal; whoever waits for it wakes.
Exit(p) ==
    /\ child[p] = "alive"
    /\ \E c \in {"clean", "crashed"} : child' = [child EXCEPT ![p] = c]
    /\ term' = term \ (Callers \X {p})
    /\ UNCHANGED <<life, pc, status, registry, backoff, restarts, killed, spawns, late>>

\* stop_timeout_s went by: kill.
TerminateTimesOutQuietly(a, p) ==
    /\ <<a, p>> \in term /\ p \notin killed
    /\ term' = term \ {<<a, p>>}
    /\ UNCHANGED <<life, pc, status, child, registry, backoff, restarts, killed, spawns, late>>

TerminateAsksAgain(a, p) ==
    /\ <<a, p>> \in term /\ p \notin killed
    /\ UNCHANGED vars

TerminateTimesOut(a, p) ==
    /\ <<a, p>> \in term /\ p \notin killed
    /\ killed' = killed \cup {p}
    /\ UNCHANGED <<life, pc, status, child, registry, backoff, restarts, term, spawns, late>>

\* restart(name): terminates the child there is, else has nothing to do.
Restart(p) ==
    /\ p \in registry /\ child[p] = "alive"
    /\ <<"restart", p>> \notin term
    /\ term' = term \cup {<<"restart", p>>}
    /\ UNCHANGED <<life, pc, status, child, registry, backoff, restarts, killed, spawns, late>>

\* Sets the events, then starts _terminate for the names registered now.
StopAll ==
    /\ life = "running"
    /\ life' = "terminating"
    /\ term' = term \cup {<<"stop_all", p>> : p \in {q \in registry : child[q] = "alive"}}
    /\ late' = {p \in Procs : pc[p] = "spawning"}
    /\ UNCHANGED <<pc, status, child, registry, backoff, restarts, killed, spawns>>

StopTerminated ==
    /\ life = "terminating"
    /\ \A p \in Procs : <<"stop_all", p>> \notin term
    /\ life' = "joining"
    /\ UNCHANGED <<pc, status, child, registry, backoff, restarts, term, killed, spawns, late>>

StopJoined ==
    /\ life = "joining"
    /\ \A p \in Procs : pc[p] = "done"
    /\ life' = "stopped"
    /\ registry' = {}
    /\ UNCHANGED <<pc, status, child, backoff, restarts, term, killed, spawns, late>>

\* The tasks did not end within the timeout: they are cancelled where they
\* stand and _processes is cleared.  asyncio kills a child whose spawn is
\* cancelled; one whose wait is cancelled lives on.
StopTimesOut ==
    /\ life = "joining"
    /\ \E p \in Procs : pc[p] # "done"
    /\ life' = "stopped"
    /\ pc' = [p \in Procs |-> "done"]
    /\ registry' = {}
    /\ UNCHANGED <<status, child, backoff, restarts, term, killed, spawns, late>>

---------------------------------------------------------------------------

RunOne(p) ==
    \/ LoopHead(p) \/ SpawnMissing(p) \/ SpawnFails(p) \/ Spawned(p)
    \/ Reap(p) \/ WakeStopped(p) \/ WakeElapsed(p)

Finish == StopTerminated \/ StopJoined \/ StopTimesOut

Next ==
    \/ StartAll \/ StopAll \/ Finish
    \/ \E p \in Procs :
          RunOne(p) \/ Exit(p) \/ Restart(p) \/ \E a \in Callers : TerminateTimesOut(a, p)

\* Ready continuations run, timers fire, and a killed process goes away.
\* Nothing makes a healthy child exit, or anybody call stop_all or restart.
Fairness ==
    /\ \A p \in Procs : WF_vars(RunOne(p))
    /\ \A p \in Procs, a \in Callers : WF_vars(TerminateTimesOut(a, p))
    /\ \A p \in Procs : WF_vars(p \in killed /\ Exit(p))
    /\ WF_vars(Finish)

Spec == Init /\ [][Next]_vars
FairSpec == Spec /\ Fairness

---------------------------------------------------------------------------
(* Properties                                                              *)

\* stop_all leaves a child running only when that child was being spawned
\* as stop_all began: every other child was registered, hence terminated, or
\* is never spawned because its task sees the stop event first.
OnlyLateSpawnsSurvive ==
    \A p \in Procs : life = "stopped" /\ child[p] = "alive" => p \in late

\* _processes holds the children some task awaits, no more and no less: a
\* stop or a restart that consults it neither misses a running child nor
\* signals one that was already reaped.
RegistryIsExact ==
    registry = {p \in Procs : pc[p] = "waiting"}

\* A limited process is spawned at most max_restarts + 1 times, however its
\* exits, failing spawns, restart calls and backoffs fall together.
SpawnsWithinLimit ==
    \A p \in Limited : spawns[p] <= MaxRestarts[p] + 1

\* Once stop_all has begun, the only child still to appear is the one whose
\* spawn was in flight: no backoff ends in a new process.
NoSpawnAfterStop ==
    [][\A p \in Procs :
          StopRequested /\ child[p] # "alive" /\ child'[p] = "alive" => p \in late]_vars

\* A final status is final: no task goes on behind a status that says its
\* process is stopped, failed or disabled.
FinalStatusStays ==
    [][\A p \in Procs :
          status[p] \in {"stopped", "failed", "disabled"} =>
              /\ status'[p] = status[p]
              /\ child'[p] = child[p]]_vars

\* stop_all returns: no child that ignores its signal, sleeping task or
\* spawn in flight can hold it up.
StopCompletes == life = "terminating" ~> life = "stopped"

\* A process to be restarted always and without limit is spawned again after
\* every exit, unless the supervisor stops.
ExitedComesBack ==
    \A p \in {q \in Procs \ Limited : Policy[q] = "always"} :
        pc[p] = "waiting" /\ Exited(p) ~> pc[p] = "spawning" \/ StopRequested

\* stop_all leaves no child behind ("otherwise lingering subprocesses become
\* zombies").
NoChildAfterStop ==
    life = "stopped" => \A p \in Procs : child[p] # "alive"

===========================================================================
