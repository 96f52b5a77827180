------------------------------ MODULE MCParts ------------------------------
(***************************************************************************)
(* Six parts that share no state, checked in one run: the watcher of       *)
(* another application's files, the runtime of the content scripts, the    *)
(* deduplication of claims, what deletes captured data, the migrations of  *)
(* the schema, and the supervisor of child processes.  An execution is one *)
(* of the part `part' names.                                               *)
(***************************************************************************)
EXTENDS PersistenceWatcher, CaptureRuntime, LegDedup, Upkeep, SchemaMigrations, MCProcSupervisor

VARIABLE part

partVars == <<part, watchVars, runtimeVars, dedupVars, upkeepVars, schemaVars, vars>>

\* A part that is not run starts in one of its states.
PartsInit ==
    /\ part \in {"files", "page", "claims", "upkeep", "schema", "children"}
    /\ WatchInit /\ RuntimeInit /\ DedupInit /\ UpkeepInit /\ SchemaInit /\ Init
    /\ part # "files" => dry = {} /\ installed = CHOOSE i \in Installs : TRUE
    /\ part # "page"  => site = CHOOSE s \in Sites : TRUE
    /\ part # "schema" => disk = New

PartsNext ==
    \/ /\ part = "files" /\ WatchNext
       /\ UNCHANGED <<part, runtimeVars, dedupVars, upkeepVars, schemaVars, vars>>
    \/ /\ part = "page" /\ RuntimeNext
       /\ UNCHANGED <<part, watchVars, dedupVars, upkeepVars, schemaVars, vars>>
    \/ /\ part = "claims" /\ DedupNext
       /\ UNCHANGED <<part, watchVars, runtimeVars, upkeepVars, schemaVars, vars>>
    \/ /\ part = "upkeep" /\ UpkeepNext
       /\ UNCHANGED <<part, watchVars, runtimeVars, dedupVars, schemaVars, vars>>
    \/ /\ part = "schema" /\ SchemaNext
       /\ UNCHANGED <<part, watchVars, runtimeVars, dedupVars, upkeepVars, vars>>
    \/ /\ part = "children" /\ Next
       /\ UNCHANGED <<part, watchVars, runtimeVars, dedupVars, upkeepVars, schemaVars>>

\* The loop starts pass after pass and a pass goes on; timers fire, a site
\* stops streaming, and the background answers every message it is sent; a
\* process that did not get past init_db is started again; the supervisor's
\* loops go on, its timeouts come, and what is killed exits.
PartsFairness ==
    /\ \A p \in Loops : WF_watchVars(part = "files" /\ PassBegins(p))
    /\ \A p \in Processes : WF_watchVars(part = "files" /\ ScanSteps(p))
    /\ WF_runtimeVars(part = "page" /\ TimerFires)
    /\ WF_runtimeVars(part = "page" /\ StreamingEnds)
    /\ \A k \in Slots : WF_runtimeVars(part = "page" /\ (Accepted(k) \/ Refused(k)))
    /\ \A p \in Runners : WF_schemaVars(part = "schema" /\ Steps(p))
    /\ \A p \in Runners : WF_schemaVars(part = "schema" /\ Begin(p))
    /\ \A p \in Procs : WF_vars(part = "children" /\ RunOne(p))
    /\ \A p \in Procs, a \in Callers : WF_vars(part = "children" /\ TerminateTimesOut(a, p))
    /\ \A p \in Procs : WF_vars(part = "children" /\ p \in killed /\ Exit(p))
    /\ WF_vars(part = "children" /\ Finish)

PartsSpec == PartsInit /\ [][PartsNext]_partVars /\ PartsFairness

-----------------------------------------------------------------------------
(* The instance: a machine with a log of uuid lines, one with a log of     *)
(* bare lines, one with two snapshots; a site of the incremental kind that *)
(* waits for both roles, and one that sends every message.                 *)

MCInstalls == {{"u"}, {"b"}, {"s", "t"}}

Site(f, h, b) == [full |-> f, hooked |-> h, bothRoles |-> b]
MCSites == {Site(FALSE, TRUE, TRUE), Site(TRUE, FALSE, FALSE)}

=============================================================================
