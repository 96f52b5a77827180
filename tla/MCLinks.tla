------------------------------ MODULE MCLinks ------------------------------
(***************************************************************************)
(* What reaches into other programs, checked in one run: the MCP relay and *)
(* the CLI wrapper, which record what they forward; the probe, which       *)
(* routes calls to the extension; and the guard of the system's proxy      *)
(* setting.  They never meet: an execution is one of what `link' names.    *)
(***************************************************************************)
EXTENDS McpRelay, CliRelay, ProbeLink, ProxyGuard

VARIABLE link

linkVars == <<link, relayVars, cliVars, probeVars, guardVars>>

\* What is not run starts in one of its states.
Init ==
    /\ link \in {"mcp", "cli", "probe", "guard"}
    /\ RelayInit /\ CliInit /\ ProbeInit /\ GuardInit
    /\ link # "cli" => ~tty /\ ~timed
    /\ link # "probe" => ~listening
    /\ link # "guard" => slot = Off

McpStep   == link = "mcp" /\ RelayNext /\ UNCHANGED <<link, cliVars, probeVars, guardVars>>
CliStep   == link = "cli" /\ CliNext /\ UNCHANGED <<link, relayVars, probeVars, guardVars>>
ProbeStep == link = "probe" /\ ProbeNext /\ UNCHANGED <<link, relayVars, cliVars, guardVars>>
ProxyStep == link = "guard" /\ GuardNext /\ UNCHANGED <<link, relayVars, cliVars, probeVars>>

\* The main threads run on; what they wait for is bounded by their timeouts,
\* but for the flushes of the CLI wrapper.  A pump's write of an output ends
\* when its reader takes it.
\* Timers fire, the browser wakes the worker, both ends of a WebSocket get
\* what was sent and hear that it is cut; nothing is asked of the server, of
\* agents or of verbs.  The guard ends what it began, and the user opens the
\* panel again some day.
Fairness ==
    /\ WF_relayVars(link = "mcp" /\ RelayMain)
    /\ WF_cliVars(link = "cli" /\ CliMain)
    /\ \A s \in Outputs : WF_cliVars(link = "cli" /\ TeeForwards(s))
    /\ WF_probeVars(link = "probe" /\ Wakes)
    /\ WF_probeVars(link = "probe" /\ Retries)
    /\ WF_probeVars(link = "probe" /\ Checks)
    /\ WF_probeVars(link = "probe" /\ Dials)
    /\ \A l \in Links : WF_probeVars(link = "probe" /\ LinkSteps(l))
    /\ \A c \in Calls : WF_probeVars(link = "probe" /\ CallSteps(c))
    /\ WF_guardVars(link = "guard" /\ GuardStep)
    /\ WF_guardVars(link = "guard" /\ StartPanel)

Spec == Init /\ [][McpStep \/ CliStep \/ ProbeStep \/ ProxyStep]_linkVars /\ Fairness

-----------------------------------------------------------------------------
(* The instance: a host that may ask twice under one id, and a server that *)
(* answers and writes a line that is not JSON.                             *)

Request  == [id |-> "k1", method |-> TRUE, json |-> TRUE]
Response == [id |-> "k1", method |-> FALSE, json |-> TRUE]
Banner   == [id |-> None, method |-> FALSE, json |-> FALSE]

MCHostFrames   == {Request}
MCServerFrames == {Response, Banner}

=============================================================================
