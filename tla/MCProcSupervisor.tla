------------------------- MODULE MCProcSupervisor -------------------------
(* Three processes, one per kind of restart decision. *)
EXTENDS ProcSupervisor, TLC

CONSTANTS proxy, litellm, oneshot

MCPolicy == [p \in Procs |-> CASE p = proxy   -> "on_failure"
                              [] p = litellm -> "always"
                              [] p = oneshot -> "never"]
MCMaxRestarts == [p \in Procs |-> IF p = proxy THEN 1 ELSE 0]

===========================================================================
