-------------------------- MODULE CaptureDelivery --------------------------
(***************************************************************************)
(* What the extension's worker promises for a capture it has accepted: it  *)
(* stays pending until a copy reached the server or the code has a stated  *)
(* reason to give it up, and once settled it does not come back.           *)
(* CaptureQueue is shown to implement this.                                *)
(***************************************************************************)
EXTENDS Integers

CONSTANT Captures

VARIABLES
    accepted,   \* captures whose handler has begun
    pending,    \* accepted captures the worker still owes the server
    copies,     \* how many copies of each capture the server has
    excused     \* captures given up for a stated reason

vars == <<accepted, pending, copies, excused>>

Init ==
    /\ accepted = {}
    /\ pending = {}
    /\ copies = [c \in Captures |-> 0]
    /\ excused = {}

\* A capture leaves pending only delivered or excused, and never returns.
SettledRightly ==
    /\ pending' \subseteq pending
    /\ \A c \in pending \ pending' : copies'[c] > 0 \/ c \in excused'

Accept(c) ==
    /\ c \notin accepted
    /\ accepted' = accepted \cup {c}
    /\ pending' = pending \cup {c}
    /\ UNCHANGED <<copies, excused>>

\* At least once: the worker may deliver a capture again, even one it gave up.
Deliver(c) ==
    /\ c \in accepted
    /\ copies' = [copies EXCEPT ![c] = @ + 1]
    /\ SettledRightly
    /\ UNCHANGED <<accepted, excused>>

GiveUp(S) ==
    /\ S \subseteq accepted
    /\ excused' = excused \cup S
    /\ SettledRightly
    /\ UNCHANGED <<accepted, copies>>

Next ==
    \/ \E c \in Captures : Accept(c) \/ Deliver(c)
    \/ \E S \in SUBSET Captures : GiveUp(S)

Spec == Init /\ [][Next]_vars

============================================================================
