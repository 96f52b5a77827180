----------------------------- MODULE StreamTap -----------------------------
(***************************************************************************)
(* What a relay that records the streams it forwards promises: whatever    *)
(* happens to its threads, the record of a stream is at every moment a     *)
(* beginning of what was passed on, in order, without repeats or           *)
(* inventions, and nothing recorded is taken back.                         *)
(***************************************************************************)
EXTENDS Sequences, SequencesExt

CONSTANT Streams

VARIABLES
    passed,  \* what each stream has carried to its reader
    kept     \* what the recorder has of it

TapInit ==
    /\ passed = [s \in Streams |-> <<>>]
    /\ kept   = [s \in Streams |-> <<>>]

\* Both grow at their end, and the record stays behind the stream.
Carry ==
    \A s \in Streams :
        /\ IsPrefix(passed[s], passed'[s])
        /\ IsPrefix(kept[s], kept'[s])
        /\ IsPrefix(kept'[s], passed'[s])

TapSpec == TapInit /\ [][Carry]_<<passed, kept>>

============================================================================
