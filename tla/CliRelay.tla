------------------------------ MODULE CliRelay ------------------------------
(***************************************************************************)
(* The wrapper around a command line tool.  With a terminal on stdin the   *)
(* child inherits the parent's streams and only its exit is recorded;      *)
(* otherwise three pump threads forward stdin, stdout and stderr and copy  *)
(* what passes into capped buffers.  The main thread waits for the child,  *)
(* terminates and kills it after a timeout, joins the pumps for two        *)
(* seconds each, flushes the parent's streams, reads the buffers and       *)
(* writes one row.                                                         *)
(*                                                                         *)
(* Data is counted in units; the i-th unit of a stream is the number i.    *)
(***************************************************************************)
EXTENDS Naturals, Sequences

CONSTANTS
    Outputs,    \* the child's output streams
    Cap,        \* max_body_bytes, in units
    Block,      \* what one blocking read of stdin waits for, in units
    MaxUnits    \* bound: units per stream

Streams == {"stdin"} \cup Outputs

ASSUME CliAssumption ==
    /\ "stdin" \notin Outputs
    /\ Cap \in Nat /\ Block \in Nat \ {0} /\ MaxUnits \in Nat

VARIABLES
    tty,        \* whether the parent's stdin is a terminal
    timed,      \* whether timeout_s is set
    child,      \* the wrapped command
    open,       \* per stream, whether its source can still write to it
    written,    \* per stream, units its source has written
    passed,     \* per stream, units its pump has read and forwarded
    copying,    \* per stream, the units its pump has in hand
    tee,        \* where the pump of each stream stands
    kept,       \* per stream, the bytes of its _CapBuffer
    truncated,  \* per stream, the flag of its _CapBuffer
    stalled,    \* outputs the parent takes no more of: its reader stands still
                \* and the pipe and the writer's buffer are full
    unflushed,  \* outputs the main thread has still to flush
    cli,        \* where relay() stands
    row,        \* per stream, the bytes in the row
    rowFlags,   \* per stream, the truncated flag in the row
    settled     \* history: the streams whose pump had ended when the row was taken

cliVars == <<tty, timed, child, open, written, passed, copying, tee, kept, truncated,
             stalled, unflushed, cli, row, rowFlags, settled>>
pipes == <<open, written>>
tees == <<passed, copying, tee, kept, truncated>>
parentSide == <<stalled, unflushed>>
recorded == <<row, rowFlags, settled>>

CliTypeOK ==
    /\ tty \in BOOLEAN /\ timed \in BOOLEAN
    /\ child \in {"running", "exited"}
    /\ open \in [Streams -> BOOLEAN]
    /\ written \in [Streams -> 0 .. MaxUnits]
    /\ passed \in [Streams -> 0 .. MaxUnits]
    /\ copying \in [Streams -> 0 .. MaxUnits]
    /\ tee \in [Streams -> {"reading", "writing", "copying", "ended"}]
    /\ kept \in [Streams -> Seq(1 .. MaxUnits)]
    /\ truncated \in [Streams -> BOOLEAN]
    /\ stalled \subseteq Outputs /\ unflushed \subseteq Outputs
    /\ cli \in {"waiting", "terminating", "joining", "building", "returned"}
    /\ row \in [Streams -> Seq(1 .. MaxUnits)]
    /\ rowFlags \in [Streams -> BOOLEAN]
    /\ settled \subseteq Streams

CliInit ==
    /\ tty \in BOOLEAN /\ timed \in BOOLEAN
    /\ child = "running"
    /\ open = [s \in Streams |-> TRUE]
    /\ written = [s \in Streams |-> 0] /\ passed = [s \in Streams |-> 0]
    /\ copying = [s \in Streams |-> 0]
    /\ tee = [s \in Streams |-> IF tty THEN "ended" ELSE "reading"]
    /\ kept = [s \in Streams |-> <<>>] /\ row = [s \in Streams |-> <<>>]
    /\ truncated = [s \in Streams |-> FALSE] /\ rowFlags = [s \in Streams |-> FALSE]
    /\ stalled = {} /\ unflushed = (IF tty THEN {} ELSE Outputs)
    /\ cli = "waiting" /\ settled = {}

-----------------------------------------------------------------------------
(* The parent and the child                                                *)

\* The parent, the child or a process the child left behind writes a unit.
SourceWrites(s) ==
    /\ ~tty /\ cli # "returned"
    /\ open[s] /\ written[s] < MaxUnits
    /\ written' = [written EXCEPT ![s] = @ + 1]
    /\ UNCHANGED <<tty, timed, child, open, tees, parentSide, cli, recorded>>

SourceCloses(s) ==
    /\ ~tty /\ cli # "returned"
    /\ open[s] /\ open' = [open EXCEPT ![s] = FALSE]
    /\ UNCHANGED <<tty, timed, child, written, tees, parentSide, cli, recorded>>

\* The child exits.  Outputs a descendant has inherited stay open.
ChildGone(heirs) ==
    /\ child = "running" /\ child' = "exited"
    /\ open' = [s \in Streams |-> open[s] /\ (s = "stdin" \/ s \in heirs)]

ChildExits ==
    /\ \E heirs \in SUBSET Outputs : ChildGone(heirs)
    /\ UNCHANGED <<tty, timed, written, tees, parentSide, cli, recorded>>

\* Who reads the wrapper's output stops reading, and the pipe and the buffer of
\* sys.stdout fill up; or reads on.
ParentStalls(s) ==
    /\ ~tty /\ cli # "returned"
    /\ s \in Outputs \ stalled /\ stalled' = stalled \cup {s}
    /\ UNCHANGED <<tty, timed, child, pipes, tees, unflushed, cli, recorded>>

ParentReads(s) ==
    /\ cli # "returned"
    /\ s \in stalled /\ stalled' = stalled \ {s}
    /\ UNCHANGED <<tty, timed, child, pipes, tees, unflushed, cli, recorded>>

-----------------------------------------------------------------------------
(* _pump_stdin and _pump_stream                                            *)

\* read(_CHUNK): a raw pipe gives what is there, the parent's buffered stdin
\* blocks until it has a whole block or the end of the stream.
ReadyToRead(s) ==
    LET there == written[s] - passed[s] IN
    IF s # "stdin" THEN 1 .. there
    ELSE IF there >= Block THEN {Block}
    ELSE IF open[s] THEN {} ELSE {there} \ {0}

TeeReads(s) ==
    /\ cli # "returned" /\ tee[s] = "reading"
    /\ \E n \in ReadyToRead(s) : copying' = [copying EXCEPT ![s] = n]
    /\ tee' = [tee EXCEPT ![s] = "writing"]
    /\ UNCHANGED <<tty, timed, child, pipes, passed, kept, truncated, parentSide, cli, recorded>>

\* dst.write, and dst.flush for stdin.  An output's write waits while the
\* parent takes nothing; whatever it raises is ignored.
TeeForwards(s) ==
    /\ cli # "returned" /\ tee[s] = "writing" /\ s \notin stalled
    /\ passed' = [passed EXCEPT ![s] = @ + copying[s]]
    /\ tee' = [tee EXCEPT ![s] = "copying"]
    /\ UNCHANGED <<tty, timed, child, pipes, copying, kept, truncated, parentSide, cli, recorded>>

\* Nobody reads the child's stdin any more: what was read for it is not kept.
TeeBreaks ==
    /\ cli # "returned" /\ tee["stdin"] = "writing"
    /\ copying' = [copying EXCEPT !["stdin"] = 0]
    /\ tee' = [tee EXCEPT !["stdin"] = "ended"]
    /\ UNCHANGED <<tty, timed, child, pipes, passed, kept, truncated, parentSide, cli, recorded>>

\* _CapBuffer.write: the whole chunk, or as much of it as there is room for.
FitsAll(s) == copying[s]
FitsRoom(s) == Cap - Len(kept[s])
Fits(s) == IF copying[s] <= Cap - Len(kept[s]) THEN copying[s] ELSE Cap - Len(kept[s])

TeeCopies(s) ==
    /\ cli # "returned" /\ tee[s] = "copying"
    /\ kept' = [kept EXCEPT ![s] =
           @ \o [i \in 1 .. Fits(s) |-> passed[s] - copying[s] + i]]
    /\ truncated' = [truncated EXCEPT ![s] = @ \/ Fits(s) < copying[s]]
    /\ copying' = [copying EXCEPT ![s] = 0]
    /\ tee' = [tee EXCEPT ![s] = "reading"]
    /\ UNCHANGED <<tty, timed, child, pipes, passed, parentSide, cli, recorded>>

\* The stream is at its end.
TeeEnds(s) ==
    /\ cli # "returned" /\ tee[s] = "reading"
    /\ ~open[s] /\ written[s] = passed[s]
    /\ tee' = [tee EXCEPT ![s] = "ended"]
    /\ UNCHANGED <<tty, timed, child, pipes, passed, copying, kept, truncated, parentSide, cli, recorded>>

-----------------------------------------------------------------------------
(* relay, _run_pipe_tee, _run_passthrough                                  *)

\* TimeoutExpired: _terminate_proc, and five more seconds for the child.
TimesOut ==
    /\ cli = "waiting" /\ timed /\ child = "running"
    /\ cli' = "terminating"
    /\ UNCHANGED <<tty, timed, child, pipes, tees, parentSide, recorded>>

Kills ==
    /\ cli = "terminating" /\ \E heirs \in SUBSET Outputs : ChildGone(heirs)
    /\ UNCHANGED <<tty, timed, written, tees, parentSide, cli, recorded>>

ChildReaped ==
    /\ cli \in {"waiting", "terminating"} /\ child = "exited"
    /\ cli' = "joining"
    /\ UNCHANGED <<tty, timed, child, pipes, tees, parentSide, recorded>>

\* The joins have returned or timed out.  The flush of an output has no timeout:
\* it waits while the parent takes nothing, and for the lock of the writer while
\* the pump is in its write.
Flushes(s) ==
    /\ cli = "joining"
    /\ s \in unflushed \ stalled /\ tee[s] # "writing"
    /\ unflushed' = unflushed \ {s}
    /\ UNCHANGED <<tty, timed, child, pipes, tees, stalled, cli, recorded>>

\* value() of every buffer is taken.
TakesBytes ==
    /\ cli = "joining" /\ cli' = "building"
    /\ unflushed = {}
    /\ row' = kept
    /\ settled' = {s \in Streams : tee[s] = "ended"}
    /\ UNCHANGED <<tty, timed, child, pipes, tees, parentSide, rowFlags>>

\* The flags are read after the bytes, and the row is written.
EmitsRow ==
    /\ cli = "building" /\ cli' = "returned"
    /\ rowFlags' = truncated
    /\ UNCHANGED <<tty, timed, child, pipes, tees, parentSide, row, settled>>

Finishes == (\E s \in Outputs : Flushes(s)) \/ TakesBytes \/ EmitsRow

\* A timed out child is left to exit when it likes.
MainNoKill == TimesOut \/ ChildReaped \/ Finishes
CliMain == TimesOut \/ Kills \/ ChildReaped \/ Finishes

CliNext ==
    \/ \E s \in Streams :
          \/ SourceWrites(s) \/ SourceCloses(s)
          \/ ParentStalls(s) \/ ParentReads(s)
          \/ TeeReads(s) \/ TeeForwards(s) \/ TeeCopies(s) \/ TeeEnds(s)
    \/ TeeBreaks \/ ChildExits \/ CliMain

CliSpec == CliInit /\ [][CliNext]_cliVars

-----------------------------------------------------------------------------
(* Properties                                                              *)

UpTo(n) == [i \in 1 .. n |-> i]

CliTap == INSTANCE StreamTap WITH passed <- [s \in Streams |-> UpTo(passed[s])]

\* A buffer is a beginning of what its stream passed on, and never loses any
\* of it again (_pump_stream, _pump_stdin, _CapBuffer).
CliImplementsTap == CliTap!TapSpec

\* The row of a stream whose pump had ended says exactly what passed, up to
\* the cap, and whether there was more; the row of a stream still flowing
\* when its join timed out never exceeds either (_CapBuffer, RelayResult).
RowIsExact ==
    \A s \in Streams :
        /\ Len(row[s]) <= Cap /\ row[s] = UpTo(Len(row[s]))
        /\ rowFlags[s] => passed[s] > Cap
        /\ cli = "returned" /\ s \in settled =>
              /\ Len(row[s]) = (IF passed[s] < Cap THEN passed[s] ELSE Cap)
              /\ rowFlags[s] <=> passed[s] > Cap

\* If from some point on the parent takes what the wrapper writes, the wrapper
\* returns: with a timeout whatever the child, its descendants and the streams
\* do, without one once the child has exited.  The premise is needed: a parent
\* that stops reading holds up the flushes before the row (_run_pipe_tee), and
\* neither the timeout nor the bound of the joins ends those.
WrapperReturns ==
    <>[](stalled = {}) => ((timed \/ child = "exited") ~> cli = "returned")

=============================================================================
