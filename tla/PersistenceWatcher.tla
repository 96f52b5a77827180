------------------------- MODULE PersistenceWatcher -------------------------
(***************************************************************************)
(* The watcher of another application's files.  A pass loads the set of    *)
(* fingerprints it has emitted, walks the sources, inserts one row for     *)
(* every record whose fingerprint is new, and saves the set at its end.    *)
(* Logs grow by lines, which the application may be caught writing;        *)
(* snapshots are rewritten.  Several processes may share one state file:   *)
(* the polling loop, a scan by hand, a dry run.                            *)
(*                                                                         *)
(* A line is known by its number, a snapshot by its content.               *)
(***************************************************************************)
EXTENDS Naturals, FiniteSets

CONSTANTS
    UuidLogs,   \* logs whose lines carry a uuid
    BareLogs,   \* logs whose lines carry none
    Snapshots,  \* files and database keys that are read whole
    Contents,   \* what a snapshot may hold
    Installs,   \* the sets of sources a machine may have
    Broken,     \* a snapshot that does not parse, or is not there
    Loops,      \* processes that poll
    Scans,      \* processes that somebody starts, with --dry-run or without
    Nowhere,    \* no source
    MaxLines,   \* bound: lines of a log
    MaxFaults   \* bound: crashes, failing calls and overlapping passes

Logs      == UuidLogs \cup BareLogs
Sources   == Logs \cup Snapshots
Processes == Loops \cup Scans

ASSUME WatcherAssumption ==
    /\ MaxLines \in Nat /\ MaxFaults \in Nat
    /\ Broken \notin Contents /\ Nowhere \notin Sources
    /\ Installs \subseteq SUBSET Sources
    /\ UuidLogs \cap BareLogs = {} /\ Logs \cap Snapshots = {}
    /\ Loops \cap Scans = {} /\ IsFiniteSet(Processes)

\* The lines and contents there are to record, and the keys they are marked by:
\* a line that is counted wrongly gets the key of a later one.
Records == (Logs \X (1 .. MaxLines)) \cup (Snapshots \X Contents)
Marks   == (Logs \X (1 .. 2 * MaxLines)) \cup (Snapshots \X Contents)

VARIABLES
    installed,  \* the sources of this machine
    dry,        \* the processes with dry_run set
    lines,      \* per log, how many lines are complete
    torn,       \* per log, whether the next line is begun
    shown,      \* per snapshot, its content
    saved,      \* the state file: entries
    stage,      \* where each process stands
    mem,        \* _state.entries of its observer
    todo,       \* sources its pass has not come to
    source,     \* the source it reads
    at,         \* lines of that log it has passed
    half,       \* whether it has read the beginning of the line after them
    shift,      \* how far its line_index is ahead
    rows,       \* history: how often each record was inserted
    dropped,    \* history: records marked although their insert failed
    slips,      \* history: faults and shifted indices that may cost a duplicate
    faults      \* history: all faults

watchVars == <<installed, dry, lines, torn, shown, saved, stage, mem, todo, source, at, half, shift,
               rows, dropped, slips, faults>>
files  == <<installed, dry, lines, torn, shown>>
cursor == <<source, at, half, shift>>

WatchTypeOK ==
    /\ installed \in Installs /\ dry \subseteq Scans
    /\ lines \in [Logs -> 0 .. MaxLines] /\ torn \in [Logs -> BOOLEAN]
    /\ shown \in [Snapshots -> Contents \cup {Broken}]
    /\ saved \subseteq Marks
    /\ stage \in [Processes -> {"idle", "scanning"}]
    /\ mem \in [Processes -> SUBSET Marks]
    /\ todo \in [Processes -> SUBSET Sources]
    /\ source \in [Processes -> Sources \cup {Nowhere}]
    /\ at \in [Processes -> 0 .. MaxLines] /\ shift \in [Processes -> 0 .. MaxLines]
    /\ half \in [Processes -> BOOLEAN]
    /\ rows \in [Records -> Nat] /\ dropped \subseteq Records
    /\ slips \in Nat /\ faults \in 0 .. MaxFaults

WatchInit ==
    /\ installed \in Installs /\ dry \in SUBSET Scans
    /\ lines = [l \in Logs |-> 0] /\ torn = [l \in Logs |-> FALSE]
    /\ shown = [s \in Snapshots |-> Broken]
    /\ saved = {}
    /\ stage = [p \in Processes |-> "idle"]
    /\ mem = [p \in Processes |-> {}] /\ todo = [p \in Processes |-> {}]
    /\ source = [p \in Processes |-> Nowhere]
    /\ at = [p \in Processes |-> 0] /\ shift = [p \in Processes |-> 0]
    /\ half = [p \in Processes |-> FALSE]
    /\ rows = [r \in Records |-> 0] /\ dropped = {}
    /\ slips = 0 /\ faults = 0

\* One more fault, and whether a duplicate may come of it.
Fault(costly) ==
    /\ faults < MaxFaults /\ faults' = faults + 1
    /\ slips' = IF costly THEN slips + 1 ELSE slips

-----------------------------------------------------------------------------
(* The application                                                         *)

AppWrites ==
    /\ \/ \E l \in Logs \cap installed :
             /\ lines[l] < MaxLines
             /\ \/ ~torn[l] /\ torn' = [torn EXCEPT ![l] = TRUE] /\ lines' = lines
                \/ torn' = [torn EXCEPT ![l] = FALSE] /\ lines' = [lines EXCEPT ![l] = @ + 1]
             /\ shown' = shown
       \/ \E s \in Snapshots \cap installed, c \in Contents \cup {Broken} :
             shown' = [shown EXCEPT ![s] = c] /\ UNCHANGED <<lines, torn>>
    /\ UNCHANGED <<installed, dry, saved, stage, mem, todo, cursor, rows, dropped, slips, faults>>

-----------------------------------------------------------------------------
(* A pass                                                                  *)

\* Another process is in a pass, and both will save.
Overlaps(p) == p \notin dry /\ \E q \in Processes \ (dry \cup {p}) : stage[q] # "idle"

\* _run_scan_pass makes an observer, which loads the state.
PassBegins(p) ==
    /\ stage[p] = "idle" /\ stage' = [stage EXCEPT ![p] = "scanning"]
    /\ IF Overlaps(p) THEN Fault(TRUE) ELSE UNCHANGED <<slips, faults>>
    /\ mem' = [mem EXCEPT ![p] = saved]
    /\ todo' = [todo EXCEPT ![p] = installed]
    /\ UNCHANGED <<files, saved, cursor, rows, dropped>>

\* _load_state cannot read the file, and starts fresh.
PassBeginsFresh(p) ==
    /\ stage[p] = "idle" /\ stage' = [stage EXCEPT ![p] = "scanning"]
    /\ ~Overlaps(p) /\ Fault(TRUE)
    /\ mem' = [mem EXCEPT ![p] = {}]
    /\ todo' = [todo EXCEPT ![p] = installed]
    /\ UNCHANGED <<files, saved, cursor, rows, dropped>>

\* A log is opened.
Opens(p) ==
    /\ stage[p] = "scanning" /\ source[p] = Nowhere
    /\ \E l \in todo[p] \cap Logs :
          /\ source' = [source EXCEPT ![p] = l]
          /\ todo' = [todo EXCEPT ![p] = @ \ {l}]
    /\ UNCHANGED <<files, saved, stage, mem, at, half, shift, rows, dropped, slips, faults>>

\* The fingerprint of a line: its uuid, or else its index (and its size, which
\* lines may share).
LineKey(l, n, ahead) == IF l \in UuidLogs THEN <<l, n>> ELSE <<l, n + ahead>>

\* observe_agent_session, observe_leveldb, observe_indexeddb_summary: the
\* insert may fail, which nothing looks at.
Observes(p, r, key) ==
    IF key \in mem[p] THEN UNCHANGED <<mem, rows, dropped, slips, faults>>
    ELSE IF p \in dry THEN UNCHANGED <<mem, rows, dropped, slips, faults>>
    ELSE /\ mem' = [mem EXCEPT ![p] = @ \cup {key}]
         /\ \/ rows' = [rows EXCEPT ![r] = @ + 1] /\ UNCHANGED <<dropped, slips, faults>>
            \/ dropped' = dropped \cup {r} /\ Fault(FALSE) /\ rows' = rows

\* A malformed line is passed over and will be read again in the next pass.
MarksMalformed(p, key) == IF p \in dry THEN mem ELSE [mem EXCEPT ![p] = @ \cup {key}]
PassesOver(p, key) == mem

\* The next line of the file: complete, or the rest of one whose beginning was
\* taken for a line, which moves the index of those after it.
ReadsLine(p) ==
    /\ stage[p] = "scanning" /\ source[p] \in Logs /\ at[p] < lines[source[p]]
    /\ at' = [at EXCEPT ![p] = @ + 1]
    /\ half' = [half EXCEPT ![p] = FALSE]
    /\ IF half[p]
         THEN /\ shift' = [shift EXCEPT ![p] = @ + 1]
              /\ slips' = IF source[p] \in BareLogs THEN slips + 1 ELSE slips
              /\ UNCHANGED <<mem, rows, dropped, faults>>
         ELSE /\ shift' = shift
              /\ Observes(p, <<source[p], at[p] + 1>>, LineKey(source[p], at[p] + 1, shift[p]))
    /\ UNCHANGED <<files, saved, stage, todo, source>>

\* The file ends within a line.
ReadsTorn(p) ==
    /\ stage[p] = "scanning" /\ source[p] \in Logs /\ at[p] = lines[source[p]]
    /\ torn[source[p]] /\ ~half[p]
    /\ half' = [half EXCEPT ![p] = TRUE]
    /\ mem' = PassesOver(p, LineKey(source[p], at[p] + 1, shift[p]))
    /\ UNCHANGED <<files, saved, stage, todo, source, at, shift, rows, dropped, slips, faults>>

\* The reader of a log is gone.
Leaves(p) ==
    /\ source' = [source EXCEPT ![p] = Nowhere]
    /\ at' = [at EXCEPT ![p] = 0] /\ shift' = [shift EXCEPT ![p] = 0]
    /\ half' = [half EXCEPT ![p] = FALSE]

\* The end of a log.
Closes(p) ==
    /\ stage[p] = "scanning" /\ source[p] \in Logs /\ at[p] = lines[source[p]]
    /\ torn[source[p]] => half[p]
    /\ Leaves(p)
    /\ UNCHANGED <<files, saved, stage, mem, todo, rows, dropped, slips, faults>>

\* _safe_read_json and the record, or nothing if it does not parse.
ReadsSnapshot(p) ==
    /\ stage[p] = "scanning" /\ source[p] = Nowhere
    /\ \E s \in todo[p] \cap Snapshots :
          /\ todo' = [todo EXCEPT ![p] = @ \ {s}]
          /\ IF shown[s] = Broken
               THEN UNCHANGED <<mem, rows, dropped, slips, faults>>
               ELSE Observes(p, <<s, shown[s]>>, <<s, shown[s]>>)
    /\ UNCHANGED <<files, saved, stage, cursor>>

\* An OSError, or LevelDbUnavailable, skips the source; an exception of a
\* walker ends the scan of the install.
SourceFails(p) ==
    /\ stage[p] = "scanning" /\ Fault(FALSE)
    /\ \/ source[p] # Nowhere /\ todo' = todo
       \/ \E skipped \in {todo[p]} \cup {{s} : s \in todo[p]} :
             skipped # {} /\ todo' = [todo EXCEPT ![p] = @ \ skipped]
    /\ Leaves(p)
    /\ UNCHANGED <<files, saved, stage, mem, rows, dropped>>

\* flush_state leaves the file alone in a dry run; _save_state replaces it.
FlushesAlways(p) == mem[p]
Flushed(p) == IF p \in dry THEN saved ELSE mem[p]

Ends(p) ==
    /\ stage[p] = "scanning" /\ source[p] = Nowhere /\ todo[p] = {}
    /\ stage' = [stage EXCEPT ![p] = "idle"]
    /\ mem' = [mem EXCEPT ![p] = {}]
    /\ UNCHANGED <<files, todo, cursor, rows, dropped>>

PassEnds(p) == Ends(p) /\ saved' = Flushed(p) /\ UNCHANGED <<slips, faults>>

\* The temporary file could not be written or moved: the observer of the next
\* pass loads what the file held before.
SaveFails(p) == Ends(p) /\ p \notin dry /\ Fault(TRUE) /\ saved' = saved

\* The process dies in a pass; it may be started again.
Crashes(p) ==
    /\ stage[p] # "idle" /\ stage' = [stage EXCEPT ![p] = "idle"]
    /\ Fault(p \notin dry)
    /\ mem' = [mem EXCEPT ![p] = {}] /\ todo' = [todo EXCEPT ![p] = {}]
    /\ Leaves(p)
    /\ UNCHANGED <<files, saved, rows, dropped>>

ScanSteps(p) == Opens(p) \/ ReadsLine(p) \/ ReadsTorn(p) \/ Closes(p) \/ ReadsSnapshot(p) \/ PassEnds(p)

WatchNext ==
    \/ AppWrites
    \/ \E p \in Processes :
          \/ PassBegins(p) \/ PassBeginsFresh(p) \/ ScanSteps(p)
          \/ SourceFails(p) \/ SaveFails(p) \/ Crashes(p)

WatchSpec == WatchInit /\ [][WatchNext]_watchVars

-----------------------------------------------------------------------------
(* Properties                                                              *)

\* A record gets one row, and at most one more for every crash, failed save,
\* unreadable state file, overlap of two passes and, where lines carry no
\* uuid, line that was read in two halves; dry runs cost nothing
\* (_already_emitted, _mark_emitted, flush_state, iter_transcript_records).
OneRowPerSlip == \A r \in Records : rows[r] <= 1 + slips

\* What the state file says was emitted is in the database, unless its insert
\* failed: a torn line, a broken file or a dry run marks nothing.  The mark of
\* a line without a uuid may be that of another one once indices have moved
\* (observe_agent_session, _write).
MarkedIsStored ==
    \A r \in saved : r[1] \notin BareLogs \/ slips = 0 =>
        r \in Records /\ (rows[r] > 0 \/ r \in dropped)

\* Each complete line is stored in the end, unless its insert failed, however
\* passes, torn reads and faults fall; a line without a uuid may be taken for
\* one that was marked if indices have moved (_run_watch_loop).
LinesAreStored ==
    \A l \in Logs, n \in 1 .. MaxLines :
        lines[l] >= n ~> \/ rows[<<l, n>>] > 0 \/ <<l, n>> \in dropped
                         \/ l \in BareLogs /\ slips > 0

=============================================================================
