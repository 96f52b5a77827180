-------------------------- MODULE SchemaMigrations --------------------------
(***************************************************************************)
(* The schema of the database (src/pce_core/migrations).  The server, the  *)
(* proxy's addon, the MCP proxy, the watchers and the hooks all call       *)
(* init_db when they start: whatever the database lacks of the latest      *)
(* version is added by whoever comes first, and several may come at once.  *)
(* Python's sqlite3 opens a transaction before an INSERT, and only then: a *)
(* change of the schema made outside of one is committed at once.          *)
(***************************************************************************)
EXTENDS Integers

CONSTANTS
    Runners,     \* the processes that call init_db
    Latest,      \* EXPECTED_SCHEMA_VERSION; 1 is the baseline
    ByColumns,   \* the migrations that add columns, by looking what there is
    ByScript,    \* those that run CREATE ... IF NOT EXISTS; others add rows only
    ToCaptures,  \* those whose columns are columns of raw_captures
    Width,       \* how many columns or tables a migration adds
    Fresh,       \* the captures that arrive once a process is past init_db
    Legacy,      \* the capture of a database older than its migrations
    Nobody,
    MaxBreaks    \* bound: crashes and lock timeouts

PartsOf(v) == IF v \in ByColumns \union ByScript THEN {v} \X (1..Width) ELSE {}
Parts      == UNION {PartsOf(v) : v \in 1..Latest}
OnCaptures == UNION {PartsOf(v) : v \in ToCaptures}

ASSUME SchemaAssumption ==
    /\ Latest \in Nat \ {0} /\ ByColumns \subseteq 1..Latest /\ ByScript \subseteq 2..Latest
    /\ 1 \in ByColumns /\ ToCaptures \subseteq ByColumns \ {1}
    /\ ByColumns \intersect ByScript = {} /\ Width \in Nat /\ MaxBreaks \in Nat
    /\ Nobody \notin Runners /\ Legacy \notin Fresh

VARIABLES
    disk,     \* the database as committed
    working,  \* the database as its writer sees it
    writer,   \* who has a transaction open that wrote
    place,    \* where each process is
    next,     \* the migration it is on; those up to Latest are pending
    seen,     \* what it read of the schema before it changes it
    breaks

schemaVars == <<disk, working, writer, place, next, seen, breaks>>

\* `table' is the CHECK of raw_captures: narrow, wide, or there is no table;
\* `aside' is whether _raw_captures_old exists.
Databases ==
    [version : 0..Latest, table : {"none", "narrow", "wide"}, rows : SUBSET (Fresh \union {Legacy}),
     aside : BOOLEAN, old : SUBSET (Fresh \union {Legacy}), parts : SUBSET Parts]

New == [version |-> 0, table |-> "none", rows |-> {}, aside |-> FALSE, old |-> {}, parts |-> {}]
Old == [New EXCEPT !.table = "narrow", !.rows = {Legacy}]

Places == {"out", "baseline", "look", "rename", "recreate", "copy", "read", "add", "stamp", "ready"}

SchemaInit ==
    /\ disk \in {New, Old} /\ working = disk /\ writer = Nobody
    /\ place = [p \in Runners |-> "out"] /\ next = [p \in Runners |-> 1]
    /\ seen = [p \in Runners |-> {}] /\ breaks = 0

GoTo(p, s) == place' = [place EXCEPT ![p] = s]

View(p) == IF writer = p THEN working ELSE disk

\* A statement waits for the transaction that is open.
MayWrite(p) == writer \in {p, Nobody}

\* A statement outside of a transaction is committed at once, one inside of
\* it with the transaction.
Execute(p, db) == working' = db /\ disk' = IF writer = p THEN disk ELSE db

\* What the first INSERT opens, and what commit ends.
Transact(p, db) == working' = db /\ writer' = p /\ UNCHANGED disk
Commit(p, db)   == disk' = db /\ working' = db /\ writer' = Nobody

-----------------------------------------------------------------------------
(* init_db                                                                 *)

\* Where a migration starts.
StartOf(v) ==
    IF v > Latest THEN "ready"
    ELSE IF v = 1 THEN "baseline"
    ELSE IF v \in ByColumns THEN "read"
    ELSE IF v \in ByScript THEN "add" ELSE "stamp"

\* apply_migrations reads the version once, and works through what it lacks.
Begin(p) ==
    /\ place[p] = "out"
    /\ next' = [next EXCEPT ![p] = disk.version + 1]
    /\ seen' = [seen EXCEPT ![p] = {}]
    /\ GoTo(p, StartOf(disk.version + 1))
    /\ UNCHANGED <<disk, working, writer, breaks>>

\* The exception rolls back what is open, and the process does not start.
Raise(p) ==
    /\ IF writer = p THEN writer' = Nobody /\ working' = disk ELSE UNCHANGED <<writer, working>>
    /\ GoTo(p, "out") /\ UNCHANGED <<disk, next, seen>>

Created(db) == IF db.table = "none" THEN [db EXCEPT !.table = "wide"] ELSE db

\* executescript(_BASELINE_SQL): what is missing is created.
Baseline(p) ==
    /\ place[p] = "baseline" /\ MayWrite(p)
    /\ Execute(p, Created(View(p)))
    /\ GoTo(p, "look") /\ UNCHANGED <<writer, next, seen, breaks>>

\* The CHECK of raw_captures is read: a narrow one has the table rebuilt.
Look(p) ==
    /\ place[p] = "look"
    /\ GoTo(p, IF View(p).table = "narrow" THEN "rename" ELSE "read")
    /\ UNCHANGED <<disk, working, writer, next, seen, breaks>>

RenameOver(p) ==
    /\ place[p] = "rename" /\ MayWrite(p) /\ View(p).table # "none"
    /\ Execute(p, [View(p) EXCEPT !.table = "none", !.rows = {}, !.aside = TRUE,
                                  !.old = View(p).rows, !.parts = @ \ OnCaptures])
    /\ GoTo(p, "recreate") /\ UNCHANGED <<writer, next, seen, breaks>>

\* ALTER TABLE raw_captures RENAME TO _raw_captures_old, committed at once;
\* the columns added since go with the table.
Rename(p) ==
    /\ place[p] = "rename" /\ MayWrite(p)
    /\ IF View(p).table # "none" /\ ~View(p).aside
       THEN /\ Execute(p, [View(p) EXCEPT !.table = "none", !.rows = {}, !.aside = TRUE,
                                          !.old = View(p).rows, !.parts = @ \ OnCaptures])
            /\ GoTo(p, "recreate") /\ UNCHANGED writer
       ELSE Raise(p)
    /\ UNCHANGED <<next, seen, breaks>>

Recreate(p) ==
    /\ place[p] = "recreate" /\ MayWrite(p)
    /\ Execute(p, Created(View(p)))
    /\ GoTo(p, "copy") /\ UNCHANGED <<writer, next, seen, breaks>>

\* INSERT ... SELECT and DROP TABLE, in the transaction the INSERT opens.
Copy(p) ==
    /\ place[p] = "copy" /\ MayWrite(p)
    /\ IF View(p).table # "none" /\ View(p).aside /\ View(p).rows \cap View(p).old = {}
       THEN /\ Transact(p, [View(p) EXCEPT !.rows = @ \union View(p).old, !.aside = FALSE, !.old = {}])
            /\ GoTo(p, "read")
       ELSE Raise(p)
    /\ UNCHANGED <<next, seen, breaks>>

\* PRAGMA table_info: the columns there are.  The baseline and what adds to
\* raw_captures cannot do without that table.
Read(p) ==
    /\ place[p] = "read"
    /\ IF View(p).table = "none" /\ (next[p] = 1 \/ next[p] \in ToCaptures)
       THEN Raise(p)
       ELSE /\ seen' = [seen EXCEPT ![p] = View(p).parts]
            /\ GoTo(p, "add") /\ UNCHANGED <<writer, working>>
    /\ UNCHANGED <<disk, next, breaks>>

Unread(p)  == IF next[p] \in ByColumns THEN {} ELSE View(p).parts

\* What it believes missing; CREATE ... IF NOT EXISTS looks for itself.
Known(p)   == IF next[p] \in ByColumns THEN seen[p] ELSE View(p).parts
AllOrNone(p) == IF PartsOf(next[p]) \cap Known(p) = {} THEN PartsOf(next[p]) ELSE {}
Missing(p) == PartsOf(next[p]) \ Known(p)

\* One ALTER TABLE ... ADD COLUMN, or one CREATE of a script.  A column that
\* came in the meantime is a duplicate, and a table may be away for the while
\* of a rebuild.
Add(p) ==
    /\ place[p] = "add" /\ MayWrite(p) /\ Missing(p) # {}
    /\ \E c \in Missing(p) :
          IF c \in View(p).parts \/ (c \in OnCaptures /\ View(p).table = "none")
          THEN Raise(p)
          ELSE /\ Execute(p, [View(p) EXCEPT !.parts = @ \union {c}])
               /\ seen' = [seen EXCEPT ![p] = @ \union {c}]
               /\ UNCHANGED <<writer, place>>
    /\ UNCHANGED <<next, breaks>>

Added(p) ==
    /\ place[p] = "add" /\ Missing(p) = {}
    /\ GoTo(p, "stamp") /\ UNCHANGED <<disk, working, writer, next, seen, breaks>>

\* The rows of the migration, its version, and the commit of them all.
Stamp(p) ==
    /\ place[p] = "stamp" /\ MayWrite(p)
    /\ Commit(p, [View(p) EXCEPT !.version = next[p]])
    /\ next' = [next EXCEPT ![p] = @ + 1]
    /\ GoTo(p, StartOf(next[p] + 1)) /\ UNCHANGED <<seen, breaks>>

-----------------------------------------------------------------------------
(* What goes wrong, and the use of the database                            *)

\* The lock is not had within the five seconds of the connection.
Locked(p) ==
    /\ breaks < MaxBreaks /\ breaks' = breaks + 1
    /\ place[p] \in {"baseline", "rename", "recreate", "copy", "add", "stamp"} /\ ~MayWrite(p)
    /\ Raise(p)

\* The process is killed: sqlite rolls its transaction back.
Crash(p) ==
    /\ breaks < MaxBreaks /\ breaks' = breaks + 1
    /\ place[p] # "out" /\ Raise(p)

\* A process that is past init_db stores a capture, with the columns of today.
Ingest(p, c) ==
    /\ place[p] = "ready" /\ writer = Nobody
    /\ c \notin disk.rows \union disk.old /\ disk.table # "none" /\ OnCaptures \subseteq disk.parts
    /\ Commit(p, [disk EXCEPT !.rows = @ \union {c}])
    /\ UNCHANGED <<place, next, seen, breaks>>

Steps(p) ==
    \/ Baseline(p) \/ Look(p) \/ Rename(p) \/ Recreate(p) \/ Copy(p)
    \/ Read(p) \/ Add(p) \/ Added(p) \/ Stamp(p)

SchemaNext ==
    \E p \in Runners : Begin(p) \/ Steps(p) \/ Locked(p) \/ Crash(p) \/ \E c \in Fresh : Ingest(p, c)

\* A process goes on with init_db, and what failed to start is started again.
SchemaFairness == \A p \in Runners : WF_schemaVars(Steps(p)) /\ WF_schemaVars(Begin(p))

SchemaSpec     == SchemaInit /\ [][SchemaNext]_schemaVars
SchemaFairSpec == SchemaSpec /\ SchemaFairness

-----------------------------------------------------------------------------
(* Properties                                                              *)

SchemaTypeOK ==
    /\ disk \in Databases /\ working \in Databases /\ writer \in Runners \union {Nobody}
    /\ place \in [Runners -> Places] /\ next \in [Runners -> 1..(Latest + 1)]
    /\ seen \in [Runners -> SUBSET Parts] /\ breaks \in 0..MaxBreaks

\* No migration destroys a capture: whoever migrates at the same time, is
\* killed or gives up on the lock, what was stored is in raw_captures or in
\* the table it is being copied from.
RowsSurvive == [][disk.rows \union disk.old \subseteq (disk.rows \union disk.old)']_schemaVars

\* A process that is past init_db finds all that the latest version has, and
\* no other process takes it away, though it may set the version back.  (A
\* database older than the migrations is excepted: its table may be rebuilt
\* by a second process when the first is past it.)
SchemaIsWhole ==
    Legacy \notin disk.rows \union disk.old =>
        \A p \in Runners : place[p] = "ready" => disk.table = "wide" /\ Parts \subseteq disk.parts

\* Whatever a killed or a racing process left half done, the migrations can
\* be run again: a process that calls init_db gets past it in the end, if
\* need be when it is started again.  (An older database is excepted: once a
\* second rebuild of its table is cut off, the version says that there is a
\* table, and there is none.)
EveryoneStarts ==
    \A p \in Runners :
        place[p] # "out" /\ Legacy \notin disk.rows \union disk.old ~> place[p] = "ready"

\* A database that is at the latest version, with no process still at its
\* migrations, has all its captures in raw_captures
\* (tests/smoke/test_migrations_smoke.py:120 "Legacy row survives").
LegacyRowsInReach ==
    disk.version = Latest /\ (\A p \in Runners : place[p] \in {"out", "ready"}) => disk.old = {}

=============================================================================
