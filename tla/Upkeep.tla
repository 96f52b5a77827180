------------------------------- MODULE Upkeep -------------------------------
(***************************************************************************)
(* What deletes captured data, while captures of a conversation are being  *)
(* stored and normalized: the reset, which spares favourite sessions, and  *)
(* the retention sweep by age and by number of captures.  A statement that *)
(* writes opens a transaction; what a function has read before is not part *)
(* of it.                                                                  *)
(*                                                                         *)
(* A pair stands for its capture rows and for the message they carry; all  *)
(* pairs belong to one conversation.                                       *)
(***************************************************************************)
EXTENDS Integers, FiniteSets

CONSTANTS
    PairIds,        \* capture pairs
    Sids,           \* ids that sessions may get
    DaysOptions,    \* days a sweep is asked to keep, 0 for no limit
    RowsOptions,    \* max_raw_rows a sweep is asked to keep, 0 for no limit
    MaxNow,         \* bound: days that pass
    MaxRuns         \* bound: resets, sweeps and clicks on the favourite button

ASSUME UpkeepAssumption ==
    /\ IsFiniteSet(PairIds) /\ Sids # {}
    /\ DaysOptions \subseteq Nat /\ RowsOptions \subseteq Nat
    /\ MaxNow \in Nat /\ MaxRuns \in Nat

VARIABLES
    now,        \* time.time()
    takenAt,    \* per pair, when it was captured
    captures,   \* raw_captures
    live,       \* sessions
    favorite,   \* sessions with favorited = 1
    stored,     \* messages: pair and session
    work,       \* per pair, where ingest and its persist stand
    sid,        \* per pair, the session its persist has found
    reset,      \* where reset_all_data stands
    favPairs,   \* its fav_pair_ids
    excess,     \* to_delete of a sweep without an age limit, or -1
    runs,       \* history: resets, sweeps and clicks
    promise     \* history: favourite messages with captures as a reset began

upkeepVars == <<now, takenAt, captures, live, favorite, stored, work, sid, reset, favPairs, excess,
                runs, promise>>
tables  == <<captures, live, favorite, stored>>
persist == <<takenAt, work, sid>>
upkeeps == <<reset, favPairs, excess>>

Stages == {"none", "captured", "looked", "create", "found", "done", "dropped"}

UpkeepTypeOK ==
    /\ now \in 0 .. MaxNow /\ takenAt \in [PairIds -> 0 .. MaxNow]
    /\ captures \subseteq PairIds /\ live \subseteq Sids /\ favorite \subseteq live
    /\ stored \subseteq PairIds \X live
    /\ work \in [PairIds -> Stages] /\ sid \in [PairIds -> Sids]
    /\ reset \in {"idle", "read"} /\ favPairs \subseteq PairIds
    /\ excess \in -1 .. Cardinality(PairIds)
    /\ runs \in 0 .. MaxRuns
    /\ promise \subseteq PairIds \X Sids

UpkeepInit ==
    /\ now = 0 /\ takenAt = [p \in PairIds |-> 0]
    /\ captures = {} /\ live = {} /\ favorite = {} /\ stored = {}
    /\ work = [p \in PairIds |-> "none"] /\ sid \in {[p \in PairIds |-> CHOOSE s \in Sids : TRUE]}
    /\ reset = "idle" /\ favPairs = {} /\ excess = -1
    /\ runs = 0 /\ promise = {}

DayPasses ==
    /\ now < MaxNow /\ now' = now + 1
    /\ UNCHANGED <<tables, persist, upkeeps, runs, promise>>

-----------------------------------------------------------------------------
(* insert_capture and the persist of its pair                              *)

Captured(p) ==
    /\ work[p] = "none" /\ work' = [work EXCEPT ![p] = "captured"]
    /\ captures' = captures \cup {p}
    /\ takenAt' = [takenAt EXCEPT ![p] = now]
    /\ UNCHANGED <<now, live, favorite, stored, sid, upkeeps, runs, promise>>

\* query_by_pair
Looks(p) ==
    /\ work[p] = "captured"
    /\ work' = [work EXCEPT ![p] = IF p \in captures THEN "looked" ELSE "dropped"]
    /\ UNCHANGED <<now, takenAt, tables, sid, upkeeps, runs, promise>>

\* find_existing_session
FindsSession(p) ==
    /\ work[p] = "looked"
    /\ \/ \E s \in live : /\ sid' = [sid EXCEPT ![p] = s]
                          /\ work' = [work EXCEPT ![p] = "found"]
       \/ live = {} /\ sid' = sid /\ work' = [work EXCEPT ![p] = "create"]
    /\ UNCHANGED <<now, takenAt, tables, upkeeps, runs, promise>>

\* insert_session: the id has never been used.
CreatesSession(p) ==
    /\ work[p] = "create" /\ work' = [work EXCEPT ![p] = "found"]
    /\ \E s \in Sids \ live :
          /\ \A q \in PairIds : work[q] \in {"found", "done", "dropped"} => sid[q] # s
          /\ live' = live \cup {s} /\ sid' = [sid EXCEPT ![p] = s]
    /\ UNCHANGED <<now, takenAt, captures, favorite, stored, upkeeps, runs, promise>>

\* insert_message: the foreign key refuses a session that has gone, which
\* nobody is told.
InsertsMessage(p) ==
    /\ work[p] = "found"
    /\ IF sid[p] \in live
         THEN /\ stored' = stored \cup {<<p, sid[p]>>} /\ work' = [work EXCEPT ![p] = "done"]
         ELSE /\ stored' = stored /\ work' = [work EXCEPT ![p] = "dropped"]
    /\ UNCHANGED <<now, takenAt, captures, live, favorite, sid, upkeeps, runs, promise>>

-----------------------------------------------------------------------------
(* The user                                                                *)

Run == runs < MaxRuns /\ runs' = runs + 1

\* set_session_favorite
TogglesFavorite(s) ==
    /\ Run /\ s \in live
    /\ favorite' = IF s \in favorite THEN favorite \ {s} ELSE favorite \cup {s}
    /\ promise' = {m \in promise : m[2] # s}
    /\ UNCHANGED <<now, captures, live, stored, persist, upkeeps>>

-----------------------------------------------------------------------------
(* reset_all_data                                                          *)

Favored == {m \in stored : m[2] \in favorite}

ResetReads ==
    /\ Run /\ reset = "idle" /\ reset' = "read"
    /\ favPairs' = {m[1] : m \in Favored}
    /\ promise' = {m \in Favored : m[1] \in captures}
    /\ UNCHANGED <<now, tables, persist, excess>>

\* The captures that survive: all but those linked to favourite messages go.
LinkedNow == {}
Linked == captures \cap favPairs

\* The deletions are one transaction, which looks at the favourites again.
ResetDeletes ==
    /\ reset = "read" /\ reset' = "idle" /\ favPairs' = {}
    /\ stored' = Favored
    /\ live' = favorite
    /\ captures' = Linked
    /\ UNCHANGED <<now, favorite, persist, excess, runs, promise>>

-----------------------------------------------------------------------------
(* sweep_once                                                              *)

\* The n oldest of a set of pairs, in one of the orders their times allow.
Oldest(n, ps) ==
    {old \in SUBSET ps :
        /\ Cardinality(old) = (IF n < Cardinality(ps) THEN n ELSE Cardinality(ps))
        /\ \A p \in old, q \in ps \ old : takenAt[p] <= takenAt[q]}

Over(n, ps) == IF n = 0 \/ Cardinality(ps) <= n THEN 0 ELSE Cardinality(ps) - n

\* _delete_orphan_sessions
Orphaned(msgs) == {s \in live \ favorite : \A m \in msgs : m[2] # s}

\* What is left after the age limit and the deletion of the n oldest captures
\* of the rest.
SweepTo(kept, msgs, n) ==
    \E old \in Oldest(n, kept) :
        /\ captures' = kept \ old
        /\ stored' = msgs
        /\ live' = live \ Orphaned(msgs)
        /\ promise' = {m \in promise : m[1] \in kept \ old /\ m \in msgs}

\* With an age limit everything is one transaction.
Sweeps(days, rows) ==
    LET young == {p \in PairIds : takenAt[p] >= now - days} IN
    /\ Run /\ days > 0
    /\ SweepTo(captures \cap young, {m \in stored : m[1] \in young},
               Over(rows, captures \cap young))
    /\ UNCHANGED <<now, favorite, persist, upkeeps>>

\* Without one, the captures are counted before the transaction.
SweepCounts(rows) ==
    /\ Run /\ excess = -1 /\ rows > 0
    /\ excess' = Over(rows, captures)
    /\ UNCHANGED <<now, tables, persist, reset, favPairs, promise>>

SweepTrims ==
    /\ excess # -1 /\ excess' = -1
    /\ SweepTo(captures, stored, excess)
    /\ UNCHANGED <<now, favorite, persist, reset, favPairs, runs>>

UpkeepNext ==
    \/ DayPasses
    \/ \E p \in PairIds : \/ Captured(p) \/ Looks(p) \/ FindsSession(p)
                          \/ CreatesSession(p) \/ InsertsMessage(p)
    \/ \E s \in Sids : TogglesFavorite(s)
    \/ ResetReads \/ ResetDeletes
    \/ \E days \in DaysOptions, rows \in RowsOptions : Sweeps(days, rows)
    \/ \E rows \in RowsOptions : SweepCounts(rows)
    \/ SweepTrims

UpkeepSpec == UpkeepInit /\ [][UpkeepNext]_upkeepVars

-----------------------------------------------------------------------------
(* Properties                                                              *)

\* What a favourite session had when a reset began is there, message and
\* captures, after it and whatever is stored, swept or favoured meanwhile,
\* unless the session stopped being a favourite or a sweep removed it
\* (reset_all_data).
FavoritesKept == \A m \in promise : m \in stored /\ m[2] \in live /\ m[1] \in captures

=============================================================================
