---------------------------- MODULE Parts_proofs ----------------------------
(***************************************************************************)
(* What Upkeep keeps: its types, and the favourites of the user; what      *)
(* PersistenceWatcher keeps: its types, that marks stand for rows, and     *)
(* that duplicate rows are paid for; and what CaptureRuntime keeps: its    *)
(* types, and that what it takes for sent was given to the background.     *)
(* And what SchemaMigrations keeps: its types, the captures, the schema.   *)
(***************************************************************************)
EXTENDS Upkeep, PersistenceWatcher, CaptureRuntime, SchemaMigrations, FiniteSetTheorems, TLAPS

\* How many captures are over a limit is a number that no set of pairs exceeds.
LEMMA OverBound ==
    ASSUME NEW maxRows \in Nat, NEW ps \in SUBSET PairIds
    PROVE  Over(maxRows, ps) \in 0 .. Cardinality(PairIds)
<1>1. Cardinality(ps) \in Nat /\ Cardinality(PairIds) \in Nat
      /\ Cardinality(ps) <= Cardinality(PairIds)
  BY UpkeepAssumption, FS_CardinalityType, FS_Subset DEF UpkeepAssumption
<1> QED BY <1>1 DEF Over

\* A sweep deletes no session that has a message and no favourite.
LEMMA SweepKeepsSessions ==
    ASSUME UpkeepTypeOK, NEW kept, NEW msgs, msgs \subseteq stored, NEW n,
           kept \subseteq captures, SweepTo(kept, msgs, n)
    PROVE  /\ captures' \subseteq captures
           /\ stored' = msgs /\ live' \subseteq live
           /\ favorite \subseteq live'
           /\ \A m \in msgs : m[2] \in live'
           /\ promise' = {m \in promise : m[1] \in captures' /\ m \in msgs}
<1>1. PICK old \in Oldest(n, kept) :
        /\ captures' = kept \ old
        /\ stored' = msgs
        /\ live' = live \ Orphaned(msgs)
        /\ promise' = {m \in promise : m[1] \in kept \ old /\ m \in msgs}
  BY DEF SweepTo
<1>2. \A m \in msgs : m[2] \in live
  BY DEF UpkeepTypeOK
<1> QED BY <1>1, <1>2 DEF Orphaned, UpkeepTypeOK

\* Every variable keeps its type; a message's session exists.
THEOREM UpkeepTypes == UpkeepSpec => []UpkeepTypeOK
<1> USE UpkeepAssumption DEF UpkeepAssumption
<1>1. UpkeepInit => UpkeepTypeOK
  BY FS_CardinalityType DEF UpkeepInit, UpkeepTypeOK, Stages
<1>2. UpkeepTypeOK /\ [UpkeepNext]_upkeepVars => UpkeepTypeOK'
  <2> SUFFICES ASSUME UpkeepTypeOK, [UpkeepNext]_upkeepVars PROVE UpkeepTypeOK'
    OBVIOUS
  <2> USE DEF UpkeepTypeOK, Stages, tables, persist, upkeeps
  <2>1. CASE DayPasses BY <2>1 DEF DayPasses
  <2>2. ASSUME NEW p \in PairIds, Captured(p) PROVE UpkeepTypeOK'
    BY <2>2 DEF Captured
  <2>3. ASSUME NEW p \in PairIds, Looks(p) PROVE UpkeepTypeOK'
    BY <2>3 DEF Looks
  <2>4. ASSUME NEW p \in PairIds, FindsSession(p) PROVE UpkeepTypeOK'
    <3>1. live \subseteq Sids OBVIOUS
    <3> QED BY <2>4, <3>1 DEF FindsSession
  <2>5. ASSUME NEW p \in PairIds, CreatesSession(p) PROVE UpkeepTypeOK'
    BY <2>5 DEF CreatesSession
  <2>6. ASSUME NEW p \in PairIds, InsertsMessage(p) PROVE UpkeepTypeOK'
    BY <2>6 DEF InsertsMessage
  <2>7. ASSUME NEW s \in Sids, TogglesFavorite(s) PROVE UpkeepTypeOK'
    BY <2>7 DEF TogglesFavorite, Run
  <2>8. CASE ResetReads
    BY <2>8 DEF ResetReads, Favored, Run
  <2>9. CASE ResetDeletes
    BY <2>9 DEF ResetDeletes, Favored, Linked
  <2>10. ASSUME NEW days \in DaysOptions, NEW maxRows \in RowsOptions, Sweeps(days, maxRows)
         PROVE UpkeepTypeOK'
    <3> DEFINE young == {p \in PairIds : takenAt[p] >= now - days}
               left  == {m \in stored : m[1] \in young}
    <3>1. SweepTo(captures \cap young, left, Over(maxRows, captures \cap young))
      BY <2>10 DEF Sweeps
    <3>2. left \subseteq stored /\ captures \cap young \subseteq captures
      OBVIOUS
    <3> HIDE DEF young, left
    <3>3. /\ captures' \subseteq captures
          /\ stored' = left /\ live' \subseteq live
          /\ favorite \subseteq live'
          /\ \A m \in stored' : m[2] \in live'
          /\ promise' \subseteq promise
      BY <3>1, <3>2, SweepKeepsSessions
    <3> QED BY <2>10, <3>2, <3>3 DEF Sweeps, Run
  <2>11. ASSUME NEW maxRows \in RowsOptions, SweepCounts(maxRows) PROVE UpkeepTypeOK'
    <3>1. Over(maxRows, captures) \in 0 .. Cardinality(PairIds)
      BY OverBound
    <3>2. Cardinality(PairIds) \in Nat BY FS_CardinalityType
    <3> QED BY <2>11, <3>1, <3>2 DEF SweepCounts, Run
  <2>12. CASE SweepTrims
    <3>1. SweepTo(captures, stored, excess) /\ excess' = -1
          /\ UNCHANGED <<now, favorite, persist, reset, favPairs, runs>>
      BY <2>12 DEF SweepTrims
    <3>2. /\ captures' \subseteq captures /\ stored' = stored /\ live' \subseteq live
          /\ favorite \subseteq live'
          /\ \A m \in stored : m[2] \in live'
          /\ promise' \subseteq promise
      BY <3>1, SweepKeepsSessions
    <3>3. Cardinality(PairIds) \in Nat BY FS_CardinalityType
    <3> QED BY <3>1, <3>2, <3>3
  <2>13. CASE UNCHANGED upkeepVars BY <2>13 DEF upkeepVars
  <2> QED BY <2>1, <2>2, <2>3, <2>4, <2>5, <2>6, <2>7, <2>8, <2>9, <2>10, <2>11, <2>12, <2>13
          DEF UpkeepNext
<1> QED BY <1>1, <1>2, PTL DEF UpkeepSpec

-----------------------------------------------------------------------------
(* The favourites                                                          *)

\* What was promised is of a session that is still a favourite, and the reset
\* that made the promise has the pair among those it spares.
Promised ==
    \A m \in promise :
        /\ m \in stored /\ m[2] \in favorite /\ m[1] \in captures
        /\ reset = "read" => m[1] \in favPairs

\* What a favourite session had when a reset began is still there, for any
\* captures, sessions, limits and clicks of the user.
THEOREM FavoritesAreKept == UpkeepSpec => []FavoritesKept
<1>1. UpkeepInit => Promised
  BY DEF UpkeepInit, Promised
<1>2. UpkeepTypeOK /\ Promised /\ [UpkeepNext]_upkeepVars => Promised'
  <2> SUFFICES ASSUME UpkeepTypeOK, Promised, [UpkeepNext]_upkeepVars PROVE Promised'
    OBVIOUS
  <2> USE DEF Promised, tables, persist, upkeeps
  <2>1. ASSUME NEW p \in PairIds,
               Captured(p) \/ Looks(p) \/ FindsSession(p) \/ CreatesSession(p) \/ InsertsMessage(p)
        PROVE Promised'
    BY <2>1 DEF Captured, Looks, FindsSession, CreatesSession, InsertsMessage
  <2>2. CASE DayPasses BY <2>2 DEF DayPasses
  <2>3. ASSUME NEW s \in Sids, TogglesFavorite(s) PROVE Promised'
    BY <2>3 DEF TogglesFavorite
  <2>4. CASE ResetReads BY <2>4 DEF ResetReads, Favored
  <2>5. CASE ResetDeletes BY <2>5 DEF ResetDeletes, Favored, Linked
  <2>6. ASSUME NEW days \in DaysOptions, NEW maxRows \in RowsOptions, Sweeps(days, maxRows)
        PROVE Promised'
    <3> DEFINE young == {p \in PairIds : takenAt[p] >= now - days}
               left  == {m \in stored : m[1] \in young}
    <3>1. SweepTo(captures \cap young, left, Over(maxRows, captures \cap young))
          /\ UNCHANGED <<now, favorite, persist, upkeeps>>
      BY <2>6 DEF Sweeps
    <3>2. left \subseteq stored /\ captures \cap young \subseteq captures
      OBVIOUS
    <3> HIDE DEF young, left
    <3>3. /\ stored' = left
          /\ \A m \in promise' : m \in promise /\ m[1] \in captures' /\ m \in left
      BY <3>1, <3>2, SweepKeepsSessions
    <3> QED BY <3>1, <3>3
  <2>7. ASSUME NEW maxRows \in RowsOptions, SweepCounts(maxRows) PROVE Promised'
    BY <2>7 DEF SweepCounts
  <2>8. CASE SweepTrims
    <3>1. SweepTo(captures, stored, excess)
          /\ UNCHANGED <<now, favorite, persist, reset, favPairs, runs>>
      BY <2>8 DEF SweepTrims
    <3>2. /\ stored' = stored
          /\ promise' = {m \in promise : m[1] \in captures' /\ m \in stored}
      BY <3>1, SweepKeepsSessions
    <3> QED BY <3>1, <3>2
  <2>9. CASE UNCHANGED upkeepVars BY <2>9 DEF upkeepVars
  <2> QED BY <2>1, <2>2, <2>3, <2>4, <2>5, <2>6, <2>7, <2>8, <2>9 DEF UpkeepNext
<1>3. UpkeepTypeOK /\ Promised => FavoritesKept
  BY DEF UpkeepTypeOK, Promised, FavoritesKept
<1> QED BY <1>1, <1>2, <1>3, UpkeepTypes, PTL DEF UpkeepSpec

-----------------------------------------------------------------------------
(* The watcher                                                             *)

\* A reader is at most as many indices ahead as it has passed lines.
Behind == \A p \in Processes : shift[p] <= at[p]

\* What an observation leaves: types, and the marks it adds.
LEMMA ObservationTypes ==
    ASSUME WatchTypeOK, NEW p \in Processes, NEW r \in Records, NEW key \in Marks,
           Observes(p, r, key)
    PROVE  /\ mem' \in [Processes -> SUBSET Marks]
           /\ rows' \in [Records -> Nat] /\ dropped' \subseteq Records
           /\ slips' \in Nat /\ faults' \in 0 .. MaxFaults
  BY WatcherAssumption DEF Observes, Fault, WatchTypeOK, WatcherAssumption

\* The key of a line is a mark, also when its index has moved.
LEMMA LineKeys ==
    ASSUME NEW l \in Logs, NEW n \in 1 .. MaxLines, NEW ahead \in 0 .. MaxLines
    PROVE  /\ <<l, n>> \in Records /\ <<l, n>> \in Marks
           /\ LineKey(l, n, ahead) \in Marks
<1>1. n + ahead \in 1 .. 2 * MaxLines /\ n \in 1 .. 2 * MaxLines
  BY WatcherAssumption DEF WatcherAssumption
<1> QED BY <1>1 DEF LineKey, Records, Marks

\* Every variable of the watcher keeps its type.
THEOREM WatchTypes == WatchSpec => [](WatchTypeOK /\ Behind)
<1> USE WatcherAssumption DEF WatcherAssumption, Sources
<1>1. WatchInit => WatchTypeOK /\ Behind
  BY DEF WatchInit, WatchTypeOK, Behind
<1>2. WatchTypeOK /\ Behind /\ [WatchNext]_watchVars => WatchTypeOK' /\ Behind'
  <2> SUFFICES ASSUME WatchTypeOK, Behind, [WatchNext]_watchVars PROVE WatchTypeOK' /\ Behind'
    OBVIOUS
  <2> USE DEF WatchTypeOK, Behind, files, cursor
  <2>1. CASE AppWrites
    <3>1. lines' \in [Logs -> 0 .. MaxLines] /\ torn' \in [Logs -> BOOLEAN]
      <4>1. ASSUME NEW l \in Logs, lines[l] < MaxLines,
                   lines' = lines \/ lines' = [lines EXCEPT ![l] = @ + 1]
            PROVE  lines' \in [Logs -> 0 .. MaxLines]
        BY <4>1
      <4>2. ASSUME NEW l \in Logs,
                   \/ torn' = [torn EXCEPT ![l] = TRUE]
                   \/ torn' = [torn EXCEPT ![l] = FALSE]
            PROVE  torn' \in [Logs -> BOOLEAN]
        BY <4>2
      <4> QED BY <2>1, <4>1, <4>2 DEF AppWrites
    <3>2. shown' \in [Snapshots -> Contents \cup {Broken}]
      BY <2>1 DEF AppWrites
    <3> QED BY <2>1, <3>1, <3>2 DEF AppWrites
  <2>2. ASSUME NEW p \in Processes, PassBegins(p) \/ PassBeginsFresh(p)
        PROVE  WatchTypeOK' /\ Behind'
    BY <2>2 DEF PassBegins, PassBeginsFresh, Fault
  <2>3. ASSUME NEW p \in Processes, Opens(p) PROVE WatchTypeOK' /\ Behind'
    BY <2>3 DEF Opens
  <2>4. ASSUME NEW p \in Processes, ReadsLine(p) PROVE WatchTypeOK' /\ Behind'
    <3>1. /\ source[p] \in Logs /\ at[p] + 1 \in 1 .. MaxLines
          /\ shift[p] \in 0 .. MaxLines /\ shift[p] + 1 \in 1 .. MaxLines
      BY <2>4 DEF ReadsLine
    <3>2. at' \in [Processes -> 0 .. MaxLines] /\ half' \in [Processes -> BOOLEAN]
      BY <2>4, <3>1 DEF ReadsLine
    <3>3. shift' \in [Processes -> 0 .. MaxLines] /\ Behind'
      BY <2>4, <3>1 DEF ReadsLine
    <3>4. /\ mem' \in [Processes -> SUBSET Marks]
          /\ rows' \in [Records -> Nat] /\ dropped' \subseteq Records
          /\ slips' \in Nat /\ faults' \in 0 .. MaxFaults
      <4>1. CASE half[p] BY <2>4, <4>1 DEF ReadsLine
      <4>2. CASE ~half[p]
        BY <2>4, <4>2, <3>1, LineKeys, ObservationTypes DEF ReadsLine
      <4> QED BY <4>1, <4>2
    <3> QED BY <2>4, <3>2, <3>3, <3>4 DEF ReadsLine
  <2>5. ASSUME NEW p \in Processes, ReadsTorn(p) PROVE WatchTypeOK' /\ Behind'
    BY <2>5 DEF ReadsTorn, PassesOver
  <2>6. ASSUME NEW p \in Processes, Closes(p) PROVE WatchTypeOK' /\ Behind'
    BY <2>6 DEF Closes, Leaves
  <2>7. ASSUME NEW p \in Processes, ReadsSnapshot(p) PROVE WatchTypeOK' /\ Behind'
    <3>1. PICK s \in todo[p] \cap Snapshots :
            /\ todo' = [todo EXCEPT ![p] = @ \ {s}]
            /\ IF shown[s] = Broken THEN UNCHANGED <<mem, rows, dropped, slips, faults>>
               ELSE Observes(p, <<s, shown[s]>>, <<s, shown[s]>>)
      BY <2>7 DEF ReadsSnapshot
    <3>2. shown[s] # Broken => <<s, shown[s]>> \in Records /\ <<s, shown[s]>> \in Marks
      BY DEF Records, Marks
    <3>3. /\ mem' \in [Processes -> SUBSET Marks]
          /\ rows' \in [Records -> Nat] /\ dropped' \subseteq Records
          /\ slips' \in Nat /\ faults' \in 0 .. MaxFaults
      BY <3>1, <3>2, ObservationTypes
    <3> QED BY <2>7, <3>1, <3>3 DEF ReadsSnapshot
  <2>8. ASSUME NEW p \in Processes, SourceFails(p) PROVE WatchTypeOK' /\ Behind'
    <3>1. todo' \in [Processes -> SUBSET Sources]
      <4>1. CASE todo' = todo BY <4>1
      <4>2. ASSUME NEW skipped, todo' = [todo EXCEPT ![p] = @ \ skipped]
            PROVE  todo' \in [Processes -> SUBSET Sources]
        <5>1. todo[p] \ skipped \subseteq Sources OBVIOUS
        <5> QED BY <4>2, <5>1
      <4> QED BY <2>8, <4>1, <4>2 DEF SourceFails
    <3>2. /\ Leaves(p) /\ Fault(FALSE)
          /\ UNCHANGED <<files, saved, stage, mem, rows, dropped>>
      BY <2>8 DEF SourceFails
    <3> QED BY <3>1, <3>2 DEF Leaves, Fault
  <2>9. ASSUME NEW p \in Processes, PassEnds(p) \/ SaveFails(p) PROVE WatchTypeOK' /\ Behind'
    BY <2>9 DEF PassEnds, SaveFails, Ends, Flushed, Fault
  <2>10. ASSUME NEW p \in Processes, Crashes(p) PROVE WatchTypeOK' /\ Behind'
    BY <2>10 DEF Crashes, Leaves, Fault
  <2>11. CASE UNCHANGED watchVars BY <2>11 DEF watchVars
  <2> QED BY <2>1, <2>2, <2>3, <2>4, <2>5, <2>6, <2>7, <2>8, <2>9, <2>10, <2>11
          DEF WatchNext, ScanSteps
<1> QED BY <1>1, <1>2, PTL DEF WatchSpec

\* What a set of marks stands for: rows, or inserts that failed.
Backed(marks) ==
    \A r \in marks : r[1] \notin BareLogs \/ slips = 0 =>
        r \in Records /\ (rows[r] > 0 \/ r \in dropped)

\* A reader's index has moved only if its lines have a uuid or a slip was
\* counted; one that is closed, or whose process rests, has no index.
Steady ==
    \A p \in Processes :
        /\ shift[p] > 0 => source[p] \in UuidLogs \/ slips > 0
        /\ source[p] = Nowhere => shift[p] = 0
        /\ stage[p] = "idle" => source[p] = Nowhere

\* The marks in memory stand for rows like those of the state file.
MarksBacked == Backed(saved) /\ \A p \in Processes : Backed(mem[p])

\* Rows, failed inserts and slips only ever come to be more.
LEMMA BackedLasts ==
    ASSUME WatchTypeOK, NEW marks, Backed(marks), slips' = slips \/ slips' = slips + 1,
           dropped \subseteq dropped', \A r \in Records : rows'[r] >= rows[r],
           rows' \in [Records -> Nat]
    PROVE  \A r \in marks : r[1] \notin BareLogs \/ slips' = 0 =>
               r \in Records /\ (rows'[r] > 0 \/ r \in dropped')
<1>1. slips' = 0 => slips = 0
  BY DEF WatchTypeOK
<1>2. \A r \in Records : rows[r] \in Nat /\ rows'[r] \in Nat
  BY DEF WatchTypeOK
<1> QED BY <1>1, <1>2 DEF Backed

\* An observation under the record's own key, or under a moved one of a log
\* that counts slips, marks what it has stored or failed to.
LEMMA ObservationBacked ==
    ASSUME WatchTypeOK, MarksBacked, NEW p \in Processes, NEW r \in Records, NEW key \in Marks,
           Observes(p, r, key), key = r \/ (key[1] \in BareLogs /\ slips > 0), saved' = saved
    PROVE  MarksBacked' /\ slips' = slips
<1>1. /\ slips' = slips /\ dropped \subseteq dropped'
      /\ rows' \in [Records -> Nat] /\ \A x \in Records : rows'[x] >= rows[x]
  BY DEF Observes, Fault, WatchTypeOK
<1>2. Backed(saved)'
  BY <1>1, BackedLasts DEF MarksBacked, Backed
<1>3. ASSUME NEW q \in Processes, NEW x \in mem'[q], x[1] \notin BareLogs \/ slips' = 0
      PROVE  x \in Records /\ (rows'[x] > 0 \/ x \in dropped')
  <2>1. CASE x \in mem[q] BY <1>1, <1>3, <2>1, BackedLasts DEF MarksBacked
  <2>2. CASE x \notin mem[q]
    <3>1. q = p /\ x = key /\ (rows' = [rows EXCEPT ![r] = @ + 1] \/ dropped' = dropped \cup {r})
      <4>1. mem' # mem BY <1>3, <2>2
      <4>2. /\ mem' = [mem EXCEPT ![p] = @ \cup {key}]
            /\ rows' = [rows EXCEPT ![r] = @ + 1] \/ dropped' = dropped \cup {r}
        BY <4>1 DEF Observes
      <4> QED BY <1>3, <2>2, <4>2 DEF WatchTypeOK
    <3>2. x = r BY <1>1, <1>3, <3>1
    <3> QED BY <3>1, <3>2 DEF WatchTypeOK
  <2> QED BY <2>1, <2>2
<1> QED BY <1>1, <1>2, <1>3 DEF MarksBacked, Backed

\* Indices are steady and marks are backed at the start, and every step keeps
\* it so.
LEMMA BackedStart == WatchInit => Steady /\ MarksBacked
  BY WatcherAssumption DEF WatcherAssumption, WatchInit, Steady, MarksBacked, Backed

LEMMA BackedStep ==
    WatchTypeOK /\ Behind /\ Steady /\ MarksBacked /\ [WatchNext]_watchVars
      => Steady' /\ MarksBacked'
<1> USE WatcherAssumption DEF WatcherAssumption
<1> SUFFICES ASSUME WatchTypeOK, Behind, Steady, MarksBacked, [WatchNext]_watchVars
             PROVE  Steady' /\ MarksBacked'
  OBVIOUS
<1> USE DEF files, cursor
\* A step that adds no mark leaves every set of marks backed.
<1>0. ASSUME \A p \in Processes : mem'[p] \in {mem[p], saved, {}},
             saved' = saved \/ \E p \in Processes : saved' = mem[p],
             slips' = slips \/ slips' = slips + 1, UNCHANGED <<rows, dropped>>
      PROVE  MarksBacked'
  <2>1. rows' \in [Records -> Nat] /\ \A r \in Records : rows'[r] >= rows[r]
    BY <1>0 DEF WatchTypeOK
  <2>2. ASSUME NEW marks, Backed(marks), NEW r \in marks, r[1] \notin BareLogs \/ slips' = 0
        PROVE  r \in Records /\ (rows'[r] > 0 \/ r \in dropped')
    BY <1>0, <2>1, <2>2, BackedLasts
  <2>3. ASSUME NEW p \in Processes, NEW r \in mem'[p], r[1] \notin BareLogs \/ slips' = 0
        PROVE  r \in Records /\ (rows'[r] > 0 \/ r \in dropped')
    BY <1>0, <2>2, <2>3 DEF MarksBacked
  <2>4. ASSUME NEW r \in saved', r[1] \notin BareLogs \/ slips' = 0
        PROVE  r \in Records /\ (rows'[r] > 0 \/ r \in dropped')
    BY <1>0, <2>2, <2>4 DEF MarksBacked
  <2> QED BY <2>3, <2>4 DEF MarksBacked, Backed
<1>1. CASE AppWrites
  <2>1. UNCHANGED <<saved, stage, mem, source, shift, rows, dropped, slips>>
    BY <1>1 DEF AppWrites
  <2> QED BY <1>0, <2>1 DEF Steady
<1>2. ASSUME NEW p \in Processes, PassBegins(p) \/ PassBeginsFresh(p)
      PROVE  Steady' /\ MarksBacked'
  <2>1. /\ slips' = slips \/ slips' = slips + 1
        /\ mem' = [mem EXCEPT ![p] = saved] \/ mem' = [mem EXCEPT ![p] = {}]
        /\ stage' = [stage EXCEPT ![p] = "scanning"]
        /\ UNCHANGED <<saved, source, shift, rows, dropped>>
    BY <1>2 DEF PassBegins, PassBeginsFresh, Fault
  <2>2. MarksBacked' BY <1>0, <2>1 DEF WatchTypeOK
  <2>3. Steady' BY <2>1 DEF Steady, WatchTypeOK
  <2> QED BY <2>2, <2>3
<1>3. ASSUME NEW p \in Processes, Opens(p) PROVE Steady' /\ MarksBacked'
  <2>1. MarksBacked' BY <1>0, <1>3 DEF Opens
  <2>2. Steady'
    BY <1>3 DEF Opens, Steady, WatchTypeOK, Sources
  <2> QED BY <2>1, <2>2
<1>4. ASSUME NEW p \in Processes, ReadsLine(p) PROVE Steady' /\ MarksBacked'
  <2>1. /\ source[p] \in Logs /\ at[p] + 1 \in 1 .. MaxLines /\ shift[p] \in 0 .. MaxLines
        /\ UNCHANGED <<saved, stage, source>>
    BY <1>4 DEF ReadsLine, WatchTypeOK
  <2>2. CASE half[p]
    <3>1. /\ UNCHANGED <<mem, rows, dropped>>
          /\ shift' = [shift EXCEPT ![p] = @ + 1]
          /\ slips' = IF source[p] \in BareLogs THEN slips + 1 ELSE slips
      BY <1>4, <2>2 DEF ReadsLine
    <3>2. MarksBacked' BY <1>0, <2>1, <3>1
    <3>3. Steady' BY <2>1, <3>1 DEF Steady, WatchTypeOK, Logs, Sources
    <3> QED BY <3>2, <3>3
  <2>3. CASE ~half[p]
    <3> DEFINE r   == <<source[p], at[p] + 1>>
               key == LineKey(source[p], at[p] + 1, shift[p])
    <3>1. shift' = shift /\ Observes(p, r, key)
      BY <1>4, <2>3 DEF ReadsLine
    <3>2. r \in Records /\ key \in Marks
      BY <2>1, LineKeys
    <3>3. key = r \/ (key[1] \in BareLogs /\ slips > 0)
      BY <2>1 DEF LineKey, Steady, Logs, WatchTypeOK
    <3> HIDE DEF r, key
    <3>4. MarksBacked' /\ slips' = slips
      BY <2>1, <3>1, <3>2, <3>3, ObservationBacked
    <3> QED BY <2>1, <3>1, <3>4 DEF Steady
  <2> QED BY <2>2, <2>3
<1>5. ASSUME NEW p \in Processes, ReadsTorn(p) PROVE Steady' /\ MarksBacked'
  <2>1. UNCHANGED <<saved, stage, source, shift, rows, dropped, slips>> /\ mem' = mem
    BY <1>5 DEF ReadsTorn, PassesOver
  <2> QED BY <1>0, <2>1 DEF Steady
<1>6. ASSUME NEW p \in Processes, Closes(p) PROVE Steady' /\ MarksBacked'
  <2>1. MarksBacked' BY <1>0, <1>6 DEF Closes
  <2>2. Steady' BY <1>6 DEF Closes, Leaves, Steady, WatchTypeOK
  <2> QED BY <2>1, <2>2
<1>7. ASSUME NEW p \in Processes, ReadsSnapshot(p) PROVE Steady' /\ MarksBacked'
  <2>1. PICK s \in todo[p] \cap Snapshots :
          IF shown[s] = Broken THEN UNCHANGED <<mem, rows, dropped, slips, faults>>
          ELSE Observes(p, <<s, shown[s]>>, <<s, shown[s]>>)
    BY <1>7 DEF ReadsSnapshot
  <2>2. shown[s] # Broken => <<s, shown[s]>> \in Records /\ <<s, shown[s]>> \in Marks
    BY DEF Records, Marks, WatchTypeOK
  <2>3. UNCHANGED <<saved, stage, source, shift>>
    BY <1>7 DEF ReadsSnapshot
  <2>4. MarksBacked' /\ slips' = slips
    BY <1>0, <2>1, <2>2, <2>3, ObservationBacked
  <2> QED BY <2>3, <2>4 DEF Steady
<1>8. ASSUME NEW p \in Processes, SourceFails(p) PROVE Steady' /\ MarksBacked'
  <2>1. /\ Leaves(p) /\ slips' = slips
        /\ UNCHANGED <<saved, stage, mem, rows, dropped>>
    BY <1>8 DEF SourceFails, Fault
  <2>2. MarksBacked' BY <1>0, <2>1
  <2>3. Steady' BY <2>1 DEF Leaves, Steady, WatchTypeOK
  <2> QED BY <2>2, <2>3
<1>9. ASSUME NEW p \in Processes, PassEnds(p) \/ SaveFails(p) PROVE Steady' /\ MarksBacked'
  <2>1. /\ slips' = slips \/ slips' = slips + 1
        /\ saved' = saved \/ saved' = mem[p]
        /\ mem' = [mem EXCEPT ![p] = {}]
        /\ source[p] = Nowhere /\ stage' = [stage EXCEPT ![p] = "idle"]
        /\ UNCHANGED <<source, shift, rows, dropped>>
    BY <1>9 DEF PassEnds, SaveFails, Ends, Flushed, Fault
  <2>2. MarksBacked' BY <1>0, <2>1 DEF WatchTypeOK
  <2>3. Steady' BY <2>1 DEF Steady, WatchTypeOK
  <2> QED BY <2>2, <2>3
<1>10. ASSUME NEW p \in Processes, Crashes(p) PROVE Steady' /\ MarksBacked'
  <2>1. /\ slips' = slips \/ slips' = slips + 1
        /\ mem' = [mem EXCEPT ![p] = {}] /\ stage' = [stage EXCEPT ![p] = "idle"]
        /\ Leaves(p) /\ UNCHANGED <<saved, rows, dropped>>
    BY <1>10 DEF Crashes, Fault
  <2>2. MarksBacked' BY <1>0, <2>1 DEF WatchTypeOK
  <2>3. Steady' BY <2>1 DEF Leaves, Steady, WatchTypeOK
  <2> QED BY <2>2, <2>3
<1>11. CASE UNCHANGED watchVars
  <2>1. UNCHANGED <<saved, stage, mem, source, shift, rows, dropped, slips>>
    BY <1>11 DEF watchVars
  <2> QED BY <1>0, <2>1 DEF Steady
<1> QED BY <1>1, <1>2, <1>3, <1>4, <1>5, <1>6, <1>7, <1>8, <1>9, <1>10, <1>11
        DEF WatchNext, ScanSteps

\* What the state file says was emitted is in the database, unless its insert
\* failed, for any logs, snapshots, processes and faults (_write, _mark_emitted).
THEOREM MarksStandForRows == WatchSpec => []MarkedIsStored
<1>1. MarksBacked => MarkedIsStored
  BY DEF MarksBacked, Backed, MarkedIsStored
<1> QED BY <1>1, BackedStart, BackedStep, WatchTypes, PTL DEF WatchSpec

-----------------------------------------------------------------------------
(* What a duplicate row costs                                              *)

\* The processes whose pass will save, and those of them that will insert a
\* record (again) when they come to it: its mark is missing, or a moved index
\* gives it another mark.
Active == {p \in Processes \ dry : stage[p] = "scanning"}
Unaware(r) == {p \in Active : r \notin mem[p]}
Moved(r) ==
    {p \in Active : /\ source[p] = r[1] /\ r[1] \in BareLogs
                    /\ at[p] < r[2] /\ shift[p] > 0
                    /\ <<r[1], r[2] + shift[p]>> \notin mem[p]}

\* How many rows a record may still get without another slip.
Due(r) ==
    IF Active = {} THEN (IF r \in saved THEN 0 ELSE 1)
    ELSE Cardinality(Unaware(r)) + Cardinality(Moved(r))

PaidFor(r) == rows[r] + Due(r) <= 1 + slips

\* A set of processes with one more, and with one less.
LEMMA ProcessSets ==
    ASSUME NEW A \in SUBSET Processes, NEW B \in SUBSET Processes, NEW p
    PROVE  /\ Cardinality(A) \in Nat /\ Cardinality(B) \in Nat
           /\ B \subseteq A => Cardinality(B) <= Cardinality(A)
           /\ B \subseteq A \cup {p} => Cardinality(B) <= Cardinality(A) + 1
           /\ p \in A /\ B \subseteq A \ {p} => Cardinality(B) + 1 <= Cardinality(A)
           /\ B = {} => Cardinality(B) = 0
<1>1. IsFiniteSet(A) /\ IsFiniteSet(B)
  BY WatcherAssumption, FS_Subset DEF WatcherAssumption
<1>2. Cardinality(A) \in Nat /\ Cardinality(B) \in Nat
  BY <1>1, FS_CardinalityType
<1>3. B \subseteq A => Cardinality(B) <= Cardinality(A)
  BY <1>1, FS_Subset
<1>4. B \subseteq A \cup {p} => Cardinality(B) <= Cardinality(A) + 1
  <2>1. /\ IsFiniteSet(A \cup {p})
        /\ Cardinality(A \cup {p}) = IF p \in A THEN Cardinality(A) ELSE Cardinality(A) + 1
    BY <1>1, FS_AddElement
  <2>2. B \subseteq A \cup {p} => Cardinality(B) <= Cardinality(A \cup {p})
    BY <2>1, FS_Subset
  <2> QED BY <1>2, <2>1, <2>2
<1>5. p \in A /\ B \subseteq A \ {p} => Cardinality(B) + 1 <= Cardinality(A)
  <2>1. /\ IsFiniteSet(A \ {p})
        /\ Cardinality(A \ {p}) = IF p \in A THEN Cardinality(A) - 1 ELSE Cardinality(A)
    BY <1>1, FS_RemoveElement
  <2>2. B \subseteq A \ {p} => Cardinality(B) <= Cardinality(A \ {p})
    BY <2>1, FS_Subset
  <2> QED BY <1>2, <2>1, <2>2
<1>6. B = {} => Cardinality(B) = 0
  BY FS_EmptySet
<1> QED BY <1>2, <1>3, <1>4, <1>5, <1>6

\* What is due changes with the processes that have a record before them.
LEMMA DueChanges ==
    ASSUME NEW r, NEW p
    PROVE  /\ Due(r) \in Nat /\ Due(r)' \in Nat
           /\ Unaware(r) \subseteq Processes /\ Moved(r) \subseteq Processes
           /\ Active # {} /\ Active' # {} =>
                /\ Unaware(r)' \subseteq Unaware(r) /\ Moved(r)' \subseteq Moved(r)
                     => Due(r)' <= Due(r)
                /\ Unaware(r)' \subseteq Unaware(r) \cup {p} /\ Moved(r)' \subseteq Moved(r)
                     => Due(r)' <= Due(r) + 1
                /\ Unaware(r)' \subseteq Unaware(r) /\ Moved(r)' \subseteq Moved(r) \cup {p}
                     => Due(r)' <= Due(r) + 1
                /\ p \in Unaware(r) /\ Unaware(r)' \subseteq Unaware(r) \ {p} /\ Moved(r)' \subseteq Moved(r)
                     => Due(r)' + 1 <= Due(r)
                /\ p \in Moved(r) /\ Unaware(r)' \subseteq Unaware(r) /\ Moved(r)' \subseteq Moved(r) \ {p}
                     => Due(r)' + 1 <= Due(r)
<1>1. /\ Unaware(r) \subseteq Processes /\ Moved(r) \subseteq Processes
      /\ Unaware(r)' \subseteq Processes /\ Moved(r)' \subseteq Processes
  BY DEF Unaware, Moved, Active
<1> DEFINE U == Unaware(r)
           M == Moved(r)
           V == Unaware(r)'
           N == Moved(r)'
<1>2. /\ Due(r) = IF Active = {} THEN (IF r \in saved THEN 0 ELSE 1) ELSE Cardinality(U) + Cardinality(M)
      /\ Due(r)' = IF Active' = {} THEN (IF r \in saved' THEN 0 ELSE 1)
                   ELSE Cardinality(V) + Cardinality(N)
  BY DEF Due
<1>3. U \in SUBSET Processes /\ M \in SUBSET Processes /\ V \in SUBSET Processes /\ N \in SUBSET Processes
  BY <1>1
<1> HIDE DEF U, M, V, N
<1>4. /\ Cardinality(U) \in Nat /\ Cardinality(V) \in Nat
      /\ V \subseteq U => Cardinality(V) <= Cardinality(U)
      /\ V \subseteq U \cup {p} => Cardinality(V) <= Cardinality(U) + 1
      /\ p \in U /\ V \subseteq U \ {p} => Cardinality(V) + 1 <= Cardinality(U)
  BY <1>3, ProcessSets
<1>5. /\ Cardinality(M) \in Nat /\ Cardinality(N) \in Nat
      /\ N \subseteq M => Cardinality(N) <= Cardinality(M)
      /\ N \subseteq M \cup {p} => Cardinality(N) <= Cardinality(M) + 1
      /\ p \in M /\ N \subseteq M \ {p} => Cardinality(N) + 1 <= Cardinality(M)
  BY <1>3, ProcessSets
<1>6. /\ Due(r) \in Nat /\ Due(r)' \in Nat
      /\ Active # {} /\ Active' # {} =>
           /\ V \subseteq U /\ N \subseteq M => Due(r)' <= Due(r)
           /\ V \subseteq U \cup {p} /\ N \subseteq M => Due(r)' <= Due(r) + 1
           /\ V \subseteq U /\ N \subseteq M \cup {p} => Due(r)' <= Due(r) + 1
           /\ p \in U /\ V \subseteq U \ {p} /\ N \subseteq M => Due(r)' + 1 <= Due(r)
           /\ p \in M /\ N \subseteq M \ {p} /\ V \subseteq U => Due(r)' + 1 <= Due(r)
  BY <1>2, <1>4, <1>5
<1> QED BY <1>1, <1>6 DEF U, M, V, N

\* A record is observed: it gets a row only from a process to which one is
\* due; what is due for the others can only fall.
LEMMA ObservationIsDue ==
    ASSUME WatchTypeOK, Steady, NEW p \in Processes, stage[p] = "scanning",
           NEW o \in Records, NEW key \in Marks, Observes(p, o, key),
           UNCHANGED <<dry, saved, stage, source, shift>>,
           \A q \in Processes : at'[q] >= at[q] /\ at'[q] \in Nat,
           \/ key = o
           \/ /\ source[p] = o[1] /\ o[1] \in BareLogs /\ shift[p] > 0
              /\ key = <<o[1], o[2] + shift[p]>>
              /\ at[p] < o[2] /\ at'[p] = o[2],
           NEW r \in Records, PaidFor(r)
    PROVE  PaidFor(r)'
<1> USE DEF WatchTypeOK
<1>0. rows[r] \in Nat /\ rows'[r] \in Nat /\ slips' = slips /\ slips \in Nat
  BY DEF Observes, Fault
<1>1. Active' = Active
  BY DEF Active
<1>2. \A q \in Processes : mem[q] \subseteq mem'[q]
  BY DEF Observes
<1>3. Unaware(r)' \subseteq Unaware(r)
  BY <1>1, <1>2 DEF Unaware, Active
<1>4. r[1] \in BareLogs => r[2] \in Nat
  BY WatcherAssumption DEF Records, Logs, WatcherAssumption
<1>5. Moved(r)' \subseteq Moved(r)
  <2> SUFFICES ASSUME NEW q \in Moved(r)' PROVE q \in Moved(r)
    OBVIOUS
  <2>1. /\ q \in Active /\ q \in Processes /\ source[q] = r[1] /\ r[1] \in BareLogs
        /\ at'[q] < r[2] /\ shift[q] > 0 /\ <<r[1], r[2] + shift[q]>> \notin mem'[q]
    BY <1>1 DEF Moved, Active
  <2>2. at[q] < r[2]
    <3>1. at[q] \in Nat /\ at'[q] \in Nat /\ at'[q] >= at[q] /\ r[2] \in Nat
      BY <1>4, <2>1
    <3> QED BY <2>1, <3>1
  <2> QED BY <1>2, <2>1, <2>2 DEF Moved
<1>6. CASE rows'[r] = rows[r]
  <2>1. Active # {} => Due(r)' <= Due(r)
    BY <1>1, <1>3, <1>5, DueChanges
  <2>2. Active = {} => Due(r)' = Due(r)
    BY <1>1 DEF Due
  <2>3. Due(r) \in Nat /\ Due(r)' \in Nat
    BY DueChanges
  <2> QED BY <1>0, <1>6, <2>1, <2>2, <2>3 DEF PaidFor
<1>7. CASE rows'[r] # rows[r]
  <2>1. /\ p \in Active /\ key \notin mem[p] /\ mem' = [mem EXCEPT ![p] = @ \cup {key}]
        /\ r = o /\ rows'[r] = rows[r] + 1
    BY <1>7 DEF Observes, Active
  <2>2. Due(r)' + 1 <= Due(r)
    <3>1. CASE key = o
      <4>1. p \in Unaware(r) /\ p \notin Unaware(r)'
        BY <2>1, <3>1 DEF Unaware
      <4> QED BY <1>1, <1>3, <1>5, <2>1, <4>1, DueChanges
    <3>2. CASE key # o
      <4>1. p \in Moved(r)
        BY <2>1, <3>2 DEF Moved
      <4>2. p \notin Moved(r)'
        BY <2>1, <3>2, <1>4 DEF Moved
      <4> QED BY <1>1, <1>3, <1>5, <2>1, <4>1, <4>2, DueChanges
    <3> QED BY <3>1, <3>2
  <2>3. Due(r) \in Nat /\ Due(r)' \in Nat
    BY DueChanges
  <2> QED BY <1>0, <2>1, <2>2, <2>3 DEF PaidFor
<1> QED BY <1>6, <1>7

\* A process leaves its pass, with or without saving: what is due falls, or
\* grows by the record the state file does not have, at the price of a slip.
LEMMA EndingIsPaid ==
    ASSUME WatchTypeOK, NEW p \in Processes, stage[p] = "scanning",
           stage' = [stage EXCEPT ![p] = "idle"], UNCHANGED <<dry, rows>>,
           \A q \in Processes \ {p} :
               mem'[q] = mem[q] /\ source'[q] = source[q] /\ shift'[q] = shift[q] /\ at'[q] = at[q],
           \/ saved' = (IF p \in dry THEN saved ELSE mem[p]) /\ slips' = slips
           \/ saved' = saved /\ slips' = (IF p \in dry THEN slips ELSE slips + 1),
           NEW r \in Records, PaidFor(r)
    PROVE  PaidFor(r)'
<1> USE DEF WatchTypeOK
<1>0. /\ rows[r] \in Nat /\ rows'[r] = rows[r] /\ slips \in Nat
      /\ Due(r) \in Nat /\ Due(r)' \in Nat
  BY DueChanges
<1>1. Active' = Active \ {p}
  BY DEF Active
<1>2. Unaware(r)' \subseteq Unaware(r) /\ Moved(r)' \subseteq Moved(r)
  BY <1>1 DEF Unaware, Moved, Active
<1>3. CASE p \in dry
  <2>1. Active' = Active /\ saved' = saved /\ slips' = slips
    BY <1>1, <1>3 DEF Active
  <2>2. Due(r)' <= Due(r)
    <3>1. CASE Active = {} BY <1>0, <2>1, <3>1 DEF Due
    <3>2. CASE Active # {} BY <1>2, <2>1, <3>2, DueChanges
    <3> QED BY <3>1, <3>2
  <2> QED BY <1>0, <2>1, <2>2 DEF PaidFor
<1>4. CASE p \notin dry
  <2>1. p \in Active
    BY <1>4 DEF Active
  <2>2. CASE Active' # {}
    <3>1. Due(r)' <= Due(r)
      BY <1>2, <2>1, <2>2, DueChanges
    <3>2. slips' \in {slips, slips + 1}
      BY <1>4
    <3> QED BY <1>0, <3>1, <3>2 DEF PaidFor
  <2>3. CASE Active' = {}
    <3>1. Due(r)' <= 1
      BY <2>3 DEF Due
    <3>2. CASE slips' = slips + 1
      BY <1>0, <3>1, <3>2 DEF PaidFor
    <3>3. CASE slips' = slips /\ saved' = mem[p]
      <4>1. r \in mem[p] => Due(r)' = 0
        BY <2>3, <3>3 DEF Due
      <4>2. r \notin mem[p] => Due(r) >= 1
        <5> SUFFICES ASSUME r \notin mem[p] PROVE Due(r) >= 1
          OBVIOUS
        <5>1. p \in Unaware(r)
          BY <2>1 DEF Unaware
        <5> DEFINE U == Unaware(r)
                   M == Moved(r)
        <5>2. Due(r) = Cardinality(U) + Cardinality(M)
          BY <2>1 DEF Due
        <5>3. U \in SUBSET Processes /\ M \in SUBSET Processes /\ {} \in SUBSET Processes
          BY DueChanges
        <5> HIDE DEF U, M
        <5>4. Cardinality({}) + 1 <= Cardinality(U) /\ Cardinality({}) = 0
          BY <5>1, <5>3, ProcessSets DEF U
        <5>5. Cardinality(U) \in Nat /\ Cardinality(M) \in Nat
          BY <5>3, ProcessSets
        <5> QED BY <5>2, <5>4, <5>5
      <4> QED BY <1>0, <3>1, <3>3, <4>1, <4>2 DEF PaidFor
    <3> QED BY <1>4, <3>2, <3>3
  <2> QED BY <2>2, <2>3
<1> QED BY <1>3, <1>4

\* A record gets one row, and one more for every slip at most, for any logs,
\* snapshots, processes and faults (_already_emitted, flush_state).
THEOREM RowsArePaidFor == WatchSpec => []OneRowPerSlip
<1> USE WatcherAssumption DEF WatcherAssumption
<1> DEFINE Inv == WatchTypeOK /\ Behind /\ Steady
           AllPaid == \A r \in Records : PaidFor(r)
<1>1. WatchInit => AllPaid
  BY DEF WatchInit, PaidFor, Due, Active
<1>2. Inv /\ AllPaid /\ [WatchNext]_watchVars => AllPaid'
  <2> SUFFICES ASSUME Inv, NEW r \in Records, PaidFor(r), [WatchNext]_watchVars
               PROVE  PaidFor(r)'
    OBVIOUS
  <2> USE DEF files, cursor
  <2>0. /\ rows[r] \in Nat /\ slips \in Nat /\ Due(r) \in Nat /\ Due(r)' \in Nat
        /\ r[1] \in BareLogs => r[1] # Nowhere /\ r[2] \in Nat
    <3>1. rows[r] \in Nat /\ slips \in Nat
      BY DEF WatchTypeOK
    <3>2. Due(r) \in Nat /\ Due(r)' \in Nat
      BY DueChanges
    <3>3. r[1] \in BareLogs => r[1] # Nowhere /\ r[2] \in Nat
      BY DEF Records, Logs, Sources
    <3> QED BY <3>1, <3>2, <3>3
  \* A step that only loses readers, or reads nothing.
  <2>1. ASSUME UNCHANGED <<dry, saved, stage, mem, rows, slips>>,
               Moved(r)' \subseteq Moved(r)
        PROVE  PaidFor(r)'
    <3>1. Active' = Active /\ Unaware(r)' = Unaware(r)
      BY <2>1 DEF Active, Unaware
    <3>2. Due(r)' <= Due(r)
      <4>1. CASE Active = {} BY <2>0, <2>1, <3>1, <4>1 DEF Due
      <4>2. CASE Active # {} BY <2>1, <3>1, <4>2, DueChanges
      <4> QED BY <4>1, <4>2
    <3> QED BY <2>0, <2>1, <3>2 DEF PaidFor
  <2>2. CASE AppWrites
    <3>1. UNCHANGED <<dry, saved, stage, mem, rows, slips, source, at, shift>>
      BY <2>2 DEF AppWrites
    <3> QED BY <2>1, <3>1 DEF Moved, Active
  <2>3. ASSUME NEW p \in Processes, PassBegins(p) \/ PassBeginsFresh(p) PROVE PaidFor(r)'
    <3>1. /\ stage[p] = "idle" /\ stage' = [stage EXCEPT ![p] = "scanning"]
          /\ source[p] = Nowhere
          /\ UNCHANGED <<dry, saved, source, at, shift, rows>>
      BY <2>3 DEF PassBegins, PassBeginsFresh, Steady, WatchTypeOK
    <3>2. \A q \in Processes \ {p} : mem'[q] = mem[q]
      BY <2>3 DEF PassBegins, PassBeginsFresh, WatchTypeOK
    <3>3. Active' = (IF p \in dry THEN Active ELSE Active \cup {p}) /\ p \notin Active
      BY <3>1 DEF Active, WatchTypeOK
    <3>4. Moved(r)' \subseteq Moved(r) /\ Unaware(r)' \subseteq Unaware(r) \cup {p}
      BY <2>0, <3>1, <3>2, <3>3 DEF Moved, Unaware, Active
    <3>5. slips' \in {slips, slips + 1}
      BY <2>3 DEF PassBegins, PassBeginsFresh, Fault
    <3>6. CASE p \in dry
      <4>1. Unaware(r)' \subseteq Unaware(r)
        BY <3>1, <3>2, <3>3, <3>6 DEF Unaware, Active
      <4>2. Due(r)' <= Due(r)
        <5>1. CASE Active = {} BY <2>0, <3>1, <3>3, <3>6, <5>1 DEF Due
        <5>2. CASE Active # {} BY <3>3, <3>4, <3>6, <4>1, <5>2, DueChanges
        <5> QED BY <5>1, <5>2
      <4> QED BY <2>0, <3>1, <3>5, <4>2 DEF PaidFor
    <3>7. CASE p \notin dry /\ Active # {}
      <4>1. Overlaps(p)
        BY <3>1, <3>7 DEF Overlaps, Active
      <4>2. slips' = slips + 1
        BY <2>3, <4>1 DEF PassBegins, PassBeginsFresh, Fault
      <4>3. Due(r)' <= Due(r) + 1
        BY <3>3, <3>4, <3>7, DueChanges
      <4> QED BY <2>0, <3>1, <4>2, <4>3 DEF PaidFor
    <3>8. CASE p \notin dry /\ Active = {}
      <4>1. Active' = {p} /\ Moved(r)' = {}
        BY <3>3, <3>4, <3>8 DEF Moved
      <4> DEFINE V == Unaware(r)'
                 N == Moved(r)'
      <4>2. Due(r)' = Cardinality(V) + Cardinality(N)
        BY <4>1 DEF Due
      <4>3. V \subseteq {p} /\ N = {} /\ V \in SUBSET Processes
        BY <4>1 DEF Unaware
      <4> HIDE DEF V, N
      <4>4. Cardinality(V) \in Nat /\ Cardinality(V) <= 1 /\ Cardinality(N) = 0
        <5>1. {} \in SUBSET Processes /\ V \subseteq {} \cup {p}
          BY <4>3
        <5> QED BY <4>3, <5>1, ProcessSets
      <4>5. PassBegins(p) /\ r \in saved => Cardinality(V) = 0
        <5>1. PassBegins(p) => mem'[p] = saved
          BY DEF PassBegins, WatchTypeOK
        <5>2. PassBegins(p) /\ r \in saved => V = {}
          BY <4>1, <5>1 DEF V, Unaware
        <5> QED BY <4>3, <5>2, ProcessSets
      <4>6. PassBeginsFresh(p) => slips' = slips + 1
        BY DEF PassBeginsFresh, Fault
      <4>7. Due(r) = IF r \in saved THEN 0 ELSE 1
        BY <3>8 DEF Due
      <4> QED BY <2>0, <2>3, <3>1, <3>5, <4>2, <4>4, <4>5, <4>6, <4>7 DEF PaidFor
    <3> QED BY <3>6, <3>7, <3>8
  <2>4. ASSUME NEW p \in Processes, Opens(p) PROVE PaidFor(r)'
    <3>1. source[p] = Nowhere /\ shift[p] = 0
      BY <2>4 DEF Opens, Steady
    <3>2. Moved(r)' \subseteq Moved(r)
      BY <2>4, <3>1 DEF Opens, Moved, Active, WatchTypeOK
    <3> QED BY <2>1, <2>4, <3>2 DEF Opens
  <2>5. ASSUME NEW p \in Processes, ReadsLine(p) PROVE PaidFor(r)'
    <3>1. /\ source[p] \in Logs /\ at[p] + 1 \in 1 .. MaxLines /\ shift[p] \in 0 .. MaxLines
          /\ stage[p] = "scanning" /\ at' = [at EXCEPT ![p] = @ + 1]
          /\ UNCHANGED <<dry, saved, stage, source>>
      BY <2>5 DEF ReadsLine, WatchTypeOK
    <3>2. \A q \in Processes : at'[q] >= at[q] /\ at'[q] \in Nat /\ at[q] \in Nat
      BY <3>1 DEF WatchTypeOK
    <3>3. CASE half[p]
      <4>1. /\ UNCHANGED <<mem, rows>> /\ shift' = [shift EXCEPT ![p] = @ + 1]
            /\ slips' = IF source[p] \in BareLogs THEN slips + 1 ELSE slips
        BY <2>5, <3>3 DEF ReadsLine
      <4>2. Active' = Active /\ Unaware(r)' = Unaware(r)
        BY <3>1, <4>1 DEF Active, Unaware
      <4>3. Moved(r)' \subseteq Moved(r) \cup {p}
        <5> SUFFICES ASSUME NEW q \in Moved(r)', q # p PROVE q \in Moved(r)
          OBVIOUS
        <5>1. /\ q \in Active /\ q \in Processes /\ source[q] = r[1] /\ r[1] \in BareLogs
              /\ at'[q] < r[2] /\ shift[q] > 0 /\ <<r[1], r[2] + shift[q]>> \notin mem[q]
          BY <3>1, <4>1, <4>2 DEF Moved, Active, WatchTypeOK
        <5>2. at[q] < r[2]
          BY <2>0, <3>2, <5>1
        <5> QED BY <5>1, <5>2 DEF Moved
      <4>4. CASE source[p] \in BareLogs
        <5>1. Due(r)' <= Due(r) + 1
          <6>1. CASE Active = {} BY <2>0, <3>1, <4>2, <6>1 DEF Due
          <6>2. CASE Active # {} BY <4>2, <4>3, <6>2, DueChanges
          <6> QED BY <6>1, <6>2
        <5> QED BY <2>0, <4>1, <4>4, <5>1 DEF PaidFor
      <4>5. CASE source[p] \notin BareLogs
        <5>1. Moved(r)' \subseteq Moved(r)
          BY <3>1, <4>3, <4>5 DEF Moved
        <5> QED BY <2>1, <3>1, <4>1, <4>5, <5>1
      <4> QED BY <4>4, <4>5
    <3>4. CASE ~half[p]
      <4> DEFINE o   == <<source[p], at[p] + 1>>
                 key == LineKey(source[p], at[p] + 1, shift[p])
      <4>1. shift' = shift /\ Observes(p, o, key)
        BY <2>5, <3>4 DEF ReadsLine
      <4>2. o \in Records /\ key \in Marks
        BY <3>1, LineKeys
      <4>3. /\ o[1] = source[p] /\ o[2] = at[p] + 1
            /\ at[p] < o[2] /\ at'[p] = o[2]
        BY <3>1 DEF WatchTypeOK
      <4>4. \/ key = o
            \/ /\ source[p] = o[1] /\ o[1] \in BareLogs /\ shift[p] > 0
               /\ key = <<o[1], o[2] + shift[p]>>
        BY <3>1, <4>3 DEF LineKey, Logs, WatchTypeOK
      <4> HIDE DEF o, key
      <4> QED BY <3>1, <3>2, <4>1, <4>2, <4>3, <4>4, ObservationIsDue
    <3> QED BY <3>3, <3>4
  <2>6. ASSUME NEW p \in Processes, ReadsTorn(p) PROVE PaidFor(r)'
    <3>1. UNCHANGED <<dry, saved, stage, source, at, shift, rows, slips>> /\ mem' = mem
      BY <2>6 DEF ReadsTorn, PassesOver
    <3> QED BY <2>1, <3>1 DEF Moved, Active
  <2>7. ASSUME NEW p \in Processes, Closes(p) PROVE PaidFor(r)'
    <3>1. UNCHANGED <<dry, saved, stage, mem, rows, slips>> /\ Leaves(p)
      BY <2>7 DEF Closes
    <3>2. Moved(r)' \subseteq Moved(r)
      BY <2>0, <3>1 DEF Leaves, Moved, Active, WatchTypeOK
    <3> QED BY <2>1, <3>1, <3>2
  <2>8. ASSUME NEW p \in Processes, ReadsSnapshot(p) PROVE PaidFor(r)'
    <3>1. PICK s \in todo[p] \cap Snapshots :
            IF shown[s] = Broken THEN UNCHANGED <<mem, rows, dropped, slips, faults>>
            ELSE Observes(p, <<s, shown[s]>>, <<s, shown[s]>>)
      BY <2>8 DEF ReadsSnapshot
    <3>2. stage[p] = "scanning" /\ UNCHANGED <<dry, saved, stage, source, at, shift>>
      BY <2>8 DEF ReadsSnapshot
    <3>3. CASE shown[s] = Broken
      BY <2>1, <3>1, <3>2, <3>3 DEF Moved, Active
    <3>4. CASE shown[s] # Broken
      <4> DEFINE o == <<s, shown[s]>>
      <4>1. o \in Records /\ o \in Marks /\ Observes(p, o, o)
        BY <3>1, <3>4 DEF Records, Marks, WatchTypeOK
      <4>2. \A q \in Processes : at'[q] >= at[q] /\ at'[q] \in Nat
        BY <3>2 DEF WatchTypeOK
      <4> HIDE DEF o
      <4> QED BY <3>2, <4>1, <4>2, ObservationIsDue
    <3> QED BY <3>3, <3>4
  <2>9. ASSUME NEW p \in Processes, SourceFails(p) PROVE PaidFor(r)'
    <3>1. Leaves(p) /\ slips' = slips /\ UNCHANGED <<dry, saved, stage, mem, rows>>
      BY <2>9 DEF SourceFails, Fault
    <3>2. Moved(r)' \subseteq Moved(r)
      BY <2>0, <3>1 DEF Leaves, Moved, Active, WatchTypeOK
    <3> QED BY <2>1, <3>1, <3>2
  <2>10. ASSUME NEW p \in Processes, PassEnds(p) \/ SaveFails(p) PROVE PaidFor(r)'
    <3>1. /\ stage[p] = "scanning" /\ stage' = [stage EXCEPT ![p] = "idle"]
          /\ mem' = [mem EXCEPT ![p] = {}]
          /\ UNCHANGED <<dry, source, at, shift, rows>>
      BY <2>10 DEF PassEnds, SaveFails, Ends
    <3>2. \/ saved' = (IF p \in dry THEN saved ELSE mem[p]) /\ slips' = slips
          \/ saved' = saved /\ slips' = (IF p \in dry THEN slips ELSE slips + 1)
      BY <2>10 DEF PassEnds, SaveFails, Flushed, Fault
    <3>3. \A q \in Processes \ {p} : mem'[q] = mem[q]
      BY <3>1 DEF WatchTypeOK
    <3> QED BY <3>1, <3>2, <3>3, EndingIsPaid
  <2>11. ASSUME NEW p \in Processes, Crashes(p) PROVE PaidFor(r)'
    <3>1. /\ stage[p] = "scanning" /\ stage' = [stage EXCEPT ![p] = "idle"]
          /\ mem' = [mem EXCEPT ![p] = {}] /\ Leaves(p)
          /\ saved' = saved /\ slips' = (IF p \in dry THEN slips ELSE slips + 1)
          /\ UNCHANGED <<dry, rows>>
      BY <2>11 DEF Crashes, Fault, WatchTypeOK
    <3>2. \A q \in Processes \ {p} :
              mem'[q] = mem[q] /\ source'[q] = source[q] /\ shift'[q] = shift[q] /\ at'[q] = at[q]
      BY <3>1 DEF Leaves, WatchTypeOK
    <3> QED BY <3>1, <3>2, EndingIsPaid
  <2>12. CASE UNCHANGED watchVars
    <3>1. UNCHANGED <<dry, saved, stage, mem, rows, slips, source, at, shift>>
      BY <2>12 DEF watchVars
    <3> QED BY <2>1, <3>1 DEF Moved, Active
  <2> QED BY <2>2, <2>3, <2>4, <2>5, <2>6, <2>7, <2>8, <2>9, <2>10, <2>11, <2>12
          DEF WatchNext, ScanSteps
<1>3. Inv /\ AllPaid => OneRowPerSlip
  <2> SUFFICES ASSUME WatchTypeOK, NEW r \in Records, PaidFor(r) PROVE rows[r] <= 1 + slips
    BY DEF OneRowPerSlip
  <2>1. Due(r) \in Nat /\ rows[r] \in Nat /\ slips \in Nat
    BY DueChanges DEF WatchTypeOK
  <2> QED BY <2>1 DEF PaidFor
<1>4. WatchSpec => []Steady
  BY BackedStart, BackedStep, WatchTypes, PTL DEF WatchSpec
<1> QED BY <1>1, <1>2, <1>3, <1>4, WatchTypes, PTL DEF WatchSpec

-----------------------------------------------------------------------------
(* The runtime of the content scripts                                      *)

\* What fingerprints see is within their limits.
LEMMA SeenWithin ==
    ASSUME NEW n \in 1 .. MaxLength
    PROVE  Seen(n) \in 1 .. FpLimit /\ Beginning(Seen(n)) \in 1 .. GateLimit
  BY RuntimeAssumption DEF RuntimeAssumption, Seen, Beginning

\* What one attempt may send, and the fingerprint of what it sends.
LEMMA CaptureTypes ==
    ASSUME RuntimeTypeOK, NEW count \in 0 .. MaxMessages
    PROVE  /\ Fingerprint \in Prints /\ Len(text[dom]) \in 0 .. MaxMessages
           /\ text[dom] # <<>> => Payload(count) \subseteq PageMessages
           /\ text[dom] # <<>> => GateKey(Payload(count)) \in GateKeys
<1> USE RuntimeAssumption DEF RuntimeAssumption
<1> DEFINE len == Len(text[dom])
<1>1. /\ text[dom] \in Seq(1 .. MaxLength) /\ len \in 0 .. MaxMessages
      /\ dom \in Convs /\ url \in Convs
      /\ text[dom] # <<>> => len > 0
  BY DEF RuntimeTypeOK
<1>2. \A i \in 1 .. len : Seen(text[dom][i]) \in 1 .. FpLimit
  <2>1. \A i \in 1 .. len : text[dom][i] \in 1 .. MaxLength
    BY <1>1
  <2> QED BY <2>1, SeenWithin
<1>3. Fingerprint \in [1 .. len -> Convs \X (1 .. FpLimit)]
  BY <1>1, <1>2 DEF Fingerprint
<1>4. Fingerprint \in Prints
  BY <1>1, <1>3 DEF Prints
<1>5. Shown \in [1 .. len -> PageMessages] /\ Len(Shown) = len
  <2>1. \A i \in 1 .. len : <<dom, i, Seen(text[dom][i])>> \in PageMessages
    BY <1>1, <1>2 DEF PageMessages
  <2> QED BY <1>1, <2>1 DEF Shown
<1>6. text[dom] # <<>> => Payload(count) \subseteq PageMessages
  BY <1>1, <1>5 DEF Payload
<1>7. ASSUME NEW ms \in SUBSET PageMessages PROVE GateKey(ms) \in GateKeys
  <2>1. \A m \in ms : <<m[1], m[2], Beginning(m[3])>> \in Convs \X (1 .. MaxMessages) \X (1 .. GateLimit)
    BY DEF PageMessages, Beginning
  <2> QED BY <1>1, <2>1 DEF GateKey, GateKeys
<1> QED BY <1>1, <1>4, <1>6, <1>7

\* Every variable of the runtime keeps its type.
THEOREM RuntimeTypes == RuntimeSpec => []RuntimeTypeOK
<1> USE RuntimeAssumption DEF RuntimeAssumption
<1>0. <<>> \in Prints
  BY DEF Prints
<1>1. RuntimeInit => RuntimeTypeOK
  <2> SUFFICES ASSUME RuntimeInit PROVE RuntimeTypeOK
    OBVIOUS
  <2>1. url \in Convs /\ dom \in Convs /\ lastHref \in Convs
    BY DEF RuntimeInit
  <2>2. text \in [Convs -> Seq(1 .. MaxLength)] /\ \A c \in Convs : Len(text[c]) <= MaxMessages
    BY DEF RuntimeInit
  <2>3. streaming \in BOOLEAN /\ watched \in BOOLEAN /\ timer \in BOOLEAN /\ muddled \in BOOLEAN
    BY DEF RuntimeInit
  <2>4. /\ sentFingerprint \in Prints /\ sentCount \in 0 .. MaxMessages
        /\ hashes \subseteq GateKeys /\ accepted \subseteq PageMessages
        /\ moves \in 0 .. MaxMoves /\ refusals \in 0 .. MaxRefusals
    BY <1>0 DEF RuntimeInit
  <2>5. /\ site \in Sites /\ latest \in Slots \cup {0}
        /\ flight \in [Slots -> Sends \cup {NoSend}]
    BY DEF RuntimeInit
  <2> QED BY <2>1, <2>2, <2>3, <2>4, <2>5 DEF RuntimeTypeOK
<1>2. RuntimeTypeOK /\ [RuntimeNext]_runtimeVars => RuntimeTypeOK'
  <2> SUFFICES ASSUME RuntimeTypeOK, [RuntimeNext]_runtimeVars PROVE RuntimeTypeOK'
    OBVIOUS
  <2> USE DEF pageVars, sent, tally, inbox
  <2>0. ASSUME NavChange
        PROVE  /\ timer' \in BOOLEAN /\ sentFingerprint' \in Prints /\ sentCount' \in 0 .. MaxMessages
               /\ latest' \in Slots \cup {0} /\ muddled' \in BOOLEAN
    <3>1. timer' \in BOOLEAN /\ muddled' \in BOOLEAN
      BY <2>0 DEF NavChange
    <3> QED BY <1>0, <2>0, <3>1 DEF NavChange
  <2>1. CASE Appends
    <3>1. text' \in [Convs -> Seq(1 .. MaxLength)] /\ \A c \in Convs : Len(text'[c]) <= MaxMessages
      BY <2>1 DEF Appends, RuntimeTypeOK
    <3> QED BY <2>1, <3>1 DEF Appends, Mutates, RuntimeTypeOK
  <2>2. CASE Grows
    <3> DEFINE old == text[dom]
               new == [old EXCEPT ![Len(old)] = @ + 1]
    <3>1. old \in Seq(1 .. MaxLength) /\ Len(old) \in 1 .. MaxMessages /\ old[Len(old)] + 1 \in 1 .. MaxLength
      BY <2>2 DEF Grows, RuntimeTypeOK
    <3>2. new \in Seq(1 .. MaxLength) /\ Len(new) = Len(old)
      BY <3>1
    <3>3. text' = [text EXCEPT ![dom] = new]
      BY <2>2 DEF Grows
    <3>4. text' \in [Convs -> Seq(1 .. MaxLength)] /\ \A c \in Convs : Len(text'[c]) <= MaxMessages
      BY <3>1, <3>2, <3>3 DEF RuntimeTypeOK
    <3> QED BY <2>2, <3>4 DEF Grows, Mutates, RuntimeTypeOK
  <2>3. CASE StreamingEnds BY <2>3 DEF StreamingEnds, RuntimeTypeOK
  <2>4. ASSUME NEW c \in Convs, Navigates(c) PROVE RuntimeTypeOK'
    <3>1. /\ timer' \in BOOLEAN /\ sentFingerprint' \in Prints /\ sentCount' \in 0 .. MaxMessages
          /\ latest' \in Slots \cup {0} /\ muddled' \in BOOLEAN
      <4>1. CASE site.hooked BY <2>0, <2>4, <4>1 DEF Navigates
      <4>2. CASE ~site.hooked BY <2>4, <4>2 DEF Navigates, RuntimeTypeOK
      <4> QED BY <4>1, <4>2
    <3>2. moves' \in 0 .. MaxMoves
      BY <2>4 DEF Navigates, RuntimeTypeOK
    <3> QED BY <2>4, <3>1, <3>2 DEF Navigates, RuntimeTypeOK
  <2>5. CASE PageFollows BY <2>5 DEF PageFollows, RuntimeTypeOK
  <2>6. CASE PollNoticesUrl
    <3>1. NavChange BY <2>6 DEF PollNoticesUrl
    <3> QED BY <2>0, <2>6, <3>1 DEF PollNoticesUrl, RuntimeTypeOK
  <2>7. ASSUME NEW fp \in Prints, NEW count \in 0 .. MaxMessages, NEW muddle \in BOOLEAN,
               Attempt(fp, count, muddle), UNCHANGED <<site, pageVars, lastHref, accepted, refusals>>,
               moves' \in 0 .. MaxMoves
        PROVE  RuntimeTypeOK'
    <3>1. /\ sentFingerprint' \in Prints /\ sentCount' \in 0 .. MaxMessages
          /\ timer' \in BOOLEAN /\ muddled' \in BOOLEAN
      BY <2>7, CaptureTypes DEF Attempt, LooksAgain
    <3>2. /\ flight' \in [Slots -> Sends \cup {NoSend}] /\ latest' \in Slots \cup {0}
          /\ hashes' \subseteq GateKeys
      <4>1. CASE UNCHANGED inbox /\ latest' \in {latest, 0}
        BY <4>1 DEF RuntimeTypeOK
      <4>2. CASE text[dom] # <<>> /\ Posted(Payload(count), fp, count, GateKey(Payload(count)))
        <5>1. Payload(count) \subseteq PageMessages /\ GateKey(Payload(count)) \in GateKeys
          BY <4>2, CaptureTypes
        <5>2. [messages |-> Payload(count), prevFp |-> fp, prevCount |-> count,
               key |-> GateKey(Payload(count))] \in Sends
          BY <5>1 DEF Sends
        <5> QED BY <4>2, <5>1, <5>2 DEF Posted, RuntimeTypeOK
      <4> QED BY <2>7, <4>1, <4>2 DEF Attempt, Keeps, Skipped
    <3> QED BY <2>7, <3>1, <3>2 DEF RuntimeTypeOK
  <2>8. CASE TimerFires
    BY <2>7, <2>8 DEF TimerFires, RuntimeTypeOK
  <2>9. CASE Triggered
    <3>1. moves' \in 0 .. MaxMoves
      BY <2>9 DEF Triggered, RuntimeTypeOK
    <3>2. Attempt(<<>>, 0, FALSE) /\ UNCHANGED <<site, pageVars, lastHref, accepted, refusals>>
      BY <2>9 DEF Triggered
    <3>3. <<>> \in Prints /\ 0 \in 0 .. MaxMessages /\ FALSE \in BOOLEAN
      BY <1>0
    <3> QED BY <2>7, <3>1, <3>2, <3>3
  <2>10. ASSUME NEW k \in Slots, Accepted(k) PROVE RuntimeTypeOK'
    <3>1. flight[k] \in Sends
      BY <2>10 DEF Accepted, RuntimeTypeOK
    <3>2. flight[k].messages \subseteq PageMessages
      BY <3>1 DEF Sends
    <3> QED BY <2>10, <3>2 DEF Accepted, RuntimeTypeOK
  <2>11. ASSUME NEW k \in Slots, Refused(k) PROVE RuntimeTypeOK'
    <3>1. flight[k] \in Sends
      BY <2>11 DEF Refused, RuntimeTypeOK
    <3>2. flight[k].prevFp \in Prints /\ flight[k].prevCount \in 0 .. MaxMessages
      BY <3>1 DEF Sends
    <3> QED BY <2>11, <3>2 DEF Refused, PutBack, Crossed, RuntimeTypeOK
  <2>12. CASE UNCHANGED runtimeVars BY <2>12 DEF runtimeVars, RuntimeTypeOK
  <2> QED BY <2>1, <2>2, <2>3, <2>4, <2>5, <2>6, <2>8, <2>9, <2>10, <2>11, <2>12 DEF RuntimeNext
<1> QED BY <1>1, <1>2, PTL DEF RuntimeSpec

\* Whether a set of messages has every message of a fingerprint, the last one
\* (all of them on sites that send all) in a form that looks the same.
Covers(full, ms, fp) ==
    \A i \in 1 .. Len(fp) :
        \E n \in 1 .. FpLimit :
            /\ <<fp[i][1], i, n>> \in ms
            /\ full \/ i = Len(fp) => Beginning(n) = Beginning(fp[i][2])

\* What the background has or is about to answer for, but for one capture.
GivenBut(k) == accepted \cup UNION {flight[j].messages : j \in {i \in Slots : flight[i] # NoSend /\ i # k}}

\* A fingerprint is of one conversation.
OfOne(fp) == \A i \in 1 .. Len(fp) : fp[i][1] = fp[1][1]

\* What is remembered as sent was given, and what a refusal of the capture it
\* is of would put back was given in other captures.
SentInv ==
    /\ sentCount = Len(sentFingerprint) /\ OfOne(sentFingerprint)
    /\ latest # 0 => sentFingerprint # <<>>
    /\ \A k \in Slots : flight[k] # NoSend =>
          /\ flight[k].prevCount = Len(flight[k].prevFp) /\ OfOne(flight[k].prevFp)
          /\ flight[k].key[2] = {<<m[1], m[2], Beginning(m[3])>> : m \in flight[k].messages}
          /\ ~muddled /\ latest = k => Covers(site.full, GivenBut(k), flight[k].prevFp)
    /\ ~muddled => Covers(site.full, Given, sentFingerprint)

\* What more messages cover.
LEMMA CoversMore ==
    ASSUME NEW full, NEW ms, NEW more, ms \subseteq more, NEW fp, Covers(full, ms, fp)
    PROVE  Covers(full, more, fp)
  BY DEF Covers

\* A message in the form in which it is shown, or one that looks like it.
Alike(m, q) == q[1] = m[1] /\ q[2] = m[2] /\ Beginning(q[3]) = Beginning(m[3])

\* What is shown is covered by what was sent before and what a capture, or one
\* that looks like it, adds to that.
LEMMA PayloadCovers ==
    ASSUME RuntimeTypeOK, text[dom] # <<>>,
           NEW ms, NEW fp \in Prints, OfOne(fp), ~CountsAnother(fp), Covers(site.full, ms, fp),
           NEW qs \in SUBSET PageMessages, \A m \in Payload(Len(fp)) : \E q \in qs : Alike(m, q)
    PROVE  Covers(site.full, ms \cup qs, Fingerprint)
<1> USE RuntimeAssumption DEF RuntimeAssumption
<1> DEFINE len == Len(text[dom])
<1>1. text[dom] \in Seq(1 .. MaxLength) /\ len \in Nat \ {0} /\ Len(fp) \in Nat
  BY DEF RuntimeTypeOK, Prints
<1>2. /\ Len(Fingerprint) = len /\ Len(Shown) = len
      /\ \A i \in 1 .. len :
            Shown[i] = <<dom, i, Seen(text[dom][i])>> /\ Fingerprint[i] = <<dom, Seen(text[dom][i])>>
  BY <1>1 DEF Fingerprint, Shown
<1>3. ASSUME NEW i \in 1 .. len, Shown[i] \in Payload(Len(fp))
      PROVE  \E n \in 1 .. FpLimit :
                 <<dom, i, n>> \in ms \cup qs /\ Beginning(n) = Beginning(Seen(text[dom][i]))
  <2>1. PICK q \in qs : Alike(Shown[i], q)
    BY <1>3
  <2>2. q = <<q[1], q[2], q[3]>> /\ q[3] \in 1 .. FpLimit
    BY DEF PageMessages
  <2>3. q = <<dom, i, q[3]>> /\ Beginning(q[3]) = Beginning(Seen(text[dom][i]))
    BY <1>2, <2>1, <2>2 DEF Alike
  <2> QED BY <2>2, <2>3
<1>4. ASSUME NEW i \in 1 .. len, Shown[i] \notin Payload(Len(fp))
      PROVE  ~site.full /\ i # len /\ \E n \in 1 .. FpLimit : <<dom, i, n>> \in ms \cup qs
  <2>1. ~site.full /\ i # len /\ i \in 1 .. Len(fp)
    BY <1>1, <1>2, <1>4 DEF Payload
  <2>2. fp # <<>> /\ fp[1][1] = dom /\ fp[i][1] = dom
    BY <2>1 DEF CountsAnother, OfOne
  <2> QED BY <2>1, <2>2 DEF Covers
<1>5. ASSUME NEW i \in 1 .. Len(Fingerprint)
      PROVE  \E n \in 1 .. FpLimit :
                 /\ <<Fingerprint[i][1], i, n>> \in ms \cup qs
                 /\ site.full \/ i = Len(Fingerprint) => Beginning(n) = Beginning(Fingerprint[i][2])
  <2>1. i \in 1 .. len /\ Fingerprint[i][1] = dom /\ Fingerprint[i][2] = Seen(text[dom][i])
    BY <1>2
  <2> QED BY <1>2, <1>3, <1>4, <2>1
<1> QED BY <1>5 DEF Covers

\* Nothing that was given is taken back, but by a refusal.
LEMMA StaysGiven ==
    ASSUME SentInv, RuntimeTypeOK, site' = site, accepted' = accepted, flight' = flight
    PROVE  Given' = Given /\ \A k \in Slots : GivenBut(k)' = GivenBut(k)
  BY DEF Given, GivenBut

LEMMA SentStart == RuntimeInit => SentInv
  BY RuntimeAssumption DEF RuntimeAssumption, RuntimeInit, SentInv, OfOne, Covers

\* An attempt to capture, from what is remembered or from nothing.
LEMMA AttemptKeeps ==
    ASSUME RuntimeTypeOK, SentInv, UNCHANGED <<site, accepted>>,
           NEW fp \in Prints, NEW muddle \in BOOLEAN, Attempt(fp, Len(fp), muddle),
           OfOne(fp), ~muddle => Covers(site.full, Given, fp),
           fp = <<>> \/ (fp = sentFingerprint /\ muddle = muddled)
    PROVE  SentInv'
<1> USE RuntimeAssumption DEF RuntimeAssumption
<1> DEFINE load == Payload(Len(fp))
           key  == GateKey(load)
<1>0. /\ Len(fp) \in 0 .. MaxMessages
      /\ text[dom] # <<>> => load \in SUBSET PageMessages
  BY CaptureTypes DEF Prints
<1>1. CASE /\ UNCHANGED inbox /\ Keeps(fp) /\ sentFingerprint' = fp /\ sentCount' = Len(fp)
           /\ muddled' = muddle
  <2>1. flight' = flight /\ Given' = Given /\ \A k \in Slots : GivenBut(k)' = GivenBut(k)
    BY <1>1, StaysGiven DEF inbox
  <2>2. latest' # 0 => fp = sentFingerprint /\ fp # <<>> /\ muddle = muddled /\ latest' = latest
    BY <1>1 DEF Keeps, SentInv
  <2>3. ASSUME NEW k \in Slots, ~muddled', latest' = k, flight[k] # NoSend
        PROVE  Covers(site.full, GivenBut(k), flight[k].prevFp)
    <3>1. k # 0 OBVIOUS
    <3> QED BY <1>1, <2>2, <2>3, <3>1 DEF SentInv
  <2>4. ~muddled' => Covers(site.full, Given, fp)
    BY <1>1
  <2> QED BY <1>1, <2>1, <2>2, <2>3, <2>4 DEF SentInv
<1> SUFFICES ASSUME text[dom] # <<>>, sentFingerprint' = Fingerprint, sentCount' = Len(text[dom]),
                    \/ /\ Posted(load, fp, Len(fp), key)
                       /\ muddled' = (muddle \/ CountsAnother(fp))
                    \/ /\ Skipped(key)
                       /\ muddled' = (muddle \/ CountsAnother(fp) \/ ~InFlight(key))
             PROVE  SentInv'
  BY <1>1 DEF Attempt
<1>2. /\ sentCount' = Len(Fingerprint) /\ Fingerprint # <<>> /\ OfOne(Fingerprint)
  <2>1. text[dom] \in Seq(1 .. MaxLength) /\ Len(text[dom]) \in Nat \ {0}
    BY DEF RuntimeTypeOK
  <2> QED BY <2>1 DEF Fingerprint, OfOne
<1>3. ASSUME ~muddled', NEW qs \in SUBSET PageMessages, \A m \in load : \E q \in qs : Alike(m, q)
      PROVE  Covers(site.full, Given \cup qs, Fingerprint)
  <2>1. ~CountsAnother(fp) /\ ~muddle
    BY <1>3
  <2> HIDE DEF load
  <2> QED BY <1>3, <2>1, PayloadCovers DEF load
<1>4. CASE Posted(load, fp, Len(fp), key) /\ muddled' = (muddle \/ CountsAnother(fp))
  <2> DEFINE new == [messages |-> load, prevFp |-> fp, prevCount |-> Len(fp), key |-> key]
  <2>1. PICK k \in Slots : flight[k] = NoSend /\ flight' = [flight EXCEPT ![k] = new] /\ latest' = k
    BY <1>4 DEF Posted
  <2>2. new # NoSend /\ flight'[k] = new /\ \A j \in Slots \ {k} : flight'[j] = flight[j]
    BY <2>1 DEF NoSend, RuntimeTypeOK
  <2>3. Given' = Given \cup load
    BY <2>1, <2>2 DEF Given
  <2>4. GivenBut(k)' = Given
    BY <2>1, <2>2 DEF Given, GivenBut
  <2>5. ~muddled' => Covers(site.full, Given', Fingerprint)
    BY <1>0, <1>3, <2>3 DEF Alike
  <2>6. key[2] = {<<m[1], m[2], Beginning(m[3])>> : m \in load}
    BY DEF GateKey
  <2>7. ~muddled' => Covers(site.full, GivenBut(k)', fp)
    BY <1>4, <2>4
  <2> HIDE DEF load, key
  <2> QED BY <1>2, <2>1, <2>2, <2>5, <2>6, <2>7 DEF SentInv
<1>5. CASE Skipped(key) /\ muddled' = (muddle \/ CountsAnother(fp) \/ ~InFlight(key))
  <2>1. flight' = flight /\ latest' = 0 /\ Given' = Given
    BY <1>5, StaysGiven DEF Skipped, inbox
  <2>2. ASSUME ~muddled' PROVE Covers(site.full, Given, Fingerprint)
    <3>1. PICK k \in Slots : flight[k] # NoSend /\ flight[k].key = key
      BY <1>5, <2>2 DEF InFlight
    <3> DEFINE qs == flight[k].messages
    <3>2. qs \in SUBSET PageMessages /\ qs \subseteq Given
      BY <3>1 DEF RuntimeTypeOK, Sends, Given
    <3>3. ASSUME NEW m \in load PROVE \E q \in qs : Alike(m, q)
      <4>1. {<<x[1], x[2], Beginning(x[3])>> : x \in qs} = {<<x[1], x[2], Beginning(x[3])>> : x \in load}
        BY <3>1 DEF SentInv, GateKey
      <4>2. PICK q \in qs : <<m[1], m[2], Beginning(m[3])>> = <<q[1], q[2], Beginning(q[3])>>
        BY <4>1
      <4> QED BY <4>2 DEF Alike
    <3>4. Given \cup qs = Given
      BY <3>2
    <3> HIDE DEF load, key, qs
    <3> QED BY <1>3, <2>2, <3>2, <3>3, <3>4
  <2>3. \A k \in Slots : k # latest'
    BY <2>1
  <2> QED BY <1>2, <2>1, <2>2, <2>3 DEF SentInv
<1> QED BY <1>4, <1>5

LEMMA SentStep == RuntimeTypeOK /\ SentInv /\ [RuntimeNext]_runtimeVars => SentInv'
<1> USE RuntimeAssumption DEF RuntimeAssumption
<1> SUFFICES ASSUME RuntimeTypeOK, SentInv, [RuntimeNext]_runtimeVars PROVE SentInv'
  OBVIOUS
<1> USE DEF pageVars, sent, tally, inbox
<1>1. ASSUME UNCHANGED <<site, sent, inbox, accepted>> PROVE SentInv'
  <2>1. Given' = Given /\ \A k \in Slots : GivenBut(k)' = GivenBut(k)
    BY <1>1, StaysGiven
  <2> QED BY <1>1, <2>1 DEF SentInv
<1>2. ASSUME NavChange, UNCHANGED <<site, inbox, accepted>> PROVE SentInv'
  <2>1. \A k \in Slots : latest' # k
    BY <1>2 DEF NavChange
  <2>2. sentFingerprint' = <<>> /\ sentCount' = 0 /\ latest' = 0
    BY <1>2 DEF NavChange
  <2>3. Covers(site.full, Given', <<>>) /\ OfOne(<<>>)
    BY DEF Covers, OfOne
  <2> QED BY <1>2, <2>1, <2>2, <2>3 DEF SentInv
<1>3. CASE Appends \/ Grows \/ StreamingEnds \/ PageFollows \/ UNCHANGED runtimeVars
  BY <1>1, <1>3 DEF Appends, Grows, StreamingEnds, PageFollows, runtimeVars
<1>4. ASSUME NEW c \in Convs, Navigates(c) PROVE SentInv'
  BY <1>1, <1>2, <1>4 DEF Navigates
<1>5. CASE PollNoticesUrl
  BY <1>2, <1>5 DEF PollNoticesUrl
<1>6. CASE TimerFires
  <2>1. /\ sentFingerprint \in Prints /\ muddled \in BOOLEAN /\ sentCount = Len(sentFingerprint)
        /\ OfOne(sentFingerprint)
        /\ ~muddled => Covers(site.full, Given, sentFingerprint)
    BY DEF RuntimeTypeOK, SentInv
  <2>2. /\ Attempt(sentFingerprint, Len(sentFingerprint), muddled)
        /\ UNCHANGED <<site, accepted>>
    BY <1>6, <2>1 DEF TimerFires
  <2> HIDE DEF pageVars, sent, tally, inbox
  <2> QED BY <2>1, <2>2, AttemptKeeps
<1>7. CASE Triggered
  <2>1. <<>> \in Prints /\ Len(<<>>) = 0 /\ OfOne(<<>>) /\ Covers(site.full, Given, <<>>)
    BY DEF Prints, OfOne, Covers
  <2>2. Attempt(<<>>, Len(<<>>), FALSE) /\ UNCHANGED <<site, accepted>>
    BY <1>7, <2>1 DEF Triggered
  <2> QED BY <2>1, <2>2, AttemptKeeps
<1>8. ASSUME NEW k \in Slots, Accepted(k) PROVE SentInv'
  <2>1. /\ flight[k] # NoSend /\ flight' = [flight EXCEPT ![k] = NoSend]
        /\ accepted' = accepted \cup flight[k].messages
        /\ latest' = IF latest = k THEN 0 ELSE latest
        /\ UNCHANGED <<site, sentFingerprint, sentCount, muddled>>
    BY <1>8 DEF Accepted
  <2>2. flight'[k] = NoSend /\ \A j \in Slots \ {k} : flight'[j] = flight[j]
    BY <2>1 DEF RuntimeTypeOK
  <2>3. Given \subseteq Given'
    BY <2>1, <2>2 DEF Given
  <2>4. \A j \in Slots : GivenBut(j) \subseteq GivenBut(j)'
    BY <2>1, <2>2 DEF GivenBut
  <2>5. ~muddled' => Covers(site.full, Given', sentFingerprint)
    BY <2>1, <2>3, CoversMore DEF SentInv
  <2>6. ASSUME NEW j \in Slots, flight'[j] # NoSend, ~muddled', latest' = j
        PROVE  Covers(site.full, GivenBut(j)', flight'[j].prevFp)
    <3>1. j # k /\ flight'[j] = flight[j] /\ latest = j
      BY <2>1, <2>2, <2>6
    <3> QED BY <2>1, <2>4, <2>6, <3>1, CoversMore DEF SentInv
  <2> QED BY <2>1, <2>2, <2>5, <2>6 DEF SentInv
<1>9. ASSUME NEW k \in Slots, Refused(k) PROVE SentInv'
  <2>1. /\ flight[k] # NoSend /\ flight' = [flight EXCEPT ![k] = NoSend]
        /\ sentFingerprint' = flight[k].prevFp /\ sentCount' = flight[k].prevCount
        /\ muddled' = (muddled \/ latest # k) /\ latest' = 0
        /\ UNCHANGED <<site, accepted>>
    BY <1>9 DEF Refused, PutBack, Crossed
  <2>2. flight'[k] = NoSend /\ \A j \in Slots \ {k} : flight'[j] = flight[j]
    BY <2>1 DEF RuntimeTypeOK
  <2>3. Given' = GivenBut(k)
    BY <2>1, <2>2 DEF Given, GivenBut
  <2>4. ~muddled' => Covers(site.full, Given', sentFingerprint')
    BY <2>1, <2>3 DEF SentInv
  <2>5. \A j \in Slots : latest' # j
    BY <2>1
  <2> QED BY <2>1, <2>2, <2>4, <2>5 DEF SentInv
<1> QED BY <1>3, <1>4, <1>5, <1>6, <1>7, <1>8, <1>9 DEF RuntimeNext

\* When the runtime has nothing to send, every message shown was given to the
\* background, for any pages, limits, refusals and navigations (captureNow,
\* onNavChange and the rollback, isDuplicate).
THEOREM SentIsGiven == RuntimeSpec => []SentMeansGiven
<1>1. RuntimeTypeOK /\ SentInv => SentMeansGiven
  <2> SUFFICES ASSUME RuntimeTypeOK, SentInv, sentFingerprint = Fingerprint, ~muddled
               PROVE  \A i \in 1 .. Len(Shown) : \E n \in 1 .. FpLimit :
                          /\ <<dom, i, n>> \in Given
                          /\ (site.full \/ i = Len(Shown)) => Beginning(n) = Beginning(Shown[i][3])
    BY DEF SentMeansGiven
  <2>1. text[dom] \in Seq(1 .. MaxLength) /\ Len(text[dom]) \in Nat
    BY DEF RuntimeTypeOK
  <2>2. /\ Len(Fingerprint) = Len(text[dom]) /\ Len(Shown) = Len(text[dom])
        /\ \A i \in 1 .. Len(text[dom]) :
              Shown[i][3] = Fingerprint[i][2] /\ Fingerprint[i][1] = dom
    BY <2>1 DEF Fingerprint, Shown
  <2>3. Covers(site.full, Given, Fingerprint)
    BY DEF SentInv
  <2> QED BY <2>2, <2>3 DEF Covers
<1> QED BY <1>1, SentStart, SentStep, RuntimeTypes, PTL DEF RuntimeSpec

---------------------------------------------------------------------------
(* SchemaMigrations: nobody's view is behind the database, and no step     *)
(* takes a capture out of both of its tables.                              *)

Stored(db) == db.rows \union db.old

Tidy(db) == ~db.aside => db.old = {}

\* Without a transaction there is one database, a transaction has all the
\* captures that are stored, and a process at its migrations is on one.
SchemaInv ==
    /\ SchemaTypeOK
    /\ Tidy(disk) /\ Tidy(working)
    /\ \A p \in Runners : place[p] \notin {"out", "ready"} => next[p] <= Latest
    /\ writer = Nobody => working = disk
    /\ Stored(disk) \subseteq Stored(working)

LEMMA Located ==
    ASSUME NEW p \in Runners, NEW s \in Places, SchemaTypeOK, GoTo(p, s)
    PROVE  /\ place' \in [Runners -> Places]
           /\ place'[p] = s /\ \A q \in Runners \ {p} : place'[q] = place[q]
BY DEF SchemaTypeOK, GoTo

LEMMA Starts ==
    ASSUME NEW v PROVE StartOf(v) \in Places
BY DEF StartOf, Places

\* What a process writes that changes only the shape, or adds to the rows.
LEMMA Written ==
    ASSUME SchemaInv, NEW p \in Runners, MayWrite(p), NEW db \in Databases,
           Tidy(db), Stored(View(p)) \subseteq Stored(db), Execute(p, db), UNCHANGED writer
    PROVE  /\ disk' \in Databases /\ working' \in Databases
           /\ Tidy(disk') /\ Tidy(working')
           /\ writer' = Nobody => working' = disk'
           /\ Stored(disk) \subseteq Stored(disk') /\ Stored(disk') \subseteq Stored(working')
<1>1. disk \in Databases /\ working \in Databases BY DEF SchemaInv, SchemaTypeOK
<1>2. CASE writer = p
  BY <1>1, <1>2, SchemaAssumption DEF SchemaInv, Execute, View, SchemaAssumption
<1>3. CASE writer = Nobody
  BY <1>1, <1>3, SchemaAssumption DEF SchemaInv, Execute, View, SchemaAssumption
<1> QED BY <1>2, <1>3 DEF MayWrite

LEMMA Raised ==
    ASSUME SchemaInv, NEW p \in Runners, Raise(p)
    PROVE  /\ disk' = disk /\ working' \in Databases /\ writer' \in Runners \union {Nobody}
           /\ writer' = Nobody => working' = disk'
           /\ Tidy(working') /\ Stored(disk') \subseteq Stored(working')
           /\ place' \in [Runners -> Places] /\ next' = next /\ seen' = seen
           /\ place'[p] = "out" /\ \A q \in Runners \ {p} : place'[q] = place[q]
<1>1. "out" \in Places BY DEF Places
<1>2. CASE writer = p
  BY <1>1, <1>2, Located DEF SchemaInv, SchemaTypeOK, Raise
<1>3. CASE writer # p
  BY <1>1, <1>3, Located DEF SchemaInv, SchemaTypeOK, Raise
<1> QED BY <1>2, <1>3

\* Every step keeps the invariant and the captures that are stored.
SchemaKept == SchemaInv' /\ Stored(disk) \subseteq Stored(disk')

LEMMA RaiseKeeps ==
    ASSUME SchemaInv, NEW p \in Runners, Raise(p), breaks' \in 0..MaxBreaks
    PROVE  SchemaKept
BY Raised DEF SchemaKept, SchemaInv, SchemaTypeOK

LEMMA WriteKeeps ==
    ASSUME SchemaInv, NEW p \in Runners, MayWrite(p), NEW db \in Databases,
           Tidy(db), Stored(View(p)) \subseteq Stored(db), Execute(p, db),
           NEW s \in Places, GoTo(p, s), UNCHANGED <<writer, next, breaks>>,
           place[p] \notin {"out", "ready"}, seen' \in [Runners -> SUBSET Parts]
    PROVE  SchemaKept
BY Written, Located DEF SchemaKept, SchemaInv, SchemaTypeOK

\* A step that writes nothing.
LEMMA MoveKeeps ==
    ASSUME SchemaInv, NEW p \in Runners, NEW s \in Places, GoTo(p, s),
           UNCHANGED <<disk, working, writer>>, next' \in [Runners -> 1..(Latest + 1)],
           \A q \in Runners \ {p} : next'[q] = next[q],
           s \in {"out", "ready"} \/ next'[p] <= Latest,
           seen' \in [Runners -> SUBSET Parts], breaks' = breaks
    PROVE  SchemaKept
BY Located DEF SchemaKept, SchemaInv, SchemaTypeOK

LEMMA ViewType ==
    ASSUME SchemaInv, NEW p \in Runners
    PROVE  View(p) \in Databases /\ Tidy(View(p)) /\ Stored(disk) \subseteq Stored(View(p))
BY DEF SchemaInv, SchemaTypeOK, View

LEMMA PartsAreParts ==
    ASSUME NEW v \in 1..Latest PROVE PartsOf(v) \subseteq Parts
BY DEF Parts

\* The version is one that exists, and so is the one after the last but one.
LEMMA NextType ==
    ASSUME SchemaInv, NEW p \in Runners
    PROVE  /\ place[p] \notin {"out", "ready"} => next[p] \in 1..Latest
           /\ next[p] \in 1..(Latest + 1) /\ disk.version + 1 \in 1..(Latest + 1)
BY SchemaAssumption DEF SchemaInv, SchemaTypeOK, Databases, SchemaAssumption

LEMMA SchemaStep == SchemaInv /\ [SchemaNext]_schemaVars => SchemaKept
<1> SUFFICES ASSUME SchemaInv, [SchemaNext]_schemaVars PROVE SchemaKept
  OBVIOUS
<1>1. CASE UNCHANGED schemaVars
  BY <1>1 DEF SchemaKept, SchemaInv, SchemaTypeOK, schemaVars
<1>2. CASE SchemaNext
  <2>1. PICK p \in Runners :
          Begin(p) \/ Steps(p) \/ Locked(p) \/ Crash(p) \/ \E c \in Fresh : Ingest(p, c)
    BY <1>2 DEF SchemaNext
  <2> DEFINE db == View(p)
  <2>2. db \in Databases /\ Tidy(db) /\ Stored(disk) \subseteq Stored(db) BY ViewType
  <2>3. /\ place[p] \notin {"out", "ready"} => next[p] \in 1..Latest
        /\ next[p] \in 1..(Latest + 1) /\ disk.version + 1 \in 1..(Latest + 1) BY NextType
  <2>4. {"out", "look", "rename", "recreate", "copy", "read", "add", "stamp"} \subseteq Places
    BY DEF Places
  <2>5. CASE Begin(p)
    <3> DEFINE v == disk.version + 1
    <3>1. StartOf(v) = "ready" \/ v <= Latest BY <2>3, SchemaAssumption DEF StartOf, SchemaAssumption
    <3>2. next' \in [Runners -> 1..(Latest + 1)] /\ next'[p] = v /\ \A q \in Runners \ {p} : next'[q] = next[q]
      BY <2>3, <2>5 DEF Begin, SchemaInv, SchemaTypeOK
    <3>3. seen' \in [Runners -> SUBSET Parts] BY <2>5 DEF Begin, SchemaInv, SchemaTypeOK
    <3> QED BY <2>5, <3>1, <3>2, <3>3, MoveKeeps, Starts DEF Begin
  <2>6. CASE Baseline(p)
    <3>1. Created(db) \in Databases /\ Tidy(Created(db)) /\ Stored(Created(db)) = Stored(db)
      BY <2>2 DEF Created, Databases, Stored, Tidy
    <3> QED BY <2>4, <2>6, <3>1, WriteKeeps DEF Baseline, SchemaInv, SchemaTypeOK
  <2>7. CASE Look(p)
    BY <2>3, <2>4, <2>7, MoveKeeps DEF Look, SchemaInv, SchemaTypeOK
  <2>8. CASE Rename(p)
    <3>1. CASE db.table # "none" /\ ~db.aside
      <4> DEFINE new == [db EXCEPT !.table = "none", !.rows = {}, !.aside = TRUE,
                                   !.old = db.rows, !.parts = @ \ OnCaptures]
      <4>1. new \in Databases BY <2>2 DEF Databases
      <4>2. Tidy(new) /\ Stored(db) \subseteq Stored(new)
        BY <2>2, <3>1 DEF Tidy, Stored, Databases
      <4>3. Execute(p, new) /\ GoTo(p, "recreate") /\ UNCHANGED <<writer, next, seen, breaks>>
        BY <2>8, <3>1 DEF Rename
      <4> QED BY <2>4, <2>8, <4>1, <4>2, <4>3, WriteKeeps DEF Rename, SchemaInv, SchemaTypeOK
    <3>2. CASE ~(db.table # "none" /\ ~db.aside)
      BY <2>8, <3>2, RaiseKeeps DEF Rename, SchemaInv, SchemaTypeOK
    <3> QED BY <3>1, <3>2
  <2>9. CASE Recreate(p)
    <3>1. Created(db) \in Databases /\ Tidy(Created(db)) /\ Stored(Created(db)) = Stored(db)
      BY <2>2 DEF Created, Databases, Stored, Tidy
    <3> QED BY <2>4, <2>9, <3>1, WriteKeeps DEF Recreate, SchemaInv, SchemaTypeOK
  <2>10. CASE Copy(p)
    <3>1. CASE db.table # "none" /\ db.aside /\ db.rows \cap db.old = {}
      <4> DEFINE new == [db EXCEPT !.rows = @ \union db.old, !.aside = FALSE, !.old = {}]
      <4>1. new \in Databases /\ Tidy(new) /\ Stored(new) = Stored(db)
        BY <2>2 DEF Databases, Stored, Tidy
      <4>2. Transact(p, new) /\ GoTo(p, "read") /\ UNCHANGED <<next, seen, breaks>>
        BY <2>10, <3>1 DEF Copy
      <4>3. p # Nobody BY SchemaAssumption DEF SchemaAssumption
      <4>4. place' \in [Runners -> Places] /\ \A q \in Runners \ {p} : place'[q] = place[q]
        BY <2>4, <4>2, Located DEF SchemaInv
      <4>5. \A q \in Runners : place'[q] \notin {"out", "ready"} => next'[q] <= Latest
        BY <2>3, <2>10, <4>2, <4>4 DEF Copy, SchemaInv
      <4>6. disk' = disk /\ working' = new /\ writer' = p BY <4>2 DEF Transact
      <4> QED BY <2>2, <4>1, <4>2, <4>3, <4>4, <4>5, <4>6 DEF SchemaKept, SchemaInv, SchemaTypeOK
    <3>2. CASE ~(db.table # "none" /\ db.aside /\ db.rows \cap db.old = {})
      BY <2>10, <3>2, RaiseKeeps DEF Copy, SchemaInv, SchemaTypeOK
    <3> QED BY <3>1, <3>2
  <2>11. CASE Read(p)
    <3> DEFINE cannot == db.table = "none" /\ (next[p] = 1 \/ next[p] \in ToCaptures)
    <3>1. CASE cannot
      BY <2>11, <3>1, RaiseKeeps DEF Read, SchemaInv, SchemaTypeOK
    <3>2. CASE ~cannot
      <4>1. db.parts \in SUBSET Parts BY <2>2 DEF Databases
      <4> QED BY <2>3, <2>4, <2>11, <3>2, <4>1, MoveKeeps DEF Read, SchemaInv, SchemaTypeOK
    <3> QED BY <3>1, <3>2
  <2>12. CASE Add(p)
    <3>1. PICK c \in Missing(p) :
            IF c \in db.parts \/ (c \in OnCaptures /\ db.table = "none")
            THEN Raise(p)
            ELSE /\ Execute(p, [db EXCEPT !.parts = @ \union {c}])
                 /\ seen' = [seen EXCEPT ![p] = @ \union {c}]
                 /\ UNCHANGED <<writer, place>>
      BY <2>12 DEF Add
    <3> DEFINE fails == c \in db.parts \/ (c \in OnCaptures /\ db.table = "none")
               new == [db EXCEPT !.parts = @ \union {c}]
    <3>2. CASE fails
      BY <2>12, <3>1, <3>2, RaiseKeeps DEF Add, SchemaInv, SchemaTypeOK
    <3>3. CASE ~fails
      <4>1. c \in Parts BY <2>3, <2>12, PartsAreParts DEF Add, Missing
      <4>2. new \in Databases /\ Tidy(new) /\ Stored(new) = Stored(db)
        BY <2>2, <4>1 DEF Databases, Stored, Tidy
      <4>3. Execute(p, new) /\ seen' \in [Runners -> SUBSET Parts] /\ UNCHANGED <<writer, place>>
        BY <3>1, <3>3, <4>1 DEF SchemaInv, SchemaTypeOK
      <4>4. GoTo(p, "add") BY <2>12, <4>3 DEF Add, GoTo, SchemaInv, SchemaTypeOK
      <4> QED BY <2>4, <2>12, <4>2, <4>3, <4>4, WriteKeeps DEF Add
    <3> QED BY <3>2, <3>3
  <2>13. CASE Added(p)
    BY <2>3, <2>4, <2>13, MoveKeeps DEF Added, SchemaInv, SchemaTypeOK
  <2>14. CASE Stamp(p)
    <3> DEFINE new == [db EXCEPT !.version = next[p]]
    <3>1. next[p] \in 1..Latest BY <2>3, <2>14 DEF Stamp
    <3>2. new \in Databases /\ Tidy(new) /\ Stored(new) = Stored(db)
      BY <2>2, <3>1, SchemaAssumption DEF Databases, Stored, Tidy, SchemaAssumption
    <3>3. StartOf(next[p] + 1) = "ready" \/ next[p] + 1 <= Latest
      BY <3>1, SchemaAssumption DEF StartOf, SchemaAssumption
    <3>4. next' \in [Runners -> 1..(Latest + 1)] /\ next'[p] = next[p] + 1
          /\ \A q \in Runners \ {p} : next'[q] = next[q]
      BY <2>14, <3>1, SchemaAssumption DEF Stamp, SchemaInv, SchemaTypeOK, SchemaAssumption
    <3>5. Commit(p, new) /\ GoTo(p, StartOf(next[p] + 1)) /\ UNCHANGED <<seen, breaks>>
      BY <2>14 DEF Stamp
    <3> QED BY <2>2, <3>2, <3>3, <3>4, <3>5, Starts, Located DEF Commit, SchemaKept, SchemaInv, SchemaTypeOK
  <2>15. CASE Locked(p) \/ Crash(p)
    <3>1. breaks' \in 0..MaxBreaks
      BY <2>15, SchemaAssumption DEF Locked, Crash, SchemaInv, SchemaTypeOK, SchemaAssumption
    <3> QED BY <2>15, <3>1, RaiseKeeps DEF Locked, Crash
  <2>16. ASSUME NEW c \in Fresh, Ingest(p, c) PROVE SchemaKept
    <3> DEFINE new == [disk EXCEPT !.rows = @ \union {c}]
    <3>1. new \in Databases /\ Tidy(new) /\ Stored(disk) \subseteq Stored(new)
      BY DEF SchemaInv, SchemaTypeOK, Databases, Stored, Tidy
    <3> QED BY <2>16, <3>1 DEF Ingest, Commit, SchemaKept, SchemaInv, SchemaTypeOK
  <2> QED
    BY <2>1, <2>5, <2>6, <2>7, <2>8, <2>9, <2>10, <2>11, <2>12, <2>13, <2>14, <2>15, <2>16 DEF Steps
<1> QED BY <1>1, <1>2

LEMMA SchemaStart == SchemaInit => SchemaInv
<1> SUFFICES ASSUME SchemaInit PROVE SchemaInv
  OBVIOUS
<1>1. New \in Databases /\ Tidy(New)
  <2>1. 0 \in 0..Latest BY SchemaAssumption DEF SchemaAssumption
  <2> QED BY <2>1 DEF New, Databases, Tidy
<1>3. Old \in Databases /\ Tidy(Old) BY <1>1 DEF Old, Databases, Tidy, New
<1>2. "out" \in Places BY DEF Places
<1> QED BY <1>1, <1>2, <1>3, SchemaAssumption DEF SchemaInit, SchemaInv, SchemaTypeOK, SchemaAssumption

\* src/pce_core/migrations: the types of SchemaMigrations.
THEOREM SchemaTypes == SchemaSpec => []SchemaTypeOK
<1>1. SchemaInv /\ [SchemaNext]_schemaVars => SchemaInv' BY SchemaStep DEF SchemaKept
<1>2. SchemaInv => SchemaTypeOK BY DEF SchemaInv
<1> QED BY SchemaStart, <1>1, <1>2, PTL DEF SchemaSpec

\* No migration, by whichever processes, killed wherever they are, destroys a
\* capture that was stored.
THEOREM CapturesOutliveMigrations == SchemaSpec => RowsSurvive
<1>1. SchemaInv /\ [SchemaNext]_schemaVars => SchemaInv' BY SchemaStep DEF SchemaKept
<1>2. SchemaInv /\ [SchemaNext]_schemaVars
        => [disk.rows \union disk.old \subseteq (disk.rows \union disk.old)']_schemaVars
  BY SchemaStep DEF SchemaKept, Stored
<1> QED BY SchemaStart, <1>1, <1>2, PTL DEF SchemaSpec, RowsSurvive

\* All that the migrations before v add is there.
Before(v) == \A w \in 1..(v - 1) : PartsOf(w) \subseteq disk.parts

\* What holds of a process at a database that was never narrow: it rebuilds
\* nothing, finds the table, and what it has done and seen is there.
Sound(p) ==
    /\ place[p] \notin {"rename", "recreate", "copy"}
    /\ place[p] \notin {"out", "baseline"} => disk.table = "wide"
    /\ place[p] # "out" => Before(next[p])
    /\ place[p] = "stamp" => PartsOf(next[p]) \subseteq disk.parts
    /\ place[p] = "ready" => next[p] = Latest + 1
    /\ seen[p] \subseteq disk.parts

Modern ==
    /\ writer = Nobody /\ disk.table # "narrow"
    /\ disk.version # 0 => disk.table = "wide"
    /\ Before(disk.version + 1)
    /\ \A p \in Runners : Sound(p)

ModernInv == Legacy \notin Stored(disk) => Modern

\* The schema only grows, so what is sound stays so.
LEMMA SoundStays ==
    ASSUME NEW q, Sound(q), disk.parts \subseteq disk'.parts,
           disk.table = "wide" => disk'.table = "wide",
           place'[q] = place[q], next'[q] = next[q], seen'[q] = seen[q]
    PROVE  Sound(q)'
BY DEF Sound, Before

\* No process at a database without legacy captures breaks what is sound.
LEMMA ModernStep == SchemaInv /\ ModernInv /\ [SchemaNext]_schemaVars => ModernInv'
<1> SUFFICES ASSUME SchemaInv, ModernInv, [SchemaNext]_schemaVars, Legacy \notin Stored(disk')
             PROVE  Modern'
  BY DEF ModernInv, Stored
<1>a. SchemaInv' /\ Modern BY SchemaStep DEF SchemaKept, ModernInv
<1>b. \A q \in Runners : View(q) = disk
  BY <1>a, SchemaAssumption DEF Modern, View, SchemaAssumption
<1>1. CASE UNCHANGED schemaVars
  BY <1>a, <1>1 DEF schemaVars, Modern, Sound, Before
<1>2. CASE SchemaNext
  <2>1. PICK p \in Runners :
          Begin(p) \/ Steps(p) \/ Locked(p) \/ Crash(p) \/ \E c \in Fresh : Ingest(p, c)
    BY <1>2 DEF SchemaNext
  <2>2. Sound(p) /\ \A q \in Runners : Sound(q) BY <1>a DEF Modern
  <2>3. /\ next[p] \in 1..(Latest + 1) /\ disk.version \in 0..Latest
        /\ place[p] \notin {"out", "ready"} => next[p] \in 1..Latest
    BY NextType DEF SchemaInv, SchemaTypeOK, Databases
  <2>4. /\ DOMAIN place = Runners /\ DOMAIN next = Runners /\ DOMAIN seen = Runners
        /\ disk \in Databases
    BY DEF SchemaInv, SchemaTypeOK
  \* A step of p that leaves the database alone.
  <2>a. ASSUME UNCHANGED <<disk, writer>>, Sound(p)',
               \A q \in Runners \ {p} : place'[q] = place[q] /\ next'[q] = next[q] /\ seen'[q] = seen[q]
        PROVE  Modern'
    BY <1>a, <2>2, <2>a, SoundStays DEF Modern, Before
  <2>b. ASSUME Raise(p) PROVE Modern'
    <3>1. UNCHANGED <<disk, writer, next, seen>> BY <1>a, <2>b, SchemaAssumption DEF Raise, Modern, SchemaAssumption
    <3>2. place'[p] = "out" /\ \A q \in Runners \ {p} : place'[q] = place[q]
      BY <2>4, <2>b DEF Raise, GoTo
    <3>3. Sound(p)' BY <2>2, <3>1, <3>2 DEF Sound, Before
    <3> QED BY <2>a, <3>1, <3>2, <3>3
  <2>5. CASE Begin(p)
    <3>1. /\ UNCHANGED <<disk, writer>> /\ next'[p] = disk.version + 1 /\ seen'[p] = {}
          /\ place'[p] = StartOf(disk.version + 1)
          /\ \A q \in Runners \ {p} : place'[q] = place[q] /\ next'[q] = next[q] /\ seen'[q] = seen[q]
      BY <2>4, <2>5 DEF Begin, GoTo
    <3>2. Sound(p)'
      <4> DEFINE v == disk.version + 1
      <4>1. v \in 1..(Latest + 1) /\ (v # 1 => disk.table = "wide")
        BY <1>a, <2>3, SchemaAssumption DEF Modern, SchemaAssumption
      <4>2. CASE v > Latest
        <5>1. place'[p] = "ready" /\ v = Latest + 1 BY <3>1, <4>1, <4>2, SchemaAssumption DEF StartOf, SchemaAssumption
        <5> QED BY <1>a, <3>1, <4>1, <4>2, <5>1, SchemaAssumption DEF Modern, Sound, Before, SchemaAssumption
      <4>3. CASE v = 1
        <5>1. place'[p] = "baseline" BY <3>1, <4>3, SchemaAssumption DEF StartOf, SchemaAssumption
        <5> QED BY <1>a, <3>1, <5>1 DEF Modern, Sound, Before
      <4>4. CASE ~(v > Latest) /\ v # 1
        <5>1. place'[p] \in {"read", "add", "stamp"} /\ (place'[p] = "stamp" => PartsOf(v) = {})
          BY <3>1, <4>4 DEF StartOf, PartsOf
        <5> QED BY <1>a, <3>1, <4>1, <4>4, <5>1 DEF Modern, Sound, Before
      <4> QED BY <4>2, <4>3, <4>4
    <3> QED BY <2>a, <3>1, <3>2
  \* A step of p that adds to the schema.
  <2>c. ASSUME NEW db, Execute(p, db), UNCHANGED writer, Sound(p)',
               db.version = disk.version, disk.parts \subseteq db.parts,
               db.table # "narrow", disk.table = "wide" => db.table = "wide",
               \A q \in Runners \ {p} : place'[q] = place[q] /\ next'[q] = next[q] /\ seen'[q] = seen[q]
        PROVE  Modern'
    <3>1. disk' = db BY <1>a, <2>c, SchemaAssumption DEF Execute, Modern, SchemaAssumption
    <3>2. \A q \in Runners : Sound(q)' BY <2>2, <2>c, <3>1, SoundStays
    <3> QED BY <1>a, <2>c, <3>1, <3>2 DEF Modern, Before
  <2>6. CASE Baseline(p)
    <3> DEFINE db == Created(disk)
    <3>1. /\ db.version = disk.version /\ db.parts = disk.parts /\ db.table = "wide"
      BY <1>a, <2>4 DEF Created, Databases, Modern
    <3>2. /\ Execute(p, db) /\ UNCHANGED <<writer, next, seen>> /\ place'[p] = "look"
          /\ \A q \in Runners \ {p} : place'[q] = place[q]
      BY <1>b, <2>4, <2>6 DEF Baseline, GoTo
    <3>3. disk' = db BY <1>a, <3>2, SchemaAssumption DEF Execute, Modern, SchemaAssumption
    <3>4. Sound(p)' BY <2>2, <2>6, <3>1, <3>2, <3>3 DEF Sound, Before, Baseline
    <3> QED BY <2>c, <3>1, <3>2, <3>4
  <2>7. CASE Look(p)
    <3>1. /\ UNCHANGED <<disk, writer, next, seen>> /\ place'[p] = "read"
          /\ \A q \in Runners \ {p} : place'[q] = place[q]
      BY <1>a, <1>b, <2>4, <2>7 DEF Look, GoTo, Modern
    <3>2. Sound(p)' BY <2>2, <2>7, <3>1 DEF Sound, Before, Look
    <3> QED BY <2>a, <3>1, <3>2
  <2>8. CASE Rename(p) \/ Recreate(p) \/ Copy(p)
    BY <2>2, <2>8 DEF Sound, Rename, Recreate, Copy
  <2>9. CASE Read(p)
    <3>1. CASE Raise(p) BY <2>b, <3>1
    <3>2. CASE ~Raise(p)
      <4>1. /\ UNCHANGED <<disk, writer, next>> /\ place'[p] = "add" /\ seen'[p] = disk.parts
            /\ \A q \in Runners \ {p} : place'[q] = place[q] /\ next'[q] = next[q] /\ seen'[q] = seen[q]
        BY <1>b, <2>4, <2>9, <3>2 DEF Read, GoTo
      <4>2. Sound(p)' BY <2>2, <2>9, <4>1 DEF Sound, Before, Read
      <4> QED BY <2>a, <4>1, <4>2
    <3> QED BY <3>1, <3>2
  <2>10. CASE Add(p)
    <3>1. PICK c \in Missing(p) :
            IF c \in disk.parts \/ (c \in OnCaptures /\ disk.table = "none")
            THEN Raise(p)
            ELSE /\ Execute(p, [disk EXCEPT !.parts = @ \union {c}])
                 /\ seen' = [seen EXCEPT ![p] = @ \union {c}]
                 /\ UNCHANGED <<writer, place>>
      BY <1>b, <2>10 DEF Add
    <3>2. CASE Raise(p) BY <2>b, <3>2
    <3>3. CASE ~Raise(p)
      <4> DEFINE db == [disk EXCEPT !.parts = @ \union {c}]
      <4>1. db.version = disk.version /\ db.parts = disk.parts \union {c} /\ db.table = disk.table
        BY <2>4 DEF Databases
      <4>2. /\ Execute(p, db) /\ UNCHANGED <<writer, place, next>> /\ seen'[p] = seen[p] \union {c}
            /\ \A q \in Runners \ {p} : place'[q] = place[q] /\ next'[q] = next[q] /\ seen'[q] = seen[q]
        BY <2>4, <2>10, <3>1, <3>3 DEF Add
      <4>3. disk' = db BY <1>a, <4>2, SchemaAssumption DEF Execute, Modern, SchemaAssumption
      <4> HIDE DEF db
      <4>4. Sound(p)' BY <2>2, <2>10, <4>1, <4>2, <4>3 DEF Sound, Before, Add
      <4>5. db.table # "narrow" BY <1>a, <4>1 DEF Modern
      <4> QED BY <2>c, <4>1, <4>2, <4>4, <4>5
    <3> QED BY <3>2, <3>3
  <2>11. CASE Added(p)
    <3>1. /\ UNCHANGED <<disk, writer, next, seen>> /\ place'[p] = "stamp"
          /\ \A q \in Runners \ {p} : place'[q] = place[q]
      BY <2>4, <2>11 DEF Added, GoTo
    <3>2. PartsOf(next[p]) \subseteq disk.parts
      BY <1>b, <2>2, <2>11 DEF Added, Missing, Known, Sound
    <3>3. Sound(p)' BY <2>2, <2>11, <3>1, <3>2 DEF Sound, Before, Added
    <3> QED BY <2>a, <3>1, <3>3
  <2>12. CASE Stamp(p)
    <3> DEFINE v == next[p] + 1
               db == [disk EXCEPT !.version = next[p]]
    <3>1. db.version = next[p] /\ db.parts = disk.parts /\ db.table = disk.table
      BY <2>4 DEF Databases
    <3>2. /\ disk' = db /\ writer' = Nobody /\ seen' = seen
          /\ next'[p] = v /\ place'[p] = StartOf(v)
          /\ \A q \in Runners \ {p} : place'[q] = place[q] /\ next'[q] = next[q]
      BY <1>b, <2>4, <2>12 DEF Stamp, Commit, GoTo
    <3>3. next[p] \in 1..Latest /\ disk.table = "wide" /\ PartsOf(next[p]) \subseteq disk.parts
      BY <2>2, <2>3, <2>12 DEF Stamp, Sound
    <3> HIDE DEF db
    <3>4. Before(v)
      <4>1. ASSUME NEW w \in 1..(v - 1) PROVE PartsOf(w) \subseteq disk.parts
        <5>1. w = next[p] \/ w \in 1..(next[p] - 1) BY <3>3, SchemaAssumption DEF SchemaAssumption
        <5>2. Before(next[p]) BY <2>2, <2>12 DEF Sound, Stamp
        <5> QED BY <3>3, <5>1, <5>2 DEF Before
      <4> QED BY <4>1 DEF Before
    <3>5. Sound(p)'
      <4>1. v \in 1..(Latest + 1) /\ v # 1 BY <3>3, SchemaAssumption DEF SchemaAssumption
      <4>2. CASE v > Latest
        <5>1. place'[p] = "ready" /\ v = Latest + 1 BY <3>2, <4>1, <4>2, SchemaAssumption DEF StartOf, SchemaAssumption
        <5> QED BY <2>2, <3>1, <3>2, <3>3, <3>4, <5>1 DEF Sound, Before
      <4>3. CASE ~(v > Latest)
        <5>1. place'[p] \in {"read", "add", "stamp"} /\ (place'[p] = "stamp" => PartsOf(v) = {})
          BY <3>2, <4>1, <4>3 DEF StartOf, PartsOf
        <5> QED BY <2>2, <3>1, <3>2, <3>3, <3>4, <5>1 DEF Sound, Before
      <4> QED BY <4>2, <4>3
    <3>6. \A q \in Runners \ {p} : Sound(q)' BY <2>2, <3>1, <3>2, SoundStays
    <3>7. writer' = Nobody /\ disk'.table = "wide" /\ Before(disk.version + 1)'
      BY <3>1, <3>2, <3>3, <3>4 DEF Before
    <3> QED BY <3>5, <3>6, <3>7 DEF Modern
  <2>13. CASE Locked(p) \/ Crash(p)
    BY <2>13, <2>b DEF Locked, Crash
  <2>14. ASSUME NEW c \in Fresh, Ingest(p, c) PROVE Modern'
    <3>1. /\ disk' = [disk EXCEPT !.rows = @ \union {c}] /\ writer' = Nobody
          /\ UNCHANGED <<place, next, seen>>
      BY <2>14 DEF Ingest, Commit
    <3>2. disk'.version = disk.version /\ disk'.parts = disk.parts /\ disk'.table = disk.table
      BY <2>4, <3>1 DEF Databases
    <3>3. \A q \in Runners : Sound(q)' BY <2>2, <3>1, <3>2, SoundStays
    <3> QED BY <1>a, <3>1, <3>2, <3>3 DEF Modern, Before
  <2> QED
    BY <2>1, <2>5, <2>6, <2>7, <2>8, <2>9, <2>10, <2>11, <2>12, <2>13, <2>14 DEF Steps
<1> QED BY <1>1, <1>2

\* Past init_db a process finds the latest schema, however many processes
\* migrate at once, fail or are killed, and wherever the version stands.
THEOREM ReadyFindsAll == SchemaSpec => []SchemaIsWhole
<1>1. SchemaInv /\ [SchemaNext]_schemaVars => SchemaInv' BY SchemaStep DEF SchemaKept
<1>2. SchemaInit => ModernInv
  <2> SUFFICES ASSUME SchemaInit, Legacy \notin Stored(disk) PROVE Modern
    BY DEF ModernInv
  <2>1. disk = New BY DEF SchemaInit, Old, New, Stored
  <2>2. disk.version = 0 /\ disk.table = "none" /\ disk.parts = {} BY <2>1 DEF New
  <2> QED BY <2>2 DEF SchemaInit, Modern, Sound, Before
<1>3. SchemaInv /\ ModernInv => SchemaIsWhole
  <2> SUFFICES ASSUME SchemaInv, Modern, NEW p \in Runners, place[p] = "ready"
               PROVE  disk.table = "wide" /\ Parts \subseteq disk.parts
    BY DEF ModernInv, SchemaIsWhole, Stored
  <2>1. Sound(p) BY DEF Modern
  <2>2. Before(Latest + 1) /\ disk.table = "wide" BY <2>1 DEF Sound
  <2> QED BY <2>2, SchemaAssumption DEF Before, Parts, SchemaAssumption
<1> QED BY SchemaStart, <1>1, <1>2, <1>3, ModernStep, PTL DEF SchemaSpec

=============================================================================
