-------------------------- MODULE IngestPipeline --------------------------
(***************************************************************************)
(* From a stored capture (Tier 0) to sessions and messages (Tier 1).       *)
(* Request threads of the server, the proxy process and the orphan sweeper *)
(* run the same normalizer code against one SQLite file, each database     *)
(* call on a connection of its own: every call is one step, and between    *)
(* two calls any other process may run.                                    *)
(*                                                                         *)
(* What a provider normalizer extracts from a pair is a constant; a        *)
(* message is its dedup hash.  Messages carry no provider_parent_uuid, so  *)
(* no branch is forked and every row lands on branch '0'.                  *)
(***************************************************************************)
EXTENDS Integers, Sequences, FiniteSets

CONSTANTS
    Workers,      \* threads and processes that ingest captures
    Sweeper,      \* the caller of sweep_orphan_request_rows
    Pairs,        \* capture pair ids
    Single,       \* pairs that are one capture of a whole conversation
    Hashes,       \* message_hash values
    UserHashes,   \* those of messages with a role the request-only path keeps
    Keys,         \* session keys
    NoKey,        \* the absent session key
    KeyOf,        \* the session_key of a pair's NormalizedResult
    Result,       \* the messages of a pair's NormalizedResult
    Prompts,      \* those of them the request-only path keeps, in their order
    MaxSweeps,    \* bound: runs of the sweeper
    MaxFaults     \* bound: pairs with a failing query or insert

Procs == Workers \cup {Sweeper}

ASSUME PipelineAssumption ==
    /\ Sweeper \notin Workers
    /\ Pairs # {}
    /\ Single \subseteq Pairs
    /\ UserHashes \subseteq Hashes
    /\ NoKey \notin Keys
    /\ KeyOf \in [Pairs -> Keys \cup {NoKey}]
    /\ Result \in [Pairs -> Seq(Hashes)]
    /\ Prompts \in [Pairs -> Seq(Hashes)]
    /\ \A p \in Pairs : \E at \in [DOMAIN Prompts[p] -> DOMAIN Result[p]] :
          /\ \A i, j \in DOMAIN Prompts[p] : i < j => at[i] < at[j]
          /\ \A i \in DOMAIN Prompts[p] : Prompts[p][i] = Result[p][at[i]]
          /\ {at[i] : i \in DOMAIN Prompts[p]} = {n \in DOMAIN Result[p] : Result[p][n] \in UserHashes}
    /\ MaxSweeps \in Nat
    /\ MaxFaults \in Nat

VARIABLES
    rows,        \* raw_captures: <<pair, direction>>
    sessions,    \* the session_key of each sessions row
    count,       \* sessions.message_count
    messages,    \* the messages rows, in insertion order
    pc,          \* where each process stands
    job,         \* the local variables of each process
    orphans,     \* rows the running sweep has yet to visit
    sweeps,      \* number of sweeps begun
    done,        \* history: persists that ended, as <<pair, kind, session>>
    recovered,   \* history: pairs a sweep counted as recovered
    raced,       \* history: session keys two persists worked on at once, or one blindly
    early,       \* history: pairs whose response was stored before its request
    failed       \* history: pairs with a query or an insert that failed

tier1   == <<sessions, count, messages>>
history == <<done, recovered, raced, early, failed>>
vars    == <<rows, tier1, pc, job, orphans, sweeps, history>>

Directions == {"request", "response", "conversation"}
Kinds      == {"complete", "cancelled"}
Labels     == {"idle", "lookup", "find", "create", "snapshot", "loop", "insert"}
SessionIds == DOMAIN sessions

Job == [pair : Pairs, kind : Kinds, todo : Seq(Hashes), session : Nat,
        bucket : [Hashes -> Nat], cursor : [Hashes -> Nat], turn : Nat]

Row == [session : Nat, hash : Hashes, pair : Pairs, kind : Kinds, turn : Nat]

TypeOK ==
    /\ rows \subseteq Pairs \X Directions
    /\ sessions \in Seq(Keys \cup {NoKey})
    /\ count \in [SessionIds -> Nat]
    /\ messages \in Seq(Row)
    /\ \A i \in DOMAIN messages : messages[i].session \in SessionIds
    /\ pc \in [Procs -> Labels]
    /\ job \in [Procs -> Job]
    /\ orphans \subseteq Pairs
    /\ sweeps \in 0 .. MaxSweeps
    /\ recovered \subseteq Pairs
    /\ raced \subseteq Keys
    /\ early \subseteq Pairs
    /\ failed \subseteq Pairs

None == [h \in Hashes |-> 0]

NoJob == [pair |-> CHOOSE p \in Pairs : TRUE, kind |-> "complete", todo |-> <<>>,
          session |-> 0, bucket |-> None, cursor |-> None, turn |-> 0]

Init ==
    /\ rows = {}
    /\ sessions = <<>> /\ count = <<>> /\ messages = <<>>
    /\ pc = [w \in Procs |-> "idle"]
    /\ job = [w \in Procs |-> NoJob]
    /\ orphans = {} /\ sweeps = 0
    /\ done = {} /\ recovered = {} /\ raced = {} /\ early = {} /\ failed = {}

---------------------------------------------------------------------------
(* Helpers                                                                 *)

HasRow(p, d) == <<p, d>> \in rows

\* The messages a persist of p writes: all of them, or for a request without
\* a response those that are not the assistant's.
Extracted(p, kind) == IF kind = "complete" THEN Result[p] ELSE Prompts[p]

Occurrences(h, s) == Cardinality({i \in DOMAIN s : s[i] = h})

Rows(id) == {i \in DOMAIN messages : messages[i].session = id}
Copies(h, id) == Cardinality({i \in Rows(id) : messages[i].hash = h})
Turns(id) == {messages[i].turn : i \in Rows(id)}

\* SELECT MAX(turn_index), plus one; a fresh session starts at 0.
NextTurnFromOne(id) == 1 + Cardinality(Rows(id))
NextTurn(id) ==
    IF Rows(id) = {} THEN 0
    ELSE 1 + (CHOOSE t \in Turns(id) : \A u \in Turns(id) : u <= t)

InPersist(w) == pc[w] \in {"find", "create", "snapshot", "loop", "insert"}

\* The keys other processes are persisting to while w starts on p.
Overlap(w, p) ==
    IF KeyOf[p] # NoKey /\ \E v \in Procs \ {w} : InPersist(v) /\ KeyOf[job[v].pair] = KeyOf[p]
    THEN {KeyOf[p]} ELSE {}

Go(w, label) == pc' = [pc EXCEPT ![w] = label]
Return(w)    == Go(w, "idle") /\ job' = [job EXCEPT ![w] = NoJob]

---------------------------------------------------------------------------
(* ingest_capture: one row, then the normalizer when the row calls for it. *)

Store(w, p, d) ==
    /\ w \in Workers /\ pc[w] = "idle"
    /\ d = "conversation" <=> p \in Single
    /\ ~HasRow(p, d)
    /\ rows' = rows \cup {<<p, d>>}
    /\ early' = IF d = "request" /\ HasRow(p, "response") THEN early \cup {p} ELSE early
    /\ IF d = "request" THEN UNCHANGED <<pc, job>>
       ELSE Go(w, "lookup") /\ job' = [job EXCEPT ![w].pair = p]
    /\ UNCHANGED <<tier1, orphans, sweeps, done, recovered, raced, failed>>

\* query_by_pair and the tests on its rows: a pair must be complete, a
\* conversation is its own pair, and the request-only path gives up as soon
\* as a response is there.
ProceedsPairsOnly(p, kind) ==
    IF kind = "cancelled" THEN HasRow(p, "request") /\ ~HasRow(p, "response")
    ELSE HasRow(p, "request") /\ HasRow(p, "response")
Proceeds(p, kind) ==
    CASE kind = "cancelled" -> HasRow(p, "request") /\ ~HasRow(p, "response")
      [] p \in Single       -> HasRow(p, "conversation")
      [] OTHER              -> HasRow(p, "request") /\ HasRow(p, "response")

Lookup(w) ==
    /\ pc[w] = "lookup"
    /\ LET p == job[w].pair  todo == Extracted(p, job[w].kind) IN
          IF Proceeds(p, job[w].kind) /\ todo # <<>>
          THEN /\ job' = [job EXCEPT ![w].todo = todo]
               /\ raced' = raced \cup Overlap(w, p)
               /\ Go(w, "find")
          ELSE Return(w) /\ UNCHANGED raced
    /\ UNCHANGED <<rows, tier1, orphans, sweeps, done, recovered, early, failed>>

---------------------------------------------------------------------------
(* persist_result                                                          *)

WithKey(k) == {id \in SessionIds : sessions[id] = k}

\* find_existing_session.  It prefers the session that started last by the
\* captures' clocks, which need not be the one inserted last: any may be.
Find(w) ==
    /\ pc[w] = "find"
    /\ LET k == KeyOf[job[w].pair] IN
          \/ /\ k = NoKey \/ WithKey(k) = {}
             /\ Go(w, "create")
             /\ UNCHANGED job
          \/ /\ k # NoKey
             /\ \E id \in WithKey(k) : job' = [job EXCEPT ![w].session = id]
             /\ Go(w, "snapshot")
    /\ UNCHANGED <<rows, tier1, orphans, sweeps, history>>

\* A query that fails looks like one that finds nothing: the session of the
\* key, or the messages it has, are missed.
Blind(w) ==
    /\ pc[w] \in {"find", "snapshot"} /\ KeyOf[job[w].pair] # NoKey
    /\ Cardinality(failed) < MaxFaults
    /\ failed' = failed \cup {job[w].pair}
    /\ raced' = raced \cup {KeyOf[job[w].pair]}
    /\ Go(w, IF pc[w] = "find" THEN "create" ELSE "loop")
    /\ UNCHANGED <<rows, tier1, job, orphans, sweeps, done, recovered, early>>

\* create_session: a key is not unique in the table.
Create(w) ==
    /\ pc[w] = "create"
    /\ sessions' = Append(sessions, KeyOf[job[w].pair])
    /\ count' = Append(count, 0)
    /\ job' = [job EXCEPT ![w].session = Len(sessions) + 1]
    /\ Go(w, "loop")
    /\ UNCHANGED <<rows, messages, orphans, sweeps, history>>

\* The insert fails: persist_result records the error and gives up.
CreateFails(w) ==
    /\ pc[w] = "create"
    /\ Cardinality(failed) < MaxFaults
    /\ failed' = failed \cup {job[w].pair}
    /\ Return(w)
    /\ UNCHANGED <<rows, tier1, orphans, sweeps, done, recovered, raced, early>>

\* get_existing_message_hash_buckets, only the lengths of which matter here.
OwnBuckets(w) ==
    [h \in Hashes |-> Cardinality({i \in Rows(job[w].session) :
                          messages[i].hash = h /\ messages[i].pair = job[w].pair})]
Buckets(w) == [h \in Hashes |-> Copies(h, job[w].session)]

Snapshot(w) ==
    /\ pc[w] = "snapshot"
    /\ job' = [job EXCEPT ![w].bucket = Buckets(w)]
    /\ Go(w, "loop")
    /\ UNCHANGED <<rows, tier1, orphans, sweeps, history>>

Current(w) == Head(job[w].todo)

\* The message matches the row at its position: it is enriched, not inserted.
\* Enrichment changes no field that is modelled.
MatchesAny(w) == job[w].bucket[Current(w)] > 0
MatchesHere(w) == job[w].cursor[Current(w)] < job[w].bucket[Current(w)]

Enrich(w) ==
    /\ pc[w] = "loop" /\ job[w].todo # <<>> /\ MatchesHere(w)
    /\ job' = [job EXCEPT ![w].cursor[Current(w)] = @ + 1, ![w].todo = Tail(@)]
    /\ UNCHANGED <<rows, tier1, pc, orphans, sweeps, history>>

\* insert_message reads the next turn_index before its write transaction.
ReadTurn(w) ==
    /\ pc[w] = "loop" /\ job[w].todo # <<>> /\ ~MatchesHere(w)
    /\ job' = [job EXCEPT ![w].turn = NextTurn(job[w].session)]
    /\ Go(w, "insert")
    /\ UNCHANGED <<rows, tier1, orphans, sweeps, history>>

\* The write transaction: the row and the session's message_count.
AddRowRecount(w) ==
    /\ messages' = Append(messages, [session |-> job[w].session, hash |-> Current(w),
                                     pair |-> job[w].pair, kind |-> job[w].kind,
                                     turn |-> job[w].turn])
    /\ count' = [count EXCEPT ![job[w].session] = job[w].turn + 1]

AddRow(w) ==
    /\ messages' = Append(messages, [session |-> job[w].session, hash |-> Current(w),
                                     pair |-> job[w].pair, kind |-> job[w].kind,
                                     turn |-> job[w].turn])
    /\ count' = [count EXCEPT ![job[w].session] = @ + 1]

Insert(w) ==
    /\ pc[w] = "insert"
    /\ AddRow(w)
    /\ job' = [job EXCEPT ![w].cursor[Current(w)] = @ + 1,
                          ![w].bucket[Current(w)] = @ + 1,
                          ![w].todo = Tail(@)]
    /\ Go(w, "loop")
    /\ UNCHANGED <<rows, sessions, orphans, sweeps, history>>

\* insert_message returns None and the loop goes on with the next message.
InsertFails(w) ==
    /\ pc[w] = "insert"
    /\ Cardinality(failed) < MaxFaults
    /\ failed' = failed \cup {job[w].pair}
    /\ job' = [job EXCEPT ![w].cursor[Current(w)] = @ + 1, ![w].todo = Tail(@)]
    /\ Go(w, "loop")
    /\ UNCHANGED <<rows, tier1, orphans, sweeps, done, recovered, raced, early>>

Finish(w) ==
    /\ pc[w] = "loop" /\ job[w].todo = <<>>
    /\ done' = done \cup {<<job[w].pair, job[w].kind, job[w].session>>}
    /\ recovered' = IF w = Sweeper THEN recovered \cup {job[w].pair} ELSE recovered
    /\ Return(w)
    /\ UNCHANGED <<rows, tier1, orphans, sweeps, raced, early, failed>>

---------------------------------------------------------------------------
(* sweep_orphan_request_rows                                               *)

\* query_orphan_request_rows
Orphan(p) ==
    /\ HasRow(p, "request") /\ ~HasRow(p, "response")
    /\ \A i \in DOMAIN messages : messages[i].pair # p

\* It finds the requests older than min_age_seconds, up to a limit.
SweepBegin ==
    /\ pc[Sweeper] = "idle" /\ orphans = {}
    /\ sweeps < MaxSweeps
    /\ orphans' \in SUBSET {p \in Pairs : Orphan(p)} \ {{}}
    /\ sweeps' = sweeps + 1
    /\ UNCHANGED <<rows, tier1, pc, job, history>>

SweepVisit(p) ==
    /\ pc[Sweeper] = "idle" /\ p \in orphans
    /\ orphans' = orphans \ {p}
    /\ job' = [job EXCEPT ![Sweeper].pair = p, ![Sweeper].kind = "cancelled"]
    /\ Go(Sweeper, "lookup")
    /\ UNCHANGED <<rows, tier1, sweeps, history>>

---------------------------------------------------------------------------

Persist(w) ==
    \/ Find(w) \/ Blind(w) \/ Create(w) \/ CreateFails(w) \/ Snapshot(w)
    \/ Enrich(w) \/ ReadTurn(w) \/ Insert(w) \/ InsertFails(w) \/ Finish(w)

Next ==
    \/ \E w \in Workers, p \in Pairs, d \in Directions : Store(w, p, d)
    \/ \E w \in Procs : Lookup(w) \/ Persist(w)
    \/ \E p \in Pairs : SweepVisit(p)
    \/ SweepBegin

Spec == Init /\ [][Next]_vars

---------------------------------------------------------------------------
(* Properties                                                              *)

\* sessions.message_count is the number of the session's rows, whatever
\* interleaving of inserts produced them.
CountsMatch == \A id \in SessionIds : count[id] = Cardinality(Rows(id))

\* The turn_index values of a session are 0, 1, 2, ... without a gap, even
\* where two inserts read the same maximum.
TurnsHaveNoGap ==
    \A id \in SessionIds : \A t \in Turns(id) : \A u \in 0 .. t : u \in Turns(id)

\* A persist that ended left every message of its pair in its session, as
\* often as the pair has it: legitimate repeats survive deduplication, also
\* against a snapshot that went stale while the loop ran.
NothingDropped ==
    \A p \in Pairs \ failed, kind \in Kinds, id \in SessionIds :
        <<p, kind, id>> \in done =>
            \A h \in Hashes : Copies(h, id) >= Occurrences(h, Extracted(p, kind))

\* Where no two persists of a session key ever overlapped and no query failed,
\* incremental and repeated captures of a conversation, and a late response
\* after a sweep, end in one session that has each message exactly as often as
\* the capture that has it most often.
ExactUnlessRaced ==
    \A k \in Keys \ raced :
        /\ Cardinality(WithKey(k)) <= 1
        /\ \A id \in WithKey(k) :
              /\ Cardinality(Turns(id)) = Cardinality(Rows(id))
              /\ \A h \in Hashes : \E p \in Pairs :
                    KeyOf[p] = k /\ Copies(h, id) <= Occurrences(h, Result[p])

\* Once its worker is through, a pair that has messages and whose request was
\* stored before its response has been normalized in full: no pair is left half-processed.
CompletePairsNormalized ==
    \A p \in Pairs \ (early \cup failed) :
        /\ Result[p] # <<>>
        /\ HasRow(p, "conversation") \/ (HasRow(p, "request") /\ HasRow(p, "response"))
        /\ \A w \in Workers : pc[w] # "idle" => job[w].pair # p
        => \E id \in SessionIds : <<p, "complete", id>> \in done

\* "Idempotent: rerunning immediately after a successful sweep returns
\* scanned=0": a pair a sweep has recovered is no orphan any more.  Keys two
\* persists raced on are left out: sequential calls decide this.
SweepIsIdempotent == \A p \in recovered : KeyOf[p] \notin raced => ~Orphan(p)

\* "the only correct value across concurrent inserts": no two rows of a
\* session share a turn_index.
TurnsUnique ==
    \A id \in SessionIds : \A i, j \in Rows(id) :
        messages[i].turn = messages[j].turn => i = j

===========================================================================
