----------------------- MODULE IngestPipeline_proofs -----------------------
(***************************************************************************)
(* What the pipeline keeps for every number of processes, pairs, sessions  *)
(* and faults.  Five invariants are built on each other: the types and     *)
(* the sessions rows belong to (Grounded), the counters and turns of a     *)
(* session (Numbered), what a persist has accounted for (Accounted), which *)
(* pairs have a worker or are through (Attended), and what holds of a key  *)
(* no two persists worked on at once (Undisturbed).                        *)
(***************************************************************************)
EXTENDS IngestPipeline, FiniteSetTheorems, SequenceTheorems, TLAPS

---------------------------------------------------------------------------
(* Facts about the helpers                                                 *)

\* A session without rows has no turns; one with rows has its turns' values.
LEMMA TurnsOfRows ==
    ASSUME NEW id
    PROVE  Rows(id) = {} <=> Turns(id) = {}
BY DEF Turns

\* The rows of a session are finitely many.
LEMMA RowsFinite ==
    ASSUME messages \in Seq(Row), NEW id
    PROVE  /\ IsFiniteSet(Rows(id)) /\ Rows(id) \subseteq 1 .. Len(messages)
           /\ Cardinality(Rows(id)) \in Nat
<1>1. IsFiniteSet(1 .. Len(messages)) /\ DOMAIN messages = 1 .. Len(messages)
  BY FS_Interval
<1>2. Rows(id) \subseteq 1 .. Len(messages)
  BY <1>1 DEF Rows
<1> QED
  BY <1>1, <1>2, FS_Subset, FS_CardinalityType

\* The copies of a hash in a session are finitely many.
LEMMA CopiesNat ==
    ASSUME messages \in Seq(Row), NEW id, NEW h
    PROVE  /\ IsFiniteSet({i \in Rows(id) : messages[i].hash = h})
           /\ Copies(h, id) \in Nat
<1>1. IsFiniteSet({i \in Rows(id) : messages[i].hash = h})
  BY RowsFinite, FS_Subset
<1> QED
  BY <1>1, FS_CardinalityType DEF Copies

\* An appended row is one more row of its session and no other.
LEMMA RowsGrow ==
    ASSUME messages \in Seq(Row), NEW r \in Row, messages' = Append(messages, r), NEW id
    PROVE  /\ Rows(id)' = IF id = r.session THEN Rows(id) \cup {Len(messages) + 1} ELSE Rows(id)
           /\ Len(messages) + 1 \notin Rows(id)
           /\ \A i \in Rows(id) : messages'[i] = messages[i]
           /\ messages'[Len(messages) + 1] = r
<1>1. /\ DOMAIN messages = 1 .. Len(messages) /\ Len(messages) \in Nat
      /\ DOMAIN messages' = 1 .. (Len(messages) + 1)
      /\ \A i \in 1 .. Len(messages) : messages'[i] = messages[i]
      /\ messages'[Len(messages) + 1] = r
  OBVIOUS
<1>2. Rows(id)' = {i \in 1 .. (Len(messages) + 1) : messages'[i].session = id}
  BY <1>1 DEF Rows
<1> QED
  BY <1>1, <1>2 DEF Rows

\* The turns, the number of rows and the copies of a session follow.
LEMMA TurnsGrow ==
    ASSUME messages \in Seq(Row), NEW r \in Row, messages' = Append(messages, r), NEW id
    PROVE  Turns(id)' = IF id = r.session THEN Turns(id) \cup {r.turn} ELSE Turns(id)
<1>1. Turns(id)' = {messages'[i].turn : i \in Rows(id)'}
  BY DEF Turns
<1>2. /\ Rows(id)' = IF id = r.session THEN Rows(id) \cup {Len(messages) + 1} ELSE Rows(id)
      /\ \A i \in Rows(id) : messages'[i] = messages[i]
      /\ messages'[Len(messages) + 1] = r
  BY RowsGrow
<1>3. CASE id = r.session
  <2> DEFINE new == Len(messages) + 1
  <2>1. Rows(id)' = Rows(id) \cup {new} /\ messages'[new].turn = r.turn
    BY <1>2, <1>3
  <2>2. \A i \in Rows(id) : messages'[i].turn = messages[i].turn
    BY <1>2
  <2>3. Turns(id)' = {messages'[i].turn : i \in Rows(id) \cup {new}}
    BY <1>1, <2>1
  <2>4. {messages'[i].turn : i \in Rows(id) \cup {new}} =
            {messages[i].turn : i \in Rows(id)} \cup {r.turn}
    <3> HIDE DEF new
    <3> QED
      BY <2>1, <2>2
  <2> QED
    BY <1>3, <2>3, <2>4 DEF Turns
<1>4. CASE id # r.session
  BY <1>1, <1>2, <1>4 DEF Turns
<1> QED
  BY <1>3, <1>4

LEMMA CountGrows ==
    ASSUME messages \in Seq(Row), NEW r \in Row, messages' = Append(messages, r), NEW id
    PROVE  Cardinality(Rows(id))' =
               IF id = r.session THEN Cardinality(Rows(id)) + 1 ELSE Cardinality(Rows(id))
BY RowsGrow, RowsFinite, FS_AddElement

LEMMA CopiesGrow ==
    ASSUME messages \in Seq(Row), NEW r \in Row, messages' = Append(messages, r), NEW id, NEW h
    PROVE  Copies(h, id)' =
               IF id = r.session /\ h = r.hash THEN Copies(h, id) + 1 ELSE Copies(h, id)
<1> DEFINE C == {i \in Rows(id) : messages[i].hash = h}
<1>1. Copies(h, id)' = Cardinality({i \in Rows(id)' : messages'[i].hash = h})
  BY DEF Copies
<1>2. /\ Rows(id)' = IF id = r.session THEN Rows(id) \cup {Len(messages) + 1} ELSE Rows(id)
      /\ Len(messages) + 1 \notin Rows(id)
      /\ \A i \in Rows(id) : messages'[i] = messages[i]
      /\ messages'[Len(messages) + 1] = r
  BY RowsGrow
<1>3. {i \in Rows(id)' : messages'[i].hash = h} =
          IF id = r.session /\ h = r.hash THEN C \cup {Len(messages) + 1} ELSE C
  <2>1. CASE id = r.session
    BY <1>2, <2>1
  <2>2. CASE id # r.session
    BY <1>2, <2>2
  <2> QED
    BY <2>1, <2>2
<1>4. Len(messages) + 1 \notin C
  BY <1>2
<1>5. IsFiniteSet(C)
  BY CopiesNat
<1>6. Cardinality(C \cup {Len(messages) + 1}) = Cardinality(C) + 1
  BY <1>4, <1>5, FS_AddElement
<1> QED
  BY <1>1, <1>3, <1>6 DEF Copies

\* Leaving the head of a list leaves one occurrence of it.
LEMMA OccurrencesOfTail ==
    ASSUME NEW s \in Seq(Hashes), s # <<>>, NEW h
    PROVE  /\ Occurrences(h, Tail(s)) \in Nat
           /\ Occurrences(h, s) = Occurrences(h, Tail(s)) + (IF Head(s) = h THEN 1 ELSE 0)
<1> DEFINE A == {i \in 1 .. Len(s) : s[i] = h}
           B == {i \in 1 .. Len(s) - 1 : s[i + 1] = h}
           f == [i \in B |-> i + 1]
<1>1. /\ Len(s) \in Nat \ {0} /\ Len(Tail(s)) = Len(s) - 1 /\ Head(s) = s[1]
      /\ \A i \in 1 .. Len(s) - 1 : Tail(s)[i] = s[i + 1]
  OBVIOUS
<1>2. Occurrences(h, s) = Cardinality(A)
  <2>1. {i \in DOMAIN s : s[i] = h} = A
    BY <1>1
  <2> QED
    BY <2>1 DEF Occurrences
<1>3. Occurrences(h, Tail(s)) = Cardinality(B)
  <2>1. DOMAIN Tail(s) = 1 .. Len(s) - 1
    BY <1>1
  <2>2. {i \in DOMAIN Tail(s) : Tail(s)[i] = h} = B
    BY <1>1, <2>1
  <2> QED
    BY <2>2 DEF Occurrences
<1>4. IsFiniteSet(A) /\ IsFiniteSet(B)
  <2>1. IsFiniteSet(1 .. Len(s)) /\ IsFiniteSet(1 .. Len(s) - 1)
    BY <1>1, FS_Interval
  <2> QED
    BY <2>1, FS_Subset
<1>5. f \in Bijection(B, A \ {1})
  <2>1. f \in [B -> A \ {1}]
    BY <1>1
  <2>2. \A i, j \in B : f[i] = f[j] => i = j
    OBVIOUS
  <2>3. \A j \in A \ {1} : \E i \in B : f[i] = j
    <3> SUFFICES ASSUME NEW j \in A \ {1} PROVE \E i \in B : f[i] = j
      OBVIOUS
    <3>1. j - 1 \in B /\ f[j - 1] = j
      BY <1>1
    <3> QED
      BY <3>1
  <2> QED
    BY <2>1, <2>2, <2>3 DEF Bijection, Injection, Surjection, IsInjective
<1>6. Cardinality(A \ {1}) = Cardinality(B)
  BY <1>4, <1>5, FS_Bijection DEF ExistsBijection
<1>7. 1 \in A <=> Head(s) = h
  BY <1>1
<1>8. /\ Cardinality(A) \in Nat /\ Cardinality(B) \in Nat
      /\ Cardinality(A \ {1}) = IF 1 \in A THEN Cardinality(A) - 1 ELSE Cardinality(A)
  BY <1>4, FS_RemoveElement, FS_CardinalityType
<1> QED
  BY <1>2, <1>3, <1>6, <1>7, <1>8

---------------------------------------------------------------------------
(* Types, and the sessions that rows and jobs belong to                    *)

InSession == {"snapshot", "loop", "insert"}

Grounded ==
    /\ TypeOK
    /\ done \subseteq Pairs \X Kinds \X Nat
    /\ \A w \in Procs : pc[w] \in InSession => job[w].session \in SessionIds
    /\ \A w \in Procs : pc[w] = "insert" => job[w].todo # <<>>
    /\ \A id \in Nat : Rows(id) # {} => \E t \in Turns(id) : \A u \in Turns(id) : u <= t

\* The turn a process reads is past every turn of the session.
LEMMA NextTurnIsPast ==
    ASSUME Grounded, NEW id \in Nat
    PROVE  /\ NextTurn(id) \in Nat /\ Turns(id) \subseteq Nat
           /\ \A u \in Turns(id) : u < NextTurn(id)
           /\ Rows(id) = {} => NextTurn(id) = 0
           /\ Rows(id) # {} => NextTurn(id) - 1 \in Turns(id)
<1>1. Turns(id) \subseteq Nat
  <2>1. messages \in Seq(Row)
    BY DEF Grounded, TypeOK, Row
  <2>2. \A i \in DOMAIN messages : messages[i] \in Row
    BY <2>1, ElementOfSeq
  <2>3. \A i \in DOMAIN messages : messages[i].turn \in Nat
    BY <2>2 DEF Row
  <2> QED
    BY <2>3 DEF Turns, Rows
<1>2. CASE Rows(id) = {}
  BY <1>1, <1>2 DEF NextTurn, Turns
<1>3. CASE Rows(id) # {}
  <2>1. \E t \in Turns(id) : \A u \in Turns(id) : u <= t
    BY <1>3 DEF Grounded
  <2> DEFINE m == CHOOSE t \in Turns(id) : \A u \in Turns(id) : u <= t
  <2>2. m \in Turns(id) /\ \A u \in Turns(id) : u <= m
    BY <2>1
  <2>3. NextTurn(id) = 1 + m
    BY <1>3 DEF NextTurn
  <2> HIDE DEF m
  <2> QED
    BY <1>1, <1>3, <2>2, <2>3
<1> QED
  BY <1>2, <1>3

\* A lookup of a pair finds messages of known hashes.
LEMMA ExtractedType ==
    ASSUME NEW p \in Pairs, NEW kind
    PROVE  Extracted(p, kind) \in Seq(Hashes)
BY PipelineAssumption DEF Extracted, PipelineAssumption

\* Only an insert adds a row, and it adds one.
LEMMA MessagesOnlyInserted ==
    ASSUME [Next]_vars
    PROVE  UNCHANGED messages \/ \E w \in Procs : Insert(w)
BY DEF Next, vars, tier1, Store, Lookup, Persist, Find, Blind, Create, CreateFails, Snapshot,
       Enrich, ReadTurn, InsertFails, Finish, SweepVisit, SweepBegin

\* The row an insert of w adds.
RowOf(w) == [session |-> job[w].session, hash |-> Current(w), pair |-> job[w].pair,
             kind |-> job[w].kind, turn |-> job[w].turn]

LEMMA InsertAdds ==
    ASSUME Grounded, NEW w \in Procs, Insert(w)
    PROVE  /\ RowOf(w) \in Row /\ messages' = Append(messages, RowOf(w))
           /\ RowOf(w).session = job[w].session /\ RowOf(w).hash = Current(w)
           /\ RowOf(w).turn = job[w].turn
           /\ job[w].session \in SessionIds /\ job[w].session \in Nat /\ Current(w) \in Hashes
<1>1. job[w] \in Job /\ pc[w] = "insert" /\ job[w].todo # <<>> /\ job[w].session \in SessionIds
  BY DEF Grounded, TypeOK, Insert, InSession
<1>2. Current(w) \in Hashes
  BY <1>1 DEF Current, Job
<1>3. RowOf(w) \in Row
  BY <1>1, <1>2 DEF RowOf, Row, Job
<1> QED
  BY <1>1, <1>2, <1>3 DEF Insert, AddRow, RowOf, Job

\* The local variables keep their types: after a change of the pair, of what a
\* call returned, and of the counters.
LEMMA JobPair ==
    ASSUME job \in [Procs -> Job], NEW w \in Procs, NEW p \in Pairs
    PROVE  [job EXCEPT ![w].pair = p] \in [Procs -> Job]
BY DEF Job

LEMMA JobPairKind ==
    ASSUME job \in [Procs -> Job], NEW w \in Procs, NEW p \in Pairs, NEW kind \in Kinds
    PROVE  [job EXCEPT ![w].pair = p, ![w].kind = kind] \in [Procs -> Job]
<1>1. [job[w] EXCEPT !.pair = p, !.kind = kind] \in Job
  BY DEF Job
<1> QED
  BY <1>1

LEMMA JobTodo ==
    ASSUME job \in [Procs -> Job], NEW w \in Procs, NEW x \in Seq(Hashes)
    PROVE  [job EXCEPT ![w].todo = x] \in [Procs -> Job]
BY DEF Job

LEMMA JobSession ==
    ASSUME job \in [Procs -> Job], NEW w \in Procs, NEW x \in Nat
    PROVE  [job EXCEPT ![w].session = x] \in [Procs -> Job]
BY DEF Job

LEMMA JobTurn ==
    ASSUME job \in [Procs -> Job], NEW w \in Procs, NEW x \in Nat
    PROVE  [job EXCEPT ![w].turn = x] \in [Procs -> Job]
BY DEF Job

LEMMA JobBucket ==
    ASSUME job \in [Procs -> Job], NEW w \in Procs, NEW x \in [Hashes -> Nat]
    PROVE  [job EXCEPT ![w].bucket = x] \in [Procs -> Job]
BY DEF Job

LEMMA JobAdvances ==
    ASSUME job \in [Procs -> Job], NEW w \in Procs, NEW h \in Hashes, NEW s \in Seq(Hashes)
    PROVE  /\ [job EXCEPT ![w].cursor[h] = @ + 1, ![w].todo = s] \in [Procs -> Job]
           /\ [job EXCEPT ![w].cursor[h] = @ + 1, ![w].bucket[h] = @ + 1, ![w].todo = s]
                 \in [Procs -> Job]
<1> DEFINE c == [job[w].cursor EXCEPT ![h] = @ + 1]
           b == [job[w].bucket EXCEPT ![h] = @ + 1]
<1>1. job[w] \in Job
  OBVIOUS
<1>2. c \in [Hashes -> Nat] /\ b \in [Hashes -> Nat]
  BY <1>1 DEF Job
<1>3. /\ [job EXCEPT ![w].cursor[h] = @ + 1, ![w].todo = s] =
             [job EXCEPT ![w] = [job[w] EXCEPT !.cursor = c, !.todo = s]]
      /\ [job EXCEPT ![w].cursor[h] = @ + 1, ![w].bucket[h] = @ + 1, ![w].todo = s] =
             [job EXCEPT ![w] = [job[w] EXCEPT !.cursor = c, !.bucket = b, !.todo = s]]
  OBVIOUS
<1> HIDE DEF c, b
<1>4. /\ [job[w] EXCEPT !.cursor = c, !.todo = s] \in Job
      /\ [job[w] EXCEPT !.cursor = c, !.bucket = b, !.todo = s] \in Job
  BY <1>1, <1>2 DEF Job
<1> QED
  BY <1>3, <1>4

\* Everything of Grounded but its last conjunct, action by action.
LEMMA GroundedSteps ==
    ASSUME Grounded, [Next]_vars
    PROVE  /\ TypeOK'
           /\ (done \subseteq Pairs \X Kinds \X Nat)'
           /\ (\A w \in Procs : pc[w] \in InSession => job[w].session \in SessionIds)'
           /\ (\A w \in Procs : pc[w] = "insert" => job[w].todo # <<>>)'
<1> DEFINE Goal == /\ TypeOK
                   /\ done \subseteq Pairs \X Kinds \X Nat
                   /\ \A w \in Procs : pc[w] \in InSession => job[w].session \in SessionIds
                   /\ \A w \in Procs : pc[w] = "insert" => job[w].todo # <<>>
<1> SUFFICES Goal'
  OBVIOUS
<1> USE DEF Labels, InSession, SessionIds
<1>a. NoJob \in Job
  BY PipelineAssumption DEF PipelineAssumption, NoJob, Job, Kinds, None
<1>b. /\ Sweeper \in Procs /\ Workers \subseteq Procs
      /\ \A w \in Procs : job[w] \in Job /\ pc[w] \in Labels
  BY DEF Procs, Grounded, TypeOK
<1>c. job \in [Procs -> Job]
  BY DEF Grounded, TypeOK
<1>1. ASSUME NEW w \in Workers, NEW p \in Pairs, NEW d \in Directions, Store(w, p, d)
      PROVE  Goal'
  <2>1. job' \in [Procs -> Job]
    BY <1>1, <1>b, <1>c, JobPair DEF Store
  <2>2. /\ pc' \in [Procs -> Labels] /\ pc'[w] \in {"idle", "lookup"}
        /\ \A v \in Procs \ {w} : job'[v] = job[v] /\ pc'[v] = pc[v]
    BY <1>1, <1>b, <1>c DEF Store, Go, Grounded, TypeOK
  <2>3. rows' \subseteq Pairs \X Directions /\ early' \subseteq Pairs
    BY <1>1 DEF Store, Grounded, TypeOK
  <2>4. UNCHANGED <<tier1, orphans, sweeps, done, recovered, raced, failed>>
    BY <1>1 DEF Store
  <2>5. TypeOK'
    BY <2>1, <2>2, <2>3, <2>4 DEF Grounded, TypeOK, tier1
  <2> QED
    BY <1>b, <2>2, <2>4, <2>5 DEF Grounded, tier1
<1>2. ASSUME NEW w \in Procs, Lookup(w)
      PROVE  Goal'
  <2>1. Extracted(job[w].pair, job[w].kind) \in Seq(Hashes)
    BY <1>b, ExtractedType DEF Job
  <2>2. job' \in [Procs -> Job]
    BY <1>2, <1>a, <1>c, <2>1, JobTodo DEF Lookup, Return
  <2>3. raced' \subseteq Keys
    <3>1. KeyOf[job[w].pair] \in Keys \cup {NoKey}
      BY <1>b, PipelineAssumption DEF PipelineAssumption, Job
    <3> QED
      BY <1>2, <3>1 DEF Lookup, Overlap, Return, Grounded, TypeOK
  <2>4. /\ pc' \in [Procs -> Labels] /\ pc'[w] \in {"find", "idle"}
        /\ \A v \in Procs \ {w} : job'[v] = job[v] /\ pc'[v] = pc[v]
    BY <1>2, <1>b, <1>c DEF Lookup, Return, Go, Grounded, TypeOK
  <2>5. UNCHANGED <<rows, tier1, orphans, sweeps, done, recovered, early, failed>>
    BY <1>2 DEF Lookup
  <2>6. TypeOK'
    BY <2>2, <2>3, <2>4, <2>5 DEF Grounded, TypeOK, tier1
  <2>7. UNCHANGED <<done, sessions>>
    BY <2>5 DEF tier1
  <2> QED
    BY <2>4, <2>6, <2>7 DEF Grounded
<1>3. ASSUME NEW w \in Procs, Find(w)
      PROVE  Goal'
  <2>a. /\ SessionIds \subseteq Nat
        /\ WithKey(KeyOf[job[w].pair]) \subseteq SessionIds
    BY DEF WithKey, Grounded, TypeOK
  <2>1. \A id \in SessionIds : [job EXCEPT ![w].session = id] \in [Procs -> Job]
    BY <1>c, <2>a, JobSession
  <2>2. job' \in [Procs -> Job]
    BY <1>3, <1>c, <2>1, <2>a DEF Find
  <2>3. \A v \in Procs : pc'[v] \in InSession => job'[v].session \in SessionIds
    <3>1. CASE pc'[w] = "create"
      BY <1>3, <1>b, <3>1 DEF Find, Go, Grounded, TypeOK
    <3>2. CASE \E id \in WithKey(KeyOf[job[w].pair]) : job' = [job EXCEPT ![w].session = id]
      <4>1. PICK id \in SessionIds : job' = [job EXCEPT ![w].session = id]
        BY <2>a, <3>2
      <4>2. job'[w].session = id /\ \A v \in Procs \ {w} : job'[v] = job[v] /\ pc'[v] = pc[v]
        BY <1>3, <1>b, <1>c, <4>1 DEF Find, Go, Grounded, TypeOK, Job
      <4>3. UNCHANGED sessions
        BY <1>3 DEF Find, tier1
      <4> QED
        BY <4>1, <4>2, <4>3 DEF Grounded
    <3> QED
      BY <1>3, <1>b, <3>1, <3>2 DEF Find, Go, Grounded, TypeOK
  <2> QED
    BY <1>3, <1>b, <2>2, <2>3 DEF Find, Go, Grounded, TypeOK, tier1, history
<1>4. ASSUME NEW w \in Procs, Blind(w)
      PROVE  Goal'
  <2>1. KeyOf[job[w].pair] \in Keys /\ job[w].pair \in Pairs
    BY <1>4, <1>b, PipelineAssumption DEF PipelineAssumption, Job, Blind
  <2> QED
    BY <1>4, <1>b, <2>1 DEF Blind, Go, Grounded, TypeOK, tier1
<1>5. ASSUME NEW w \in Procs, Create(w)
      PROVE  Goal'
  <2>1. KeyOf[job[w].pair] \in Keys \cup {NoKey}
    BY <1>b, PipelineAssumption DEF PipelineAssumption, Job
  <2>2. /\ sessions' \in Seq(Keys \cup {NoKey}) /\ SessionIds' = 1 .. Len(sessions) + 1
        /\ SessionIds = 1 .. Len(sessions) /\ Len(sessions) \in Nat
    BY <1>5, <2>1 DEF Create, Grounded, TypeOK
  <2>3. count' \in [SessionIds' -> Nat]
    <3>1. count \in [1 .. Len(sessions) -> Nat]
      BY <2>2 DEF Grounded, TypeOK
    <3>2. count \in Seq(Nat) /\ Len(count) = Len(sessions)
      BY <2>2, <3>1, IsASeq
    <3>3. count' = Append(count, 0)
      BY <1>5 DEF Create
    <3>4. count' \in Seq(Nat) /\ Len(count') = Len(sessions) + 1
      BY <3>2, <3>3, AppendProperties
    <3> QED
      BY <2>2, <3>4, LenProperties
  <2>4. job' \in [Procs -> Job] /\ job'[w].session \in SessionIds'
    <3>1. job' = [job EXCEPT ![w].session = Len(sessions) + 1]
      BY <1>5 DEF Create
    <3>2. Len(sessions) + 1 \in Nat /\ Len(sessions) + 1 \in SessionIds'
      BY <2>2
    <3>3. [job EXCEPT ![w].session = Len(sessions) + 1] \in [Procs -> Job]
      BY <1>c, <3>2, JobSession
    <3>4. job'[w].session = Len(sessions) + 1
      BY <1>c, <3>1 DEF Job
    <3> QED
      BY <3>1, <3>2, <3>3, <3>4
  <2> QED
    BY <1>5, <1>b, <2>2, <2>3, <2>4 DEF Create, Go, Grounded, TypeOK, history
<1>6. ASSUME NEW w \in Procs, CreateFails(w)
      PROVE  Goal'
  <2>1. job[w].pair \in Pairs
    BY <1>b DEF Job
  <2> QED
    BY <1>6, <1>a, <1>b, <2>1 DEF CreateFails, Return, Go, Grounded, TypeOK, tier1
<1>7. ASSUME NEW w \in Procs, Snapshot(w)
      PROVE  Goal'
  <2>1. Buckets(w) \in [Hashes -> Nat]
    <3>1. messages \in Seq(Row)
      BY DEF Grounded, TypeOK, Row
    <3> QED
      BY <3>1, CopiesNat DEF Buckets
  <2>2. job' \in [Procs -> Job]
    BY <1>7, <1>c, <2>1, JobBucket DEF Snapshot
  <2> QED
    BY <1>7, <1>b, <2>2 DEF Snapshot, Go, Grounded, TypeOK, tier1, history, Job
<1>8. ASSUME NEW w \in Procs, Enrich(w)
      PROVE  Goal'
  <2>1. Current(w) \in Hashes /\ Tail(job[w].todo) \in Seq(Hashes)
    BY <1>8, <1>b DEF Enrich, Current, Job
  <2>2. job' \in [Procs -> Job]
    BY <1>8, <1>c, <2>1, JobAdvances DEF Enrich
  <2>3. /\ pc' = pc /\ pc[w] = "loop" /\ job'[w].session = job[w].session
        /\ \A v \in Procs \ {w} : job'[v] = job[v]
    BY <1>8, <1>b, <1>c, <2>1 DEF Enrich, Job
  <2>4. UNCHANGED <<rows, tier1, orphans, sweeps, history>>
    BY <1>8 DEF Enrich
  <2> QED
    BY <1>b, <2>2, <2>3, <2>4 DEF Grounded, TypeOK, tier1, history
<1>9. ASSUME NEW w \in Procs, ReadTurn(w)
      PROVE  Goal'
  <2>1. NextTurn(job[w].session) \in Nat
    BY <1>b, NextTurnIsPast DEF Job
  <2>2. job' \in [Procs -> Job]
    BY <1>9, <1>c, <2>1, JobTurn DEF ReadTurn
  <2> QED
    BY <1>9, <1>b, <2>2 DEF ReadTurn, Go, Grounded, TypeOK, tier1, history, Job
<1>10. ASSUME NEW w \in Procs, Insert(w)
       PROVE  Goal'
  <2>1. Current(w) \in Hashes /\ Tail(job[w].todo) \in Seq(Hashes)
    BY <1>10, <1>b DEF Insert, Current, Job, Grounded
  <2>2. job' \in [Procs -> Job]
    BY <1>10, <1>c, <2>1, JobAdvances DEF Insert
  <2>3. /\ messages' \in Seq(Row)
        /\ \A i \in DOMAIN messages' : messages'[i].session \in SessionIds
    <3>1. messages \in Seq(Row) /\ \A i \in DOMAIN messages : messages[i].session \in SessionIds
      BY DEF Grounded, TypeOK
    <3>2. /\ RowOf(w) \in Row /\ messages' = Append(messages, RowOf(w))
          /\ RowOf(w).session \in SessionIds
      BY <1>10, InsertAdds
    <3> HIDE DEF SessionIds
    <3> QED
      BY <3>1, <3>2, AppendProperties
  <2>4. count' \in [SessionIds -> Nat]
    BY <1>10 DEF Insert, AddRow, Grounded, TypeOK
  <2>5. /\ pc' = [pc EXCEPT ![w] = "loop"] /\ job'[w].session = job[w].session
        /\ job[w].session \in SessionIds
        /\ \A v \in Procs \ {w} : job'[v] = job[v]
    BY <1>10, <1>b, <1>c, <2>1 DEF Insert, Go, Job, Grounded
  <2>6. UNCHANGED <<rows, sessions, orphans, sweeps, history>>
    BY <1>10 DEF Insert
  <2> QED
    BY <1>b, <2>2, <2>3, <2>4, <2>5, <2>6 DEF Grounded, TypeOK, history
<1>11. ASSUME NEW w \in Procs, InsertFails(w)
       PROVE  Goal'
  <2>1. Current(w) \in Hashes /\ Tail(job[w].todo) \in Seq(Hashes) /\ job[w].pair \in Pairs
    BY <1>11, <1>b DEF InsertFails, Current, Job, Grounded
  <2>2. job' \in [Procs -> Job]
    BY <1>11, <1>c, <2>1, JobAdvances DEF InsertFails
  <2> QED
    BY <1>11, <1>b, <2>1, <2>2 DEF InsertFails, Go, Grounded, TypeOK, tier1, Job
<1>12. ASSUME NEW w \in Procs, Finish(w)
       PROVE  Goal'
  <2>1. job[w].pair \in Pairs /\ job[w].kind \in Kinds /\ job[w].session \in Nat
    BY <1>b DEF Job
  <2> QED
    BY <1>12, <1>a, <1>b, <2>1 DEF Finish, Return, Go, Grounded, TypeOK, tier1
<1>13. ASSUME NEW p \in Pairs, SweepVisit(p)
       PROVE  Goal'
  <2>1. job' \in [Procs -> Job]
    BY <1>13, <1>b, <1>c, JobPairKind DEF SweepVisit, Kinds
  <2> QED
    BY <1>13, <1>b, <2>1 DEF SweepVisit, Go, Grounded, TypeOK, tier1, history
<1>14. ASSUME SweepBegin
       PROVE  Goal'
  BY <1>14, PipelineAssumption
  DEF SweepBegin, Grounded, TypeOK, tier1, history, PipelineAssumption
<1>15. CASE UNCHANGED vars
  BY <1>15 DEF vars, tier1, history, Grounded, TypeOK
<1> QED
  BY <1>1, <1>2, <1>3, <1>4, <1>5, <1>6, <1>7, <1>8, <1>9, <1>10, <1>11, <1>12, <1>13, <1>14,
     <1>15 DEF Next, Persist

---------------------------------------------------------------------------
(* The first theorem                                                       *)

LEMMA GroundedInvariant == Spec => []Grounded
<1>1. Init => Grounded
  <2> SUFFICES ASSUME Init
               PROVE  Grounded
    OBVIOUS
  <2>1. NoJob \in Job
    BY PipelineAssumption DEF PipelineAssumption, NoJob, Job, Kinds, None
  <2>2. sessions \in Seq(Keys \cup {NoKey}) /\ messages \in Seq(Row) /\ DOMAIN messages = {}
    BY DEF Init
  <2>3. count \in [SessionIds -> Nat]
    BY DEF Init, SessionIds
  <2>4. \A id : Rows(id) = {}
    BY <2>2 DEF Rows
  <2> QED
    BY <2>1, <2>2, <2>3, <2>4, PipelineAssumption
    DEF Init, Grounded, TypeOK, Labels, InSession, PipelineAssumption
<1>2. Grounded /\ [Next]_vars => Grounded'
  <2> SUFFICES ASSUME Grounded, [Next]_vars
               PROVE  (\A id \in Nat : Rows(id) # {} =>
                          \E t \in Turns(id) : \A u \in Turns(id) : u <= t)'
    BY GroundedSteps DEF Grounded
  <2>1. CASE UNCHANGED messages
    <3>1. \A id : Rows(id)' = Rows(id) /\ Turns(id)' = Turns(id)
      BY <2>1 DEF Rows, Turns
    <3> QED
      BY <3>1 DEF Grounded
  <2>2. ASSUME NEW w \in Procs, Insert(w), NEW id \in Nat
        PROVE  (Rows(id) # {} => \E t \in Turns(id) : \A u \in Turns(id) : u <= t)'
    <3> DEFINE T == job[w].turn
    <3>1. /\ messages \in Seq(Row) /\ RowOf(w) \in Row /\ messages' = Append(messages, RowOf(w))
          /\ RowOf(w).session = job[w].session /\ RowOf(w).turn = T /\ T \in Nat
      BY <2>2, InsertAdds DEF Grounded, TypeOK, Row
    <3>2. Turns(id)' = IF id = job[w].session THEN Turns(id) \cup {T} ELSE Turns(id)
      BY <3>1, TurnsGrow
    <3>3. Rows(id)' # {} => id = job[w].session \/ Rows(id) # {}
      BY <3>1, RowsGrow
    <3>4. Turns(id) \subseteq Nat
      BY NextTurnIsPast
    <3>5. CASE Rows(id) = {}
      <4>1. Turns(id) = {}
        BY <3>5, TurnsOfRows
      <4> QED
        BY <3>1, <3>2, <3>3, <3>5, <4>1
    <3>6. CASE Rows(id) # {}
      <4>1. PICK t \in Turns(id) : \A u \in Turns(id) : u <= t
        BY <3>6 DEF Grounded
      <4> QED
        BY <3>1, <3>2, <3>4, <4>1
    <3> QED
      BY <3>5, <3>6
  <2> QED
    BY <2>1, <2>2, MessagesOnlyInserted
<1> QED
  BY <1>1, <1>2, PTL DEF Spec

\* Rows, sessions and counters are what the tables hold, whichever calls of
\* the processes meet (db.py, message_processor.py).
THEOREM TypesHold == Spec => []TypeOK
<1>1. Grounded => TypeOK
  BY DEF Grounded
<1> QED
  BY <1>1, GroundedInvariant, PTL

---------------------------------------------------------------------------
(* Counters and turns                                                      *)

Numbered ==
    /\ CountsMatch
    /\ TurnsHaveNoGap
    /\ \A w \in Procs : pc[w] = "insert" =>
          \A u \in 0 .. job[w].turn - 1 : u \in Turns(job[w].session)

\* A process about to insert was so before, or has just read its turn.
LEMMA InsertWasRead ==
    ASSUME Grounded, [Next]_vars, NEW v \in Procs, pc'[v] = "insert"
    PROVE  \/ pc[v] = "insert" /\ job'[v] = job[v]
           \/ ReadTurn(v)
<1>1. /\ job \in [Procs -> Job] /\ pc \in [Procs -> Labels] /\ Workers \subseteq Procs
      /\ Sweeper \in Procs
  BY DEF Grounded, TypeOK, Procs
<1>2. ASSUME NEW w \in Procs, Persist(w) \/ Lookup(w)
      PROVE  (pc[v] = "insert" /\ job'[v] = job[v]) \/ ReadTurn(v)
  BY <1>1, <1>2 DEF Persist, Lookup, Find, Blind, Create, CreateFails, Snapshot, Enrich,
     ReadTurn, Insert, InsertFails, Finish, Return, Go
<1>3. ASSUME NEW w \in Workers, NEW p \in Pairs, NEW d \in Directions, Store(w, p, d)
      PROVE  pc[v] = "insert" /\ job'[v] = job[v]
  BY <1>1, <1>3 DEF Store, Go
<1>4. ASSUME NEW p \in Pairs, SweepVisit(p)
      PROVE  pc[v] = "insert" /\ job'[v] = job[v]
  BY <1>1, <1>4 DEF SweepVisit, Go
<1>5. CASE SweepBegin \/ UNCHANGED vars
  BY <1>5 DEF SweepBegin, vars
<1> QED
  BY <1>2, <1>3, <1>4, <1>5 DEF Next

\* Sessions and counters change when a session is created or a row inserted.
LEMMA TablesChange ==
    ASSUME [Next]_vars
    PROVE  UNCHANGED tier1 \/ \E w \in Procs : Create(w) \/ Insert(w)
BY DEF Next, vars, Store, Lookup, Persist, Find, Blind, CreateFails, Snapshot,
       Enrich, ReadTurn, InsertFails, Finish, SweepVisit, SweepBegin

LEMMA NumberedInvariant == Spec => []Numbered
<1>1. Init => Numbered
  BY DEF Init, Numbered, CountsMatch, TurnsHaveNoGap, SessionIds
<1>2. Grounded /\ Grounded' /\ Numbered /\ [Next]_vars => Numbered'
  <2> SUFFICES ASSUME Grounded, Grounded', Numbered, [Next]_vars
               PROVE  Numbered'
    OBVIOUS
  <2>a. messages \in Seq(Row) /\ SessionIds \subseteq Nat /\ job \in [Procs -> Job]
    BY DEF Grounded, TypeOK, SessionIds
  <2>1. ASSUME NEW id \in Nat
        PROVE  Turns(id) \subseteq Turns(id)'
    <3>1. CASE UNCHANGED messages
      BY <3>1 DEF Turns, Rows
    <3>2. ASSUME NEW w \in Procs, Insert(w)
          PROVE  Turns(id) \subseteq Turns(id)'
      BY <2>a, <3>2, InsertAdds, TurnsGrow
    <3> QED
      BY <3>1, <3>2, MessagesOnlyInserted
  <2>2. ASSUME NEW id \in Nat, NEW w \in Procs, pc'[w] = "insert", job'[w].session = id,
               NEW u \in 0 .. job'[w].turn - 1
        PROVE  u \in Turns(id)'
    <3>1. CASE pc[w] = "insert" /\ job'[w] = job[w]
      <4>1. u \in Turns(id)
        BY <2>2, <3>1 DEF Numbered
      <4> QED
        BY <2>1, <4>1
    <3>2. CASE ReadTurn(w)
      <4>1. /\ job'[w].turn = NextTurn(job[w].session) /\ job[w].session = id
            /\ pc[w] = "loop"
        BY <2>a, <2>2, <3>2 DEF ReadTurn, Job
      <4>2. id \in SessionIds
        BY <4>1 DEF Grounded, InSession
      <4>3. job'[w].turn = NextTurn(id)
        BY <4>1
      <4>4. Rows(id) # {}
        BY <2>2, <4>3, NextTurnIsPast
      <4>5. NextTurn(id) - 1 \in Turns(id) /\ NextTurn(id) \in Nat
        BY <4>4, NextTurnIsPast
      <4>6. u \in Turns(id)
        BY <2>2, <4>2, <4>3, <4>5 DEF Numbered, TurnsHaveNoGap
      <4> QED
        BY <2>1, <4>6
    <3> QED
      BY <2>2, <3>1, <3>2, InsertWasRead
  <2>b. (\A w \in Procs : pc[w] = "insert" =>
            \A u \in 0 .. job[w].turn - 1 : u \in Turns(job[w].session))'
    <3> SUFFICES ASSUME NEW w \in Procs, pc'[w] = "insert", NEW u \in 0 .. job'[w].turn - 1
                 PROVE  u \in {messages'[i].turn : i \in {k \in DOMAIN messages' :
                                  messages'[k].session = job'[w].session}}
      BY DEF Turns, Rows
    <3>1. job'[w].session \in Nat
      BY DEF Grounded, TypeOK, Job
    <3>2. PICK id \in Nat : id = job'[w].session
      BY <3>1
    <3>3. u \in Turns(id)'
      BY <2>2, <3>2
    <3> QED
      BY <3>2, <3>3 DEF Turns, Rows
  <2>3. CASE UNCHANGED tier1
    <3>1. UNCHANGED <<sessions, count, messages>>
      BY <2>3 DEF tier1
    <3>2. CountsMatch' /\ TurnsHaveNoGap'
      BY <3>1 DEF Numbered, CountsMatch, TurnsHaveNoGap, Turns, Rows, SessionIds
    <3> QED
      BY <2>b, <3>2 DEF Numbered
  <2>4. ASSUME NEW w \in Procs, Create(w)
        PROVE  Numbered'
    <3> DEFINE new == Len(sessions) + 1
    <3>1. /\ UNCHANGED messages /\ SessionIds' = SessionIds \cup {new} /\ new \notin SessionIds
          /\ SessionIds = 1 .. Len(sessions)
      BY <2>4 DEF Create, Grounded, TypeOK, SessionIds
    <3>2. \A id : Rows(id)' = Rows(id) /\ Turns(id)' = Turns(id)
      BY <3>1 DEF Rows, Turns
    <3>3. Rows(new) = {} /\ Turns(new) = {}
      <4>1. Rows(new) = {}
        BY <3>1 DEF Rows, Grounded, TypeOK
      <4> QED
        BY <4>1, TurnsOfRows
    <3>4. count'[new] = 0 /\ \A id \in SessionIds : count'[id] = count[id]
      <4>1. count \in [1 .. Len(sessions) -> Nat] /\ Len(sessions) \in Nat
        BY <3>1 DEF Grounded, TypeOK
      <4>2. count \in Seq(Nat) /\ Len(count) = Len(sessions)
        BY <4>1, IsASeq
      <4>3. count' = Append(count, 0)
        BY <2>4 DEF Create
      <4> QED
        BY <3>1, <4>2, <4>3, AppendProperties
    <3>5. CountsMatch'
      BY <3>1, <3>2, <3>3, <3>4, FS_EmptySet DEF Numbered, CountsMatch
    <3>6. TurnsHaveNoGap'
      BY <3>1, <3>2, <3>3 DEF Numbered, TurnsHaveNoGap
    <3> QED
      BY <2>b, <3>5, <3>6 DEF Numbered
  <2>5. ASSUME NEW w \in Procs, Insert(w)
        PROVE  Numbered'
    <3> DEFINE ses == job[w].session
               T == job[w].turn
    <3>1. /\ RowOf(w) \in Row /\ messages' = Append(messages, RowOf(w))
          /\ RowOf(w).session = ses /\ RowOf(w).turn = T
          /\ ses \in SessionIds /\ T \in Nat
      BY <2>5, InsertAdds DEF Row
    <3>2. count' = [count EXCEPT ![ses] = @ + 1] /\ SessionIds' = SessionIds /\ pc[w] = "insert"
      BY <2>5 DEF Insert, AddRow, SessionIds
    <3>3. CountsMatch'
      <4>1. \A id \in SessionIds : Cardinality(Rows(id))' =
                IF id = ses THEN Cardinality(Rows(id)) + 1 ELSE Cardinality(Rows(id))
        BY <2>a, <3>1, CountGrows
      <4>2. count \in [SessionIds -> Nat]
        BY DEF Grounded, TypeOK
      <4> QED
        BY <3>2, <4>1, <4>2 DEF Numbered, CountsMatch
    <3>4. TurnsHaveNoGap'
      <4> SUFFICES ASSUME NEW id \in SessionIds, NEW t \in Turns(id)', NEW u \in 0 .. t
                   PROVE  u \in Turns(id)'
        BY <3>2 DEF TurnsHaveNoGap
      <4>1. Turns(id)' = IF id = ses THEN Turns(id) \cup {T} ELSE Turns(id)
        BY <2>a, <3>1, TurnsGrow
      <4>2. CASE t \in Turns(id)
        BY <4>1, <4>2 DEF Numbered, TurnsHaveNoGap
      <4>3. CASE id = ses /\ t = T
        <5>1. u \in Turns(ses) \/ u = T
          BY <3>1, <3>2, <4>3 DEF Numbered
        <5> QED
          BY <4>1, <4>3, <5>1
      <4> QED
        BY <4>1, <4>2, <4>3
    <3> QED
      BY <2>b, <3>3, <3>4 DEF Numbered
  <2> QED
    BY <2>3, <2>4, <2>5, TablesChange
<1> QED
  BY <1>1, <1>2, GroundedInvariant, PTL DEF Spec

\* Whatever interleaving of inserts produced them, a session's message_count
\* is the number of its rows (insert_message).
THEOREM CountsHold == Spec => []CountsMatch
<1>1. Numbered => CountsMatch
  BY DEF Numbered
<1> QED
  BY <1>1, NumberedInvariant, PTL

\* The turns of a session have no gap, also where two processes read the same
\* maximum (_next_turn_index).
THEOREM NoTurnIsSkipped == Spec => []TurnsHaveNoGap
<1>1. Numbered => TurnsHaveNoGap
  BY DEF Numbered
<1> QED
  BY <1>1, NumberedInvariant, PTL

---------------------------------------------------------------------------
(* What a persist has accounted for                                        *)

\* Until its loop a job has counted nothing and holds every message; in the
\* loop the messages it has passed have a position in the bucket of their
\* hash, and the session has a row for every position.
Accounts(w) ==
    /\ pc[w] \in {"idle", "lookup", "find", "create", "snapshot"} =>
          job[w].cursor = None /\ job[w].bucket = None
    /\ pc[w] \in {"find", "create", "snapshot"} =>
          job[w].todo = Extracted(job[w].pair, job[w].kind)
    /\ pc[w] \in {"loop", "insert"} /\ job[w].pair \notin failed =>
          \A h \in Hashes :
             /\ job[w].cursor[h] + Occurrences(h, job[w].todo) =
                    Occurrences(h, Extracted(job[w].pair, job[w].kind))
             /\ job[w].cursor[h] <= job[w].bucket[h]
             /\ job[w].bucket[h] <= Copies(h, job[w].session)

Kept ==
    \A p \in Pairs \ failed, kind \in Kinds, id \in Nat :
        <<p, kind, id>> \in done =>
            \A h \in Hashes : Copies(h, id) >= Occurrences(h, Extracted(p, kind))

Accounted == (\A w \in Procs : Accounts(w)) /\ Kept

LEMMA OccurrencesNat ==
    ASSUME NEW s \in Seq(Hashes), NEW h
    PROVE  Occurrences(h, s) \in Nat /\ (s = <<>> => Occurrences(h, s) = 0)
<1>1. IsFiniteSet(1 .. Len(s)) /\ DOMAIN s = 1 .. Len(s)
  BY FS_Interval
<1>2. IsFiniteSet({i \in DOMAIN s : s[i] = h})
  BY <1>1, FS_Subset
<1>3. s = <<>> => {i \in DOMAIN s : s[i] = h} = {}
  BY <1>1
<1> QED
  BY <1>2, <1>3, FS_CardinalityType, FS_EmptySet DEF Occurrences

\* A step of the system is not w's, or it is one of the actions w takes.
LEMMA StepsOf ==
    ASSUME Grounded, [Next]_vars, NEW w \in Procs
    PROVE  \/ pc'[w] = pc[w] /\ job'[w] = job[w]
           \/ \E p \in Pairs, d \in Directions : Store(w, p, d)
           \/ \E p \in Pairs : SweepVisit(p) /\ w = Sweeper
           \/ Lookup(w) \/ Persist(w)
<1>1. job \in [Procs -> Job] /\ pc \in [Procs -> Labels]
  BY DEF Grounded, TypeOK
<1>2. ASSUME NEW v \in Procs \ {w}, Persist(v) \/ Lookup(v)
      PROVE  pc'[w] = pc[w] /\ job'[w] = job[w]
  BY <1>1, <1>2 DEF Persist, Lookup, Find, Blind, Create, CreateFails, Snapshot, Enrich,
     ReadTurn, Insert, InsertFails, Finish, Return, Go
<1>3. ASSUME NEW v \in Workers \ {w}, NEW p \in Pairs, NEW d \in Directions, Store(v, p, d)
      PROVE  pc'[w] = pc[w] /\ job'[w] = job[w]
  BY <1>1, <1>3 DEF Store, Go
<1>4. ASSUME NEW p \in Pairs, SweepVisit(p), w # Sweeper
      PROVE  pc'[w] = pc[w] /\ job'[w] = job[w]
  BY <1>1, <1>4 DEF SweepVisit, Go
<1>5. CASE SweepBegin \/ UNCHANGED vars
  BY <1>5 DEF SweepBegin, vars
<1> QED
  BY <1>2, <1>3, <1>4, <1>5 DEF Next

\* Copies are never lost, and a fault is never forgotten.
LEMMA CopiesStay ==
    ASSUME Grounded, [Next]_vars, NEW id \in Nat, NEW h
    PROVE  /\ Copies(h, id) \in Nat /\ Copies(h, id)' \in Nat
           /\ Copies(h, id) <= Copies(h, id)'
<1>1. messages \in Seq(Row)
  BY DEF Grounded, TypeOK
<1>n. Copies(h, id) \in Nat
  BY <1>1, CopiesNat
<1>2. CASE UNCHANGED messages
  <2>1. Copies(h, id)' = Copies(h, id)
    BY <1>2 DEF Copies, Rows
  <2> QED
    BY <1>n, <2>1
<1>3. ASSUME NEW w \in Procs, Insert(w)
      PROVE  /\ Copies(h, id) \in Nat /\ Copies(h, id)' \in Nat
             /\ Copies(h, id) <= Copies(h, id)'
  <2>1. RowOf(w) \in Row /\ messages' = Append(messages, RowOf(w))
    BY <1>3, InsertAdds
  <2>2. Copies(h, id)' \in {Copies(h, id), Copies(h, id) + 1}
    BY <1>1, <2>1, CopiesGrow
  <2> QED
    BY <1>n, <2>2
<1> QED
  BY <1>2, <1>3, MessagesOnlyInserted

LEMMA FailedStay == ASSUME [Next]_vars PROVE failed \subseteq failed'
BY DEF Next, vars, history, Store, Lookup, Persist, Find, Blind, Create, CreateFails, Snapshot,
       Enrich, ReadTurn, Insert, InsertFails, Finish, SweepVisit, SweepBegin

\* What a process has accounted for stays so, whoever takes the step.
LEMMA AccountsKept ==
    ASSUME Grounded, Grounded', Accounted, [Next]_vars, NEW w \in Procs
    PROVE  Accounts(w)'
<1> USE DEF Labels
<1>a. /\ job \in [Procs -> Job] /\ pc \in [Procs -> Labels] /\ job[w] \in Job
      /\ job'[w] \in Job /\ pc'[w] \in Labels
  BY DEF Grounded, TypeOK
<1>b. Accounts(w)
  BY DEF Accounted
<1>c. /\ pc[w] \in {"snapshot", "loop", "insert"} => job[w].session \in SessionIds
      /\ SessionIds \subseteq Nat
  BY DEF Grounded, TypeOK, InSession, SessionIds
<1>d. failed \subseteq failed'
  BY FailedStay
<1>e. \A p \in Pairs, kind \in Kinds, h \in Hashes :
          /\ Extracted(p, kind)' = Extracted(p, kind)
          /\ Occurrences(h, Extracted(p, kind)) \in Nat
  BY ExtractedType, OccurrencesNat DEF Extracted
<1>1. CASE pc'[w] = pc[w] /\ job'[w] = job[w]
  <2>1. ASSUME pc[w] \in {"loop", "insert"}, job[w].pair \notin failed', NEW h \in Hashes
        PROVE  job'[w].bucket[h] <= Copies(h, job[w].session)'
    <3>1. PICK id \in Nat : id = job[w].session
      BY <1>c, <2>1
    <3>2. job[w].bucket[h] <= Copies(h, id) /\ job[w].bucket[h] \in Nat
      BY <1>a, <1>b, <1>d, <2>1, <3>1 DEF Accounts, Job
    <3>3. /\ Copies(h, id) \in Nat /\ Copies(h, id)' \in Nat
          /\ Copies(h, id) <= Copies(h, id)'
      BY CopiesStay
    <3>4. Copies(h, job[w].session)' = Copies(h, id)'
      BY <1>1, <3>1 DEF Copies, Rows
    <3> QED
      BY <1>1, <3>2, <3>3, <3>4
  <2> QED
    BY <1>1, <1>a, <1>b, <1>d, <1>e, <2>1 DEF Accounts, Job
<1>2. ASSUME NEW p \in Pairs, NEW d \in Directions, Store(w, p, d)
      PROVE  Accounts(w)'
  BY <1>2, <1>a, <1>b DEF Store, Go, Accounts, Job
<1>3. ASSUME NEW p \in Pairs, SweepVisit(p), w = Sweeper
      PROVE  Accounts(w)'
  BY <1>3, <1>a, <1>b DEF SweepVisit, Go, Accounts, Job
<1>4. CASE Lookup(w)
  <2>1. NoJob.cursor = None /\ NoJob.bucket = None
    BY DEF NoJob
  <2>2. CASE pc'[w] = "idle" /\ job'[w] = NoJob
    BY <2>1, <2>2 DEF Accounts
  <2>3. CASE pc'[w] = "find" /\ job' = [job EXCEPT ![w].todo = Extracted(job[w].pair, job[w].kind)]
    BY <1>4, <1>a, <1>b, <1>e, <2>3 DEF Accounts, Lookup, Job
  <2> QED
    BY <1>4, <1>a, <2>2, <2>3 DEF Lookup, Return, Go
<1>5. CASE Find(w) \/ Blind(w)
  <2>1. /\ pc[w] \in {"find", "snapshot"} /\ pc'[w] \in {"create", "snapshot", "loop"}
        /\ job'[w].cursor = job[w].cursor /\ job'[w].bucket = job[w].bucket
        /\ job'[w].todo = job[w].todo /\ job'[w].pair = job[w].pair
        /\ job'[w].kind = job[w].kind
        /\ pc'[w] = "loop" => job[w].pair \in failed'
    BY <1>5, <1>a DEF Find, Blind, Go, Job
  <2>2. Extracted(job[w].pair, job[w].kind)' = Extracted(job[w].pair, job[w].kind)
    BY <2>1 DEF Extracted
  <2> QED
    BY <1>b, <2>1, <2>2 DEF Accounts
<1>6. CASE Create(w)
  <2>1. /\ pc'[w] = "loop" /\ job'[w].cursor = None /\ job'[w].bucket = None
        /\ job'[w].todo = Extracted(job'[w].pair, job'[w].kind) /\ job'[w].session \in Nat
    BY <1>6, <1>a, <1>b DEF Create, Go, Accounts, Job
  <2>2. ASSUME NEW h \in Hashes
        PROVE  0 <= Copies(h, job[w].session)'
    <3>1. PICK id \in Nat : id = job'[w].session
      BY <2>1
    <3>2. Copies(h, id)' \in Nat
      BY CopiesStay
    <3>3. Copies(h, job[w].session)' = Copies(h, id)'
      BY <3>1 DEF Copies, Rows
    <3> QED
      BY <3>2, <3>3
  <2> QED
    BY <1>a, <1>e, <2>1, <2>2 DEF Accounts, None, Job
<1>7. CASE CreateFails(w) \/ Finish(w)
  <2>1. pc'[w] = "idle" /\ job'[w] = NoJob
    BY <1>7, <1>a DEF CreateFails, Finish, Return, Go
  <2> QED
    BY <2>1 DEF Accounts, NoJob
<1>8. CASE Snapshot(w)
  <2>1. /\ pc[w] = "snapshot" /\ pc'[w] = "loop" /\ job'[w].cursor = None
        /\ job'[w].todo = Extracted(job'[w].pair, job'[w].kind)
        /\ job'[w].session = job[w].session /\ UNCHANGED messages
        /\ job'[w].bucket = Buckets(w)
    BY <1>8, <1>a, <1>b DEF Snapshot, Go, Accounts, Job, tier1
  <2>2. ASSUME NEW h \in Hashes
        PROVE  0 <= job'[w].bucket[h] /\ job'[w].bucket[h] <= Copies(h, job[w].session)'
    <3>1. Copies(h, job[w].session)' = Copies(h, job[w].session)
      BY <2>1 DEF Copies, Rows
    <3>2. Copies(h, job[w].session) \in Nat
      BY CopiesNat DEF Grounded, TypeOK
    <3> QED
      BY <2>1, <3>1, <3>2 DEF Buckets
  <2> QED
    BY <1>a, <1>e, <2>1, <2>2 DEF Accounts, None, Job
<1>9. CASE Enrich(w)
  <2> DEFINE c == Current(w)
  <2>1. /\ c \in Hashes /\ job[w].todo # <<>> /\ job[w].todo \in Seq(Hashes)
        /\ pc[w] = "loop" /\ pc'[w] = "loop" /\ c = Head(job[w].todo)
        /\ job[w].cursor \in [Hashes -> Nat] /\ job[w].bucket \in [Hashes -> Nat]
    BY <1>9, <1>a DEF Enrich, Current, Job
  <2>2. /\ job'[w].pair = job[w].pair /\ job'[w].kind = job[w].kind
        /\ job'[w].session = job[w].session /\ job'[w].bucket = job[w].bucket
        /\ job'[w].todo = Tail(job[w].todo)
        /\ job'[w].cursor = [job[w].cursor EXCEPT ![c] = @ + 1]
        /\ job[w].cursor[c] < job[w].bucket[c] /\ UNCHANGED <<messages, failed>>
    BY <1>9, <1>a DEF Enrich, Job, tier1, history, MatchesHere
  <2> HIDE DEF c
  <2>3. ASSUME NEW h \in Hashes
        PROVE  /\ Copies(h, job[w].session)' = Copies(h, job[w].session)
               /\ Occurrences(h, Tail(job[w].todo)) \in Nat
               /\ Occurrences(h, job[w].todo) =
                      Occurrences(h, Tail(job[w].todo)) + (IF c = h THEN 1 ELSE 0)
    BY <2>1, <2>2, OccurrencesOfTail DEF Copies, Rows
  <2>4. Extracted(job[w].pair, job[w].kind)' = Extracted(job[w].pair, job[w].kind)
    BY <2>2 DEF Extracted
  <2>5. ASSUME job[w].pair \notin failed, NEW h \in Hashes
        PROVE  /\ job'[w].cursor[h] + Occurrences(h, job'[w].todo) =
                      Occurrences(h, Extracted(job[w].pair, job[w].kind))
               /\ job'[w].cursor[h] <= job'[w].bucket[h]
               /\ job'[w].bucket[h] <= Copies(h, job[w].session)
    <3>1. /\ job[w].cursor[h] + Occurrences(h, job[w].todo) =
                 Occurrences(h, Extracted(job[w].pair, job[w].kind))
          /\ job[w].cursor[h] <= job[w].bucket[h] /\ job[w].bucket[h] <= Copies(h, job[w].session)
          /\ job[w].cursor[h] \in Nat /\ job[w].bucket[h] \in Nat
      BY <1>b, <2>1, <2>5 DEF Accounts
    <3>2. job'[w].cursor[h] = job[w].cursor[h] + (IF h = c THEN 1 ELSE 0)
      BY <2>1, <2>2, <3>1
    <3>3. h = c => job[w].cursor[h] < job[w].bucket[h]
      BY <2>2
    <3> QED
      BY <2>2, <2>3, <3>1, <3>2, <3>3
  <2>6. \A h \in Hashes :
            /\ Occurrences(h, job[w].todo)' = Occurrences(h, job'[w].todo)
            /\ Occurrences(h, Extracted(job[w].pair, job[w].kind))' =
                   Occurrences(h, Extracted(job[w].pair, job[w].kind))
    BY <2>4 DEF Occurrences
  <2> QED
    BY <2>1, <2>2, <2>3, <2>5, <2>6 DEF Accounts
<1>10. CASE ReadTurn(w)
  <2>1. /\ pc[w] = "loop" /\ pc'[w] = "insert" /\ job'[w].pair = job[w].pair
        /\ job'[w].kind = job[w].kind /\ job'[w].session = job[w].session
        /\ job'[w].bucket = job[w].bucket /\ job'[w].cursor = job[w].cursor
        /\ job'[w].todo = job[w].todo /\ UNCHANGED <<messages, failed>>
    BY <1>10, <1>a DEF ReadTurn, Go, Job, tier1, history
  <2>2. \A h : Copies(h, job[w].session)' = Copies(h, job[w].session)
    BY <2>1 DEF Copies, Rows
  <2> QED
    BY <1>b, <1>a, <1>e, <2>1, <2>2 DEF Accounts, Job
<1>11. CASE Insert(w)
  <2> DEFINE c == Current(w)
  <2>1. /\ c \in Hashes /\ job[w].todo # <<>> /\ job[w].todo \in Seq(Hashes)
        /\ pc[w] = "insert" /\ pc'[w] = "loop" /\ c = Head(job[w].todo)
        /\ job[w].cursor \in [Hashes -> Nat] /\ job[w].bucket \in [Hashes -> Nat]
        /\ job[w].session \in Nat
    <3>1. pc[w] = "insert" /\ pc'[w] = "loop"
      BY <1>11, <1>a DEF Insert, Go
    <3>2. job[w].todo # <<>>
      BY <3>1 DEF Grounded
    <3> QED
      BY <1>a, <3>1, <3>2 DEF Current, Job
  <2>2. /\ job'[w].pair = job[w].pair /\ job'[w].kind = job[w].kind
        /\ job'[w].session = job[w].session
        /\ job'[w].todo = Tail(job[w].todo)
        /\ job'[w].cursor = [job[w].cursor EXCEPT ![c] = @ + 1]
        /\ job'[w].bucket = [job[w].bucket EXCEPT ![c] = @ + 1]
        /\ UNCHANGED failed
    BY <1>11, <1>a DEF Insert, Job, history
  <2>3. PICK id \in Nat : id = job[w].session
    BY <2>1
  <2>4. /\ messages \in Seq(Row) /\ RowOf(w) \in Row /\ messages' = Append(messages, RowOf(w))
        /\ RowOf(w).session = id /\ RowOf(w).hash = c
    BY <1>11, <2>3, InsertAdds DEF Grounded, TypeOK
  <2> HIDE DEF c
  <2>5. ASSUME NEW h \in Hashes
        PROVE  /\ Copies(h, job[w].session)' = Copies(h, job[w].session) + (IF h = c THEN 1 ELSE 0)
               /\ Copies(h, job[w].session) \in Nat
    <3>1. Copies(h, job[w].session)' = Copies(h, id)'
      BY <2>2, <2>3 DEF Copies, Rows
    <3>2. Copies(h, id)' = IF id = RowOf(w).session /\ h = RowOf(w).hash
                           THEN Copies(h, id) + 1 ELSE Copies(h, id)
      BY <2>4, CopiesGrow
    <3>3. Copies(h, id) \in Nat
      BY <2>4, CopiesNat
    <3> QED
      BY <2>3, <2>4, <3>1, <3>2, <3>3
  <2>6. ASSUME NEW h \in Hashes
        PROVE  /\ Occurrences(h, Tail(job[w].todo)) \in Nat
               /\ Occurrences(h, job[w].todo) =
                      Occurrences(h, Tail(job[w].todo)) + (IF c = h THEN 1 ELSE 0)
    BY <2>1, OccurrencesOfTail
  <2>7. Extracted(job[w].pair, job[w].kind)' = Extracted(job[w].pair, job[w].kind)
    BY <2>2 DEF Extracted
  <2>8. ASSUME job[w].pair \notin failed, NEW h \in Hashes
        PROVE  /\ job'[w].cursor[h] + Occurrences(h, job'[w].todo) =
                      Occurrences(h, Extracted(job[w].pair, job[w].kind))
               /\ job'[w].cursor[h] <= job'[w].bucket[h]
               /\ job'[w].bucket[h] <= Copies(h, job[w].session)'
    <3>1. /\ job[w].cursor[h] + Occurrences(h, job[w].todo) =
                 Occurrences(h, Extracted(job[w].pair, job[w].kind))
          /\ job[w].cursor[h] <= job[w].bucket[h] /\ job[w].bucket[h] <= Copies(h, job[w].session)
          /\ job[w].cursor[h] \in Nat /\ job[w].bucket[h] \in Nat
      BY <1>b, <2>1, <2>8 DEF Accounts
    <3>2. /\ job'[w].cursor[h] = job[w].cursor[h] + (IF h = c THEN 1 ELSE 0)
          /\ job'[w].bucket[h] = job[w].bucket[h] + (IF h = c THEN 1 ELSE 0)
      BY <2>1, <2>2, <3>1
    <3> QED
      BY <2>2, <2>5, <2>6, <3>1, <3>2
  <2>9. \A h \in Hashes :
            /\ Occurrences(h, job[w].todo)' = Occurrences(h, job'[w].todo)
            /\ Occurrences(h, Extracted(job[w].pair, job[w].kind))' =
                   Occurrences(h, Extracted(job[w].pair, job[w].kind))
    BY <2>7 DEF Occurrences
  <2> QED
    BY <2>1, <2>2, <2>8, <2>9 DEF Accounts
<1>12. CASE InsertFails(w)
  <2>1. pc'[w] = "loop" /\ job'[w].pair \in failed'
    BY <1>12, <1>a DEF InsertFails, Go, Job
  <2> QED
    BY <2>1 DEF Accounts
<1> QED
  BY <1>1, <1>2, <1>3, <1>4, <1>5, <1>6, <1>7, <1>8, <1>9, <1>10, <1>11, <1>12, StepsOf
  DEF Persist

LEMMA AccountedInvariant == Spec => []Accounted
<1>1. Init => Accounted
  BY DEF Init, Accounted, Accounts, Kept, NoJob
<1>2. Grounded /\ Grounded' /\ Accounted /\ [Next]_vars => Accounted'
  <2> SUFFICES ASSUME Grounded, Grounded', Accounted, [Next]_vars
               PROVE  Kept'
    BY AccountsKept DEF Accounted
  <2> SUFFICES ASSUME NEW p \in Pairs, p \notin failed', NEW kind \in Kinds, NEW id \in Nat,
                      <<p, kind, id>> \in done', NEW h \in Hashes
               PROVE  Copies(h, id)' >= Occurrences(h, Extracted(p, kind))
    <3>1. \A q \in Pairs, k \in Kinds, g \in Hashes :
              Occurrences(g, Extracted(q, k))' = Occurrences(g, Extracted(q, k))
      BY DEF Occurrences, Extracted
    <3> QED
      BY <3>1 DEF Kept
  <2>1. /\ Copies(h, id) \in Nat /\ Copies(h, id)' \in Nat /\ Copies(h, id) <= Copies(h, id)'
        /\ Occurrences(h, Extracted(p, kind)) \in Nat
    BY CopiesStay, ExtractedType, OccurrencesNat
  <2>2. p \notin failed
    BY FailedStay
  <2>3. CASE <<p, kind, id>> \in done
    <3>1. Copies(h, id) >= Occurrences(h, Extracted(p, kind))
      BY <2>2, <2>3 DEF Accounted, Kept
    <3> QED
      BY <2>1, <3>1
  <2>4. ASSUME NEW w \in Procs, Finish(w), <<p, kind, id>> = <<job[w].pair, job[w].kind, job[w].session>>
        PROVE  Copies(h, id)' >= Occurrences(h, Extracted(p, kind))
    <3>1. /\ pc[w] = "loop" /\ job[w].todo = <<>> /\ job[w].pair = p /\ job[w].kind = kind
          /\ job[w].session = id /\ job[w] \in Job
      BY <2>4 DEF Finish, Grounded, TypeOK
    <3>2. Occurrences(h, job[w].todo) = 0
      BY <3>1, OccurrencesNat DEF Job
    <3>3. /\ job[w].cursor[h] + Occurrences(h, job[w].todo) = Occurrences(h, Extracted(p, kind))
          /\ job[w].cursor[h] <= job[w].bucket[h] /\ job[w].bucket[h] <= Copies(h, id)
      BY <2>2, <3>1 DEF Accounted, Accounts
    <3>4. job[w].cursor[h] \in Nat /\ job[w].bucket[h] \in Nat
      BY <3>1 DEF Job
    <3> QED
      BY <2>1, <3>2, <3>3, <3>4
  <2>5. <<p, kind, id>> \in done \/ \E w \in Procs :
            Finish(w) /\ <<p, kind, id>> = <<job[w].pair, job[w].kind, job[w].session>>
    BY DEF Next, vars, history, Store, Lookup, Persist, Find, Blind, Create, CreateFails, Snapshot,
           Enrich, ReadTurn, Insert, InsertFails, Finish, SweepVisit, SweepBegin
  <2> QED
    BY <2>3, <2>4, <2>5
<1> QED
  BY <1>1, <1>2, GroundedInvariant, PTL DEF Spec

\* No message of a pair is lost to deduplication, not even against a bucket
\* that went stale while other processes inserted: legitimate repeats survive
\* (persist_result).
THEOREM NothingIsDropped == Spec => []NothingDropped
<1>1. Grounded /\ Accounted => NothingDropped
  BY DEF Accounted, Kept, NothingDropped, Grounded, TypeOK, SessionIds
<1> QED
  BY <1>1, GroundedInvariant, AccountedInvariant, PTL

---------------------------------------------------------------------------
(* Which pairs are attended to                                             *)

Ready(p) == \/ HasRow(p, "conversation")
            \/ HasRow(p, "request") /\ HasRow(p, "response")

Worked(p) == \E w \in Workers : pc[w] # "idle" /\ job[w].pair = p
Normalized(p) == \E id \in SessionIds : <<p, "complete", id>> \in done

Attended ==
    /\ \A w \in Workers : job[w].kind = "complete"
    /\ \A p \in Pairs, d \in Directions : HasRow(p, d) => (d = "conversation" <=> p \in Single)
    /\ \A p \in Pairs \ (early \cup failed) :
          Ready(p) /\ Result[p] # <<>> => Worked(p) \/ Normalized(p)

\* Workers normalize complete pairs; only the sweeper does cancelled ones.
LEMMA WorkersComplete ==
    ASSUME Grounded, Attended, [Next]_vars, NEW w \in Workers
    PROVE  job'[w].kind = "complete"
<1>1. /\ job \in [Procs -> Job] /\ job[w] \in Job /\ job[w].kind = "complete" /\ w \in Procs
      /\ w # Sweeper /\ NoJob.kind = "complete"
  BY PipelineAssumption DEF Grounded, TypeOK, Procs, Attended, PipelineAssumption, NoJob
<1>2. ASSUME NEW p \in Pairs, NEW d \in Directions, Store(w, p, d)
      PROVE  job'[w].kind = "complete"
  BY <1>1, <1>2 DEF Store, Job
<1>3. CASE Lookup(w) \/ CreateFails(w) \/ Finish(w)
  BY <1>1, <1>3 DEF Lookup, CreateFails, Finish, Return, Job
<1>4. CASE Find(w) \/ Blind(w) \/ Create(w) \/ Snapshot(w) \/ Enrich(w) \/ ReadTurn(w) \/ Insert(w)
           \/ InsertFails(w)
  BY <1>1, <1>4 DEF Find, Blind, Create, Snapshot, Enrich, ReadTurn, Insert, InsertFails, Job
<1> QED
  BY <1>1, <1>2, <1>3, <1>4, StepsOf DEF Persist

\* A worker stays with its pair until it has normalized it or failed to.
LEMMA WorkersStay ==
    ASSUME Grounded, Attended, [Next]_vars, NEW w \in Workers, NEW p \in Pairs,
           pc[w] # "idle", job[w].pair = p, Ready(p), Result[p] # <<>>, p \notin failed'
    PROVE  (pc'[w] # "idle" /\ job'[w].pair = p) \/ Normalized(p)'
<1>1. /\ job \in [Procs -> Job] /\ pc \in [Procs -> Labels] /\ job[w] \in Job
      /\ job[w].kind = "complete" /\ w \in Procs /\ w # Sweeper
  BY PipelineAssumption DEF Grounded, TypeOK, Procs, Attended, PipelineAssumption
<1>2. CASE Lookup(w)
  <2>1. Proceeds(p, "complete")
    <3>1. p \in Single => HasRow(p, "conversation")
      BY DEF Ready, Attended, Directions
    <3>2. p \notin Single => HasRow(p, "request") /\ HasRow(p, "response")
      BY DEF Ready, Attended, Directions
    <3> QED
      BY <3>1, <3>2 DEF Proceeds
  <2>2. Extracted(p, "complete") # <<>>
    BY DEF Extracted
  <2> QED
    BY <1>1, <1>2, <2>1, <2>2 DEF Lookup, Go, Job
<1>3. CASE Finish(w)
  <2>1. <<p, "complete", job[w].session>> \in done' /\ pc[w] = "loop" /\ UNCHANGED sessions
    BY <1>1, <1>3 DEF Finish, tier1
  <2>2. job[w].session \in SessionIds
    BY <1>1, <2>1 DEF Grounded, InSession
  <2> QED
    BY <2>1, <2>2 DEF Normalized, SessionIds
<1>4. CASE CreateFails(w)
  BY <1>1, <1>4 DEF CreateFails
<1>5. CASE Find(w) \/ Blind(w) \/ Create(w) \/ Snapshot(w) \/ Enrich(w) \/ ReadTurn(w) \/ Insert(w)
           \/ InsertFails(w)
  BY <1>1, <1>5 DEF Find, Blind, Create, Snapshot, Enrich, ReadTurn, Insert, InsertFails, Go, Job
<1>6. ASSUME NEW q \in Pairs, NEW d \in Directions, Store(w, q, d)
      PROVE  FALSE
  BY <1>6 DEF Store
<1> QED
  BY <1>1, <1>2, <1>3, <1>4, <1>5, <1>6, StepsOf DEF Persist

\* What was normalized stays so.
LEMMA NormalizedStays ==
    ASSUME Grounded, [Next]_vars, NEW p, Normalized(p)
    PROVE  Normalized(p)'
<1>1. done \subseteq done'
  BY DEF Next, vars, history, Store, Lookup, Persist, Find, Blind, Create, CreateFails, Snapshot,
         Enrich, ReadTurn, Insert, InsertFails, Finish, SweepVisit, SweepBegin
<1>2. SessionIds \subseteq SessionIds'
  <2>1. CASE UNCHANGED sessions
    BY <2>1 DEF SessionIds
  <2>2. ASSUME NEW w \in Procs, Create(w)
        PROVE  SessionIds \subseteq SessionIds'
    BY <2>2 DEF Create, SessionIds, Grounded, TypeOK
  <2>3. UNCHANGED tier1 \/ \E w \in Procs : Create(w) \/ Insert(w)
    BY TablesChange
  <2> QED
    BY <2>1, <2>2, <2>3 DEF tier1, Insert
<1> QED
  BY <1>1, <1>2 DEF Normalized

LEMMA AttendedInvariant == Spec => []Attended
<1>1. Init => Attended
  BY PipelineAssumption DEF Init, Attended, NoJob, Procs, Ready, HasRow
<1>2. Grounded /\ Grounded' /\ Attended /\ [Next]_vars => Attended'
  <2> SUFFICES ASSUME Grounded, Grounded', Attended, [Next]_vars
               PROVE  Attended'
    OBVIOUS
  <2>1. (\A w \in Workers : job[w].kind = "complete")'
    BY WorkersComplete
  <2>2. rows' = rows \/ \E w \in Workers, p \in Pairs, d \in Directions : Store(w, p, d)
    BY DEF Next, vars, Lookup, Persist, Find, Blind, Create, CreateFails, Snapshot,
           Enrich, ReadTurn, Insert, InsertFails, Finish, SweepVisit, SweepBegin
  <2>3. (\A p \in Pairs, d \in Directions : HasRow(p, d) => (d = "conversation" <=> p \in Single))'
    <3>1. CASE rows' = rows
      BY <3>1 DEF Attended, HasRow
    <3>2. ASSUME NEW w \in Workers, NEW p \in Pairs, NEW d \in Directions, Store(w, p, d)
          PROVE  (\A q \in Pairs, e \in Directions :
                     HasRow(q, e) => (e = "conversation" <=> q \in Single))'
      BY <3>2 DEF Attended, HasRow, Store
    <3> QED
      BY <2>2, <3>1, <3>2
  <2>4. failed \subseteq failed' /\ early \subseteq early'
    BY FailedStay DEF Next, vars, history, Store, Lookup, Persist, Find, Blind, Create,
       CreateFails, Snapshot, Enrich, ReadTurn, Insert, InsertFails, Finish, SweepVisit, SweepBegin
  <2>5. ASSUME NEW p \in Pairs, p \notin early', p \notin failed', Ready(p)', Result[p] # <<>>
        PROVE  Worked(p)' \/ Normalized(p)'
    <3>1. CASE Ready(p)
      <4>1. Worked(p) \/ Normalized(p)
        BY <2>4, <2>5, <3>1 DEF Attended
      <4>2. CASE Worked(p)
        BY <2>5, <3>1, <4>2, WorkersStay DEF Worked
      <4> QED
        BY <4>1, <4>2, NormalizedStays
    <3>2. CASE ~Ready(p)
      <4>1. rows' # rows
        BY <2>5, <3>2 DEF Ready, HasRow
      <4>2. PICK w \in Workers, q \in Pairs, d \in Directions : Store(w, q, d)
        BY <2>2, <4>1
      <4>3. q = p
        BY <2>5, <3>2, <4>2 DEF Ready, HasRow, Store
      <4>4. CASE d = "request"
        <5>1. HasRow(p, "response")
          BY <2>3, <2>5, <4>2, <4>3, <4>4 DEF Ready, HasRow, Store, Directions
        <5> QED
          BY <2>5, <4>2, <4>3, <4>4, <5>1 DEF Store
      <4>5. CASE d # "request"
        <5>1. job \in [Procs -> Job] /\ pc \in [Procs -> Labels] /\ w \in Procs
          BY DEF Grounded, TypeOK, Procs
        <5>2. pc'[w] = "lookup" /\ job'[w].pair = p
          BY <4>2, <4>3, <4>5, <5>1 DEF Store, Go, Job
        <5> QED
          BY <5>2 DEF Worked
      <4> QED
        BY <4>4, <4>5
    <3> QED
      BY <3>1, <3>2
  <2> QED
    BY <2>1, <2>3, <2>5 DEF Attended
<1> QED
  BY <1>1, <1>2, GroundedInvariant, PTL DEF Spec

\* A pair whose request came first and that no fault touched has been
\* normalized in full once no worker is busy with it (try_normalize_pair).
THEOREM PairsAreNormalized == Spec => []CompletePairsNormalized
<1>1. Attended => CompletePairsNormalized
  BY DEF Attended, CompletePairsNormalized, Ready, Worked, Normalized
<1> QED
  BY <1>1, AttendedInvariant, PTL

---------------------------------------------------------------------------
(* The keys no two persists worked on at once                              *)

KeyAt(w) == KeyOf[job[w].pair]

\* A persist counts each message of its pair once, fault or no fault, and
\* works on a session of its pair's key.
Paced(w) ==
    /\ pc[w] \in {"loop", "insert"} =>
          \A h \in Hashes : job[w].cursor[h] + Occurrences(h, job[w].todo) =
                                Occurrences(h, Extracted(job[w].pair, job[w].kind))
    /\ pc[w] \in InSession => sessions[job[w].session] = KeyAt(w)

\* A persist that no other disturbs knows the rows of its session: its buckets
\* hold them all, what it inserts is not among them, and neither is its turn.
Abreast(w) ==
    /\ pc[w] \in {"loop", "insert"} =>
          \A h \in Hashes : job[w].bucket[h] = Copies(h, job[w].session)
    /\ pc[w] = "insert" =>
          ~MatchesHere(w) /\ \A t \in Turns(job[w].session) : t < job[w].turn

Alone(k) ==
    \A v, w \in Procs : InPersist(v) /\ InPersist(w) /\ KeyAt(v) = k /\ KeyAt(w) = k => v = w

OneSession(k) ==
    /\ \A id, jd \in WithKey(k) : id = jd
    /\ \A w \in Procs : pc[w] = "create" /\ KeyAt(w) = k => WithKey(k) = {}

OwnTurns(k) ==
    \A id \in WithKey(k) : \A i, j \in Rows(id) : messages[i].turn = messages[j].turn => i = j

AtMostCaptured(k) ==
    \A id \in WithKey(k), h \in Hashes : \E p \in Pairs :
        KeyOf[p] = k /\ Copies(h, id) <= Occurrences(h, Result[p])

Calm(k) ==
    /\ Alone(k)
    /\ OneSession(k)
    /\ \A w \in Procs : InPersist(w) /\ KeyAt(w) = k => Abreast(w)
    /\ OwnTurns(k)
    /\ AtMostCaptured(k)

Undisturbed ==
    /\ \A w \in Procs : Paced(w)
    /\ \A k \in Keys \ raced : Calm(k)

\* The request-only path keeps no message more often than the pair has it.
LEMMA ExtractedIsPart ==
    ASSUME NEW p \in Pairs, NEW kind, NEW h
    PROVE  Occurrences(h, Extracted(p, kind)) <= Occurrences(h, Result[p])
<1>1. Result[p] \in Seq(Hashes) /\ Prompts[p] \in Seq(Hashes)
  BY PipelineAssumption DEF PipelineAssumption
<1>2. Occurrences(h, Result[p]) \in Nat
  BY <1>1, OccurrencesNat
<1>3. Occurrences(h, Prompts[p]) <= Occurrences(h, Result[p])
  <2> DEFINE A == {i \in DOMAIN Prompts[p] : Prompts[p][i] = h}
             B == {n \in DOMAIN Result[p] : Result[p][n] = h}
  <2>1. PICK at \in [DOMAIN Prompts[p] -> DOMAIN Result[p]] :
            /\ \A i, j \in DOMAIN Prompts[p] : i < j => at[i] < at[j]
            /\ \A i \in DOMAIN Prompts[p] : Prompts[p][i] = Result[p][at[i]]
    BY PipelineAssumption DEF PipelineAssumption
  <2> DEFINE g == [i \in A |-> at[i]]
  <2>2. DOMAIN Prompts[p] \subseteq Int /\ DOMAIN Result[p] \subseteq Int
    BY <1>1
  <2>3. g \in [A -> B]
    BY <2>1
  <2>4. \A i, j \in A : g[i] = g[j] => i = j
    <3> SUFFICES ASSUME NEW i \in A, NEW j \in A, i # j
                 PROVE  at[i] # at[j]
      OBVIOUS
    <3>1. i \in Int /\ j \in Int /\ at[i] \in Int /\ at[j] \in Int
      BY <2>1, <2>2
    <3>2. i < j \/ j < i
      BY <3>1
    <3>3. at[i] < at[j] \/ at[j] < at[i]
      BY <2>1, <3>2
    <3> QED
      BY <3>1, <3>3
  <2>5. g \in Injection(A, B)
    BY <2>3, <2>4 DEF Injection, IsInjective
  <2>6. IsFiniteSet(B)
    <3>1. IsFiniteSet(1 .. Len(Result[p])) /\ DOMAIN Result[p] = 1 .. Len(Result[p])
      BY <1>1, FS_Interval
    <3> QED
      BY <3>1, FS_Subset
  <2> HIDE DEF A, B, g
  <2>7. Cardinality(A) <= Cardinality(B)
    BY <2>5, <2>6, FS_Injection
  <2> QED
    BY <2>7 DEF Occurrences, A, B
<1> QED
  BY <1>2, <1>3 DEF Extracted

\* A session keeps its key.
LEMMA SessionsStay ==
    ASSUME Grounded, [Next]_vars, NEW id \in SessionIds
    PROVE  id \in SessionIds' /\ sessions'[id] = sessions[id]
<1>1. sessions \in Seq(Keys \cup {NoKey})
  BY DEF Grounded, TypeOK
<1>2. CASE UNCHANGED sessions
  BY <1>2 DEF SessionIds
<1>3. ASSUME NEW w \in Procs, Create(w)
      PROVE  id \in SessionIds' /\ sessions'[id] = sessions[id]
  <2>1. KeyOf[job[w].pair] \in Keys \cup {NoKey}
    BY PipelineAssumption DEF PipelineAssumption, Grounded, TypeOK, Job
  <2> QED
    BY <1>1, <1>3, <2>1, AppendProperties DEF Create, SessionIds
<1> QED
  BY <1>2, <1>3, TablesChange DEF tier1, Insert

\* A key gets a session when a process creates one for it: an empty one.
LEMMA SessionsOfKey ==
    ASSUME Grounded, [Next]_vars, NEW k
    PROVE  \/ WithKey(k)' = WithKey(k)
           \/ \E w \in Procs : /\ Create(w) /\ KeyAt(w) = k
                               /\ WithKey(k)' = WithKey(k) \cup {Len(sessions) + 1}
<1>1. sessions \in Seq(Keys \cup {NoKey})
  BY DEF Grounded, TypeOK
<1>2. CASE UNCHANGED sessions
  BY <1>2 DEF WithKey, SessionIds
<1>3. ASSUME NEW w \in Procs, Create(w)
      PROVE  WithKey(k)' = IF KeyAt(w) = k THEN WithKey(k) \cup {Len(sessions) + 1} ELSE WithKey(k)
  <2>1. KeyAt(w) \in Keys \cup {NoKey}
    BY PipelineAssumption DEF PipelineAssumption, Grounded, TypeOK, Job, KeyAt
  <2>2. sessions' = Append(sessions, KeyAt(w))
    BY <1>3 DEF Create, KeyAt
  <2>3. /\ DOMAIN sessions = 1 .. Len(sessions) /\ Len(sessions) \in Nat
        /\ DOMAIN sessions' = 1 .. (Len(sessions) + 1)
        /\ \A i \in 1 .. Len(sessions) : sessions'[i] = sessions[i]
        /\ sessions'[Len(sessions) + 1] = KeyAt(w)
    BY <1>1, <2>1, <2>2
  <2>4. WithKey(k)' = {id \in 1 .. (Len(sessions) + 1) : sessions'[id] = k}
    BY <2>3 DEF WithKey, SessionIds
  <2> QED
    BY <2>3, <2>4 DEF WithKey, SessionIds
<1> QED
  BY <1>2, <1>3, TablesChange DEF tier1, Insert

\* A session that does not exist has no rows.
LEMMA FreshIsEmpty ==
    ASSUME Grounded
    PROVE  Rows(Len(sessions) + 1) = {} /\ Len(sessions) + 1 \in Nat
<1>1. sessions \in Seq(Keys \cup {NoKey})
  BY DEF Grounded, TypeOK
<1>2. Len(sessions) + 1 \notin SessionIds /\ Len(sessions) + 1 \in Nat
  BY <1>1 DEF SessionIds
<1> QED
  BY <1>2 DEF Rows, Grounded, TypeOK

\* The rows of a session of k are changed by the inserts of k's pairs only.
LEMMA RowsOfKey ==
    ASSUME Grounded, [Next]_vars, \A w \in Procs : Paced(w), NEW k, NEW id \in WithKey(k)
    PROVE  \/ /\ Rows(id)' = Rows(id) /\ Turns(id)' = Turns(id)
              /\ \A i \in Rows(id) : messages'[i] = messages[i]
              /\ \A h : Copies(h, id)' = Copies(h, id)
           \/ \E w \in Procs : Insert(w) /\ KeyAt(w) = k /\ job[w].session = id
<1>1. CASE UNCHANGED messages
  BY <1>1 DEF Rows, Turns, Copies
<1>2. ASSUME NEW w \in Procs, Insert(w), job[w].session # id
      PROVE  /\ Rows(id)' = Rows(id) /\ Turns(id)' = Turns(id)
             /\ \A i \in Rows(id) : messages'[i] = messages[i]
             /\ \A h : Copies(h, id)' = Copies(h, id)
  <2>1. /\ messages \in Seq(Row) /\ RowOf(w) \in Row /\ messages' = Append(messages, RowOf(w))
        /\ RowOf(w).session = job[w].session
    BY <1>2, InsertAdds DEF Grounded, TypeOK
  <2>2. /\ Rows(id)' = Rows(id)
        /\ \A i \in Rows(id) : messages'[i] = messages[i]
    BY <1>2, <2>1, RowsGrow
  <2>3. Turns(id)' = Turns(id)
    BY <1>2, <2>1, TurnsGrow
  <2>4. ASSUME NEW h PROVE Copies(h, id)' = Copies(h, id)
    BY <1>2, <2>1, CopiesGrow
  <2> QED
    BY <2>2, <2>3, <2>4
<1>3. ASSUME NEW w \in Procs, Insert(w), job[w].session = id
      PROVE  KeyAt(w) = k
  BY <1>3 DEF Insert, Paced, InSession, WithKey
<1> QED
  BY <1>1, <1>2, <1>3, MessagesOnlyInserted

\* A process persisting to k did so before, or its lookup has just begun to.
LEMMA PersistBegins ==
    ASSUME Grounded, [Next]_vars, NEW w \in Procs, InPersist(w)'
    PROVE  \/ InPersist(w) /\ KeyAt(w)' = KeyAt(w)
           \/ /\ Lookup(w) /\ pc'[w] = "find" /\ KeyAt(w)' = KeyAt(w)
              /\ raced' = raced \cup Overlap(w, job[w].pair)
<1>1. /\ job \in [Procs -> Job] /\ pc \in [Procs -> Labels] /\ job[w] \in Job
  BY DEF Grounded, TypeOK
<1>2. CASE pc'[w] = pc[w] /\ job'[w] = job[w]
  BY <1>2 DEF InPersist, KeyAt
<1>3. ASSUME NEW p \in Pairs, NEW d \in Directions, Store(w, p, d)
      PROVE  FALSE
  BY <1>1, <1>3 DEF Store, Go, InPersist
<1>4. ASSUME NEW p \in Pairs, SweepVisit(p), w = Sweeper
      PROVE  FALSE
  BY <1>1, <1>4 DEF SweepVisit, Go, InPersist
<1>5. CASE Lookup(w)
  BY <1>1, <1>5 DEF Lookup, Return, Go, InPersist, KeyAt, Job
<1>6. CASE CreateFails(w) \/ Finish(w)
  BY <1>1, <1>6 DEF CreateFails, Finish, Return, Go, InPersist
<1>7. CASE Find(w) \/ Blind(w) \/ Create(w) \/ Snapshot(w) \/ Enrich(w) \/ ReadTurn(w) \/ Insert(w)
           \/ InsertFails(w)
  <2>1. InPersist(w)
    BY <1>7 DEF Find, Blind, Create, Snapshot, Enrich, ReadTurn, Insert, InsertFails, InPersist
  <2>2. job'[w].pair = job[w].pair
    BY <1>1, <1>7 DEF Find, Blind, Create, Snapshot, Enrich, ReadTurn, Insert, InsertFails, Job
  <2> QED
    BY <2>1, <2>2 DEF KeyAt
<1> QED
  BY <1>2, <1>3, <1>4, <1>5, <1>6, <1>7, StepsOf DEF Persist

\* A key that was raced on stays so.
LEMMA RacedStay == ASSUME [Next]_vars PROVE raced \subseteq raced'
BY DEF Next, vars, history, Store, Lookup, Persist, Find, Blind, Create, CreateFails, Snapshot,
       Enrich, ReadTurn, Insert, InsertFails, Finish, SweepVisit, SweepBegin

LEMMA PacedKept ==
    ASSUME Grounded, Grounded', Accounted, [Next]_vars, NEW w \in Procs, Paced(w)
    PROVE  Paced(w)'
<1> USE DEF Labels
<1>a. /\ job \in [Procs -> Job] /\ pc \in [Procs -> Labels] /\ job[w] \in Job
      /\ job'[w] \in Job /\ pc'[w] \in Labels
  BY DEF Grounded, TypeOK
<1>b. /\ Accounts(w)
      /\ pc[w] \in {"snapshot", "loop", "insert"} => job[w].session \in SessionIds
  BY DEF Accounted, Grounded, InSession
<1>c. \A id \in SessionIds : sessions'[id] = sessions[id]
  BY SessionsStay
<1>d. \A p \in Pairs, kind \in Kinds, h \in Hashes :
          /\ Extracted(p, kind)' = Extracted(p, kind)
          /\ Occurrences(h, Extracted(p, kind)) \in Nat
  BY ExtractedType, OccurrencesNat DEF Extracted
<1> USE DEF InSession
<1>1. CASE pc'[w] = pc[w] /\ job'[w] = job[w]
  <2>1. pc'[w] \in InSession => sessions'[job'[w].session] = KeyAt(w)'
    BY <1>1, <1>b, <1>c DEF Paced, KeyAt
  <2>2. pc'[w] \in {"loop", "insert"} =>
          \A h \in Hashes : (job[w].cursor[h] + Occurrences(h, job[w].todo) =
                                Occurrences(h, Extracted(job[w].pair, job[w].kind)))'
    BY <1>1 DEF Paced, Occurrences, Extracted
  <2> QED
    BY <2>1, <2>2 DEF Paced
<1>2. ASSUME pc'[w] \notin {"snapshot", "loop", "insert"}
      PROVE  Paced(w)'
  BY <1>2 DEF Paced
<1>3. CASE Find(w)
  <2>1. CASE pc'[w] = "create"
    BY <1>2, <2>1
  <2>2. CASE pc'[w] # "create"
    <3>1. PICK id \in WithKey(KeyAt(w)) : job' = [job EXCEPT ![w].session = id]
      BY <1>3, <1>a, <2>2 DEF Find, Go, KeyAt
    <3>2. job'[w].session = id /\ job'[w].pair = job[w].pair /\ pc'[w] = "snapshot"
      BY <1>3, <1>a, <2>2, <3>1 DEF Find, Go, Job
    <3>3. sessions'[id] = KeyAt(w)
      BY <1>3, <3>1 DEF Find, WithKey, tier1
    <3> QED
      BY <3>2, <3>3 DEF Paced, KeyAt
  <2> QED
    BY <2>1, <2>2
<1>4. CASE Blind(w)
  <2>1. CASE pc[w] = "find"
    BY <1>4, <1>a, <1>2, <2>1 DEF Blind, Go
  <2>2. CASE pc[w] = "snapshot"
    <3>1. /\ pc'[w] = "loop" /\ job' = job /\ sessions' = sessions
          /\ job[w].cursor = None /\ job[w].todo = Extracted(job[w].pair, job[w].kind)
      BY <1>4, <1>a, <1>b, <2>2 DEF Blind, Go, tier1, Accounts
    <3>2. \A h \in Hashes : job'[w].cursor[h] + Occurrences(h, job'[w].todo) =
                                Occurrences(h, Extracted(job'[w].pair, job'[w].kind))
      BY <1>a, <1>d, <3>1 DEF None, Job
    <3>3. sessions'[job'[w].session] = KeyAt(w)'
      BY <2>2, <3>1 DEF Paced, KeyAt
    <3> QED
      BY <3>2, <3>3 DEF Paced, Occurrences, Extracted
  <2> QED
    BY <1>4, <2>1, <2>2 DEF Blind
<1>5. CASE Create(w)
  <2>1. /\ pc'[w] = "loop" /\ job'[w].cursor = None /\ job'[w].pair = job[w].pair
        /\ job'[w].kind = job[w].kind /\ job'[w].session = Len(sessions) + 1
        /\ job'[w].todo = Extracted(job'[w].pair, job'[w].kind)
        /\ sessions' = Append(sessions, KeyAt(w))
    BY <1>5, <1>a, <1>b DEF Create, Go, Accounts, Job, KeyAt
  <2>2. \A h \in Hashes : job'[w].cursor[h] + Occurrences(h, job'[w].todo) =
                              Occurrences(h, Extracted(job'[w].pair, job'[w].kind))
    BY <1>a, <1>d, <2>1 DEF None, Job
  <2>3. sessions'[job'[w].session] = KeyAt(w)'
    <3>1. sessions \in Seq(Keys \cup {NoKey}) /\ KeyAt(w) \in Keys \cup {NoKey}
      BY <1>a, PipelineAssumption DEF PipelineAssumption, Grounded, TypeOK, Job, KeyAt
    <3>2. sessions'[Len(sessions) + 1] = KeyAt(w)
      BY <2>1, <3>1, AppendProperties
    <3> QED
      BY <2>1, <3>2 DEF KeyAt
  <2> QED
    BY <2>2, <2>3 DEF Paced, Occurrences, Extracted
<1>6. CASE Snapshot(w)
  <2>1. /\ pc[w] = "snapshot" /\ pc'[w] = "loop" /\ job'[w].cursor = None
        /\ job'[w].pair = job[w].pair /\ job'[w].kind = job[w].kind
        /\ job'[w].session = job[w].session /\ sessions' = sessions
        /\ job'[w].todo = Extracted(job'[w].pair, job'[w].kind)
    BY <1>6, <1>a, <1>b DEF Snapshot, Go, Accounts, Job, tier1
  <2>2. \A h \in Hashes : job'[w].cursor[h] + Occurrences(h, job'[w].todo) =
                              Occurrences(h, Extracted(job'[w].pair, job'[w].kind))
    BY <1>a, <1>d, <2>1 DEF None, Job
  <2>3. sessions'[job'[w].session] = KeyAt(w)'
    BY <2>1 DEF Paced, KeyAt
  <2> QED
    BY <2>2, <2>3 DEF Paced, Occurrences, Extracted
<1>7. CASE ReadTurn(w)
  <2>1. /\ pc[w] = "loop" /\ job'[w].pair = job[w].pair /\ job'[w].kind = job[w].kind
        /\ job'[w].session = job[w].session /\ job'[w].cursor = job[w].cursor
        /\ job'[w].todo = job[w].todo /\ sessions' = sessions
    BY <1>7, <1>a DEF ReadTurn, Job, tier1
  <2> QED
    BY <2>1 DEF Paced, Occurrences, Extracted, KeyAt
<1>8. CASE Enrich(w) \/ Insert(w) \/ InsertFails(w)
  <2> DEFINE c == Current(w)
  <2>1. /\ c \in Hashes /\ job[w].todo # <<>> /\ job[w].todo \in Seq(Hashes)
        /\ pc[w] \in {"loop", "insert"} /\ c = Head(job[w].todo)
        /\ job[w].cursor \in [Hashes -> Nat] /\ job[w].bucket \in [Hashes -> Nat]
    <3>1. pc[w] \in {"loop", "insert"} /\ job[w].todo # <<>>
      BY <1>8 DEF Enrich, Insert, InsertFails, Grounded
    <3> QED
      BY <1>a, <3>1 DEF Current, Job
  <2>2. /\ job'[w].pair = job[w].pair /\ job'[w].kind = job[w].kind
        /\ job'[w].session = job[w].session /\ job'[w].todo = Tail(job[w].todo)
        /\ job'[w].cursor = [job[w].cursor EXCEPT ![c] = @ + 1] /\ sessions' = sessions
    <3>1. CASE Enrich(w)
      BY <3>1, <1>a DEF Enrich, Job, tier1
    <3>2. CASE Insert(w)
      BY <3>2, <1>a DEF Insert, Job
    <3>3. CASE InsertFails(w)
      BY <3>3, <1>a DEF InsertFails, Job, tier1
    <3> QED
      BY <1>8, <3>1, <3>2, <3>3
  <2> HIDE DEF c
  <2>3. ASSUME NEW h \in Hashes
        PROVE  job'[w].cursor[h] + Occurrences(h, job'[w].todo) =
                   Occurrences(h, Extracted(job'[w].pair, job'[w].kind))
    <3>1. /\ Occurrences(h, Tail(job[w].todo)) \in Nat
          /\ Occurrences(h, job[w].todo) =
                 Occurrences(h, Tail(job[w].todo)) + (IF c = h THEN 1 ELSE 0)
      BY <2>1, OccurrencesOfTail
    <3>2. job[w].cursor[h] + Occurrences(h, job[w].todo) =
              Occurrences(h, Extracted(job[w].pair, job[w].kind))
      BY <2>1 DEF Paced
    <3>3. /\ job'[w].cursor[h] = job[w].cursor[h] + (IF h = c THEN 1 ELSE 0)
          /\ job[w].cursor[h] \in Nat
      BY <2>1, <2>2
    <3> QED
      BY <2>2, <3>1, <3>2, <3>3
  <2>4. sessions'[job'[w].session] = KeyAt(w)'
    BY <2>1, <2>2 DEF Paced, KeyAt
  <2> QED
    BY <2>3, <2>4 DEF Paced, Occurrences, Extracted
<1>9. CASE Lookup(w) \/ CreateFails(w) \/ Finish(w)
  BY <1>9, <1>a, <1>2 DEF Lookup, CreateFails, Finish, Return, Go
<1>10. ASSUME NEW p \in Pairs, NEW d \in Directions, Store(w, p, d)
       PROVE  Paced(w)'
  BY <1>10, <1>a, <1>2 DEF Store, Go
<1>11. ASSUME NEW p \in Pairs, SweepVisit(p), w = Sweeper
       PROVE  Paced(w)'
  BY <1>11, <1>a, <1>2 DEF SweepVisit, Go
<1> QED
  BY <1>1, <1>3, <1>4, <1>5, <1>6, <1>7, <1>8, <1>9, <1>10, <1>11, StepsOf DEF Persist

\* No second process begins to persist to a key without it being raced on.
LEMMA AloneKept ==
    ASSUME Grounded, [Next]_vars, NEW k \in Keys, k \notin raced', Alone(k)
    PROVE  Alone(k)'
<1>1. /\ job \in [Procs -> Job] /\ pc \in [Procs -> Labels] /\ k # NoKey
  BY PipelineAssumption DEF PipelineAssumption, Grounded, TypeOK
<1> SUFFICES ASSUME NEW v \in Procs, NEW w \in Procs, InPersist(v)', InPersist(w)',
                    KeyAt(v)' = k, KeyAt(w)' = k, v # w
             PROVE  FALSE
  BY DEF Alone
<1>2. ASSUME NEW x \in Procs, NEW y \in Procs, x # y, Lookup(x), KeyAt(x) = k,
             raced' = raced \cup Overlap(x, job[x].pair), InPersist(y), KeyAt(y) = k
      PROVE  FALSE
  <2>1. KeyOf[job[x].pair] = k /\ KeyOf[job[y].pair] = k
    BY <1>2 DEF KeyAt
  <2>2. k \in Overlap(x, job[x].pair)
    BY <1>1, <1>2, <2>1 DEF Overlap
  <2> QED
    BY <1>2, <2>2
<1>3. ASSUME NEW x \in Procs, NEW y \in Procs, x # y, Lookup(x), Lookup(y),
             pc'[x] = "find", pc'[y] = "find"
      PROVE  FALSE
  BY <1>1, <1>3 DEF Lookup, Return, Go
<1> QED
  BY <1>2, <1>3, PersistBegins DEF Alone

LEMMA OneSessionKept ==
    ASSUME Grounded, [Next]_vars, NEW k \in Keys, k \notin raced', Alone(k), OneSession(k)
    PROVE  OneSession(k)'
<1>1. /\ job \in [Procs -> Job] /\ pc \in [Procs -> Labels] /\ k # NoKey
  BY PipelineAssumption DEF PipelineAssumption, Grounded, TypeOK
<1>2. (\A id, jd \in WithKey(k) : id = jd)'
  <2>1. CASE WithKey(k)' = WithKey(k)
    BY <2>1 DEF OneSession
  <2>2. ASSUME NEW w \in Procs, Create(w), KeyAt(w) = k,
               WithKey(k)' = WithKey(k) \cup {Len(sessions) + 1}
        PROVE  (\A id, jd \in WithKey(k) : id = jd)'
    BY <2>2 DEF Create, OneSession
  <2> QED
    BY <2>1, <2>2, SessionsOfKey
<1>3. ASSUME NEW w \in Procs, pc'[w] = "create", KeyAt(w)' = k
      PROVE  WithKey(k)' = {}
  <2>1. CASE pc'[w] = pc[w] /\ job'[w] = job[w]
    <3>1. pc[w] = "create" /\ KeyAt(w) = k
      BY <1>3, <2>1 DEF KeyAt
    <3>2. WithKey(k) = {}
      BY <3>1 DEF OneSession
    <3>3. ASSUME NEW v \in Procs, Create(v), KeyAt(v) = k
          PROVE  FALSE
      <4>1. v = w
        BY <3>1, <3>3 DEF Alone, InPersist, Create
      <4> QED
        BY <1>1, <1>3, <3>3, <4>1 DEF Create, Go
    <3> QED
      BY <3>2, <3>3, SessionsOfKey
  <2>2. CASE Find(w)
    <3>1. WithKey(k) = {} /\ UNCHANGED sessions
      BY <1>1, <1>3, <2>2 DEF Find, Go, KeyAt, tier1
    <3> QED
      BY <3>1 DEF WithKey, SessionIds
  <2>3. CASE Blind(w)
    <3>1. KeyOf[job[w].pair] = k
      BY <1>3, <2>3 DEF Blind, KeyAt
    <3> QED
      BY <2>3, <3>1 DEF Blind
  <2>4. CASE Create(w) \/ CreateFails(w) \/ Snapshot(w) \/ Enrich(w) \/ ReadTurn(w) \/ Insert(w)
             \/ InsertFails(w) \/ Finish(w) \/ Lookup(w)
    BY <1>1, <1>3, <2>4 DEF Create, CreateFails, Snapshot, Enrich, ReadTurn, Insert,
       InsertFails, Finish, Lookup, Return, Go
  <2>5. ASSUME NEW p \in Pairs, NEW d \in Directions, Store(w, p, d)
        PROVE  FALSE
    BY <1>1, <1>3, <2>5 DEF Store, Go
  <2>6. ASSUME NEW p \in Pairs, SweepVisit(p), w = Sweeper
        PROVE  FALSE
    BY <1>1, <1>3, <2>6 DEF SweepVisit, Go
  <2> QED
    BY <2>1, <2>2, <2>3, <2>4, <2>5, <2>6, StepsOf DEF Persist
<1> QED
  BY <1>2, <1>3 DEF OneSession

\* A persist that is alone on its key keeps abreast of its session.
LEMMA AbreastKept ==
    ASSUME Grounded, Grounded', Accounted, [Next]_vars, \A v \in Procs : Paced(v),
           NEW k \in Keys, k \notin raced', Alone(k),
           \A v \in Procs : InPersist(v) /\ KeyAt(v) = k => Abreast(v),
           NEW w \in Procs, InPersist(w)', KeyAt(w)' = k
    PROVE  Abreast(w)'
<1> USE DEF Labels
<1>a. /\ job \in [Procs -> Job] /\ pc \in [Procs -> Labels] /\ job[w] \in Job
      /\ job'[w] \in Job /\ pc'[w] \in Labels
  BY DEF Grounded, TypeOK
<1>b. Accounts(w) /\ Paced(w) /\ messages \in Seq(Row) /\ SessionIds \subseteq Nat
  BY DEF Accounted, Grounded, TypeOK, SessionIds
<1>n. ASSUME pc'[w] \notin {"loop", "insert"}
      PROVE  Abreast(w)'
  BY <1>n DEF Abreast
<1>1. CASE pc'[w] = pc[w] /\ job'[w] = job[w]
  <2> SUFFICES ASSUME pc[w] \in {"loop", "insert"}
               PROVE  Abreast(w)'
    BY <1>1, <1>n
  <2>1. InPersist(w) /\ KeyAt(w) = k /\ Abreast(w)
    BY <1>1 DEF InPersist, KeyAt
  <2>2. PICK id \in Nat : id = job[w].session
    BY <1>a DEF Job
  <2>3. id \in WithKey(k)
    BY <1>b, <2>1, <2>2 DEF Paced, InSession, Grounded, WithKey
  <2>4. ASSUME NEW v \in Procs, Insert(v), KeyAt(v) = k
        PROVE  FALSE
    <3>1. v = w
      BY <2>1, <2>4 DEF Alone, InPersist, Insert
    <3> QED
      BY <1>1, <1>a, <2>4, <3>1 DEF Insert, Go
  <2>5. Turns(id)' = Turns(id) /\ \A h : Copies(h, id)' = Copies(h, id)
    BY <1>b, <2>3, <2>4, RowsOfKey
  <2>6. /\ Turns(job[w].session)' = Turns(id)'
        /\ \A h : Copies(h, job[w].session)' = Copies(h, id)'
    BY <1>1, <2>2 DEF Turns, Copies, Rows
  <2>7. MatchesHere(w)' = MatchesHere(w)
    BY <1>1 DEF MatchesHere, Current
  <2> QED
    BY <1>1, <2>1, <2>2, <2>5, <2>6, <2>7 DEF Abreast
<1>2. CASE Create(w)
  <2> DEFINE new == Len(sessions) + 1
  <2>1. /\ pc'[w] = "loop" /\ job'[w].bucket = None /\ job'[w].session = new
        /\ UNCHANGED messages
    BY <1>2, <1>a, <1>b DEF Create, Go, Accounts, Job
  <2>2. Rows(new) = {}
    BY FreshIsEmpty
  <2> HIDE DEF new
  <2>3. Rows(job[w].session)' = {}
    BY <2>1, <2>2 DEF Rows
  <2>4. \A h : Copies(h, job[w].session)' = 0
    BY <2>3, FS_EmptySet DEF Copies
  <2> QED
    BY <2>1, <2>4 DEF Abreast, None
<1>3. CASE Snapshot(w)
  <2>1. /\ pc'[w] = "loop" /\ job'[w].bucket = Buckets(w) /\ job'[w].session = job[w].session
        /\ UNCHANGED messages
    BY <1>3, <1>a DEF Snapshot, Go, Job, tier1
  <2>2. \A h : Copies(h, job[w].session)' = Copies(h, job[w].session)
    BY <2>1 DEF Copies, Rows
  <2> QED
    BY <2>1, <2>2 DEF Abreast, Buckets
<1>4. CASE Blind(w)
  <2>1. KeyOf[job[w].pair] = k
    BY <1>4 DEF Blind, KeyAt
  <2> QED
    BY <1>4, <2>1 DEF Blind
<1>5. CASE Enrich(w) \/ InsertFails(w)
  <2>1. /\ pc[w] \in {"loop", "insert"} /\ pc'[w] = "loop" /\ job'[w].bucket = job[w].bucket
        /\ job'[w].session = job[w].session /\ job'[w].pair = job[w].pair /\ UNCHANGED messages
    BY <1>5, <1>a DEF Enrich, InsertFails, Go, Job, tier1
  <2>2. \A h : Copies(h, job[w].session)' = Copies(h, job[w].session)
    BY <2>1 DEF Copies, Rows
  <2>3. Abreast(w)
    BY <2>1 DEF InPersist, KeyAt
  <2> QED
    BY <2>1, <2>2, <2>3 DEF Abreast
<1>6. CASE ReadTurn(w)
  <2>1. /\ pc[w] = "loop" /\ pc'[w] = "insert" /\ job'[w].bucket = job[w].bucket
        /\ job'[w].cursor = job[w].cursor /\ job'[w].todo = job[w].todo
        /\ job'[w].session = job[w].session /\ job'[w].pair = job[w].pair /\ UNCHANGED messages
        /\ job'[w].turn = NextTurn(job[w].session) /\ ~MatchesHere(w)
    BY <1>6, <1>a DEF ReadTurn, Go, Job, tier1
  <2>2. /\ Turns(job[w].session)' = Turns(job[w].session)
        /\ \A h : Copies(h, job[w].session)' = Copies(h, job[w].session)
    BY <2>1 DEF Turns, Copies, Rows
  <2>3. Abreast(w)
    BY <2>1 DEF InPersist, KeyAt
  <2>4. MatchesHere(w)' = MatchesHere(w)
    BY <2>1 DEF MatchesHere, Current
  <2>5. \A t \in Turns(job[w].session) : t < NextTurn(job[w].session)
    BY <1>a, NextTurnIsPast DEF Job
  <2> QED
    BY <2>1, <2>2, <2>3, <2>4, <2>5 DEF Abreast
<1>7. CASE Insert(w)
  <2> DEFINE c == Current(w)
  <2>1. /\ pc[w] = "insert" /\ pc'[w] = "loop" /\ job'[w].session = job[w].session
        /\ job'[w].pair = job[w].pair /\ c \in Hashes
        /\ job[w].bucket \in [Hashes -> Nat]
    BY <1>7, <1>a, InsertAdds DEF Insert, Go, Job
  <2>2. job'[w].bucket = [job[w].bucket EXCEPT ![c] = @ + 1]
    BY <1>7, <1>a DEF Insert, Job
  <2>3. PICK id \in Nat : id = job[w].session
    BY <1>a DEF Job
  <2>4. /\ RowOf(w) \in Row /\ messages' = Append(messages, RowOf(w))
        /\ RowOf(w).session = id /\ RowOf(w).hash = c
    BY <1>7, <2>3, InsertAdds
  <2> HIDE DEF c
  <2>5. Abreast(w)
    BY <2>1 DEF InPersist, KeyAt
  <2>6. ASSUME NEW h \in Hashes
        PROVE  job'[w].bucket[h] = Copies(h, job[w].session)'
    <3>1. Copies(h, job[w].session)' = Copies(h, id)'
      BY <2>1, <2>3 DEF Copies, Rows
    <3>2. Copies(h, id)' = IF id = RowOf(w).session /\ h = RowOf(w).hash
                           THEN Copies(h, id) + 1 ELSE Copies(h, id)
      BY <1>b, <2>4, CopiesGrow
    <3>3. job[w].bucket[h] = Copies(h, id)
      BY <2>1, <2>3, <2>5 DEF Abreast
    <3> QED
      BY <2>1, <2>2, <2>4, <3>1, <3>2, <3>3
  <2> QED
    BY <2>1, <2>6 DEF Abreast
<1>8. CASE Find(w) \/ CreateFails(w) \/ Finish(w) \/ Lookup(w)
  BY <1>8, <1>a, <1>n DEF Find, CreateFails, Finish, Lookup, Return, Go
<1>9. ASSUME NEW p \in Pairs, NEW d \in Directions, Store(w, p, d)
      PROVE  Abreast(w)'
  BY <1>9, <1>a, <1>n DEF Store, Go
<1>10. ASSUME NEW p \in Pairs, SweepVisit(p), w = Sweeper
       PROVE  Abreast(w)'
  BY <1>10, <1>a, <1>n DEF SweepVisit, Go
<1> QED
  BY <1>1, <1>2, <1>3, <1>4, <1>5, <1>6, <1>7, <1>8, <1>9, <1>10, StepsOf DEF Persist

\* What a calm key's session holds after a step: the rows it had, or the row of
\* the one process that persists to the key.
LEMMA OwnTurnsKept ==
    ASSUME Grounded, [Next]_vars, \A w \in Procs : Paced(w), NEW k, OwnTurns(k),
           \A w \in Procs : InPersist(w) /\ KeyAt(w) = k => Abreast(w)
    PROVE  OwnTurns(k)'
<1> SUFFICES ASSUME NEW id \in WithKey(k)'
             PROVE  (\A i, j \in Rows(id) : messages[i].turn = messages[j].turn => i = j)'
  BY DEF OwnTurns
<1>a. messages \in Seq(Row)
  BY DEF Grounded, TypeOK
<1>1. CASE id \notin WithKey(k)
  <2>1. PICK w \in Procs : Create(w) /\ id = Len(sessions) + 1
    BY <1>1, SessionsOfKey
  <2>2. UNCHANGED messages /\ Rows(id) = {}
    BY <2>1, FreshIsEmpty DEF Create
  <2>3. Rows(id)' = {}
    BY <2>2 DEF Rows
  <2> QED
    BY <2>3
<1>2. CASE id \in WithKey(k)
  <2>1. CASE Rows(id)' = Rows(id) /\ \A i \in Rows(id) : messages'[i] = messages[i]
    BY <1>2, <2>1 DEF OwnTurns
  <2>2. ASSUME NEW w \in Procs, Insert(w), KeyAt(w) = k, job[w].session = id
        PROVE  (\A i, j \in Rows(id) : messages[i].turn = messages[j].turn => i = j)'
    <3>1. /\ RowOf(w) \in Row /\ messages' = Append(messages, RowOf(w))
          /\ RowOf(w).session = id /\ RowOf(w).turn = job[w].turn
      BY <2>2, InsertAdds
    <3>2. /\ Rows(id)' = Rows(id) \cup {Len(messages) + 1}
          /\ \A i \in Rows(id) : messages'[i] = messages[i]
          /\ messages'[Len(messages) + 1] = RowOf(w)
      BY <1>a, <3>1, RowsGrow
    <3>3. \A t \in Turns(id) : t < job[w].turn
      BY <2>2 DEF Abreast, InPersist, Insert
    <3>4. \A i \in Rows(id) : messages[i].turn # job[w].turn
      <4>1. job[w].turn \in Nat
        BY DEF Grounded, TypeOK, Job
      <4> QED
        BY <3>3, <4>1 DEF Turns
    <3> SUFFICES ASSUME NEW i \in Rows(id)', NEW j \in Rows(id)',
                        messages'[i].turn = messages'[j].turn
                 PROVE  i = j
      OBVIOUS
    <3>5. /\ i \in Rows(id) \/ i = Len(messages) + 1
          /\ j \in Rows(id) \/ j = Len(messages) + 1
      BY <3>2
    <3>6. CASE i \in Rows(id) /\ j \in Rows(id)
      BY <1>2, <3>2, <3>6 DEF OwnTurns
    <3>7. messages'[Len(messages) + 1].turn = job[w].turn
      BY <3>1, <3>2
    <3> QED
      BY <3>2, <3>4, <3>5, <3>6, <3>7
  <2> QED
    BY <1>2, <2>1, <2>2, RowsOfKey
<1> QED
  BY <1>1, <1>2

LEMMA AtMostCapturedKept ==
    ASSUME Grounded, [Next]_vars, \A w \in Procs : Paced(w), NEW k \in Keys, AtMostCaptured(k),
           \A w \in Procs : InPersist(w) /\ KeyAt(w) = k => Abreast(w)
    PROVE  AtMostCaptured(k)'
<1>a. messages \in Seq(Row) /\ job \in [Procs -> Job] /\ Result \in [Pairs -> Seq(Hashes)]
  BY PipelineAssumption DEF Grounded, TypeOK, PipelineAssumption
<1>b. \A p \in Pairs, h \in Hashes : Occurrences(h, Result[p]) \in Nat
  BY <1>a, OccurrencesNat
<1> SUFFICES ASSUME NEW id \in WithKey(k)', NEW h \in Hashes
             PROVE  \E p \in Pairs : KeyOf[p] = k /\ Copies(h, id)' <= Occurrences(h, Result[p])
  BY DEF AtMostCaptured, Occurrences
<1>1. CASE id \notin WithKey(k)
  <2>1. PICK w \in Procs : Create(w) /\ id = Len(sessions) + 1 /\ KeyAt(w) = k
    BY <1>1, SessionsOfKey
  <2>2. UNCHANGED messages /\ Rows(id) = {}
    BY <2>1, FreshIsEmpty DEF Create
  <2>3. Rows(id)' = {}
    BY <2>2 DEF Rows
  <2>4. Copies(h, id)' = 0
    BY <2>3, FS_EmptySet DEF Copies
  <2>5. job[w].pair \in Pairs /\ KeyOf[job[w].pair] = k
    BY <1>a, <2>1 DEF Job, KeyAt
  <2>6. Copies(h, id)' <= Occurrences(h, Result[job[w].pair])
    BY <1>b, <2>4, <2>5
  <2> QED
    BY <2>5, <2>6
<1>2. CASE id \in WithKey(k)
  <2>1. CASE Copies(h, id)' = Copies(h, id)
    BY <1>2, <2>1 DEF AtMostCaptured
  <2>2. ASSUME NEW w \in Procs, Insert(w), KeyAt(w) = k, job[w].session = id,
               Copies(h, id)' # Copies(h, id)
        PROVE  \E p \in Pairs : KeyOf[p] = k /\ Copies(h, id)' <= Occurrences(h, Result[p])
    <3> DEFINE p == job[w].pair
    <3>1. /\ RowOf(w) \in Row /\ messages' = Append(messages, RowOf(w))
          /\ RowOf(w).session = id /\ RowOf(w).hash = Current(w)
      BY <2>2, InsertAdds
    <3>2. Copies(h, id)' = IF id = RowOf(w).session /\ h = RowOf(w).hash
                           THEN Copies(h, id) + 1 ELSE Copies(h, id)
      BY <1>a, <3>1, CopiesGrow
    <3>3. h = Current(w) /\ Copies(h, id)' = Copies(h, id) + 1
      BY <2>2, <3>1, <3>2
    <3>4. Abreast(w) /\ Paced(w) /\ pc[w] = "insert" /\ p \in Pairs /\ KeyOf[p] = k
      BY <1>a, <2>2 DEF Insert, InPersist, KeyAt, Job
    <3>5. /\ job[w].bucket[h] = Copies(h, id) /\ ~(job[w].cursor[h] < job[w].bucket[h])
      BY <2>2, <3>3, <3>4 DEF Abreast, MatchesHere
    <3>6. job[w].cursor[h] + Occurrences(h, job[w].todo) = Occurrences(h, Extracted(p, job[w].kind))
      BY <3>4 DEF Paced
    <3>7. Occurrences(h, job[w].todo) \in Nat \ {0}
      <4>1. job[w].todo \in Seq(Hashes) /\ job[w].todo # <<>> /\ h = Head(job[w].todo)
        BY <1>a, <3>3, <3>4 DEF Grounded, Job, Current
      <4>2. /\ Occurrences(h, Tail(job[w].todo)) \in Nat
            /\ Occurrences(h, job[w].todo) =
                   Occurrences(h, Tail(job[w].todo)) + (IF Head(job[w].todo) = h THEN 1 ELSE 0)
        BY <4>1, OccurrencesOfTail
      <4> QED
        BY <4>1, <4>2
    <3>8. Occurrences(h, Extracted(p, job[w].kind)) <= Occurrences(h, Result[p])
      BY <3>4, ExtractedIsPart
    <3>9. job[w].cursor[h] \in Nat /\ job[w].bucket[h] \in Nat
          /\ Occurrences(h, Extracted(p, job[w].kind)) \in Nat /\ Occurrences(h, Result[p]) \in Nat
      BY <1>a, <1>b, <3>4, ExtractedType, OccurrencesNat DEF Job
    <3>10. Copies(h, id)' <= Occurrences(h, Result[p])
      BY <3>3, <3>5, <3>6, <3>7, <3>8, <3>9
    <3> QED
      BY <3>4, <3>10
  <2> QED
    BY <1>2, <2>1, <2>2, RowsOfKey
<1> QED
  BY <1>1, <1>2

LEMMA UndisturbedInvariant == Spec => []Undisturbed
<1>1. Init => Undisturbed
  <2> SUFFICES ASSUME Init
               PROVE  Undisturbed
    OBVIOUS
  <2>1. \A w \in Procs : pc[w] = "idle"
    BY DEF Init
  <2>2. \A k : WithKey(k) = {}
    BY DEF Init, WithKey, SessionIds
  <2> QED
    BY <2>1, <2>2 DEF Undisturbed, Paced, Calm, Alone, OneSession, OwnTurns, AtMostCaptured,
       InPersist, InSession
<1>2. Grounded /\ Grounded' /\ Accounted /\ Undisturbed /\ [Next]_vars => Undisturbed'
  <2> SUFFICES ASSUME Grounded, Grounded', Accounted, Undisturbed, [Next]_vars
               PROVE  Undisturbed'
    OBVIOUS
  <2>1. \A w \in Procs : Paced(w)
    BY DEF Undisturbed
  <2>2. \A w \in Procs : Paced(w)'
    BY <2>1, PacedKept
  <2>3. ASSUME NEW k \in Keys, k \notin raced'
        PROVE  Calm(k)'
    <3>1. Calm(k)
      BY <2>3, RacedStay DEF Undisturbed
    <3>2. /\ Alone(k) /\ OneSession(k) /\ OwnTurns(k) /\ AtMostCaptured(k)
          /\ \A w \in Procs : InPersist(w) /\ KeyAt(w) = k => Abreast(w)
      BY <3>1 DEF Calm
    <3>3. Alone(k)'
      BY <2>3, <3>2, AloneKept
    <3>4. OneSession(k)'
      BY <2>3, <3>2, OneSessionKept
    <3>5. \A w \in Procs : InPersist(w)' /\ KeyAt(w)' = k => Abreast(w)'
      BY <2>1, <2>3, <3>2, AbreastKept
    <3>6. OwnTurns(k)'
      BY <2>1, <3>2, OwnTurnsKept
    <3>7. AtMostCaptured(k)'
      BY <2>1, <3>2, AtMostCapturedKept
    <3> QED
      BY <3>3, <3>4, <3>5, <3>6, <3>7 DEF Calm
  <2> QED
    BY <2>2, <2>3 DEF Undisturbed
<1> QED
  BY <1>1, <1>2, GroundedInvariant, AccountedInvariant, PTL DEF Spec

\* Where no two persists of a session key overlapped and no query of one failed,
\* its captures end in one session, without a doubled turn, that has no message
\* more often than the capture that has it most often (persist_result).
THEOREM SessionsAreExact == Spec => []ExactUnlessRaced
<1>1. Grounded /\ Undisturbed => ExactUnlessRaced
  <2> SUFFICES ASSUME Grounded, Undisturbed, NEW k \in Keys, k \notin raced
               PROVE  /\ Cardinality(WithKey(k)) <= 1
                      /\ \A id \in WithKey(k) :
                            /\ Cardinality(Turns(id)) = Cardinality(Rows(id))
                            /\ \A h \in Hashes : \E p \in Pairs :
                                  KeyOf[p] = k /\ Copies(h, id) <= Occurrences(h, Result[p])
    BY DEF ExactUnlessRaced
  <2>1. OneSession(k) /\ OwnTurns(k) /\ AtMostCaptured(k)
    BY DEF Undisturbed, Calm
  <2>2. Cardinality(WithKey(k)) <= 1
    <3>1. CASE WithKey(k) = {}
      BY <3>1, FS_EmptySet
    <3>2. CASE WithKey(k) # {}
      <4>1. PICK id \in WithKey(k) : WithKey(k) = {id}
        BY <2>1, <3>2 DEF OneSession
      <4>2. Cardinality({id}) = 1
        BY FS_Singleton
      <4>3. Cardinality(WithKey(k)) = 1
        BY <4>1, <4>2
      <4> QED
        BY <4>3
    <3> QED
      BY <3>1, <3>2
  <2>3. ASSUME NEW id \in WithKey(k)
        PROVE  Cardinality(Turns(id)) = Cardinality(Rows(id))
    <3> DEFINE f == [i \in Rows(id) |-> messages[i].turn]
    <3>1. f \in Bijection(Rows(id), Turns(id))
      <4>1. f \in [Rows(id) -> Turns(id)] /\ \A t \in Turns(id) : \E i \in Rows(id) : f[i] = t
        BY DEF Turns
      <4>2. \A i, j \in Rows(id) : f[i] = f[j] => i = j
        BY <2>1 DEF OwnTurns
      <4> QED
        BY <4>1, <4>2 DEF Bijection, Injection, Surjection, IsInjective
    <3>2. IsFiniteSet(Rows(id))
      BY RowsFinite DEF Grounded, TypeOK
    <3> QED
      BY <3>1, <3>2, FS_Bijection DEF ExistsBijection
  <2> QED
    BY <2>1, <2>2, <2>3 DEF AtMostCaptured
<1> QED
  BY <1>1, GroundedInvariant, UndisturbedInvariant, PTL

============================================================================
