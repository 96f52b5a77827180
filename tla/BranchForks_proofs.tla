-------------------------- MODULE BranchForks_proofs --------------------------
(***************************************************************************)
(* The collapsed view of a forked conversation, for any number of          *)
(* captors, texts and completions.                                         *)
(*                                                                         *)
(* BranchInvariant is the inductive invariant, in three layers, each       *)
(* proved from those before.  ThreadInv: the rows tell what was said, in   *)
(* its order.  BranchesInv: how branches follow the tree of completions.   *)
(* PlainInv: what holds besides when no persists overlap and no prompt is  *)
(* said twice.  CollapsedShowsPath then reads the view off the rows.       *)
(***************************************************************************)
EXTENDS BranchForks, FiniteSetTheorems, SequenceTheorems, NaturalsInduction,
        WellFoundedInduction, TLAPS

---------------------------------------------------------------------------
(* The rows of the thread and what the captors have of them                *)

HasReply(c, n)  == \E j \in 1 .. n : thread[j].role = "assistant" /\ thread[j].text = c
HasPrompt(t, n) == \E j \in 1 .. n : thread[j].role = "user" /\ thread[j].text = t

\* A reply is of the completion it was stored for, a prompt says what that
\* completion said; the parent may be that of another one that says the same.
RowTells(i) ==
    /\ thread[i].time \in Completions /\ thread[i].turn \in 1 .. i
    /\ thread[i].role = "assistant" =>
          thread[i].text = thread[i].time /\ thread[i].parent = tree[thread[i].time].parent
    /\ thread[i].role = "user" =>
          /\ thread[i].text = tree[thread[i].time].prompt
          /\ \E c \in Completions : tree[c].prompt = thread[i].text /\ tree[c].parent = thread[i].parent

\* Completions are stored in order, and the prompt of one before its reply.
RowFollows(i) ==
    /\ thread[i].role = "assistant" => HasPrompt(tree[thread[i].time].prompt, i - 1)
    /\ \A c \in 1 .. thread[i].time - 1 : HasReply(c, i - 1)

CaptorKnows(k) ==
    /\ taken[k] <= Len(tree) /\ known[k] <= Len(thread)
    /\ Busy(k) => taken[k] # 0
    /\ \A c \in 1 .. taken[k] : (Busy(k) => c # taken[k]) => HasReply(c, Len(thread))
    /\ doing[k] = "assistant" => HasPrompt(tree[taken[k]].prompt, Len(thread))

ThreadInv ==
    /\ BranchTypeOK
    /\ Entries # {} => Captors # {}
    /\ \A i \in Entries : RowTells(i) /\ RowFollows(i)
    /\ \A k \in Captors : CaptorKnows(k)

---------------------------------------------------------------------------
(* Branches                                                                *)

IsChain == \A c \in Completions : tree[c].parent = c - 1

\* Without a completion below a fork the tree is a chain, whose completions
\* are regenerated and edited.
CombAt(m) ==
    \A c \in Completions : IF c <= m THEN tree[c].parent = c - 1 ELSE tree[c].parent < m
Comb == \E m \in 0 .. Len(tree) : CombAt(m)

Storing(k) == doing[k] \in {"user", "assistant"}

\* The main branch, and what a backfill moved from it, is of completions
\* without an earlier sibling; a fork's branch is of one completion.
RowStands(i) ==
    \/ thread[i].branch \in {Main, <<i>>} /\ Siblings(thread[i].time) = {}
    \/ \E k \in Captors : thread[i].branch = <<k, thread[i].time>>

ForkStands(k) ==
    \/ fork[k].branch = Main /\ Siblings(taken[k]) = {}
    \/ fork[k].branch = <<k, taken[k]>>

\* A prompt is followed by its reply on its branch, or a captor is about to
\* store it there.
Replied(i) ==
    thread[i].role = "user" /\ (IsChain \/ Len(thread[i].branch) = 2) =>
       \/ \E j \in Entries : /\ i < j /\ thread[j].role = "assistant"
                             /\ thread[j].text = thread[i].time
                             /\ thread[j].branch = thread[i].branch
       \/ \E k \in Captors : /\ doing[k] = "assistant" /\ taken[k] = thread[i].time
                             /\ fork[k].branch = thread[i].branch
                             /\ ~HasReply(taken[k], known[k])

Turned ==
    \A i, j \in Entries :
        i < j /\ thread[i].branch = thread[j].branch => thread[i].turn < thread[j].turn

ChainPlain ==
    IsChain => /\ \A i \in Entries : thread[i].branch = Main
               /\ \A k \in Captors : Storing(k) => fork[k].branch = Main

BranchesInv ==
    /\ ~GoesOnBelowFork => Comb
    /\ \A i \in Entries : RowStands(i) /\ Replied(i)
    /\ Turned
    /\ \A k \in Captors : Storing(k) => ForkStands(k)
    /\ ChainPlain

---------------------------------------------------------------------------
(* Persists that do not overlap                                            *)

\* Each message is stored once, in the order of the completions.
Serial ==
    /\ \A j, k \in Captors : Busy(j) /\ Busy(k) => j = k
    /\ \A k \in Captors :
          /\ doing[k] \in {"detect", "user"} => known[k] = Len(thread)
          /\ doing[k] = "assistant" =>
                \A i \in Entries : i > known[k] => thread[i].role = "user"
    /\ \A i, j \in Entries :
          /\ thread[i].role = thread[j].role /\ thread[i].text = thread[j].text => i = j
          /\ i < j => thread[i].time <= thread[j].time

\* What replaces a completion of the chain hangs from it.
Replaces(f, c) ==
    /\ f \in Entries
    /\ thread[f].time = tree[c].parent + 1
    /\ thread[f].role = "user" => thread[f].text # tree[c].prompt

\* The main branch has all rows of completions without an earlier sibling.
SortedRows == \A i \in Entries : Siblings(thread[i].time) = {} => thread[i].branch = Main
SortedForks ==
    \A k \in Captors : Storing(k) /\ fork[k].branch # Main /\ Siblings(taken[k]) = {} =>
        HasReply(taken[k], known[k])

\* Those of the others know which row of the chain they replace.
HungRows ==
    \A i \in Entries : Siblings(thread[i].time) # {} => Replaces(thread[i].from, thread[i].time)
HungForks ==
    \A k \in Captors : Storing(k) /\ Siblings(taken[k]) # {} => Replaces(fork[k].from, taken[k])

PlainInv ==
    /\ ~overlapped => Serial
    /\ ~PromptRepeats => \A i \in Entries : thread[i].branch # <<i>>
    /\ ~overlapped /\ ~PromptRepeats => SortedRows /\ SortedForks
    /\ ~overlapped /\ ~PromptRepeats /\ ~GoesOnBelowFork => HungRows /\ HungForks
---------------------------------------------------------------------------
(* Orders                                                                  *)

\* A set of numbers that is not empty has a least one.
LEMMA NatMin ==
    ASSUME NEW T, T \subseteq Nat, T # {}
    PROVE  \E m \in T : \A x \in T : m <= x
<1> DEFINE R == {ss \in Nat \X Nat : ss[1] < ss[2]}
<1>1. IsWellFoundedOn(R, Nat)
  BY NatLessThanWellFounded DEF OpToRel
<1> HIDE DEF R
<1>2. PICK m \in T : \A y \in T : <<y, m>> \notin R
  BY <1>1, WFMin
<1>3. ASSUME NEW x \in T PROVE m <= x
  <2>1. <<x, m>> \notin R  BY <1>2
  <2>2. ~(x < m)  BY <2>1 DEF R
  <2> QED BY <2>2
<1> QED BY <1>3

\* A set of numbers up to n that is not empty has a greatest one.
LEMMA NatMax ==
    ASSUME NEW n \in Nat, NEW T, T \subseteq 0 .. n, T # {}
    PROVE  \E m \in T : \A x \in T : x <= m
<1> DEFINE U == {n - x : x \in T}
<1>1. U \subseteq Nat /\ U # {}
  <2>1. PICK x \in T : TRUE  OBVIOUS
  <2>2. n - x \in U  OBVIOUS
  <2>3. \A y \in T : n - y \in Nat  OBVIOUS
  <2> QED BY <2>2, <2>3
<1> HIDE DEF U
<1>2. PICK v \in U : \A y \in U : v <= y
  BY <1>1, NatMin
<1>3. PICK m \in T : v = n - m
  BY <1>2 DEF U
<1>4. ASSUME NEW x \in T PROVE x <= m
  <2>1. n - x \in U  BY DEF U
  <2> QED BY <2>1, <1>2, <1>3
<1> QED BY <1>4

\* What Max gives, on a set of numbers up to n.
LEMMA MaxIn ==
    ASSUME NEW n \in Nat, NEW T, T \subseteq 0 .. n, T # {}
    PROVE  /\ Max(T) \in T
           /\ \A x \in T : x <= Max(T)
<1>1. \E m \in T : \A x \in T : m >= x
  BY NatMax
<1> QED BY <1>1 DEF Max

RowTypes ==
    /\ Len(thread) \in Nat /\ Entries = 1 .. Len(thread)
    /\ \A i \in Entries :
          /\ thread[i].role \in {"user", "assistant"}
          /\ thread[i].text \in Texts \cup Nat /\ thread[i].parent \in Nat
          /\ thread[i].time \in Nat /\ thread[i].turn \in Nat
          /\ thread[i].branch \in Branches /\ thread[i].from \in Nat

TreeTypes ==
    /\ Len(tree) \in Nat /\ Completions = 1 .. Len(tree)
    /\ \A c \in Completions :
          /\ tree[c].parent \in Nat /\ tree[c].parent < c
          /\ tree[c].prompt \in Texts

\* What the type invariant says, row by row and completion by completion.
LEMMA Types ==
    ASSUME BranchTypeOK
    PROVE  RowTypes /\ TreeTypes
<1> DEFINE Row == [role : {"user", "assistant"}, text : Texts \cup Nat, parent : Nat,
                   time : Nat, branch : Branches, from : Nat, turn : Nat]
<1>1. thread \in Seq(Row) /\ tree \in Seq([parent : Nat, prompt : Texts])
  BY DEF BranchTypeOK
<1>2. Len(thread) \in Nat /\ Entries = 1 .. Len(thread)
  <2> HIDE DEF Row
  <2> QED BY <1>1 DEF Entries
<1>3. \A i \in Entries : thread[i] \in Row
  <2> HIDE DEF Row
  <2> QED BY <1>1, <1>2
<1>4. RowTypes
  BY <1>2, <1>3 DEF RowTypes
<1>5. Len(tree) \in Nat /\ Completions = 1 .. Len(tree)
  BY <1>1 DEF Completions
<1>6. \A c \in Completions : tree[c] \in [parent : Nat, prompt : Texts]
  <2> DEFINE Step == [parent : Nat, prompt : Texts]
  <2>1. tree \in Seq(Step)  BY <1>1
  <2> HIDE DEF Step
  <2>2. \A c \in Completions : tree[c] \in Step  BY <2>1, <1>5
  <2> QED BY <2>2 DEF Step
<1>7. \A c \in Completions : tree[c].parent < c
  BY DEF BranchTypeOK
<1>8. TreeTypes
  BY <1>5, <1>6, <1>7 DEF TreeTypes
<1> QED BY <1>4, <1>8

\* A set of rows has a first one.
LEMMA FirstIn ==
    ASSUME RowTypes, NEW S, S \subseteq Entries, S # {}
    PROVE  /\ First(S) \in S
           /\ \A j \in S \ {First(S)} : Before(First(S), j)
<1>1. {thread[i].time : i \in S} \subseteq Nat /\ {thread[i].time : i \in S} # {}
  BY DEF RowTypes
<1>2. PICK t \in {thread[i].time : i \in S} : \A x \in {thread[i].time : i \in S} : t <= x
  BY <1>1, NatMin
<1> DEFINE S1 == {i \in S : thread[i].time = t}
<1>3. {thread[i].turn : i \in S1} \subseteq Nat /\ {thread[i].turn : i \in S1} # {}
  BY <1>2 DEF RowTypes
<1>4. PICK v \in {thread[i].turn : i \in S1} : \A x \in {thread[i].turn : i \in S1} : v <= x
  BY <1>3, NatMin
<1> DEFINE S2 == {i \in S1 : thread[i].turn = v}
<1>5. S2 \subseteq Nat /\ S2 # {}
  <2>1. Entries \subseteq Nat  BY DEF RowTypes
  <2>2. PICK i \in S1 : thread[i].turn = v  BY <1>4
  <2> QED BY <2>1, <2>2
<1>6. PICK f \in S2 : \A x \in S2 : f <= x
  BY <1>5, NatMin
<1>7. f \in S /\ \A j \in S \ {f} : Before(f, j)
  <2>1. ASSUME NEW j \in S \ {f} PROVE Before(f, j)
    <3>1. t <= thread[j].time  BY <1>2
    <3>2. CASE thread[j].time # t
      BY <3>1, <3>2, <1>6 DEF RowTypes, Before
    <3>3. CASE thread[j].time = t
      <4>1. v <= thread[j].turn  BY <3>3, <1>4
      <4>2. thread[j].turn = v => f <= j  BY <3>3, <1>6
      <4> QED BY <3>3, <4>1, <4>2, <1>6 DEF RowTypes, Before
    <3> QED BY <3>2, <3>3
  <2> QED BY <2>1, <1>6
<1> QED BY <1>7 DEF First

\* The turn of a new row is after those of its branch.
LEMMA TurnAfter ==
    ASSUME RowTypes, \A i \in Entries : thread[i].turn \in 1 .. i, NEW b
    PROVE  /\ Turn(b) \in 1 .. Len(thread) + 1
           /\ \A i \in Entries : thread[i].branch = b => thread[i].turn < Turn(b)
<1> DEFINE T == {0} \cup {thread[i].turn : i \in On(b)}
<1>1. Len(thread) \in Nat /\ Entries = 1 .. Len(thread)
  BY DEF RowTypes
<1>2. T \subseteq 0 .. Len(thread) /\ T # {}
  BY <1>1 DEF On
<1> HIDE DEF T
<1>3. Max(T) \in T /\ \A x \in T : x <= Max(T)
  BY <1>1, <1>2, MaxIn
<1>4. Turn(b) = Max(T) + 1 /\ Max(T) \in 0 .. Len(thread)
  BY <1>2, <1>3 DEF Turn, T
<1>5. ASSUME NEW i \in Entries, thread[i].branch = b PROVE thread[i].turn < Turn(b)
  <2>1. thread[i].turn \in T  BY <1>5 DEF T, On
  <2>2. thread[i].turn <= Max(T)  BY <2>1, <1>3
  <2>3. thread[i].turn \in Nat  BY DEF RowTypes
  <2> HIDE DEF T
  <2> QED BY <2>2, <2>3, <1>1, <1>4
<1>6. Turn(b) \in 1 .. Len(thread) + 1
  BY <1>1, <1>4
<1> QED BY <1>5, <1>6
---------------------------------------------------------------------------
(* What a step does to the rows and to the tree                            *)

\* No step loses a row or changes what it says and when it was said.
Kept ==
    /\ Len(thread)' \in Nat /\ Len(thread) <= Len(thread)'
    /\ \A i \in Entries :
          /\ thread'[i].role = thread[i].role /\ thread'[i].text = thread[i].text
          /\ thread'[i].time = thread[i].time /\ thread'[i].turn = thread[i].turn

Grown ==
    /\ Len(tree)' \in Nat /\ Len(tree) <= Len(tree)'
    /\ \A c \in Completions : tree'[c] = tree[c]

\* Storing the message m of k: the row p takes over its parent, or a row is
\* inserted.
Enriches(p, k, m) ==
    /\ p \in Bucket(k, m) /\ Len(thread)' = Len(thread)
    /\ \A i \in Entries :
          /\ thread'[i].role = thread[i].role /\ thread'[i].text = thread[i].text
          /\ thread'[i].time = thread[i].time /\ thread'[i].turn = thread[i].turn
          /\ thread'[i].branch = thread[i].branch /\ thread'[i].from = thread[i].from
          /\ thread'[i].parent = IF i = p THEN m.parent ELSE thread[i].parent

Inserts(k, m) ==
    /\ Bucket(k, m) = {} /\ Len(thread)' = Len(thread) + 1
    /\ \A i \in Entries : thread'[i] = thread[i]
    /\ thread'[Len(thread) + 1] = NewRow(k, m)

Row == [role : {"user", "assistant"}, text : Texts \cup Nat, parent : Nat,
        time : Nat, branch : Branches, from : Nat, turn : Nat]
Message == [role : {"user", "assistant"}, text : Texts \cup Nat, parent : Nat]

\* The type invariant in terms of Row.
LEMMA ThreadRows ==
    ASSUME BranchTypeOK
    PROVE  thread \in Seq(Row) /\ tree \in Seq([parent : Nat, prompt : Texts])
BY DEF BranchTypeOK, Row

\* The two messages of a completion are messages.
LEMMA Messages ==
    ASSUME TreeTypes, NEW c \in Completions
    PROVE  Prompt(c) \in Message /\ Reply(c) \in Message
BY DEF TreeTypes, Prompt, Reply, Message

\* Storing a message enriches one row, or inserts the new row at the end (Stores).
LEMMA StoreSteps ==
    ASSUME BranchTypeOK, NEW k \in Captors, NEW m \in Message, known[k] <= Len(thread),
           \A i \in Entries : thread[i].turn \in 1 .. i, Stores(k, m)
    PROVE  /\ thread' \in Seq(Row)
           /\ \/ \E p \in Entries : Enriches(p, k, m)
              \/ Inserts(k, m)
<1>1. thread \in Seq(Row) /\ RowTypes /\ known[k] \in Nat
  BY ThreadRows, Types DEF BranchTypeOK
<1>2. Len(thread) \in Nat /\ Entries = 1 .. Len(thread)
  BY <1>1 DEF RowTypes
<1>3. ASSUME NEW p \in Earliest(Bucket(k, m)), thread' = [thread EXCEPT ![p].parent = m.parent]
      PROVE  thread' \in Seq(Row) /\ \E i \in Entries : Enriches(i, k, m)
  <2>1. Bucket(k, m) \subseteq Entries
    BY <1>1, <1>2 DEF Bucket
  <2>2. p \in Entries /\ p \in Bucket(k, m)
    BY <2>1 DEF Earliest
  <2>3. thread' = [thread EXCEPT ![p] = [thread[p] EXCEPT !.parent = m.parent]]
    BY <1>3
  <2>4. thread[p] \in Row /\ m.parent \in Nat
    <3> HIDE DEF Row
    <3> QED BY <1>1, <1>2, <2>2 DEF Message
  <2>5. [thread[p] EXCEPT !.parent = m.parent] \in Row
    BY <2>4 DEF Row
  <2>6. thread' \in Seq(Row) /\ Len(thread)' = Len(thread)
    <3> HIDE DEF Row
    <3> QED BY <1>1, <1>2, <2>2, <2>3, <2>5
  <2>7. \A i \in Entries : thread'[i] =
            IF i = p THEN [thread[p] EXCEPT !.parent = m.parent] ELSE thread[i]
    <3> HIDE DEF Row
    <3> QED BY <1>1, <1>2, <2>3
  <2>8. Enriches(p, k, m)
    BY <2>2, <2>4, <2>6, <2>7 DEF Enriches, Row
  <2> QED BY <2>2, <2>6, <2>8
<1>4. CASE Bucket(k, m) = {} /\ thread' = Append(thread, NewRow(k, m))
  <2>1. thread' = Append(thread, NewRow(k, m))
    BY <1>4
  <2>2. Turn(fork[k].branch) \in Nat
    BY <1>1, <1>2, TurnAfter
  <2>3. taken[k] \in Nat /\ fork[k].branch \in Branches /\ fork[k].from \in Nat
    BY DEF BranchTypeOK
  <2>4. NewRow(k, m) \in Row
    BY <2>2, <2>3 DEF NewRow, Row, Message
  <2>5. thread' \in Seq(Row) /\ Inserts(k, m)
    <3> HIDE DEF Row
    <3> QED BY <1>1, <1>2, <1>4, <2>1, <2>4 DEF Inserts
  <2> QED BY <2>5
<1> QED BY <1>3, <1>4 DEF Stores

\* A backfill changes the branch and the fork of rows of the main branch, and
\* nothing else (Backfills).
LEMMA BackfillSteps ==
    ASSUME BranchTypeOK, Backfills
    PROVE  /\ thread' \in Seq(Row) /\ Len(thread)' = Len(thread)
           /\ \A i \in Entries :
                 /\ thread'[i].role = thread[i].role /\ thread'[i].text = thread[i].text
                 /\ thread'[i].time = thread[i].time /\ thread'[i].turn = thread[i].turn
                 /\ thread'[i].parent = thread[i].parent
           /\ \A i \in Entries :
                 thread'[i] # thread[i] => thread[i].branch = Main /\ thread'[i].branch = <<i>>
<1> DEFINE alike(i) == {j \in Entries : thread[j].parent = thread[i].parent
                                      /\ thread[j].role = thread[i].role}
           moved(i) == [thread[i] EXCEPT !.branch = <<i>>,
                           !.from = IF @ = 0 THEN First(alike(i)) ELSE @]
           new(i) == IF thread[i].branch = Main /\ thread[i].text # thread[First(alike(i))].text
                     THEN moved(i) ELSE thread[i]
<1>1. thread \in Seq(Row) /\ RowTypes
  BY ThreadRows, Types
<1>2. Len(thread) \in Nat /\ Entries = 1 .. Len(thread)
  BY <1>1 DEF RowTypes
<1>3. thread' = [i \in Entries |-> new(i)]
  BY DEF Backfills
<1>4. ASSUME NEW i \in Entries PROVE thread[i] \in Row /\ moved(i) \in Row
  <2>1. thread[i] \in Row
    <3> HIDE DEF Row
    <3> QED BY <1>1, <1>2
  <2>2. First(alike(i)) \in Nat
    <3>1. First(alike(i)) \in alike(i)
      <4>1. alike(i) \subseteq Entries /\ alike(i) # {}  OBVIOUS
      <4> HIDE DEF alike
      <4> QED BY <1>1, <4>1, FirstIn
    <3> QED BY <1>2, <3>1
  <2>3. <<i>> \in Branches
    BY <1>2 DEF Branches
  <2> QED BY <2>1, <2>2, <2>3 DEF Row
<1>5. ASSUME NEW i \in Entries
      PROVE  /\ new(i) \in Row
             /\ new(i).role = thread[i].role /\ new(i).text = thread[i].text
             /\ new(i).time = thread[i].time /\ new(i).turn = thread[i].turn
             /\ new(i).parent = thread[i].parent
             /\ new(i) # thread[i] => thread[i].branch = Main /\ new(i).branch = <<i>>
  <2>1. CASE new(i) = thread[i]  BY <1>4, <2>1
  <2>2. CASE new(i) = moved(i) /\ thread[i].branch = Main
    BY <1>4, <2>2 DEF Row
  <2> QED BY <2>1, <2>2
<1> HIDE DEF new, Row
<1>6. thread' \in Seq(Row) /\ Len(thread)' = Len(thread)
  BY <1>2, <1>3, <1>5
<1> QED BY <1>2, <1>3, <1>5, <1>6
\* What the user does: a completion more, after hers or beside an earlier one.
Adds(q, t) ==
    /\ q \in Nat /\ q <= Tip /\ t \in Texts /\ Len(tree) < MaxCompletions
    /\ q = Tip \/ \E c \in Completions : q = tree[c].parent
    /\ Len(tree)' = Len(tree) + 1 /\ tree' \in Seq([parent : Nat, prompt : Texts])
    /\ Completions' = 1 .. Len(tree) + 1
    /\ \A c \in Completions : tree'[c] = tree[c]
    /\ tree'[Len(tree) + 1] = [parent |-> q, prompt |-> t]

\* The user appends a completion: after her own, or beside one of her path.
LEMMA UserSteps ==
    ASSUME BranchTypeOK, Continues \/ Regenerates \/ Edits
    PROVE  /\ \E q \in Nat, t \in Texts : Adds(q, t)
           /\ UNCHANGED <<thread, taken, doing, known, fork, overlapped>>
<1>1. TreeTypes /\ tree \in Seq([parent : Nat, prompt : Texts])
  BY Types, ThreadRows
<1>2. Len(tree) \in Nat /\ Completions = 1 .. Len(tree)
  BY <1>1 DEF TreeTypes
<1>3. \E q \in Nat, t \in Texts :
          Completes(q, t) /\ q <= Tip /\ (q = Tip \/ \E c \in Completions : q = tree[c].parent)
  <2>1. CASE Continues
    BY <1>2, <2>1 DEF Continues, Tip
  <2>2. CASE Regenerates
    <3>1. Tip \in Completions  BY <1>2, <2>2 DEF Regenerates, Tip
    <3>2. tree[Tip].parent \in Nat /\ tree[Tip].parent < Tip /\ tree[Tip].prompt \in Texts
      BY <1>1, <3>1 DEF TreeTypes
    <3> QED BY <1>2, <2>2, <3>1, <3>2 DEF Regenerates, Tip
  <2>3. CASE Edits
    <3>1. PICK c \in Completions, t \in Texts : Completes(tree[c].parent, t)
      BY <2>3 DEF Edits, Path
    <3>2. tree[c].parent \in Nat /\ tree[c].parent < c
      BY <1>1, <3>1 DEF TreeTypes
    <3>3. tree[c].parent <= Tip
      BY <1>2, <3>1, <3>2 DEF Tip
    <3> QED BY <3>1, <3>2, <3>3
  <2> QED BY <2>1, <2>2, <2>3
<1>4. PICK q \in Nat, t \in Texts :
          Completes(q, t) /\ q <= Tip /\ (q = Tip \/ \E c \in Completions : q = tree[c].parent)
  BY <1>3
<1> DEFINE Step == [parent : Nat, prompt : Texts]
<1>5. tree' = Append(tree, [parent |-> q, prompt |-> t]) /\ Len(tree) < MaxCompletions
      /\ UNCHANGED <<thread, taken, doing, known, fork, overlapped>>
  BY <1>4 DEF Completes
<1>6. [parent |-> q, prompt |-> t] \in Step  OBVIOUS
<1>7. tree' \in Seq(Step) /\ Len(tree)' = Len(tree) + 1
      /\ (\A c \in Completions : tree'[c] = tree[c])
      /\ tree'[Len(tree) + 1] = [parent |-> q, prompt |-> t]
  <2>1. tree \in Seq(Step)  BY <1>1
  <2> HIDE DEF Step
  <2> QED BY <2>1, <1>2, <1>5, <1>6
<1>8. Completions' = 1 .. Len(tree) + 1
  BY <1>1, <1>7 DEF Completions
<1>9. Adds(q, t)
  BY <1>4, <1>5, <1>7, <1>8 DEF Adds
<1> QED BY <1>5, <1>9

---------------------------------------------------------------------------
(* The rows                                                                *)

\* ThreadInv holds before anything is said.
LEMMA RowsStart == BranchInit => ThreadInv
<1> SUFFICES ASSUME BranchInit PROVE ThreadInv  OBVIOUS
<1>1. tree = <<>> /\ thread = <<>> /\ Entries = {} /\ Completions = {}
  BY DEF BranchInit, Entries, Completions
<1>2. BranchTypeOK
  <2>1. taken \in [Captors -> 0 .. MaxCompletions] /\ known \in [Captors -> Nat]
    BY BranchAssumption DEF BranchInit
  <2>2. doing \in [Captors -> {"idle", "detect", "user", "assistant"}] /\ overlapped \in BOOLEAN
    BY DEF BranchInit
  <2>3. fork \in [Captors -> [branch : Branches, from : Nat]]
    BY DEF BranchInit, NoFork, Branches
  <2>4. Len(tree) <= MaxCompletions
    BY <1>1, BranchAssumption
  <2> QED BY <1>1, <2>1, <2>2, <2>3, <2>4 DEF BranchTypeOK
<1>3. \A k \in Captors : CaptorKnows(k)
  BY <1>1 DEF BranchInit, CaptorKnows, Busy
<1> QED BY <1>1, <1>2, <1>3 DEF ThreadInv

\* What has been stored stays known.
LEMMA KeptRows ==
    ASSUME RowTypes, Kept, NEW n \in Nat, n <= Len(thread)
    PROVE  /\ \A c : HasReply(c, n)' <=> HasReply(c, n)
           /\ \A t : HasPrompt(t, n)' <=> HasPrompt(t, n)
<1>1. \A j \in 1 .. n : thread'[j].role = thread[j].role /\ thread'[j].text = thread[j].text
  <2>1. \A j \in 1 .. n : j \in Entries  BY DEF RowTypes
  <2> QED BY <2>1 DEF Kept
<1>2. \A c : HasReply(c, n)' <=> HasReply(c, n)
  BY <1>1 DEF HasReply
<1>3. \A t : HasPrompt(t, n)' <=> HasPrompt(t, n)
  BY <1>1 DEF HasPrompt
<1> QED BY <1>2, <1>3

\* What is in the first rows is in more of them.
LEMMA FoundAbove ==
    ASSUME NEW n \in Nat, NEW l \in Nat, n <= l
    PROVE  /\ \A c : HasReply(c, n) => HasReply(c, l)
           /\ \A t : HasPrompt(t, n) => HasPrompt(t, l)
BY DEF HasReply, HasPrompt

\* The steps that leave the thread alone.
LEMMA RowsStay ==
    ASSUME ThreadInv, Grown, thread' = thread, BranchTypeOK',
           \A k \in Captors : CaptorKnows(k)'
    PROVE  ThreadInv'
<1>1. RowTypes /\ TreeTypes /\ TreeTypes'
  <2>1. BranchTypeOK /\ BranchTypeOK'  BY DEF ThreadInv
  <2> QED BY <2>1, Types, PTL
<1>2. Entries' = Entries
  BY DEF Entries
<1>3. ASSUME NEW i \in Entries PROVE RowTells(i)'
  <2>1. RowTells(i)  BY DEF ThreadInv
  <2>2. Completions \subseteq Completions' /\ \A c \in Completions : tree'[c] = tree[c]
    BY <1>1 DEF Grown, TreeTypes
  <2> QED BY <2>1, <2>2 DEF RowTells
<1>4. ASSUME NEW i \in Entries PROVE RowFollows(i)'
  <2>1. RowFollows(i) /\ RowTells(i)  BY DEF ThreadInv
  <2> QED BY <1>1, <2>1 DEF RowFollows, RowTells, Grown, TreeTypes, HasReply, HasPrompt
<1> QED BY <1>2, <1>3, <1>4 DEF ThreadInv

\* ThreadInv is preserved when the user continues, regenerates or edits, and
\* no row or completion is lost.
LEMMA RowsUser ==
    ASSUME ThreadInv, Continues \/ Regenerates \/ Edits
    PROVE  ThreadInv' /\ Kept /\ Grown
<1>1. BranchTypeOK /\ RowTypes /\ TreeTypes
  BY Types DEF ThreadInv
<1>2. PICK q \in Nat, t \in Texts : Adds(q, t)
  BY <1>1, UserSteps
<1>3. UNCHANGED <<thread, taken, doing, known, fork, overlapped>>
  BY <1>1, UserSteps
<1>4. Kept /\ Grown
  BY <1>1, <1>2, <1>3 DEF Kept, Grown, Adds, RowTypes, TreeTypes
<1>5. BranchTypeOK'
  <2>1. \A c \in Completions' : tree'[c].parent < c
    BY <1>1, <1>2 DEF Adds, TreeTypes, Tip
  <2>2. Len(tree)' <= MaxCompletions /\ tree' \in Seq([parent : Nat, prompt : Texts])
    BY <1>1, <1>2, BranchAssumption DEF Adds, TreeTypes
  <2> QED BY <1>1, <1>3, <2>1, <2>2 DEF BranchTypeOK, Branches
<1>6. ASSUME NEW k \in Captors PROVE CaptorKnows(k)'
  <2>1. CaptorKnows(k) /\ taken[k] \in Nat  BY <1>1 DEF ThreadInv, BranchTypeOK
  <2>2. taken[k] # 0 => tree'[taken[k]] = tree[taken[k]]
    BY <1>1, <1>2, <2>1 DEF Adds, CaptorKnows, TreeTypes
  <2>3. (Busy(k) <=> Busy(k)') /\ (doing[k] = "assistant" => Busy(k))
    BY <1>3 DEF Busy
  <2> QED BY <1>1, <1>2, <1>3, <2>1, <2>2, <2>3
          DEF CaptorKnows, Adds, TreeTypes, HasReply, HasPrompt
<1> QED BY <1>3, <1>4, <1>5, <1>6, RowsStay

\* ThreadInv is preserved when a persist begins.
LEMMA RowsBegin ==
    ASSUME ThreadInv, NEW k \in Captors, Begins(k)
    PROVE  ThreadInv' /\ Kept /\ Grown
<1>1. BranchTypeOK /\ RowTypes /\ TreeTypes
  BY Types DEF ThreadInv
<1>2. UNCHANGED <<tree, thread, fork>>
  BY DEF Begins
<1>3. Kept /\ Grown
  BY <1>1, <1>2 DEF Kept, Grown, RowTypes, TreeTypes
<1>4. /\ taken' = [taken EXCEPT ![k] = @ + 1] /\ taken[k] < Len(tree) /\ ~Busy(k)
      /\ known' = [known EXCEPT ![k] = Len(thread)] /\ doing' = [doing EXCEPT ![k] = "detect"]
  BY DEF Begins
<1>5. ASSUME NEW j \in Captors
      PROVE  /\ taken'[j] = IF j = k THEN taken[k] + 1 ELSE taken[j]
             /\ known'[j] = IF j = k THEN Len(thread) ELSE known[j]
             /\ doing'[j] = IF j = k THEN "detect" ELSE doing[j]
  BY <1>1, <1>4 DEF BranchTypeOK
<1>6. BranchTypeOK'
  <2>1. taken' \in [Captors -> 0 .. MaxCompletions]
    BY <1>1, <1>4, BranchAssumption DEF BranchTypeOK, TreeTypes
  <2>2. known' \in [Captors -> Nat] /\ doing' \in [Captors -> {"idle", "detect", "user", "assistant"}]
    BY <1>1, <1>4 DEF BranchTypeOK, RowTypes
  <2>3. overlapped' \in BOOLEAN
    BY <1>1 DEF BranchTypeOK, Begins
  <2> QED BY <1>1, <1>2, <2>1, <2>2, <2>3 DEF BranchTypeOK, Branches, Completions
<1>7. ASSUME NEW j \in Captors PROVE CaptorKnows(j)'
  <2>1. CaptorKnows(j) /\ taken[j] \in Nat /\ known[j] \in Nat
    BY <1>1 DEF ThreadInv, BranchTypeOK
  <2>2. CASE j # k
    BY <1>2, <1>5, <2>1, <2>2 DEF CaptorKnows, Busy, HasReply, HasPrompt
  <2>3. CASE j = k
    <3>1. \A c \in 1 .. taken[k] : HasReply(c, Len(thread))
      BY <1>4, <2>1, <2>3 DEF CaptorKnows
    <3> QED BY <1>1, <1>2, <1>4, <1>5, <2>1, <2>3, <3>1
            DEF CaptorKnows, Busy, HasReply, HasPrompt, RowTypes, TreeTypes
  <2> QED BY <2>2, <2>3
<1> QED BY <1>2, <1>3, <1>6, <1>7, RowsStay

\* ThreadInv is preserved when a persist looks for a fork.
LEMMA RowsDetect ==
    ASSUME ThreadInv, NEW k \in Captors, Detects(k)
    PROVE  /\ ThreadInv' /\ Kept /\ Grown
           /\ \/ /\ \A i \in Entries : ~Differs(i, taken[k])
                 /\ fork'[k] = NoFork
              \/ \E i \in Entries :
                    /\ Differs(i, taken[k])
                    /\ \A j \in Entries : Differs(j, taken[k]) => thread[i].time <= thread[j].time
                    /\ fork'[k] = [branch |-> <<k, taken[k]>>, from |-> i]
           /\ \A j \in Captors \ {k} : fork'[j] = fork[j]
<1>1. BranchTypeOK /\ RowTypes /\ TreeTypes /\ CaptorKnows(k)
  BY Types DEF ThreadInv
<1>2. /\ UNCHANGED <<tree, thread, taken, known, overlapped>>
      /\ doing[k] = "detect" /\ doing' = [doing EXCEPT ![k] = "user"]
  BY DEF Detects
<1>3. Kept /\ Grown
  BY <1>1, <1>2 DEF Kept, Grown, RowTypes, TreeTypes
<1> DEFINE siblings == {i \in Entries : Differs(i, taken[k])}
<1>4. \/ siblings = {} /\ fork' = [fork EXCEPT ![k] = NoFork]
      \/ \E i \in siblings :
            /\ \A j \in siblings : thread[i].time <= thread[j].time
            /\ fork' = [fork EXCEPT ![k] = [branch |-> <<k, taken[k]>>, from |-> i]]
  BY DEF Detects, Earliest
<1>5. taken[k] \in 1 .. MaxCompletions
  BY <1>1, <1>2 DEF CaptorKnows, Busy, BranchTypeOK
<1>6. fork' \in [Captors -> [branch : Branches, from : Nat]]
  <2>1. \A i \in siblings : [branch |-> <<k, taken[k]>>, from |-> i] \in [branch : Branches, from : Nat]
    BY <1>1, <1>5 DEF Branches, RowTypes
  <2>2. NoFork \in [branch : Branches, from : Nat]
    BY DEF NoFork, Branches
  <2> DEFINE Fork == [branch : Branches, from : Nat]
  <2>3. fork \in [Captors -> Fork]  BY <1>1 DEF BranchTypeOK
  <2> HIDE DEF Fork, siblings
  <2>4. \E v \in Fork : fork' = [fork EXCEPT ![k] = v]
    <3>1. CASE fork' = [fork EXCEPT ![k] = NoFork]  BY <2>2, <3>1 DEF Fork
    <3>2. ASSUME NEW i \in siblings,
                 fork' = [fork EXCEPT ![k] = [branch |-> <<k, taken[k]>>, from |-> i]]
          PROVE  \E v \in Fork : fork' = [fork EXCEPT ![k] = v]
      BY <2>1, <3>2 DEF Fork
    <3> QED BY <1>4, <3>1, <3>2
  <2>5. fork' \in [Captors -> Fork]  BY <2>3, <2>4
  <2> QED BY <2>5 DEF Fork
<1>7. BranchTypeOK'
  BY <1>1, <1>2, <1>6 DEF BranchTypeOK, Branches, Completions
<1>8. ASSUME NEW j \in Captors PROVE CaptorKnows(j)'
  <2>1. CaptorKnows(j) /\ doing \in [Captors -> {"idle", "detect", "user", "assistant"}]
    BY <1>1 DEF ThreadInv, BranchTypeOK
  <2>2. (Busy(j) <=> Busy(j)') /\ (doing'[j] = "assistant" => doing[j] = "assistant")
    BY <1>2, <2>1 DEF Busy
  <2> QED BY <1>2, <2>1, <2>2 DEF CaptorKnows, HasReply, HasPrompt
<1>9. ThreadInv'
  BY <1>2, <1>3, <1>7, <1>8, RowsStay
<1>10. fork \in [Captors -> [branch : Branches, from : Nat]]
  BY <1>1 DEF BranchTypeOK
<1>11. \A j \in Captors \ {k} : fork'[j] = fork[j]
  BY <1>4, <1>10
<1>12. \/ siblings = {} /\ fork'[k] = NoFork
       \/ \E i \in siblings :
            /\ \A j \in siblings : thread[i].time <= thread[j].time
            /\ fork'[k] = [branch |-> <<k, taken[k]>>, from |-> i]
  BY <1>4, <1>10
<1> QED BY <1>3, <1>9, <1>11, <1>12

\* Storing a message of the captor's completion keeps every row, enriches or
\* inserts one, and leaves one of its role that says it.
LEMMA Stored ==
    ASSUME ThreadInv, NEW k \in Captors, Busy(k),
           NEW m \in {Prompt(taken[k]), Reply(taken[k])}, Stores(k, m)
    PROVE  /\ taken[k] \in Completions /\ known[k] \in 0 .. Len(thread) /\ m \in Message
           /\ thread' \in Seq(Row) /\ Kept
           /\ (\E p \in Entries : Enriches(p, k, m)) \/ Inserts(k, m)
           /\ \E j \in 1 .. Len(thread)' : thread'[j].role = m.role /\ thread'[j].text = m.text
<1>1. BranchTypeOK /\ RowTypes /\ TreeTypes /\ CaptorKnows(k)
  BY Types DEF ThreadInv
<1>2. taken[k] \in Completions /\ known[k] \in 0 .. Len(thread)
  BY <1>1 DEF CaptorKnows, BranchTypeOK, TreeTypes, RowTypes
<1>3. m \in Message
  BY <1>1, <1>2, Messages
<1>4. \A i \in Entries : thread[i].turn \in 1 .. i
  BY DEF ThreadInv, RowTells
<1>5. known[k] <= Len(thread)
  BY <1>1, <1>2 DEF RowTypes
<1>6. thread' \in Seq(Row) /\ ((\E p \in Entries : Enriches(p, k, m)) \/ Inserts(k, m))
  BY <1>1, <1>3, <1>4, <1>5, StoreSteps
<1>7. CASE \E p \in Entries : Enriches(p, k, m)
  <2>1. PICK p \in Entries : Enriches(p, k, m)  BY <1>7
  <2>2. Kept
    BY <1>1, <2>1 DEF Kept, Enriches, RowTypes
  <2>3. p \in 1 .. Len(thread)' /\ thread'[p].role = m.role /\ thread'[p].text = m.text
    BY <1>1, <2>1 DEF Enriches, Bucket, RowTypes
  <2> QED BY <1>2, <1>3, <1>6, <2>2, <2>3
<1>8. CASE Inserts(k, m)
  <2>1. Kept
    BY <1>1, <1>8 DEF Kept, Inserts, RowTypes
  <2>2. /\ Len(thread) + 1 \in 1 .. Len(thread)'
        /\ thread'[Len(thread) + 1].role = m.role /\ thread'[Len(thread) + 1].text = m.text
    BY <1>1, <1>8 DEF Inserts, NewRow, RowTypes
  <2> QED BY <1>2, <1>3, <1>6, <2>1, <2>2
<1> QED BY <1>6, <1>7, <1>8

\* Every row still tells what was said, and follows what it must, after a
\* message of the captor's completion is stored.
LEMMA RowsStored ==
    ASSUME ThreadInv, NEW k \in Captors, Busy(k),
           NEW m \in {Prompt(taken[k]), Reply(taken[k])}, Stores(k, m),
           m = Reply(taken[k]) => doing[k] = "assistant"
    PROVE  \A i \in Entries' : RowTells(i)' /\ RowFollows(i)'
<1>1. BranchTypeOK /\ RowTypes /\ TreeTypes /\ CaptorKnows(k)
  BY Types DEF ThreadInv
<1>2. taken[k] \in Completions /\ known[k] \in 0 .. Len(thread) /\ Kept /\ thread' \in Seq(Row)
  BY Stored
<1>3. tree' = tree /\ taken' = taken
  BY DEF Stores
<1>4. Len(thread)' \in Nat /\ Entries' = 1 .. Len(thread)'
  BY <1>2 DEF Entries, Kept
<1>5. \A i \in Entries : RowTells(i) /\ RowFollows(i)
  BY DEF ThreadInv
<1>6. \A i \in Entries : i - 1 \in Nat /\ i - 1 <= Len(thread)
  BY <1>1 DEF RowTypes
<1>7. ASSUME NEW i \in Entries PROVE RowFollows(i)'
  <2>1. /\ \A c : HasReply(c, i - 1)' <=> HasReply(c, i - 1)
        /\ \A t : HasPrompt(t, i - 1)' <=> HasPrompt(t, i - 1)
    BY <1>1, <1>2, <1>6, KeptRows
  <2> QED BY <1>2, <1>3, <1>5, <2>1 DEF RowFollows, Kept
<1>8. CASE \E p \in Entries : Enriches(p, k, m)
  <2>1. PICK p \in Entries : Enriches(p, k, m)  BY <1>8
  <2>2. Entries' = Entries
    BY <1>1, <1>4, <2>1 DEF Enriches, RowTypes
  <2>3. ASSUME NEW i \in Entries PROVE RowTells(i)'
    <3>1. CASE i # p
      BY <1>3, <1>5, <2>1, <3>1 DEF RowTells, Enriches, Completions
    <3>2. CASE i = p
      <4>1. thread[p].role = m.role /\ thread[p].text = m.text /\ thread'[p].parent = m.parent
        BY <2>1 DEF Enriches, Bucket
      <4> QED BY <1>1, <1>2, <1>3, <1>5, <2>1, <3>2, <4>1
              DEF RowTells, Enriches, Completions, Prompt, Reply
    <3> QED BY <3>1, <3>2
  <2> QED BY <1>7, <2>2, <2>3
<1>9. CASE Inserts(k, m)
  <2>0. PICK n \in Nat : n = Len(thread) + 1
    BY <1>1 DEF RowTypes
  <2>1. Entries' = Entries \cup {n} /\ n - 1 = Len(thread) /\ n \notin Entries
    BY <1>1, <1>4, <1>9, <2>0 DEF Inserts, RowTypes
  <2>2. ASSUME NEW i \in Entries PROVE RowTells(i)'
    BY <1>3, <1>5, <1>9 DEF RowTells, Inserts, Completions
  <2>3. thread'[n] = NewRow(k, m)
    BY <1>9, <2>0 DEF Inserts
  <2>4. RowTells(n)'
    <3>1. Turn(fork[k].branch) \in 1 .. n
      BY <1>1, <1>5, <2>0, TurnAfter DEF RowTells
    <3> QED BY <1>2, <1>3, <2>3, <3>1 DEF RowTells, NewRow, Prompt, Reply, Completions
  <2>5. RowFollows(n)'
    <3>1. \A c \in 1 .. taken[k] - 1 : HasReply(c, Len(thread))
      BY <1>1, <1>2 DEF CaptorKnows, TreeTypes
    <3>2. m.role = "assistant" => HasPrompt(tree[taken[k]].prompt, Len(thread))
      BY <1>1 DEF CaptorKnows, Prompt, Reply
    <3>3. /\ \A c : HasReply(c, n - 1)' <=> HasReply(c, n - 1)
          /\ \A t : HasPrompt(t, n - 1)' <=> HasPrompt(t, n - 1)
      <4>1. n - 1 \in Nat /\ n - 1 <= Len(thread)  BY <1>1, <2>1 DEF RowTypes
      <4> QED BY <1>1, <1>2, <4>1, KeptRows
    <3> QED BY <1>3, <2>1, <2>3, <3>1, <3>2, <3>3 DEF RowFollows, NewRow
  <2> QED BY <1>7, <2>1, <2>2, <2>4, <2>5
<1> QED BY Stored, <1>8, <1>9

\* ThreadInv is preserved when a persist stores its prompt or its reply.
LEMMA RowsStore ==
    ASSUME ThreadInv, NEW k \in Captors, StoresPrompt(k) \/ StoresReply(k)
    PROVE  ThreadInv' /\ Kept /\ Grown
<1>1. BranchTypeOK /\ RowTypes /\ TreeTypes /\ CaptorKnows(k)
  BY Types DEF ThreadInv
<1>2. Busy(k) /\ tree' = tree /\ taken' = taken /\ overlapped' = overlapped
  BY DEF StoresPrompt, StoresReply, Stores, Busy
<1>3. PICK m \in {Prompt(taken[k]), Reply(taken[k])} :
          /\ Stores(k, m)
          /\ \/ m = Prompt(taken[k]) /\ StoresPrompt(k)
             \/ m = Reply(taken[k]) /\ StoresReply(k)
  BY DEF StoresPrompt, StoresReply
<1>4. m = Reply(taken[k]) => doing[k] = "assistant"
  BY <1>3 DEF StoresReply, StoresPrompt, Prompt, Reply
<1>5. /\ taken[k] \in Completions /\ known[k] \in 0 .. Len(thread)
      /\ thread' \in Seq(Row) /\ Kept
      /\ \E j \in 1 .. Len(thread)' : thread'[j].role = m.role /\ thread'[j].text = m.text
  BY <1>2, <1>3, Stored
<1>6. \A i \in Entries' : RowTells(i)' /\ RowFollows(i)'
  BY <1>2, <1>3, <1>4, RowsStored
<1>7. Grown
  BY <1>1, <1>2 DEF Grown, TreeTypes
<1>8. \/ /\ m = Prompt(taken[k]) /\ doing[k] = "user"
         /\ doing' = [doing EXCEPT ![k] = "assistant"] /\ UNCHANGED <<known, fork>>
      \/ /\ m = Reply(taken[k]) /\ doing[k] = "assistant"
         /\ doing' = [doing EXCEPT ![k] = "idle"]
         /\ known' = [known EXCEPT ![k] = 0] /\ fork' = [fork EXCEPT ![k] = NoFork]
  BY <1>3 DEF StoresPrompt, StoresReply
<1>9. BranchTypeOK'
  <2>1. doing' \in [Captors -> {"idle", "detect", "user", "assistant"}] /\ known' \in [Captors -> Nat]
    <3>1. doing' = [doing EXCEPT ![k] = "assistant"] \/ doing' = [doing EXCEPT ![k] = "idle"]
      BY <1>8
    <3>2. known' = known \/ known' = [known EXCEPT ![k] = 0]
      BY <1>8
    <3>3. known' \in [Captors -> Nat]
      <4>1. known \in [Captors -> Nat]  BY <1>1 DEF BranchTypeOK
      <4> QED BY <3>2, <4>1
    <3>4. doing' \in [Captors -> {"idle", "detect", "user", "assistant"}]
      BY <1>1, <3>1 DEF BranchTypeOK
    <3> QED BY <3>3, <3>4
  <2>2. fork' \in [Captors -> [branch : Branches, from : Nat]]
    <3>1. NoFork \in [branch : Branches, from : Nat]  BY DEF NoFork, Branches
    <3>2. fork' = fork \/ fork' = [fork EXCEPT ![k] = NoFork]  BY <1>8
    <3> QED BY <1>1, <3>1, <3>2 DEF BranchTypeOK
  <2> QED BY <1>1, <1>2, <1>5, <2>1, <2>2 DEF BranchTypeOK, Row, Completions, Branches
<1>10. ASSUME NEW j \in Captors PROVE CaptorKnows(j)'
  <2>1. CaptorKnows(j) /\ taken[j] \in Nat /\ known[j] \in Nat
    BY <1>1 DEF ThreadInv, BranchTypeOK
  <2>2. /\ \A c : HasReply(c, Len(thread)) => HasReply(c, Len(thread))'
        /\ \A t : HasPrompt(t, Len(thread)) => HasPrompt(t, Len(thread))'
    <3>1. \A i \in 1 .. Len(thread) : /\ i \in 1 .. Len(thread)' /\ thread'[i].role = thread[i].role
                                      /\ thread'[i].text = thread[i].text
      BY <1>1, <1>5 DEF Kept, RowTypes
    <3> QED BY <3>1 DEF HasReply, HasPrompt
  <2>3. Len(thread) <= Len(thread)' /\ Len(thread)' \in Nat /\ Len(thread) \in Nat
    BY <1>1, <1>5 DEF Kept, RowTypes
  <2>4. CASE j # k
    <3>1. doing'[j] = doing[j] /\ known'[j] = known[j] /\ (Busy(j)' <=> Busy(j))
      BY <1>1, <1>8, <2>4 DEF BranchTypeOK, Busy
    <3> QED BY <1>2, <2>1, <2>2, <2>3, <3>1 DEF CaptorKnows
  <2>5. CASE j = k /\ m = Prompt(taken[k]) /\ doing' = [doing EXCEPT ![k] = "assistant"]
             /\ UNCHANGED <<known, fork>>
    <3>1. doing'[k] = "assistant" /\ Busy(k)'
      BY <1>1, <2>5 DEF BranchTypeOK, Busy
    <3>2. HasPrompt(tree[taken[k]].prompt, Len(thread))'
      BY <1>2, <1>5, <2>5 DEF HasPrompt, Prompt
    <3> QED BY <1>2, <2>1, <2>2, <2>3, <2>5, <3>1, <3>2 DEF CaptorKnows
  <2>6. CASE j = k /\ m = Reply(taken[k]) /\ doing' = [doing EXCEPT ![k] = "idle"]
             /\ known' = [known EXCEPT ![k] = 0]
    <3>1. doing'[k] = "idle" /\ ~Busy(k)' /\ known'[k] = 0
      BY <1>1, <2>6 DEF BranchTypeOK, Busy
    <3>2. HasReply(taken[k], Len(thread))'
      BY <1>2, <1>5, <2>6 DEF HasReply, Reply
    <3> QED BY <1>2, <2>1, <2>2, <2>3, <2>6, <3>1, <3>2 DEF CaptorKnows
  <2> QED BY <1>8, <2>4, <2>5, <2>6
<1> QED BY <1>5, <1>6, <1>7, <1>9, <1>10 DEF ThreadInv

\* ThreadInv is preserved by a backfill.
LEMMA RowsBackfill ==
    ASSUME ThreadInv, Backfills
    PROVE  ThreadInv' /\ Kept /\ Grown
<1>1. BranchTypeOK /\ RowTypes /\ TreeTypes
  BY Types DEF ThreadInv
<1>2. /\ thread' \in Seq(Row) /\ Len(thread)' = Len(thread)
      /\ \A i \in Entries :
            /\ thread'[i].role = thread[i].role /\ thread'[i].text = thread[i].text
            /\ thread'[i].time = thread[i].time /\ thread'[i].turn = thread[i].turn
            /\ thread'[i].parent = thread[i].parent
  BY <1>1, BackfillSteps
<1>3. UNCHANGED <<tree, taken, doing, known, fork, overlapped>>
  BY DEF Backfills
<1>4. Kept /\ Grown
  BY <1>1, <1>2, <1>3 DEF Kept, Grown, RowTypes, TreeTypes
<1>5. Entries' = Entries
  BY <1>1, <1>2 DEF Entries, RowTypes
<1>6. BranchTypeOK'
  BY <1>1, <1>2, <1>3 DEF BranchTypeOK, Row, Completions, Branches
<1>7. ASSUME NEW i \in Entries PROVE RowTells(i)'
  <2>1. RowTells(i)  BY DEF ThreadInv
  <2> QED BY <1>2, <1>3, <2>1 DEF RowTells, Completions
<1>8. ASSUME NEW n \in Nat, n <= Len(thread)
      PROVE  /\ \A c : HasReply(c, n)' <=> HasReply(c, n)
             /\ \A t : HasPrompt(t, n)' <=> HasPrompt(t, n)
  BY <1>1, <1>4, <1>8, KeptRows
<1>9. ASSUME NEW i \in Entries PROVE RowFollows(i)'
  <2>1. RowFollows(i) /\ i - 1 \in Nat /\ i - 1 <= Len(thread)
    BY <1>1 DEF ThreadInv, RowTypes
  <2> QED BY <1>2, <1>3, <1>8, <2>1 DEF RowFollows
<1>10. ASSUME NEW k \in Captors PROVE CaptorKnows(k)'
  <2>1. CaptorKnows(k) /\ Len(thread) \in Nat
    BY <1>1 DEF ThreadInv, RowTypes
  <2> QED BY <1>2, <1>3, <1>8, <2>1 DEF CaptorKnows, Busy
<1> QED BY <1>4, <1>5, <1>6, <1>7, <1>9, <1>10 DEF ThreadInv

\* ThreadInv is preserved by every step.
LEMMA RowsStep ==
    ASSUME ThreadInv, BranchNext
    PROVE  ThreadInv' /\ Kept /\ Grown
<1>1. CASE Continues \/ Regenerates \/ Edits  BY <1>1, RowsUser
<1>2. CASE Backfills  BY <1>2, RowsBackfill
<1>3. ASSUME NEW k \in Captors, Begins(k) \/ Detects(k) \/ StoresPrompt(k) \/ StoresReply(k)
      PROVE  ThreadInv' /\ Kept /\ Grown
  BY <1>3, RowsBegin, RowsDetect, RowsStore
<1> QED BY <1>1, <1>2, <1>3 DEF BranchNext

---------------------------------------------------------------------------
(* The branches                                                            *)

\* Completions keep their siblings, and what has been so in the tree stays so.
LEMMA TreeKept ==
    ASSUME TreeTypes, TreeTypes', Grown
    PROVE  /\ Completions \subseteq Completions'
           /\ \A c \in Completions : tree'[c] = tree[c] /\ Siblings(c)' = Siblings(c)
           /\ GoesOnBelowFork => GoesOnBelowFork'
           /\ PromptRepeats => PromptRepeats'
           /\ IsChain' => IsChain
<1>1. Completions \subseteq Completions' /\ \A c \in Completions : tree'[c] = tree[c]
  BY DEF TreeTypes, Grown
<1>2. ASSUME NEW c \in Completions PROVE Siblings(c)' = Siblings(c)
  <2>1. \A d \in 1 .. c - 1 : d \in Completions  BY DEF TreeTypes
  <2> QED BY <1>1, <2>1 DEF Siblings
<1>3. ASSUME GoesOnBelowFork PROVE GoesOnBelowFork'
  <2>1. PICK c \in Completions : tree[c].parent # 0 /\ Siblings(tree[c].parent) # {}
    BY <1>3 DEF GoesOnBelowFork
  <2>2. PICK p \in Completions : p = tree[c].parent
    BY <2>1 DEF TreeTypes
  <2>3. Siblings(p)' # {} /\ tree'[c].parent = p /\ p # 0
    BY <1>1, <1>2, <2>1, <2>2
  <2> QED BY <1>1, <2>3 DEF GoesOnBelowFork
<1>4. PromptRepeats => PromptRepeats'
  BY <1>1 DEF PromptRepeats
<1>5. IsChain' => IsChain
  BY <1>1 DEF IsChain
<1> QED BY <1>1, <1>2, <1>3, <1>4, <1>5

\* In a comb a completion on its chain has no earlier sibling, and any other
\* has that of the chain.
LEMMA CombSiblings ==
    ASSUME TreeTypes, NEW m \in 0 .. Len(tree), NEW c \in Completions, CombAt(m)
    PROVE  /\ c <= m => Siblings(c) = {}
           /\ c > m => /\ tree[c].parent + 1 \in Siblings(c)
                       /\ tree[tree[c].parent + 1].parent = tree[c].parent
                       /\ tree[c].parent + 1 \in Completions /\ tree[c].parent + 1 <= m
<1>1. ASSUME c <= m PROVE Siblings(c) = {}
  <2>1. \A d \in 1 .. c - 1 : d \in Completions /\ tree[d].parent < d
    BY DEF TreeTypes
  <2>2. tree[c].parent = c - 1  BY <1>1 DEF CombAt
  <2>3. \A d \in 1 .. c - 1 : tree[d].parent \in Nat  BY <2>1 DEF TreeTypes
  <2> QED BY <2>1, <2>2, <2>3 DEF Siblings, TreeTypes
<1>2. ASSUME c > m PROVE /\ tree[c].parent + 1 \in Siblings(c)
                         /\ tree[tree[c].parent + 1].parent = tree[c].parent
                         /\ tree[c].parent + 1 \in Completions /\ tree[c].parent + 1 <= m
  <2>1. tree[c].parent < m /\ tree[c].parent \in Nat
    BY <1>2 DEF TreeTypes, CombAt
  <2>2. PICK d \in Completions : d = tree[c].parent + 1 /\ d <= m /\ d < c
    BY <1>2, <2>1 DEF TreeTypes
  <2>3. tree[d].parent = tree[c].parent
    BY <2>1, <2>2 DEF CombAt
  <2> QED BY <2>2, <2>3 DEF Siblings, TreeTypes
<1> QED BY <1>1, <1>2

\* As long as nothing goes on below a fork, the tree stays a comb.
LEMMA CombStep ==
    ASSUME TreeTypes, TreeTypes', Grown, NEW q \in Nat, NEW t \in Texts, Adds(q, t),
           ~GoesOnBelowFork => Comb
    PROVE  ~GoesOnBelowFork' => Comb'
<1> SUFFICES ASSUME ~GoesOnBelowFork' PROVE Comb'  OBVIOUS
<1>1. Comb
  BY TreeKept
<1>2. PICK m \in 0 .. Len(tree) : CombAt(m)
  BY <1>1 DEF Comb
<1>0. PICK n \in Nat : n = Len(tree) + 1
  BY DEF TreeTypes
<1>3. /\ n \in Nat /\ n > Len(tree) /\ Completions' = 1 .. n /\ Completions = 1 .. Len(tree)
      /\ Len(tree)' = n /\ tree'[n].parent = q /\ q <= Len(tree)
      /\ \A c \in Completions : tree'[c] = tree[c]
  BY <1>0 DEF Adds, TreeTypes, Tip
<1>4. \A c \in Completions : tree[c].parent \in Nat /\ tree[c].parent < c
  BY DEF TreeTypes
<1>5. CASE q < m
  <2>1. \A c \in 1 .. n : IF c <= m THEN tree'[c].parent = c - 1 ELSE tree'[c].parent < m
    <3>1. \A c \in 1 .. n : c = n \/ c \in Completions  BY <1>0, <1>3
    <3> QED BY <1>0, <1>2, <1>3, <1>5, <3>1 DEF CombAt
  <2>2. \A c \in Completions' : IF c <= m THEN tree'[c].parent = c - 1 ELSE tree'[c].parent < m
    BY <1>3, <2>1
  <2>3. m \in 0 .. Len(tree)'  BY <1>2, <1>3
  <2> QED BY <2>2, <2>3 DEF Comb, CombAt
<1>6. CASE q = m /\ m = Len(tree)
  <2>1. \A c \in 1 .. n : IF c <= n THEN tree'[c].parent = c - 1 ELSE tree'[c].parent < n
    <3>1. \A c \in 1 .. n : c = n \/ c \in Completions  BY <1>0, <1>3
    <3> QED BY <1>0, <1>2, <1>3, <1>6, <3>1 DEF CombAt
  <2>2. \A c \in Completions' : IF c <= n THEN tree'[c].parent = c - 1 ELSE tree'[c].parent < n
    BY <1>3, <2>1
  <2>3. n \in 0 .. Len(tree)'  BY <1>3
  <2> QED BY <2>2, <2>3 DEF Comb, CombAt
<1>7. ASSUME ~(q < m), ~(q = m /\ m = Len(tree)) PROVE FALSE
  <2>1. CASE \E c \in Completions : q = tree[c].parent
    BY <1>2, <1>3, <1>4, <1>7, <2>1 DEF CombAt
  <2>2. CASE q = Tip
    <3>1. q \in Completions /\ q > m  BY <1>2, <1>3, <1>7, <2>2 DEF Tip, CombAt
    <3>2. Siblings(q) # {}  BY <1>2, <3>1, CombSiblings
    <3>3. Siblings(q)' # {}  BY <3>1, <3>2, TreeKept
    <3>4. n \in Completions' /\ tree'[n].parent = q /\ q # 0  BY <1>3, <3>1
    <3> QED BY <3>3, <3>4 DEF GoesOnBelowFork
  <2> QED BY <2>1, <2>2 DEF Adds
<1> QED BY <1>2, <1>3, <1>5, <1>6, <1>7

\* Rows stand when neither they nor what is being stored changes.
LEMMA RowsStand ==
    ASSUME ThreadInv, ThreadInv', BranchesInv, Grown, thread' = thread,
           \A k \in Captors : doing[k] = "assistant" =>
               /\ doing'[k] = "assistant" /\ taken'[k] = taken[k]
               /\ known'[k] = known[k] /\ fork'[k] = fork[k]
    PROVE  /\ \A i \in Entries' : RowStands(i)' /\ Replied(i)'
           /\ Turned'
<1>1. RowTypes /\ TreeTypes /\ TreeTypes'
  <2>1. BranchTypeOK /\ BranchTypeOK'  BY DEF ThreadInv
  <2> QED BY <2>1, Types, PTL
<1>2. Entries' = Entries
  BY DEF Entries
<1>3. ASSUME NEW i \in Entries PROVE RowStands(i)'
  <2>1. RowStands(i) /\ thread[i].time \in Completions
    BY DEF BranchesInv, ThreadInv, RowTells
  <2>2. Siblings(thread[i].time)' = Siblings(thread[i].time)
    <3>1. PICK c \in Completions : c = thread[i].time  BY <2>1
    <3>2. Siblings(c)' = Siblings(c)  BY <1>1, TreeKept
    <3> QED BY <3>1, <3>2 DEF Siblings
  <2> QED BY <2>1, <2>2 DEF RowStands
<1>4. ASSUME NEW i \in Entries PROVE Replied(i)'
  <2>1. Replied(i) /\ (IsChain' => IsChain)
    BY <1>1, TreeKept DEF BranchesInv
  <2> QED BY <1>2, <2>1 DEF Replied, HasReply
<1>5. Turned'
  BY <1>2 DEF BranchesInv, Turned
<1> QED BY <1>2, <1>3, <1>4, <1>5

\* BranchesInv holds before anything is said.
LEMMA BranchesStart == BranchInit => BranchesInv
<1> SUFFICES ASSUME BranchInit PROVE BranchesInv  OBVIOUS
<1>1. tree = <<>> /\ thread = <<>> /\ Entries = {} /\ Completions = {} /\ Len(tree) = 0
  BY DEF BranchInit, Entries, Completions
<1>2. \A k \in Captors : ~Storing(k)
  BY DEF BranchInit, Storing
<1>3. Comb
  <2>1. 0 \in 0 .. Len(tree)  BY <1>1
  <2> QED BY <1>1, <2>1 DEF Comb, CombAt
<1> QED BY <1>1, <1>2, <1>3 DEF BranchesInv, Turned, ChainPlain

\* Of a captor that stores, the completion it took.
LEMMA Takes ==
    ASSUME ThreadInv, NEW k \in Captors, Busy(k)
    PROVE  /\ taken[k] \in Completions
           /\ \A c \in 1 .. taken[k] - 1 : HasReply(c, Len(thread))
<1>1. BranchTypeOK /\ CaptorKnows(k) /\ TreeTypes
  BY Types DEF ThreadInv
<1>2. taken[k] \in Nat /\ taken[k] # 0 /\ taken[k] <= Len(tree)
  BY <1>1 DEF CaptorKnows, BranchTypeOK
<1> QED BY <1>1, <1>2 DEF CaptorKnows, TreeTypes

\* BranchesInv is preserved when the user continues, regenerates or edits.
LEMMA BranchesUser ==
    ASSUME ThreadInv, BranchesInv, Continues \/ Regenerates \/ Edits
    PROVE  BranchesInv'
<1>1. BranchTypeOK /\ RowTypes /\ TreeTypes
  BY Types DEF ThreadInv
<1>2. ThreadInv' /\ Kept /\ Grown
  BY RowsUser
<1>3. TreeTypes'
  <2>1. BranchTypeOK'  BY <1>2 DEF ThreadInv
  <2> QED BY <2>1, Types, PTL
<1>4. UNCHANGED <<thread, taken, doing, known, fork, overlapped>>
  BY <1>1, UserSteps
<1>5. PICK q \in Nat, t \in Texts : Adds(q, t)
  BY <1>1, UserSteps
<1>6. ~GoesOnBelowFork' => Comb'
  BY <1>1, <1>2, <1>3, <1>5, CombStep DEF BranchesInv
<1>7. (\A i \in Entries' : RowStands(i)' /\ Replied(i)') /\ Turned'
  BY <1>2, <1>4, RowsStand
<1>8. ASSUME NEW k \in Captors, Storing(k)' PROVE ForkStands(k)'
  <2>1. Storing(k) /\ Busy(k) /\ ForkStands(k)
    BY <1>4, <1>8 DEF Storing, Busy, BranchesInv
  <2>2. PICK c \in Completions : c = taken[k]
    BY <2>1, Takes
  <2>3. Siblings(c)' = Siblings(c)
    BY <1>1, <1>2, <1>3, TreeKept
  <2> QED BY <1>4, <2>1, <2>2, <2>3 DEF ForkStands, Siblings
<1>9. ChainPlain'
  <2>1. IsChain' => IsChain  BY <1>1, <1>2, <1>3, TreeKept
  <2>2. Entries' = Entries  BY <1>4 DEF Entries
  <2> QED BY <1>4, <2>1, <2>2 DEF BranchesInv, ChainPlain, Storing
<1> QED BY <1>6, <1>7, <1>8, <1>9 DEF BranchesInv

\* BranchesInv is preserved when a persist begins.
LEMMA BranchesBegin ==
    ASSUME ThreadInv, BranchesInv, NEW k \in Captors, Begins(k)
    PROVE  BranchesInv'
<1>1. BranchTypeOK /\ ThreadInv' /\ Grown
  BY RowsBegin DEF ThreadInv
<1>2. UNCHANGED <<tree, thread, fork>> /\ ~Busy(k)
  BY DEF Begins
<1>3. ASSUME NEW j \in Captors
      PROVE  /\ j # k => doing'[j] = doing[j] /\ taken'[j] = taken[j] /\ known'[j] = known[j]
             /\ doing'[k] = "detect"
  BY <1>1 DEF Begins, BranchTypeOK
<1>4. (\A i \in Entries' : RowStands(i)' /\ Replied(i)') /\ Turned'
  <2>1. \A j \in Captors : doing[j] = "assistant" => j # k
    BY <1>2 DEF Busy
  <2> QED BY <1>1, <1>2, <1>3, <2>1, RowsStand
<1>5. ASSUME NEW j \in Captors, Storing(j)' PROVE Storing(j) /\ j # k
  BY <1>3, <1>5 DEF Storing
<1>6. \A j \in Captors : Storing(j)' => ForkStands(j)'
  BY <1>2, <1>3, <1>5 DEF BranchesInv, ForkStands, Siblings
<1>7. ChainPlain'
  BY <1>2, <1>5 DEF BranchesInv, ChainPlain, Entries, IsChain, Completions
<1>8. ~GoesOnBelowFork' => Comb'
  BY <1>2 DEF BranchesInv, GoesOnBelowFork, Comb, CombAt, Siblings, Completions
<1> QED BY <1>4, <1>6, <1>7, <1>8 DEF BranchesInv

\* A row and a completion of the same parent, in a tree that is a chain.
LEMMA ChainAgrees ==
    ASSUME ThreadInv, IsChain, NEW i \in Entries, NEW c \in Completions,
           thread[i].parent = tree[c].parent
    PROVE  /\ thread[i].role = "user" => thread[i].text = tree[c].prompt
           /\ thread[i].role = "assistant" => thread[i].text = c
<1>1. RowTells(i) /\ TreeTypes
  BY Types DEF ThreadInv
<1>2. \A d, e \in Completions : tree[d].parent = tree[e].parent => d = e
  BY <1>1 DEF IsChain, TreeTypes
<1> QED BY <1>1, <1>2 DEF RowTells

\* BranchesInv is preserved when a persist looks for a fork: a completion with
\* an earlier sibling finds that one's reply, which says something else.
LEMMA BranchesDetect ==
    ASSUME ThreadInv, BranchesInv, NEW k \in Captors, Detects(k)
    PROVE  BranchesInv'
<1>1. BranchTypeOK /\ RowTypes /\ TreeTypes
  BY Types DEF ThreadInv
<1>2. /\ ThreadInv' /\ Grown
      /\ \/ (\A i \in Entries : ~Differs(i, taken[k])) /\ fork'[k] = NoFork
         \/ \E i \in Entries : /\ Differs(i, taken[k])
                               /\ fork'[k] = [branch |-> <<k, taken[k]>>, from |-> i]
      /\ \A j \in Captors \ {k} : fork'[j] = fork[j]
  BY RowsDetect
<1>3. UNCHANGED <<tree, thread, taken, known>> /\ doing[k] = "detect"
      /\ doing' = [doing EXCEPT ![k] = "user"]
  BY DEF Detects
<1>4. ASSUME NEW j \in Captors, j # k PROVE doing'[j] = doing[j] /\ fork'[j] = fork[j]
  BY <1>1, <1>2, <1>3, <1>4 DEF BranchTypeOK
<1>5. (\A i \in Entries' : RowStands(i)' /\ Replied(i)') /\ Turned'
  <2>1. \A j \in Captors : doing[j] = "assistant" => j # k
    BY <1>3
  <2> QED BY <1>2, <1>3, <1>4, <2>1, RowsStand
<1>6. taken[k] \in Completions /\ \A c \in 1 .. taken[k] - 1 : HasReply(c, Len(thread))
  BY <1>3, Takes DEF Busy
<1>7. ForkStands(k)'
  <2>1. CASE (\A i \in Entries : ~Differs(i, taken[k])) /\ fork'[k] = NoFork
    <3>1. ASSUME NEW d \in Siblings(taken[k]) PROVE FALSE
      <4>1. d \in 1 .. taken[k] - 1 /\ d \in Completions /\ tree[d].parent = tree[taken[k]].parent
            /\ d # taken[k]
        BY <1>1, <1>6 DEF Siblings, TreeTypes
      <4>2. PICK i \in Entries : thread[i].role = "assistant" /\ thread[i].text = d
        BY <1>1, <1>6, <4>1 DEF HasReply, RowTypes
      <4>3. thread[i].parent = tree[taken[k]].parent
        BY <4>1, <4>2 DEF ThreadInv, RowTells
      <4>4. Differs(i, taken[k])
        BY <4>1, <4>2, <4>3 DEF Differs, Reply
      <4> QED BY <2>1, <4>4
    <3>2. Siblings(taken[k])' = Siblings(taken[k])
      BY <1>3 DEF Siblings
    <3> QED BY <2>1, <3>1, <3>2 DEF ForkStands, NoFork
  <2>2. CASE fork'[k].branch = <<k, taken[k]>>
    BY <1>3, <2>2 DEF ForkStands
  <2>3. (\E i \in Entries : fork'[k] = [branch |-> <<k, taken[k]>>, from |-> i])
        => fork'[k].branch = <<k, taken[k]>>
    OBVIOUS
  <2> QED BY <1>2, <2>1, <2>2, <2>3
<1>8. ASSUME NEW j \in Captors, j # k, Storing(j)' PROVE ForkStands(j)' /\ Storing(j)
  BY <1>3, <1>4, <1>8 DEF BranchesInv, ForkStands, Siblings, Storing
<1>9. ChainPlain'
  <2> SUFFICES ASSUME IsChain' PROVE /\ \A i \in Entries' : thread'[i].branch = Main
                                     /\ \A j \in Captors : Storing(j)' => fork'[j].branch = Main
    BY DEF ChainPlain
  <2>1. IsChain /\ Entries' = Entries  BY <1>3 DEF IsChain, Entries, Completions
  <2>2. \A i \in Entries : thread[i].branch = Main  BY <2>1 DEF BranchesInv, ChainPlain
  <2>3. ASSUME NEW i \in Entries, Differs(i, taken[k]) PROVE FALSE
    <3>1. thread[i].parent = tree[taken[k]].parent  BY <2>3 DEF Differs
    <3> QED BY <1>6, <2>1, <2>3, <3>1, ChainAgrees DEF Differs, Prompt, Reply
  <2>4. fork'[k] = NoFork  BY <1>2, <2>3
  <2>5. ASSUME NEW j \in Captors, j # k, Storing(j)' PROVE fork'[j].branch = Main
    BY <1>4, <1>8, <2>1, <2>5 DEF BranchesInv, ChainPlain
  <2> QED BY <1>3, <2>1, <2>2, <2>4, <2>5 DEF NoFork
<1>10. ~GoesOnBelowFork' => Comb'
  BY <1>3 DEF BranchesInv, GoesOnBelowFork, Comb, CombAt, Siblings, Completions
<1> QED BY <1>5, <1>7, <1>8, <1>9, <1>10 DEF BranchesInv

\* A captor that stores a reply its buckets do not hold, has no bucket for its
\* prompt either, and the other way round.
LEMMA ReplyNotBefore ==
    ASSUME ThreadInv, NEW k \in Captors, Busy(k), HasReply(taken[k], known[k])
    PROVE  HasPrompt(tree[taken[k]].prompt, known[k])
<1>1. BranchTypeOK /\ CaptorKnows(k) /\ RowTypes
  BY Types DEF ThreadInv
<1>2. known[k] \in Nat /\ known[k] <= Len(thread)
  BY <1>1 DEF BranchTypeOK, CaptorKnows
<1>3. PICK j \in 1 .. known[k] : thread[j].role = "assistant" /\ thread[j].text = taken[k]
  BY DEF HasReply
<1>4. j \in Entries  BY <1>1, <1>2 DEF RowTypes
<1>5. HasPrompt(tree[taken[k]].prompt, j - 1)
  BY <1>3, <1>4 DEF ThreadInv, RowTells, RowFollows
<1> QED BY <1>2, <1>5 DEF HasPrompt

\* A bucket is empty if no row it could hold says its text.
LEMMA EmptyBucket ==
    ASSUME NEW k \in Captors
    PROVE  /\ Bucket(k, Prompt(taken[k])) = {} <=> ~HasPrompt(tree[taken[k]].prompt, known[k])
           /\ Bucket(k, Reply(taken[k])) = {} <=> ~HasReply(taken[k], known[k])
BY DEF Bucket, HasPrompt, HasReply, Prompt, Reply

\* BranchesInv is preserved when a persist stores its prompt or its reply.
LEMMA BranchesStore ==
    ASSUME ThreadInv, BranchesInv, NEW k \in Captors, StoresPrompt(k) \/ StoresReply(k)
    PROVE  BranchesInv'
<1>1. BranchTypeOK /\ RowTypes /\ TreeTypes
  BY Types DEF ThreadInv
<1>2. Busy(k) /\ Storing(k) /\ tree' = tree /\ taken' = taken
  BY DEF StoresPrompt, StoresReply, Stores, Busy, Storing
<1>3. PICK m \in {Prompt(taken[k]), Reply(taken[k])} :
          /\ Stores(k, m)
          /\ \/ /\ m = Prompt(taken[k]) /\ doing[k] = "user"
                /\ doing' = [doing EXCEPT ![k] = "assistant"] /\ UNCHANGED <<known, fork>>
             \/ /\ m = Reply(taken[k]) /\ doing[k] = "assistant"
                /\ doing' = [doing EXCEPT ![k] = "idle"]
                /\ known' = [known EXCEPT ![k] = 0] /\ fork' = [fork EXCEPT ![k] = NoFork]
  BY DEF StoresPrompt, StoresReply
<1>4. /\ taken[k] \in Completions /\ known[k] \in 0 .. Len(thread) /\ Kept
      /\ (\E p \in Entries : Enriches(p, k, m)) \/ Inserts(k, m)
      /\ Entries' = 1 .. Len(thread)'
  <2>1. thread' \in Seq(Row)  BY <1>2, <1>3, Stored
  <2>2. Entries' = 1 .. Len(thread)'
    <3> HIDE DEF Row
    <3> QED BY <2>1 DEF Entries
  <2> QED BY <1>2, <1>3, <2>2, Stored
<1>5. ASSUME NEW j \in Captors, j # k
      PROVE  doing'[j] = doing[j] /\ known'[j] = known[j] /\ fork'[j] = fork[j]
  BY <1>1, <1>3, <1>5 DEF BranchTypeOK
<1>6. doing'[k] = IF m = Prompt(taken[k]) THEN "assistant" ELSE "idle"
  BY <1>1, <1>3 DEF BranchTypeOK, Prompt, Reply
<1>7. PICK n \in Nat : n = Len(thread) + 1
  BY <1>1 DEF RowTypes
<1>8. /\ \A i \in Entries : thread'[i].role = thread[i].role /\ thread'[i].text = thread[i].text
                            /\ thread'[i].time = thread[i].time /\ thread'[i].turn = thread[i].turn
                            /\ thread'[i].branch = thread[i].branch
      /\ \/ Entries' = Entries
         \/ Entries' = Entries \cup {n} /\ Inserts(k, m) /\ thread'[n] = NewRow(k, m)
  <2>1. CASE \E p \in Entries : Enriches(p, k, m)
    <3>1. Len(thread)' = Len(thread) /\ Entries = 1 .. Len(thread)
      BY <1>1, <2>1 DEF Enriches, RowTypes
    <3> QED BY <1>4, <2>1, <3>1 DEF Enriches
  <2>2. CASE Inserts(k, m)
    <3>1. Len(thread)' = n /\ Entries = 1 .. Len(thread) /\ Len(thread) \in Nat
      BY <1>1, <1>7, <2>2 DEF Inserts, RowTypes
    <3>2. Entries' = Entries \cup {n}
      BY <1>4, <1>7, <3>1
    <3> QED BY <1>7, <2>2, <3>2 DEF Inserts
  <2> QED BY <1>4, <2>1, <2>2
<1>9. Entries = 1 .. n - 1 /\ n \notin Entries /\ n - 1 = Len(thread)
  BY <1>1, <1>7 DEF RowTypes
<1>10. ForkStands(k) /\ \A i \in Entries : RowStands(i) /\ Replied(i)
  BY <1>2 DEF BranchesInv
<1>11. Siblings(taken[k])' = Siblings(taken[k]) /\ (IsChain' <=> IsChain)
  BY <1>2 DEF Siblings, IsChain, Completions
<1>12. ASSUME NEW i \in Entries' PROVE RowStands(i)'
  <2>1. CASE i \in Entries
    BY <1>2, <1>8, <1>10, <2>1 DEF RowStands, Siblings
  <2>2. CASE i = n /\ thread'[n] = NewRow(k, m)
    BY <1>2, <1>10, <1>11, <2>2 DEF RowStands, NewRow, ForkStands
  <2> QED BY <1>8, <2>1, <2>2
<1>13. ASSUME NEW i \in Entries' PROVE Replied(i)'
  <2> SUFFICES ASSUME thread'[i].role = "user", IsChain \/ Len(thread'[i].branch) = 2
               PROVE  \/ \E j \in Entries' : /\ i < j /\ thread'[j].role = "assistant"
                                             /\ thread'[j].text = thread'[i].time
                                             /\ thread'[j].branch = thread'[i].branch
                      \/ \E j \in Captors : /\ doing'[j] = "assistant" /\ taken'[j] = thread'[i].time
                                            /\ fork'[j].branch = thread'[i].branch
                                            /\ ~HasReply(taken[j], known[j])'
    BY <1>2, <1>11 DEF Replied
  <2>1. ASSUME NEW j \in Captors, known'[j] = known[j], ~HasReply(taken[j], known[j])
        PROVE  ~HasReply(taken[j], known[j])'
    <3>1. known[j] \in 0 .. Len(thread)
      BY <1>1 DEF ThreadInv, CaptorKnows, BranchTypeOK, RowTypes
    <3>2. \A l \in 1 .. known[j] : l \in Entries  BY <1>7, <1>9, <3>1
    <3> QED BY <1>2, <1>8, <2>1, <3>2 DEF HasReply
  <2>2. CASE i \in Entries
    <3>1. \/ \E j \in Entries : /\ i < j /\ thread[j].role = "assistant"
                                /\ thread[j].text = thread[i].time
                                /\ thread[j].branch = thread[i].branch
          \/ \E j \in Captors : /\ doing[j] = "assistant" /\ taken[j] = thread[i].time
                                /\ fork[j].branch = thread[i].branch
                                /\ ~HasReply(taken[j], known[j])
      BY <1>8, <1>10, <2>2 DEF Replied
    <3>2. CASE \E j \in Entries : /\ i < j /\ thread[j].role = "assistant"
                                  /\ thread[j].text = thread[i].time
                                  /\ thread[j].branch = thread[i].branch
      BY <1>8, <2>2, <3>2
    <3>3. ASSUME NEW j \in Captors, doing[j] = "assistant", taken[j] = thread[i].time,
                 fork[j].branch = thread[i].branch, ~HasReply(taken[j], known[j]), j # k
          PROVE  /\ doing'[j] = "assistant" /\ taken'[j] = thread'[i].time
                 /\ fork'[j].branch = thread'[i].branch /\ ~HasReply(taken[j], known[j])'
      BY <1>2, <1>5, <1>8, <2>1, <2>2, <3>3
    <3>4. ASSUME doing[k] = "assistant", taken[k] = thread[i].time,
                 fork[k].branch = thread[i].branch, ~HasReply(taken[k], known[k])
          PROVE  \E j \in Entries' : /\ i < j /\ thread'[j].role = "assistant"
                                     /\ thread'[j].text = thread'[i].time
                                     /\ thread'[j].branch = thread'[i].branch
      <4>1. m = Reply(taken[k])  BY <1>3, <3>4
      <4>2. Bucket(k, m) = {}  BY <3>4, <4>1, EmptyBucket
      <4>3. Inserts(k, m)  BY <1>4, <4>2 DEF Enriches
      <4>4. Entries' = Entries \cup {n} /\ thread'[n] = NewRow(k, m)
        <5>1. Len(thread)' = n  BY <1>7, <4>3 DEF Inserts
        <5>2. n \in Entries'  BY <1>4, <1>7, <1>9, <5>1
        <5> QED BY <1>8, <1>9, <5>2
      <4>5. i < n /\ n \in Entries'  BY <1>9, <2>2, <4>4, <1>7
      <4>6. /\ thread'[n].role = "assistant" /\ thread'[n].text = taken[k]
            /\ thread'[n].branch = fork[k].branch
        BY <4>1, <4>4 DEF NewRow, Reply
      <4>7. thread'[i].time = taken[k] /\ thread'[i].branch = fork[k].branch
        BY <1>8, <2>2, <3>4
      <4> QED BY <4>5, <4>6, <4>7
    <3> QED BY <3>1, <3>2, <3>3, <3>4
  <2>3. CASE i = n /\ Inserts(k, m) /\ thread'[n] = NewRow(k, m)
    <3>1. m = Prompt(taken[k])
      BY <1>3, <2>3 DEF NewRow, Prompt, Reply
    <3>2. ~HasReply(taken[k], known[k])
      BY <1>2, <2>3, <3>1, ReplyNotBefore, EmptyBucket DEF Inserts
    <3>3. doing'[k] = "assistant" /\ UNCHANGED <<known, fork>>
      BY <1>3, <1>6, <3>1 DEF Prompt, Reply
    <3> QED BY <1>2, <2>1, <2>3, <3>2, <3>3 DEF NewRow
  <2> QED BY <1>8, <2>2, <2>3
<1>14. Turned'
  <2> SUFFICES ASSUME NEW i \in Entries', NEW j \in Entries', i < j,
                      thread'[i].branch = thread'[j].branch
               PROVE  thread'[i].turn < thread'[j].turn
    BY DEF Turned
  <2>1. CASE i \in Entries /\ j \in Entries
    BY <1>8, <2>1 DEF BranchesInv, Turned
  <2>2. CASE i \in Entries /\ j = n /\ thread'[n] = NewRow(k, m)
    <3>1. \A l \in Entries : thread[l].turn \in 1 .. l
      BY DEF ThreadInv, RowTells
    <3>2. \A l \in Entries : thread[l].branch = fork[k].branch
              => thread[l].turn < Turn(fork[k].branch)
      BY <1>1, <3>1, TurnAfter
    <3> QED BY <1>8, <2>2, <3>2 DEF NewRow
  <2>3. CASE i = n
    BY <1>8, <1>9, <2>3
  <2> QED BY <1>8, <2>1, <2>2, <2>3
<1>15. ASSUME NEW j \in Captors, Storing(j)' PROVE Storing(j) /\ fork'[j] = fork[j]
  <2>1. CASE j = k
    <3>1. m = Prompt(taken[k])  BY <1>3, <1>6, <1>15, <2>1 DEF Storing
    <3> QED BY <1>2, <1>3, <2>1, <3>1 DEF Prompt, Reply
  <2>2. CASE j # k
    BY <1>5, <1>15, <2>2 DEF Storing
  <2> QED BY <2>1, <2>2
<1>16. \A j \in Captors : Storing(j)' => ForkStands(j)'
  BY <1>2, <1>15 DEF BranchesInv, ForkStands, Siblings
<1>17. ChainPlain'
  <2> SUFFICES ASSUME IsChain' PROVE /\ \A i \in Entries' : thread'[i].branch = Main
                                     /\ \A j \in Captors : Storing(j)' => fork'[j].branch = Main
    BY DEF ChainPlain
  <2>1. /\ \A i \in Entries : thread[i].branch = Main
        /\ \A j \in Captors : Storing(j) => fork[j].branch = Main
    BY <1>11 DEF BranchesInv, ChainPlain
  <2> QED BY <1>2, <1>8, <1>15, <2>1 DEF NewRow
<1>18. ~GoesOnBelowFork' => Comb'
  BY <1>2 DEF BranchesInv, GoesOnBelowFork, Comb, CombAt, Siblings, Completions
<1> QED BY <1>12, <1>13, <1>14, <1>16, <1>17, <1>18 DEF BranchesInv

\* BranchesInv is preserved by a backfill: it moves no row of a fork, and none
\* of a chain.
LEMMA BranchesBackfill ==
    ASSUME ThreadInv, BranchesInv, Backfills
    PROVE  BranchesInv'
<1>1. BranchTypeOK /\ RowTypes /\ TreeTypes
  BY Types DEF ThreadInv
<1>2. ThreadInv' /\ Kept
  BY RowsBackfill
<1>3. /\ Len(thread)' = Len(thread)
      /\ \A i \in Entries :
            /\ thread'[i].role = thread[i].role /\ thread'[i].text = thread[i].text
            /\ thread'[i].time = thread[i].time /\ thread'[i].turn = thread[i].turn
            /\ \/ thread'[i].branch = thread[i].branch
               \/ thread[i].branch = Main /\ thread'[i].branch = <<i>>
  BY <1>1, BackfillSteps
<1>4. UNCHANGED <<tree, taken, doing, known, fork, overlapped>>
  BY DEF Backfills
<1>5. Entries' = Entries
  <2>1. BranchTypeOK'  BY <1>2 DEF ThreadInv
  <2>2. RowTypes'  BY <2>1, Types, PTL
  <2> QED BY <1>1, <1>3, <2>2 DEF RowTypes
<1>6. /\ \A i \in Entries : RowStands(i) /\ Replied(i)
      /\ \A i \in Entries : thread[i].branch \in {Main, <<i>>} \/ Len(thread[i].branch) = 2
  <2>1. \A i \in Entries : RowStands(i) /\ Replied(i)  BY DEF BranchesInv
  <2>2. \A k, t : Len(<<k, t>>) = 2  OBVIOUS
  <2> QED BY <2>1, <2>2 DEF RowStands
<1>7. ASSUME NEW i \in Entries PROVE RowStands(i)'
  <2>1. RowStands(i)  BY <1>6
  <2>2. Siblings(thread[i].time)' = Siblings(thread[i].time)
    BY <1>3, <1>4 DEF Siblings
  <2>3. \A k, t : <<k, t>> # Main
    BY DEF Main
  <2> QED BY <1>3, <1>7, <2>1, <2>2, <2>3 DEF RowStands
\* In a chain nothing is moved.
<1>8. ASSUME IsChain, NEW i \in Entries PROVE thread'[i].branch = Main
  <2> DEFINE alike == {j \in Entries : thread[j].parent = thread[i].parent
                                     /\ thread[j].role = thread[i].role}
  <2>1. First(alike) \in alike
    <3>1. alike \subseteq Entries /\ alike # {}  BY <1>8
    <3> HIDE DEF alike
    <3> QED BY <1>1, <3>1, FirstIn
  <2>2. PICK f \in Entries : /\ f = First(alike) /\ thread[f].parent = thread[i].parent
                             /\ thread[f].role = thread[i].role
    BY <2>1
  <2>3. PICK c \in Completions : thread[i].parent = tree[c].parent
    BY <1>1 DEF ThreadInv, RowTells, RowTypes
  <2>4. thread[f].text = thread[i].text
    BY <1>1, <1>8, <2>2, <2>3, ChainAgrees DEF RowTypes
  <2>5. thread'[i] = thread[i]
    BY <2>2, <2>4 DEF Backfills
  <2> QED BY <1>8, <2>5 DEF BranchesInv, ChainPlain
<1>9. ASSUME NEW i \in Entries PROVE Replied(i)'
  <2>1. IsChain' <=> IsChain
    BY <1>4 DEF IsChain, Completions
  <2> SUFFICES ASSUME thread[i].role = "user", IsChain \/ Len(thread'[i].branch) = 2
               PROVE  \/ \E j \in Entries : /\ i < j /\ thread[j].role = "assistant"
                                            /\ thread[j].text = thread[i].time
                                            /\ thread'[j].branch = thread'[i].branch
                      \/ \E k \in Captors : /\ doing[k] = "assistant" /\ taken[k] = thread[i].time
                                            /\ fork[k].branch = thread'[i].branch
                                            /\ ~HasReply(taken[k], known[k])
    <3>1. ASSUME NEW k \in Captors PROVE HasReply(taken[k], known[k])' <=> HasReply(taken[k], known[k])
      <4>1. known[k] \in Nat /\ known[k] <= Len(thread)
        BY <1>1 DEF ThreadInv, CaptorKnows, BranchTypeOK
      <4>2. \A c : HasReply(c, known[k])' <=> HasReply(c, known[k])
        <5>1. \A l \in 1 .. known[k] : l \in Entries  BY <1>1, <4>1 DEF RowTypes
        <5> QED BY <1>3, <1>4, <5>1 DEF HasReply
      <4> QED BY <1>4, <4>2
    <3> QED BY <1>3, <1>4, <1>5, <2>1, <3>1 DEF Replied
  <2>2. thread'[i].branch = thread[i].branch
    <3>1. CASE IsChain
      BY <1>8, <3>1 DEF BranchesInv, ChainPlain
    <3>2. CASE Len(thread'[i].branch) = 2
      <4>1. thread'[i].branch # <<i>>
        <5>1. Len(<<i>>) = 1  OBVIOUS
        <5> QED BY <3>2, <5>1
      <4> QED BY <1>3, <4>1
    <3> QED BY <3>1, <3>2
  <2>3. \A j \in Entries : thread[j].branch = thread[i].branch => thread'[j].branch = thread[j].branch
    <3>1. CASE IsChain
      BY <1>8, <3>1 DEF BranchesInv, ChainPlain
    <3>2. CASE Len(thread[i].branch) = 2
      BY <1>3, <3>2 DEF Main
    <3> QED BY <2>2, <3>1, <3>2
  <2>4. Replied(i) /\ (IsChain \/ Len(thread[i].branch) = 2)
    BY <1>6, <2>2
  <2> QED BY <2>2, <2>3, <2>4 DEF Replied
<1>10. Turned'
  <2> SUFFICES ASSUME NEW i \in Entries, NEW j \in Entries, i < j,
                      thread'[i].branch = thread'[j].branch
               PROVE  thread[i].turn < thread[j].turn
    BY <1>3, <1>5 DEF Turned
  <2>1. thread[i].branch = thread[j].branch
    <3>1. <<i>> # <<j>> /\ Len(<<i>>) = 1 /\ Len(<<j>>) = 1 /\ <<i>> # Main /\ <<j>> # Main
      BY <1>1 DEF RowTypes, Main
    <3> QED BY <1>3, <1>6, <3>1
  <2> QED BY <2>1 DEF BranchesInv, Turned
<1>11. \A k \in Captors : Storing(k)' => ForkStands(k)'
  BY <1>4 DEF BranchesInv, ForkStands, Storing, Siblings
<1>12. ChainPlain'
  <2>1. IsChain' <=> IsChain
    BY <1>4 DEF IsChain, Completions
  <2> QED BY <1>4, <1>5, <1>8, <2>1 DEF BranchesInv, ChainPlain, Storing
<1>13. ~GoesOnBelowFork' => Comb'
  BY <1>4 DEF BranchesInv, GoesOnBelowFork, Comb, CombAt, Siblings, Completions
<1> QED BY <1>5, <1>7, <1>9, <1>10, <1>11, <1>12, <1>13 DEF BranchesInv

\* BranchesInv is preserved by every step.
LEMMA BranchesStep ==
    ASSUME ThreadInv, BranchesInv, BranchNext
    PROVE  BranchesInv'
BY BranchesUser, BranchesBegin, BranchesDetect, BranchesStore, BranchesBackfill DEF BranchNext

---------------------------------------------------------------------------
(* Persists that do not overlap                                            *)

\* Where no prompt is said in two places, a row has the parent of the
\* completion it was stored for.
LEMMA OwnParent ==
    ASSUME ThreadInv, ~PromptRepeats, NEW i \in Entries
    PROVE  /\ thread[i].time \in Completions
           /\ thread[i].parent = tree[thread[i].time].parent
<1>1. RowTells(i) /\ RowTypes
  BY Types DEF ThreadInv
<1>2. thread[i].time \in Completions /\ thread[i].role \in {"user", "assistant"}
  BY <1>1 DEF RowTells, RowTypes
<1>3. CASE thread[i].role = "user"
  <2>1. PICK c \in Completions : tree[c].prompt = thread[i].text /\ tree[c].parent = thread[i].parent
    BY <1>1, <1>3 DEF RowTells
  <2>2. tree[thread[i].time].prompt = tree[c].prompt
    BY <1>1, <1>3, <2>1 DEF RowTells
  <2> QED BY <1>2, <2>1, <2>2 DEF PromptRepeats
<1>4. CASE thread[i].role = "assistant"
  BY <1>1, <1>4 DEF RowTells
<1> QED BY <1>2, <1>3, <1>4

\* Nothing is left for a backfill.
LEMMA NothingMoves ==
    ASSUME ThreadInv, BranchesInv, ~PromptRepeats
    PROVE  ~Backfills
<1>1. RowTypes /\ TreeTypes /\ thread \in Seq(Row)
  BY Types, ThreadRows DEF ThreadInv
<1> DEFINE alike(i) == {j \in Entries : thread[j].parent = thread[i].parent
                                      /\ thread[j].role = thread[i].role}
<1>2. ASSUME NEW i \in Entries, thread[i].branch = Main,
             thread[i].text # thread[First(alike(i))].text
      PROVE  FALSE
  <2>1. First(alike(i)) \in alike(i) /\ \A j \in alike(i) \ {First(alike(i))} : Before(First(alike(i)), j)
    <3>1. alike(i) \subseteq Entries /\ i \in alike(i)  BY <1>2
    <3> HIDE DEF alike
    <3> QED BY <1>1, <3>1, FirstIn
  <2>2. PICK f \in Entries : /\ f = First(alike(i)) /\ thread[f].parent = thread[i].parent
                             /\ thread[f].role = thread[i].role
    BY <2>1
  <2>3. i \in alike(i) /\ i # f
    BY <1>2, <2>2
  <2>4. thread[f].time <= thread[i].time
    BY <1>1, <1>2, <2>1, <2>2, <2>3 DEF Before, RowTypes
  <2>5. Siblings(thread[i].time) = {}
    <3>1. RowStands(i)  BY <1>2 DEF BranchesInv
    <3>2. \A k, t : <<k, t>> # Main  BY DEF Main
    <3> QED BY <1>2, <3>1, <3>2 DEF RowStands
  <2>6. /\ thread[i].time \in Completions /\ thread[f].time \in Completions
        /\ tree[thread[f].time].parent = tree[thread[i].time].parent
    BY <1>2, <2>2, OwnParent
  <2>7. thread[f].time # thread[i].time
    BY <1>1, <1>2, <2>2 DEF ThreadInv, RowTells, RowTypes
  <2>8. thread[f].time \in Siblings(thread[i].time)
    BY <1>1, <2>4, <2>6, <2>7 DEF Siblings, TreeTypes
  <2> QED BY <2>5, <2>8
<1>3. ASSUME Backfills PROVE FALSE
  <2>1. thread' = [i \in Entries |->
            IF thread[i].branch = Main /\ thread[i].text # thread[First(alike(i))].text
            THEN [thread[i] EXCEPT !.branch = <<i>>,
                                   !.from = IF @ = 0 THEN First(alike(i)) ELSE @]
            ELSE thread[i]]
    BY <1>3 DEF Backfills
  <2>2. thread' = [i \in Entries |-> thread[i]]
    BY <1>2, <2>1
  <2>3. thread = [i \in Entries |-> thread[i]]
    <3> HIDE DEF Row
    <3> QED BY <1>1 DEF Entries
  <2> QED BY <1>3, <2>2, <2>3 DEF Backfills
<1> QED BY <1>3

\* That two persists ran at once is never forgotten.
LEMMA OverlapStays ==
    ASSUME BranchNext
    PROVE  overlapped => overlapped'
<1>1. CASE Continues \/ Regenerates \/ Edits \/ Backfills
  BY <1>1 DEF Continues, Regenerates, Edits, Completes, Backfills
<1>2. ASSUME NEW k \in Captors, Begins(k) PROVE overlapped => overlapped'
  BY <1>2 DEF Begins
<1>3. ASSUME NEW k \in Captors, Detects(k) PROVE overlapped' = overlapped
  BY <1>3 DEF Detects
<1>4. ASSUME NEW k \in Captors, StoresPrompt(k) \/ StoresReply(k) PROVE overlapped' = overlapped
  BY <1>4 DEF StoresPrompt, StoresReply, Stores
<1> QED BY <1>1, <1>2, <1>3, <1>4 DEF BranchNext

\* Serial holds before anything is said.
LEMMA SerialStart == BranchInit => Serial
<1> SUFFICES ASSUME BranchInit PROVE Serial  OBVIOUS
<1>1. Entries = {} /\ \A k \in Captors : doing[k] = "idle"
  BY DEF BranchInit, Entries
<1> QED BY <1>1 DEF Serial, Busy

\* Serial is preserved by a step that inserts no row and leaves the captors.
LEMMA SerialStay ==
    ASSUME RowTypes, RowTypes', Kept, Serial, Len(thread)' = Len(thread),
           UNCHANGED <<doing, known>>
    PROVE  Serial'
<1>1. Entries' = Entries
  BY DEF RowTypes
<1>2. \A i \in Entries : thread'[i].role = thread[i].role /\ thread'[i].text = thread[i].text
                         /\ thread'[i].time = thread[i].time
  BY DEF Kept
<1>3. \A k \in Captors : Busy(k)' <=> Busy(k)
  BY DEF Busy
<1>4. /\ \A j, k \in Captors : Busy(j)' /\ Busy(k)' => j = k
      /\ \A k \in Captors : doing'[k] \in {"detect", "user"} => known'[k] = Len(thread)'
  BY <1>3 DEF Serial
<1>5. \A k \in Captors : doing'[k] = "assistant" =>
          \A i \in Entries' : i > known'[k] => thread'[i].role = "user"
  BY <1>1, <1>2 DEF Serial
<1>6. \A i, j \in Entries' :
          /\ thread'[i].role = thread'[j].role /\ thread'[i].text = thread'[j].text => i = j
          /\ i < j => thread'[i].time <= thread'[j].time
  BY <1>1, <1>2 DEF Serial
<1> QED BY <1>4, <1>5, <1>6 DEF Serial

\* Serial is preserved when a persist begins that overlaps no other.
LEMMA SerialBegin ==
    ASSUME ThreadInv, Serial, NEW k \in Captors, Begins(k), ~overlapped'
    PROVE  Serial'
<1>1. BranchTypeOK
  BY DEF ThreadInv
<1>2. /\ UNCHANGED <<tree, thread, fork>> /\ \A j \in Captors \ {k} : ~Busy(j)
      /\ doing' = [doing EXCEPT ![k] = "detect"] /\ known' = [known EXCEPT ![k] = Len(thread)]
  BY DEF Begins
<1>3. \A j \in Captors : /\ doing'[j] = IF j = k THEN "detect" ELSE doing[j]
                         /\ known'[j] = IF j = k THEN Len(thread) ELSE known[j]
                         /\ doing'[j] = "idle" \/ j = k
  BY <1>1, <1>2 DEF BranchTypeOK, Busy
<1>4. Entries' = Entries
  BY <1>2 DEF Entries
<1> QED BY <1>2, <1>3, <1>4 DEF Serial, Busy

\* Serial is preserved when a persist looks for a fork.
LEMMA SerialDetect ==
    ASSUME ThreadInv, Serial, NEW k \in Captors, Detects(k)
    PROVE  Serial'
<1>1. BranchTypeOK
  BY DEF ThreadInv
<1>2. /\ UNCHANGED <<tree, thread, known>> /\ doing[k] = "detect"
      /\ doing' = [doing EXCEPT ![k] = "user"]
  BY DEF Detects
<1>3. \A j \in Captors : doing'[j] = IF j = k THEN "user" ELSE doing[j]
  BY <1>1, <1>2 DEF BranchTypeOK
<1>4. Entries' = Entries /\ \A j \in Captors : Busy(j)' <=> Busy(j)
  BY <1>2, <1>3 DEF Entries, Busy
<1>5. /\ \A i, j \in Captors : Busy(i)' /\ Busy(j)' => i = j
      /\ \A j \in Captors : doing'[j] \in {"detect", "user"} => known'[j] = Len(thread)'
  BY <1>2, <1>3, <1>4 DEF Serial
<1>6. \A j \in Captors : doing'[j] = "assistant" => doing[j] = "assistant"
  BY <1>3
<1> QED BY <1>2, <1>4, <1>5, <1>6 DEF Serial

\* No row is of a later completion than the one being stored.
LEMMA SerialStore ==
    ASSUME ThreadInv, Serial, NEW k \in Captors, StoresPrompt(k) \/ StoresReply(k)
    PROVE  Serial'
<1>1. BranchTypeOK /\ RowTypes /\ TreeTypes
  BY Types DEF ThreadInv
<1>2. Busy(k) /\ tree' = tree /\ taken' = taken
  BY DEF StoresPrompt, StoresReply, Stores, Busy
<1>3. PICK m \in {Prompt(taken[k]), Reply(taken[k])} :
          /\ Stores(k, m)
          /\ \/ /\ m = Prompt(taken[k]) /\ doing[k] = "user"
                /\ doing' = [doing EXCEPT ![k] = "assistant"] /\ UNCHANGED <<known, fork>>
             \/ /\ m = Reply(taken[k]) /\ doing[k] = "assistant"
                /\ doing' = [doing EXCEPT ![k] = "idle"]
                /\ known' = [known EXCEPT ![k] = 0] /\ fork' = [fork EXCEPT ![k] = NoFork]
  BY DEF StoresPrompt, StoresReply
<1>4. /\ taken[k] \in Completions /\ known[k] \in 0 .. Len(thread) /\ Kept
      /\ (\E p \in Entries : Enriches(p, k, m)) \/ Inserts(k, m)
  BY <1>2, <1>3, Stored
<1>5. RowTypes'
  <2>1. BranchTypeOK'  BY RowsStore DEF ThreadInv
  <2> QED BY <2>1, Types, PTL
<1>6. \A j \in Captors : /\ j # k => doing[j] = "idle"
                         /\ j # k => doing'[j] = "idle"
                         /\ doing'[k] \in {"assistant", "idle"}
  BY <1>1, <1>2, <1>3 DEF Serial, Busy, BranchTypeOK
<1>7. /\ \A i, j \in Captors : Busy(i)' /\ Busy(j)' => i = j
      /\ \A j \in Captors : doing'[j] \in {"detect", "user"} => known'[j] = Len(thread)'
      /\ \A j \in Captors : doing'[j] = "assistant" => j = k /\ m = Prompt(taken[k])
                                                       /\ known'[k] = Len(thread)
  BY <1>1, <1>3, <1>6 DEF Busy, Serial, BranchTypeOK
<1>8. \A i \in Entries : thread'[i].role = thread[i].role /\ thread'[i].text = thread[i].text
                         /\ thread'[i].time = thread[i].time
  BY <1>4 DEF Kept
<1>9. CASE \E p \in Entries : Enriches(p, k, m)
  <2>1. Entries' = Entries
    BY <1>1, <1>5, <1>9 DEF Enriches, RowTypes
  <2>2. \A i \in Entries : i <= Len(thread)  BY <1>1 DEF RowTypes
  <2>3. \A j \in Captors : doing'[j] = "assistant" =>
            \A i \in Entries' : i > known'[j] => thread'[i].role = "user"
    BY <1>1, <1>7, <2>1, <2>2 DEF RowTypes
  <2>4. \A i, j \in Entries' :
            /\ thread'[i].role = thread'[j].role /\ thread'[i].text = thread'[j].text => i = j
            /\ i < j => thread'[i].time <= thread'[j].time
    BY <1>8, <2>1 DEF Serial
  <2> QED BY <1>7, <2>3, <2>4 DEF Serial
<1>10. CASE Inserts(k, m)
  <2>1. PICK n \in Nat : n = Len(thread) + 1
    BY <1>1 DEF RowTypes
  <2>2. Len(thread)' = n /\ thread'[n] = NewRow(k, m) /\ Entries = 1 .. Len(thread)
        /\ Entries' = 1 .. Len(thread)' /\ Len(thread) \in Nat
    BY <1>1, <1>5, <1>10, <2>1 DEF Inserts, RowTypes
  <2>3. Entries' = Entries \cup {n} /\ \A i \in Entries : i < n /\ i \in Nat
    BY <2>1, <2>2
  <2>4. /\ thread'[n].role = m.role /\ thread'[n].text = m.text /\ thread'[n].time = taken[k]
    BY <2>2 DEF NewRow
\* The message is in none of the rows.
  <2>5. ASSUME NEW i \in Entries, thread[i].role = m.role, thread[i].text = m.text
        PROVE  FALSE
    <3>1. i \notin 1 .. known[k]
      BY <1>10, <2>5 DEF Inserts, Bucket
    <3>2. i > known[k]  BY <1>4, <2>2, <3>1
    <3>3. m = Reply(taken[k])
      BY <1>3, <2>2, <3>2 DEF Serial
    <3>4. doing[k] = "assistant"
      BY <1>3, <3>3 DEF Prompt, Reply
    <3> QED BY <2>5, <3>2, <3>3, <3>4 DEF Serial, Reply
  <2>6. ASSUME NEW i \in Entries, thread[i].time > taken[k] PROVE FALSE
    <3>1. HasReply(taken[k], i - 1)
      BY <1>1, <1>4, <2>6 DEF ThreadInv, RowFollows, TreeTypes, RowTypes
    <3>2. PICK j \in 1 .. i - 1 : thread[j].role = "assistant" /\ thread[j].text = taken[k]
      BY <3>1 DEF HasReply
    <3>3. j \in Entries  BY <2>2, <3>2
    <3>4. m = Prompt(taken[k])
      BY <2>5, <3>2, <3>3 DEF Reply
    <3>5. HasPrompt(tree[taken[k]].prompt, j - 1)
      BY <3>2, <3>3 DEF ThreadInv, RowFollows, RowTells
    <3>6. PICK l \in 1 .. j - 1 : thread[l].role = "user" /\ thread[l].text = tree[taken[k]].prompt
      BY <3>5 DEF HasPrompt
    <3>7. l \in Entries  BY <2>2, <3>3, <3>6
    <3> QED BY <2>5, <3>4, <3>6, <3>7 DEF Prompt
  <2>7. \A j \in Captors : doing'[j] = "assistant" =>
            \A i \in Entries' : i > known'[j] => thread'[i].role = "user"
    <3>1. ASSUME NEW i \in Entries', i > Len(thread), m = Prompt(taken[k])
          PROVE  thread'[i].role = "user"
      BY <2>1, <2>2, <2>3, <2>4, <3>1 DEF Prompt
    <3> QED BY <1>7, <3>1
  <2>8. \A i, j \in Entries' :
            /\ thread'[i].role = thread'[j].role /\ thread'[i].text = thread'[j].text => i = j
            /\ i < j => thread'[i].time <= thread'[j].time
    <3>1. \A i \in Entries : thread[i].time <= taken[k] /\ thread[i].time \in Nat
      BY <1>1, <1>4, <2>6 DEF RowTypes, TreeTypes
    <3>2. taken[k] <= taken[k]
      BY <1>1, <1>4 DEF TreeTypes
    <3>3. \A i \in Entries : ~(thread[i].role = m.role /\ thread[i].text = m.text)
      BY <2>5
    <3>4. \A i, j \in Entries :
            /\ thread[i].role = thread[j].role /\ thread[i].text = thread[j].text => i = j
            /\ i < j => thread[i].time <= thread[j].time
      BY DEF Serial
    <3> QED BY <1>8, <2>3, <2>4, <3>1, <3>2, <3>3, <3>4
  <2> QED BY <1>7, <2>7, <2>8 DEF Serial
<1> QED BY <1>4, <1>9, <1>10

\* Serial is preserved by every step that overlaps no persists.
LEMMA SerialStep ==
    ASSUME ThreadInv, BranchNext, ~overlapped => Serial
    PROVE  ~overlapped' => Serial'
<1> SUFFICES ASSUME ~overlapped' PROVE Serial'  OBVIOUS
<1>1. BranchTypeOK /\ BranchTypeOK' /\ Kept
  BY RowsStep DEF ThreadInv
<1>2. RowTypes /\ RowTypes'
  BY <1>1, Types, PTL
<1>3. Serial
  BY OverlapStays
<1>4. CASE Continues \/ Regenerates \/ Edits
  BY <1>1, <1>2, <1>3, <1>4, SerialStay, UserSteps
<1>5. CASE Backfills
  <2>1. Len(thread)' = Len(thread)  BY <1>1, <1>5, BackfillSteps
  <2>2. UNCHANGED <<doing, known>>  BY <1>5 DEF Backfills
  <2> QED BY <1>1, <1>2, <1>3, <2>1, <2>2, SerialStay
<1>6. ASSUME NEW k \in Captors, Begins(k) \/ Detects(k) \/ StoresPrompt(k) \/ StoresReply(k)
      PROVE  Serial'
  BY <1>3, <1>6, SerialBegin, SerialDetect, SerialStore
<1> QED BY <1>4, <1>5, <1>6 DEF BranchNext

\* A row that differs from a completion is of another one of the same parent.
LEMMA DiffersAside ==
    ASSUME ThreadInv, ~PromptRepeats, NEW c \in Completions, NEW i \in Entries, Differs(i, c)
    PROVE  /\ thread[i].time \in Completions /\ thread[i].time # c
           /\ tree[thread[i].time].parent = tree[c].parent
<1>1. RowTells(i) /\ RowTypes
  BY Types DEF ThreadInv
<1>2. thread[i].time \in Completions /\ tree[thread[i].time].parent = tree[c].parent
  BY OwnParent DEF Differs
<1>3. thread[i].time # c
  BY <1>1 DEF RowTells, Differs, Prompt, Reply
<1> QED BY <1>2, <1>3

\* The chain's completion beside which another one hangs has been stored.
LEMMA ChainStored ==
    ASSUME ThreadInv, BranchesInv, ~GoesOnBelowFork, NEW k \in Captors, Busy(k),
           Siblings(taken[k]) # {}
    PROVE  \E i \in Entries : Differs(i, taken[k]) /\ thread[i].time = tree[taken[k]].parent + 1
<1>1. RowTypes /\ TreeTypes
  BY Types DEF ThreadInv
<1>2. taken[k] \in Completions /\ \A c \in 1 .. taken[k] - 1 : HasReply(c, Len(thread))
  BY Takes
<1>3. PICK m \in 0 .. Len(tree) : CombAt(m)
  BY DEF BranchesInv, Comb
<1>4. PICK c \in Completions : c = tree[taken[k]].parent + 1 /\ c \in Siblings(taken[k])
                               /\ tree[c].parent = tree[taken[k]].parent
  <2>1. PICK e \in Completions : e = taken[k]  BY <1>2
  <2>2. /\ e <= m => Siblings(e) = {}
        /\ e > m => /\ tree[e].parent + 1 \in Siblings(e)
                    /\ tree[tree[e].parent + 1].parent = tree[e].parent
                    /\ tree[e].parent + 1 \in Completions
    BY <1>1, <1>3, CombSiblings
  <2>3. e > m  BY <1>1, <2>1, <2>2 DEF TreeTypes
  <2> QED BY <2>1, <2>2, <2>3
<1>5. c \in 1 .. taken[k] - 1 /\ c # taken[k]
  BY <1>1, <1>2, <1>4 DEF Siblings, TreeTypes
<1>6. PICK i \in Entries : thread[i].role = "assistant" /\ thread[i].text = c
  BY <1>1, <1>2, <1>5 DEF HasReply, RowTypes
<1>7. thread[i].time = c /\ thread[i].parent = tree[c].parent
  BY <1>6 DEF ThreadInv, RowTells
<1>8. Differs(i, taken[k])
  BY <1>4, <1>5, <1>6, <1>7 DEF Differs, Reply
<1> QED BY <1>4, <1>7, <1>8

\* The fork that is detected replaces the completion of the chain.
LEMMA ForkReplaces ==
    ASSUME ThreadInv, BranchesInv, ~GoesOnBelowFork, ~PromptRepeats, NEW k \in Captors, Busy(k),
           Siblings(taken[k]) # {},
           NEW f \in Entries, Differs(f, taken[k]),
           \A j \in Entries : Differs(j, taken[k]) => thread[f].time <= thread[j].time
    PROVE  Replaces(f, taken[k])
<1>1. RowTypes /\ TreeTypes
  BY Types DEF ThreadInv
<1>2. taken[k] \in Completions
  BY Takes
<1>3. PICK m \in 0 .. Len(tree) : CombAt(m)
  BY DEF BranchesInv, Comb
<1>4. PICK i \in Entries : Differs(i, taken[k]) /\ thread[i].time = tree[taken[k]].parent + 1
  BY ChainStored
<1>5. /\ thread[f].time \in Completions /\ tree[thread[f].time].parent = tree[taken[k]].parent
      /\ thread[f].time <= tree[taken[k]].parent + 1
  BY <1>2, <1>4, DiffersAside
<1>6. taken[k] > m
  <2>1. PICK e \in Completions : e = taken[k]  BY <1>2
  <2>2. e <= m => Siblings(e) = {}  BY <1>1, <1>3, CombSiblings
  <2> QED BY <1>1, <2>1, <2>2 DEF TreeTypes
<1>7. tree[taken[k]].parent < m /\ tree[taken[k]].parent \in Nat
  BY <1>1, <1>2, <1>3, <1>6 DEF TreeTypes, CombAt
<1>8. thread[f].time <= m /\ thread[f].time \in Nat
  BY <1>1, <1>5, <1>7 DEF TreeTypes
<1>9. thread[f].time = tree[taken[k]].parent + 1
  BY <1>3, <1>5, <1>7, <1>8 DEF CombAt
<1>10. thread[f].role = "user" => thread[f].text # tree[taken[k]].prompt
  BY DEF Differs, Prompt, Reply
<1> QED BY <1>9, <1>10 DEF Replaces

\* A completion without an earlier sibling opens no fork, unless its rows are
\* there already.
LEMMA ForkKnown ==
    ASSUME ThreadInv, Serial, ~PromptRepeats, NEW k \in Captors, doing[k] = "detect",
           Siblings(taken[k]) = {}, NEW f \in Entries, Differs(f, taken[k])
    PROVE  HasReply(taken[k], known[k])
<1>1. RowTypes /\ TreeTypes
  BY Types DEF ThreadInv
<1>2. taken[k] \in Completions
  BY Takes DEF Busy
<1>3. /\ thread[f].time \in Completions /\ thread[f].time # taken[k]
      /\ tree[thread[f].time].parent = tree[taken[k]].parent
  BY <1>2, DiffersAside
<1>4. taken[k] \in 1 .. thread[f].time - 1
  BY <1>1, <1>2, <1>3 DEF Siblings, TreeTypes
<1>5. HasReply(taken[k], f - 1)
  BY <1>4 DEF ThreadInv, RowFollows
<1>6. known[k] = Len(thread)
  BY DEF Serial
<1> QED BY <1>1, <1>5, <1>6 DEF HasReply, RowTypes

\* PlainInv holds before anything is said.
LEMMA PlainStart == BranchInit => PlainInv
<1> SUFFICES ASSUME BranchInit PROVE PlainInv  OBVIOUS
<1>1. Entries = {} /\ \A k \in Captors : ~Storing(k)
  BY DEF BranchInit, Entries, Storing
<1> QED BY <1>1, SerialStart DEF PlainInv, SortedRows, SortedForks, HungRows, HungForks

\* The replaced row stays what it was.
LEMMA ReplacesStays ==
    ASSUME TreeTypes, TreeTypes', Grown, RowTypes, RowTypes', Kept,
           NEW f, NEW c \in Completions, Replaces(f, c)
    PROVE  Replaces(f, c)'
<1>1. f \in Entries' /\ thread'[f].time = thread[f].time /\ thread'[f].role = thread[f].role
      /\ thread'[f].text = thread[f].text
  BY DEF Replaces, Kept, RowTypes
<1>2. tree'[c] = tree[c]
  BY TreeKept
<1> QED BY <1>1, <1>2 DEF Replaces

\* The rows after a step, and those being stored, where no prompt repeats.
LEMMA PlainRows ==
    ASSUME ThreadInv, BranchesInv, ~PromptRepeats, BranchNext, NEW i \in Entries'
    PROVE  \/ /\ i \in Entries /\ thread'[i].time = thread[i].time
              /\ thread'[i].branch = thread[i].branch /\ thread'[i].from = thread[i].from
           \/ \E k \in Captors :
                 /\ Storing(k) /\ ~HasReply(taken[k], known[k]) /\ i \notin Entries
                 /\ thread'[i].time = taken[k] /\ thread'[i].branch = fork[k].branch
                 /\ thread'[i].from = fork[k].from
<1>1. BranchTypeOK /\ RowTypes /\ TreeTypes /\ ~Backfills
  BY Types, NothingMoves DEF ThreadInv
<1>2. CASE thread' = thread
  BY <1>2 DEF Entries
<1>3. ASSUME NEW k \in Captors, StoresPrompt(k) \/ StoresReply(k)
      PROVE  \/ /\ i \in Entries /\ thread'[i].time = thread[i].time
                /\ thread'[i].branch = thread[i].branch /\ thread'[i].from = thread[i].from
             \/ /\ Storing(k) /\ ~HasReply(taken[k], known[k]) /\ i \notin Entries
                /\ thread'[i].time = taken[k] /\ thread'[i].branch = fork[k].branch
                /\ thread'[i].from = fork[k].from
  <2>1. Busy(k) /\ Storing(k)
    BY <1>3 DEF StoresPrompt, StoresReply, Busy, Storing
  <2>2. PICK m \in {Prompt(taken[k]), Reply(taken[k])} : Stores(k, m)
    BY <1>3 DEF StoresPrompt, StoresReply
  <2>3. (\E p \in Entries : Enriches(p, k, m)) \/ Inserts(k, m)
    BY <2>1, <2>2, Stored
  <2>4. RowTypes'
    <3>1. BranchTypeOK'  BY <1>3, RowsStore DEF ThreadInv
    <3> QED BY <3>1, Types, PTL
  <2>5. CASE \E p \in Entries : Enriches(p, k, m)
    <3>1. Entries' = Entries  BY <1>1, <2>4, <2>5 DEF RowTypes, Enriches
    <3> QED BY <2>5, <3>1 DEF Enriches
  <2>6. CASE Inserts(k, m)
    <3>1. ~HasReply(taken[k], known[k])
      BY <2>1, <2>2, <2>6, EmptyBucket, ReplyNotBefore DEF Inserts
    <3>2. Entries' = 1 .. Len(thread)' /\ Len(thread)' = Len(thread) + 1
          /\ Entries = 1 .. Len(thread) /\ Len(thread) \in Nat
      BY <1>1, <2>4, <2>6 DEF RowTypes, Inserts
    <3>3. i \in Entries \/ (i = Len(thread) + 1 /\ i \notin Entries)
      BY <3>2
    <3> QED BY <2>1, <2>6, <3>1, <3>3 DEF Inserts, NewRow
  <2> QED BY <2>3, <2>5, <2>6
<1>4. thread' = thread \/ \E k \in Captors : StoresPrompt(k) \/ StoresReply(k)
  <2>1. CASE Continues \/ Regenerates \/ Edits
    BY <2>1 DEF Continues, Regenerates, Edits, Completes
  <2>2. ASSUME NEW k \in Captors, Begins(k) \/ Detects(k) PROVE thread' = thread
    BY <2>2 DEF Begins, Detects
  <2> QED BY <1>1, <2>1, <2>2 DEF BranchNext
<1> QED BY <1>2, <1>3, <1>4

\* A persist that is storing keeps its fork, unless it just looked for one.
LEMMA PlainForks ==
    ASSUME BranchTypeOK, BranchNext, NEW k \in Captors, Storing(k)'
    PROVE  \/ /\ Storing(k) /\ fork'[k] = fork[k]
              /\ taken'[k] = taken[k] /\ known'[k] = known[k]
           \/ Detects(k)
<1>1. CASE Continues \/ Regenerates \/ Edits \/ Backfills
  BY <1>1 DEF Continues, Regenerates, Edits, Completes, Backfills, Storing
<1>2. ASSUME NEW j \in Captors, Begins(j)
      PROVE  Storing(k) /\ fork'[k] = fork[k] /\ taken'[k] = taken[k] /\ known'[k] = known[k]
  BY <1>2 DEF Begins, Storing, BranchTypeOK
<1>3. ASSUME NEW j \in Captors, j # k, Detects(j)
      PROVE  Storing(k) /\ fork'[k] = fork[k] /\ taken'[k] = taken[k] /\ known'[k] = known[k]
  <2>1. UNCHANGED <<taken, known>> /\ doing' = [doing EXCEPT ![j] = "user"]
    BY <1>3 DEF Detects
  <2>2. fork'[k] = fork[k]
    <3>1. fork' = [fork EXCEPT ![j] = NoFork]
          \/ \E i : fork' = [fork EXCEPT ![j] = [branch |-> <<j, taken[j]>>, from |-> i]]
      BY <1>3 DEF Detects
    <3> QED BY <1>3, <3>1 DEF BranchTypeOK
  <2> QED BY <1>3, <2>1, <2>2 DEF Storing, BranchTypeOK
<1>4. ASSUME NEW j \in Captors, StoresPrompt(j)
      PROVE  Storing(k) /\ fork'[k] = fork[k] /\ taken'[k] = taken[k] /\ known'[k] = known[k]
  BY <1>4 DEF StoresPrompt, Stores, Storing, BranchTypeOK
<1>5. ASSUME NEW j \in Captors, StoresReply(j)
      PROVE  Storing(k) /\ fork'[k] = fork[k] /\ taken'[k] = taken[k] /\ known'[k] = known[k]
  BY <1>5 DEF StoresReply, Stores, Storing, BranchTypeOK
<1> QED BY <1>1, <1>2, <1>3, <1>4, <1>5 DEF BranchNext

\* PlainInv is preserved by every step.
LEMMA PlainStep ==
    ASSUME ThreadInv, BranchesInv, PlainInv, BranchNext
    PROVE  PlainInv'
<1>1. BranchTypeOK /\ BranchTypeOK' /\ ThreadInv' /\ Kept /\ Grown
  BY RowsStep DEF ThreadInv
<1>2. RowTypes /\ RowTypes' /\ TreeTypes /\ TreeTypes'
  BY <1>1, Types, PTL
<1>3. /\ GoesOnBelowFork => GoesOnBelowFork'
      /\ PromptRepeats => PromptRepeats'
      /\ overlapped => overlapped'
      /\ \A c \in Completions : tree'[c] = tree[c] /\ Siblings(c)' = Siblings(c)
  BY <1>1, <1>2, TreeKept, OverlapStays
<1>4. ~overlapped' => Serial'
  BY SerialStep DEF PlainInv
\* A row that is being stored is of a completion, and of the fork that stands.
<1>5. ASSUME NEW k \in Captors, Storing(k)
      PROVE  taken[k] \in Completions /\ ForkStands(k)
  BY <1>5, Takes DEF Storing, Busy, BranchesInv
<1>6. ASSUME NEW n \in Nat, n <= Len(thread), NEW c, HasReply(c, n) PROVE HasReply(c, n)'
  BY <1>1, <1>2, <1>6, KeptRows
<1>7. ASSUME ~PromptRepeats', NEW i \in Entries' PROVE thread'[i].branch # <<i>>
  <2>1. ~PromptRepeats  BY <1>3, <1>7
  <2>2. CASE i \in Entries /\ thread'[i].branch = thread[i].branch
    BY <2>1, <2>2 DEF PlainInv
  <2>3. ASSUME NEW k \in Captors, Storing(k), thread'[i].branch = fork[k].branch
        PROVE  thread'[i].branch # <<i>>
    <3>1. \A t : <<k, t>> # <<i>>
      <4>1. \A t : Len(<<k, t>>) = 2 /\ Len(<<i>>) = 1  OBVIOUS
      <4> QED BY <4>1
    <3>2. <<i>> # Main  BY DEF Main
    <3> QED BY <1>5, <2>3, <3>1, <3>2 DEF ForkStands
  <2> QED BY <1>7, <2>1, <2>2, <2>3, PlainRows
<1>8. ASSUME ~overlapped', ~PromptRepeats' PROVE SortedRows' /\ SortedForks'
  <2>1. ~overlapped /\ ~PromptRepeats /\ Serial /\ SortedRows /\ SortedForks
    BY <1>3, <1>8 DEF PlainInv
  <2>2. ASSUME NEW i \in Entries', (Siblings(thread[i].time) = {})' PROVE thread'[i].branch = Main
    <3>1. CASE i \in Entries /\ thread'[i].time = thread[i].time
               /\ thread'[i].branch = thread[i].branch
      <4>1. PICK c \in Completions : c = thread[i].time
        BY <2>1, <3>1, OwnParent
      <4>2. Siblings(thread[i].time) = {}
        BY <1>3, <2>2, <3>1, <4>1 DEF Siblings
      <4> QED BY <2>1, <3>1, <4>2 DEF SortedRows
    <3>2. ASSUME NEW k \in Captors, Storing(k), ~HasReply(taken[k], known[k]),
                 thread'[i].time = taken[k], thread'[i].branch = fork[k].branch
          PROVE  thread'[i].branch = Main
      <4>1. PICK c \in Completions : c = taken[k]  BY <1>5, <3>2
      <4>2. Siblings(taken[k]) = {}
        BY <1>3, <2>2, <3>2, <4>1 DEF Siblings
      <4> QED BY <2>1, <3>2, <4>2 DEF SortedForks
    <3> QED BY <2>1, <3>1, <3>2, PlainRows
  <2>3. ASSUME NEW k \in Captors, Storing(k)', fork'[k].branch # Main, (Siblings(taken[k]) = {})'
        PROVE  HasReply(taken[k], known[k])'
    <3>1. CASE Storing(k) /\ fork'[k] = fork[k] /\ taken'[k] = taken[k] /\ known'[k] = known[k]
      <4>1. PICK c \in Completions : c = taken[k]  BY <1>5, <3>1
      <4>2. Siblings(taken[k]) = {}
        BY <1>3, <2>3, <3>1, <4>1 DEF Siblings
      <4>3. HasReply(taken[k], known[k])
        BY <2>1, <2>3, <3>1, <4>2 DEF SortedForks
      <4>4. known[k] \in Nat /\ known[k] <= Len(thread)
        BY <1>1 DEF ThreadInv, CaptorKnows, BranchTypeOK
      <4>5. HasReply(c, known[k])'
        <5>1. PICK n \in Nat : n = known[k] /\ n <= Len(thread)  BY <4>4
        <5>2. HasReply(c, n)'  BY <1>6, <4>1, <4>3, <5>1
        <5> QED BY <3>1, <5>1, <5>2 DEF HasReply
      <4> QED BY <3>1, <4>1, <4>5 DEF HasReply
    <3>2. CASE Detects(k)
      <4>1. UNCHANGED <<tree, thread, taken, known>> /\ doing[k] = "detect"
        BY <3>2 DEF Detects
      <4>2. Siblings(taken[k]) = {}
        BY <2>3, <4>1 DEF Siblings
      <4>3. PICK f \in Entries : Differs(f, taken[k])
        <5>1. \/ fork'[k] = NoFork
              \/ \E i \in Entries : Differs(i, taken[k])
          BY <3>2, RowsDetect
        <5>2. NoFork.branch = Main  BY DEF NoFork
        <5> QED BY <2>3, <5>1, <5>2
      <4>4. HasReply(taken[k], known[k])
        BY <2>1, <4>1, <4>2, <4>3, ForkKnown
      <4> QED BY <4>1, <4>4 DEF HasReply
    <3> QED BY <1>1, <2>3, <3>1, <3>2, PlainForks
  <2> QED BY <2>2, <2>3 DEF SortedRows, SortedForks
<1>9. ASSUME ~overlapped', ~PromptRepeats', ~GoesOnBelowFork' PROVE HungRows' /\ HungForks'
  <2>1. ~overlapped /\ ~PromptRepeats /\ ~GoesOnBelowFork /\ HungRows /\ HungForks
    BY <1>3, <1>9 DEF PlainInv
  <2>2. ASSUME NEW i \in Entries', (Siblings(thread[i].time) # {})'
        PROVE  Replaces(thread[i].from, thread[i].time)'
    <3>1. CASE i \in Entries /\ thread'[i].time = thread[i].time
               /\ thread'[i].from = thread[i].from
      <4>1. PICK c \in Completions : c = thread[i].time
        BY <2>1, <3>1, OwnParent
      <4>2. Siblings(thread[i].time) # {}
        BY <1>3, <2>2, <3>1, <4>1 DEF Siblings
      <4>3. PICK f : f = thread[i].from  OBVIOUS
      <4>4. Replaces(f, c)
        BY <2>1, <3>1, <4>1, <4>2, <4>3 DEF HungRows
      <4>5. Replaces(f, c)'
        BY <1>1, <1>2, <4>4, ReplacesStays
      <4> QED BY <3>1, <4>1, <4>3, <4>5 DEF Replaces
    <3>2. ASSUME NEW k \in Captors, Storing(k), thread'[i].time = taken[k],
                 thread'[i].from = fork[k].from
          PROVE  Replaces(thread[i].from, thread[i].time)'
      <4>1. PICK c \in Completions : c = taken[k]  BY <1>5, <3>2
      <4>2. Siblings(taken[k]) # {}
        BY <1>3, <2>2, <3>2, <4>1 DEF Siblings
      <4>3. PICK f : f = fork[k].from  OBVIOUS
      <4>4. Replaces(f, c)
        BY <2>1, <3>2, <4>1, <4>2, <4>3 DEF HungForks
      <4>5. Replaces(f, c)'
        BY <1>1, <1>2, <4>4, ReplacesStays
      <4> QED BY <3>2, <4>1, <4>3, <4>5 DEF Replaces
    <3> QED BY <2>1, <3>1, <3>2, PlainRows
  <2>3. ASSUME NEW k \in Captors, Storing(k)', (Siblings(taken[k]) # {})'
        PROVE  Replaces(fork[k].from, taken[k])'
    <3>1. CASE Storing(k) /\ fork'[k] = fork[k] /\ taken'[k] = taken[k] /\ known'[k] = known[k]
      <4>1. PICK c \in Completions : c = taken[k]  BY <1>5, <3>1
      <4>2. Siblings(taken[k]) # {}
        BY <1>3, <2>3, <3>1, <4>1 DEF Siblings
      <4>3. PICK f : f = fork[k].from  OBVIOUS
      <4>4. Replaces(f, c)
        BY <2>1, <3>1, <4>1, <4>2, <4>3 DEF HungForks
      <4>5. Replaces(f, c)'
        BY <1>1, <1>2, <4>4, ReplacesStays
      <4> QED BY <3>1, <4>1, <4>3, <4>5 DEF Replaces
    <3>2. CASE Detects(k)
      <4>1. UNCHANGED <<tree, thread, taken, known>> /\ doing[k] = "detect" /\ Busy(k)
        BY <3>2 DEF Detects, Busy
      <4>2. Siblings(taken[k]) # {}
        BY <2>3, <4>1 DEF Siblings
      <4>3. \E i \in Entries : Differs(i, taken[k])
        BY <2>1, <4>1, <4>2, ChainStored
      <4>4. PICK f \in Entries :
                /\ Differs(f, taken[k])
                /\ \A j \in Entries : Differs(j, taken[k]) => thread[f].time <= thread[j].time
                /\ fork'[k] = [branch |-> <<k, taken[k]>>, from |-> f]
        BY <3>2, <4>3, RowsDetect
      <4>5. Replaces(f, taken[k])
        BY <2>1, <4>1, <4>2, <4>4, ForkReplaces
      <4> QED BY <4>1, <4>4, <4>5 DEF Replaces, Entries
    <3> QED BY <1>1, <2>3, <3>1, <3>2, PlainForks
  <2> QED BY <2>2, <2>3 DEF HungRows, HungForks
<1> QED BY <1>4, <1>7, <1>8, <1>9 DEF PlainInv

\* The inductive invariant of the captured conversation: its rows tell what was
\* said and in which order, its branches stand as the tree of completions says,
\* and without overlaps and repeated prompts every message is stored once, on the
\* branch it belongs to.
THEOREM BranchInvariant == BranchSpec => [](ThreadInv /\ BranchesInv /\ PlainInv)
<1>1. BranchInit => ThreadInv /\ BranchesInv /\ PlainInv
  BY RowsStart, BranchesStart, PlainStart
<1>2. ASSUME ThreadInv /\ BranchesInv /\ PlainInv, UNCHANGED branchVars
      PROVE  (ThreadInv /\ BranchesInv /\ PlainInv)'
  <2>1. UNCHANGED <<tree, thread, taken, doing, known, fork, overlapped>>
    BY <1>2 DEF branchVars
  <2>2. ThreadInv'
    BY <1>2, <2>1 DEF ThreadInv, BranchTypeOK, RowTells, RowFollows, CaptorKnows, Busy, HasReply,
                      HasPrompt, Entries, Completions, Branches
  <2>3. BranchesInv'
    BY <1>2, <2>1 DEF BranchesInv, GoesOnBelowFork, Comb, CombAt, RowStands, Replied, Turned, Storing,
                      ForkStands, ChainPlain, IsChain, Siblings, HasReply, Entries, Completions
  <2>4. PlainInv'
    BY <1>2, <2>1 DEF PlainInv, Serial, PromptRepeats, SortedRows, SortedForks, HungRows, HungForks,
                      GoesOnBelowFork, Replaces, Storing, Busy, Siblings, HasReply, Entries, Completions
  <2> QED BY <2>2, <2>3, <2>4
<1>3. ThreadInv /\ BranchesInv /\ PlainInv /\ BranchNext => (ThreadInv /\ BranchesInv /\ PlainInv)'
  BY RowsStep, BranchesStep, PlainStep
<1> QED BY <1>1, <1>2, <1>3, PTL DEF BranchSpec

\* The variables keep their types: a row carries a branch that exists and the
\* completion, role and turn that persist_result gave it.
THEOREM BranchTypes == BranchSpec => []BranchTypeOK
<1>1. ThreadInv => BranchTypeOK  BY DEF ThreadInv
<1> QED BY <1>1, BranchInvariant, PTL

---------------------------------------------------------------------------
(* The collapsed view                                                      *)

Later(b, i) == {j \in Selected(b) : Before(i, j)}
Shown(b) == {i \in Selected(b) : \/ Later(b, i) = {}
                                 \/ thread[First(Later(b, i))].role # thread[i].role}

\* The collapsed view in terms of the rows shown and the row at each place.
LEMMA CollapsedAs ==
    ASSUME NEW b
    PROVE  Collapsed(b) =
               [n \in 1 .. Cardinality(Shown(b)) |->
                   thread[CHOOSE i \in Shown(b) :
                             Cardinality(Shown(b) \cap Later(b, i)) = Cardinality(Shown(b)) - n].text]
BY DEF Collapsed, Shown, Later

\* Rows are finite in number, and none only if there are no rows.
LEMMA SomeRows ==
    ASSUME RowTypes, NEW S, S \subseteq Entries
    PROVE  IsFiniteSet(S) /\ Cardinality(S) \in Nat /\ (Cardinality(S) = 0 <=> S = {})
<1>1. IsFiniteSet(1 .. Len(thread))
  BY FS_Interval DEF RowTypes
<1>2. IsFiniteSet(S)
  BY <1>1, FS_Subset DEF RowTypes
<1> QED BY <1>2, FS_CardinalityType, FS_EmptySet

\* The view ends with the last row of the selection.
LEMMA LastShown ==
    ASSUME RowTypes, NEW b, Selected(b) \subseteq Entries, NEW x \in Selected(b),
           \A j \in Selected(b) : ~Before(x, j),
           \A j \in Selected(b) : j # x => Before(j, x)
    PROVE  Last(Collapsed(b)) = thread[x].text
<1> DEFINE N == Cardinality(Shown(b))
           nth == CHOOSE i \in Shown(b) : Cardinality(Shown(b) \cap Later(b, i)) = N - N
<1>1. Later(b, x) = {} /\ x \in Shown(b)
  BY DEF Later, Shown
<1>2. Shown(b) \subseteq Entries
  BY DEF Shown
<1>3. N \in Nat /\ N # 0
  BY <1>1, <1>2, SomeRows
<1>4. Cardinality(Shown(b) \cap Later(b, x)) = 0
  <2>1. Shown(b) \cap Later(b, x) = {}  BY <1>1
  <2> QED BY <2>1, FS_EmptySet
<1>5. nth \in Shown(b) /\ Cardinality(Shown(b) \cap Later(b, nth)) = 0
  <2>1. N - N = 0  BY <1>3
  <2> HIDE DEF N
  <2> QED BY <1>1, <1>4, <2>1
<1> HIDE DEF nth
<1>6. nth = x
  <2>1. Shown(b) \cap Later(b, nth) = {}
    BY <1>2, <1>5, SomeRows
  <2>2. nth \in Selected(b)  BY <1>5 DEF Shown
  <2> QED BY <1>1, <2>1, <2>2 DEF Later
<1>7. Collapsed(b) = [n \in 1 .. N |->
          thread[CHOOSE i \in Shown(b) : Cardinality(Shown(b) \cap Later(b, i)) = N - n].text]
  BY CollapsedAs
<1>8. Len(Collapsed(b)) = N /\ Collapsed(b)[N] = thread[nth].text
  <2> HIDE DEF N
  <2> QED BY <1>3, <1>7 DEF nth
<1> QED BY <1>6, <1>8 DEF Last

\* The newest row of a branch that is used is one of its rows, and is not older
\* than any of them.
LEMMA NewestOn ==
    ASSUME ThreadInv, NEW i \in Entries
    PROVE  /\ \E j \in On(thread[i].branch) : Newest(thread[i].branch) = thread[j].time
           /\ \A j \in On(thread[i].branch) : thread[j].time <= Newest(thread[i].branch)
<1> DEFINE b == thread[i].branch
           T == {thread[j].time : j \in On(b)}
<1>1. RowTypes /\ TreeTypes
  BY Types DEF ThreadInv
<1>2. T \subseteq 0 .. Len(tree)
  BY <1>1 DEF ThreadInv, RowTells, TreeTypes, On
<1>3. T # {}
  <2>1. i \in On(b)  BY DEF On
  <2> QED BY <2>1
<1>4. Newest(b) = Max(T)  BY DEF Newest
<1>5. Len(tree) \in Nat  BY <1>1 DEF TreeTypes
<1> HIDE DEF T
<1>6. Max(T) \in T /\ \A t \in T : t <= Max(T)
  BY <1>2, <1>3, <1>5, MaxIn
<1> QED BY <1>4, <1>6 DEF T

\* Once all is persisted, every reply is there and the branches that win have
\* rows of the completion the user has before her.
LEMMA AllStored ==
    ASSUME ThreadInv, Settled, Entries # {}
    PROVE  /\ Tip \in Completions
           /\ \A c \in Completions :
                 \E i \in Entries : thread[i].role = "assistant" /\ thread[i].text = c /\ thread[i].time = c
<1>1. RowTypes /\ TreeTypes
  BY Types DEF ThreadInv
<1>2. PICK k \in Captors : CaptorKnows(k) /\ ~Busy(k) /\ taken[k] = Len(tree)
  BY DEF ThreadInv, Settled
<1>3. ASSUME NEW c \in Completions
      PROVE  \E i \in Entries : thread[i].role = "assistant" /\ thread[i].text = c /\ thread[i].time = c
  <2>1. HasReply(c, Len(thread))
    BY <1>1, <1>2 DEF CaptorKnows, TreeTypes
  <2>2. PICK i \in Entries : thread[i].role = "assistant" /\ thread[i].text = c
    BY <1>1, <2>1 DEF HasReply, RowTypes
  <2> QED BY <2>2 DEF ThreadInv, RowTells
<1>4. Tip \in Completions
  <2>1. PICK i \in Entries : TRUE  OBVIOUS
  <2>2. thread[i].time \in Completions  BY <2>1 DEF ThreadInv, RowTells
  <2> QED BY <1>1, <2>2 DEF TreeTypes, Tip
<1> QED BY <1>3, <1>4

\* A winner is the branch of a row of the completion the user has before her.
LEMMA WinnerRow ==
    ASSUME ThreadInv, Settled, Entries # {}, NEW b \in Winners
    PROVE  \E i \in Entries : thread[i].branch = b /\ thread[i].time = Tip
<1>1. RowTypes /\ TreeTypes
  BY Types DEF ThreadInv
<1>2. PICK r \in Entries : thread[r].time = Tip
  BY AllStored
<1>3. PICK i \in Entries : thread[i].branch = b /\ Newest(thread[r].branch) <= Newest(b)
  BY DEF Winners
<1>4. PICK j \in On(b) : Newest(b) = thread[j].time
  BY <1>3, NewestOn
<1>5. Tip <= Newest(thread[r].branch) /\ Newest(thread[r].branch) \in Nat
  <2>1. r \in On(thread[r].branch)  BY DEF On
  <2>2. PICK l \in On(thread[r].branch) : Newest(thread[r].branch) = thread[l].time
    BY NewestOn
  <2> QED BY <1>1, <1>2, <2>1, <2>2, NewestOn DEF On, RowTypes
<1>6. thread[j].time <= Tip /\ j \in Entries
  BY <1>1, <1>4 DEF ThreadInv, RowTells, TreeTypes, Tip, On
<1>7. thread[j].time = Tip
  BY <1>1, <1>3, <1>4, <1>5, <1>6 DEF RowTypes, TreeTypes, Tip
<1> QED BY <1>4, <1>6, <1>7 DEF On

\* Either the tree is a chain and all is on the main branch, or the branch is
\* that of the completion itself.
LEMMA WinnerIs ==
    ASSUME ThreadInv, BranchesInv, Settled, Entries # {}, ~GoesOnBelowFork, NEW b \in Winners
    PROVE  \/ IsChain /\ b = Main /\ On(Main) = Entries
           \/ /\ ~IsChain /\ Siblings(Tip) # {} /\ b # Main /\ Len(b) = 2
              /\ On(b) # {} /\ \A i \in On(b) : thread[i].time = Tip
<1>1. RowTypes /\ TreeTypes
  BY Types DEF ThreadInv
<1>2. PICK i \in Entries : thread[i].branch = b /\ thread[i].time = Tip
  BY WinnerRow
<1>3. Tip \in Completions
  BY AllStored
<1>4. PICK m \in 0 .. Len(tree) : CombAt(m)
  BY DEF BranchesInv, Comb
<1>5. CASE IsChain
  <2>1. b = Main /\ On(Main) = Entries
    BY <1>2, <1>5 DEF BranchesInv, ChainPlain, On
  <2> QED BY <1>5, <2>1
<1>6. CASE ~IsChain
  <2>1. m < Tip
    BY <1>1, <1>4, <1>6 DEF IsChain, TreeTypes, Tip, CombAt
  <2>2. Siblings(Tip) # {}
    <3>1. Tip > m  BY <1>1, <2>1 DEF TreeTypes, Tip
    <3> QED BY <1>1, <1>3, <1>4, <3>1, CombSiblings
  <2>3. RowStands(i)
    BY DEF BranchesInv
  <2>4. PICK k \in Captors : b = <<k, Tip>>
    BY <1>2, <2>2, <2>3 DEF RowStands
  <2>5. Len(b) = 2 /\ b # Main
    BY <2>4 DEF Main
  <2>6. ASSUME NEW j \in On(b) PROVE thread[j].time = Tip
    <3>1. j \in Entries /\ thread[j].branch = b  BY DEF On
    <3>2. RowStands(j)  BY <3>1 DEF BranchesInv
    <3>3. <<j>> # b
      <4>1. Len(<<j>>) = 1  OBVIOUS
      <4> QED BY <2>5, <4>1
    <3>4. PICK l \in Captors : thread[j].branch = <<l, thread[j].time>>
      BY <2>5, <3>1, <3>2, <3>3 DEF RowStands
    <3>5. <<k, Tip>> = <<l, thread[j].time>>  BY <2>4, <3>1, <3>4
    <3> QED BY <3>5
  <2>7. On(b) # {}
    BY <1>2 DEF On
  <2> QED BY <1>6, <2>2, <2>5, <2>6, <2>7
<1> QED BY <1>5, <1>6

\* The last row of the branch that wins is the reply the user has before her.
LEMMA WinnerEnds ==
    ASSUME ThreadInv, BranchesInv, Settled, Entries # {}, ~GoesOnBelowFork, NEW b \in Winners
    PROVE  \E x \in On(b) :
              /\ thread[x].role = "assistant" /\ thread[x].text = Tip /\ thread[x].time = Tip
              /\ \A j \in On(b) : thread[j].time = Tip => j <= x
<1>1. RowTypes /\ TreeTypes
  BY Types DEF ThreadInv
<1> DEFINE S == {i \in On(b) : thread[i].time = Tip}
<1>2. S \subseteq 0 .. Len(thread) /\ S # {}
  <2>1. \A i \in S : i \in Entries  BY DEF On
  <2>2. S # {}  BY WinnerRow DEF On
  <2> QED BY <1>1, <2>1, <2>2 DEF RowTypes
<1>3. PICK x \in S : \A j \in S : j <= x
  <2>1. Len(thread) \in Nat  BY <1>1 DEF RowTypes
  <2> HIDE DEF S
  <2> QED BY <1>2, <2>1, NatMax
<1>4. x \in Entries /\ thread[x].branch = b /\ thread[x].time = Tip
  BY <1>3 DEF On
<1>5. RowTells(x) /\ Replied(x)
  BY <1>4 DEF ThreadInv, BranchesInv
<1>6. thread[x].role # "user"
  <2>1. ASSUME thread[x].role = "user" PROVE FALSE
    <3>1. IsChain \/ Len(thread[x].branch) = 2
      BY <1>4, WinnerIs
    <3>2. \A k \in Captors : doing[k] # "assistant"
      BY DEF Settled, Busy
    <3>3. PICK j \in Entries : /\ x < j /\ thread[j].role = "assistant"
                               /\ thread[j].text = thread[x].time
                               /\ thread[j].branch = thread[x].branch
      BY <1>5, <2>1, <3>1, <3>2 DEF Replied
    <3>4. thread[j].time = Tip
      BY <1>4, <3>3 DEF ThreadInv, RowTells
    <3>5. j <= x
      BY <1>3, <1>4, <3>3, <3>4 DEF On
    <3> QED BY <1>1, <1>4, <3>3, <3>5 DEF RowTypes
  <2> QED BY <2>1
<1>7. thread[x].role = "assistant"
  BY <1>1, <1>4, <1>6 DEF RowTypes
<1>8. thread[x].text = Tip
  BY <1>4, <1>5, <1>7 DEF RowTells
<1>9. x \in On(b) /\ \A j \in On(b) : thread[j].time = Tip => j <= x
  BY <1>3
<1> QED BY <1>4, <1>7, <1>8, <1>9

\* The view never ends with anything but the reply before the user.
LEMMA EndsWithTip ==
    ASSUME ThreadInv, BranchesInv, Settled, Entries # {}, ~GoesOnBelowFork, NEW b \in Winners
    PROVE  Last(Collapsed(b)) = Tip
<1>1. RowTypes /\ TreeTypes
  BY Types DEF ThreadInv
<1>2. PICK x \in On(b) :
          /\ thread[x].role = "assistant" /\ thread[x].text = Tip /\ thread[x].time = Tip
          /\ \A j \in On(b) : thread[j].time = Tip => j <= x
  BY WinnerEnds
<1>3. Selected(b) \subseteq Entries /\ x \in Selected(b)
  BY <1>2 DEF Selected, Prefix, On
<1>4. ASSUME NEW j \in Selected(b)
      PROVE  thread[j].time < Tip \/ (thread[j].time = Tip /\ j \in On(b))
  <2>1. thread[j].time <= Tip /\ thread[j].time \in Nat /\ Tip \in Nat /\ j \in Entries
    BY <1>1, <1>3 DEF ThreadInv, RowTells, TreeTypes, RowTypes, Tip
  <2>2. CASE IsChain /\ b = Main /\ On(Main) = Entries
    BY <2>1, <2>2
  <2>3. CASE Siblings(Tip) # {} /\ b # Main
    <3>1. CASE j \in On(b)  BY <2>1, <3>1
    <3>2. CASE j \notin On(b)
      <4>1. j \in Entries /\ thread[j].branch = Main
        BY <2>3, <3>2 DEF Selected, Prefix, On
      <4>2. RowStands(j)  BY <4>1 DEF BranchesInv
      <4>3. Siblings(thread[j].time) = {}
        <5>1. \A k, t : <<k, t>> # Main  BY DEF Main
        <5> QED BY <4>1, <4>2, <5>1 DEF RowStands
      <4>4. thread[j].time # Tip  BY <2>3, <4>3
      <4> QED BY <2>1, <4>4
    <3> QED BY <3>1, <3>2
  <2> QED BY <2>2, <2>3, WinnerIs
<1>5. \A j \in Selected(b) : /\ ~Before(x, j)
                             /\ j # x => Before(j, x)
  <2>1. ASSUME NEW j \in Selected(b) PROVE ~Before(x, j) /\ (j # x => Before(j, x))
    <3>1. j \in Entries /\ x \in Entries /\ thread[x].time = Tip /\ thread[x].branch = b
      BY <1>2, <1>3 DEF On
    <3>2. CASE thread[j].time < Tip
      BY <1>1, <3>1, <3>2 DEF Before, RowTypes
    <3>3. CASE thread[j].time = Tip /\ j \in On(b)
      <4>1. j <= x  BY <1>2, <3>3
      <4>2. j # x => thread[j].turn < thread[x].turn
        BY <1>1, <3>1, <3>3, <4>1 DEF BranchesInv, Turned, On, RowTypes
      <4> QED BY <1>1, <3>1, <3>3, <4>1, <4>2 DEF Before, RowTypes
    <3> QED BY <1>4, <3>2, <3>3
  <2> QED BY <2>1
<1> QED BY <1>1, <1>2, <1>3, <1>5, LastShown

\* The order of the rows is strict and transitive.
LEMMA BeforeOrder ==
    ASSUME RowTypes
    PROVE  /\ \A i, j \in Entries : Before(i, j) => ~Before(j, i)
           /\ \A i \in Entries : ~Before(i, i)
           /\ \A i, j, l \in Entries : Before(i, j) /\ Before(j, l) => Before(i, l)
BY DEF RowTypes, Before

\* A selection of N rows, those at pos, in order and of alternating roles, and
\* of at most one more, which the last but one of them hides.
Enumerates(b, N, pos) ==
    /\ N \in Nat /\ N >= 2 /\ Selected(b) \subseteq Entries
    /\ pos \in [1 .. N -> Selected(b)]
    /\ \A n, p \in 1 .. N : n < p => Before(pos[n], pos[p])
    /\ \A n \in 1 .. N - 1 : thread[pos[n]].role # thread[pos[n + 1]].role
    /\ \A h \in Selected(b) : (\A n \in 1 .. N : pos[n] # h) =>
          /\ thread[h].role = thread[pos[N - 1]].role /\ Before(h, pos[N - 1])
          /\ \A n \in 1 .. N - 2 : Before(pos[n], h)
          /\ \A g \in Selected(b) : (\A n \in 1 .. N : pos[n] # g) => g = h

\* A selection whose rows are pos, in order and of alternating roles, but for
\* one that the last prompt or reply hides, shows their texts (the nth of Collapsed).
LEMMA Enumerated ==
    ASSUME RowTypes, NEW b, NEW N, NEW pos, Enumerates(b, N, pos)
    PROVE  Collapsed(b) = [n \in 1 .. N |-> thread[pos[n]].text]
<1> USE DEF Enumerates
<1> DEFINE Hidden(h) == h \in Selected(b) /\ \A n \in 1 .. N : pos[n] # h
           Rows(n) == {pos[p] : p \in n + 1 .. N}
<1>0. /\ \A n \in 1 .. N : pos[n] \in Selected(b) /\ pos[n] \in Entries
      /\ \A h \in Selected(b) : h \in Entries
  OBVIOUS
<1>1. /\ \A i, j \in Entries : Before(i, j) => ~Before(j, i)
      /\ \A i \in Entries : ~Before(i, i)
      /\ \A i, j, l \in Entries : Before(i, j) /\ Before(j, l) => Before(i, l)
  BY BeforeOrder
<1>2. \A n, p \in 1 .. N : Before(pos[n], pos[p]) => n < p
  <2>1. ASSUME NEW n \in 1 .. N, NEW p \in 1 .. N, Before(pos[n], pos[p]), ~(n < p) PROVE FALSE
    <3>1. n = p \/ p < n  BY <2>1
    <3> QED BY <1>0, <1>1, <2>1, <3>1
  <2> QED BY <2>1
<1>3. ASSUME NEW n \in 1 .. N, n # N PROVE pos[n] \in Shown(b)
  <2> DEFINE y == First(Later(b, pos[n]))
  <2>0. n + 1 \in 1 .. N /\ n \in 1 .. N - 1 /\ n < n + 1  BY <1>3
  <2>1. pos[n + 1] \in Later(b, pos[n])
    BY <1>0, <2>0 DEF Later
  <2>2. y \in Later(b, pos[n]) /\ \A j \in Later(b, pos[n]) \ {y} : Before(y, j)
    <3>1. Later(b, pos[n]) \subseteq Entries  BY DEF Later
    <3> QED BY <2>1, <3>1, FirstIn
  <2> HIDE DEF y
  <2>3. y \in Selected(b) /\ Before(pos[n], y) /\ (y = pos[n + 1] \/ Before(y, pos[n + 1]))
    BY <2>1, <2>2 DEF Later
  <2>4. CASE y = pos[n + 1]
    <3>1. thread[y].role # thread[pos[n]].role  BY <2>0, <2>4
    <3> QED BY <1>0, <3>1 DEF Shown, y
  <2>5. ASSUME NEW p \in 1 .. N, y = pos[p], y # pos[n + 1] PROVE FALSE
    <3>1. n < p /\ p < n + 1  BY <1>2, <2>0, <2>3, <2>5
    <3> QED BY <3>1
  <2>6. CASE Hidden(y)
    <3>1. /\ thread[y].role = thread[pos[N - 1]].role /\ Before(y, pos[N - 1])
          /\ \A p \in 1 .. N - 2 : Before(pos[p], y)
      BY <2>6
    <3>2. y \in Entries /\ pos[n] \in Entries /\ pos[N - 1] \in Entries /\ pos[n + 1] \in Entries
      BY <1>0, <2>0, <2>3
    <3>3. n + 1 \notin 1 .. N - 2
      BY <1>1, <2>0, <2>3, <2>6, <3>1, <3>2
    <3>4. n # N - 1
      BY <1>1, <2>3, <3>1, <3>2
    <3>5. n = N - 2  BY <1>3, <3>3, <3>4
    <3>6. n + 1 = N - 1  BY <3>5
    <3>7. thread[y].role # thread[pos[n]].role  BY <2>0, <3>1, <3>6
    <3> QED BY <1>0, <3>7 DEF Shown, y
  <2> QED BY <2>3, <2>4, <2>5, <2>6
<1>4. pos[N] \in Shown(b) /\ Later(b, pos[N]) = {}
  <2>1. ASSUME NEW j \in Later(b, pos[N]) PROVE FALSE
    <3>1. j \in Selected(b) /\ Before(pos[N], j) /\ j \in Entries  BY <1>0 DEF Later
    <3>2. CASE Hidden(j)
      <4>1. Before(j, pos[N - 1])  BY <3>2
      <4>2. Before(pos[N - 1], pos[N])  OBVIOUS
      <4>3. pos[N - 1] \in Entries /\ pos[N] \in Entries  BY <1>0
      <4> QED BY <1>1, <3>1, <4>1, <4>2, <4>3
    <3>3. ASSUME NEW p \in 1 .. N, j = pos[p] PROVE FALSE
      BY <1>2, <3>1, <3>3
    <3> QED BY <3>1, <3>2, <3>3
  <2> QED BY <1>0, <2>1 DEF Shown
<1>5. ASSUME NEW h \in Shown(b), Hidden(h) PROVE FALSE
  <2> DEFINE y == First(Later(b, h))
  <2>1. /\ thread[h].role = thread[pos[N - 1]].role /\ Before(h, pos[N - 1])
        /\ \A p \in 1 .. N - 2 : Before(pos[p], h)
        /\ \A g \in Selected(b) : Hidden(g) => g = h
    BY <1>5
  <2>2. N - 1 \in 1 .. N /\ pos[N - 1] \in Later(b, h) /\ h \in Entries
    BY <1>0, <1>5, <2>1 DEF Later
  <2>3. y \in Later(b, h) /\ \A j \in Later(b, h) \ {y} : Before(y, j)
    <3>1. Later(b, h) \subseteq Entries  BY DEF Later
    <3> QED BY <2>2, <3>1, FirstIn
  <2> HIDE DEF y
  <2>4. y \in Selected(b) /\ Before(h, y) /\ (y = pos[N - 1] \/ Before(y, pos[N - 1]))
    BY <2>2, <2>3 DEF Later
  <2>5. ~Hidden(y)
    BY <1>1, <2>1, <2>2, <2>4
  <2>6. PICK p \in 1 .. N : y = pos[p]
    BY <2>4, <2>5
  <2>7. p \notin 1 .. N - 2
    BY <1>0, <1>1, <2>1, <2>2, <2>4, <2>6
  <2>8. p # N
    BY <1>2, <2>2, <2>4, <2>6
  <2>9. p = N - 1  BY <2>7, <2>8
  <2>10. thread[y].role = thread[h].role  BY <2>1, <2>6, <2>9
  <2>11. Later(b, h) # {}  BY <2>2
  <2> QED BY <1>5, <2>10, <2>11 DEF Shown, y
<1>6. Shown(b) = Rows(0)
  <2>1. ASSUME NEW i \in Shown(b) PROVE i \in Rows(0)
    <3>1. i \in Selected(b) /\ ~Hidden(i)  BY <1>5 DEF Shown
    <3>2. PICK p \in 1 .. N : i = pos[p]  BY <3>1
    <3> QED BY <3>2
  <2>2. ASSUME NEW p \in 0 + 1 .. N PROVE pos[p] \in Shown(b)
    BY <1>3, <1>4, <2>2
  <2> QED BY <2>1, <2>2
<1>7. ASSUME NEW n \in 0 .. N PROVE Cardinality(Rows(n)) = N - n
  <2> DEFINE f == [p \in n + 1 .. N |-> pos[p]]
  <2>1. f \in [n + 1 .. N -> Rows(n)]  OBVIOUS
  <2>2. \A p, q \in n + 1 .. N : p # q => pos[p] # pos[q]
    <3>1. ASSUME NEW p \in n + 1 .. N, NEW q \in n + 1 .. N, p # q, pos[p] = pos[q] PROVE FALSE
      <4>1. p \in 1 .. N /\ q \in 1 .. N /\ (p < q \/ q < p)  BY <3>1
      <4> QED BY <1>0, <1>1, <3>1, <4>1
    <3> QED BY <3>1
  <2>3. \A t \in Rows(n) : \E p \in n + 1 .. N : f[p] = t  OBVIOUS
  <2>4. f \in Bijection(n + 1 .. N, Rows(n))
    BY <2>1, <2>2, <2>3 DEF Bijection, Injection, Surjection, IsInjective
  <2>5. IsFiniteSet(n + 1 .. N) /\ Cardinality(n + 1 .. N) = N - n
    <3>1. n + 1 \in Int /\ N \in Int /\ n <= N  OBVIOUS
    <3>2. /\ IsFiniteSet(n + 1 .. N)
          /\ Cardinality(n + 1 .. N) = IF n + 1 > N THEN 0 ELSE N - (n + 1) + 1
      BY <3>1, FS_Interval
    <3> QED BY <3>2
  <2>6. ExistsBijection(n + 1 .. N, Rows(n))
    BY <2>4 DEF ExistsBijection
  <2> HIDE DEF Rows
  <2> QED BY <2>5, <2>6, FS_Bijection
<1>8. Cardinality(Shown(b)) = N
  <2>1. 0 \in 0 .. N /\ N - 0 = N  OBVIOUS
  <2> HIDE DEF Rows
  <2> QED BY <1>6, <1>7, <2>1
<1>9. ASSUME NEW n \in 1 .. N PROVE Shown(b) \cap Later(b, pos[n]) = Rows(n)
  <2>1. ASSUME NEW i \in Shown(b) \cap Later(b, pos[n]) PROVE i \in Rows(n)
    <3>1. PICK p \in 1 .. N : i = pos[p]  BY <1>6
    <3>2. n < p  BY <1>2, <3>1 DEF Later
    <3> QED BY <3>1, <3>2
  <2>2. ASSUME NEW p \in n + 1 .. N PROVE pos[p] \in Shown(b) \cap Later(b, pos[n])
    <3>1. p \in 1 .. N /\ n < p  OBVIOUS
    <3>2. pos[p] \in Shown(b)  BY <1>6, <3>1
    <3> QED BY <1>0, <3>1, <3>2 DEF Later
  <2> QED BY <2>1, <2>2
<1> HIDE DEF Rows
<1>10. ASSUME NEW n \in 1 .. N PROVE Cardinality(Shown(b) \cap Later(b, pos[n])) = N - n
  <2>1. n \in 0 .. N  OBVIOUS
  <2>2. Cardinality(Rows(n)) = N - n  BY <1>7, <2>1
  <2> QED BY <1>9, <2>2
<1> DEFINE nth(n) == CHOOSE i \in Shown(b) : Cardinality(Shown(b) \cap Later(b, i))
                                                   = Cardinality(Shown(b)) - n
<1>11. ASSUME NEW n \in 1 .. N PROVE nth(n) = pos[n]
  <2>1. pos[n] \in Shown(b)  BY <1>6 DEF Rows
  <2>2. ASSUME NEW i \in Shown(b), Cardinality(Shown(b) \cap Later(b, i)) = N - n PROVE i = pos[n]
    <3>1. PICK p \in 1 .. N : i = pos[p]  BY <1>6 DEF Rows
    <3>2. Cardinality(Shown(b) \cap Later(b, i)) = N - p  BY <1>10, <3>1
    <3>3. p = n  BY <2>2, <3>2
    <3> QED BY <3>1, <3>3
  <2>3. (CHOOSE i \in Shown(b) : Cardinality(Shown(b) \cap Later(b, i)) = N - n) = pos[n]
    BY <1>10, <2>1, <2>2
  <2> QED BY <1>8, <2>3
<1>12. Collapsed(b) = [n \in 1 .. Cardinality(Shown(b)) |-> thread[nth(n)].text]
  BY CollapsedAs
<1> HIDE DEF nth
<1> QED BY <1>8, <1>11, <1>12

---------------------------------------------------------------------------
(* The whole path                                                          *)

\* Everything is persisted, and nothing disturbed it.
PlainDone ==
    /\ ThreadInv /\ BranchesInv /\ Settled /\ Entries # {} /\ ~GoesOnBelowFork
    /\ ~EditedIsRegenerated /\ ~PromptRepeats /\ Serial /\ SortedRows /\ HungRows

\* The rows of a completion of the chain.
Asked(c) == CHOOSE i \in Entries : thread[i].role = "user" /\ thread[i].time = c
Told(c)  == CHOOSE i \in Entries : thread[i].role = "assistant" /\ thread[i].time = c

\* Of a completion the rows stored are its prompt and its reply, in that order.
LEMMA PairRows ==
    ASSUME PlainDone, NEW m \in 0 .. Len(tree), CombAt(m), NEW c \in Completions, c <= m
    PROVE  /\ Asked(c) \in On(Main) /\ thread[Asked(c)].role = "user"
           /\ thread[Asked(c)].time = c /\ thread[Asked(c)].text = tree[c].prompt
           /\ Told(c) \in On(Main) /\ thread[Told(c)].role = "assistant"
           /\ thread[Told(c)].time = c /\ thread[Told(c)].text = c
           /\ Asked(c) < Told(c) /\ Before(Asked(c), Told(c))
           /\ \A i \in Entries : thread[i].time = c => i \in {Asked(c), Told(c)}
<1>1. RowTypes /\ TreeTypes /\ ThreadInv /\ BranchesInv /\ Serial
  BY Types DEF PlainDone, ThreadInv
<1>2. PICK a \in Entries : thread[a].role = "assistant" /\ thread[a].text = c /\ thread[a].time = c
  BY AllStored DEF PlainDone
<1>3. HasPrompt(tree[c].prompt, a - 1)
  BY <1>1, <1>2 DEF ThreadInv, RowFollows
<1>4. PICK u \in Entries : u < a /\ thread[u].role = "user" /\ thread[u].text = tree[c].prompt
  BY <1>1, <1>3 DEF HasPrompt, RowTypes
<1>5. thread[u].time = c
  <2>1. thread[u].time \in Completions /\ tree[thread[u].time].prompt = tree[c].prompt
    BY <1>1, <1>4 DEF ThreadInv, RowTells
  <2>2. tree[thread[u].time].parent = tree[c].parent
    BY <2>1 DEF PlainDone, PromptRepeats
  <2>3. thread[u].time <= c
    BY <1>1, <1>2, <1>4 DEF Serial
  <2>4. thread[u].time <= m
    BY <1>1, <2>1, <2>3 DEF TreeTypes
  <2>5. tree[thread[u].time].parent = thread[u].time - 1 /\ tree[c].parent = c - 1
    BY <2>1, <2>4 DEF CombAt
  <2>6. thread[u].time \in Nat /\ c \in Nat  BY <1>1, <2>1 DEF TreeTypes
  <2>7. thread[u].time - 1 = c - 1  BY <2>2, <2>5
  <2> QED BY <2>6, <2>7
<1>6. ASSUME NEW i \in Entries, thread[i].time = c
      PROVE  /\ thread[i].role = "user" => i = u
             /\ thread[i].role = "assistant" => i = a
             /\ thread[i].role \in {"user", "assistant"}
  BY <1>1, <1>2, <1>4, <1>6 DEF ThreadInv, RowTells, Serial, RowTypes
<1>7. Asked(c) = u /\ Told(c) = a
  BY <1>2, <1>4, <1>5, <1>6 DEF Asked, Told
<1>8. Siblings(c) = {}
  BY <1>1, CombSiblings
<1>9. thread[u].branch = Main /\ thread[a].branch = Main
  BY <1>2, <1>5, <1>8 DEF PlainDone, SortedRows
<1>10. thread[u].turn < thread[a].turn
  BY <1>1, <1>4, <1>9 DEF BranchesInv, Turned
<1>11. u \in On(Main) /\ a \in On(Main) /\ Before(u, a)
  BY <1>2, <1>5, <1>9, <1>10 DEF On, Before
<1> QED BY <1>2, <1>4, <1>5, <1>6, <1>7, <1>11

\* The main branch holds the chain, in order.
LEMMA MainRows ==
    ASSUME PlainDone, NEW m \in 0 .. Len(tree), CombAt(m)
    PROVE  /\ \A i \in On(Main) :
                 /\ i \in Entries /\ thread[i].time \in Completions /\ thread[i].time <= m
                 /\ i \in {Asked(thread[i].time), Told(thread[i].time)}
           /\ \A i, j \in On(Main) : /\ thread[i].turn < thread[j].turn <=> i < j
                                     /\ thread[i].time < thread[j].time => i < j
                                     /\ i < j => thread[i].time <= thread[j].time
<1>1. RowTypes /\ TreeTypes /\ ThreadInv /\ BranchesInv /\ Serial
  BY Types DEF PlainDone, ThreadInv
<1>2. ASSUME NEW i \in On(Main)
      PROVE  /\ i \in Entries /\ thread[i].time \in Completions /\ thread[i].time <= m
             /\ i \in {Asked(thread[i].time), Told(thread[i].time)}
  <2>1. i \in Entries /\ thread[i].branch = Main  BY DEF On
  <2>2. PICK c \in Completions : c = thread[i].time
    BY <1>1, <2>1 DEF ThreadInv, RowTells
  <2>3. Siblings(c) = {}
    <3>1. RowStands(i)  BY <1>1, <2>1 DEF BranchesInv
    <3>2. \A k, t : <<k, t>> # Main  BY DEF Main
    <3> QED BY <2>1, <2>2, <3>1, <3>2 DEF RowStands
  <2>4. ~(c > m)
    BY <1>1, <2>3, CombSiblings
  <2>5. c <= m  BY <1>1, <2>4 DEF TreeTypes
  <2> QED BY <2>1, <2>2, <2>5, PairRows
<1>3. ASSUME NEW i \in On(Main), NEW j \in On(Main)
      PROVE  /\ thread[i].turn < thread[j].turn <=> i < j
             /\ thread[i].time < thread[j].time => i < j
             /\ i < j => thread[i].time <= thread[j].time
  <2>1. i \in Entries /\ j \in Entries /\ thread[i].branch = Main /\ thread[j].branch = Main
    BY DEF On
  <2>2. i \in Nat /\ j \in Nat /\ thread[i].turn \in Nat /\ thread[j].turn \in Nat
        /\ thread[i].time \in Nat /\ thread[j].time \in Nat
    BY <1>1, <2>1 DEF RowTypes
  <2>3. /\ i < j => thread[i].turn < thread[j].turn
        /\ j < i => thread[j].turn < thread[i].turn
    BY <1>1, <2>1 DEF BranchesInv, Turned
  <2>4. /\ i < j => thread[i].time <= thread[j].time
        /\ j < i => thread[j].time <= thread[i].time
    BY <1>1, <2>1 DEF Serial
  <2> QED BY <2>2, <2>3, <2>4
<1> QED BY <1>2, <1>3

Half(n) == (n + 1) \div 2

\* The nth of 2 * N rows is one of the two of the completion Half(n).
LEMMA Halves ==
    ASSUME NEW N \in Nat, NEW n \in 1 .. 2 * N
    PROVE  /\ Half(n) \in 1 .. N
           /\ n = 2 * Half(n) \/ n = 2 * Half(n) - 1
BY DEF Half

\* A selection that consists of the rows of the chain down to the parent of
\* the user's completion and the two of that one, and perhaps of a prompt h
\* that its prompt w hides, shows her path.
LEMMA ShowsPath ==
    ASSUME PlainDone, NEW m \in 0 .. Len(tree), CombAt(m),
           NEW b, Selected(b) \subseteq Entries,
           NEW d \in 0 .. m, d = tree[Tip].parent,
           NEW w \in Selected(b), thread[w].role = "user", thread[w].text = tree[Tip].prompt,
           NEW x \in Selected(b), thread[x].role = "assistant", thread[x].text = Tip,
           Before(w, x),
           \A c \in 1 .. d : /\ Asked(c) \in Selected(b) /\ Told(c) \in Selected(b)
                             /\ Before(Told(c), w),
           NEW h \in Entries, thread[h].role = "user", h = w \/ Before(h, w),
           \A c \in 1 .. d : Before(Told(c), h),
           \A i \in Selected(b) : \/ i \in {w, x, h}
                                  \/ \E c \in 1 .. d : i \in {Asked(c), Told(c)}
    PROVE  IsCurrentPath(Collapsed(b))
<1> DEFINE N == 2 * (d + 1)
           ask(c) == IF c = d + 1 THEN w ELSE Asked(c)
           tell(c) == IF c = d + 1 THEN x ELSE Told(c)
           pos == [n \in 1 .. N |-> IF n = 2 * Half(n) THEN tell(Half(n)) ELSE ask(Half(n))]
<1>1. RowTypes /\ TreeTypes
  BY Types DEF PlainDone, ThreadInv
<1>2. /\ \A i, j \in Entries : Before(i, j) => ~Before(j, i)
      /\ \A i \in Entries : ~Before(i, i)
      /\ \A i, j, l \in Entries : Before(i, j) /\ Before(j, l) => Before(i, l)
  BY <1>1, BeforeOrder
<1>3. d \in Nat /\ N \in Nat /\ N >= 2
  OBVIOUS
<1>4. \A c \in 1 .. d : c \in Completions /\ c <= m
  BY <1>1 DEF TreeTypes
<1>5. ASSUME NEW c \in 1 .. d
      PROVE  /\ thread[Asked(c)].role = "user" /\ thread[Asked(c)].text = tree[c].prompt
             /\ thread[Asked(c)].time = c
             /\ thread[Told(c)].role = "assistant" /\ thread[Told(c)].text = c
             /\ thread[Told(c)].time = c
             /\ Before(Asked(c), Told(c))
  BY <1>4, PairRows
<1>6. ASSUME NEW c \in 1 .. d + 1
      PROVE  /\ ask(c) \in Selected(b) /\ tell(c) \in Selected(b)
             /\ thread[ask(c)].role = "user" /\ thread[tell(c)].role = "assistant"
             /\ Before(ask(c), tell(c))
  <2>1. CASE c = d + 1  BY <2>1
  <2>2. CASE c # d + 1
    <3>1. c \in 1 .. d  BY <2>2
    <3> QED BY <1>5, <2>2, <3>1
  <2> QED BY <2>1, <2>2
<1>7. ASSUME NEW c \in 1 .. d + 1, NEW e \in 1 .. d + 1, c < e PROVE Before(tell(c), ask(e))
  <2>1. c \in 1 .. d /\ tell(c) = Told(c)  BY <1>7
  <2>2. CASE e = d + 1  BY <2>1, <2>2
  <2>3. CASE e # d + 1
    <3>1. e \in 1 .. d /\ ask(e) = Asked(e)  BY <2>3
    <3>2. thread[Told(c)].time < thread[Asked(e)].time  BY <1>5, <1>7, <2>1, <3>1
    <3> QED BY <2>1, <3>1, <3>2 DEF Before
  <2> QED BY <2>2, <2>3
<1> HIDE DEF ask, tell
<1>8. ASSUME NEW n \in 1 .. N
      PROVE  /\ Half(n) \in 1 .. d + 1 /\ n \in Nat
             /\ \/ n = 2 * Half(n) /\ pos[n] = tell(Half(n))
                \/ n = 2 * Half(n) - 1 /\ pos[n] = ask(Half(n))
  <2>1. d + 1 \in Nat  OBVIOUS
  <2>2. /\ Half(n) \in 1 .. d + 1
        /\ n = 2 * Half(n) \/ n = 2 * Half(n) - 1
    BY <2>1, Halves
  <2> QED BY <2>2
<1>9. \A c \in 1 .. d + 1 : /\ 2 * c \in 1 .. N /\ pos[2 * c] = tell(c)
                            /\ 2 * c - 1 \in 1 .. N /\ pos[2 * c - 1] = ask(c)
  <2>1. ASSUME NEW c \in 1 .. d + 1
        PROVE  /\ 2 * c \in 1 .. N /\ pos[2 * c] = tell(c)
               /\ 2 * c - 1 \in 1 .. N /\ pos[2 * c - 1] = ask(c)
    <3>1. 2 * c \in 1 .. N /\ 2 * c - 1 \in 1 .. N  OBVIOUS
    <3>2. Half(2 * c) = c /\ Half(2 * c - 1) = c  BY DEF Half
    <3> QED BY <3>1, <3>2
  <2> QED BY <2>1
<1>10. pos \in [1 .. N -> Selected(b)]
  <2>1. \A n \in 1 .. N : pos[n] \in Selected(b)  BY <1>6, <1>8
  <2> QED BY <2>1
<1>11. pos[N] = x /\ pos[N - 1] = w
  <2>1. d + 1 \in 1 .. d + 1 /\ N = 2 * (d + 1)  OBVIOUS
  <2>2. pos[2 * (d + 1)] = tell(d + 1) /\ pos[2 * (d + 1) - 1] = ask(d + 1)  BY <1>9, <2>1
  <2> QED BY <2>1, <2>2 DEF ask, tell
<1> HIDE DEF pos
<1>12. ASSUME NEW n \in 1 .. N, NEW p \in 1 .. N, n < p PROVE Before(pos[n], pos[p])
  <2> DEFINE k == Half(n)
             l == Half(p)
  <2>1. /\ k \in 1 .. d + 1 /\ n \in Nat
        /\ (n = 2 * k /\ pos[n] = tell(k)) \/ (n = 2 * k - 1 /\ pos[n] = ask(k))
    BY <1>8
  <2>2. /\ l \in 1 .. d + 1 /\ p \in Nat
        /\ (p = 2 * l /\ pos[p] = tell(l)) \/ (p = 2 * l - 1 /\ pos[p] = ask(l))
    BY <1>8
  <2> HIDE DEF k, l
  <2>3. /\ ask(k) \in Entries /\ tell(k) \in Entries /\ ask(l) \in Entries /\ tell(l) \in Entries
        /\ Before(ask(k), tell(k)) /\ Before(ask(l), tell(l))
    BY <1>6, <2>1, <2>2
  <2>4. CASE k = l
    <3>1. n = 2 * k - 1 /\ p = 2 * l  BY <1>3, <1>12, <2>1, <2>2, <2>4
    <3>2. pos[n] = ask(k) /\ pos[p] = tell(k)  BY <1>3, <2>1, <2>2, <2>4, <3>1
    <3> QED BY <2>3, <3>2
  <2>5. CASE k < l
    <3>1. Before(tell(k), ask(l))  BY <1>7, <2>1, <2>2, <2>5
    <3>2. Before(ask(k), ask(l))  BY <1>2, <2>3, <3>1
    <3>3. Before(ask(k), tell(l)) /\ Before(tell(k), tell(l))  BY <1>2, <2>3, <3>1, <3>2
    <3> QED BY <2>1, <2>2, <3>1, <3>2, <3>3
  <2>6. k <= l  BY <1>3, <1>12, <2>1, <2>2
  <2>7. k = l \/ k < l  BY <1>3, <2>1, <2>2, <2>6
  <2> QED BY <2>4, <2>5, <2>7
<1>13. ASSUME NEW n \in 1 .. N - 1 PROVE thread[pos[n]].role # thread[pos[n + 1]].role
  <2> DEFINE k == Half(n)
             l == Half(n + 1)
  <2>0. n \in 1 .. N /\ n + 1 \in 1 .. N  BY <1>3
  <2>1. /\ k \in 1 .. d + 1 /\ n \in Nat
        /\ (n = 2 * k /\ pos[n] = tell(k)) \/ (n = 2 * k - 1 /\ pos[n] = ask(k))
    BY <1>8, <2>0
  <2>2. /\ l \in 1 .. d + 1
        /\ (n + 1 = 2 * l /\ pos[n + 1] = tell(l)) \/ (n + 1 = 2 * l - 1 /\ pos[n + 1] = ask(l))
    BY <1>8, <2>0
  <2> HIDE DEF k, l
  <2>3. ~(n = 2 * k /\ n + 1 = 2 * l) /\ ~(n = 2 * k - 1 /\ n + 1 = 2 * l - 1)
    BY <1>3, <2>1, <2>2
  <2>4. /\ thread[ask(k)].role = "user" /\ thread[tell(k)].role = "assistant"
        /\ thread[ask(l)].role = "user" /\ thread[tell(l)].role = "assistant"
    BY <1>6, <2>1, <2>2
  <2> QED BY <2>1, <2>2, <2>3, <2>4
\* The only row that is not enumerated is the hidden one.
<1>14. ASSUME NEW i \in Selected(b), \A n \in 1 .. N : pos[n] # i PROVE i = h /\ h # w
  <2>1. N \in 1 .. N /\ N - 1 \in 1 .. N  BY <1>3
  <2>2. i # x /\ i # w  BY <1>11, <1>14, <2>1
  <2>3. ASSUME NEW c \in 1 .. d PROVE i # Asked(c) /\ i # Told(c)
    <3>1. c \in 1 .. d + 1 /\ c # d + 1  OBVIOUS
    <3>2. pos[2 * c] = Told(c) /\ pos[2 * c - 1] = Asked(c)  BY <1>9, <3>1 DEF ask, tell
    <3> QED BY <1>9, <1>14, <3>1, <3>2
  <2> QED BY <2>2, <2>3
<1>15. ASSUME NEW i \in Selected(b), \A n \in 1 .. N : pos[n] # i
       PROVE  /\ thread[i].role = thread[pos[N - 1]].role /\ Before(i, pos[N - 1])
              /\ \A n \in 1 .. N - 2 : Before(pos[n], i)
              /\ \A g \in Selected(b) : (\A n \in 1 .. N : pos[n] # g) => g = i
  <2>1. i = h /\ h # w  BY <1>14, <1>15
  <2>2. ASSUME NEW n \in 1 .. N - 2 PROVE Before(pos[n], h)
    <3> DEFINE k == Half(n)
    <3>1. n \in 1 .. N /\ n <= 2 * d  BY <1>3
    <3>2. /\ k \in 1 .. d + 1 /\ n \in Nat
          /\ (n = 2 * k /\ pos[n] = tell(k)) \/ (n = 2 * k - 1 /\ pos[n] = ask(k))
      BY <1>8, <3>1
    <3> HIDE DEF k
    <3>3. k \in 1 .. d /\ k # d + 1
      <4>1. d \in Nat /\ k \in Nat /\ n \in Nat /\ 1 <= k /\ n <= 2 * d /\ 2 * k - 1 <= n
        BY <1>3, <3>1, <3>2
      <4> QED BY <4>1
    <3>4. ask(k) = Asked(k) /\ tell(k) = Told(k)  BY <3>3 DEF ask, tell
    <3>5. Before(Told(k), h) /\ Before(Asked(k), Told(k))  BY <1>5, <3>3
    <3>6. Asked(k) \in Entries /\ Told(k) \in Entries  BY <3>3
    <3> QED BY <1>2, <3>2, <3>4, <3>5, <3>6
  <2> QED BY <1>11, <1>14, <2>1, <2>2
<1>16. Collapsed(b) = [n \in 1 .. N |-> thread[pos[n]].text]
  <2>1. pos \in [1 .. N -> Selected(b)]  BY <1>10
  <2>2. \A n, p \in 1 .. N : n < p => Before(pos[n], pos[p])  BY <1>12
  <2>3. \A n \in 1 .. N - 1 : thread[pos[n]].role # thread[pos[n + 1]].role  BY <1>13
  <2>4. \A i \in Selected(b) : (\A n \in 1 .. N : pos[n] # i) =>
            /\ thread[i].role = thread[pos[N - 1]].role /\ Before(i, pos[N - 1])
            /\ \A n \in 1 .. N - 2 : Before(pos[n], i)
            /\ \A g \in Selected(b) : (\A n \in 1 .. N : pos[n] # g) => g = i
    BY <1>15
  <2> HIDE DEF N
  <2>5. Enumerates(b, N, pos)  BY <1>3, <2>1, <2>2, <2>3, <2>4 DEF Enumerates
  <2> QED BY <1>1, <2>5, Enumerated
<1> DEFINE s == Collapsed(b)
<1>17. \A c \in 1 .. d + 1 : s[2 * c] = thread[tell(c)].text /\ s[2 * c - 1] = thread[ask(c)].text
  BY <1>9, <1>16
<1>18. Len(s) = N /\ Len(s) \div 2 = d + 1
  <2>1. Len(s) = N  BY <1>3, <1>16
  <2>2. N \div 2 = d + 1  OBVIOUS
  <2> QED BY <2>1, <2>2
<1> HIDE DEF s
<1>19. /\ s[2 * (d + 1)] = Tip /\ s[2 * (d + 1) - 1] = tree[Tip].prompt
       /\ \A c \in 1 .. d : s[2 * c] = c /\ s[2 * c - 1] = tree[c].prompt
  <2>1. s[2 * (d + 1)] = Tip /\ s[2 * (d + 1) - 1] = tree[Tip].prompt
    <3>1. d + 1 \in 1 .. d + 1 /\ tell(d + 1) = x /\ ask(d + 1) = w  BY DEF ask, tell
    <3> QED BY <1>17, <3>1
  <2>2. ASSUME NEW c \in 1 .. d PROVE s[2 * c] = c /\ s[2 * c - 1] = tree[c].prompt
    <3>1. c \in 1 .. d + 1 /\ c # d + 1  OBVIOUS
    <3>2. tell(c) = Told(c) /\ ask(c) = Asked(c)  BY <3>1 DEF ask, tell
    <3>3. s[2 * c] = thread[tell(c)].text /\ s[2 * c - 1] = thread[ask(c)].text  BY <1>17, <3>1
    <3> QED BY <1>5, <3>2, <3>3
  <2> QED BY <2>1, <2>2
<1>20. Tip \in Completions
  BY AllStored DEF PlainDone
<1>21. ASSUME NEW n \in 1 .. d + 1
       PROVE  /\ s[2 * n] \in Completions /\ s[2 * n - 1] = tree[s[2 * n]].prompt
              /\ tree[s[2 * n]].parent = IF n = 1 THEN 0 ELSE s[2 * n - 2]
  <2>1. n # 1 => s[2 * n - 2] = n - 1
    <3>1. n # 1 => n - 1 \in 1 .. d /\ 2 * (n - 1) = 2 * n - 2  OBVIOUS
    <3> QED BY <1>19, <3>1
  <2>2. CASE n = d + 1
    <3>1. s[2 * n] = Tip /\ s[2 * n - 1] = tree[Tip].prompt  BY <1>19, <2>2
    <3>2. d = IF n = 1 THEN 0 ELSE s[2 * n - 2]  BY <2>1, <2>2
    <3> QED BY <1>20, <3>1, <3>2
  <2>3. CASE n # d + 1
    <3>1. n \in 1 .. d  BY <2>3
    <3>2. s[2 * n] = n /\ s[2 * n - 1] = tree[n].prompt /\ tree[n].parent = n - 1
      BY <1>4, <1>19, <3>1 DEF CombAt
    <3>3. n \in Completions /\ n - 1 = IF n = 1 THEN 0 ELSE s[2 * n - 2]
      BY <1>4, <2>1, <3>1
    <3> QED BY <3>2, <3>3
  <2> QED BY <2>2, <2>3
<1>22. Len(s) = 2 * (d + 1) /\ d + 1 # 0  BY <1>18
<1> QED BY <1>18, <1>19, <1>21, <1>22 DEF IsCurrentPath, s

\* In a chain the main branch is the path.
LEMMA ChainShown ==
    ASSUME PlainDone, IsChain, On(Main) = Entries
    PROVE  IsCurrentPath(Collapsed(Main))
<1>1. RowTypes /\ TreeTypes
  BY Types DEF PlainDone, ThreadInv
<1>2. Tip \in Completions /\ Tip \in Nat /\ Tip = Len(tree) /\ Tip # 0
  BY <1>1, AllStored DEF PlainDone, TreeTypes, Tip
<1>3. CombAt(Tip) /\ Tip \in 0 .. Len(tree)
  <2>1. \A c \in Completions : c <= Tip  BY <1>1, <1>2 DEF TreeTypes
  <2> QED BY <1>2, <2>1 DEF IsChain, CombAt
<1> DEFINE d == Tip - 1
           w == Asked(Tip)
           x == Told(Tip)
<1>4. d \in 0 .. Tip /\ d = tree[Tip].parent
  BY <1>2 DEF IsChain
<1>5. ASSUME NEW c \in Completions
      PROVE  /\ Asked(c) \in Entries /\ thread[Asked(c)].role = "user"
             /\ thread[Asked(c)].time = c /\ thread[Asked(c)].text = tree[c].prompt
             /\ Told(c) \in Entries /\ thread[Told(c)].role = "assistant"
             /\ thread[Told(c)].time = c /\ thread[Told(c)].text = c
             /\ Before(Asked(c), Told(c))
             /\ \A i \in Entries : thread[i].time = c => i \in {Asked(c), Told(c)}
  <2>1. c <= Tip  BY <1>1, <1>2 DEF TreeTypes
  <2> QED BY <1>3, <2>1, PairRows DEF On
<1>6. Selected(Main) = Entries
  BY DEF Selected
<1>7. \A c \in 1 .. d : c \in Completions /\ c < Tip
  BY <1>1, <1>2 DEF TreeTypes
<1>8. ASSUME NEW c \in 1 .. d PROVE Before(Told(c), w)
  <2>1. thread[Told(c)].time = c /\ thread[w].time = Tip  BY <1>2, <1>5, <1>7
  <2> QED BY <1>7, <2>1 DEF Before
<1>9. ASSUME NEW i \in Entries
      PROVE  i \in {w, x, w} \/ \E c \in 1 .. d : i \in {Asked(c), Told(c)}
  <2>1. PICK c \in Completions : c = thread[i].time
    BY DEF PlainDone, ThreadInv, RowTells
  <2>2. i \in {Asked(c), Told(c)}  BY <1>5, <2>1
  <2>3. c = Tip \/ c \in 1 .. d  BY <1>1, <1>2, <2>1 DEF TreeTypes
  <2> QED BY <2>2, <2>3
<1>10. /\ w \in Entries /\ thread[w].role = "user" /\ thread[w].text = tree[Tip].prompt
       /\ x \in Entries /\ thread[x].role = "assistant" /\ thread[x].text = Tip /\ Before(w, x)
  BY <1>2, <1>5
<1>11. \A c \in 1 .. d : Asked(c) \in Entries /\ Told(c) \in Entries
  BY <1>5, <1>7
<1> HIDE DEF d, w, x
<1>12. Selected(Main) \subseteq Entries /\ w \in Selected(Main) /\ x \in Selected(Main)
       /\ (w = w \/ Before(w, w))
  BY <1>6, <1>10
<1> QED BY <1>3, <1>4, <1>6, <1>8, <1>9, <1>10, <1>11, <1>12, ShowsPath

\* Beside the chain the fork is the user's completion, and the prefix is what
\* comes before the one it replaces.
LEMMA ForkShown ==
    ASSUME PlainDone, NEW b \in Winners, ~IsChain, Siblings(Tip) # {}, b # Main, Len(b) = 2,
           \A i \in On(b) : thread[i].time = Tip
    PROVE  IsCurrentPath(Collapsed(b))
<1>1. RowTypes /\ TreeTypes /\ ThreadInv /\ BranchesInv /\ Serial
  BY Types DEF PlainDone, ThreadInv
<1>2. Tip \in Completions /\ Tip \in Nat /\ Tip = Len(tree)
  BY <1>1, AllStored DEF PlainDone, TreeTypes, Tip
<1>3. PICK m \in 0 .. Len(tree) : CombAt(m)
  BY DEF PlainDone, BranchesInv, Comb, CombAt
<1>4. PICK d \in Nat : d = tree[Tip].parent
  BY <1>1, <1>2 DEF TreeTypes
<1>5. PICK e \in Completions : /\ e = d + 1 /\ e <= m /\ e < Tip /\ tree[e].parent = d
                               /\ e \in Siblings(Tip) /\ d \in 0 .. m
  <2>1. ~(Tip <= m)  BY <1>1, <1>2, <1>3, CombSiblings
  <2>2. Tip > m  BY <1>1, <1>2, <2>1 DEF TreeTypes
  <2>3. /\ d + 1 \in Siblings(Tip) /\ tree[d + 1].parent = d
        /\ d + 1 \in Completions /\ d + 1 <= m
    BY <1>1, <1>2, <1>3, <1>4, <2>2, CombSiblings
  <2>4. m \in Nat  BY <1>1 DEF TreeTypes
  <2> QED BY <1>4, <2>2, <2>3, <2>4, <1>2
<1>6. PICK x \in On(b) : thread[x].role = "assistant" /\ thread[x].text = Tip /\ thread[x].time = Tip
  BY WinnerEnds DEF PlainDone
<1>7. x \in Entries /\ thread[x].branch = b  BY DEF On
<1>8. PICK w \in Entries : w < x /\ thread[w].role = "user" /\ thread[w].text = tree[Tip].prompt
  <2>1. HasPrompt(tree[Tip].prompt, x - 1)
    BY <1>1, <1>6, <1>7 DEF ThreadInv, RowFollows
  <2> QED BY <1>1, <1>7, <2>1 DEF HasPrompt, RowTypes
\* What is known of the rows of e, the completion of the chain that is replaced.
<1>9. /\ Asked(e) \in On(Main) /\ thread[Asked(e)].role = "user"
      /\ thread[Asked(e)].time = e /\ thread[Asked(e)].text = tree[e].prompt
      /\ Told(e) \in On(Main) /\ thread[Told(e)].role = "assistant"
      /\ thread[Told(e)].time = e /\ Asked(e) < Told(e)
      /\ Asked(e) \in Entries /\ Told(e) \in Entries
      /\ \A i \in Entries : thread[i].time = e => i \in {Asked(e), Told(e)}
  BY <1>3, <1>5, PairRows DEF On
<1>10. thread[w].time = Tip \/ w = Asked(e)
  <2>1. PICK t \in Completions : t = thread[w].time /\ tree[t].prompt = tree[Tip].prompt
    BY <1>1, <1>8 DEF ThreadInv, RowTells
  <2>2. tree[t].parent = d
    BY <1>2, <1>4, <2>1 DEF PlainDone, PromptRepeats
  <2>3. t <= Tip /\ t > d
    BY <1>1, <1>6, <1>7, <1>8, <2>1, <2>2 DEF Serial, TreeTypes
  <2>4. CASE t = Tip  BY <2>1, <2>4
  <2>5. CASE t = e
    BY <1>8, <1>9, <2>1, <2>5
  <2>6. ASSUME t # Tip, t # e PROVE FALSE
    <3>1. t \in Siblings(Tip) /\ e < t
      BY <1>1, <1>2, <1>4, <1>5, <2>2, <2>3, <2>6 DEF Siblings, TreeTypes
    <3>2. tree[e].prompt = tree[t].prompt
      BY <1>2, <1>5, <2>1, <3>1 DEF PlainDone, EditedIsRegenerated
    <3>3. w = Asked(e)
      BY <1>1, <1>8, <1>9, <2>1, <3>2 DEF Serial
    <3> QED BY <1>9, <2>1, <2>6, <3>3
  <2> QED BY <2>4, <2>5, <2>6
<1>11. \A i \in On(b) : i \in Entries /\ (i = x \/ (i = w /\ thread[w].time = Tip))
  <2>1. ASSUME NEW i \in On(b) PROVE i \in Entries /\ (i = x \/ (i = w /\ thread[w].time = Tip))
    <3>1. i \in Entries /\ thread[i].time = Tip /\ RowTells(i)  BY <1>1 DEF On, ThreadInv
    <3>2. CASE thread[i].role = "assistant"
      BY <1>1, <1>6, <1>7, <3>1, <3>2 DEF RowTells, Serial
    <3>3. CASE thread[i].role = "user"
      BY <1>1, <1>8, <3>1, <3>3 DEF RowTells, Serial
    <3> QED BY <1>1, <3>1, <3>2, <3>3 DEF RowTypes
  <2> QED BY <2>1
\* The prompt is on the branch of its reply, if it was stored for it.
<1>12. ASSUME thread[w].time = Tip PROVE w \in On(b) /\ Before(w, x)
  <2>1. PICK k \in Captors : thread[w].branch = <<k, Tip>>
    BY <1>1, <1>8, <1>12 DEF BranchesInv, RowStands
  <2>2. Len(thread[w].branch) = 2  BY <2>1
  <2>3. \A j \in Captors : doing[j] # "assistant"
    BY DEF PlainDone, Settled, Busy
  <2>4. PICK j \in Entries : /\ thread[j].role = "assistant" /\ thread[j].text = thread[w].time
                             /\ thread[j].branch = thread[w].branch
    BY <1>1, <1>8, <2>2, <2>3 DEF BranchesInv, Replied
  <2>5. j = x  BY <1>1, <1>6, <1>7, <1>12, <2>4 DEF Serial
  <2>6. w \in On(b)  BY <1>7, <1>8, <2>4, <2>5 DEF On
  <2>7. thread[w].turn < thread[x].turn
    BY <1>1, <1>7, <1>8, <2>6 DEF BranchesInv, Turned, On
  <2> QED BY <1>6, <1>12, <2>6, <2>7 DEF Before
<1>13. ASSUME thread[w].time # Tip PROVE w = Asked(e) /\ Before(w, x)
  <2>1. w = Asked(e)  BY <1>10, <1>13
  <2>2. thread[w].time < thread[x].time  BY <1>5, <1>6, <1>9, <2>1
  <2> QED BY <2>1, <2>2 DEF Before
\* The row that is replaced.
<1> DEFINE f == thread[First(On(b))].from
<1>14. f \in {Asked(e), Told(e)} /\ (w = Asked(e) => f = Told(e))
  <2>1. First(On(b)) \in On(b)
    <3>1. On(b) \subseteq Entries /\ On(b) # {}  BY <1>6 DEF On
    <3> QED BY <1>1, <3>1, FirstIn
  <2>2. Replaces(f, Tip)
    BY <2>1, <1>11 DEF PlainDone, HungRows
  <2>3. f \in Entries /\ thread[f].time = e /\ (thread[f].role = "user" => thread[f].text # tree[Tip].prompt)
    BY <1>4, <1>5, <2>2 DEF Replaces
  <2> HIDE DEF f
  <2>4. f \in {Asked(e), Told(e)}  BY <1>9, <2>3
  <2>5. w = Asked(e) => f # w  BY <1>8, <2>3
  <2> QED BY <2>4, <2>5
<1>15. Selected(b) = {i \in On(Main) : thread[i].turn < thread[f].turn} \cup On(b)
  BY <1>9, <1>14 DEF Selected, Prefix
<1>16. f \in On(Main) /\ thread[f].time = e  BY <1>9, <1>14
<1> HIDE DEF f
<1>17. ASSUME NEW c \in 1 .. d
       PROVE  /\ c \in Completions /\ c < e /\ Asked(c) \in Selected(b) /\ Told(c) \in Selected(b)
              /\ thread[Told(c)].time = c
  <2>1. c \in Completions /\ c <= m /\ c < e  BY <1>1, <1>3, <1>5 DEF TreeTypes
  <2>2. /\ Asked(c) \in On(Main) /\ thread[Asked(c)].time = c
        /\ Told(c) \in On(Main) /\ thread[Told(c)].time = c
    BY <1>3, <2>1, PairRows
  <2>3. Asked(c) < f /\ Told(c) < f
    BY <1>3, <1>16, <2>1, <2>2, MainRows
  <2>4. thread[Asked(c)].turn < thread[f].turn /\ thread[Told(c)].turn < thread[f].turn
    BY <1>3, <1>16, <2>2, <2>3, MainRows
  <2> QED BY <1>15, <2>1, <2>2, <2>4
<1>18. w \in Selected(b) /\ x \in Selected(b) /\ Before(w, x)
  <2>1. CASE thread[w].time = Tip  BY <1>12, <1>15, <2>1
  <2>2. CASE thread[w].time # Tip
    <3>1. w = Asked(e) /\ f = Told(e)  BY <1>13, <1>14, <2>2
    <3>2. thread[w].turn < thread[f].turn  BY <1>3, <1>9, <3>1, MainRows
    <3> QED BY <1>9, <1>13, <1>15, <2>2, <3>1, <3>2
  <2> QED BY <2>1, <2>2
<1>19. \A i \in Selected(b) : \/ i \in {w, x, Asked(e)}
                              \/ \E c \in 1 .. d : i \in {Asked(c), Told(c)}
  <2>1. ASSUME NEW i \in On(Main), thread[i].turn < thread[f].turn
        PROVE  i = Asked(e) \/ \E c \in 1 .. d : i \in {Asked(c), Told(c)}
    <3>1. PICK c \in Completions : c = thread[i].time /\ i \in {Asked(c), Told(c)}
      BY <1>3, MainRows
    <3>2. i < f /\ c <= e  BY <1>3, <1>16, <2>1, <3>1, MainRows
    <3>3. CASE c = e
      <4>1. i # Told(e)
        <5>1. ASSUME i = Told(e) PROVE FALSE
          <6>1. f = Asked(e) /\ Told(e) < Asked(e)  BY <1>1, <1>9, <1>14, <3>2, <5>1 DEF RowTypes
          <6> QED BY <1>1, <1>9, <6>1 DEF RowTypes
        <5> QED BY <5>1
      <4> QED BY <3>1, <3>3, <4>1
    <3>4. CASE c # e
      <4>1. c \in 1 .. d  BY <1>1, <1>5, <3>1, <3>2, <3>4 DEF TreeTypes
      <4> QED BY <3>1, <4>1
    <3> QED BY <3>3, <3>4
  <2> QED BY <1>11, <1>15, <2>1
<1>20. \A c \in 1 .. d : Before(Told(c), w) /\ Before(Told(c), Asked(e))
  <2>1. ASSUME NEW c \in 1 .. d PROVE Before(Told(c), w) /\ Before(Told(c), Asked(e))
    <3>1. thread[Told(c)].time < e /\ e <= thread[w].time
      BY <1>1, <1>2, <1>5, <1>9, <1>10, <1>17 DEF TreeTypes
    <3>2. thread[Told(c)].time < thread[w].time
      BY <1>1, <1>2, <1>5, <1>9, <1>10, <1>17 DEF TreeTypes
    <3> QED BY <1>9, <3>1, <3>2 DEF Before
  <2> QED BY <2>1
<1>21. Asked(e) = w \/ Before(Asked(e), w)
  <2>1. CASE thread[w].time = Tip
    <3>1. thread[Asked(e)].time < thread[w].time  BY <1>5, <1>9, <2>1
    <3> QED BY <3>1 DEF Before
  <2> QED BY <1>10, <2>1
<1>22. Selected(b) \subseteq Entries
  BY DEF Selected, Prefix, On
<1> QED BY <1>3, <1>4, <1>5, <1>6, <1>8, <1>9, <1>17, <1>18, <1>19, <1>20, <1>21, <1>22, ShowsPath

\* The collapsed view ends with the reply the user has before her and, where
\* nothing disturbs it, is her whole path.
THEOREM CollapsedShowsPath == BranchSpec => []CollapsedIsPath
<1>1. ThreadInv /\ BranchesInv /\ PlainInv => CollapsedIsPath
  <2> SUFFICES ASSUME ThreadInv, BranchesInv, PlainInv, Settled, thread # <<>>, ~GoesOnBelowFork,
                      NEW b \in Winners
               PROVE  /\ Last(Collapsed(b)) = Tip
                      /\ ~EditedIsRegenerated /\ ~PromptRepeats /\ ~overlapped
                         => IsCurrentPath(Collapsed(b))
    BY DEF CollapsedIsPath
  <2>1. Entries # {}
    <3>1. thread \in Seq(Row)  BY ThreadRows DEF ThreadInv
    <3>2. RowTypes  BY Types DEF ThreadInv
    <3> HIDE DEF Row
    <3>3. Len(thread) # 0  BY <3>1, EmptySeq
    <3> QED BY <3>2, <3>3 DEF RowTypes
  <2>2. Last(Collapsed(b)) = Tip
    BY <2>1, EndsWithTip
  <2>3. ASSUME ~EditedIsRegenerated, ~PromptRepeats, ~overlapped PROVE IsCurrentPath(Collapsed(b))
    <3>1. PlainDone
      BY <2>1, <2>3 DEF PlainDone, PlainInv
    <3> QED BY <2>1, <3>1, WinnerIs, ChainShown, ForkShown
  <2> QED BY <2>2, <2>3
<1> QED BY <1>1, BranchInvariant, PTL
==============================================================================
