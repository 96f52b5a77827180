---------------------------- MODULE BranchForks ----------------------------
(***************************************************************************)
(* Branches of a conversation on claude.ai, and the one the dashboard      *)
(* shows.  The user continues, regenerates the last reply or edits an      *)
(* earlier prompt; every completion is captured, more than once perhaps,   *)
(* and persisted: its two messages are matched by hash with the rows of    *)
(* the session, and those that match none are inserted, on a new branch    *)
(* when a row with the same provider_parent_uuid says something else.      *)
(*                                                                         *)
(* A completion is known by its number, which also stands for the text of  *)
(* its reply, its provider_message_uuid and its time; its session exists.  *)
(***************************************************************************)
EXTENDS Integers, Sequences, FiniteSets, SequencesExt

CONSTANTS
    Texts,           \* what the user may say
    Captors,         \* those who capture completions: the proxy, the page
    MaxCompletions   \* bound: completions of the conversation

ASSUME BranchAssumption == MaxCompletions \in Nat /\ Texts \cap Nat = {}

VARIABLES
    tree,      \* the provider's completions: parent and prompt
    thread,    \* the messages rows of the session, in insertion order
    taken,     \* per captor, how many completions it has handed over
    doing,     \* per captor, where its persist stands
    known,     \* per captor, how many rows its hash buckets cover
    fork,      \* per captor, fork_branch_default and its parent
    overlapped \* history: whether two persists ran at once

branchVars == <<tree, thread, taken, doing, known, fork, overlapped>>

\* Branch ids: '0', the one a backfill gives the row i, <<i>>, and the one of
\* the fork that a persist of completion c by k opens, <<k, c>>.
Main == <<>>
NoFork == [branch |-> Main, from |-> 0]
Completions == DOMAIN tree
Entries == DOMAIN thread

\* The completion the user has before her.
Tip == Len(tree)

Branches == {Main} \cup [1 .. 1 -> Nat] \cup (Captors \X (1 .. MaxCompletions))

BranchTypeOK ==
    /\ tree \in Seq([parent : Nat, prompt : Texts])
    /\ Len(tree) <= MaxCompletions /\ \A c \in Completions : tree[c].parent < c
    /\ thread \in Seq([role : {"user", "assistant"}, text : Texts \cup Nat, parent : Nat,
                         time : Nat, branch : Branches, from : Nat, turn : Nat])
    /\ taken \in [Captors -> 0 .. MaxCompletions]
    /\ doing \in [Captors -> {"idle", "detect", "user", "assistant"}]
    /\ known \in [Captors -> Nat]
    /\ fork \in [Captors -> [branch : Branches, from : Nat]]
    /\ overlapped \in BOOLEAN

BranchInit ==
    /\ tree = <<>> /\ thread = <<>>
    /\ taken = [k \in Captors |-> 0]
    /\ doing = [k \in Captors |-> "idle"] /\ known = [k \in Captors |-> 0]
    /\ fork = [k \in Captors |-> NoFork]
    /\ overlapped = FALSE

----------------------------------------------------------------------------
(* The user                                                                *)

\* The completions before the user: her own and what they go on from, the
\* smallest set that holds hers and is closed under parents.
Path ==
    {c \in Completions : \A S \in SUBSET Completions :
        Tip \in S /\ (\A d \in S : tree[d].parent \in S \cup {0}) => c \in S}

Completes(parent, prompt) ==
    /\ Len(tree) < MaxCompletions
    /\ tree' = Append(tree, [parent |-> parent, prompt |-> prompt])
    /\ UNCHANGED <<thread, taken, doing, known, fork, overlapped>>

Continues == \E t \in Texts : Completes(Tip, t)
Regenerates == Tip # 0 /\ Completes(tree[Tip].parent, tree[Tip].prompt)
Edits ==
    \E c \in Path, t \in Texts :
        t # tree[c].prompt /\ Completes(tree[c].parent, t)

----------------------------------------------------------------------------
(* persist_result                                                          *)

Busy(k) == doing[k] # "idle"
Prompt(c) == [role |-> "user", text |-> tree[c].prompt, parent |-> tree[c].parent]
Reply(c)  == [role |-> "assistant", text |-> c, parent |-> tree[c].parent]

\* ORDER BY ts, id: ids are random, so any of the rows of the least ts is first.
Earliest(S) == {i \in S : \A j \in S : thread[i].time <= thread[j].time}

\* By ts and turn_index, which counts the rows of a branch; a row of another
\* branch that ties in both counts as inserted later.
Before(i, j) ==
    \/ thread[i].time < thread[j].time
    \/ /\ thread[i].time = thread[j].time
       /\ thread[i].turn < thread[j].turn \/ (thread[i].turn = thread[j].turn /\ i < j)
First(S) == CHOOSE i \in S : \A j \in S \ {i} : Before(i, j)
On(b) == {i \in Entries : thread[i].branch = b}
Turn(b) == Max({0} \cup {thread[i].turn : i \in On(b)}) + 1

\* The buckets of the session's rows; completions are captured in order.
Begins(k) ==
    /\ ~Busy(k) /\ taken[k] < Len(tree)
    /\ taken' = [taken EXCEPT ![k] = @ + 1]
    /\ known' = [known EXCEPT ![k] = Len(thread)]
    /\ doing' = [doing EXCEPT ![k] = "detect"]
    /\ overlapped' = (overlapped \/ \E j \in Captors \ {k} : Busy(j))
    /\ UNCHANGED <<tree, thread, fork>>

\* Rows that share the parent with a message of their role and say something
\* else.
Differs(i, c) ==
    /\ thread[i].parent = tree[c].parent
    /\ \E m \in {Prompt(c), Reply(c)} : m.role = thread[i].role /\ m.text # thread[i].text

\* _detect_branch_fork takes the first of them; rows of one completion have
\* one time.
Detects(k) ==
    /\ doing[k] = "detect" /\ doing' = [doing EXCEPT ![k] = "user"]
    /\ LET siblings == {i \in Entries : Differs(i, taken[k])} IN
          \/ siblings = {} /\ fork' = [fork EXCEPT ![k] = NoFork]
          \/ \E i \in Earliest(siblings) :
                fork' = [fork EXCEPT ![k] = [branch |-> <<k, taken[k]>>, from |-> i]]
    /\ UNCHANGED <<tree, thread, taken, known, overlapped>>

\* A message whose hash has a bucket enriches its first row, which takes over
\* the incoming threading; any other is inserted.
Bucket(k, m) == {i \in 1 .. known[k] : thread[i].role = m.role /\ thread[i].text = m.text}
NewRow(k, m) ==
    [role |-> m.role, text |-> m.text, parent |-> m.parent, time |-> taken[k],
     branch |-> fork[k].branch, from |-> fork[k].from, turn |-> Turn(fork[k].branch)]

Stores(k, m) ==
    /\ \/ \E i \in Earliest(Bucket(k, m)) : thread' = [thread EXCEPT ![i].parent = m.parent]
       \/ Bucket(k, m) = {} /\ thread' = Append(thread, NewRow(k, m))
    /\ UNCHANGED <<tree, taken, overlapped>>

StoresPrompt(k) ==
    /\ doing[k] = "user" /\ doing' = [doing EXCEPT ![k] = "assistant"]
    /\ Stores(k, Prompt(taken[k]))
    /\ UNCHANGED <<known, fork>>

StoresReply(k) ==
    /\ doing[k] = "assistant" /\ doing' = [doing EXCEPT ![k] = "idle"]
    /\ Stores(k, Reply(taken[k]))
    /\ known' = [known EXCEPT ![k] = 0]
    /\ fork' = [fork EXCEPT ![k] = NoFork]

\* backfill_session_branches moves a row of the main branch that differs from
\* the first one of its parent and role; rows of one ts say the same, and any of
\* them stands for the others.
Backfills ==
    /\ thread' = [i \in Entries |->
           LET first == First({j \in Entries : thread[j].parent = thread[i].parent
                                            /\ thread[j].role = thread[i].role}) IN
           IF thread[i].branch = Main /\ thread[i].text # thread[first].text
           THEN [thread[i] EXCEPT !.branch = <<i>>,
                                !.from = IF @ = 0 THEN first ELSE @]
           ELSE thread[i]]
    /\ thread' # thread
    /\ UNCHANGED <<tree, taken, doing, known, fork, overlapped>>

BranchNext ==
    \/ Continues \/ Regenerates \/ Edits \/ Backfills
    \/ \E k \in Captors : Begins(k) \/ Detects(k) \/ StoresPrompt(k) \/ StoresReply(k)

BranchSpec == BranchInit /\ [][BranchNext]_branchVars

----------------------------------------------------------------------------
(* _collapse_branches                                                      *)

Newest(b) == Max({thread[i].time : i \in On(b)})

\* The branches with the newest row.
Winners ==
    LET used == {thread[i].branch : i \in Entries} IN
    {b \in used : \A d \in used : Newest(d) <= Newest(b)}

\* The rows of the main branch before the one the fork replaced, by
\* turn_index; by time if that one is not on the main branch.
PrefixWith(b) ==
    LET parent == thread[First(On(b))].from IN
    IF parent \in On(Main) THEN {i \in On(Main) : thread[i].turn <= thread[parent].turn}
    ELSE {i \in On(Main) : thread[i].time < thread[First(On(b))].time}
Prefix(b) ==
    LET parent == thread[First(On(b))].from IN
    IF parent \in On(Main) THEN {i \in On(Main) : thread[i].turn < thread[parent].turn}
    ELSE {i \in On(Main) : thread[i].time < thread[First(On(b))].time}

Selected(b) == IF b = Main THEN On(Main) ELSE Prefix(b) \cup On(b)

\* Of consecutive rows of one role only the last is shown.
Collapsed(b) ==
    LET later(i) == {j \in Selected(b) : Before(i, j)}
        shown == {i \in Selected(b) :
                     later(i) = {} \/ thread[First(later(i))].role # thread[i].role}
        nth(n) == CHOOSE i \in shown :
                      Cardinality(shown \cap later(i)) = Cardinality(shown) - n IN
    [n \in 1 .. Cardinality(shown) |-> thread[nth(n)].text]

----------------------------------------------------------------------------
(* Properties                                                              *)

\* What the user sees on the provider's page: a prompt and its reply for each
\* completion from the first one to her own, each after its parent.
IsCurrentPath(s) ==
    LET steps == Len(s) \div 2 IN
    /\ Len(s) = 2 * steps /\ steps # 0 /\ s[2 * steps] = Tip
    /\ \A n \in 1 .. steps :
          LET c == s[2 * n] IN
          /\ c \in Completions /\ s[2 * n - 1] = tree[c].prompt
          /\ tree[c].parent = IF n = 1 THEN 0 ELSE s[2 * n - 2]

\* Every completion has been persisted.
Settled == \A k \in Captors : ~Busy(k) /\ taken[k] = Len(tree)

Siblings(c) == {d \in 1 .. c - 1 : tree[d].parent = tree[c].parent}

\* A completion that goes on from one that had been forked.
GoesOnBelowFork == \E c \in Completions : tree[c].parent # 0 /\ Siblings(tree[c].parent) # {}

\* A reply to an edited prompt that is regenerated.
EditedIsRegenerated ==
    \E c \in Completions : \E d, e \in Siblings(c) :
        e < d /\ tree[d].prompt = tree[c].prompt /\ tree[e].prompt # tree[d].prompt

\* A prompt that is said in two places of the conversation.
PromptRepeats ==
    \E c, d \in Completions : tree[c].prompt = tree[d].prompt /\ tree[c].parent # tree[d].parent

\* Once every completion is persisted, the collapsed view ends with the reply
\* the user has before her, however persists overlap, as long as nothing goes on
\* below a fork.  It is her whole path, after any number of regenerations,
\* edits, captures of the same completion and backfills, if besides no edited
\* prompt's reply is regenerated, no prompt is repeated elsewhere and no two
\* persists overlap (_detect_branch_fork, persist_result, _collapse_branches).
CollapsedIsPath ==
    Settled /\ thread # <<>> /\ ~GoesOnBelowFork =>
        /\ \A b \in Winners : Last(Collapsed(b)) = Tip
        /\ ~EditedIsRegenerated /\ ~PromptRepeats /\ ~overlapped
           => \A b \in Winners : IsCurrentPath(Collapsed(b))

\* The collapsed view is "the current path", also when a conversation goes on
\* after a regeneration.
CollapsedIsCurrentPath ==
    /\ Settled /\ thread # <<>> /\ ~overlapped
    /\ ~EditedIsRegenerated /\ ~PromptRepeats
    => \A b \in Winners : IsCurrentPath(Collapsed(b))

============================================================================
