---------------------------- MODULE Enrichment ----------------------------
(***************************************************************************)
(* What persist_result does to a stored message when another copy of it    *)
(* arrives: the proxy's, the page's, or the same one again.  Each copy is  *)
(* scored; the better one fills in the other's gaps.  The row is read with *)
(* the session's buckets and written later, by ingests in threads of       *)
(* their own.                                                              *)
(*                                                                         *)
(* A text is its length without the lines that mark attachments, which     *)
(* stands for what it says, the length of those lines, whether one of them *)
(* is a tool call's, whether it shows thinking, and whether it is neither  *)
(* cut nor raw JSON.  An attachment is an image, at the address under      *)
(* which a copy knows it.                                                  *)
(***************************************************************************)
EXTENDS Integers, FiniteSets

CONSTANTS
    Renditions, \* the copies of messages that arrive
    Files,      \* the images that may be attached
    Ingests     \* threads that persist a copy

Addresses == {"sediment", "http"}
Wordings  == [body : Nat, head : Nat, calls : BOOLEAN, thinks : BOOLEAN, clean : BOOLEAN]
Contents  == [files : SUBSET (Files \X Addresses), parent : BOOLEAN]
Messages  == [text : Wordings, content : Contents, model : BOOLEAN,
              tokens : {"none", "estimate", "exact"}]

ASSUME EnrichmentAssumption == Renditions \subseteq Messages

VARIABLES
    row,      \* the stored message
    given,    \* per ingest, the copy it persists, if any
    seen,     \* per ingest, the row its bucket holds
    merged,   \* history: copies merged into the row, or inserted as the row
    overtaken     \* history: whether a row was written that others had changed

enrichVars == <<row, given, seen, merged, overtaken>>

EnrichTypeOK ==
    /\ row \in Messages
    /\ given \in [Ingests -> SUBSET Renditions]
    /\ seen \in [Ingests -> Messages]
    /\ merged \subseteq Renditions
    /\ overtaken \in BOOLEAN

\* The rows the first copy may become: estimate_tokens where it has no count,
\* the result's model where it names none.
Inserted(c) ==
    {[c EXCEPT !.tokens = IF @ = "none" THEN "estimate" ELSE @, !.model = @ \/ known] :
        known \in BOOLEAN}

EnrichInit ==
    /\ \E c \in Renditions : row \in Inserted(c) /\ merged = {c}
    /\ given = [i \in Ingests |-> {}]
    /\ seen = [i \in Ingests |-> row]
    /\ overtaken = FALSE

---------------------------------------------------------------------------
(* score_message, in thousandths                                           *)

Length(t) == t.body + t.head
Points(b, n) == IF b THEN n ELSE 0
HasFiles(m) == m.content.files # {}

Capped(n) == IF n > 250 THEN 250 ELSE n
Sum(m) ==
    Capped(2 * Length(m.text)) + Points(m.model, 150) + Points(m.tokens # "none", 150)
    + Points(HasFiles(m), 100) + Points(m.text.calls, 50) + Points(m.text.thinks, 50)
    + Points(m.text.clean /\ Length(m.text) > 10, 150)

\* Twice the score: a very short text halves it.
Score(m) == IF Length(m.text) < 5 THEN Sum(m) ELSE 2 * Sum(m)

---------------------------------------------------------------------------
(* merge_messages, of the better copy p and the other one s                *)

Empty(j) == j.files = {} /\ ~j.parent

FirstOnly(a, b) == IF Empty(a) THEN b ELSE a

\* _merge_content_json writes nothing but the attachments when both have some.
Joined(a, b) ==
    CASE Empty(a)     -> b
      [] Empty(b)     -> a
      [] b.files = {} -> a
      [] a.files = {} -> b
      [] OTHER        -> [files |-> a.files \cup b.files, parent |-> FALSE]

Clearer(p, s) ==
    IF p.clean # s.clean THEN IF p.clean THEN p ELSE s
    ELSE IF Length(p) >= Length(s) THEN p ELSE s

Reconciled(p, s) ==
    [text |-> Clearer(p.text, s.text), content |-> Joined(p.content, s.content),
     model |-> p.model \/ s.model,
     tokens |-> IF p.tokens # "none" THEN p.tokens ELSE s.tokens]

---------------------------------------------------------------------------
(* When the row is the better copy                                         *)

\* merge_content_json knows a file by its id, and prefers its http address.
PerFile(fs) ==
    {<<f, IF <<f, "http">> \in fs THEN "http" ELSE "sediment">> : f \in {g[1] : g \in fs}}
Kept(a, b) ==
    IF Empty(a) THEN b ELSE IF Empty(b) THEN a
    ELSE [files |-> PerFile(a.files \cup b.files), parent |-> a.parent \/ b.parent]

\* choose_better_content_text: of two texts that differ besides the lines
\* that mark attachments, the longer one; else the text without those lines.
Normal(t) == [t EXCEPT !.head = 0, !.calls = FALSE]
Chosen(old, new) ==
    IF Normal(old) # Normal(new) THEN IF Length(new) > Length(old) THEN new ELSE old
    ELSE Normal(old)

Completed(old, new) ==
    [text |-> Chosen(old.text, new.text), content |-> Kept(old.content, new.content),
     model |-> old.model \/ new.model,
     tokens |-> IF old.tokens # "none" THEN old.tokens ELSE new.tokens]

\* The row that persist_result makes of the one it has seen and a copy.
Enriched(old, new) ==
    IF Score(new) > Score(old) \/ (HasFiles(new) /\ ~HasFiles(old))
    THEN IF Score(new) >= Score(old) THEN Reconciled(new, old) ELSE Reconciled(old, new)
    ELSE Completed(old, new)

\* update_message_enrichment sets the columns that differ from what was seen.
Column(was, is, now) == IF is # was THEN is ELSE now
Updated(old, new) ==
    [text    |-> Column(old.text, new.text, row.text),
     content |-> Column(old.content, new.content, row.content),
     model   |-> Column(old.model, new.model, row.model),
     tokens  |-> Column(old.tokens, new.tokens, row.tokens)]

---------------------------------------------------------------------------

\* message_hash takes the first 200 characters.
Hash(t) == IF t.body < 200 THEN t.body ELSE 200

\* The row is in the bucket of the copy's hash.
Reads(i) ==
    /\ given[i] = {}
    /\ \E c \in Renditions :
          Hash(c.text) = Hash(row.text) /\ given' = [given EXCEPT ![i] = {c}]
    /\ seen' = [seen EXCEPT ![i] = row]
    /\ UNCHANGED <<row, merged, overtaken>>

Done(i) == given' = [given EXCEPT ![i] = {}] /\ seen' = [seen EXCEPT ![i] = row']

Writes(i) ==
    /\ \E c \in given[i] :
          /\ row' = Updated(seen[i], Enriched(seen[i], c))
          /\ merged' = merged \cup {c}
    /\ overtaken' = (overtaken \/ seen[i] # row)
    /\ Done(i)

\* The UPDATE fails: the row stays as it is.
WriteFails(i) ==
    /\ given[i] # {}
    /\ UNCHANGED <<row, merged, overtaken>>
    /\ Done(i)

EnrichNext == \E i \in Ingests : Reads(i) \/ Writes(i) \/ WriteFails(i)

EnrichSpec == EnrichInit /\ [][EnrichNext]_enrichVars

---------------------------------------------------------------------------
(* Properties                                                              *)

Ids(m) == {f[1] : f \in m.content.files}

\* What any copy knew the row knows, in whatever order the copies came, and
\* however often: the files attached, that a model answered, that tokens were
\* counted.  Only two ingests that overlap can lose any of it
\* (persist_result, merge_messages, merge_content_json).
NothingForgotten ==
    ~overtaken => \A c \in merged :
        /\ Ids(c) \subseteq Ids(row)
        /\ c.model => row.model
        /\ c.tokens # "none" => row.tokens # "none"

\* A message that came with its parent's uuid keeps it: "Both messages must
\* persist their uuids inside content_json so the persist layer can match
\* siblings on subsequent replays".
ThreadingKept ==
    ~overtaken => \A c \in merged : c.content.parent => row.content.parent

===========================================================================
