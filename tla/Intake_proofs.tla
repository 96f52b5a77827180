--------------------------- MODULE Intake_proofs ---------------------------
(***************************************************************************)
(* What is proved of the enrichment of stored messages, of the addon that  *)
(* records flows, and of the claims by which the legs that see one         *)
(* exchange agree on a primary: for any copies, ingests, flows, hosts and  *)
(* legs.                                                                   *)
(***************************************************************************)
EXTENDS Enrichment, ProxyAddon, LegDedup, TLAPS

---------------------------------------------------------------------------
(* Enrichment: merging makes of two messages one that knows what both did. *)

Covers(m, c) ==
    /\ Ids(c) \subseteq Ids(m)
    /\ c.model => m.model
    /\ c.tokens # "none" => m.tokens # "none"

\* _merge_content_json loses no file of either side, and makes contents of
\* contents.
LEMMA JoinedFiles ==
    ASSUME NEW a \in Contents, NEW b \in Contents
    PROVE  /\ Joined(a, b) \in Contents
           /\ Joined(a, b).files = a.files \cup b.files
BY DEF Joined, Contents, Empty

\* merge_content_json keeps every file under one address or another.
LEMMA KeptFiles ==
    ASSUME NEW a \in Contents, NEW b \in Contents
    PROVE  /\ Kept(a, b) \in Contents
           /\ \A f \in a.files \cup b.files : \E g \in Kept(a, b).files : g[1] = f[1]
<1>1. CASE Empty(a)
  BY <1>1 DEF Kept, Empty, Contents
<1>2. CASE ~Empty(a) /\ Empty(b)
  BY <1>2 DEF Kept, Empty, Contents
<1>3. CASE ~Empty(a) /\ ~Empty(b)
  <2> DEFINE fs == a.files \cup b.files
  <2>1. fs \subseteq Files \X Addresses
    BY DEF Contents
  <2>2. PerFile(fs) \subseteq Files \X Addresses
    <3>1. \A f \in {g[1] : g \in fs} : f \in Files
      BY <2>1
    <3>2. \A f \in Files : <<f, "http">> \in Files \X Addresses
                       /\ <<f, "sediment">> \in Files \X Addresses
      BY DEF Addresses
    <3>3. \A f \in {g[1] : g \in fs} :
             <<f, IF <<f, "http">> \in fs THEN "http" ELSE "sediment">> \in Files \X Addresses
      <4> HIDE DEF fs
      <4> QED BY <3>1, <3>2
    <3> QED BY <3>3 DEF PerFile
  <2>3. \A f \in fs : \E g \in PerFile(fs) : g[1] = f[1]
    <3> TAKE f \in fs
    <3> DEFINE g == <<f[1], IF <<f[1], "http">> \in fs THEN "http" ELSE "sediment">>
    <3>1. g \in PerFile(fs)
      BY DEF PerFile
    <3> QED BY <3>1
  <2>4. Kept(a, b) = [files |-> PerFile(fs), parent |-> a.parent \/ b.parent]
    BY <1>3 DEF Kept
  <2>5. (a.parent \/ b.parent) \in BOOLEAN
    BY DEF Contents
  <2> HIDE DEF fs
  <2>6. Kept(a, b) \in Contents /\ Kept(a, b).files = PerFile(fs)
    BY <2>2, <2>4, <2>5 DEF Contents
  <2> QED BY <2>3, <2>6 DEF fs
<1> QED BY <1>1, <1>2, <1>3

\* Both ways to merge keep the type and what either message knew.
LEMMA ReconciledCovers ==
    ASSUME NEW p \in Messages, NEW s \in Messages
    PROVE  /\ Reconciled(p, s) \in Messages
           /\ Covers(Reconciled(p, s), p)
           /\ Covers(Reconciled(p, s), s)
<1>1. p.content \in Contents /\ s.content \in Contents
  BY DEF Messages
<1>2. Clearer(p.text, s.text) \in Wordings
  BY DEF Clearer, Messages
<1>3. (p.model \/ s.model) \in BOOLEAN
  BY Zenon
<1> DEFINE j == Joined(p.content, s.content)
<1>4. j \in Contents /\ j.files = p.content.files \cup s.content.files
  BY <1>1, JoinedFiles
<1> HIDE DEF j
<1>5. Reconciled(p, s) \in Messages
  BY <1>2, <1>3, <1>4 DEF Reconciled, Messages, j
<1>6. Reconciled(p, s).content = j
  BY DEF Reconciled, j
<1>7. Ids(Reconciled(p, s)) = Ids(p) \cup Ids(s)
  BY <1>4, <1>6 DEF Ids
<1> QED BY <1>5, <1>7 DEF Covers, Reconciled

LEMMA CompletedCovers ==
    ASSUME NEW old \in Messages, NEW new \in Messages
    PROVE  /\ Completed(old, new) \in Messages
           /\ Covers(Completed(old, new), old)
           /\ Covers(Completed(old, new), new)
<1>1. old.content \in Contents /\ new.content \in Contents
  BY DEF Messages
<1>2. Chosen(old.text, new.text) \in Wordings
  BY DEF Chosen, Normal, Wordings, Messages
<1>3. (old.model \/ new.model) \in BOOLEAN
  BY Zenon
<1> DEFINE j == Kept(old.content, new.content)
<1>4. j \in Contents
      /\ \A f \in old.content.files \cup new.content.files : \E g \in j.files : g[1] = f[1]
  BY <1>1, KeptFiles
<1> HIDE DEF j
<1>5. Completed(old, new) \in Messages
  BY <1>2, <1>3, <1>4 DEF Completed, Messages, j
<1>6. Completed(old, new).content = j
  BY DEF Completed, j
<1>7. Ids(old) \subseteq Ids(Completed(old, new)) /\ Ids(new) \subseteq Ids(Completed(old, new))
  BY <1>4, <1>6 DEF Ids
<1> QED BY <1>5, <1>7 DEF Covers, Completed

LEMMA EnrichedCovers ==
    ASSUME NEW old \in Messages, NEW new \in Messages
    PROVE  /\ Enriched(old, new) \in Messages
           /\ Covers(Enriched(old, new), old)
           /\ Covers(Enriched(old, new), new)
BY ReconciledCovers, CompletedCovers DEF Enriched

LEMMA UpdatedTypes ==
    ASSUME NEW old \in Messages, NEW new \in Messages, row \in Messages
    PROVE  Updated(old, new) \in Messages
BY DEF Updated, Column, Messages

\* An ingest that has seen the row as it is writes what the merge yields.
LEMMA UpdatedFresh ==
    ASSUME NEW new \in Messages, row \in Messages
    PROVE  Updated(row, new) = new
BY DEF Updated, Column, Messages

---------------------------------------------------------------------------

\* The row a copy is inserted as is a message that covers it.
LEMMA InsertedCovers ==
    ASSUME NEW c \in Messages, NEW m \in Inserted(c)
    PROVE  m \in Messages /\ Covers(m, c)
<1>1. PICK known \in BOOLEAN :
          m = [c EXCEPT !.tokens = IF @ = "none" THEN "estimate" ELSE @, !.model = @ \/ known]
  BY DEF Inserted
<1>2. (c.model \/ known) \in BOOLEAN
  BY Zenon
<1>3. m \in Messages
  BY <1>1, <1>2 DEF Messages
<1>4. m.content = c.content
  BY <1>1 DEF Messages
<1>5. c.model => m.model
  BY <1>1 DEF Messages
<1>6. c.tokens # "none" => m.tokens # "none"
  BY <1>1 DEF Messages
<1> QED BY <1>3, <1>4, <1>5, <1>6 DEF Covers, Ids

\* Every variable of the enrichment keeps its type (persist_result).
THEOREM EnrichTypes == EnrichSpec => []EnrichTypeOK
<1> USE EnrichmentAssumption
<1>1. EnrichInit => EnrichTypeOK
  BY InsertedCovers DEF EnrichInit, EnrichTypeOK
<1>2. EnrichTypeOK /\ [EnrichNext]_enrichVars => EnrichTypeOK'
  <2> SUFFICES ASSUME EnrichTypeOK, [EnrichNext]_enrichVars PROVE EnrichTypeOK'
    OBVIOUS
  <2>1. ASSUME NEW i \in Ingests, Reads(i) PROVE EnrichTypeOK'
    BY <2>1 DEF Reads, EnrichTypeOK
  <2>2. ASSUME NEW i \in Ingests, Writes(i) PROVE EnrichTypeOK'
    <3>1. PICK c \in given[i] : row' = Updated(seen[i], Enriched(seen[i], c))
                               /\ merged' = merged \cup {c}
      BY <2>2 DEF Writes
    <3>2. c \in Renditions /\ c \in Messages /\ seen[i] \in Messages
      BY <2>2 DEF EnrichTypeOK
    <3>3. row' \in Messages
      BY <3>1, <3>2, EnrichedCovers, UpdatedTypes DEF EnrichTypeOK
    <3>4. overtaken' \in BOOLEAN
      BY <2>2, Zenon DEF Writes, EnrichTypeOK
    <3> QED BY <2>2, <3>1, <3>2, <3>3, <3>4 DEF Writes, Done, EnrichTypeOK
  <2>3. ASSUME NEW i \in Ingests, WriteFails(i) PROVE EnrichTypeOK'
    BY <2>3 DEF WriteFails, Done, EnrichTypeOK
  <2>4. CASE UNCHANGED enrichVars
    BY <2>4 DEF enrichVars, EnrichTypeOK
  <2> QED BY <2>1, <2>2, <2>3, <2>4 DEF EnrichNext
<1> QED BY <1>1, <1>2, PTL DEF EnrichSpec

\* What any copy knew the row knows, unless ingests overlapped, for any copies
\* (persist_result, merge_messages, merge_content_json).
THEOREM KnowledgeIsKept == EnrichSpec => []NothingForgotten
<1> USE EnrichmentAssumption
<1> DEFINE Known_ == ~overtaken => \A c \in merged : Covers(row, c)
<1>1. EnrichInit => Known_
  BY InsertedCovers DEF EnrichInit
<1>2. EnrichTypeOK /\ Known_ /\ [EnrichNext]_enrichVars => Known_'
  <2> SUFFICES ASSUME EnrichTypeOK, Known_, [EnrichNext]_enrichVars, ~overtaken'
               PROVE  \A c \in merged' : Covers(row', c)
    BY DEF Covers, Ids
  <2>1. ASSUME NEW i \in Ingests, Reads(i) PROVE \A c \in merged' : Covers(row', c)
    BY <2>1 DEF Reads
  <2>2. ASSUME NEW i \in Ingests, Writes(i) PROVE \A c \in merged' : Covers(row', c)
    <3>1. PICK c \in given[i] : row' = Updated(seen[i], Enriched(seen[i], c))
                               /\ merged' = merged \cup {c}
      BY <2>2 DEF Writes
    <3>2. ~overtaken /\ seen[i] = row
      BY <2>2 DEF Writes
    <3>3. c \in Messages /\ row \in Messages
      BY <2>2 DEF EnrichTypeOK
    <3>4. row' = Enriched(row, c)
      BY <3>1, <3>2, <3>3, EnrichedCovers, UpdatedFresh
    <3>5. Covers(row', c) /\ Covers(row', row)
      BY <3>3, <3>4, EnrichedCovers
    <3>6. \A d \in merged : Covers(row, d)
      BY <3>2
    <3> QED BY <3>1, <3>5, <3>6 DEF Covers
  <2>3. ASSUME NEW i \in Ingests, WriteFails(i) PROVE \A c \in merged' : Covers(row', c)
    BY <2>3 DEF WriteFails
  <2>4. CASE UNCHANGED enrichVars
    BY <2>4 DEF enrichVars
  <2> QED BY <2>1, <2>2, <2>3, <2>4 DEF EnrichNext
<1>3. Known_ => NothingForgotten
  BY DEF NothingForgotten, Covers
<1> QED BY <1>1, <1>2, <1>3, EnrichTypes, PTL DEF EnrichSpec

---------------------------------------------------------------------------
(* The addon.  What it tracks of a flow agrees with what it has recorded,  *)
(* and what it would record next is warranted by what was ever listed.     *)

Tracked(f) ==
    /\ meta[f].pair = "pending" =>
          mode = "smart" /\ ~kind[f].asks /\ kind[f].host \in Hosts
    /\ meta[f].pair = "request" =>
          f \in unstored \/ Record(f, "request", "request") \in records
    /\ mode = "smart" /\ stage[f] \in {"asked", "answering"} => meta[f].pair # "untracked"

Warranted(f) ==
    \/ kind[f].host \in AllowList \cup listed
    \/ mode = "all"
    \/ mode = "smart" /\ kind[f].asks

KnownOnly ==
    /\ cache \subseteq listed
    /\ Active \subseteq listed
    /\ \A f \in Flows : meta[f].pair = "request" \/ socket[f] => Warranted(f)

Whole(f) ==
    f \notin unstored =>
        /\ \A pair \in {"request", "response", "socket"} :
              Record(f, pair, "response") \in records => Record(f, pair, "request") \in records
        /\ /\ mode = "smart" /\ stage[f] = "done"
           /\ kind[f].asks \/ (kind[f].answers /\ ~kind[f].encoded)
           => Recorded(f, "request") /\ Recorded(f, "response")

AddonInv == AddonTypeOK /\ KnownOnly /\ \A f \in Flows : Tracked(f) /\ Whole(f)

\* insert_capture stores what it is given, or the flow is one with a failure.
LEMMA InsertsKeeps ==
    ASSUME NEW f \in Flows, NEW new \in SUBSET Records, AddonTypeOK, Inserts(f, new)
    PROVE  /\ records \subseteq records' /\ records' \subseteq records \cup new
           /\ records' \subseteq Records
           /\ unstored \subseteq unstored' /\ unstored' \subseteq unstored \cup {f}
           /\ unstored' \subseteq Flows
           /\ f \in unstored' \/ new \subseteq records'
BY DEF Inserts, AddonTypeOK

\* The cache of domains and the table hold listed hosts before and after.
LEMMA CustomListed ==
    ASSUME KnownOnly PROVE Custom \subseteq listed
BY DEF KnownOnly, Custom, OnFile

LEMMA RegistersKeeps ==
    ASSUME AddonTypeOK, KnownOnly, NEW h \in Hosts, Registers(h)
    PROVE  /\ domains' \in [Hosts -> {"absent", "active", "inactive"}]
           /\ cache' \subseteq listed' /\ discovered' \subseteq Hosts
           /\ listed' \subseteq Hosts /\ listed \subseteq listed'
           /\ Active' \subseteq listed'
<1>1. Custom \subseteq listed /\ Active \subseteq listed /\ listed \subseteq Hosts
  BY CustomListed DEF KnownOnly, AddonTypeOK
<1>2. CASE UNCHANGED <<domains, listed>>
  BY <1>1, <1>2 DEF Registers, AddonTypeOK, Active
<1>3. CASE /\ domains' = [domains EXCEPT ![h] = "active"]
           /\ cache' = Custom \cup {h} /\ listed' = listed \cup {h}
           /\ discovered' = discovered \cup {h}
  <2>1. Active' \subseteq Active \cup {h}
    BY <1>3 DEF Active, AddonTypeOK
  <2> QED BY <1>1, <1>3, <2>1 DEF AddonTypeOK
<1> QED BY <1>2, <1>3 DEF Registers

LEMMA RegistersNotKeeps ==
    ASSUME AddonTypeOK, KnownOnly, NEW h, RegistersNot(h)
    PROVE  /\ cache' \subseteq listed'
           /\ UNCHANGED <<discovered, domains, listed>> /\ Active' = Active
BY CustomListed DEF RegistersNot, KnownOnly, Active

\* Whatever is recorded besides responses leaves a flow's pairs whole.
LEMMA WholeKept ==
    ASSUME NEW g \in Flows, Whole(g), UNCHANGED <<mode, kind>>,
           stage'[g] = stage[g] \/ stage'[g] # "done",
           unstored \subseteq unstored', records \subseteq records',
           \A r \in records' \ records : r.flow = g => r.direction # "response"
    PROVE  Whole(g)'
<1>1. ASSUME NEW pair, NEW direction, Record(g, pair, direction) \in records
      PROVE  Record(g, pair, direction) \in records'
  BY <1>1
<1>2. ASSUME NEW pair, Record(g, pair, "response") \in records'
      PROVE  Record(g, pair, "response") \in records
  BY <1>2 DEF Record
<1> QED BY <1>1, <1>2 DEF Whole, Recorded

\* A flow that takes no part keeps what is tracked of it.
LEMMA TrackedKept ==
    ASSUME NEW g \in Flows, Tracked(g), UNCHANGED <<mode, kind>>,
           stage'[g] = stage[g], meta'[g].pair = meta[g].pair,
           unstored \subseteq unstored', records \subseteq records'
    PROVE  Tracked(g)'
BY DEF Tracked, Record

LEMMA WarrantKept ==
    ASSUME NEW g \in Flows, Warranted(g), UNCHANGED <<mode, kind>>, listed \subseteq listed'
    PROVE  Warranted(g)'
BY DEF Warranted

\* A host that is found, or whose request is recognized, is warranted.
LEMMA ResolvedWarranted ==
    ASSUME NEW f \in Flows, KnownOnly, Resolved(kind[f].host)
    PROVE  Warranted(f)
BY CustomListed DEF Resolved, Warranted

LEMMA HostOf ==
    ASSUME NEW f \in Flows, AddonTypeOK
    PROVE  kind[f].host \in AllowList \cup Hosts
BY AddonAssumption DEF AddonTypeOK, FlowKinds

LEMMA RequestKeeps ==
    ASSUME NEW f \in Flows, AddonInv, Request(f) PROVE AddonInv'
<1> DEFINE h == kind[f].host
           heuristic == ~Resolved(h) /\ mode = "smart"
           new == {Record(f, "request", "request")}
<1>1. AddonTypeOK /\ KnownOnly /\ h \in AllowList \cup Hosts
  BY HostOf DEF AddonInv
<1>2. heuristic => h \in Hosts
  BY <1>1 DEF Resolved
<1>3. /\ cache' \subseteq listed' /\ listed \subseteq listed' /\ Active' \subseteq listed'
      /\ listed' \subseteq Hosts /\ discovered' \subseteq Hosts
      /\ domains' \in [Hosts -> {"absent", "active", "inactive"}]
  <2>1. CASE heuristic /\ kind[f].asks
    <3>1. Registers(h)
      BY <2>1 DEF Request
    <3> QED BY <1>1, <1>2, <2>1, <3>1, RegistersKeeps
  <2>2. CASE ~(heuristic /\ kind[f].asks)
    <3>1. RegistersNot(h)
      BY <2>2 DEF Request
    <3> QED BY <1>1, <3>1, RegistersNotKeeps DEF AddonTypeOK, KnownOnly
  <2> QED BY <2>1, <2>2
<1>4. UNCHANGED <<mode, kind, socket, frames>> /\ stage' = [stage EXCEPT ![f] = "asked"]
  BY DEF Request
<1>5. /\ records \subseteq records' /\ records' \subseteq records \cup new
      /\ records' \subseteq Records
      /\ unstored \subseteq unstored' /\ unstored' \subseteq Flows
      /\ meta' \in [Flows -> Metas]
      /\ \A g \in Flows \ {f} : meta'[g] = meta[g]
      /\ \/ /\ Resolved(h) \/ (heuristic /\ kind[f].asks)
            /\ meta'[f].pair = "request"
            /\ f \in unstored' \/ new \subseteq records'
         \/ heuristic /\ ~kind[f].asks /\ meta'[f].pair = "pending"
         \/ mode # "smart" /\ meta' = meta
  <2>0. new \subseteq Records
    BY DEF Record, Records
  <2>1. CASE Resolved(h) \/ (heuristic /\ kind[f].asks)
    <3>1. Tracks(f, "request") /\ Inserts(f, new)
      BY <2>1 DEF Request
    <3> QED BY <1>1, <2>0, <2>1, <3>1, InsertsKeeps DEF Tracks, AddonTypeOK, Metas
  <2>2. CASE ~Resolved(h) /\ heuristic /\ ~kind[f].asks
    <3>1. Tracks(f, "pending") /\ UNCHANGED <<records, unstored>>
      BY <2>2 DEF Request
    <3> QED BY <1>1, <2>2, <3>1 DEF Tracks, AddonTypeOK, Metas
  <2>3. CASE ~Resolved(h) /\ ~heuristic
    <3>1. UNCHANGED <<meta, records, unstored>>
      BY <2>3 DEF Request
    <3> QED BY <1>1, <2>3, <3>1 DEF AddonTypeOK
  <2> QED BY <2>1, <2>2, <2>3
<1>6. AddonTypeOK'
  BY <1>1, <1>3, <1>4, <1>5 DEF AddonTypeOK, Request, Looks
<1>7. KnownOnly'
  <2>1. ASSUME NEW g \in Flows, meta'[g].pair = "request" \/ socket'[g] PROVE Warranted(g)
    <3>1. CASE meta[g].pair = "request" \/ socket[g]
      BY <1>1, <3>1 DEF KnownOnly
    <3>2. CASE ~(meta[g].pair = "request" \/ socket[g])
      <4>1. g = f /\ (Resolved(h) \/ (mode = "smart" /\ kind[f].asks))
        BY <1>4, <1>5, <2>1, <3>2
      <4> QED BY <1>1, <4>1, ResolvedWarranted DEF Warranted
    <3> QED BY <3>1, <3>2
  <2> QED BY <1>3, <1>4, <2>1, WarrantKept DEF KnownOnly
<1>8. ASSUME NEW g \in Flows PROVE Tracked(g)' /\ Whole(g)'
  <2>1. Whole(g)'
    BY <1>1, <1>4, <1>5, WholeKept DEF AddonInv, AddonTypeOK, Record
  <2>2. CASE g # f
    BY <1>1, <1>4, <1>5, <2>1, <2>2, TrackedKept DEF AddonInv, AddonTypeOK
  <2>3. CASE g = f
    <3>1. Tracked(f)
      BY DEF AddonInv
    <3> HIDE DEF h
    <3>2. h = kind[f].host
      BY DEF h
    <3>3. Tracked(f)'
      BY <1>2, <1>4, <1>5, <3>1, <3>2 DEF Tracked, Record
    <3> QED BY <2>1, <2>3, <3>3
  <2> QED BY <2>2, <2>3
<1> QED BY <1>6, <1>7, <1>8 DEF AddonInv

LEMMA ResponseKeeps ==
    ASSUME NEW f \in Flows, AddonInv, Response(f) PROVE AddonInv'
<1> DEFINE pending == meta[f].pair = "pending" /\ Detected(f)
           new == Answered(f)
<1>1. AddonTypeOK /\ KnownOnly /\ Tracked(f) /\ Whole(f)
  BY DEF AddonInv
<1>2. /\ UNCHANGED <<mode, loaded, kind, socket, frames>>
      /\ stage[f] = "answering" /\ stage' = [stage EXCEPT ![f] = "done"]
      /\ meta' = [meta EXCEPT ![f] = Untracked]
  BY DEF Response
<1>3. /\ cache' \subseteq listed' /\ listed \subseteq listed' /\ Active' \subseteq listed'
      /\ listed' \subseteq Hosts /\ discovered' \subseteq Hosts
      /\ domains' \in [Hosts -> {"absent", "active", "inactive"}]
  <2>1. CASE pending
    <3>1. Registers(kind[f].host) /\ kind[f].host \in Hosts
      BY <1>1, <2>1 DEF Response, Tracked
    <3> QED BY <1>1, <3>1, RegistersKeeps
  <2>2. CASE ~pending
    <3>1. UNCHANGED <<cache, discovered, domains, listed>>
      BY <2>2 DEF Response
    <3> QED BY <1>1, <3>1 DEF AddonTypeOK, KnownOnly, Active
  <2> QED BY <2>1, <2>2
<1>4. /\ records \subseteq records' /\ records' \subseteq records \cup new
      /\ records' \subseteq Records
      /\ unstored \subseteq unstored' /\ unstored' \subseteq Flows
      /\ \/ /\ meta[f].pair = "request" \/ pending
            /\ f \in unstored' \/ new \subseteq records'
         \/ ~(meta[f].pair = "request" \/ pending) /\ records' = records
  <2>0. new \subseteq Records
    BY DEF Answered, Record, Records
  <2>1. CASE meta[f].pair = "request" \/ pending
    <3>1. Inserts(f, new)
      BY <2>1 DEF Response
    <3> QED BY <1>1, <2>0, <2>1, <3>1, InsertsKeeps
  <2>2. CASE ~(meta[f].pair = "request" \/ pending)
    <3>1. UNCHANGED <<records, unstored>>
      BY <2>2 DEF Response
    <3> QED BY <1>1, <2>2, <3>1 DEF AddonTypeOK
  <2> QED BY <2>1, <2>2
<1>5. AddonTypeOK'
  BY <1>1, <1>2, <1>3, <1>4 DEF AddonTypeOK, Metas, Untracked
<1>6. KnownOnly'
  <2>1. ASSUME NEW g \in Flows, meta'[g].pair = "request" \/ socket'[g] PROVE Warranted(g)
    BY <1>1, <1>2, <2>1 DEF KnownOnly, AddonTypeOK, Untracked
  <2> QED BY <1>2, <1>3, <2>1, WarrantKept DEF KnownOnly
<1>7. Tracked(f)' /\ Whole(f)'
  <2>1. Tracked(f)'
    BY <1>1, <1>2 DEF Tracked, Untracked, AddonTypeOK
  <2>2. ASSUME f \notin unstored', meta[f].pair = "request" PROVE Whole(f)'
    <3>1. Record(f, "request", "request") \in records' /\ Record(f, "request", "response") \in records'
      BY <1>1, <1>4, <2>2 DEF Tracked, Answered
    <3>2. ASSUME NEW pair \in {"response", "socket"}, Record(f, pair, "response") \in records'
          PROVE  Record(f, pair, "request") \in records'
      <4>1. Record(f, pair, "response") \in records
        BY <1>4, <2>2, <3>2 DEF Answered, Record
      <4> QED BY <1>1, <1>4, <2>2, <4>1 DEF Whole
    <3> QED BY <3>1, <3>2 DEF Whole, Recorded
  <2>3. ASSUME f \notin unstored', pending PROVE Whole(f)'
    <3>1. Record(f, "response", "request") \in records' /\ Record(f, "response", "response") \in records'
      BY <1>4, <2>3 DEF Answered
    <3>2. ASSUME NEW pair \in {"request", "socket"}, Record(f, pair, "response") \in records'
          PROVE  Record(f, pair, "request") \in records'
      <4>1. Record(f, pair, "response") \in records
        BY <1>4, <2>3, <3>2 DEF Answered, Record
      <4> QED BY <1>1, <1>4, <2>3, <4>1 DEF Whole
    <3> QED BY <3>1, <3>2 DEF Whole, Recorded
  <2>4. ASSUME f \notin unstored', ~(meta[f].pair = "request" \/ pending) PROVE Whole(f)'
    <3>1. records' = records /\ f \notin unstored
      BY <1>4, <2>4
    <3>2. mode = "smart" => ~kind[f].asks /\ ~(kind[f].answers /\ ~kind[f].encoded)
      BY <1>1, <1>2, <2>4 DEF Tracked, Detected, AddonTypeOK, Metas
    <3> QED BY <1>1, <1>2, <3>1, <3>2 DEF Whole
  <2>5. f \in unstored' => Whole(f)'
    BY DEF Whole
  <2> QED BY <2>1, <2>2, <2>3, <2>4, <2>5
<1>8. ASSUME NEW g \in Flows \ {f} PROVE Tracked(g)' /\ Whole(g)'
  BY <1>1, <1>2, <1>4, WholeKept, TrackedKept DEF AddonInv, AddonTypeOK, Answered, Record
<1> QED BY <1>5, <1>6, <1>7, <1>8 DEF AddonInv

\* Where nothing is recorded and nothing listed is taken off, a flow's tracking
\* may only end.
LEMMA QuietKeeps ==
    ASSUME AddonInv, AddonTypeOK', UNCHANGED <<mode, kind, records, unstored>>,
           cache' \subseteq listed', Active' \subseteq listed',
           \A g \in Flows :
              /\ stage'[g] = stage[g] \/ stage'[g] \notin {"asked", "done"}
              /\ stage'[g] \in {"asked", "answering"} =>
                    stage[g] \in {"asked", "answering"} /\ meta'[g].pair = meta[g].pair
              /\ meta'[g].pair \in {meta[g].pair, "untracked"}
              /\ socket'[g] => socket[g]
              /\ meta'[g].pair = "request" \/ socket'[g] => listed \subseteq listed'
    PROVE  AddonInv'
<1>1. ASSUME NEW g \in Flows PROVE Tracked(g)' /\ Whole(g)'
  <2>1. Whole(g)'
    BY WholeKept DEF AddonInv
  <2>2. Tracked(g)'
    BY DEF AddonInv, Tracked, Record
  <2> QED BY <2>1, <2>2
<1>2. ASSUME NEW g \in Flows, meta'[g].pair = "request" \/ socket'[g] PROVE Warranted(g)'
  BY <1>2, WarrantKept DEF AddonInv, KnownOnly
<1> QED BY <1>1, <1>2 DEF AddonInv, KnownOnly

LEMMA WebsocketMessageKeeps ==
    ASSUME NEW f \in Flows, AddonInv, WebsocketMessage(f) PROVE AddonInv'
<1> DEFINE h == kind[f].host
           new == {Record(f, "socket", "frame")}
<1>1. AddonTypeOK /\ KnownOnly /\ Custom \subseteq listed
  BY CustomListed DEF AddonInv
<1>2. /\ UNCHANGED <<mode, domains, discovered, listed, stage, kind, meta>>
      /\ frames' = [frames EXCEPT ![f] = @ + 1] /\ frames[f] < MaxFrames
  BY DEF WebsocketMessage
<1>3. loaded' \in BOOLEAN /\ cache' \subseteq listed' /\ Active' \subseteq listed'
  BY <1>1, Zenon DEF WebsocketMessage, Looks, AddonTypeOK, KnownOnly, Active
<1>4. /\ records \subseteq records' /\ records' \subseteq records \cup new
      /\ records' \subseteq Records
      /\ unstored \subseteq unstored' /\ unstored' \subseteq Flows
      /\ socket' \in [Flows -> BOOLEAN]
      /\ \A g \in Flows : socket'[g] => socket[g] \/ (g = f /\ Resolved(h))
  <2>0. new \subseteq Records
    BY DEF Record, Records
  <2>1. CASE socket[f] \/ Resolved(h)
    <3>1. Inserts(f, new) /\ socket' = [socket EXCEPT ![f] = TRUE]
      BY <2>1 DEF WebsocketMessage
    <3> QED BY <1>1, <2>0, <2>1, <3>1, InsertsKeeps DEF AddonTypeOK
  <2>2. CASE ~(socket[f] \/ Resolved(h))
    <3>1. UNCHANGED <<socket, records, unstored>>
      BY <2>2 DEF WebsocketMessage
    <3> QED BY <1>1, <3>1 DEF AddonTypeOK
  <2> QED BY <2>1, <2>2
<1>5. AddonTypeOK'
  <2>1. frames' \in [Flows -> 0 .. MaxFrames]
    BY <1>1, <1>2, AddonAssumption DEF AddonTypeOK
  <2>2. cache' \subseteq Hosts
    BY <1>1, <1>2, <1>3 DEF AddonTypeOK
  <2> QED BY <1>1, <1>2, <1>3, <1>4, <2>1, <2>2 DEF AddonTypeOK
<1>6. KnownOnly'
  <2>1. ASSUME NEW g \in Flows, meta'[g].pair = "request" \/ socket'[g] PROVE Warranted(g)
    BY <1>1, <1>2, <1>4, <2>1, ResolvedWarranted DEF KnownOnly
  <2> QED BY <1>2, <1>3, <2>1, WarrantKept DEF KnownOnly
<1>7. ASSUME NEW g \in Flows PROVE Tracked(g)' /\ Whole(g)'
  BY <1>1, <1>2, <1>4, WholeKept, TrackedKept DEF AddonInv, Record
<1> QED BY <1>5, <1>6, <1>7 DEF AddonInv

LEMMA AddonStep == AddonInv /\ [AddonNext]_addonVars => AddonInv'
<1> SUFFICES ASSUME AddonInv, [AddonNext]_addonVars PROVE AddonInv'
  OBVIOUS
<1>0. AddonTypeOK /\ KnownOnly
  BY DEF AddonInv
<1>1. ASSUME NEW h \in Hosts, Lists(h) PROVE AddonInv'
  <2>1. Active' \subseteq Active \cup {h}
    BY <1>0, <1>1 DEF Lists, Active, AddonTypeOK
  <2>2. AddonTypeOK'
    BY <1>0, <1>1 DEF Lists, AddonTypeOK, flowVars
  <2> QED BY <1>0, <1>1, <2>1, <2>2, QuietKeeps DEF Lists, flowVars, KnownOnly
<1>2. ASSUME NEW h \in Hosts, Delists(h) PROVE AddonInv'
  <2>1. Active' \subseteq Active
    BY <1>0, <1>2 DEF Delists, Active, AddonTypeOK
  <2>2. AddonTypeOK'
    BY <1>0, <1>2 DEF Delists, AddonTypeOK, flowVars
  <2> QED BY <1>0, <1>2, <2>1, <2>2, QuietKeeps DEF Delists, flowVars, KnownOnly
<1>3. ASSUME NEW f \in Flows, ResponseHeaders(f) PROVE AddonInv'
  <2>1. PICK streams \in BOOLEAN :
           meta' = [meta EXCEPT ![f].streamed = streams /\ meta[f] # Untracked]
    BY <1>3 DEF ResponseHeaders
  <2>2. (streams /\ meta[f] # Untracked) \in BOOLEAN
    BY Zenon
  <2>3. meta' \in [Flows -> Metas] /\ \A g \in Flows : meta'[g].pair = meta[g].pair
    BY <1>0, <2>1, <2>2 DEF AddonTypeOK, Metas
  <2>4. AddonTypeOK'
    BY <1>0, <1>3, <2>3 DEF ResponseHeaders, AddonTypeOK, domainVars
  <2> QED BY <1>0, <1>3, <2>3, <2>4, QuietKeeps
          DEF ResponseHeaders, domainVars, KnownOnly, Active, AddonTypeOK
<1>4. ASSUME NEW f \in Flows, Breaks(f) \/ WebsocketEnd(f) PROVE AddonInv'
  <2>1. AddonTypeOK'
    BY <1>0, <1>4 DEF Breaks, WebsocketEnd, AddonTypeOK, domainVars
  <2> QED BY <1>0, <1>4, <2>1, QuietKeeps
          DEF Breaks, WebsocketEnd, domainVars, KnownOnly, Active, AddonTypeOK
<1>5. ASSUME Restarts PROVE AddonInv'
  <2>1. AddonTypeOK'
    BY <1>0, <1>5 DEF Restarts, AddonTypeOK, Active, Metas, Untracked
  <2>2. ASSUME NEW g \in Flows
        PROVE  /\ stage'[g] = stage[g] \/ stage'[g] = "broken"
               /\ stage'[g] \notin {"asked", "answering"}
               /\ meta'[g].pair = "untracked" /\ ~socket'[g]
    BY <1>0, <1>5 DEF Restarts, AddonTypeOK, Untracked
  <2>3. UNCHANGED <<mode, kind, records, unstored>> /\ cache' = {} /\ Active' = listed'
    BY <1>5 DEF Restarts, Active
  <2> QED BY <2>1, <2>2, <2>3, QuietKeeps
<1>6. CASE UNCHANGED addonVars
  BY <1>6 DEF addonVars, AddonInv, AddonTypeOK, KnownOnly, Active, Tracked, Whole, Warranted,
              Recorded
<1> QED BY <1>1, <1>2, <1>3, <1>4, <1>5, <1>6, RequestKeeps, ResponseKeeps,
           WebsocketMessageKeeps DEF AddonNext

LEMMA AddonStart == AddonInit => AddonInv
<1> SUFFICES ASSUME AddonInit PROVE AddonInv
  OBVIOUS
<1>1. AddonTypeOK
  <2>1. meta \in [Flows -> Metas]
    BY DEF AddonInit, Metas, Untracked
  <2>2. frames \in [Flows -> 0 .. MaxFrames]
    BY AddonAssumption DEF AddonInit
  <2>3. stage \in [Flows -> {"new", "asked", "answering", "done", "broken"}]
    BY DEF AddonInit
  <2> QED BY <2>1, <2>2, <2>3 DEF AddonInit, AddonTypeOK
<1>2. KnownOnly
  BY DEF AddonInit, KnownOnly, Active, Untracked
<1>3. \A f \in Flows : Tracked(f) /\ Whole(f)
  BY DEF AddonInit, Tracked, Whole, Untracked
<1> QED BY <1>1, <1>2, <1>3 DEF AddonInv

\* Every variable of the addon keeps its type (request, response,
\* websocket_message).
THEOREM AddonTypes == AddonSpec => []AddonTypeOK
<1>1. AddonInv => AddonTypeOK
  BY DEF AddonInv
<1> QED BY <1>1, AddonStart, AddonStep, PTL DEF AddonSpec

\* A response on record has its request, and CaptureMode.SMART records both of
\* what it recognizes, for any flows, hosts and traffic (request, response).
THEOREM PairsStayWhole == AddonSpec => []PairsAreWhole
<1>1. AddonInv => PairsAreWhole
  <2> SUFFICES ASSUME AddonInv, NEW f \in Flows \ unstored
               PROVE  /\ \A r \in records : r.flow = f /\ r.direction = "response"
                            => Record(f, r.pair, "request") \in records
                      /\ /\ mode = "smart" /\ stage[f] = "done"
                         /\ kind[f].asks \/ (kind[f].answers /\ ~kind[f].encoded)
                         => Recorded(f, "request") /\ Recorded(f, "response")
    BY Zenon DEF PairsAreWhole
  <2>1. ASSUME NEW r \in records, r.flow = f, r.direction = "response"
        PROVE  r.pair \in {"request", "response", "socket"} /\ r = Record(f, r.pair, "response")
    BY <2>1 DEF AddonInv, AddonTypeOK, Records, Record
  <2> QED BY <2>1 DEF AddonInv, Whole
<1> QED BY <1>1, AddonStart, AddonStep, PTL DEF AddonSpec

\* Only hosts are recorded that the allowlist, the mode, the flow's content or
\* the user's list explain, for any of them (_is_allowlisted).
THEOREM RecordsAreExplained == AddonSpec => OnlyListedRecorded
<1> DEFINE Step == [\A r \in records' \ records : Explained(r)']_addonVars
<1>1. AddonInv /\ AddonInv' /\ [AddonNext]_addonVars => Step
  <2> SUFFICES ASSUME AddonInv, AddonInv', AddonNext, NEW r \in records' \ records
               PROVE  Explained(r)'
    BY DEF addonVars
  <2>1. PICK f \in Flows : Request(f) \/ Response(f) \/ WebsocketMessage(f)
    BY DEF AddonNext, Lists, Delists, ResponseHeaders, Breaks, WebsocketEnd, Restarts, flowVars
  <2>2. r.flow = f /\ UNCHANGED <<mode, kind>>
    BY <2>1 DEF Request, Response, WebsocketMessage, Inserts, Answered, Record
  <2>3. listed \subseteq listed' /\ (Warranted(f) \/ (mode = "smart" /\ kind[f].answers))
    <3>1. CASE Request(f)
      <4>1. Resolved(kind[f].host) \/ (mode = "smart" /\ kind[f].asks)
        BY <3>1 DEF Request
      <4>2. listed \subseteq listed'
        BY <3>1 DEF Request, Registers, RegistersNot
      <4> QED BY <4>1, <4>2, ResolvedWarranted DEF Warranted, AddonInv
    <3>2. CASE Response(f)
      <4>1. meta[f].pair = "request" \/ (meta[f].pair = "pending" /\ kind[f].answers)
        BY <3>2 DEF Response, Detected
      <4>2. listed \subseteq listed'
        BY <3>2 DEF Response, Registers
      <4> QED BY <4>1, <4>2 DEF AddonInv, KnownOnly, Tracked
    <3>3. CASE WebsocketMessage(f)
      <4>1. socket[f] \/ Resolved(kind[f].host)
        BY <3>3 DEF WebsocketMessage
      <4>2. listed' = listed
        BY <3>3 DEF WebsocketMessage
      <4> QED BY <4>1, <4>2, ResolvedWarranted DEF AddonInv, KnownOnly
    <3> QED BY <2>1, <3>1, <3>2, <3>3
  <2> QED BY <2>2, <2>3 DEF Explained, Warranted
<1> QED BY <1>1, AddonStart, AddonStep, PTL DEF AddonSpec, OnlyListedRecorded

---------------------------------------------------------------------------
(* LegDedup: what the entries remember of the claims so far.               *)

\* A primary of a key that no later one has taken the place of.
Latest(n) ==
    /\ answered[n].isPrimary
    /\ \A m \in n + 1 .. Len(answered) :
          ~(answered[m].isPrimary /\ answered[m].key = answered[n].key)

Distinct(s) == \A i, j \in DOMAIN s : s[i].key = s[j].key => i = j

\* A key is remembered once, for its latest primary.
Backed ==
    \A i \in DOMAIN entries : \E n \in DOMAIN answered :
        /\ Latest(n) /\ answered[n].key = entries[i].key
        /\ answered[n].at = entries[i].first /\ answered[n].leg = entries[i].primary

\* A latest primary that is not remembered was pushed out, or a claim has
\* read a clock beyond its window.
Remembered ==
    \A n \in DOMAIN answered : Latest(n) =>
        \/ \E i \in DOMAIN entries : entries[i].key = answered[n].key
        \/ \E m \in n + 1 .. Len(answered) : answered[n].key \in answered[m].pushed
        \/ \E m \in n + 1 .. Len(answered) : answered[m].at - answered[n].at > Window

\* Every primary has a latest one of its key.
Succeeded ==
    \A n \in DOMAIN answered : answered[n].isPrimary =>
        \E m \in n .. Len(answered) : Latest(m) /\ answered[m].key = answered[n].key

\* The earlier primaries of a key, if any, have a last one.
HasLast ==
    \A j \in DOMAIN answered : Earlier(j) # {} =>
        \E i \in Earlier(j) : \A n \in Earlier(j) : n <= i

DedupInv ==
    DedupTypeOK /\ Distinct(entries) /\ Backed /\ Remembered /\ Succeeded /\ HasLast

\* What eviction leaves, and what it takes.
LEMMA LeftOver ==
    ASSUME NEW s \in Seq(Entry), NEW n \in 0 .. Len(s), Distinct(s)
    PROVE  LET left == SubSeq(s, n + 1, Len(s)) IN
           /\ left \in Seq(Entry) /\ Len(left) = Len(s) - n /\ Distinct(left)
           /\ \A i \in DOMAIN left : i + n \in DOMAIN s /\ left[i] = s[i + n]
<1> DEFINE left == SubSeq(s, n + 1, Len(s))
<1>1. left \in Seq(Entry) /\ Len(left) = Len(s) - n
      /\ \A i \in 1 .. Len(left) : i + n \in 1 .. Len(s) /\ left[i] = s[i + n]
  OBVIOUS
<1>2. \A i, j \in 1 .. Len(left) : left[i].key = left[j].key => i = j
  BY <1>1 DEF Distinct
<1> HIDE DEF left
<1>3. Distinct(left) BY <1>1, <1>2 DEF Distinct
<1> QED BY <1>1, <1>3 DEF left

\* The entries but one: each of the others is there, and there once.
LEMMA WithoutOne ==
    ASSUME NEW s \in Seq(Entry), Distinct(s), NEW k, NEW w, w = Without(s, k)
    PROVE  /\ w \in Seq(Entry) /\ Len(w) <= Len(s) /\ Distinct(w)
           /\ \A i \in 1 .. Len(w) : w[i].key # k /\ \E j \in 1 .. Len(s) : w[i] = s[j]
           /\ \A j \in 1 .. Len(s) : s[j].key # k => \E i \in 1 .. Len(w) : w[i] = s[j]
           /\ (\E j \in 1 .. Len(s) : s[j].key = k) => Len(w) = Len(s) - 1
<1>1. CASE \A i \in DOMAIN s : s[i].key # k
  BY <1>1 DEF Without
<1>2. CASE \E i \in DOMAIN s : s[i].key = k
  <2> DEFINE at == CHOOSE i \in DOMAIN s : s[i].key = k
             a == SubSeq(s, 1, at - 1)
             b == SubSeq(s, at + 1, Len(s))
  <2>1. at \in 1 .. Len(s) /\ s[at].key = k
    BY <1>2
  <2>2. w = a \o b
    BY <1>2 DEF Without
  <2> HIDE DEF at
  <2>3. a \in Seq(Entry) /\ Len(a) = at - 1 /\ \A i \in 1 .. at - 1 : a[i] = s[i]
    BY <2>1
  <2>4. b \in Seq(Entry) /\ Len(b) = Len(s) - at /\ \A i \in 1 .. Len(s) - at : b[i] = s[i + at]
    BY <2>1
  <2> HIDE DEF a, b
  <2>5. /\ w \in Seq(Entry) /\ Len(w) = Len(s) - 1
        /\ \A i \in 1 .. Len(w) : w[i] = IF i < at THEN a[i] ELSE b[i - (at - 1)]
    BY <2>1, <2>2, <2>3, <2>4
  <2>6. \A i \in 1 .. Len(w) : w[i] = IF i < at THEN s[i] ELSE s[i + 1]
    <3> SUFFICES ASSUME NEW i \in 1 .. Len(w) PROVE w[i] = IF i < at THEN s[i] ELSE s[i + 1]
      OBVIOUS
    <3>1. CASE i < at BY <3>1, <2>1, <2>3, <2>5
    <3>2. CASE ~(i < at)
      <4>1. i - (at - 1) \in 1 .. Len(s) - at /\ (i - (at - 1)) + at = i + 1
        BY <3>2, <2>1, <2>5
      <4> QED BY <4>1, <3>2, <2>4, <2>5
    <3> QED BY <3>1, <3>2
  <2>7. \A i \in 1 .. Len(s) : s[i].key = k => i = at
    BY <2>1 DEF Distinct
  <2>8. ASSUME NEW j \in 1 .. Len(s), j # at PROVE \E i \in 1 .. Len(w) : w[i] = s[j]
    <3>1. CASE j < at BY <3>1, <2>1, <2>5, <2>6
    <3>2. CASE j > at
      <4>1. j - 1 \in 1 .. Len(w) /\ ~(j - 1 < at) /\ (j - 1) + 1 = j
        BY <3>2, <2>1, <2>5
      <4> QED BY <4>1, <2>6
    <3> QED BY <3>1, <3>2, <2>1, <2>8
  <2>9. \A i \in 1 .. Len(w) : w[i].key # k /\ \E j \in 1 .. Len(s) : w[i] = s[j]
    <3> SUFFICES ASSUME NEW i \in 1 .. Len(w)
                 PROVE  w[i].key # k /\ \E j \in 1 .. Len(s) : w[i] = s[j]
      OBVIOUS
    <3>1. CASE i < at BY <3>1, <2>1, <2>5, <2>6, <2>7
    <3>2. CASE ~(i < at)
      <4>1. i + 1 \in 1 .. Len(s) /\ i + 1 # at BY <3>2, <2>1, <2>5
      <4> QED BY <4>1, <3>2, <2>6, <2>7
    <3> QED BY <3>1, <3>2
  <2>10. \A i, j \in 1 .. Len(w) : w[i].key = w[j].key => i = j
    <3> SUFFICES ASSUME NEW i \in 1 .. Len(w), NEW j \in 1 .. Len(w), w[i].key = w[j].key
                 PROVE  i = j
      OBVIOUS
    <3> DEFINE from(x) == IF x < at THEN x ELSE x + 1
    <3>1. \A x \in 1 .. Len(w) : from(x) \in 1 .. Len(s) /\ w[x] = s[from(x)]
      BY <2>1, <2>5, <2>6
    <3>2. from(i) = from(j)
      BY <3>1 DEF Distinct
    <3> QED BY <3>2, <2>1
  <2>11. DOMAIN w = 1 .. Len(w) /\ DOMAIN s = 1 .. Len(s)
    BY <2>5
  <2>12. Distinct(w)
    BY <2>10, <2>11 DEF Distinct
  <2>13. \A j \in 1 .. Len(s) : s[j].key # k => \E i \in 1 .. Len(w) : w[i] = s[j]
    BY <2>1, <2>8
  <2> QED BY <2>5, <2>9, <2>11, <2>12, <2>13
<1> QED BY <1>1, <1>2

\* The latest primary of a key is the last one it was claimed for.
LEMMA LatestIsOne ==
    ASSUME DedupTypeOK, NEW n \in DOMAIN answered, NEW m \in DOMAIN answered,
           Latest(n), Latest(m), answered[n].key = answered[m].key
    PROVE  n = m
BY DEF DedupTypeOK, Latest

\* A claim is one more answer, which ends what it is later than.
LEMMA ClaimAppends ==
    ASSUME DedupTypeOK, NEW a \in Claim, answered' = Append(answered, a),
           NEW last, last = Len(answered) + 1
    PROVE  /\ Len(answered') = Len(answered) + 1
           /\ \A n \in DOMAIN answered : n \in DOMAIN answered' /\ answered'[n] = answered[n]
           /\ answered'[last] = a
           /\ \A n \in DOMAIN answered :
                 Latest(n)' <=> Latest(n) /\ ~(a.isPrimary /\ a.key = answered[n].key)
           /\ Latest(last)' <=> a.isPrimary
<1>1. answered \in Seq(Claim) BY DEF DedupTypeOK
<1>2. /\ Len(answered') = Len(answered) + 1
      /\ \A n \in 1 .. Len(answered) : answered'[n] = answered[n]
      /\ answered'[last] = a
  BY <1>1
<1>3. ASSUME NEW n \in 1 .. Len(answered)
      PROVE  Latest(n)' <=> Latest(n) /\ ~(a.isPrimary /\ a.key = answered[n].key)
  <2>1. n + 1 .. Len(answered') = (n + 1 .. Len(answered)) \cup {last}
    BY <1>1, <1>2
  <2> QED BY <1>1, <1>2, <2>1 DEF Latest
<1>4. Latest(last)' <=> a.isPrimary
  <2>1. last + 1 .. Len(answered') = {}
    BY <1>1, <1>2
  <2> QED BY <1>1, <1>2, <2>1 DEF Latest
<1> QED BY <1>1, <1>2, <1>3, <1>4


\* What a claim does to the entries: that of its key is e, the others stay
\* unless they are beyond the window or pushed out.
EntriesMove(k, now, e, pushed) ==
    /\ \A i \in DOMAIN entries' :
          \/ entries'[i] = e
          \/ \E j \in DOMAIN entries : entries'[i] = entries[j] /\ entries[j].key # k
    /\ \A j \in DOMAIN entries : entries[j].key # k =>
          \/ \E i \in DOMAIN entries' : entries'[i] = entries[j]
          \/ entries[j].first < now - Window
          \/ entries[j].key \in pushed
    /\ \E i \in DOMAIN entries' : entries'[i] = e

LEMMA MoveKeepsMemory ==
    ASSUME DedupInv, DedupTypeOK', NEW k \in Claimed, NEW now \in 0 .. MaxClock, NEW e \in Entry,
           NEW a \in Claim, answered' = Append(answered, a), a.key = k, a.at = now,
           e.key = k, EntriesMove(k, now, e, a.pushed),
           a.isPrimary => e.first = now /\ e.primary = a.leg,
           ~a.isPrimary => \E j \in DOMAIN entries : entries[j] = e
    PROVE  Backed' /\ Remembered' /\ Succeeded'
<1> DEFINE last == Len(answered) + 1
<1> USE DedupAssumption DEF DedupAssumption
<1>1. answered \in Seq(Claim) /\ answered' \in Seq(Claim) /\ entries \in Seq(Entry)
      /\ entries' \in Seq(Entry)
  BY DEF DedupInv, DedupTypeOK
<1>2. /\ Len(answered') = last /\ last \in DOMAIN answered'
      /\ \A n \in DOMAIN answered : n \in DOMAIN answered' /\ answered'[n] = answered[n]
      /\ answered'[last] = a
  BY <1>1, ClaimAppends DEF DedupInv
<1>3. \A n \in DOMAIN answered : Latest(n)' <=> Latest(n) /\ ~(a.isPrimary /\ a.key = answered[n].key)
  BY ClaimAppends DEF DedupInv
<1>4. \A l : l = last => (Latest(l)' <=> a.isPrimary)
  BY ClaimAppends DEF DedupInv
<1>5. last \in Nat /\ DOMAIN answered' = DOMAIN answered \cup {last}
      /\ DOMAIN answered = 1 .. Len(answered)
  BY <1>1, <1>2
<1> HIDE DEF last
<1>6. Backed'
  <2> SUFFICES ASSUME NEW i \in DOMAIN entries'
               PROVE  \E n \in DOMAIN answered' :
                        /\ Latest(n)' /\ answered'[n].key = entries'[i].key
                        /\ answered'[n].at = entries'[i].first /\ answered'[n].leg = entries'[i].primary
    BY DEF Backed
  <2>1. CASE entries'[i] = e /\ a.isPrimary
    BY <2>1, <1>2, <1>4
  <2>2. CASE entries'[i] = e /\ ~a.isPrimary
    <3>1. PICK j \in DOMAIN entries : entries[j] = e
      BY <2>2
    <3>2. PICK n \in DOMAIN answered :
            /\ Latest(n) /\ answered[n].key = e.key
            /\ answered[n].at = e.first /\ answered[n].leg = e.primary
      BY <3>1 DEF DedupInv, Backed
    <3> QED BY <2>2, <3>2, <1>2, <1>3
  <2>3. CASE \E j \in DOMAIN entries : entries'[i] = entries[j] /\ entries[j].key # k
    <3>1. PICK j \in DOMAIN entries : entries'[i] = entries[j] /\ entries[j].key # k
      BY <2>3
    <3>2. PICK n \in DOMAIN answered :
            /\ Latest(n) /\ answered[n].key = entries[j].key
            /\ answered[n].at = entries[j].first /\ answered[n].leg = entries[j].primary
      BY DEF DedupInv, Backed
    <3> QED BY <3>1, <3>2, <1>2, <1>3
  <2> QED BY <2>1, <2>2, <2>3 DEF EntriesMove
<1>7. Remembered'
  <2> SUFFICES ASSUME NEW n \in DOMAIN answered', Latest(n)'
               PROVE  \/ \E i \in DOMAIN entries' : entries'[i].key = answered'[n].key
                      \/ \E m \in n + 1 .. Len(answered') : answered'[n].key \in answered'[m].pushed
                      \/ \E m \in n + 1 .. Len(answered') : answered'[m].at - answered'[n].at > Window
    BY DEF Remembered
  <2>1. CASE answered'[n].key = k
    BY <2>1 DEF EntriesMove
  <2>2. CASE answered'[n].key # k
    <3>1. n \in DOMAIN answered /\ Latest(n) /\ answered'[n] = answered[n] /\ answered[n].key # k
      BY <2>2, <1>2, <1>3, <1>5
    <3>2. last \in n + 1 .. Len(answered')
      BY <3>1, <1>2, <1>5
    <3>3. CASE \E i \in DOMAIN entries : entries[i].key = answered[n].key
      <4>1. PICK i \in DOMAIN entries : entries[i].key = answered[n].key
        BY <3>3
      <4>2. PICK b \in DOMAIN answered :
              Latest(b) /\ answered[b].key = entries[i].key /\ answered[b].at = entries[i].first
        BY DEF DedupInv, Backed
      <4>3. b = n
        BY <3>1, <4>1, <4>2, LatestIsOne DEF DedupInv
      <4>4. \/ \E x \in DOMAIN entries' : entries'[x] = entries[i]
            \/ entries[i].first < now - Window
            \/ entries[i].key \in a.pushed
        BY <3>1, <4>1 DEF EntriesMove
      <4>5. answered[n].at \in Nat
        <5>1. answered[n] \in Claim
          BY <1>1, <3>1
        <5> QED BY <5>1 DEF Claim
      <4>6. CASE entries[i].first < now - Window
        <5>1. answered'[last].at - answered'[n].at > Window
          BY <4>2, <4>3, <4>5, <4>6, <3>1, <1>2
        <5> QED BY <5>1, <3>2
      <4> QED BY <4>1, <4>4, <4>6, <3>1, <3>2, <1>2
    <3>4. CASE \E m \in n + 1 .. Len(answered) : answered[n].key \in answered[m].pushed
      BY <3>1, <3>4, <1>2, <1>5
    <3>5. CASE \E m \in n + 1 .. Len(answered) : answered[m].at - answered[n].at > Window
      BY <3>1, <3>5, <1>2, <1>5
    <3> QED BY <3>1, <3>3, <3>4, <3>5 DEF DedupInv, Remembered
  <2> QED BY <2>1, <2>2
<1>8. Succeeded'
  <2> SUFFICES ASSUME NEW n \in DOMAIN answered', answered'[n].isPrimary
               PROVE  \E m \in n .. Len(answered') : Latest(m)' /\ answered'[m].key = answered'[n].key
    BY DEF Succeeded
  <2>1. CASE a.isPrimary /\ answered'[n].key = k
    BY <2>1, <1>2, <1>4, <1>5
  <2>2. CASE ~(a.isPrimary /\ answered'[n].key = k)
    <3>1. n \in DOMAIN answered /\ answered[n] = answered'[n]
      BY <2>2, <1>2, <1>5
    <3>2. PICK m \in n .. Len(answered) : Latest(m) /\ answered[m].key = answered[n].key
      BY <3>1 DEF DedupInv, Succeeded
    <3>3. m \in DOMAIN answered /\ m \in n .. Len(answered')
      BY <3>1, <3>2, <1>2, <1>5
    <3> QED BY <2>2, <3>1, <3>2, <3>3, <1>2, <1>3
  <2> QED BY <2>1, <2>2
<1> QED BY <1>6, <1>7, <1>8

\* What a claim finds of the other keys: each of their entries is there, and
\* there once, unless it was evicted.
Found(w, k, now) ==
    /\ w \in Seq(Entry) /\ Distinct(w)
    /\ \A i \in 1 .. Len(w) : \E j \in DOMAIN entries : w[i] = entries[j] /\ entries[j].key # k
    /\ \A j \in DOMAIN entries : entries[j].key # k =>
          (\E i \in 1 .. Len(w) : w[i] = entries[j]) \/ entries[j].first < now - Window

LEMMA ClaimFinds ==
    ASSUME DedupTypeOK, Distinct(entries), NEW k, NEW now,
           NEW n \in 0 .. Len(entries), \A i \in 1 .. n : Expired(entries[i], now)
    PROVE  LET left == SubSeq(entries, n + 1, Len(entries)) IN
           /\ Found(Without(left, k), k, now) /\ Len(Without(left, k)) <= Len(left)
           /\ (\E j \in 1 .. Len(left) : left[j].key = k) => Len(Without(left, k)) = Len(left) - 1
<1> DEFINE left == SubSeq(entries, n + 1, Len(entries))
           w == Without(left, k)
<1>1. entries \in Seq(Entry) /\ DOMAIN entries = 1 .. Len(entries)
  BY DEF DedupTypeOK
<1>2. /\ left \in Seq(Entry) /\ Len(left) = Len(entries) - n /\ Distinct(left)
      /\ \A i \in DOMAIN left : i + n \in DOMAIN entries /\ left[i] = entries[i + n]
  BY <1>1, LeftOver
<1> HIDE DEF left
<1>3. /\ w \in Seq(Entry) /\ Len(w) <= Len(left) /\ Distinct(w)
      /\ \A i \in 1 .. Len(w) : w[i].key # k /\ \E j \in 1 .. Len(left) : w[i] = left[j]
      /\ \A j \in 1 .. Len(left) : left[j].key # k => \E i \in 1 .. Len(w) : w[i] = left[j]
      /\ (\E j \in 1 .. Len(left) : left[j].key = k) => Len(w) = Len(left) - 1
  BY <1>2, WithoutOne
<1> HIDE DEF w
<1>4. DOMAIN left = 1 .. Len(left) /\ Len(left) \in Nat
  BY <1>2
<1>5. \A j \in n + 1 .. Len(entries) : j - n \in 1 .. Len(left) /\ left[j - n] = entries[j]
  BY <1>1, <1>2, <1>4
<1>6. ASSUME NEW i \in 1 .. Len(w)
      PROVE  \E j \in DOMAIN entries : w[i] = entries[j] /\ entries[j].key # k
  <2>1. PICK j \in 1 .. Len(left) : w[i] = left[j]
    BY <1>3
  <2>2. j + n \in DOMAIN entries /\ left[j] = entries[j + n]
    BY <1>2, <1>4
  <2> QED BY <2>1, <2>2, <1>3
<1>7. ASSUME NEW j \in DOMAIN entries, entries[j].key # k
      PROVE  (\E i \in 1 .. Len(w) : w[i] = entries[j]) \/ entries[j].first < now - Window
  <2>1. CASE j \in 1 .. n
    BY <2>1 DEF Expired
  <2>2. CASE j \in n + 1 .. Len(entries)
    BY <2>2, <1>3, <1>5, <1>7
  <2> QED BY <2>1, <2>2, <1>1
<1> QED BY <1>3, <1>6, <1>7 DEF Found, left, w

\* The entry of the key goes to the near end.
LEMMA PutsBack ==
    ASSUME NEW k, NEW now, NEW w, Found(w, k, now), NEW e \in Entry, e.key = k,
           entries' = Append(w, e)
    PROVE  /\ EntriesMove(k, now, e, {}) /\ entries' \in Seq(Entry) /\ Distinct(entries)'
           /\ Len(entries') = Len(w) + 1
<1>1. w \in Seq(Entry) /\ Len(w) \in Nat /\ DOMAIN w = 1 .. Len(w)
  BY DEF Found
<1>2. /\ entries' \in Seq(Entry) /\ Len(entries') = Len(w) + 1
      /\ entries'[Len(w) + 1] = e /\ \A i \in 1 .. Len(w) : entries'[i] = w[i]
  BY <1>1
<1>3. DOMAIN entries' = 1 .. Len(w) + 1
  BY <1>2
<1>4. Distinct(entries)'
  <2>1. \A i \in 1 .. Len(w) : entries'[i].key # k
    BY <1>2 DEF Found
  <2>2. \A i, j \in 1 .. Len(w) : entries'[i].key = entries'[j].key => i = j
    BY <1>1, <1>2 DEF Found, Distinct
  <2> QED BY <2>1, <2>2, <1>1, <1>2, <1>3 DEF Distinct
<1>5. \A i \in DOMAIN entries' :
          entries'[i] = e \/ \E j \in DOMAIN entries : entries'[i] = entries[j] /\ entries[j].key # k
  BY <1>1, <1>2, <1>3 DEF Found
<1>6. \A j \in DOMAIN entries : entries[j].key # k =>
          (\E i \in DOMAIN entries' : entries'[i] = entries[j]) \/ entries[j].first < now - Window
  BY <1>1, <1>2, <1>3 DEF Found
<1>7. \E i \in DOMAIN entries' : entries'[i] = e
  BY <1>1, <1>2, <1>3
<1> QED BY <1>2, <1>4, <1>5, <1>6, <1>7 DEF EntriesMove

\* And the far end is pushed out.
LEMMA PushesOut ==
    ASSUME NEW k, NEW now, NEW w, Found(w, k, now), NEW e \in Entry, e.key = k,
           entries' = Tail(Append(w, e)), Len(w) >= 1
    PROVE  /\ EntriesMove(k, now, e, {Append(w, e)[1].key}) /\ entries' \in Seq(Entry)
           /\ Distinct(entries)' /\ Len(entries') = Len(w)
<1>1. w \in Seq(Entry) /\ Len(w) \in Nat /\ DOMAIN w = 1 .. Len(w)
  BY DEF Found
<1>2. Append(w, e) \in Seq(Entry) /\ Len(Append(w, e)) = Len(w) + 1 /\ Append(w, e)[1] = w[1]
      /\ Append(w, e)[Len(w) + 1] = e /\ \A i \in 1 .. Len(w) : Append(w, e)[i] = w[i]
  BY <1>1
<1>3. /\ entries' \in Seq(Entry) /\ Len(entries') = Len(w) /\ DOMAIN entries' = 1 .. Len(w)
      /\ entries'[Len(w)] = e /\ \A i \in 1 .. Len(w) - 1 : entries'[i] = w[i + 1]
  BY <1>1, <1>2
<1>4. Distinct(entries)'
  <2>1. \A i \in 1 .. Len(w) - 1 : entries'[i].key # k
    <3> SUFFICES ASSUME NEW i \in 1 .. Len(w) - 1 PROVE entries'[i].key # k
      OBVIOUS
    <3>1. i + 1 \in 1 .. Len(w) /\ entries'[i] = w[i + 1]
      BY <1>1, <1>3
    <3> QED BY <3>1 DEF Found
  <2>2. ASSUME NEW i \in 1 .. Len(w) - 1, NEW j \in 1 .. Len(w) - 1, entries'[i].key = entries'[j].key
        PROVE  i = j
    <3>1. i + 1 \in DOMAIN w /\ j + 1 \in DOMAIN w /\ w[i + 1].key = w[j + 1].key
      BY <1>1, <1>3, <2>2
    <3>2. i + 1 = j + 1
      BY <3>1 DEF Found, Distinct
    <3> QED BY <3>2
  <2> QED BY <2>1, <2>2, <1>1, <1>3 DEF Distinct
<1>5. ASSUME NEW i \in DOMAIN entries'
      PROVE  entries'[i] = e \/ \E j \in DOMAIN entries : entries'[i] = entries[j] /\ entries[j].key # k
  <2>1. CASE i = Len(w)
    BY <2>1, <1>3
  <2>2. CASE i # Len(w)
    <3>1. i + 1 \in 1 .. Len(w) /\ entries'[i] = w[i + 1]
      BY <2>2, <1>1, <1>3
    <3> QED BY <3>1 DEF Found
  <2> QED BY <2>1, <2>2
<1>6. ASSUME NEW j \in DOMAIN entries, entries[j].key # k
      PROVE  \/ \E i \in DOMAIN entries' : entries'[i] = entries[j]
             \/ entries[j].first < now - Window
             \/ entries[j].key \in {Append(w, e)[1].key}
  <2>1. CASE \E i \in 1 .. Len(w) : w[i] = entries[j]
    <3>1. PICK i \in 1 .. Len(w) : w[i] = entries[j]
      BY <2>1
    <3>2. CASE i = 1
      BY <3>1, <3>2, <1>2
    <3>3. CASE i # 1
      <4>1. i - 1 \in DOMAIN entries' /\ entries'[i - 1] = w[(i - 1) + 1] /\ (i - 1) + 1 = i
        BY <3>3, <1>1, <1>3
      <4> QED BY <4>1, <3>1
    <3> QED BY <3>2, <3>3
  <2> QED BY <2>1, <1>6 DEF Found
<1>7. \E i \in DOMAIN entries' : entries'[i] = e
  BY <1>1, <1>3
<1> QED BY <1>3, <1>4, <1>5, <1>6, <1>7 DEF EntriesMove

\* The property is kept by a claim that is a primary when no entry of its key
\* is within the window, and a duplicate of one that is.
LEMMA ClaimKeepsOne ==
    ASSUME DedupInv, OnePrimaryPerWindow, DedupTypeOK', Succeeded',
           NEW a \in Claim, answered' = Append(answered, a), NEW new, new = Len(answered) + 1,
           a.isPrimary => \A i \in DOMAIN entries :
                             entries[i].key = a.key => a.at - entries[i].first > Window,
           a.isPrimary => (a.late <=> \E i \in DOMAIN answered : answered[i].at > a.at),
           ~a.isPrimary => \E i \in DOMAIN entries :
                             /\ entries[i].key = a.key /\ entries[i].primary = a.primary
                             /\ a.at - entries[i].first <= Window
    PROVE  OnePrimaryPerWindow' /\ HasLast'
<1> DEFINE lastOf(S) == CHOOSE i \in S : \A n \in S : n <= i
<1> USE DedupAssumption DEF DedupAssumption
<1>1. answered \in Seq(Claim) /\ answered' \in Seq(Claim) /\ entries \in Seq(Entry)
  BY DEF DedupInv, DedupTypeOK
<1>2. /\ Len(answered') = new /\ DOMAIN answered' = 1 .. new /\ DOMAIN answered = 1 .. Len(answered)
      /\ \A n \in 1 .. Len(answered) : answered'[n] = answered[n]
      /\ answered'[new] = a /\ Len(answered) \in Nat
  BY <1>1
<1>3. ASSUME NEW j \in 1 .. Len(answered) PROVE Earlier(j)' = Earlier(j)
  BY <1>2, <1>3 DEF Earlier
<1>4. \A n \in 1 .. Len(answered) : answered[n].at \in Nat /\ answered[n].isPrimary \in BOOLEAN
  <2> SUFFICES ASSUME NEW n \in 1 .. Len(answered)
               PROVE  answered[n].at \in Nat /\ answered[n].isPrimary \in BOOLEAN
    OBVIOUS
  <2>1. answered[n] \in Claim BY <1>1, <1>2
  <2> QED BY <2>1 DEF Claim
<1>5. a.at \in Nat /\ a.isPrimary \in BOOLEAN /\ a.late \in BOOLEAN
  BY DEF Claim
<1>6. \A S : S \subseteq Nat /\ (\E i \in S : \A n \in S : n <= i) =>
         lastOf(S) \in S /\ \A n \in S : n <= lastOf(S)
  OBVIOUS
<1> DEFINE Rule(j, E) ==
      IF answered[j].isPrimary
        THEN \/ answered[j].late \/ E = {}
             \/ \E n \in lastOf(E) + 1 .. j - 1 : answered[j].key \in answered[n].pushed
             \/ answered[j].at - answered[lastOf(E)].at > Window
        ELSE /\ E # {}
             /\ answered[j].primary = answered[lastOf(E)].leg
             /\ answered[j].at - answered[lastOf(E)].at <= Window
      RuleNow(j, E) ==
      IF answered'[j].isPrimary
        THEN \/ answered'[j].late \/ E = {}
             \/ \E n \in lastOf(E) + 1 .. j - 1 : answered'[j].key \in answered'[n].pushed
             \/ answered'[j].at - answered'[lastOf(E)].at > Window
        ELSE /\ E # {}
             /\ answered'[j].primary = answered'[lastOf(E)].leg
             /\ answered'[j].at - answered'[lastOf(E)].at <= Window
<1>7. \A j \in DOMAIN answered : Rule(j, Earlier(j))
  BY DEF OnePrimaryPerWindow
<1>8. (\A j \in DOMAIN answered' : RuleNow(j, Earlier(j)')) => OnePrimaryPerWindow'
  BY DEF OnePrimaryPerWindow
<1>9. ASSUME NEW j \in 1 .. Len(answered)
      PROVE  /\ Earlier(j)' # {} => \E i \in Earlier(j)' : \A n \in Earlier(j)' : n <= i
             /\ RuleNow(j, Earlier(j)')
  <2>1. Earlier(j) # {} => \E i \in Earlier(j) : \A n \in Earlier(j) : n <= i
    BY <1>2, <1>9 DEF DedupInv, HasLast
  <2>2. Earlier(j)' = Earlier(j)
    BY <1>3
  <2>3. Earlier(j) \subseteq 1 .. j - 1
    BY DEF Earlier
  <2>4. Rule(j, Earlier(j))
    BY <1>7, <1>2
  <2> DEFINE E == Earlier(j)
             last == lastOf(E)
  <2>5. E # {} => last \in 1 .. j - 1
    BY <2>1, <2>3, <1>6
  <2>6. answered'[j] = answered[j]
    BY <1>2
  <2>7. RuleNow(j, E)
    <3> HIDE DEF E
    <3>1. CASE E = {}
      BY <3>1, <2>4, <2>6 DEF E
    <3>2. CASE E # {}
      <4>1. last \in 1 .. j - 1 /\ answered'[last] = answered[last]
        BY <3>2, <2>5, <1>2
      <4>2. \A n \in last + 1 .. j - 1 : answered'[n] = answered[n]
        BY <4>1, <1>2
      <4>3. Rule(j, E)
        BY <2>4 DEF E
      <4> HIDE DEF last
      <4> QED BY <4>1, <4>2, <4>3, <2>6 DEF last
    <3> QED BY <3>1, <3>2
  <2> QED BY <2>1, <2>2, <2>7
<1>10. /\ Earlier(new)' # {} => \E i \in Earlier(new)' : \A n \in Earlier(new)' : n <= i
       /\ RuleNow(new, Earlier(new)')
  <2> DEFINE E == Earlier(new)'
  <2>1. E = {i \in 1 .. Len(answered) : answered[i].key = a.key /\ answered[i].isPrimary}
    BY <1>2 DEF Earlier
  <2> HIDE DEF E
  <2>2. E \subseteq Nat
    BY <2>1
  <2>3. CASE E = {}
    <3>1. a.isPrimary
      <4> SUFFICES ASSUME ~a.isPrimary PROVE FALSE
        OBVIOUS
      <4>1. PICK i \in DOMAIN entries : entries[i].key = a.key
        OBVIOUS
      <4>2. PICK b \in DOMAIN answered : Latest(b) /\ answered[b].key = entries[i].key
        BY DEF DedupInv, Backed
      <4> QED BY <4>1, <4>2, <2>1, <2>3, <1>2 DEF Latest
    <3> QED BY <2>3, <3>1, <1>2 DEF E
  <2>4. CASE E # {}
    <3>1. PICK p \in E : TRUE
      BY <2>4
    <3>2. PICK m \in p .. Len(answered) : Latest(m) /\ answered[m].key = a.key
      BY <3>1, <2>1, <1>2 DEF DedupInv, Succeeded
    <3>3. m \in 1 .. Len(answered) /\ m \in E
      BY <3>1, <3>2, <2>1, <1>2 DEF Latest
    <3>4. \A n \in E : n <= m
      BY <3>2, <3>3, <2>1, <1>2 DEF Latest
    <3>5. lastOf(E) = m
      <4>1. lastOf(E) \in E /\ \A n \in E : n <= lastOf(E)
        BY <3>3, <3>4, <2>2, <1>6
      <4> HIDE DEF lastOf
      <4>2. lastOf(E) <= m /\ m <= lastOf(E) /\ lastOf(E) \in Nat
        BY <4>1, <3>3, <3>4, <2>2
      <4> QED BY <4>2, <3>3
    <3>6. ASSUME NEW i \in DOMAIN entries, entries[i].key = a.key
          PROVE  answered[m].at = entries[i].first /\ answered[m].leg = entries[i].primary
      <4>1. PICK b \in DOMAIN answered :
              /\ Latest(b) /\ answered[b].key = entries[i].key
              /\ answered[b].at = entries[i].first /\ answered[b].leg = entries[i].primary
        BY DEF DedupInv, Backed
      <4>2. b = m
        BY <4>1, <3>2, <3>3, <3>6, <1>2, LatestIsOne DEF DedupInv
      <4> QED BY <4>1, <4>2
    <3>7. answered'[m] = answered[m] /\ m + 1 .. new - 1 = m + 1 .. Len(answered)
          /\ \A n \in m + 1 .. Len(answered) : answered'[n] = answered[n] /\ answered[n].at \in Nat
      BY <3>3, <1>2, <1>4
    <3>8. answered[m].at \in Nat BY <3>3, <1>4
    <3>9. CASE ~a.isPrimary
      <4>1. PICK i \in DOMAIN entries :
                  /\ entries[i].key = a.key /\ entries[i].primary = a.primary
                  /\ a.at - entries[i].first <= Window
        BY <3>9
      <4>2. a.primary = answered[m].leg /\ a.at - answered[m].at <= Window
        BY <4>1, <3>6
      <4> HIDE DEF lastOf
      <4>3. RuleNow(new, E)
        BY <4>2, <3>5, <3>7, <3>9, <2>4, <1>2
      <4> QED BY <4>3, <3>3, <3>4 DEF E
    <3>10. CASE a.isPrimary
      <4>1. \/ a.late
            \/ \E n \in m + 1 .. Len(answered) : a.key \in answered[n].pushed
            \/ a.at - answered[m].at > Window
        <5>1. CASE \E i \in DOMAIN entries : entries[i].key = answered[m].key
          <6>1. PICK i \in DOMAIN entries : entries[i].key = a.key
            BY <5>1, <3>2
          <6> QED BY <6>1, <3>6, <3>10
        <5>2. CASE \E n \in m + 1 .. Len(answered) : answered[m].key \in answered[n].pushed
          BY <5>2, <3>2
        <5>3. CASE \E n \in m + 1 .. Len(answered) : answered[n].at - answered[m].at > Window
          <6>1. PICK n \in m + 1 .. Len(answered) : answered[n].at - answered[m].at > Window
            BY <5>3
          <6>2. n \in DOMAIN answered
            BY <3>3, <1>2
          <6>3. CASE answered[n].at > a.at
            BY <6>2, <6>3, <3>10
          <6>4. CASE ~(answered[n].at > a.at)
            BY <6>1, <6>4, <3>7, <3>8, <1>5
          <6> QED BY <6>3, <6>4
        <5> QED BY <5>1, <5>2, <5>3, <3>2, <3>3, <1>2 DEF DedupInv, Remembered
      <4> HIDE DEF lastOf
      <4>2. RuleNow(new, E)
        BY <4>1, <3>5, <3>7, <3>10, <1>2
      <4> QED BY <4>2, <3>3, <3>4 DEF E
    <3> QED BY <3>9, <3>10
  <2> QED BY <2>3, <2>4
<1>11. \A j \in DOMAIN answered' : j \in 1 .. Len(answered) \/ j = new
  BY <1>2
<1> HIDE DEF Rule, RuleNow
<1>12. OnePrimaryPerWindow'
  <2>1. ASSUME NEW j \in DOMAIN answered' PROVE RuleNow(j, Earlier(j)')
    BY <1>9, <1>10, <1>11
  <2> QED BY <2>1, <1>8
<1>13. HasLast'
  <2>1. ASSUME NEW j \in DOMAIN answered'
        PROVE  Earlier(j)' # {} => \E i \in Earlier(j)' : \A n \in Earlier(j)' : n <= i
    BY <1>9, <1>10, <1>11
  <2> QED BY <2>1 DEF HasLast
<1> QED BY <1>12, <1>13

LEMMA ClaimStep ==
    ASSUME DedupInv, OnePrimaryPerWindow, NEW l \in Legs, NEW k \in Claimed, Claims(l, k)
    PROVE  DedupInv' /\ OnePrimaryPerWindow'
<1> USE DedupAssumption DEF DedupAssumption
<1> DEFINE now == reading[l]
           late == \E i \in DOMAIN answered : answered[i].at > now
<1>1. /\ entries \in Seq(Entry) /\ Len(entries) <= MaxEntries /\ DOMAIN entries = 1 .. Len(entries)
      /\ answered \in Seq(Claim) /\ now \in 0 .. MaxClock /\ Len(answered) < MaxClaims
      /\ clock' \in 0 .. MaxClock /\ reading' \in [Legs -> -1 .. MaxClock]
  BY DEF DedupInv, DedupTypeOK, Claims
<1>2. PICK n \in 0 .. Len(entries) :
        LET left == SubSeq(entries, n + 1, Len(entries)) IN
        /\ Evicts(n, now)
        /\ \/ /\ \A i \in DOMAIN left : ~Hits(left[i], k, now)
              /\ Primary(l, k, now, left)
           \/ \E i \in DOMAIN left :
              /\ Hits(left[i], k, now)
              /\ Duplicate(l, k, now, left, left[i])
  BY DEF Claims
<1> HIDE DEF now, late
<1> DEFINE left == SubSeq(entries, n + 1, Len(entries))
           w == Without(left, k)
<1>3. /\ left \in Seq(Entry) /\ Len(left) = Len(entries) - n
      /\ \A i \in DOMAIN left : i + n \in DOMAIN entries /\ left[i] = entries[i + n]
  BY <1>1, LeftOver DEF DedupInv
<1>4. \A i \in 1 .. n : Expired(entries[i], now)
  BY <1>2 DEF Evicts
<1>5. /\ Found(w, k, now) /\ Len(w) <= Len(left)
      /\ (\E j \in 1 .. Len(left) : left[j].key = k) => Len(w) = Len(left) - 1
  BY <1>4, ClaimFinds DEF DedupInv
<1>6. w \in Seq(Entry) /\ Len(w) \in Nat
  BY <1>5 DEF Found
<1>7. ASSUME NEW i \in DOMAIN left PROVE i + n \in DOMAIN entries /\ left[i] = entries[i + n]
  BY <1>3
<1>8. ASSUME NEW j \in n + 1 .. Len(entries) PROVE j - n \in DOMAIN left /\ left[j - n] = entries[j]
  <2> HIDE DEF left
  <2>1. j - n \in DOMAIN left /\ (j - n) + n = j
    BY <1>1, <1>3
  <2> QED BY <2>1, <1>3
<1> DEFINE one(a, e) ==
      /\ e \in Entry /\ e.key = k /\ EntriesMove(k, now, e, a.pushed)
      /\ entries' \in Seq(Entry) /\ Len(entries') <= MaxEntries /\ Distinct(entries)'
      /\ a \in Claim /\ answered' = Append(answered, a) /\ a.key = k /\ a.at = now
      /\ a.isPrimary => e.first = now /\ e.primary = a.leg
      /\ ~a.isPrimary => \E j \in DOMAIN entries : entries[j] = e
      /\ a.isPrimary => \A i \in DOMAIN entries : entries[i].key = k => now - entries[i].first > Window
      /\ a.isPrimary => (a.late <=> late)
      /\ ~a.isPrimary => \E i \in DOMAIN entries :
            /\ entries[i].key = k /\ entries[i].primary = a.primary
            /\ now - entries[i].first <= Window
<1>9. ASSUME NEW a, NEW e, one(a, e) PROVE DedupInv' /\ OnePrimaryPerWindow'
  <2>1. /\ answered' \in Seq(Claim) /\ Len(answered') = Len(answered) + 1
        /\ answered' = Append(answered, a) /\ a \in Claim
    BY <1>1, <1>9
  <2>2. DedupTypeOK'
    BY <2>1, <1>1, <1>9 DEF DedupTypeOK
  <2>3. Backed' /\ Remembered' /\ Succeeded'
    BY <2>2, <1>1, <1>9, MoveKeepsMemory
  <2>4. OnePrimaryPerWindow' /\ HasLast'
    <3>1. \E new : new = Len(answered) + 1 OBVIOUS
    <3> QED BY <3>1, <2>2, <2>3, <1>9, ClaimKeepsOne DEF late
  <2> QED BY <2>2, <2>3, <2>4, <1>9 DEF DedupInv
<1>10. CASE /\ \A i \in DOMAIN left : ~Hits(left[i], k, now)
            /\ Primary(l, k, now, left)
  <2> DEFINE e == [key |-> k, first |-> now, primary |-> l]
             new == Append(w, e)
             full == Len(new) > MaxEntries
             a == [key |-> k, leg |-> l, at |-> now, isPrimary |-> TRUE, primary |-> l,
                   late |-> late, pushed |-> IF full THEN {new[1].key} ELSE {}]
  <2>1. e \in Entry /\ e.key = k /\ e.first = now /\ e.primary = l
    BY <1>1 DEF Entry
  <2>2. entries' = (IF full THEN Tail(new) ELSE new) /\ answered' = Append(answered, a)
    BY <1>10 DEF Primary, UnderCap, late
  <2> HIDE DEF w
  <2>3. new \in Seq(Entry) /\ Len(new) = Len(w) + 1 /\ new[1] \in Entry
    <3>1. new \in Seq(Entry) /\ Len(new) = Len(w) + 1
      BY <2>1, <1>6
    <3>2. 1 \in 1 .. Len(new) BY <3>1, <1>6
    <3> HIDE DEF new
    <3> QED BY <3>1, <3>2
  <2> HIDE DEF e
  <2>4. /\ EntriesMove(k, now, e, a.pushed) /\ entries' \in Seq(Entry)
        /\ Len(entries') <= MaxEntries /\ Distinct(entries)'
    <3>1. CASE full
      <4>1. Len(w) >= 1
        BY <3>1, <2>3, <1>6
      <4>2. /\ EntriesMove(k, now, e, {new[1].key}) /\ entries' \in Seq(Entry)
            /\ Distinct(entries)' /\ Len(entries') = Len(w)
        BY <4>1, <3>1, <2>1, <2>2, <1>5, PushesOut
      <4>3. a.pushed = {new[1].key}
        BY <3>1
      <4>4. Len(entries') <= MaxEntries
        <5> HIDE DEF left
        <5>1. Len(left) \in Nat /\ Len(left) <= Len(entries)
          BY <1>1, <1>3
        <5> QED BY <5>1, <4>2, <1>1, <1>5, <1>6
      <4> HIDE DEF a, new
      <4> QED BY <4>2, <4>3, <4>4
    <3>2. CASE ~full
      <4>1. /\ EntriesMove(k, now, e, {}) /\ entries' \in Seq(Entry) /\ Distinct(entries)'
            /\ Len(entries') = Len(w) + 1
        BY <3>2, <2>1, <2>2, <1>5, PutsBack
      <4> QED BY <4>1, <3>2, <2>3
    <3> QED BY <3>1, <3>2
  <2> HIDE DEF new
  <2>5. ASSUME NEW i \in DOMAIN entries, entries[i].key = k PROVE now - entries[i].first > Window
    <3>0. entries[i].first \in 0 .. MaxClock
      <4>1. entries[i] \in Entry BY <1>1
      <4> QED BY <4>1 DEF Entry
    <3>1. CASE i \in 1 .. n
      BY <3>0, <3>1, <1>1, <1>4 DEF Expired
    <3>2. CASE i \in n + 1 .. Len(entries)
      <4>1. ~Hits(entries[i], k, now)
        BY <3>2, <1>8, <1>10
      <4> QED BY <4>1, <3>0, <2>5, <1>1 DEF Hits
    <3> QED BY <3>1, <3>2, <1>1
  <2>6. a \in Claim
    <3>1. new[1].key \in Claimed
      BY <2>3 DEF Entry
    <3>2. late \in BOOLEAN
      BY DEF late
    <3> HIDE DEF late
    <3> QED BY <3>1, <3>2, <1>1 DEF Claim
  <2>7. /\ a.key = k /\ a.leg = l /\ a.at = now /\ a.isPrimary = TRUE /\ a.late = late
    OBVIOUS
  <2> HIDE DEF a
  <2>8. one(a, e)
    BY <2>1, <2>2, <2>4, <2>5, <2>6, <2>7
  <2> HIDE DEF one
  <2> QED BY <2>8, <1>9
<1>11. ASSUME NEW i \in DOMAIN left, Hits(left[i], k, now), Duplicate(l, k, now, left, left[i])
       PROVE  DedupInv' /\ OnePrimaryPerWindow'
  <2> DEFINE e == left[i]
             a == [key |-> k, leg |-> l, at |-> now, isPrimary |-> FALSE, primary |-> e.primary,
                   late |-> late, pushed |-> {}]
  <2>1. entries' = Append(w, e) /\ answered' = Append(answered, a)
    BY <1>11 DEF Duplicate, late
  <2>2. i \in 1 .. Len(left) /\ e \in Entry /\ i + n \in DOMAIN entries /\ e = entries[i + n]
    BY <1>3
  <2> HIDE DEF left, w, e
  <2>3. e.key = k /\ now - e.first <= Window /\ e.primary \in Legs
    BY <2>2, <1>11 DEF Hits, e, Entry
  <2>4. Len(w) = Len(left) - 1
    BY <2>2, <2>3, <1>5 DEF e
  <2>5. /\ EntriesMove(k, now, e, {}) /\ entries' \in Seq(Entry) /\ Distinct(entries)'
        /\ Len(entries') = Len(w) + 1
    BY <2>1, <2>2, <2>3, <1>5, PutsBack
  <2>6. a \in Claim
    <3>1. late \in BOOLEAN
      BY DEF late
    <3> HIDE DEF late
    <3> QED BY <3>1, <2>3, <1>1 DEF Claim
  <2>7. /\ a.key = k /\ a.at = now /\ a.isPrimary = FALSE /\ a.primary = e.primary /\ a.pushed = {}
    OBVIOUS
  <2> HIDE DEF a
  <2>8. Len(entries') <= MaxEntries
    BY <2>4, <2>5, <1>1, <1>3, <1>6
  <2>9. one(a, e)
    BY <2>1, <2>2, <2>3, <2>5, <2>6, <2>7, <2>8
  <2> HIDE DEF one
  <2> QED BY <2>9, <1>9
<1> QED BY <1>2, <1>10, <1>11

\* Every step of the claims keeps them consistent.
LEMMA DedupStep ==
    ASSUME DedupInv, OnePrimaryPerWindow, [DedupNext]_dedupVars
    PROVE  DedupInv' /\ OnePrimaryPerWindow'
<1>1. ASSUME UNCHANGED <<entries, answered>>, clock' \in 0 .. MaxClock,
             reading' \in [Legs -> -1 .. MaxClock]
      PROVE  DedupInv' /\ OnePrimaryPerWindow'
  <2>1. DedupTypeOK' /\ Distinct(entries)'
    BY <1>1 DEF DedupInv, DedupTypeOK, Distinct
  <2>2. \A n : Latest(n)' <=> Latest(n)
    BY <1>1 DEF Latest
  <2>3. \A j : Earlier(j)' = Earlier(j)
    BY <1>1 DEF Earlier
  <2>4. Backed' /\ Remembered' /\ Succeeded'
    BY <1>1, <2>2 DEF DedupInv, Backed, Remembered, Succeeded
  <2>5. HasLast'
    BY <1>1, <2>3 DEF DedupInv, HasLast
  <2>6. OnePrimaryPerWindow'
    BY <1>1, <2>3 DEF OnePrimaryPerWindow
  <2> QED BY <2>1, <2>4, <2>5, <2>6 DEF DedupInv
<1>2. CASE Tick
  BY <1>1, <1>2, DedupAssumption DEF Tick, DedupInv, DedupTypeOK, DedupAssumption
<1>3. ASSUME NEW l \in Legs, ReadsClock(l) PROVE DedupInv' /\ OnePrimaryPerWindow'
  BY <1>1, <1>3, DedupAssumption DEF ReadsClock, DedupInv, DedupTypeOK, DedupAssumption
<1>4. CASE UNCHANGED dedupVars
  BY <1>1, <1>4 DEF dedupVars, DedupInv, DedupTypeOK
<1> QED BY <1>2, <1>3, <1>4, ClaimStep DEF DedupNext

LEMMA DedupStarts == DedupInit => DedupInv /\ OnePrimaryPerWindow
BY DedupAssumption DEF DedupAssumption, DedupInit, DedupInv, DedupTypeOK, Distinct, Backed, Latest,
   Remembered, Succeeded, HasLast, OnePrimaryPerWindow, Earlier

\* Claims are of the right types, whatever the legs do and whichever way the
\* window and the cap are set.
THEOREM DedupTypes == DedupSpec => []DedupTypeOK
<1>1. DedupInv /\ OnePrimaryPerWindow => DedupTypeOK
  BY DEF DedupInv
<1> QED BY <1>1, DedupStarts, DedupStep, PTL DEF DedupSpec

\* Of the legs that saw one exchange the first to claim it is the primary for
\* as long as the window lasts (CaptureDedup.claim).
THEOREM OnePrimary == DedupSpec => []OnePrimaryPerWindow
BY DedupStarts, DedupStep, PTL DEF DedupSpec

===========================================================================
