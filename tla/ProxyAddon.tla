---------------------------- MODULE ProxyAddon ----------------------------
(***************************************************************************)
(* The addon inside mitmproxy: which flows it records, as what, and what   *)
(* it knows of the domains the user lists.  mitmproxy calls the hooks of a *)
(* flow one after the other and those of all flows in one thread; the list *)
(* of domains is a table the API server writes from another process, and   *)
(* the addon keeps a copy of it.  The supervisor restarts the proxy.       *)
(*                                                                         *)
(* What the heuristics say of a request and of a readable response is part *)
(* of the flow.  WebSocket frames follow the upgrade of a flow.            *)
(***************************************************************************)
EXTENDS Integers, FiniteSets

CONSTANTS
    Flows,      \* connections of applications through the proxy
    Traffic,      \* what a flow may be
    AllowList,  \* the hosts of ALLOWED_HOSTS
    Hosts,      \* other hosts
    MaxFrames   \* bound: frames of a WebSocket

FlowKinds == [host : AllowList \cup Hosts, asks : BOOLEAN, answers : BOOLEAN,
              sse : BOOLEAN, encoded : BOOLEAN, upgrade : BOOLEAN]

ASSUME AddonAssumption ==
    /\ Traffic \subseteq FlowKinds
    /\ AllowList \cap Hosts = {}
    /\ MaxFrames \in Nat

VARIABLES
    mode,       \* CAPTURE_MODE
    domains,    \* the hosts of custom_domains, and whether they are active
    loaded,     \* _custom_domains_loaded
    cache,      \* _custom_domains_cache
    discovered, \* _discovered_domains
    stage,      \* how far each flow has come
    kind,       \* what it is
    meta,       \* _flow_meta, per flow
    socket,     \* _ws_state: whether the flow's WebSocket has a pair
    frames,     \* frames so far
    records,       \* raw_captures of the proxy
    unstored,   \* history: flows with an insert that failed
    listed      \* history: hosts listed at some time since the proxy started

domainVars == <<mode, domains, loaded, cache, discovered, listed>>
flowVars   == <<stage, kind, meta, socket, frames, records, unstored>>
addonVars  == <<mode, domains, loaded, cache, discovered, stage, kind, meta,
                socket, frames, records, unstored, listed>>

Untracked == [pair |-> "untracked", streamed |-> FALSE]
Metas == [pair : {"untracked", "pending", "request"}, streamed : BOOLEAN]
Records == [flow : Flows, pair : {"request", "response", "socket"},
            direction : {"request", "response", "frame"}]

AddonTypeOK ==
    /\ mode \in {"allowlist", "smart", "all"}
    /\ domains \in [Hosts -> {"absent", "active", "inactive"}]
    /\ loaded \in BOOLEAN
    /\ cache \subseteq Hosts /\ discovered \subseteq Hosts /\ listed \subseteq Hosts
    /\ stage \in [Flows -> {"new", "asked", "answering", "done", "broken"}]
    /\ kind \in [Flows -> Traffic]
    /\ meta \in [Flows -> Metas]
    /\ socket \in [Flows -> BOOLEAN]
    /\ frames \in [Flows -> 0 .. MaxFrames]
    /\ records \subseteq Records
    /\ unstored \subseteq Flows

Active == {h \in Hosts : domains[h] = "active"}

AddonInit ==
    /\ mode \in {"allowlist", "smart", "all"}
    /\ domains = [h \in Hosts |-> "absent"]
    /\ loaded = FALSE /\ cache = {} /\ discovered = {} /\ listed = {}
    /\ stage = [f \in Flows |-> "new"]
    /\ kind \in [Flows -> Traffic]
    /\ meta = [f \in Flows |-> Untracked]
    /\ socket = [f \in Flows |-> FALSE]
    /\ frames = [f \in Flows |-> 0]
    /\ records = {} /\ unstored = {}

---------------------------------------------------------------------------
(* The domains                                                             *)

\* POST and DELETE of the API server.
Lists(h) ==
    /\ domains' = [domains EXCEPT ![h] = "active"]
    /\ listed' = listed \cup {h}
    /\ UNCHANGED <<mode, loaded, cache, discovered, flowVars>>

Delists(h) ==
    /\ domains[h] = "active"
    /\ domains' = [domains EXCEPT ![h] = "inactive"]
    /\ UNCHANGED <<mode, loaded, cache, discovered, listed, flowVars>>

OnFileAny == {h \in Hosts : domains[h] # "absent"}

\* _load_custom_domains
OnFile == Active

\* get_custom_domains, and the cache once it was called.
Custom == IF loaded THEN cache ELSE OnFile

\* _resolve_host; the table is only read for a host that is not in AllowList.
Resolved(h) == h \in AllowList \cup Custom \/ mode = "all"
Looks(h) == loaded' = (loaded \/ h \in Hosts)

\* _register_discovered_domain; add_custom_domain may fail.
Known(h) == h \in discovered \cup Custom
Registers(h) ==
    \/ /\ ~Known(h)
       /\ discovered' = discovered \cup {h}
       /\ \/ /\ domains' = [domains EXCEPT ![h] = "active"]
             /\ cache' = Custom \cup {h}
             /\ listed' = listed \cup {h}
          \/ cache' = Custom /\ UNCHANGED <<domains, listed>>
    \/ Known(h) /\ cache' = Custom /\ UNCHANGED <<discovered, domains, listed>>

RegistersNot(h) ==
    /\ cache' = IF h \in Hosts THEN Custom ELSE cache
    /\ UNCHANGED <<discovered, domains, listed>>

---------------------------------------------------------------------------
(* The hooks                                                               *)

\* insert_capture returns None when the insert fails.
Inserts(f, new) ==
    \/ records' = records \cup new /\ UNCHANGED unstored
    \/ \E stored \in SUBSET new \ {new} :
          records' = records \cup stored /\ unstored' = unstored \cup {f}

Record(f, pair, direction) == [flow |-> f, pair |-> pair, direction |-> direction]

Tracks(f, pair) == meta' = [meta EXCEPT ![f].pair = pair]

Request(f) ==
    /\ stage[f] = "new" /\ stage' = [stage EXCEPT ![f] = "asked"]
    /\ LET h == kind[f].host
           heuristic == ~Resolved(h) /\ mode = "smart" IN
        /\ Looks(h)
        /\ IF heuristic /\ kind[f].asks THEN Registers(h) ELSE RegistersNot(h)
        /\ IF Resolved(h) \/ (heuristic /\ kind[f].asks)
             THEN Tracks(f, "request") /\ Inserts(f, {Record(f, "request", "request")})
             ELSE /\ IF heuristic THEN Tracks(f, "pending") ELSE UNCHANGED meta
                  /\ UNCHANGED <<records, unstored>>
    /\ UNCHANGED <<mode, kind, socket, frames>>

\* _should_stream: the chunks of the body are kept as they pass.
ResponseHeaders(f) ==
    /\ stage[f] = "asked" /\ stage' = [stage EXCEPT ![f] = "answering"]
    /\ \E streams \in BOOLEAN :
          /\ kind[f].sse => streams
          /\ streams => kind[f].sse \/ kind[f].host \in AllowList
          /\ meta' = [meta EXCEPT ![f].streamed = streams /\ meta[f] # Untracked]
    /\ UNCHANGED <<domainVars, kind, socket, frames, records, unstored>>

\* The heuristics cannot read chunks that are still encoded.
Detected(f) == kind[f].answers /\ ~(meta[f].streamed /\ kind[f].encoded)

AnsweredAlone(f) == {Record(f, "response", "response")}

\* A pending flow's request is stored late, with a pair of its own.
Answered(f) ==
    IF meta[f].pair = "pending"
    THEN {Record(f, "response", "request"), Record(f, "response", "response")}
    ELSE {Record(f, "request", "response")}

Response(f) ==
    /\ stage[f] = "answering" /\ stage' = [stage EXCEPT ![f] = "done"]
    /\ meta' = [meta EXCEPT ![f] = Untracked]
    /\ IF meta[f].pair = "pending" /\ Detected(f) THEN Registers(kind[f].host)
       ELSE UNCHANGED <<cache, discovered, domains, listed>>
    /\ IF meta[f].pair = "request" \/ (meta[f].pair = "pending" /\ Detected(f))
         THEN Inserts(f, Answered(f))
         ELSE UNCHANGED <<records, unstored>>
    /\ UNCHANGED <<mode, loaded, kind, socket, frames>>

\* The connection of a flow breaks: the addon has no hook for that.
Breaks(f) ==
    /\ stage[f] \in {"asked", "answering"} /\ stage' = [stage EXCEPT ![f] = "broken"]
    /\ UNCHANGED <<domainVars, kind, meta, socket, frames, records, unstored>>

\* The host is looked up for the first frame it is found for.
WebsocketMessage(f) ==
    /\ stage[f] = "done" /\ kind[f].upgrade /\ frames[f] < MaxFrames
    /\ frames' = [frames EXCEPT ![f] = @ + 1]
    /\ LET h == kind[f].host IN
        /\ IF socket[f] THEN UNCHANGED <<loaded, cache>>
           ELSE Looks(h) /\ cache' = IF h \in Hosts THEN Custom ELSE cache
        /\ IF socket[f] \/ Resolved(h)
             THEN /\ socket' = [socket EXCEPT ![f] = TRUE]
                  /\ Inserts(f, {Record(f, "socket", "frame")})
             ELSE UNCHANGED <<socket, records, unstored>>
    /\ UNCHANGED <<mode, domains, discovered, listed, stage, kind, meta>>

WebsocketEnd(f) ==
    /\ stage[f] = "done" /\ kind[f].upgrade
    /\ stage' = [stage EXCEPT ![f] = "broken"]
    /\ socket' = [socket EXCEPT ![f] = FALSE]
    /\ UNCHANGED <<domainVars, kind, meta, frames, records, unstored>>

\* The proxy's process ends, with its flows, and is started again.
Restarts ==
    /\ stage' = [f \in Flows |-> IF stage[f] = "new" THEN "new" ELSE "broken"]
    /\ loaded' = FALSE /\ cache' = {} /\ discovered' = {}
    /\ meta' = [f \in Flows |-> Untracked]
    /\ socket' = [f \in Flows |-> FALSE]
    /\ listed' = Active
    /\ UNCHANGED <<mode, domains, kind, frames, records, unstored>>

AddonNext ==
    \/ \E h \in Hosts : Lists(h) \/ Delists(h)
    \/ \E f \in Flows :
          \/ Request(f) \/ ResponseHeaders(f) \/ Response(f) \/ Breaks(f)
          \/ WebsocketMessage(f) \/ WebsocketEnd(f)
    \/ Restarts

AddonSpec == AddonInit /\ [][AddonNext]_addonVars

---------------------------------------------------------------------------
(* Properties                                                              *)

Recorded(f, direction) ==
    \E pair \in {"request", "response"} : Record(f, pair, direction) \in records

\* A response on record has its request on record under the same pair, and in
\* CaptureMode.SMART both are on record of every flow that came to its end and
\* whose request or response is recognized, whatever its host; unless an insert
\* failed, or the response passed in chunks that were still encoded (request,
\* responseheaders, response).
PairsAreWhole ==
    \A f \in Flows \ unstored :
        /\ \A r \in records : r.flow = f /\ r.direction = "response"
               => Record(f, r.pair, "request") \in records
        /\ /\ mode = "smart" /\ stage[f] = "done"
           /\ kind[f].asks \/ (kind[f].answers /\ ~kind[f].encoded)
           => Recorded(f, "request") /\ Recorded(f, "response")

\* What the addon records of a host that the allowlist, CaptureMode.ALL and the
\* flow's own content do not explain, was on the user's list at some time since
\* the proxy's process started (_is_allowlisted, get_custom_domains).
Explained(r) ==
    LET k == kind[r.flow] IN
    \/ k.host \in AllowList \/ mode = "all"
    \/ mode = "smart" /\ (k.asks \/ k.answers)
    \/ k.host \in listed
OnlyListedRecorded ==
    [][\A r \in records' \ records : Explained(r)']_addonVars

\* "ALLOWLIST: only static allowlist + custom domains": no flow that begins
\* with a host that is not active on the list is recorded.
OnlyActiveRecorded ==
    [][\A r \in records' \ records :
          mode = "allowlist" /\ r.direction = "request"
          => kind[r.flow].host \in AllowList \cup Active]_addonVars

============================================================================
