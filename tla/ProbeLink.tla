----------------------------- MODULE ProbeLink -----------------------------
(***************************************************************************)
(* The probe: a server on the loopback forwards the calls of agents to the *)
(* extension that is attached to it, each under an id of its own, and      *)
(* gives the replies to whoever waits for that id.  The extension's        *)
(* service worker dials the server, again and again, and may have more     *)
(* than one socket: connect() looks at the module's `ws' before it awaits. *)
(*                                                                         *)
(* A link is a WebSocket with its two ends, which learn on their own that  *)
(* it was cut.  One that both have left stands for a new one.              *)
(***************************************************************************)
EXTENDS Naturals, Sequences

CONSTANTS
    Calls,      \* calls of send_request, each with its own id
    Links,      \* WebSockets there can be at a time
    Nobody,     \* no link
    Hello,      \* the first frame of an extension
    MaxDials,   \* bound: connect() calls that are awaiting something
    MaxMishaps  \* bound: cut links, late hellos, dying workers, stopped servers, failing dials

ASSUME ProbeAssumption ==
    /\ Nobody \notin Links /\ Hello \notin Calls
    /\ MaxDials \in Nat \ {0} /\ MaxMishaps \in Nat

VARIABLES
    \* the server
    listening,  \* whether it is started
    attached,   \* _ext: the link of the extension, or Nobody
    session,    \* per link, where its handler stands
    waits,      \* per link, the ids in pending
    \* the calls
    call,       \* where send_request stands
    via,        \* the link a call took
    future,     \* what it awaits
    outcome,    \* what it returned with
    \* the links
    cut,        \* links that are closed, or broken
    down, up,   \* frames to the extension and to the server
    \* the service worker
    awake,      \* whether it runs
    ready,      \* per link, readyState
    socket,     \* ws
    asked,      \* connect() calls that await isProbeEnabled
    dialing,    \* connect() calls that await getProbeUrl
    retrying,   \* reconnectTimer is set
    handling,   \* calls whose verb is being executed
    replied,    \* history: calls whose reply was sent over an open socket
    mishaps     \* history

serverVars == <<listening, attached, session, waits>>
callVars   == <<call, via, future, outcome>>
workerVars == <<awake, ready, socket, asked, dialing, retrying, handling, replied>>
wires      == <<cut, down, up>>
probeVars  == <<serverVars, callVars, wires, workerVars, mishaps>>

ProbeTypeOK ==
    /\ listening \in BOOLEAN /\ attached \in Links \cup {Nobody}
    /\ session \in [Links -> {"none", "greeting", "attached", "leaving"}]
    /\ waits \in [Links -> SUBSET Calls]
    /\ call \in [Calls -> {"idle", "sending", "waiting", "returned"}]
    /\ via \in [Calls -> Links \cup {Nobody}]
    /\ future \in [Calls -> {"open", "set", "failed", "cancelled"}]
    /\ outcome \in [Calls -> {"none", "answer", "refused", "closed", "timeout"}]
    /\ cut \subseteq Links
    /\ down \in [Links -> Seq(Calls)] /\ up \in [Links -> Seq(Calls \cup {Hello})]
    /\ awake \in BOOLEAN /\ ready \in [Links -> {"connecting", "open", "closed"}]
    /\ socket \in Links \cup {Nobody}
    /\ asked \in 0 .. MaxDials /\ dialing \in 0 .. MaxDials
    /\ retrying \in BOOLEAN /\ handling \subseteq Calls /\ replied \subseteq Calls
    /\ mishaps \in 0 .. MaxMishaps

ProbeInit ==
    /\ listening \in BOOLEAN /\ attached = Nobody
    /\ session = [l \in Links |-> "none"] /\ waits = [l \in Links |-> {}]
    /\ call = [c \in Calls |-> "idle"] /\ via = [c \in Calls |-> Nobody]
    /\ future = [c \in Calls |-> "open"] /\ outcome = [c \in Calls |-> "none"]
    /\ cut = {} /\ down = [l \in Links |-> <<>>] /\ up = [l \in Links |-> <<>>]
    /\ awake = FALSE /\ ready = [l \in Links |-> "closed"] /\ socket = Nobody
    /\ asked = 0 /\ dialing = 0 /\ retrying = FALSE
    /\ handling = {} /\ replied = {} /\ mishaps = 0

Mishap == mishaps < MaxMishaps /\ mishaps' = mishaps + 1

-----------------------------------------------------------------------------
(* The server                                                              *)

\* start, of a ProbeServer whose predecessor has left every handler.
ServerStarts ==
    /\ ~listening /\ \A l \in Links : session[l] = "none"
    /\ listening' = TRUE
    /\ UNCHANGED <<attached, session, waits, callVars, wires, workerVars, mishaps>>

\* stop closes what is connected.
ServerStops ==
    /\ listening /\ Mishap
    /\ listening' = FALSE
    /\ cut' = cut \cup {l \in Links : session[l] # "none"}
    /\ UNCHANGED <<attached, session, waits, callVars, down, up, workerVars>>

\* The handshake of a link: _handle awaits its first frame.
Accepts(l) ==
    /\ listening /\ ready[l] = "connecting" /\ session[l] = "none" /\ l \notin cut
    /\ session' = [session EXCEPT ![l] = "greeting"]
    /\ UNCHANGED <<listening, attached, waits, callVars, wires, workerVars, mishaps>>

\* _handle with a hello: the only extension is attached, another one is closed.
Greets(l) ==
    /\ session[l] = "greeting" /\ up[l] # <<>>
    /\ up' = [up EXCEPT ![l] = Tail(@)]
    /\ IF attached = Nobody
         THEN /\ attached' = l /\ session' = [session EXCEPT ![l] = "attached"]
              /\ cut' = cut
         ELSE /\ session' = [session EXCEPT ![l] = "none"] /\ cut' = cut \cup {l}
              /\ attached' = attached
    /\ UNCHANGED <<listening, waits, callVars, down, workerVars, mishaps>>

\* No hello within 15 seconds, or no link any more.
GreetFails(l) ==
    /\ session[l] = "greeting"
    /\ \/ up[l] = <<>> /\ Mishap
       \/ l \in cut /\ UNCHANGED mishaps
    /\ session' = [session EXCEPT ![l] = "none"]
    /\ cut' = cut \cup {l}
    /\ UNCHANGED <<listening, attached, waits, callVars, down, up, workerVars>>

\* A reply is given to whoever waits for it; nobody may.
Receives(l) ==
    /\ session[l] = "attached" /\ up[l] # <<>>
    /\ up' = [up EXCEPT ![l] = Tail(@)]
    /\ LET c == Head(up[l]) IN
          /\ waits' = [waits EXCEPT ![l] = @ \ {c}]
          /\ future' = IF c \in waits[l] /\ future[c] = "open"
                         THEN [future EXCEPT ![c] = "set"] ELSE future
    /\ UNCHANGED <<listening, attached, session, call, via, outcome, cut, down, workerVars, mishaps>>

\* The loop over the frames ends and the heartbeat task is awaited; what was
\* under way is lost.
EndsSession(l) ==
    /\ session[l] = "attached" /\ l \in cut
    /\ session' = [session EXCEPT ![l] = "leaving"]
    /\ up' = [up EXCEPT ![l] = <<>>]
    /\ UNCHANGED <<listening, attached, waits, callVars, cut, down, workerVars, mishaps>>

\* _cleanup_extension tells those who wait and detaches the extension.
ForgetsWaiters(l) == future
FailsWaiters(l) == [c \in Calls |-> IF c \in waits[l] /\ future[c] = "open" THEN "failed" ELSE future[c]]
KeepsExtension(l) == attached
Detached(l) == IF attached = l THEN Nobody ELSE attached

CleansUp(l) ==
    /\ session[l] = "leaving"
    /\ session' = [session EXCEPT ![l] = "none"]
    /\ future' = FailsWaiters(l)
    /\ waits' = [waits EXCEPT ![l] = {}]
    /\ attached' = Detached(l)
    /\ UNCHANGED <<listening, call, via, outcome, wires, workerVars, mishaps>>

-----------------------------------------------------------------------------
(* A call                                                                  *)

Returns(c, how) ==
    /\ call' = [call EXCEPT ![c] = "returned"]
    /\ outcome' = [outcome EXCEPT ![c] = how]

\* send_request up to the lock.
Registers(c) ==
    /\ call[c] = "idle"
    /\ IF attached = Nobody
         THEN Returns(c, "refused") /\ UNCHANGED <<waits, via>>
         ELSE /\ call' = [call EXCEPT ![c] = "sending"]
              /\ via' = [via EXCEPT ![c] = attached]
              /\ waits' = [waits EXCEPT ![attached] = @ \cup {c}]
              /\ outcome' = outcome
    /\ UNCHANGED <<listening, attached, session, future, wires, workerVars, mishaps>>

\* ws.send within the lock: it may also write to a link that it has not heard
\* is cut.
Transmits(c) ==
    /\ call[c] = "sending"
    /\ LET l == via[c] IN
       \/ /\ session[l] = "attached"
          /\ call' = [call EXCEPT ![c] = "waiting"]
          /\ down' = IF l \in cut THEN down ELSE [down EXCEPT ![l] = Append(@, c)]
          /\ UNCHANGED <<waits, outcome>>
       \/ /\ l \in cut /\ Returns(c, "closed")
          /\ waits' = [waits EXCEPT ![l] = @ \ {c}]
          /\ down' = down
    /\ UNCHANGED <<listening, attached, session, via, future, cut, up, workerVars, mishaps>>

\* The future is done.
Resolves(c) ==
    /\ call[c] = "waiting" /\ future[c] # "open"
    /\ Returns(c, IF future[c] = "set" THEN "answer" ELSE "closed")
    /\ UNCHANGED <<serverVars, via, future, wires, workerVars, mishaps>>

TimesOutWaiting(c) ==
    /\ call[c] = "waiting" /\ future[c] = "open"
    /\ Returns(c, "timeout")
    /\ future' = [future EXCEPT ![c] = "cancelled"]
    /\ waits' = [waits EXCEPT ![via[c]] = @ \ {c}]
    /\ UNCHANGED <<listening, attached, session, via, wires, workerVars, mishaps>>

\* The agent's connection ends and its tasks are cancelled: the id stays in
\* pending.
AgentGoes(c) ==
    /\ call[c] \in {"sending", "waiting"}
    /\ Returns(c, "closed")
    /\ future' = IF future[c] = "open" THEN [future EXCEPT ![c] = "cancelled"] ELSE future
    /\ UNCHANGED <<serverVars, via, wires, workerVars, mishaps>>

-----------------------------------------------------------------------------
(* The service worker                                                      *)

\* startProbeRpc.
Wakes ==
    /\ ~awake /\ awake' = TRUE /\ asked' = 1
    /\ UNCHANGED <<serverVars, callVars, wires, ready, socket, dialing, retrying, handling, replied, mishaps>>

\* The browser ends the worker, or system.reload does, and closes its sockets.
Dies ==
    /\ awake /\ Mishap
    /\ awake' = FALSE /\ ready' = [l \in Links |-> "closed"] /\ socket' = Nobody
    /\ asked' = 0 /\ dialing' = 0 /\ retrying' = FALSE /\ handling' = {}
    /\ cut' = cut \cup {l \in Links : ready[l] # "closed"}
    /\ down' = [l \in Links |-> <<>>]
    /\ UNCHANGED <<serverVars, callVars, up, replied>>

\* The reconnect timer, and the keepalive alarm that finds a socket not open.
Retries ==
    /\ asked < MaxDials /\ asked' = asked + 1
    /\ \/ retrying /\ retrying' = FALSE
       \/ socket # Nobody /\ ready[socket] # "open" /\ retrying' = retrying
    /\ UNCHANGED <<serverVars, callVars, wires, awake, ready, socket, dialing, handling, replied, mishaps>>

\* connect() between its two awaits.
Checks ==
    /\ asked > 0 /\ asked' = asked - 1
    /\ IF socket # Nobody /\ ready[socket] = "open"
         THEN dialing' = dialing
         ELSE dialing < MaxDials /\ dialing' = dialing + 1
    /\ UNCHANGED <<serverVars, callVars, wires, awake, ready, socket, retrying, handling, replied, mishaps>>

\* A link nobody holds on to any more.
Unused(l) ==
    /\ ready[l] = "closed" /\ session[l] = "none"
    /\ \A c \in Calls : via[c] = l => call[c] = "returned"

\* connect() after its second await: a new WebSocket, which replaces ws
\* whatever became of that, or an exception.
Dials ==
    /\ dialing > 0 /\ dialing' = dialing - 1
    /\ \/ \E l \in Links :
             /\ Unused(l)
             /\ ready' = [ready EXCEPT ![l] = "connecting"] /\ socket' = l
             /\ cut' = cut \ {l} /\ up' = [up EXCEPT ![l] = <<>>]
             /\ UNCHANGED <<retrying, mishaps>>
       \/ Mishap /\ retrying' = TRUE /\ UNCHANGED <<ready, socket, cut, up>>
    /\ UNCHANGED <<serverVars, callVars, down, awake, asked, handling, replied>>

\* The open event, which sends the hello.
SaysHello(l) ==
    /\ ready[l] = "connecting" /\ session[l] = "greeting"
    /\ ready' = [ready EXCEPT ![l] = "open"]
    /\ up' = [up EXCEPT ![l] = Append(@, Hello)]
    /\ UNCHANGED <<serverVars, callVars, cut, down,
                   awake, socket, asked, dialing, retrying, handling, replied, mishaps>>

\* The close event.
HearsEnd(l) ==
    /\ \/ ready[l] # "closed" /\ l \in cut
       \/ ready[l] = "connecting" /\ session[l] = "none" /\ ~listening
    /\ ready' = [ready EXCEPT ![l] = "closed"]
    /\ socket' = IF socket = l THEN Nobody ELSE socket
    /\ retrying' = TRUE
    /\ handling' = {c \in handling : via[c] # l}   \* their replies go nowhere
    /\ down' = [down EXCEPT ![l] = <<>>]
    /\ UNCHANGED <<serverVars, callVars, cut, up, awake, asked, dialing, replied, mishaps>>

\* handleFrame up to the await of the verb.
Handles(l) ==
    /\ ready[l] = "open" /\ down[l] # <<>>
    /\ handling' = handling \cup {Head(down[l])}
    /\ down' = [down EXCEPT ![l] = Tail(@)]
    /\ UNCHANGED <<serverVars, callVars, cut, up, awake, ready, socket, asked, dialing, retrying,
                   replied, mishaps>>

\* handleFrame after it: the reply, or the error, goes over the socket the
\* request came from.
CurrentSocket(c) == socket
ReplySocket(c) == via[c]

Replies(c) ==
    /\ c \in handling /\ handling' = handling \ {c}
    /\ LET l == ReplySocket(c) IN
          IF l # Nobody /\ ready[l] = "open"
            THEN up' = [up EXCEPT ![l] = Append(@, c)] /\ replied' = replied \cup {c}
            ELSE UNCHANGED <<up, replied>>
    /\ UNCHANGED <<serverVars, callVars, cut, down, awake, ready, socket, asked, dialing, retrying, mishaps>>

-----------------------------------------------------------------------------

\* A link breaks.
Breaks(l) ==
    /\ session[l] # "none" /\ l \notin cut /\ Mishap
    /\ cut' = cut \cup {l}
    /\ UNCHANGED <<serverVars, callVars, down, up, workerVars>>

LinkSteps(l) ==
    \/ Accepts(l) \/ Greets(l) \/ GreetFails(l) \/ Receives(l) \/ EndsSession(l) \/ CleansUp(l)
    \/ SaysHello(l) \/ HearsEnd(l)
CallSteps(c) == Transmits(c) \/ Resolves(c) \/ TimesOutWaiting(c)

ProbeNext ==
    \/ ServerStarts \/ ServerStops
    \/ Wakes \/ Dies \/ Retries \/ Checks \/ Dials
    \/ \E l \in Links : LinkSteps(l) \/ Handles(l) \/ Breaks(l)
    \/ \E c \in Calls : Registers(c) \/ CallSteps(c) \/ AgentGoes(c) \/ Replies(c)

ProbeSpec == ProbeInit /\ [][ProbeNext]_probeVars

-----------------------------------------------------------------------------
(* Properties                                                              *)

\* Whoever waits for a reply is in the books of a connection that has yet to
\* be cleaned up, and so will be told when it ends, whatever the order of its
\* call, the end of the connection and the next extension (send_request,
\* _cleanup_extension).
NobodyWaitsForTheGone ==
    \A c \in Calls : call[c] \in {"sending", "waiting"} /\ future[c] = "open" =>
        c \in waits[via[c]] /\ session[via[c]] \in {"attached", "leaving"}

\* A reply that was sent reaches the call it is for unless the connection of
\* the call ends or the call does, also while the worker has other sockets
\* (handleFrame, _handle_extension).
RepliesAreKept ==
    \A c \in replied :
        \/ \E i \in 1 .. Len(up[via[c]]) : up[via[c]][i] = c
        \/ future[c] # "open" \/ call[c] = "returned"
        \/ via[c] \in cut

\* With a server that keeps listening, an extension is attached in the end
\* and stays so, over a connection both ends hold, however many sockets the
\* worker has dialed meanwhile (scheduleReconnect, _cleanup_extension).
Attached ==
    /\ attached \in Links \ cut
    /\ session[attached] = "attached" /\ ready[attached] = "open"

ExtensionAttaches == <>[]listening => <>[]Attached

=============================================================================
