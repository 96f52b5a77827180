------------------------------ MODULE McpRelay ------------------------------
(***************************************************************************)
(* The relay between a host and an MCP server over stdio.  One pump thread *)
(* per direction forwards what it reads and then queues a copy; the        *)
(* observer thread takes the copies, reassembles lines and pairs responses *)
(* with requests; the main thread waits for the server to exit, queues a   *)
(* sentinel and joins the threads for two seconds each.                    *)
(*                                                                         *)
(* A piece is what one read returns.  A frame arrives whole, or in two     *)
(* pieces cut inside its text or before its newline.  A read that returns  *)
(* several lines is several pieces: the pump treats them alike.  Frames    *)
(* are known by their number in the direction they travel.                 *)
(***************************************************************************)
EXTENDS Naturals, Sequences, FiniteSets

CONSTANTS
    Keys,           \* JSON-RPC ids, as str(id) has them
    None,           \* no id
    HostFrames,     \* frames the host may send
    ServerFrames,   \* frames the upstream server may send
    MaxFrames,      \* bound: frames in both directions
    MaxCuts,        \* bound: frames that arrive in two pieces
    PipeSize        \* bound: pieces in a pipe that the pump has not read

Dirs == {"request", "response"}
Offered(d) == IF d = "request" THEN HostFrames ELSE ServerFrames

ASSUME RelayAssumption ==
    /\ None \notin Keys
    /\ MaxFrames \in Nat /\ MaxCuts \in Nat /\ PipeSize \in Nat \ {0}
    /\ HostFrames \cup ServerFrames \subseteq
           [id : Keys \cup {None}, method : BOOLEAN, json : BOOLEAN]

VARIABLES
    host,       \* whether the host keeps its ends of the pipes open
    server,     \* the upstream process
    frames,     \* per direction, the frames whose source has begun to send them
    answers,    \* of each of the server's frames, the request it answers, or 0
    wire,       \* per direction, the pieces the source has written
    forwarded,  \* per direction, how many pieces the pump has written on
    pump,       \* where the pump of each direction stands
    queue,      \* _observer_q: direction and piece, or the sentinel
    queued,     \* history: per direction, how many pieces were put on the queue
    used,       \* per direction, how many pieces the observer has taken
    buffer,     \* request_buf and response_buf: the pieces of an unfinished line
    observer,   \* where the observer thread stands
    seen,       \* per direction, the lines handed to observe()
    pending,    \* _pending: the request stashed under an id, or 0
    mate,       \* the request whose pair id a response was written with, or 0
    main,       \* where run() stands
    overtaken   \* history: responses queued before the request they answer

relayVars == <<host, server, frames, answers, wire, forwarded, pump, queue, queued,
               used, buffer, observer, seen, pending, mate, main, overtaken>>
ends == <<host, server, frames, answers, wire>>
pumps == <<forwarded, pump, queued, overtaken>>
observed == <<used, buffer, observer, seen, pending, mate>>

Numbers == 0 .. MaxFrames
Parts   == {"line", "head", "text", "end"}
Piece   == [frame : 1 .. MaxFrames, part : Parts]
MaxPieces == 2 * MaxFrames
Item    == [dir : Dirs, piece : 1 .. MaxPieces] \cup {[sentinel |-> TRUE]}
Sentinel == [sentinel |-> TRUE]

\* A line of no frame: what a wrong reassembly would hand over.
Garbled == MaxFrames + 1

RelayTypeOK ==
    /\ host \in BOOLEAN
    /\ server \in {"running", "exited"}
    /\ frames \in [Dirs -> Seq(HostFrames \cup ServerFrames)]
    /\ Len(frames["request"]) + Len(frames["response"]) <= MaxFrames
    /\ answers \in [1 .. MaxFrames -> Numbers]
    /\ wire \in [Dirs -> Seq(Piece)] /\ \A d \in Dirs : Len(wire[d]) <= MaxPieces
    /\ forwarded \in [Dirs -> 0 .. MaxPieces]
    /\ pump \in [Dirs -> {"reading", "queuing", "ended"}]
    /\ queue \in Seq(Item)
    /\ queued \in [Dirs -> 0 .. MaxPieces]
    /\ used \in [Dirs -> 0 .. MaxPieces]
    /\ buffer \in [Dirs -> Seq(Piece)]
    /\ observer \in {"running", "drain_request", "drain_response", "ended"}
    /\ seen \in [Dirs -> Seq(1 .. Garbled)]
    /\ pending \in [Keys -> Numbers]
    /\ mate \in [1 .. MaxFrames -> Numbers]
    /\ main \in {"waiting", "terminating", "joining", "returned"}
    /\ overtaken \subseteq 1 .. MaxFrames

RelayInit ==
    /\ host = TRUE /\ server = "running"
    /\ frames = [d \in Dirs |-> <<>>] /\ wire = [d \in Dirs |-> <<>>]
    /\ answers = [n \in 1 .. MaxFrames |-> 0]
    /\ forwarded = [d \in Dirs |-> 0]
    /\ queued = [d \in Dirs |-> 0] /\ used = [d \in Dirs |-> 0]
    /\ pump = [d \in Dirs |-> "reading"]
    /\ queue = <<>>
    /\ buffer = [d \in Dirs |-> <<>>]
    /\ observer = "running"
    /\ seen = [d \in Dirs |-> <<>>]
    /\ pending = [k \in Keys |-> 0]
    /\ mate = [n \in 1 .. MaxFrames |-> 0]
    /\ overtaken = {}
    /\ main = "waiting"

-----------------------------------------------------------------------------
(* The host and the server                                                 *)

Completes(p) == p.part \in {"line", "end"}

\* How many frames were cut so far.
CutsOf(d) == Cardinality({i \in 1 .. Len(wire[d]) : ~Completes(wire[d][i])})
Cuts == CutsOf("request") + CutsOf("response")

PipeHasRoom(d) == Len(wire[d]) < forwarded[d] + PipeSize

\* The source is between two lines.
AtLineStart(d) == wire[d] # <<>> => Completes(wire[d][Len(wire[d])])

SourceOpen(d) == IF d = "request" THEN host ELSE server = "running"
SinkOpen(d)   == IF d = "request" THEN server = "running" ELSE host

\* The server has read the whole line of a request.
Reached(m) ==
    \E i \in 1 .. forwarded["request"] :
        wire["request"][i].frame = m /\ Completes(wire["request"][i])

\* A source sends a line or the beginning of one.  A server answers requests
\* it has got, but may also answer what nobody asked (0).
Say(d, f, part) ==
    /\ main # "returned"
    /\ SourceOpen(d) /\ AtLineStart(d) /\ Len(frames["request"]) + Len(frames["response"]) < MaxFrames
    /\ PipeHasRoom(d) /\ (part = "line" \/ Cuts < MaxCuts)
    /\ frames' = [frames EXCEPT ![d] = Append(@, f)]
    /\ wire' = [wire EXCEPT ![d] = Append(@, [frame |-> Len(frames[d]) + 1, part |-> part])]
    /\ IF d = "request"
         THEN UNCHANGED answers
         ELSE \E m \in {0} \cup {r \in 1 .. Len(frames["request"]) :
                          /\ Reached(r) /\ frames["request"][r] = [f EXCEPT !.method = TRUE]
                          /\ f.json /\ ~f.method /\ f.id # None} :
                answers' = [answers EXCEPT ![Len(frames[d]) + 1] = m]
    /\ UNCHANGED <<host, server, pumps, queue, observed, main>>

\* The rest of a line that was cut.
Finish(d) ==
    /\ main # "returned"
    /\ SourceOpen(d) /\ ~AtLineStart(d) /\ PipeHasRoom(d)
    /\ wire' = [wire EXCEPT ![d] = Append(@, [frame |-> Len(frames[d]), part |-> "end"])]
    /\ UNCHANGED <<host, server, frames, answers, pumps, queue, observed, main>>

HostCloses ==
    /\ main # "returned" /\ host /\ host' = FALSE
    /\ UNCHANGED <<server, frames, answers, wire, pumps, queue, observed, main>>

ServerExits ==
    /\ server = "running" /\ server' = "exited"
    /\ UNCHANGED <<host, frames, answers, wire, pumps, queue, observed, main>>

-----------------------------------------------------------------------------
(* _pipe_observed: the pumps                                               *)

\* One read and the write of what it returned.
PumpForwards(d) ==
    /\ main # "returned"
    /\ pump[d] = "reading" /\ forwarded[d] < Len(wire[d]) /\ SinkOpen(d)
    /\ forwarded' = [forwarded EXCEPT ![d] = @ + 1]
    /\ pump' = [pump EXCEPT ![d] = "queuing"]
    /\ UNCHANGED <<ends, queued, overtaken, queue, observed, main>>

\* The request a line of the server answers has not been put on the queue.
Overtakes(d) ==
    LET p == wire[d][forwarded[d]] IN
    /\ d = "response" /\ p.part # "head" /\ answers[p.frame] # 0
    /\ ~ \E i \in 1 .. queued["request"] :
            /\ wire["request"][i].frame = answers[p.frame]
            /\ Completes(wire["request"][i])

PumpQueue(d) ==
    /\ main # "returned"
    /\ pump[d] = "queuing"
    /\ queue' = Append(queue, [dir |-> d, piece |-> forwarded[d]])
    /\ queued' = [queued EXCEPT ![d] = @ + 1]
    /\ overtaken' = IF Overtakes(d) THEN overtaken \cup {wire[d][forwarded[d]].frame} ELSE overtaken
    /\ pump' = [pump EXCEPT ![d] = "reading"]
    /\ UNCHANGED <<ends, forwarded, observed, main>>

\* End of file at the source, or a broken pipe at the sink: a chunk that
\* could not be forwarded is not queued.
PumpEnds(d) ==
    /\ main # "returned"
    /\ pump[d] = "reading"
    /\ \/ forwarded[d] = Len(wire[d]) /\ ~SourceOpen(d)
       \/ forwarded[d] < Len(wire[d]) /\ ~SinkOpen(d)
    /\ pump' = [pump EXCEPT ![d] = "ended"]
    /\ UNCHANGED <<ends, forwarded, queued, overtaken, queue, observed, main>>

-----------------------------------------------------------------------------
(* JsonRpcObserver                                                         *)

Kind(d, f) ==
    CASE d = "request" /\ f.method /\ f.id = None    -> "notification"
      [] d = "request" /\ f.method /\ f.id # None    -> "request"
      [] d = "response" /\ ~f.method /\ f.id # None  -> "response"
      [] d = "response" /\ f.method                  -> "server_initiated"
      [] OTHER                                       -> "unclassified"

\* _pending.get in place of _pending.pop
PoppedNot(k) == pending
Popped(k) == [pending EXCEPT ![k] = 0]

\* _classify_and_write under the lock.  The row itself is left out: whether
\* insert_capture stored it, it returns, and nothing looks at the result.
ClassifyAndWrite(d, n) ==
    LET f == frames[d][n]
        kind == Kind(d, f) IN
    /\ pending' = CASE kind = "request"  -> [pending EXCEPT ![f.id] = n]
                    [] kind = "response" -> Popped(f.id)
                    [] OTHER             -> pending
    /\ mate' = IF kind = "response" THEN [mate EXCEPT ![n] = pending[f.id]] ELSE mate

\* observe(): what is not JSON is dropped.
Observe(d, n) ==
    /\ seen' = [seen EXCEPT ![d] = Append(@, n)]
    /\ IF n # Garbled /\ frames[d][n].json
         THEN ClassifyAndWrite(d, n)
         ELSE UNCHANGED <<pending, mate>>

-----------------------------------------------------------------------------
(* _observer_worker                                                        *)

\* The line that buf + chunk makes, and whether anything else got into it.
LineOf(buf, p) ==
    CASE buf = <<>> /\ p.part = "line"                              -> p.frame
      [] Len(buf) = 1 /\ p.part = "end" /\ buf[1].frame = p.frame   -> p.frame
      [] OTHER                                                      -> Garbled

SharedBuffer(d) == buffer["request"]
BufferOf(d) == buffer[d]

\* Takes a chunk off the queue: it completes a line, or is kept.
ObserverTakes(d) ==
    /\ main # "returned" /\ observer = "running"
    /\ queue # <<>> /\ Head(queue) # Sentinel /\ Head(queue).dir = d
    /\ LET p == wire[d][Head(queue).piece] IN
         IF Completes(p)
           THEN /\ Observe(d, LineOf(BufferOf(d), p))
                /\ buffer' = [buffer EXCEPT ![d] = <<>>]
           ELSE /\ buffer' = [buffer EXCEPT ![d] = Append(BufferOf(d), p)]
                /\ UNCHANGED <<seen, pending, mate>>
    /\ queue' = Tail(queue)
    /\ used' = [used EXCEPT ![d] = @ + 1]
    /\ UNCHANGED <<ends, pumps, observer, main>>

ObserverStops ==
    /\ main # "returned" /\ observer = "running"
    /\ queue # <<>> /\ Head(queue) = Sentinel
    /\ queue' = Tail(queue)
    /\ observer' = "drain_request"
    /\ UNCHANGED <<ends, pumps, used, buffer, seen, pending, mate, main>>

Drain(d) == IF d = "request" THEN "drain_request" ELSE "drain_response"

\* The final drain: an unterminated line is observed if only its newline is
\* missing; half a frame does not parse and is dropped.
ObserverDrains(d) ==
    /\ main # "returned" /\ observer = Drain(d)
    /\ observer' = IF d = "request" THEN "drain_response" ELSE "ended"
    /\ IF buffer[d] # <<>> /\ buffer[d][1].part = "text"
         THEN Observe(d, buffer[d][1].frame)
         ELSE UNCHANGED <<seen, pending, mate>>
    /\ UNCHANGED <<ends, pumps, queue, used, buffer, main>>

-----------------------------------------------------------------------------
(* run()                                                                   *)

Interrupted ==
    /\ main = "waiting" /\ main' = "terminating"
    /\ UNCHANGED <<ends, pumps, queue, observed>>

\* terminate() had no effect for three seconds.
KillsServer ==
    /\ main = "terminating" /\ server = "running" /\ server' = "exited"
    /\ UNCHANGED <<host, frames, answers, wire, pumps, queue, observed, main>>

\* wait() returns, and the sentinel follows whatever is queued by then.
WaitReturns ==
    /\ main \in {"waiting", "terminating"} /\ server = "exited"
    /\ main' = "joining"
    /\ queue' = Append(queue, Sentinel)
    /\ UNCHANGED <<ends, pumps, observed>>

\* join(timeout=2.0) of every thread: it has ended, or the time is over.
JoinsForever ==
    /\ main = "joining" /\ main' = "returned"
    /\ \A d \in Dirs : pump[d] = "ended"
    /\ observer = "ended"
    /\ UNCHANGED <<ends, pumps, queue, observed>>
Joins ==
    /\ main = "joining" /\ main' = "returned"
    /\ UNCHANGED <<ends, pumps, queue, observed>>

RelayMain == KillsServer \/ WaitReturns \/ Joins

RelayNext ==
    \/ \E d \in Dirs :
          \/ \E f \in Offered(d), part \in Parts \ {"end"} : Say(d, f, part)
          \/ Finish(d) \/ PumpForwards(d) \/ PumpQueue(d) \/ PumpEnds(d)
          \/ ObserverTakes(d) \/ ObserverDrains(d)
    \/ HostCloses \/ ServerExits \/ Interrupted \/ ObserverStops
    \/ RelayMain

RelaySpec == RelayInit /\ [][RelayNext]_relayVars

-----------------------------------------------------------------------------
(* Properties                                                              *)

\* How many lines the other side has been sent the text of.
LinesForwarded(d) ==
    LET last == wire[d][forwarded[d]] IN
    IF forwarded[d] = 0 THEN 0
    ELSE IF last.part = "head" THEN last.frame - 1 ELSE last.frame

RelayTap == INSTANCE StreamTap WITH
    Streams <- Dirs,
    passed  <- [d \in Dirs |-> [n \in 1 .. LinesForwarded(d) |-> n]],
    kept    <- seen

\* The observer is handed the forwarded lines, each once, whole and in order,
\* and never one the other side was not sent (_pipe_observed queues a chunk
\* after writing it, _observer_worker reassembles per direction).
RelayImplementsTap == RelayTap!TapSpec

\* A pair has one request and one response with the same id.  The response
\* gets the request it answers, unless another request has the same str(id),
\* another response came first, or the copy of the request was queued after
\* that of the response (_classify_and_write; the pump forwards before it
\* queues).
SameId(m, n) == frames["request"][m].id = frames["response"][n].id

Unambiguous(m, n) ==
    /\ \A r \in 1 .. Len(frames["request"]) :
           frames["request"][r].id = frames["request"][m].id /\ frames["request"][r].method => r = m
    /\ \A q \in 1 .. n - 1 : ~SameId(m, q)

ResponsesFindRequests ==
    /\ \A n \in 1 .. MaxFrames : mate[n] # 0 =>
          /\ SameId(mate[n], n)
          /\ \A q \in 1 .. MaxFrames : mate[q] = mate[n] => q = n
    /\ \A i \in 1 .. Len(seen["response"]) :
          LET n == seen["response"][i]
              m == answers[n] IN
          m # 0 /\ Unambiguous(m, n) /\ n \notin overtaken => mate[n] = m

\* Once the server has exited, or was told to, run() returns, whatever the
\* pumps are blocked on: joins are bounded and terminate is followed by kill.
RelayReturns == (server = "exited" \/ main = "terminating") ~> main = "returned"

=============================================================================
