--------------------------- MODULE CaptureQueue ---------------------------
(***************************************************************************)
(* The capture path of the browser extension's background service worker:  *)
(* a capture handler posts to the ingest endpoint and, when the post       *)
(* fails, parks the capture in an IndexedDB queue that a retry loop later  *)
(* flushes.  Every await of the TypeScript is a step boundary: handlers    *)
(* and flushes interleave there, and the browser may kill the worker.      *)
(*                                                                         *)
(* Bodies, URLs and timestamps are abstracted to the identity of a         *)
(* capture; IndexedDB's auto-incremented key is the order of insertion.    *)
(***************************************************************************)
EXTENDS Integers, FiniteSets

CONSTANTS
    Captures,     \* the captures content scripts hand to the worker
    Malformed,    \* those the server refuses with a 4xx
    Poison,       \* those the server always answers with a 5xx
    Flushers,     \* callers of CaptureQueue.flush, which is public
    Loop,         \* the caller that is the retry loop
    MaxQueue,     \* MAX_QUEUE_SIZE
    EvictCount,   \* max(1, floor(MAX_QUEUE_SIZE * 0.1))
    Batch,        \* BATCH_SIZE
    MaxBackoff,   \* log2(MAX_RETRY_MS / BASE_RETRY_MS), rounded up
    MaxFaults     \* bound: crashes, lost replies and IndexedDB errors

ASSUME QueueAssumption ==
    /\ IsFiniteSet(Captures)
    /\ Malformed \subseteq Captures
    /\ Poison \subseteq Captures
    /\ Malformed \cap Poison = {}
    /\ Loop \in Flushers
    /\ MaxQueue \in Nat \ {0}
    /\ EvictCount \in 1 .. MaxQueue
    /\ Batch \in Nat \ {0}
    /\ MaxBackoff \in Nat
    /\ MaxFaults \in Nat

VARIABLES
    worker,     \* whether the browser keeps the service worker running
    net,        \* what the ingest endpoint looks like from the extension
    pc,         \* where the handler of each capture stands
    store,      \* the captures in the object store
    key,        \* the auto-incremented id of a stored capture
    nextKey,    \* the key generator of the object store
    aged,       \* queued captures older than MAX_AGE_MS
    flushing,   \* module variable _flushing
    retry,      \* _retryMs = min(BASE_RETRY_MS * 2^retry, MAX_RETRY_MS)
    fpc,        \* where each call of flush stands
    batch,      \* the items a flush has read and not yet handled
    toDelete,   \* idsToDelete of a flush
    toUpdate,   \* idsToUpdate of a flush
    sent,       \* the items of toDelete the server acknowledged
    delivered,  \* how many times the server stored each capture
    excused,    \* history: captures dropped for a stated reason
    faults      \* history: number of faults so far

handlerVars == <<pc, delivered, excused, faults>>
storeVars   == <<store, key, nextKey, aged>>
flushVars   == <<flushing, retry, fpc, batch, toDelete, toUpdate, sent>>
vars == <<worker, net, handlerVars, storeVars, flushVars>>

NetStates   == {"up", "sick", "down"}
HandlerPCs  == {"idle", "posting", "checking", "adding", "done"}
FlushPCs    == {"idle", "reading", "sending", "writing", "counting"}

TypeOK ==
    /\ worker \in {"running", "killed"}
    /\ net \in NetStates
    /\ pc \in [Captures -> HandlerPCs]
    /\ store \subseteq Captures
    /\ key \in [Captures -> Nat]
    /\ nextKey \in Nat
    /\ aged \subseteq Captures
    /\ flushing \in {"yes", "no"}
    /\ retry \in 0 .. MaxBackoff
    /\ fpc \in [Flushers -> FlushPCs]
    /\ batch \in [Flushers -> SUBSET Captures]
    /\ toDelete \in [Flushers -> SUBSET Captures]
    /\ toUpdate \in [Flushers -> SUBSET Captures]
    /\ sent \in [Flushers -> SUBSET Captures]
    /\ delivered \in [Captures -> Nat]
    /\ excused \subseteq Captures
    /\ faults \in 0 .. MaxFaults

Init ==
    /\ worker = "running"
    /\ net \in NetStates
    /\ pc = [c \in Captures |-> "idle"]
    /\ store = {}
    /\ key = [c \in Captures |-> 0]
    /\ nextKey = 1
    /\ aged = {}
    /\ flushing = "no"
    /\ retry = 0
    /\ fpc = [f \in Flushers |-> "idle"]
    /\ batch = [f \in Flushers |-> {}]
    /\ toDelete = [f \in Flushers |-> {}]
    /\ toUpdate = [f \in Flushers |-> {}]
    /\ sent = [f \in Flushers |-> {}]
    /\ delivered = [c \in Captures |-> 0]
    /\ excused = {}
    /\ faults = 0

---------------------------------------------------------------------------
(* What the endpoint does with one POST of c.                              *)

Accepts(c)  == net = "up" /\ c \notin Malformed \cup Poison
Rejects(c)  == net = "up" /\ c \in Malformed
Errs(c)     == net = "sick" \/ (net = "up" /\ c \in Poison)

\* The server stores the capture but the reply never arrives in time.
LosesReply(c) == c \notin Malformed \cup Poison

ServerStores(c) == delivered' = [delivered EXCEPT ![c] = @ + 1]

Fault == faults < MaxFaults /\ faults' = faults + 1

---------------------------------------------------------------------------
(* postToIngestAPI, then CaptureQueue.enqueue.                             *)

\* The captures a handler is working on.
Running == {c \in Captures : pc[c] \notin {"idle", "done"}}

Goto(c, label) == pc' = [pc EXCEPT ![c] = label]

\* A content script's message reaches the worker and passes the gates.
Post(c) ==
    /\ worker = "running" /\ pc[c] = "idle"
    /\ Goto(c, "posting")
    /\ UNCHANGED <<worker, net, storeVars, flushVars, delivered, excused, faults>>

PostAccepted(c) ==
    /\ worker = "running" /\ pc[c] = "posting" /\ Accepts(c)
    /\ ServerStores(c)
    /\ Goto(c, "done")
    /\ UNCHANGED <<worker, net, storeVars, flushVars, excused, faults>>

PostRejected(c) ==
    /\ worker = "running" /\ pc[c] = "posting" /\ Rejects(c)
    /\ excused' = excused \cup {c}
    /\ Goto(c, "done")
    /\ UNCHANGED <<worker, net, storeVars, flushVars, delivered, faults>>

\* A network error, a timeout or a 5xx.  A 4xx whose body cannot be read
\* (resp.text() throws) ends in the same catch block.
PostFailed(c) ==
    /\ worker = "running" /\ pc[c] = "posting"
    /\ \/ (Errs(c) \/ net = "down") /\ UNCHANGED faults
       \/ Rejects(c) /\ Fault
    /\ Goto(c, "checking")
    /\ UNCHANGED <<worker, net, storeVars, flushVars, delivered, excused>>

PostReplyLost(c) ==
    /\ worker = "running" /\ pc[c] = "posting" /\ LosesReply(c)
    /\ Fault
    /\ ServerStores(c)
    /\ Goto(c, "checking")
    /\ UNCHANGED <<worker, net, storeVars, flushVars, excused>>

\* The n oldest items of the object store, or all of it when it is shorter.
IsOldest(T, n) ==
    /\ T \subseteq store
    /\ Cardinality(T) = IF Cardinality(store) < n THEN Cardinality(store) ELSE n
    /\ \A c \in T, d \in store \ T : key[c] < key[d]

\* First transaction of enqueue: make room when the store is full.
EnqueueCheck(c) ==
    /\ worker = "running" /\ pc[c] = "checking"
    /\ \/ /\ Cardinality(store) < MaxQueue
          /\ UNCHANGED <<store, excused>>
       \/ /\ Cardinality(store) >= MaxQueue
          /\ \E T \in SUBSET store :
                /\ IsOldest(T, EvictCount)
                /\ store' = store \ T
                /\ excused' = excused \cup T
    /\ Goto(c, "adding")
    /\ UNCHANGED <<worker, net, key, nextKey, aged, flushVars, delivered, faults>>

\* Second transaction of enqueue.
EnqueueAdd(c) ==
    /\ worker = "running" /\ pc[c] = "adding"
    /\ store' = store \cup {c}
    /\ key' = [key EXCEPT ![c] = nextKey]
    /\ nextKey' = nextKey + 1
    /\ Goto(c, "done")
    /\ UNCHANGED <<worker, net, aged, flushVars, delivered, excused, faults>>

\* Either transaction fails: enqueue swallows the error.
EnqueueFails(c) ==
    /\ worker = "running" /\ pc[c] \in {"checking", "adding"}
    /\ Fault
    /\ excused' = excused \cup {c}
    /\ Goto(c, "done")
    /\ UNCHANGED <<worker, net, storeVars, flushVars, delivered>>

---------------------------------------------------------------------------
(* CaptureQueue.flush                                                      *)

Active(f) == fpc[f] # "idle"

\* flush sets _flushing before its first await; a second call returns.
\* The retry loop calls it only when count() > 0.
FlushBeginUnguarded(f) ==
    /\ worker = "running" /\ ~Active(f)
    /\ f = Loop => store # {}
    /\ flushing' = "yes"
    /\ fpc' = [fpc EXCEPT ![f] = "reading"]
    /\ UNCHANGED <<worker, net, handlerVars, storeVars, retry, batch, toDelete, toUpdate, sent>>

FlushBegin(f) ==
    /\ worker = "running" /\ ~Active(f) /\ flushing = "no"
    /\ f = Loop => store # {}
    /\ flushing' = "yes"
    /\ fpc' = [fpc EXCEPT ![f] = "reading"]
    /\ UNCHANGED <<worker, net, handlerVars, storeVars, retry, batch, toDelete, toUpdate, sent>>

FlushReadEmpty(f) ==
    /\ worker = "running" /\ fpc[f] = "reading" /\ store = {}
    /\ retry' = 0
    /\ flushing' = "no"
    /\ fpc' = [fpc EXCEPT ![f] = "idle"]
    /\ UNCHANGED <<worker, net, handlerVars, storeVars, batch, toDelete, toUpdate, sent>>

\* Reads the oldest Batch items; those past MAX_AGE_MS go to idsToDelete
\* unsent (the loop compares each with the clock read here).
FlushRead(f) ==
    /\ worker = "running" /\ fpc[f] = "reading" /\ store # {}
    /\ \E T \in SUBSET store :
          /\ IsOldest(T, Batch)
          /\ batch' = [batch EXCEPT ![f] = T \ aged]
          /\ toDelete' = [toDelete EXCEPT ![f] = T \cap aged]
          /\ excused' = excused \cup (T \cap aged)
    /\ fpc' = [fpc EXCEPT ![f] = "sending"]
    /\ UNCHANGED <<worker, net, pc, delivered, faults, storeVars, flushing, retry, toUpdate, sent>>

IsNext(f, c) == c \in batch[f] /\ \A d \in batch[f] : key[c] <= key[d]

Handled(f, c) == batch' = [batch EXCEPT ![f] = @ \ {c}]
StopBatch(f) ==
    /\ batch' = [batch EXCEPT ![f] = {}]
    /\ fpc' = [fpc EXCEPT ![f] = "writing"]
Retried(f, c) == toUpdate' = [toUpdate EXCEPT ![f] = @ \cup {c}]

\* A 2xx reply.
SendAccepted(f, c) ==
    /\ worker = "running" /\ fpc[f] = "sending" /\ IsNext(f, c) /\ Accepts(c)
    /\ ServerStores(c)
    /\ Handled(f, c)
    /\ toDelete' = [toDelete EXCEPT ![f] = @ \cup {c}]
    /\ sent' = [sent EXCEPT ![f] = @ \cup {c}]
    /\ UNCHANGED <<worker, net, pc, excused, faults, storeVars, flushing, retry, fpc, toUpdate>>

\* A 4xx reply: the item is discarded.
SendRejected(f, c) ==
    /\ worker = "running" /\ fpc[f] = "sending" /\ IsNext(f, c) /\ Rejects(c)
    /\ Handled(f, c)
    /\ toDelete' = [toDelete EXCEPT ![f] = @ \cup {c}]
    /\ excused' = excused \cup {c}
    /\ UNCHANGED <<worker, net, pc, delivered, faults, storeVars, flushing, retry, fpc, toUpdate, sent>>

\* A 5xx reply: the item stays, the batch goes on.
SendErredStops(f, c) ==
    /\ worker = "running" /\ fpc[f] = "sending" /\ IsNext(f, c) /\ Errs(c)
    /\ StopBatch(f)
    /\ Retried(f, c)
    /\ UNCHANGED <<worker, net, handlerVars, storeVars, flushing, retry, toDelete, sent>>

SendErred(f, c) ==
    /\ worker = "running" /\ fpc[f] = "sending" /\ IsNext(f, c) /\ Errs(c)
    /\ Handled(f, c)
    /\ Retried(f, c)
    /\ UNCHANGED <<worker, net, handlerVars, storeVars, flushing, retry, fpc, toDelete, sent>>

\* A network error or a timeout: the item stays, the batch stops.
SendUnreachableDrops(f, c) ==
    /\ worker = "running" /\ fpc[f] = "sending" /\ IsNext(f, c) /\ net = "down"
    /\ StopBatch(f)
    /\ toDelete' = [toDelete EXCEPT ![f] = @ \cup {c}]
    /\ UNCHANGED <<worker, net, handlerVars, storeVars, flushing, retry, toUpdate, sent>>

SendUnreachable(f, c) ==
    /\ worker = "running" /\ fpc[f] = "sending" /\ IsNext(f, c) /\ net = "down"
    /\ StopBatch(f)
    /\ Retried(f, c)
    /\ UNCHANGED <<worker, net, handlerVars, storeVars, flushing, retry, toDelete, sent>>

SendReplyLost(f, c) ==
    /\ worker = "running" /\ fpc[f] = "sending" /\ IsNext(f, c) /\ LosesReply(c)
    /\ Fault
    /\ ServerStores(c)
    /\ StopBatch(f)
    /\ Retried(f, c)
    /\ UNCHANGED <<worker, net, pc, excused, storeVars, flushing, retry, toDelete, sent>>

BatchDone(f) ==
    /\ worker = "running" /\ fpc[f] = "sending" /\ batch[f] = {}
    /\ fpc' = [fpc EXCEPT ![f] = "writing"]
    /\ UNCHANGED <<worker, net, handlerVars, storeVars, flushing, retry, batch, toDelete, toUpdate, sent>>

\* The backoff of the retry loop: reset by a delivery, else doubled up to
\* MAX_RETRY_MS.
NextRetry(f) ==
    IF sent[f] # {} THEN 0
    ELSE IF retry < MaxBackoff THEN retry + 1 ELSE MaxBackoff

\* The write-back transaction and the backoff update behind it.  A record of
\* idsToUpdate that was deleted meanwhile is not put back; the attempts
\* counter it carries is read nowhere and is not modelled.
WriteBackPutsAll(f) == (store \ toDelete[f]) \cup toUpdate[f]
WriteBack(f) == store \ toDelete[f]

FlushWriteBack(f) ==
    /\ worker = "running" /\ fpc[f] = "writing"
    /\ store' = WriteBack(f)
    /\ retry' = NextRetry(f)
    /\ fpc' = [fpc EXCEPT ![f] = "counting"]
    /\ UNCHANGED <<worker, net, handlerVars, key, nextKey, aged, flushing, batch, toDelete, toUpdate, sent>>

EndFlush(f) ==
    /\ flushing' = "no"
    /\ fpc' = [fpc EXCEPT ![f] = "idle"]
    /\ batch' = [batch EXCEPT ![f] = {}]
    /\ toDelete' = [toDelete EXCEPT ![f] = {}]
    /\ toUpdate' = [toUpdate EXCEPT ![f] = {}]
    /\ sent' = [sent EXCEPT ![f] = {}]

FlushFinish(f) ==
    /\ worker = "running" /\ fpc[f] = "counting"
    /\ EndFlush(f)
    /\ UNCHANGED <<worker, net, handlerVars, storeVars, retry>>

\* A failing transaction ends the flush in its catch block; a failing cursor
\* reads like an empty store.
FlushFails(f) ==
    /\ worker = "running" /\ fpc[f] \in {"reading", "writing"}
    /\ Fault
    /\ retry' \in IF fpc[f] = "reading" THEN {0, retry} ELSE {retry}
    /\ EndFlush(f)
    /\ UNCHANGED <<worker, net, pc, delivered, excused, storeVars>>

---------------------------------------------------------------------------
(* The rest of the queue's interface, and the worker's surroundings.       *)

Clear ==
    /\ worker = "running" /\ store # {}
    /\ store' = {}
    /\ excused' = excused \cup store
    /\ UNCHANGED <<worker, net, pc, delivered, faults, key, nextKey, aged, flushVars>>

Age(c) ==
    /\ c \in store \ aged
    /\ aged' = aged \cup {c}
    /\ UNCHANGED <<worker, net, handlerVars, store, key, nextKey, flushVars>>

\* The browser ends the worker: module state and running handlers are gone,
\* the object store is not.
Crash ==
    /\ worker = "running"
    /\ Fault
    /\ worker' = "killed"
    /\ excused' = excused \cup Running
    /\ pc' = [c \in Captures |-> IF c \in Running THEN "done" ELSE pc[c]]
    /\ flushing' = "no"
    /\ retry' = 0
    /\ fpc' = [f \in Flushers |-> "idle"]
    /\ batch' = [f \in Flushers |-> {}]
    /\ toDelete' = [f \in Flushers |-> {}]
    /\ toUpdate' = [f \in Flushers |-> {}]
    /\ sent' = [f \in Flushers |-> {}]
    /\ UNCHANGED <<net, delivered, storeVars>>

\* An event or the keep-alive alarm starts it again; main() restarts the loop.
Restart ==
    /\ worker = "killed"
    /\ worker' = "running"
    /\ UNCHANGED <<net, handlerVars, storeVars, flushVars>>

NetChange ==
    /\ net' \in NetStates \ {net}
    /\ UNCHANGED <<worker, handlerVars, storeVars, flushVars>>

---------------------------------------------------------------------------

HandlerStep(c) ==
    \/ PostAccepted(c) \/ PostRejected(c) \/ PostFailed(c) \/ PostReplyLost(c)
    \/ EnqueueCheck(c) \/ EnqueueAdd(c) \/ EnqueueFails(c)

SendStep(f, c) ==
    \/ SendAccepted(f, c) \/ SendRejected(f, c) \/ SendErred(f, c)
    \/ SendUnreachable(f, c) \/ SendReplyLost(f, c)

FlushStep(f) ==
    \/ FlushReadEmpty(f) \/ FlushRead(f) \/ BatchDone(f)
    \/ FlushWriteBack(f) \/ FlushFinish(f) \/ FlushFails(f)
    \/ \E c \in Captures : SendStep(f, c)

Next ==
    \/ \E c \in Captures : Post(c) \/ HandlerStep(c) \/ Age(c)
    \/ \E f \in Flushers : FlushBegin(f) \/ FlushStep(f)
    \/ Clear \/ Crash \/ Restart \/ NetChange

\* The event loop runs every pending continuation, timers fire, and the
\* browser wakes the worker again; nothing obliges the network to recover,
\* a user to clear the queue, or a week to pass.
Fairness ==
    /\ \A c \in Captures : WF_vars(HandlerStep(c))
    /\ \A f \in Flushers : WF_vars(FlushStep(f))
    /\ WF_vars(FlushBegin(Loop))
    /\ WF_vars(Restart)

Spec == Init /\ [][Next]_vars
FairSpec == Spec /\ Fairness

---------------------------------------------------------------------------
(* Properties                                                              *)

\* A capture whose handler has returned is in the queue, or reached the
\* server, or was dropped for one of the reasons the code has: no step of
\* enqueue, flush or write-back loses one silently.
NoSilentLoss ==
    \A c \in Captures : pc[c] = "done" => c \in store \/ delivered[c] > 0 \/ c \in excused

\* Without a fault the server stores a capture at most once, and every
\* further copy needs a further fault: two flushes never send the same item,
\* and an item the server acknowledged is gone before the next flush reads.
OneCopyPerFault ==
    \A c \in Captures : delivered[c] <= 1 + faults

\* At most one flush is past its guard, and _flushing says so: the flag is
\* never left set by an exit path, never cleared under a running flush.
FlushExclusive ==
    /\ \A f, g \in Flushers : Active(f) /\ Active(g) => f = g
    /\ flushing = "yes" <=> \E f \in Flushers : Active(f)

\* The worker implements CaptureDelivery: what is pending there is what a
\* running handler holds or the object store keeps.  So a crash keeps what was
\* queued, a write-back removes only what is settled, and nothing that was
\* cleared or evicted while a flush was sending is ever put back.
Delivery == INSTANCE CaptureDelivery WITH
    accepted <- {c \in Captures : pc[c] # "idle"},
    pending  <- Running \cup store,
    copies   <- delivered

ImplementsDelivery == Delivery!Spec

\* A batch or more of items the server always errs on are older than c: flush
\* reads the oldest BATCH_SIZE items only, so it reads none but these.
Crowded(c) == Cardinality({d \in store \cap Poison : key[d] < key[c]}) >= Batch

\* Once the endpoint stays up, every queued capture it accepts is delivered
\* (or dropped for a stated reason), provided that fewer than BATCH_SIZE items
\* it always errs on stay ahead of it: neither backoff, nor failing items that
\* leave room in the batch, nor a crash keeps the loop from reaching it.
DrainsOnceOnline ==
    \A c \in Captures \ Poison :
        <>[](net = "up" /\ ~Crowded(c)) => (c \in store ~> delivered[c] > 0 \/ c \in excused)

===========================================================================
