------------------------ MODULE CaptureQueue_proofs ------------------------
(***************************************************************************)
(* Proofs that CaptureQueue keeps its invariants, and implements           *)
(* CaptureDelivery, for every set of captures and every bound.             *)
(***************************************************************************)
EXTENDS CaptureQueue, TLAPS

\* Type correctness: the generator, the backoff and the sets a flush collects
\* stay in their domains through every handler, flush and crash.
THEOREM TypeCorrect == Spec => []TypeOK
<1> USE QueueAssumption DEF QueueAssumption
<1>1. Init => TypeOK
  BY DEF Init, TypeOK, HandlerPCs, FlushPCs
<1>2. TypeOK /\ [Next]_vars => TypeOK'
  <2> SUFFICES ASSUME TypeOK, [Next]_vars PROVE TypeOK'
    OBVIOUS
  <2> USE DEF TypeOK, HandlerPCs, FlushPCs, handlerVars, storeVars, flushVars, Fault, Goto
  <2>1. ASSUME NEW c \in Captures, Post(c) \/ HandlerStep(c) \/ Age(c) PROVE TypeOK'
    BY <2>1 DEF Post, HandlerStep, PostAccepted, PostRejected, PostFailed,
       PostReplyLost, EnqueueCheck, EnqueueAdd, EnqueueFails, Age, ServerStores
  <2>2. ASSUME NEW f \in Flushers, FlushBegin(f) \/ FlushStep(f) PROVE TypeOK'
    <3>1. CASE FlushBegin(f) \/ FlushReadEmpty(f) \/ FlushRead(f) \/ BatchDone(f)
      BY <3>1 DEF FlushBegin, FlushReadEmpty, FlushRead, BatchDone, IsOldest
    <3>2. CASE FlushWriteBack(f)
      BY <3>2 DEF FlushWriteBack, WriteBack, NextRetry
    <3>3. CASE FlushFinish(f) \/ FlushFails(f)
      BY <3>3 DEF FlushFinish, FlushFails, EndFlush
    <3>4. ASSUME NEW c \in Captures, SendStep(f, c) PROVE TypeOK'
      BY <3>4 DEF SendStep, SendAccepted, SendRejected, SendErred, SendUnreachable,
         SendReplyLost, Handled, StopBatch, Retried, ServerStores
    <3> QED BY <2>2, <3>1, <3>2, <3>3, <3>4 DEF FlushStep
  <2>3. CASE Clear \/ Crash \/ Restart \/ NetChange
    BY <2>3 DEF Clear, Crash, Restart, NetChange, Running, NetStates
  <2>4. CASE UNCHANGED vars
    BY <2>4 DEF vars
  <2> QED BY <2>1, <2>2, <2>3, <2>4 DEF Next
<1> QED BY <1>1, <1>2, PTL DEF Spec

---------------------------------------------------------------------------
(* The inductive invariant behind the safety properties.                   *)

\* What is stored, or read by a flush, was handed over by its handler.
HandedOver ==
    /\ \A c \in store : pc[c] = "done"
    /\ \A f \in Flushers : \A c \in batch[f] \cup toDelete[f] : pc[c] = "done"

\* A flush holds items only between its read and its end, and once it has
\* written back none of its toDelete is in the store.
FlushSets ==
    \A f \in Flushers :
        /\ fpc[f] \in {"idle", "reading"} => batch[f] = {} /\ toDelete[f] = {}
        /\ fpc[f] = "counting" => store \cap toDelete[f] = {}
        /\ batch[f] \cap toDelete[f] = {}

\* Whatever a flush is about to delete was delivered or excused.
DeletesSettled ==
    \A f \in Flushers : \A c \in toDelete[f] : delivered[c] > 0 \/ c \in excused

\* A capture that may still be sent has had fewer copies than the limit.
MaySend(c) ==
    \/ pc[c] \in {"checking", "adding"}
    \/ c \in store /\ \A f \in Flushers : c \notin toDelete[f]
    \/ \E f \in Flushers : c \in batch[f]

CopyBudget ==
    \A c \in Captures :
        /\ pc[c] \in {"idle", "posting"} => delivered[c] = 0
        /\ MaySend(c) => delivered[c] <= faults
        /\ delivered[c] <= 1 + faults

IndInv ==
    FlushExclusive /\ HandedOver /\ FlushSets /\ DeletesSettled /\ NoSilentLoss /\ CopyBudget

\* Mutual exclusion of flushes, with _flushing as its witness: FlushBegin tests
\* and sets the flag in one step, and every exit, the catch block included,
\* clears it.
THEOREM FlushIsExclusive == Spec => []FlushExclusive
<1> USE QueueAssumption DEF QueueAssumption, FlushExclusive, Active
<1>1. Init => FlushExclusive
  BY DEF Init
<1>2. TypeOK /\ FlushExclusive /\ [Next]_vars => FlushExclusive'
  <2> SUFFICES ASSUME TypeOK, FlushExclusive, [Next]_vars PROVE FlushExclusive'
    OBVIOUS
  <2> USE DEF TypeOK, handlerVars, storeVars, flushVars
  <2>1. ASSUME NEW c \in Captures, Post(c) \/ HandlerStep(c) \/ Age(c)
        PROVE FlushExclusive'
    BY <2>1 DEF Post, HandlerStep, PostAccepted, PostRejected, PostFailed,
       PostReplyLost, EnqueueCheck, EnqueueAdd, EnqueueFails, Age
  <2>2. ASSUME NEW f \in Flushers, FlushBegin(f) \/ FlushStep(f) PROVE FlushExclusive'
    <3>1. CASE FlushBegin(f) \/ FlushReadEmpty(f)
      BY <3>1 DEF FlushBegin, FlushReadEmpty
    <3>2. CASE FlushRead(f) \/ BatchDone(f) \/ FlushWriteBack(f)
      BY <3>2 DEF FlushRead, BatchDone, FlushWriteBack
    <3>3. CASE FlushFinish(f) \/ FlushFails(f)
      BY <3>3 DEF FlushFinish, FlushFails, EndFlush
    <3>4. ASSUME NEW c \in Captures, SendStep(f, c) PROVE FlushExclusive'
      BY <3>4 DEF SendStep, SendAccepted, SendRejected, SendErred, SendUnreachable,
         SendReplyLost, StopBatch
    <3> QED BY <2>2, <3>1, <3>2, <3>3, <3>4 DEF FlushStep
  <2>3. CASE Clear \/ Crash \/ Restart \/ NetChange
    BY <2>3 DEF Clear, Crash, Restart, NetChange
  <2>4. CASE UNCHANGED vars
    BY <2>4 DEF vars
  <2> QED BY <2>1, <2>2, <2>3, <2>4 DEF Next
<1> QED BY <1>1, <1>2, TypeCorrect, PTL DEF Spec

\* What the flush works on: items handed over by their handlers, disjoint
\* sets of items to send and items to delete.
FlushInv == HandedOver /\ FlushSets

\* A flush in progress holds only items handed over once, and what it collected
\* to send and to delete stays apart, through every await of _flushOnce.
LEMMA FlushInvariant == Spec => []FlushInv
<1> USE QueueAssumption DEF QueueAssumption
<1>1. Init => FlushInv
  BY DEF Init, FlushInv, HandedOver, FlushSets
<1>2. TypeOK /\ FlushInv /\ [Next]_vars => FlushInv'
  <2> SUFFICES ASSUME TypeOK, FlushInv, [Next]_vars PROVE FlushInv'
    OBVIOUS
  <2> USE DEF TypeOK, FlushInv, HandedOver, FlushSets, handlerVars, storeVars, flushVars, Goto,
          HandlerPCs, FlushPCs
  <2>1. ASSUME NEW c \in Captures, Post(c) \/ HandlerStep(c) \/ Age(c) PROVE FlushInv'
    <3>1. CASE Post(c) \/ Age(c)
      BY <3>1 DEF Post, Age
    <3>2. CASE PostAccepted(c) \/ PostRejected(c) \/ PostFailed(c) \/ PostReplyLost(c)
      BY <3>2 DEF PostAccepted, PostRejected, PostFailed, PostReplyLost
    <3>3. CASE EnqueueCheck(c)
      BY <3>3 DEF EnqueueCheck
    <3>4. CASE EnqueueAdd(c)
      BY <3>4 DEF EnqueueAdd
    <3>5. CASE EnqueueFails(c)
      BY <3>5 DEF EnqueueFails
    <3> QED BY <2>1, <3>1, <3>2, <3>3, <3>4, <3>5 DEF HandlerStep
  <2>2. ASSUME NEW f \in Flushers, FlushBegin(f) \/ FlushStep(f) PROVE FlushInv'
    <3>1. CASE FlushBegin(f)
      BY <3>1 DEF FlushBegin, Active
    <3>6. CASE FlushReadEmpty(f)
      BY <3>6 DEF FlushReadEmpty
    <3>7. CASE BatchDone(f)
      BY <3>7 DEF BatchDone
    <3>2. CASE FlushRead(f)
      BY <3>2 DEF FlushRead
    <3>3. CASE FlushWriteBack(f)
      BY <3>3 DEF FlushWriteBack, WriteBack
    <3>4. CASE FlushFinish(f) \/ FlushFails(f)
      BY <3>4 DEF FlushFinish, FlushFails, EndFlush
    <3>5. ASSUME NEW c \in Captures, SendStep(f, c) PROVE FlushInv'
      <4>1. CASE SendAccepted(f, c) \/ SendRejected(f, c)
        BY <4>1 DEF SendAccepted, SendRejected, Handled, IsNext
      <4>2. CASE SendErred(f, c)
        BY <4>2 DEF SendErred, Handled
      <4>3. CASE SendUnreachable(f, c) \/ SendReplyLost(f, c)
        BY <4>3 DEF SendUnreachable, SendReplyLost, StopBatch
      <4> QED BY <3>5, <4>1, <4>2, <4>3 DEF SendStep
    <3> QED BY <2>2, <3>1, <3>2, <3>3, <3>4, <3>5, <3>6, <3>7 DEF FlushStep
  <2>3. CASE Clear \/ Restart \/ NetChange
    BY <2>3 DEF Clear, Restart, NetChange
  <2>4. CASE Crash
    BY <2>4 DEF Crash, Running
  <2>5. CASE UNCHANGED vars
    BY <2>5 DEF vars
  <2> QED BY <2>1, <2>2, <2>3, <2>4, <2>5 DEF Next
<1> QED BY <1>1, <1>2, TypeCorrect, PTL DEF Spec

\* What NoSilentLoss needs of a running flush.
LossInv == DeletesSettled /\ NoSilentLoss

\* What a flush is about to delete was answered or given up for a stated
\* reason, so deleting it loses nothing.
LEMMA LossInvariant == Spec => []LossInv
<1> USE QueueAssumption DEF QueueAssumption
<1>1. Init => LossInv
  BY DEF Init, LossInv, DeletesSettled, NoSilentLoss
<1>2. TypeOK /\ LossInv /\ [Next]_vars => LossInv'
  <2> SUFFICES ASSUME TypeOK, LossInv, [Next]_vars PROVE LossInv'
    OBVIOUS
  <2> USE DEF TypeOK, LossInv, DeletesSettled, NoSilentLoss, handlerVars, storeVars,
          flushVars, Goto, HandlerPCs, FlushPCs
  <2>1. ASSUME NEW c \in Captures, Post(c) \/ HandlerStep(c) \/ Age(c) PROVE LossInv'
    <3>1. CASE Post(c) \/ Age(c)
      BY <3>1 DEF Post, Age
    <3>2. CASE PostAccepted(c) \/ PostReplyLost(c)
      BY <3>2 DEF PostAccepted, PostReplyLost, ServerStores
    <3>3. CASE PostRejected(c) \/ PostFailed(c)
      BY <3>3 DEF PostRejected, PostFailed
    <3>4. CASE EnqueueCheck(c)
      BY <3>4 DEF EnqueueCheck
    <3>5. CASE EnqueueAdd(c)
      BY <3>5 DEF EnqueueAdd
    <3>6. CASE EnqueueFails(c)
      BY <3>6 DEF EnqueueFails
    <3> QED BY <2>1, <3>1, <3>2, <3>3, <3>4, <3>5, <3>6 DEF HandlerStep
  <2>2. ASSUME NEW f \in Flushers, FlushBegin(f) \/ FlushStep(f) PROVE LossInv'
    <3>1. CASE FlushBegin(f)
      BY <3>1 DEF FlushBegin
    <3>2. CASE FlushReadEmpty(f) \/ BatchDone(f)
      BY <3>2 DEF FlushReadEmpty, BatchDone
    <3>3. CASE FlushRead(f)
      BY <3>3 DEF FlushRead
    <3>4. CASE FlushWriteBack(f)
      BY <3>4 DEF FlushWriteBack, WriteBack
    <3>5. CASE FlushFinish(f) \/ FlushFails(f)
      BY <3>5 DEF FlushFinish, FlushFails, EndFlush
    <3>6. ASSUME NEW c \in Captures, SendStep(f, c) PROVE LossInv'
      <4>1. CASE SendAccepted(f, c)
        BY <4>1 DEF SendAccepted, ServerStores
      <4>2. CASE SendRejected(f, c)
        BY <4>2 DEF SendRejected
      <4>3. CASE SendErred(f, c) \/ SendUnreachable(f, c)
        BY <4>3 DEF SendErred, SendUnreachable
      <4>4. CASE SendReplyLost(f, c)
        BY <4>4 DEF SendReplyLost, ServerStores
      <4> QED BY <3>6, <4>1, <4>2, <4>3, <4>4 DEF SendStep
    <3> QED BY <2>2, <3>1, <3>2, <3>3, <3>4, <3>5, <3>6 DEF FlushStep
  <2>3. CASE Clear \/ Restart \/ NetChange
    BY <2>3 DEF Clear, Restart, NetChange
  <2>4. CASE Crash
    BY <2>4 DEF Crash, Running
  <2>5. CASE UNCHANGED vars
    BY <2>5 DEF vars
  <2> QED BY <2>1, <2>2, <2>3, <2>4, <2>5 DEF Next
<1> QED BY <1>1, <1>2, TypeCorrect, PTL DEF Spec

\* No capture a handler took is lost without a reason: enqueue, flush,
\* write-back, clear and crash each leave it stored, delivered or excused.
THEOREM NothingLostSilently == Spec => []NoSilentLoss
<1>1. LossInv => NoSilentLoss
  BY DEF LossInv
<1> QED BY <1>1, LossInvariant, PTL

\* Every copy beyond the first is paid for by a fault: an item leaves the set
\* of items that may be sent with its acknowledgement, and only a flush that
\* fails or a crash puts it back.
THEOREM CopiesArePaidFor == Spec => []OneCopyPerFault
<1> USE QueueAssumption DEF QueueAssumption
<1>1. Init => CopyBudget
  BY DEF Init, CopyBudget, MaySend
<1>2. TypeOK /\ FlushExclusive /\ FlushInv /\ CopyBudget /\ [Next]_vars => CopyBudget'
  <2> SUFFICES ASSUME TypeOK, FlushExclusive, FlushInv, CopyBudget, [Next]_vars
               PROVE CopyBudget'
    OBVIOUS
  <2> USE DEF TypeOK, FlushInv, HandedOver, FlushSets, CopyBudget, MaySend, handlerVars,
          storeVars, flushVars, Goto, HandlerPCs, FlushPCs, Fault
  <2>1. ASSUME NEW c \in Captures, Post(c) \/ HandlerStep(c) \/ Age(c) PROVE CopyBudget'
    <3>1. CASE Post(c) \/ Age(c)
      BY <3>1 DEF Post, Age
    <3>2. CASE PostAccepted(c)
      BY <3>2 DEF PostAccepted, ServerStores
    <3>3. CASE PostReplyLost(c)
      BY <3>3 DEF PostReplyLost, ServerStores
    <3>4. CASE PostRejected(c) \/ PostFailed(c)
      BY <3>4 DEF PostRejected, PostFailed
    <3>5. CASE EnqueueCheck(c)
      BY <3>5 DEF EnqueueCheck
    <3>6. CASE EnqueueAdd(c)
      BY <3>6 DEF EnqueueAdd
    <3>7. CASE EnqueueFails(c)
      BY <3>7 DEF EnqueueFails
    <3> QED BY <2>1, <3>1, <3>2, <3>3, <3>4, <3>5, <3>6, <3>7 DEF HandlerStep
  <2>2. ASSUME NEW f \in Flushers, FlushBegin(f) \/ FlushStep(f) PROVE CopyBudget'
    <3>1. CASE FlushBegin(f)
      BY <3>1 DEF FlushBegin
    <3>2. CASE FlushReadEmpty(f) \/ BatchDone(f)
      BY <3>2 DEF FlushReadEmpty, BatchDone
    <3>3. CASE FlushRead(f)
      BY <3>3 DEF FlushRead, FlushExclusive, Active
    <3>4. CASE FlushWriteBack(f)
      BY <3>4 DEF FlushWriteBack, WriteBack
    <3>5. CASE FlushFinish(f)
      BY <3>5 DEF FlushFinish, EndFlush
    <3>6. CASE FlushFails(f)
      BY <3>6 DEF FlushFails, EndFlush
    <3>7. ASSUME NEW c \in Captures, SendStep(f, c) PROVE CopyBudget'
      <4>1. CASE SendAccepted(f, c)
        BY <4>1 DEF SendAccepted, ServerStores, Handled, IsNext, FlushExclusive, Active
      <4>2. CASE SendRejected(f, c)
        BY <4>2 DEF SendRejected, Handled
      <4>3. CASE SendErred(f, c)
        BY <4>3 DEF SendErred, Handled
      <4>4. CASE SendUnreachable(f, c)
        BY <4>4 DEF SendUnreachable, StopBatch
      <4>5. CASE SendReplyLost(f, c)
        BY <4>5 DEF SendReplyLost, ServerStores, StopBatch, IsNext
      <4> QED BY <3>7, <4>1, <4>2, <4>3, <4>4, <4>5 DEF SendStep
    <3> QED BY <2>2, <3>1, <3>2, <3>3, <3>4, <3>5, <3>6, <3>7 DEF FlushStep
  <2>3. CASE Clear \/ Restart \/ NetChange
    BY <2>3 DEF Clear, Restart, NetChange
  <2>4. CASE Crash
    BY <2>4 DEF Crash, Running
  <2>5. CASE UNCHANGED vars
    BY <2>5 DEF vars
  <2> QED BY <2>1, <2>2, <2>3, <2>4, <2>5 DEF Next
<1>3. CopyBudget => OneCopyPerFault
  BY DEF CopyBudget, OneCopyPerFault
<1> QED BY <1>1, <1>2, <1>3, TypeCorrect, FlushIsExclusive, FlushInvariant, PTL DEF Spec

\* Refinement: every step of the worker is a step of CaptureDelivery or
\* changes nothing there.
LEMMA RefineInit == Init => Delivery!Init
  BY DEF Init, Delivery!Init, Running

\* Each handler, flush step and crash maps to an action of CaptureDelivery or
\* leaves its variables unchanged.
LEMMA RefineStep ==
  TypeOK /\ FlushInv /\ LossInv /\ [Next]_vars => [Delivery!Next]_(Delivery!vars)
<1> USE QueueAssumption DEF QueueAssumption
<1> SUFFICES ASSUME TypeOK, FlushInv, LossInv, [Next]_vars
             PROVE  [Delivery!Next]_(Delivery!vars)
  OBVIOUS
<1> DEFINE Goal == [Delivery!Next]_(Delivery!vars)
<1> USE DEF TypeOK, handlerVars, storeVars, flushVars, Goto, HandlerPCs, FlushPCs, Running,
        Delivery!SettledRightly
<1>1. ASSUME NEW c \in Captures, Post(c) PROVE Goal
  <2>1. Delivery!Accept(c)
    BY <1>1 DEF Post, Delivery!Accept, FlushInv, HandedOver
  <2> QED BY <2>1 DEF Delivery!Next
<1>2. ASSUME NEW c \in Captures, Age(c) PROVE Goal
  BY <1>2 DEF Age, Delivery!vars
<1>3. ASSUME NEW c \in Captures, PostAccepted(c) \/ PostReplyLost(c) PROVE Goal
  <2>1. Delivery!Deliver(c)
    BY <1>3 DEF PostAccepted, PostReplyLost, ServerStores, Delivery!Deliver
  <2> QED BY <2>1 DEF Delivery!Next
<1>4. ASSUME NEW c \in Captures, PostRejected(c) \/ EnqueueFails(c) PROVE Goal
  <2>1. Delivery!GiveUp({c})
    BY <1>4 DEF PostRejected, EnqueueFails, Delivery!GiveUp
  <2> QED BY <2>1 DEF Delivery!Next
<1>5. ASSUME NEW c \in Captures, PostFailed(c) \/ EnqueueAdd(c) PROVE Goal
  BY <1>5 DEF PostFailed, EnqueueAdd, Delivery!vars
<1>6. ASSUME NEW c \in Captures, EnqueueCheck(c) PROVE Goal
  <2>1. CASE store' = store /\ excused' = excused
    BY <1>6, <2>1 DEF EnqueueCheck, Delivery!vars
  <2>2. ASSUME NEW T \in SUBSET store, store' = store \ T, excused' = excused \cup T
        PROVE  Delivery!GiveUp(T)
    BY <1>6, <2>2 DEF EnqueueCheck, Delivery!GiveUp, FlushInv, HandedOver
  <2> QED BY <1>6, <2>1, <2>2 DEF EnqueueCheck, Delivery!Next
<1>7. ASSUME NEW f \in Flushers, FlushBegin(f) \/ FlushReadEmpty(f) \/ BatchDone(f) PROVE Goal
  BY <1>7 DEF FlushBegin, FlushReadEmpty, BatchDone, Delivery!vars
<1>8. ASSUME NEW f \in Flushers, FlushFinish(f) \/ FlushFails(f) PROVE Goal
  BY <1>8 DEF FlushFinish, FlushFails, EndFlush, Delivery!vars
<1>9. ASSUME NEW f \in Flushers, FlushRead(f) PROVE Goal
  <2>1. PICK T \in SUBSET store : excused' = excused \cup (T \cap aged)
    BY <1>9 DEF FlushRead
  <2>2. PICK S \in SUBSET Captures : S = T \cap aged
    OBVIOUS
  <2>3. Delivery!GiveUp(S)
    BY <1>9, <2>1, <2>2 DEF FlushRead, Delivery!GiveUp, FlushInv, HandedOver
  <2> QED BY <2>3 DEF Delivery!Next
<1>10. ASSUME NEW f \in Flushers, FlushWriteBack(f) PROVE Goal
  <2>1. Delivery!GiveUp({})
    BY <1>10 DEF FlushWriteBack, WriteBack, Delivery!GiveUp, LossInv, DeletesSettled
  <2> QED BY <2>1 DEF Delivery!Next
<1>11. ASSUME NEW f \in Flushers, NEW c \in Captures, SendStep(f, c) PROVE Goal
  <2>1. CASE SendAccepted(f, c) \/ SendReplyLost(f, c)
    <3>1. Delivery!Deliver(c)
      BY <2>1 DEF SendAccepted, SendReplyLost, ServerStores, IsNext, Delivery!Deliver,
         FlushInv, HandedOver
    <3> QED BY <3>1 DEF Delivery!Next
  <2>2. CASE SendRejected(f, c)
    <3>1. Delivery!GiveUp({c})
      BY <2>2 DEF SendRejected, IsNext, Delivery!GiveUp, FlushInv, HandedOver
    <3> QED BY <3>1 DEF Delivery!Next
  <2>3. CASE SendErred(f, c) \/ SendUnreachable(f, c)
    BY <2>3 DEF SendErred, SendUnreachable, Delivery!vars
  <2> QED BY <1>11, <2>1, <2>2, <2>3 DEF SendStep
<1>12. CASE Clear
  <2>1. PICK S \in SUBSET Captures : S = store
    OBVIOUS
  <2>2. Delivery!GiveUp(S)
    BY <1>12, <2>1 DEF Clear, Delivery!GiveUp, FlushInv, HandedOver
  <2> QED BY <2>2 DEF Delivery!Next
<1>13. CASE Crash
  <2>1. PICK S \in SUBSET Captures : S = Running
    OBVIOUS
  <2>2. Delivery!GiveUp(S)
    BY <1>13, <2>1 DEF Crash, Delivery!GiveUp
  <2> QED BY <2>2 DEF Delivery!Next
<1>14. CASE Restart \/ NetChange \/ UNCHANGED vars
  BY <1>14 DEF Restart, NetChange, vars, Delivery!vars
<1> QED
  BY <1>1, <1>2, <1>3, <1>4, <1>5, <1>6, <1>7, <1>8, <1>9, <1>10, <1>11, <1>12, <1>13, <1>14
  DEF Next, HandlerStep, FlushStep

\* The worker with its queue implements at-least-once delivery.
THEOREM ImplementsDeliverySpec == Spec => ImplementsDelivery
<1> QED BY LossInvariant, RefineInit, RefineStep, TypeCorrect, FlushInvariant, PTL
    DEF Spec, ImplementsDelivery, Delivery!Spec

============================================================================
