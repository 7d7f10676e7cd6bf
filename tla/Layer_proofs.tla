----------------------------- MODULE Layer_proofs ------------------------------
(***************************************************************************)
(* Theorems of Layer for every number of slots, threads and bounds: its     *)
(* queue, the announcement of frames and the events of the main thread.     *)
(***************************************************************************)
EXTENDS Layer, SurfaceTexture_proofs

-----------------------------------------------------------------------------
(* Definitions. *)

\* The variables of the queue that the layer's own depend on.
QueueTyped ==
  /\ call \in [Threads -> Calls]
  /\ mAbandoned \in BOOLEAN /\ mCurrentTextureBuf \in BOOLEAN

\* The frames that wait, and those that were dropped, are counted by the threads that
\* are about to announce one, the frames announced and the one being latched.
Announcing == {t \in Threads : call[t] = "onFrameAvailable"} \ signalling
Latching == IF loop = "updateTexImage" THEN 1 ELSE 0
AllAnnounced == ~BindMayFail /\ MaxLeaked = 0

AnnounceInv ==
  /\ IsFiniteSet(Announcing)
  /\ loop = "updateTexImage" => ~mAbandoned
  /\ ~mAbandoned =>
       /\ Cardinality(Announcing) + mQueuedFrames + Latching <= Len(mQueue) + clearedFrames
       /\ AllAnnounced =>
            Cardinality(Announcing) + mQueuedFrames + Latching = Len(mQueue) + clearedFrames

\* What a step of a binder thread may do to the variables of QueueTyped.
MovesOn(t) ==
  /\ UNCHANGED <<mAbandoned, mCurrentTextureBuf>>
  /\ call' = call \/ \E op \in Calls : call' = [call EXCEPT ![t] = op]

LEMMA DequeueMovesOn ==
  ASSUME QueueTyped, NEW t \in Threads, dequeueBuffer(t)
  PROVE  MovesOn(t)
<1> USE DEF MovesOn, Wait, Return, ReturnSilently, textureVars, modeVars, slotVars, countVars
<1>1. call[t] \in Calls /\ "none" \in Calls /\ "spinning" \in Calls
      /\ "dequeueBuffer" \in Calls /\ "dequeueRetried" \in Calls
  BY DEF QueueTyped, Calls
<1>2. CASE DequeueWaitsForDrain(t)
  BY <1>1, <1>2 DEF DequeueWaitsForDrain
<1>3. CASE DequeueResizes(t)
  BY <1>1, <1>3 DEF DequeueResizes, TakeBuffer
<1>4. CASE DequeueTakes(t)
  BY <1>1, <1>4 DEF DequeueTakes, TakeBuffer
<1>5. CASE DequeueFindsNone(t)
  BY <1>1, <1>5 DEF DequeueFindsNone
<1>6. CASE DequeueSpins(t)
  BY <1>1, <1>6 DEF DequeueSpins
<1>7. CASE DequeueFails(t)
  BY <1>1, <1>7 DEF DequeueFails
<1> QED
  BY <1>2, <1>3, <1>4, <1>5, <1>6, <1>7 DEF dequeueBuffer

LEMMA ProducerMovesOn ==
  ASSUME QueueTyped, NEW t \in Threads, ProducerStep(t)
  PROVE  MovesOn(t)
<1> USE DEF MovesOn, Wait, Return, ReturnSilently, SignalAndReturn, textureVars, modeVars,
            slotVars, countVars, threadVars
<1>1. "none" \in Calls /\ "onFrameAvailable" \in Calls
      /\ "setSynchronousMode" \in Calls /\ "disconnect" \in Calls
  BY DEF Calls
<1>2. CASE dequeueBuffer(t)
  BY <1>2, DequeueMovesOn
<1>3. ASSUME NEW s \in held, requestBuffer(t, s) PROVE MovesOn(t)
  BY <1>3 DEF requestBuffer
<1>4. ASSUME NEW s \in held, queueBuffer(t, s) PROVE MovesOn(t)
  BY <1>1, <1>4 DEF queueBuffer
<1>5. ASSUME NEW s \in held, QueueBufferFails(t, s) PROVE MovesOn(t)
  BY <1>5 DEF QueueBufferFails
<1>6. ASSUME NEW s \in held, cancelBuffer(t, s) PROVE MovesOn(t)
  BY <1>1, <1>6 DEF cancelBuffer
<1>7. CASE OnFrameAvailable(t)
  BY <1>1, <1>7 DEF OnFrameAvailable
<1>8. ASSUME NEW api \in Apis, connect(t, api) PROVE MovesOn(t)
  BY <1>8 DEF connect
<1>9. CASE disconnect(t)
  BY <1>1, <1>9 DEF disconnect, DrainWaits, FinishDisconnect
<1>10. CASE SetSynchronous(t)
  BY <1>1, <1>10 DEF SetSynchronous
<1>11. CASE SetAsynchronous(t)
  BY <1>1, <1>11 DEF SetAsynchronous, DrainWaits
<1>12. CASE ResetBufferCount(t)
  BY <1>12 DEF ResetBufferCount
<1>13. ASSUME NEW n \in ClientCounts, setBufferCount(t, n) PROVE MovesOn(t)
  BY <1>1, <1>13 DEF setBufferCount
<1> QED
  BY <1>2, <1>3, <1>4, <1>5, <1>6, <1>7, <1>8, <1>9, <1>10, <1>11, <1>12, <1>13
     DEF ProducerStep

-----------------------------------------------------------------------------
(* The queue of a layer.  Every step of the layer is a step of the queue, or   *)
(* none, so what is proved of the queue's steps holds of the layer's queue.    *)

QueueInv == TypeOK /\ AsyncOneDeep /\ OwnInv /\ BufInv

LEMMA QueueInit == LayerInit => QueueInv
<1> SUFFICES ASSUME LayerInit PROVE QueueInv
  OBVIOUS
<1>1. InitWith(TRUE, 2) /\ TRUE \in BOOLEAN /\ 2 \in Nat
  BY DEF LayerInit
<1>2. TypeOK
  BY <1>1, TypeInitWith, Zenon
<1>3. OwnInv /\ BufInv
  BY <1>1, OwnInit, BufInit
<1>4. AsyncOneDeep
  BY <1>1 DEF InitWith, AsyncOneDeep
<1> QED
  BY <1>2, <1>3, <1>4 DEF QueueInv

LEMMA LayerStepsQueue == [LayerNext]_allVars => [Next]_vars
<1> SUFFICES ASSUME [LayerNext]_allVars PROVE [Next]_vars
  OBVIOUS
<1>1. ASSUME NEW t \in Threads, Produce(t) \/ onFrameQueued(t) \/ signalEvent(t) PROVE [Next]_vars
  BY <1>1 DEF Produce, onFrameQueued, signalEvent, Next, ProducerStep
<1>2. CASE OtherEvent \/ waitForEvent \/ LockPageFlipIdle \/ LockPageFlipTakes \/ LockPageFlipActivates
  BY <1>2 DEF OtherEvent, waitForEvent, LockPageFlipIdle, LockPageFlipTakes, LockPageFlipActivates
<1>3. CASE LockPageFlipUpdates \/ onRemoved
  BY <1>3 DEF LockPageFlipUpdates, onRemoved, Next
<1>4. CASE UNCHANGED allVars
  BY <1>4 DEF allVars
<1> QED
  BY <1>1, <1>2, <1>3, <1>4 DEF LayerNext, PageFlip

LEMMA QueueStep == QueueInv /\ [LayerNext]_allVars => QueueInv'
  BY LayerStepsQueue, TypeStep, AsyncStep, OwnStep, BufStep DEF QueueInv

\* The queue of a layer, which starts in synchronous mode with two buffers,
\* implements BufferOwnership too.
THEOREM LayerRefinement == LayerSpec => ImplementsOwnership
<1>1. LayerInit => Ownership!Init
  <2> SUFFICES ASSUME LayerInit PROVE Ownership!Init
    OBVIOUS
  <2>1. OwnerIs
    BY QueueInit, OwnerTyped DEF QueueInv
  <2>2. SlotOwner = [s \in Slots |-> "free"]
    BY <2>1 DEF OwnerIs, OwnerOf, LayerInit, InitWith
  <2> QED
    BY <2>2 DEF LayerInit, InitWith, Ownership!Init, Ownership!AllFree
<1>2. QueueInv /\ OwnerIs /\ OwnerIs' /\ [LayerNext]_allVars
        => [Ownership!Next]_(Ownership!ownVars)
  BY LayerStepsQueue, MapStep DEF QueueInv, Mapped, Maps
<1>3. QueueInv => OwnerIs
  BY OwnerTyped DEF QueueInv
<1> QED
  BY <1>1, <1>2, <1>3, QueueInit, QueueStep, PTL DEF LayerSpec, ImplementsOwnership, Ownership!Spec

-----------------------------------------------------------------------------
(* Type correctness. *)

Typed == QueueTyped /\ LayerTypeOK

LEMMA TypedInit == LayerInit => Typed
<1> SUFFICES ASSUME LayerInit PROVE Typed
  OBVIOUS
<1>1. QueueTyped
  BY DEF LayerInit, InitWith, QueueTyped, Calls
<1>2. mQueuedFrames \in Nat /\ loop = "waitForEvent" /\ clearedFrames \in Nat
      /\ clearedFirst \in BOOLEAN
  BY DEF LayerInit
<1>3. /\ signalling \subseteq {t \in Threads : call[t] = "onFrameAvailable"}
      /\ mInvalidate \in BOOLEAN /\ mActiveBuffer \in BOOLEAN
  BY DEF LayerInit
<1> QED
  BY <1>1, <1>2, <1>3 DEF Typed, LayerTypeOK

\* The number of threads that are to announce a frame.
LEMMA AnnouncingTyped == AnnounceInv => Cardinality(Announcing) \in Nat
  BY FS_CardinalityType DEF AnnounceInv

\* An update that finds the queue empty has been announced by a dropped frame.
LEMMA ClearedLeft ==
  ASSUME LayerTypeOK, AnnounceInv, loop = "updateTexImage", mQueue = <<>>
  PROVE  clearedFrames > 0
<1>1. Cardinality(Announcing) \in Nat /\ mQueuedFrames \in Nat /\ clearedFrames \in Nat
  BY AnnouncingTyped DEF LayerTypeOK
<1>2. Len(mQueue) = 0 /\ Latching = 1
  BY DEF Latching
<1>3. Cardinality(Announcing) + mQueuedFrames + Latching <= Len(mQueue) + clearedFrames
  BY DEF AnnounceInv
<1> QED
  BY <1>1, <1>2, <1>3

LEMMA TypedStep == QueueInv /\ Typed /\ AnnounceInv /\ [LayerNext]_allVars => Typed'
<1> SUFFICES ASSUME QueueInv, Typed, AnnounceInv, [LayerNext]_allVars PROVE Typed'
  OBVIOUS
<1> USE DEF Typed, QueueTyped, LayerTypeOK, historyVars
<1>1. CASE UNCHANGED allVars
  BY <1>1 DEF allVars, vars, layerVars, threadVars, modeVars, textureVars
<1>2. ASSUME NEW t \in Threads, Produce(t) PROVE Typed'
  <2>1. /\ MovesOn(t) /\ call[t] # "onFrameAvailable"
        /\ UNCHANGED <<mQueuedFrames, signalling, mInvalidate, loop, mActiveBuffer>>
    BY <1>2, ProducerMovesOn DEF Produce
  <2>2. QueueTyped' /\ signalling' \subseteq {u \in Threads : call'[u] = "onFrameAvailable"}
    BY <2>1 DEF MovesOn
  <2>3. clearedFrames' \in Nat /\ clearedFirst' \in BOOLEAN
    <3>1. Dropped \in Nat
      BY DEF Dropped, QueueInv, TypeOK
    <3>2. clearedFrames' = clearedFrames + Dropped /\ clearedFirst' \in BOOLEAN
      BY <1>2 DEF Produce
    <3> QED
      BY <3>1, <3>2
  <2> QED
    BY <2>1, <2>2, <2>3
<1>3. ASSUME NEW t \in Threads, onFrameQueued(t) PROVE Typed'
  BY <1>3 DEF onFrameQueued, vars, threadVars, modeVars, textureVars
<1>4. ASSUME NEW t \in Threads, signalEvent(t) PROVE Typed'
  BY <1>4 DEF signalEvent, OnFrameAvailable, ReturnSilently, Return, Calls, modeVars, textureVars
<1>5. CASE OtherEvent
  BY <1>5 DEF OtherEvent, vars, threadVars, modeVars, textureVars
<1>6. CASE waitForEvent
  BY <1>6 DEF waitForEvent, vars, threadVars, modeVars, textureVars
<1>7. CASE LockPageFlipIdle
  BY <1>7 DEF LockPageFlipIdle, vars, threadVars, modeVars, textureVars
<1>8. CASE LockPageFlipTakes
  BY <1>8 DEF LockPageFlipTakes, vars, threadVars, modeVars, textureVars
<1>9. CASE LockPageFlipUpdates
  <2>1. clearedFrames' \in Nat
    <3>1. /\ loop = "updateTexImage"
          /\ \/ clearedFrames' = clearedFrames
             \/ mQueue = <<>> /\ clearedFrames' = clearedFrames - 1
      BY <1>9, Zenon DEF LockPageFlipUpdates
    <3> QED
      BY <3>1, ClearedLeft
  <2> QED
    BY <1>9, <2>1 DEF LockPageFlipUpdates, updateTexImage, UpdateTexImageIdle, vars, threadVars,
                      modeVars, textureVars
<1>10. CASE LockPageFlipActivates
  BY <1>10 DEF LockPageFlipActivates, vars, threadVars, modeVars, textureVars
<1>11. CASE onRemoved
  BY <1>11 DEF onRemoved, abandon
<1> QED
  BY <1>1, <1>2, <1>3, <1>4, <1>5, <1>6, <1>7, <1>8, <1>9, <1>10, <1>11 DEF LayerNext, PageFlip

-----------------------------------------------------------------------------
(* Events. *)

LEMMA EventStep == Typed /\ EventNotLost /\ [LayerNext]_allVars => EventNotLost'
<1> SUFFICES ASSUME Typed, EventNotLost, [LayerNext]_allVars PROVE EventNotLost'
  OBVIOUS
<1> USE DEF EventNotLost
<1>1. mQueuedFrames \in Nat /\ mAbandoned \in BOOLEAN /\ mInvalidate \in BOOLEAN
  BY DEF Typed, QueueTyped, LayerTypeOK
<1>2. CASE UNCHANGED allVars
  BY <1>2 DEF allVars, vars, layerVars, modeVars
<1>3. ASSUME NEW t \in Threads, Produce(t) PROVE EventNotLost'
  <2>1. UNCHANGED <<mAbandoned, mQueuedFrames, signalling, mInvalidate, loop>>
    BY <1>3, ProducerMovesOn DEF Produce, MovesOn, Typed
  <2> QED
    BY <2>1
<1>4. ASSUME NEW t \in Threads, onFrameQueued(t) PROVE EventNotLost'
  BY <1>4 DEF onFrameQueued
<1>5. ASSUME NEW t \in Threads, signalEvent(t) PROVE EventNotLost'
  BY <1>5 DEF signalEvent
<1>6. CASE OtherEvent
  BY <1>6 DEF OtherEvent
<1>7. CASE waitForEvent
  BY <1>7 DEF waitForEvent
<1>8. CASE LockPageFlipIdle
  BY <1>1, <1>8 DEF LockPageFlipIdle, vars, modeVars
<1>9. CASE LockPageFlipTakes
  <2>1. mQueuedFrames' > 0 => mInvalidate'
    <3>1. mQueuedFrames' = mQueuedFrames - 1 /\ (mQueuedFrames > 1 => mInvalidate')
      BY <1>9, Zenon DEF LockPageFlipTakes
    <3> QED
      BY <1>1, <3>1
  <2> QED
    BY <2>1
<1>10. CASE LockPageFlipUpdates
  <2>1. loop # "lockPageFlip" /\ UNCHANGED <<mAbandoned, mQueuedFrames, signalling, mInvalidate>>
    BY <1>10 DEF LockPageFlipUpdates, updateTexImage, UpdateTexImageIdle, vars, modeVars
  <2> QED
    BY <2>1
<1>11. CASE LockPageFlipActivates
  BY <1>11 DEF LockPageFlipActivates, vars, modeVars
<1>12. CASE onRemoved
  BY <1>12 DEF onRemoved, abandon
<1> QED
  BY <1>2, <1>3, <1>4, <1>5, <1>6, <1>7, <1>8, <1>9, <1>10, <1>11, <1>12 DEF LayerNext, PageFlip

-----------------------------------------------------------------------------
(* Announcements. *)

\* What a call of the producer does: it queues a frame and is about to announce
\* it, or drops the queue, or does neither.
Queues(t) ==
  /\ UNCHANGED mAbandoned
  /\ \/ /\ Len(mQueue') + Dropped = Len(mQueue)
        /\ call' = call \/ \E op \in Calls \ {"onFrameAvailable"} : call' = [call EXCEPT ![t] = op]
     \/ /\ Len(mQueue') = Len(mQueue) + 1 /\ Dropped = 0
        /\ call' = [call EXCEPT ![t] = "onFrameAvailable"]

\* Most calls leave the queue as it is.
Keeps(t) ==
  /\ UNCHANGED <<mAbandoned, mQueue>>
  /\ call' = call \/ \E op \in Calls \ {"onFrameAvailable"} : call' = [call EXCEPT ![t] = op]

LEMMA KeepsQueues ==
  ASSUME QueueInv, NEW t \in Threads, Keeps(t)
  PROVE  Queues(t)
<1>1. Len(mQueue) \in Nat /\ UNCHANGED <<mAbandoned, mQueue>>
  BY DEF QueueInv, TypeOK, Keeps
<1>2. Len(mQueue') + Dropped = Len(mQueue)
  BY <1>1 DEF Dropped
<1> QED
  BY <1>1, <1>2, Zenon DEF Queues, Keeps

LEMMA DequeueKeeps ==
  ASSUME QueueInv, NEW t \in Threads, call[t] # "onFrameAvailable", dequeueBuffer(t)
  PROVE  Keeps(t)
<1> USE DEF Keeps, Wait, Return, ReturnSilently, textureVars, modeVars, slotVars, countVars
<1>1. call[t] \in Calls \ {"onFrameAvailable"}
      /\ {"none", "spinning", "dequeueBuffer", "dequeueRetried"} \subseteq Calls \ {"onFrameAvailable"}
  BY DEF QueueInv, TypeOK, Calls
<1>2. CASE DequeueWaitsForDrain(t)
  BY <1>1, <1>2 DEF DequeueWaitsForDrain
<1>3. CASE DequeueResizes(t)
  BY <1>1, <1>3 DEF DequeueResizes, TakeBuffer
<1>4. CASE DequeueTakes(t)
  BY <1>1, <1>4 DEF DequeueTakes, TakeBuffer
<1>5. CASE DequeueFindsNone(t)
  BY <1>1, <1>5 DEF DequeueFindsNone
<1>6. CASE DequeueSpins(t)
  BY <1>1, <1>6 DEF DequeueSpins
<1>7. CASE DequeueFails(t)
  BY <1>1, <1>7 DEF DequeueFails
<1> QED
  BY <1>2, <1>3, <1>4, <1>5, <1>6, <1>7 DEF dequeueBuffer

LEMMA ProducerQueues ==
  ASSUME QueueInv, NEW t \in Threads, call[t] # "onFrameAvailable", ProducerStep(t)
  PROVE  Queues(t)
<1> USE DEF Keeps, Wait, Return, ReturnSilently, SignalAndReturn, textureVars, modeVars,
            slotVars, countVars, threadVars
<1>1. {"none", "setSynchronousMode", "disconnect"} \subseteq Calls \ {"onFrameAvailable"}
  BY DEF Calls
<1>2. ASSUME dequeueBuffer(t) PROVE Keeps(t)
  BY <1>2, DequeueKeeps
<1>3. ASSUME NEW s \in held, requestBuffer(t, s) PROVE Keeps(t)
  BY <1>3 DEF requestBuffer
<1>4. ASSUME NEW s \in held, queueBuffer(t, s) PROVE Queues(t)
  <2>1. s \in Slots /\ mQueue \in Seq(Slots) /\ UNCHANGED mAbandoned
    BY <1>4 DEF QueueInv, TypeOK, queueBuffer
  <2>2. CASE mSynchronousMode \/ mQueue = <<>>
    <3>1. mQueue' = Append(mQueue, s) /\ call' = [call EXCEPT ![t] = "onFrameAvailable"]
      BY <1>4, <2>2 DEF queueBuffer
    <3>2. Len(mQueue') = Len(mQueue) + 1 /\ mQueue' # <<>>
      BY <2>1, <3>1
    <3> QED
      BY <2>1, <3>1, <3>2, Zenon DEF Queues, Dropped
  <2>3. CASE ~mSynchronousMode /\ mQueue # <<>>
    <3>1. mQueue' = [mQueue EXCEPT ![1] = s] /\ call' = [call EXCEPT ![t] = "none"]
      BY <1>4, <2>3 DEF queueBuffer
    <3>2. Len(mQueue') = Len(mQueue) /\ Len(mQueue) \in Nat \ {0}
      BY <2>1, <2>3, <3>1
    <3>3. Len(mQueue') + Dropped = Len(mQueue)
      BY <3>2 DEF Dropped
    <3>4. "none" \in Calls \ {"onFrameAvailable"}
      BY <1>1
    <3> QED
      BY <2>1, <3>1, <3>3, <3>4, Zenon DEF Queues
  <2> QED
    BY <2>2, <2>3
<1>5. ASSUME NEW s \in held, QueueBufferFails(t, s) PROVE Keeps(t)
  BY <1>5 DEF QueueBufferFails
<1>6. ASSUME NEW s \in held, cancelBuffer(t, s) PROVE Keeps(t)
  BY <1>1, <1>6 DEF cancelBuffer
<1>7. ~OnFrameAvailable(t)
  BY DEF OnFrameAvailable
<1>8. ASSUME NEW api \in Apis, connect(t, api) PROVE Keeps(t)
  BY <1>8 DEF connect
<1>9. ASSUME disconnect(t) PROVE Keeps(t)
  BY <1>1, <1>9 DEF disconnect, DrainWaits, FinishDisconnect
<1>10. ASSUME SetSynchronous(t) PROVE Keeps(t)
  BY <1>1, <1>10 DEF SetSynchronous
<1>11. ASSUME SetAsynchronous(t) PROVE Keeps(t)
  BY <1>1, <1>11 DEF SetAsynchronous, DrainWaits
<1>12. ASSUME ResetBufferCount(t) PROVE Keeps(t)
  BY <1>12 DEF ResetBufferCount
<1>13. ASSUME NEW n \in ClientCounts, setBufferCount(t, n) PROVE Queues(t)
  <2>1. mQueue' = <<>> /\ UNCHANGED <<mAbandoned, call>> /\ Len(mQueue) \in Nat
    BY <1>1, <1>13 DEF setBufferCount, Starts, QueueInv, TypeOK
  <2>2. Len(mQueue') + Dropped = Len(mQueue)
    BY <2>1 DEF Dropped
  <2> QED
    BY <2>1, <2>2, Zenon DEF Queues
<1> QED
  BY <1>2, <1>3, <1>4, <1>5, <1>6, <1>7, <1>8, <1>9, <1>10, <1>11, <1>12, <1>13, KeepsQueues
     DEF ProducerStep

LEMMA AnnounceProduce ==
  ASSUME QueueInv, LayerTypeOK, AnnounceInv, NEW t \in Threads, Produce(t)
  PROVE  AnnounceInv'
<1>1. /\ Queues(t) /\ call[t] # "onFrameAvailable" /\ clearedFrames' = clearedFrames + Dropped
      /\ UNCHANGED <<mQueuedFrames, signalling, loop>>
  BY ProducerQueues DEF Produce
<1>2. call \in [Threads -> Calls] /\ t \notin signalling /\ mQueue \in Seq(Slots)
  BY <1>1 DEF QueueInv, TypeOK, LayerTypeOK
<1>3. /\ Cardinality(Announcing) \in Nat /\ mQueuedFrames \in Nat /\ Len(mQueue) \in Nat
      /\ clearedFrames \in Nat /\ Dropped \in Nat
  BY <1>2, AnnouncingTyped DEF LayerTypeOK, Dropped
<1>4. Latching' = Latching /\ Latching \in Nat /\ UNCHANGED mAbandoned
  BY <1>1 DEF Latching, Queues
<1>5. mQueue' \in Seq(Slots) /\ Len(mQueue') \in Nat
  BY QueueStep DEF LayerNext, QueueInv, TypeOK
<1>6. CASE /\ Len(mQueue') + Dropped = Len(mQueue)
           /\ call' = call \/ \E op \in Calls \ {"onFrameAvailable"} : call' = [call EXCEPT ![t] = op]
  <2>1. Announcing' = Announcing
    BY <1>1, <1>2, <1>6 DEF Announcing
  <2>2. Len(mQueue') + clearedFrames' = Len(mQueue) + clearedFrames
    BY <1>1, <1>3, <1>5, <1>6
  <2> QED
    BY <1>1, <1>4, <2>1, <2>2, Zenon DEF AnnounceInv, AllAnnounced
<1>7. CASE /\ Len(mQueue') = Len(mQueue) + 1 /\ Dropped = 0
           /\ call' = [call EXCEPT ![t] = "onFrameAvailable"]
  <2>1. Announcing' = Announcing \cup {t} /\ t \notin Announcing
    BY <1>1, <1>2, <1>7 DEF Announcing
  <2>2. IsFiniteSet(Announcing') /\ Cardinality(Announcing') = Cardinality(Announcing) + 1
    BY <2>1, FS_AddElement DEF AnnounceInv
  <2>3. clearedFrames' = clearedFrames /\ loop' = loop /\ mQueuedFrames' = mQueuedFrames
    BY <1>1, <1>3, <1>7
  <2> QED
    BY <1>3, <1>4, <1>7, <2>2, <2>3 DEF AnnounceInv, AllAnnounced
<1> QED
  BY <1>1, <1>6, <1>7 DEF Queues

LEMMA AnnounceStep ==
  QueueInv /\ LayerTypeOK /\ AnnounceInv /\ [LayerNext]_allVars => AnnounceInv'
<1> SUFFICES ASSUME QueueInv, LayerTypeOK, AnnounceInv, [LayerNext]_allVars
             PROVE  AnnounceInv'
  OBVIOUS
<1> USE DEF vars, threadVars, modeVars, historyVars
<1>1. /\ Cardinality(Announcing) \in Nat /\ mQueuedFrames \in Nat /\ Len(mQueue) \in Nat
      /\ mQueue \in Seq(Slots) /\ call \in [Threads -> Calls] /\ clearedFrames \in Nat
  BY AnnouncingTyped DEF LayerTypeOK, QueueInv, TypeOK
<1>2. ASSUME UNCHANGED <<call, mAbandoned, mQueue, mQueuedFrames, signalling, clearedFrames>>,
             Latching' = Latching, loop' = "updateTexImage" => loop = "updateTexImage"
      PROVE  AnnounceInv'
  BY <1>2 DEF AnnounceInv, Announcing, AllAnnounced
<1>3. ASSUME NEW t \in Threads, Produce(t) PROVE AnnounceInv'
  BY <1>3, AnnounceProduce
<1>4. ASSUME NEW t \in Threads, onFrameQueued(t) PROVE AnnounceInv'
  <2>1. /\ t \in Announcing /\ Announcing' = Announcing \ {t}
        /\ UNCHANGED <<mQueue, mAbandoned, loop, clearedFrames>> /\ mQueuedFrames' = mQueuedFrames + 1
    BY <1>4 DEF onFrameQueued, Announcing
  <2>2. IsFiniteSet(Announcing') /\ Cardinality(Announcing') = Cardinality(Announcing) - 1
    BY <2>1, FS_RemoveElement DEF AnnounceInv
  <2>3. Latching' = Latching /\ Latching \in Nat
    BY <2>1 DEF Latching
  <2> QED
    BY <1>1, <2>1, <2>2, <2>3 DEF AnnounceInv, AllAnnounced
<1>5. ASSUME NEW t \in Threads, signalEvent(t) PROVE AnnounceInv'
  <2>1. Announcing' = Announcing
    BY <1>1, <1>5 DEF signalEvent, OnFrameAvailable, ReturnSilently, Return, Announcing
  <2>2. UNCHANGED <<mQueue, mAbandoned, loop, mQueuedFrames, clearedFrames>>
    BY <1>5 DEF signalEvent, OnFrameAvailable
  <2> QED
    BY <2>1, <2>2 DEF AnnounceInv, AllAnnounced, Latching
<1>6. CASE OtherEvent \/ waitForEvent \/ LockPageFlipIdle \/ LockPageFlipActivates
  <2>1. UNCHANGED <<call, mAbandoned, mQueue, mQueuedFrames, signalling, clearedFrames>>
        /\ (loop = "updateTexImage" <=> loop' = "updateTexImage")
    BY <1>6 DEF OtherEvent, waitForEvent, LockPageFlipIdle, LockPageFlipActivates
  <2>2. Latching' = Latching
    BY <2>1 DEF Latching
  <2> QED
    BY <1>2, <2>1, <2>2
<1>7. CASE LockPageFlipTakes
  <2>1. /\ UNCHANGED <<call, mAbandoned, mQueue, signalling, clearedFrames>> /\ ~mAbandoned
        /\ mQueuedFrames' = mQueuedFrames - 1
        /\ loop = "lockPageFlip" /\ loop' = "updateTexImage"
    BY <1>7 DEF LockPageFlipTakes
  <2>2. Announcing' = Announcing /\ Latching = 0 /\ Latching' = 1
    BY <2>1 DEF Announcing, Latching
  <2> QED
    BY <1>1, <2>1, <2>2 DEF AnnounceInv, AllAnnounced
<1>8. CASE LockPageFlipUpdates
  <2>1. /\ UNCHANGED <<call, mAbandoned, signalling, mQueuedFrames>>
        /\ loop = "updateTexImage" /\ loop' # "updateTexImage" /\ ~mAbandoned
    BY <1>8 DEF LockPageFlipUpdates, updateTexImage, UpdateTexImageIdle, AnnounceInv
  <2>2. Announcing' = Announcing /\ Latching = 1 /\ Latching' = 0
    BY <2>1 DEF Announcing, Latching
  <2>3. CASE updateTexImage
    <3>1. Len(mQueue') = Len(mQueue) - 1
      BY <1>1, <2>3 DEF updateTexImage, CanLatch
    <3>2. clearedFrames' = clearedFrames
      BY <1>8, <2>3, <3>1, <1>1 DEF LockPageFlipUpdates, UpdateTexImageIdle
    <3> QED
      BY <1>1, <2>1, <2>2, <3>1, <3>2 DEF AnnounceInv, AllAnnounced
  <2>4. CASE UpdateTexImageIdle /\ mQueue = <<>>
    <3>1. mQueue' = mQueue /\ Len(mQueue) = 0
      BY <2>4 DEF UpdateTexImageIdle
    <3>2. clearedFrames' = clearedFrames - 1
      BY <1>8, <2>4 DEF LockPageFlipUpdates, updateTexImage, CanLatch
    <3> QED
      BY <1>1, <2>1, <2>2, <3>1, <3>2 DEF AnnounceInv, AllAnnounced
  <2>5. CASE UpdateTexImageIdle /\ mQueue # <<>>
    <3>1. mQueue' = mQueue
      BY <2>5 DEF UpdateTexImageIdle
    <3>2. ~AllAnnounced
      <4> SUFFICES ASSUME AllAnnounced PROVE FALSE
        OBVIOUS
      <4>1. Head(mQueue) \in mGraphicBuffer
        BY <1>1, <2>1, <2>5, TailInQueue
           DEF QueueInv, BufInv, AllAnnounced, Queued, InQueue
      <4> QED
        BY <2>1, <2>5, <4>1 DEF UpdateTexImageIdle, CanLatch, AllAnnounced
    <3>3. clearedFrames' = clearedFrames
      <4>1. mQueue' # Tail(mQueue)
        BY <1>1, <2>5, <3>1
      <4> QED
        BY <1>8, <2>5, <4>1 DEF LockPageFlipUpdates, updateTexImage
    <3> QED
      BY <1>1, <2>1, <2>2, <3>1, <3>2, <3>3 DEF AnnounceInv, AllAnnounced
  <2> QED
    BY <1>8, <2>3, <2>4, <2>5 DEF LockPageFlipUpdates
<1>9. CASE onRemoved
  <2>1. UNCHANGED <<call, signalling>> /\ mAbandoned' /\ loop' = "waitForEvent"
    BY <1>9 DEF onRemoved, abandon
  <2>2. Announcing' = Announcing
    BY <2>1 DEF Announcing
  <2> QED
    BY <2>1, <2>2 DEF AnnounceInv
<1>10. CASE UNCHANGED allVars
  BY <1>2, <1>10 DEF allVars, layerVars, Latching
<1> QED
  BY <1>3, <1>4, <1>5, <1>6, <1>7, <1>8, <1>9, <1>10 DEF LayerNext, PageFlip

LEMMA AnnounceInit == LayerInit => AnnounceInv
<1> SUFFICES ASSUME LayerInit PROVE AnnounceInv
  OBVIOUS
<1>1. Announcing = {} /\ Latching = 0 /\ mQueue = <<>> /\ mQueuedFrames = 0
      /\ clearedFrames = 0
  BY DEF LayerInit, InitWith, Announcing, Latching
<1> QED
  BY <1>1, FS_EmptySet DEF AnnounceInv, LayerInit

LEMMA LayerInvariant == LayerSpec => [](QueueInv /\ Typed /\ AnnounceInv)
<1>1. Typed => LayerTypeOK
  BY DEF Typed
<1> QED
  BY <1>1, QueueInit, TypedInit, AnnounceInit, QueueStep, TypedStep, AnnounceStep, PTL
     DEF LayerSpec

\* The variables of the layer hold values of their types; only a thread that
\* announces a frame is about to post an event.
THEOREM LayerTypeCorrect == LayerSpec => []LayerTypeOK
<1>1. Typed => LayerTypeOK
  BY DEF Typed
<1> QED
  BY <1>1, LayerInvariant, PTL

\* No event is lost: while announced frames wait, the main thread is awake or will be.
THEOREM WakesForFrames == LayerSpec => []EventNotLost
<1>1. LayerInit => EventNotLost
  BY DEF LayerInit, EventNotLost
<1> QED
  BY <1>1, LayerInvariant, EventStep, PTL DEF LayerSpec

\* Every frame that waits or has been dropped by setBufferCount is announced once, and
\* no other is.
THEOREM Announced == LayerSpec => []FramesAnnounced
<1>1. AnnounceInv => FramesAnnounced
  BY DEF AnnounceInv, FramesAnnounced, Announcing, Latching, AllAnnounced
<1> QED
  BY <1>1, LayerInvariant, PTL

\* The main thread handles an announcement of a dropped frame without a buffer only
\* when there was none at the time.
ActiveInv ==
  /\ ActiveBufferExists
  /\ ~mAbandoned /\ clearedFrames > 0 => mCurrentTextureBuf \/ clearedFirst

LEMMA ActiveStep ==
  ASSUME QueueInv, AnnounceInv, Typed, ActiveInv, [LayerNext]_allVars
  PROVE  ActiveInv'
<1> USE DEF ActiveInv, ActiveBufferExists, vars, textureVars, modeVars, historyVars
<1>1. ASSUME UNCHANGED <<mCurrentTextureBuf, mAbandoned, historyVars>>,
             loop' = "getCurrentBuffer" => loop = "getCurrentBuffer"
      PROVE  ActiveInv'
  BY <1>1
<1>2. ASSUME NEW t \in Threads, Produce(t) PROVE ActiveInv'
  <2>1. UNCHANGED <<mCurrentTextureBuf, mAbandoned, loop>>
    BY <1>2, ProducerMovesOn DEF Produce, MovesOn, Typed
  <2>2. /\ clearedFrames \in Nat /\ Dropped \in Nat
        /\ clearedFirst' = (clearedFirst \/ (Dropped > 0 /\ ~mCurrentTextureBuf))
        /\ clearedFrames' = clearedFrames + Dropped
    BY <1>2 DEF Produce, Typed, LayerTypeOK, QueueInv, TypeOK, Dropped
  <2>3. clearedFrames' > 0 => clearedFrames > 0 \/ Dropped > 0
    BY <2>2
  <2> QED
    BY <2>1, <2>2, <2>3
<1>3. ASSUME NEW t \in Threads, onFrameQueued(t) \/ signalEvent(t) PROVE ActiveInv'
  BY <1>1, <1>3 DEF onFrameQueued, signalEvent, OnFrameAvailable
<1>4. CASE LockPageFlipUpdates
  <2>1. CASE updateTexImage
    BY <2>1 DEF updateTexImage
  <2>2. CASE UpdateTexImageIdle /\ mQueue = <<>>
    <3>1. clearedFrames > 0 /\ ~mAbandoned
      BY <1>4, <2>2, ClearedLeft DEF LockPageFlipUpdates, AnnounceInv, Typed
    <3>2. UNCHANGED <<mCurrentTextureBuf, clearedFirst>>
      BY <1>4, <2>2 DEF LockPageFlipUpdates, UpdateTexImageIdle
    <3> QED
      BY <3>1, <3>2
  <2>3. CASE UpdateTexImageIdle /\ mQueue # <<>> /\ ~updateTexImage
    BY <1>1, <1>4, <2>3 DEF LockPageFlipUpdates, UpdateTexImageIdle
  <2> QED
    BY <1>4, <2>1, <2>2, <2>3 DEF LockPageFlipUpdates
<1>5. CASE OtherEvent \/ waitForEvent \/ LockPageFlipIdle \/ LockPageFlipTakes \/ LockPageFlipActivates
  BY <1>1, <1>5
     DEF OtherEvent, waitForEvent, LockPageFlipIdle, LockPageFlipTakes, LockPageFlipActivates
<1>6. CASE onRemoved
  BY <1>6 DEF onRemoved, abandon
<1>7. CASE UNCHANGED allVars
  BY <1>1, <1>7 DEF allVars, layerVars
<1> QED
  BY <1>2, <1>3, <1>4, <1>5, <1>6, <1>7 DEF LayerNext, PageFlip

\* lockPageFlip reads the size of a buffer that the queue has shown it, except after
\* setBufferCount has dropped frames of which none had been latched yet.
THEOREM ActiveBuffer == LayerSpec => []ActiveBufferExists
<1>1. LayerInit => ActiveInv
  BY DEF LayerInit, ActiveInv, ActiveBufferExists
<1>2. QueueInv /\ AnnounceInv /\ Typed /\ ActiveInv /\ [LayerNext]_allVars => ActiveInv'
  BY ActiveStep
<1>3. ActiveInv => ActiveBufferExists
  BY DEF ActiveInv
<1> QED
  BY <1>1, <1>2, <1>3, LayerInvariant, PTL DEF LayerSpec
=============================================================================
