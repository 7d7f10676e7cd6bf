------------------------- MODULE SurfaceTexture_proofs -------------------------
(***************************************************************************)
(* Theorems of SurfaceTexture for every number of slots, threads and bounds *)
(* the assumptions allow.                                                   *)
(***************************************************************************)
EXTENDS SurfaceTexture, FiniteSetTheorems, TLAPS

-----------------------------------------------------------------------------
(* Lemmas on the helpers. *)

\* Slots is a finite set of natural numbers.
LEMMA SlotsFinite == IsFiniteSet(Slots) /\ Slots \subseteq Nat /\ INVALID_BUFFER_SLOT \notin Slots
  BY FS_Interval, SlotsAssumption DEF Slots, INVALID_BUFFER_SLOT

\* A signal only ever removes waiters.
LEMMA SignalShrinks ==
  ASSUME NEW W, NEW V \in Signal(W)
  PROVE  V \subseteq W
  BY DEF Signal

\* The number the dequeue loop raises the count to is a natural number.
LEMMA RequiredCountNat == RequiredCount \in Nat
<1>1. IsFiniteSet(InState("DEQUEUED", mBufferCount))
  BY FS_Subset, SlotsFinite DEF InState, SlotsBelow
<1>2. Cardinality(InState("DEQUEUED", mBufferCount)) \in Nat
  BY <1>1, FS_CardinalityType
<1> QED
  BY <1>2, SlotsAssumption DEF RequiredCount

-----------------------------------------------------------------------------
(* Type correctness. *)

SlotsTyped ==
  /\ mBufferState \in [Slots -> {"FREE", "DEQUEUED", "QUEUED"}]
  /\ mGraphicBuffer \subseteq Slots
  /\ mRequestBufferCalled \subseteq Slots
  /\ mCurrentTexture \in Slots \cup {INVALID_BUFFER_SLOT}
  /\ held \subseteq Slots

CountsTyped ==
  /\ mBufferCount \in Nat
  /\ mClientBufferCount \in Nat
  /\ mServerBufferCount \in Nat

ThreadsTyped ==
  /\ mDequeueCondition \subseteq {t \in Threads : call[t] \notin {"none", "onFrameAvailable"}}
  /\ call \in [Threads -> Calls]

RestTyped ==
  /\ mQueue \in Seq(Slots)
  /\ mCurrentTextureBuf \in BOOLEAN
  /\ mSynchronousMode \in BOOLEAN
  /\ mConnectedApi \in Apis \cup {NO_CONNECTED_API}
  /\ mAbandoned \in BOOLEAN

LEMMA TypeParts == TypeOK <=> SlotsTyped /\ CountsTyped /\ ThreadsTyped /\ RestTyped
  BY DEF TypeOK, SlotsTyped, CountsTyped, ThreadsTyped, RestTyped

\* In the initial states of any mode and server count.
LEMMA TypeInitWith ==
  ASSUME NEW sync \in BOOLEAN, NEW server \in Nat, InitWith(sync, server)
  PROVE  TypeOK
<1> USE DEF InitWith
<1>1. SlotsTyped
  BY DEF SlotsTyped
<1>2. CountsTyped
  BY SlotsAssumption DEF CountsTyped, MIN_ASYNC_BUFFER_SLOTS
<1>3. ThreadsTyped
  BY DEF ThreadsTyped, Calls
<1>4. RestTyped
  <2>1. mQueue \in Seq(Slots)
    OBVIOUS
  <2>2. mCurrentTextureBuf \in BOOLEAN /\ mSynchronousMode \in BOOLEAN /\ mAbandoned \in BOOLEAN
    BY Zenon
  <2> QED
    BY <2>1, <2>2 DEF RestTyped
<1> QED
  BY <1>1, <1>2, <1>3, <1>4, TypeParts

LEMMA TypeInit == Init => TypeOK
<1>1. MIN_ASYNC_BUFFER_SLOTS \in Nat
  BY SlotsAssumption DEF MIN_ASYNC_BUFFER_SLOTS
<1> QED
  BY <1>1, TypeInitWith DEF Init

\* Waiting and returning keep the threads typed.
Waits == {"dequeueBuffer", "dequeueRetried", "setSynchronousMode", "disconnect"}

LEMMA WaitTyped ==
  ASSUME ThreadsTyped, NEW t \in Threads,
         NEW op \in Waits, Wait(t, op)
  PROVE  ThreadsTyped'
  BY DEF ThreadsTyped, Wait, Waits, Calls

LEMMA ReturnTyped ==
  ASSUME ThreadsTyped, NEW t \in Threads, t \notin mDequeueCondition,
         SignalAndReturn(t) \/ ReturnSilently(t)
  PROVE  ThreadsTyped'
<1>1. mDequeueCondition' \subseteq mDequeueCondition
  BY SignalShrinks DEF SignalAndReturn, ReturnSilently
<1> QED
  BY <1>1 DEF ThreadsTyped, SignalAndReturn, ReturnSilently, Return, Calls

\* A thread that starts or resumes a call is not waiting.
LEMMA RunningNotWaiting ==
  ASSUME ThreadsTyped, NEW t \in Threads, NEW op, Starts(t) \/ Resumes(t, op)
  PROVE  t \notin mDequeueCondition
  BY DEF ThreadsTyped, Starts, Resumes

LEMMA DequeueNotWaiting ==
  ASSUME ThreadsTyped, NEW t \in Threads, EntersDequeue(t) \/ ResumesDequeue(t)
  PROVE  t \notin mDequeueCondition
  BY RunningNotWaiting DEF EntersDequeue, ResumesDequeue

\* Freeing slots keeps them typed.
LEMMA FreeTyped ==
  ASSUME SlotsTyped, NEW keep, FreeAllBuffersExcept(keep),
         held' \subseteq held
  PROVE  SlotsTyped'
  BY DEF SlotsTyped, FreeAllBuffersExcept

\* So does taking a slot from a typed state.
LEMMA TakeTyped ==
  ASSUME SlotsTyped, ThreadsTyped,
         NEW t \in Threads, NEW b \in Slots, t \notin mDequeueCondition,
         NEW states \in [Slots -> {"FREE", "DEQUEUED", "QUEUED"}],
         NEW buffers \in SUBSET Slots,
         NEW current \in Slots \cup {INVALID_BUFFER_SLOT},
         NEW mySlots \in SUBSET Slots,
         TakeBuffer(t, b, states, buffers, current, mySlots)
  PROVE  SlotsTyped' /\ ThreadsTyped'
<1>1. mBufferState' \in [Slots -> {"FREE", "DEQUEUED", "QUEUED"}]
  BY DEF TakeBuffer
<1>2. /\ mGraphicBuffer' \subseteq Slots
      /\ mRequestBufferCalled' \subseteq Slots
      /\ held' \subseteq Slots
  BY DEF TakeBuffer, SlotsTyped
<1>3. mCurrentTexture' \in Slots \cup {INVALID_BUFFER_SLOT}
  BY DEF TakeBuffer
<1>4. ThreadsTyped'
  BY ReturnTyped DEF TakeBuffer
<1> QED
  BY <1>1, <1>2, <1>3, <1>4 DEF SlotsTyped

\* The loop of dequeueBuffer leaves natural numbers in the counts.
LEMMA AdjustTyped == CountsTyped /\ AdjustCounts => CountsTyped'
  BY RequiredCountNat DEF CountsTyped, AdjustCounts, ClientCount

LEMMA ServerCountTyped ==
  ASSUME CountsTyped, ThreadsTyped, NEW n \in Nat, NEW client,
         setBufferCountServerLocked(n, client), call' = call
  PROVE  /\ mBufferCount' \in Nat /\ mServerBufferCount' \in Nat
         /\ ThreadsTyped'
<1>1. mBufferCount' \in Nat /\ mServerBufferCount' \in Nat
  BY DEF setBufferCountServerLocked, CountsTyped
<1>2. mDequeueCondition' \subseteq mDequeueCondition
  BY SignalShrinks DEF setBufferCountServerLocked
<1> QED
  BY <1>1, <1>2 DEF ThreadsTyped

\* Every step keeps the types.
LEMMA TypeStep == TypeOK /\ [Next]_vars => TypeOK'
<1> SUFFICES ASSUME SlotsTyped, CountsTyped, ThreadsTyped, RestTyped, [Next]_vars
             PROVE  SlotsTyped' /\ CountsTyped' /\ ThreadsTyped' /\ RestTyped'
  BY DEF TypeOK, SlotsTyped, CountsTyped, ThreadsTyped, RestTyped
<1> USE DEF slotVars, textureVars, countVars, modeVars, threadVars
<1>1. CASE UNCHANGED vars
  BY <1>1 DEF vars, SlotsTyped, CountsTyped, ThreadsTyped, RestTyped
<1>2. ASSUME NEW n \in ServerCounts, setBufferCountServer(n)
      PROVE  SlotsTyped' /\ CountsTyped' /\ ThreadsTyped' /\ RestTyped'
  <2>1. n \in Nat
    BY ClientAssumption
  <2> QED
    BY <1>2, <2>1, ServerCountTyped
       DEF setBufferCountServer, SlotsTyped, CountsTyped, RestTyped
<1>3. ASSUME NEW t \in Threads, ResetBufferCount(t)
      PROVE  SlotsTyped' /\ CountsTyped' /\ ThreadsTyped' /\ RestTyped'
  <2> DEFINE n == IF mServerBufferCount >= MinSlots THEN mServerBufferCount ELSE MinSlots
  <2>1. n \in Nat
    BY SlotsAssumption DEF MinSlots, MIN_SYNC_BUFFER_SLOTS, MIN_ASYNC_BUFFER_SLOTS, CountsTyped
  <2>2. setBufferCountServerLocked(n, 0) /\ call' = call
    BY <1>3 DEF ResetBufferCount
  <2>3. mBufferCount' \in Nat /\ mServerBufferCount' \in Nat /\ ThreadsTyped'
    BY <2>1, <2>2, ServerCountTyped
  <2> QED
    BY <1>3, <2>3 DEF ResetBufferCount, SlotsTyped, CountsTyped, RestTyped
<1>4. ASSUME NEW t \in Threads, NEW n \in ClientCounts, setBufferCount(t, n)
      PROVE  SlotsTyped' /\ CountsTyped' /\ ThreadsTyped' /\ RestTyped'
  <2>1. SlotsTyped'
    BY <1>4, FreeTyped DEF setBufferCount, freeAllBuffersLocked
  <2>2. CountsTyped'
    BY <1>4, ClientAssumption DEF setBufferCount, CountsTyped
  <2>3. ThreadsTyped'
    BY <1>4, ReturnTyped, RunningNotWaiting DEF setBufferCount
  <2>4. RestTyped'
    BY <1>4 DEF setBufferCount, RestTyped
  <2> QED
    BY <2>1, <2>2, <2>3, <2>4
<1>5. ASSUME NEW t \in Threads, DequeueWaitsForDrain(t)
      PROVE  SlotsTyped' /\ CountsTyped' /\ ThreadsTyped' /\ RestTyped'
  <2>1. (IF Starts(t) THEN "dequeueBuffer" ELSE call[t]) \in Waits
    BY <1>5 DEF DequeueWaitsForDrain, EntersDequeue, ResumesDequeue, Resumes, Waits
  <2>2. ThreadsTyped'
    BY <1>5, <2>1, WaitTyped DEF DequeueWaitsForDrain
  <2> QED
    BY <1>5, <2>2 DEF DequeueWaitsForDrain, SlotsTyped, CountsTyped, RestTyped
<1>6. ASSUME NEW t \in Threads, DequeueResizes(t)
      PROVE  SlotsTyped' /\ CountsTyped' /\ ThreadsTyped' /\ RestTyped'
  <2>1. t \notin mDequeueCondition
    BY <1>6, DequeueNotWaiting DEF DequeueResizes
  <2>2. PICK b \in Slots : TakeBuffer(t, b, [s \in Slots |-> "FREE"], {}, INVALID_BUFFER_SLOT, {})
    BY <1>6 DEF DequeueResizes, SlotsBelow
  <2>3. SlotsTyped' /\ ThreadsTyped'
    BY <2>1, <2>2, TakeTyped
  <2>4. CountsTyped'
    BY <1>6, SlotsAssumption
       DEF DequeueResizes, ResizedCount, MinSlots, MIN_SYNC_BUFFER_SLOTS,
           MIN_ASYNC_BUFFER_SLOTS, CountsTyped
  <2> QED
    BY <1>6, <2>3, <2>4 DEF DequeueResizes, RestTyped
<1>7. ASSUME NEW t \in Threads, DequeueTakes(t)
      PROVE  SlotsTyped' /\ CountsTyped' /\ ThreadsTyped' /\ RestTyped'
  <2>1. t \notin mDequeueCondition
    BY <1>7, DequeueNotWaiting DEF DequeueTakes, SearchesBuffer
  <2>2. PICK b \in Slots : TakeBuffer(t, b, mBufferState, mGraphicBuffer, mCurrentTexture, held)
    BY <1>7 DEF DequeueTakes, InState, SlotsBelow
  <2>3. SlotsTyped' /\ ThreadsTyped'
    BY <2>1, <2>2, TakeTyped DEF SlotsTyped
  <2> QED
    BY <1>7, <2>3, AdjustTyped DEF DequeueTakes, RestTyped
<1>8. ASSUME NEW t \in Threads, DequeueFindsNone(t)
      PROVE  SlotsTyped' /\ CountsTyped' /\ ThreadsTyped' /\ RestTyped'
  <2>1. t \notin mDequeueCondition
    BY <1>8, DequeueNotWaiting DEF DequeueFindsNone, SearchesBuffer
  <2>2. ThreadsTyped'
    <3>1. CASE ~mSynchronousMode
      BY <1>8, <2>1, <3>1, ReturnTyped DEF DequeueFindsNone
    <3>2. CASE mSynchronousMode
      <4> DEFINE op == IF MustRetry \/ call[t] = "dequeueRetried" THEN "dequeueRetried"
                       ELSE "dequeueBuffer"
      <4>1. op \in Waits
        BY DEF Waits
      <4>2. Wait(t, op)
        BY <1>8, <3>2 DEF DequeueFindsNone
      <4> HIDE DEF op
      <4> QED
        BY <4>1, <4>2, WaitTyped
    <3> QED
      BY <3>1, <3>2
  <2> QED
    BY <1>8, <2>2, AdjustTyped DEF DequeueFindsNone, SlotsTyped, RestTyped
<1>9. ASSUME NEW t \in Threads, DequeueFails(t) \/ DequeueSpins(t)
      PROVE  SlotsTyped' /\ CountsTyped' /\ ThreadsTyped' /\ RestTyped'
  <2>1. CASE DequeueFails(t)
    BY <2>1, ReturnTyped, DequeueNotWaiting DEF DequeueFails, SlotsTyped, CountsTyped, RestTyped
  <2>2. CASE DequeueSpins(t)
    BY <2>2, DequeueNotWaiting
       DEF DequeueSpins, ResumesDequeue, SlotsTyped, CountsTyped, RestTyped, ThreadsTyped, Calls
  <2> QED
    BY <1>9, <2>1, <2>2
<1>10. ASSUME NEW t \in Threads, NEW s \in held, requestBuffer(t, s)
       PROVE  SlotsTyped' /\ CountsTyped' /\ ThreadsTyped' /\ RestTyped'
  BY <1>10 DEF requestBuffer, SlotsTyped, CountsTyped, ThreadsTyped, RestTyped
<1>11. ASSUME NEW t \in Threads, NEW s \in held, queueBuffer(t, s)
       PROVE  SlotsTyped' /\ CountsTyped' /\ ThreadsTyped' /\ RestTyped'
  <2>1. s \in Slots
    BY DEF SlotsTyped
  <2>2. mQueue' \in Seq(Slots)
    BY <1>11, <2>1 DEF queueBuffer, RestTyped
  <2>3. SlotsTyped'
    BY <1>11, <2>1 DEF queueBuffer, SlotsTyped
  <2>4. mDequeueCondition' \subseteq mDequeueCondition /\ t \notin mDequeueCondition
    BY <1>11, SignalShrinks, RunningNotWaiting DEF queueBuffer
  <2>5. ThreadsTyped'
    BY <1>11, <2>4 DEF queueBuffer, ThreadsTyped, Calls
  <2> QED
    BY <1>11, <2>2, <2>3, <2>5 DEF queueBuffer, CountsTyped, RestTyped
<1>12. ASSUME NEW t \in Threads, NEW s \in held, QueueBufferFails(t, s)
       PROVE  SlotsTyped' /\ CountsTyped' /\ ThreadsTyped' /\ RestTyped'
  BY <1>12 DEF QueueBufferFails, SlotsTyped, CountsTyped, ThreadsTyped, RestTyped
<1>13. ASSUME NEW t \in Threads, OnFrameAvailable(t)
       PROVE  SlotsTyped' /\ CountsTyped' /\ ThreadsTyped' /\ RestTyped'
  <2>1. t \notin mDequeueCondition
    BY <1>13 DEF OnFrameAvailable, ThreadsTyped
  <2> QED
    BY <1>13, <2>1, ReturnTyped DEF OnFrameAvailable, SlotsTyped, CountsTyped, RestTyped
<1>14. ASSUME NEW t \in Threads, NEW s \in held, cancelBuffer(t, s)
       PROVE  SlotsTyped' /\ CountsTyped' /\ ThreadsTyped' /\ RestTyped'
  BY <1>14, ReturnTyped, RunningNotWaiting
     DEF cancelBuffer, SlotsTyped, CountsTyped, RestTyped
<1>15. ASSUME NEW t \in Threads, NEW api \in Apis, connect(t, api)
       PROVE  SlotsTyped' /\ CountsTyped' /\ ThreadsTyped' /\ RestTyped'
  BY <1>15 DEF connect, SlotsTyped, CountsTyped, ThreadsTyped, RestTyped
<1>16. ASSUME NEW t \in Threads, SetSynchronous(t)
       PROVE  SlotsTyped' /\ CountsTyped' /\ ThreadsTyped' /\ RestTyped'
  BY <1>16, ReturnTyped, RunningNotWaiting
     DEF SetSynchronous, SlotsTyped, CountsTyped, RestTyped
<1>17. ASSUME NEW t \in Threads, SetAsynchronous(t)
       PROVE  SlotsTyped' /\ CountsTyped' /\ ThreadsTyped' /\ RestTyped'
  <2>1. t \notin mDequeueCondition
    BY <1>17, RunningNotWaiting DEF SetAsynchronous, DrainGoesOn, DrainGivesUp
  <2>2. SlotsTyped' /\ CountsTyped' /\ RestTyped'
    BY <1>17 DEF SetAsynchronous, DrainWaits, SlotsTyped, CountsTyped, RestTyped
  <2>3. ThreadsTyped'
    BY <1>17, <2>1, WaitTyped, ReturnTyped DEF SetAsynchronous, DrainWaits, Waits
  <2> QED
    BY <2>2, <2>3
<1>18. ASSUME NEW t \in Threads, NEW drained \in BOOLEAN, t \notin mDequeueCondition,
              FinishDisconnect(t, drained)
       PROVE  SlotsTyped' /\ CountsTyped' /\ ThreadsTyped' /\ RestTyped'
  <2>1. held' \subseteq held
    BY <1>18 DEF FinishDisconnect
  <2>2. CASE drained
    <3>1. SlotsTyped'
      BY <1>18, <2>1, <2>2, FreeTyped
         DEF FinishDisconnect, freeAllBuffersLocked, freeAllBuffersExceptHeadLocked
    <3> QED
      BY <1>18, <3>1, ReturnTyped DEF FinishDisconnect, CountsTyped, RestTyped
  <2>3. CASE ~drained
    BY <1>18, <2>1, <2>3, ReturnTyped DEF FinishDisconnect, SlotsTyped, CountsTyped, RestTyped
  <2> QED
    BY <2>2, <2>3
<1>19. ASSUME NEW t \in Threads, disconnect(t)
       PROVE  SlotsTyped' /\ CountsTyped' /\ ThreadsTyped' /\ RestTyped'
  <2>1. t \notin mDequeueCondition
    BY <1>19, RunningNotWaiting DEF disconnect, DrainGoesOn, DrainGivesUp
  <2>2. CASE DrainWaits(t, "disconnect")
    BY <2>2, WaitTyped DEF DrainWaits, Waits, SlotsTyped, CountsTyped, RestTyped
  <2>3. CASE FinishDisconnect(t, TRUE) \/ FinishDisconnect(t, FALSE)
    BY <2>1, <2>3, <1>18
  <2> QED
    BY <1>19, <2>2, <2>3 DEF disconnect
<1>20. CASE updateTexImage
  <2>1. mQueue \in Seq(Slots) /\ mQueue # <<>>
    BY <1>20 DEF updateTexImage, CanLatch, RestTyped
  <2>2. mQueue' \in Seq(Slots) /\ mCurrentTexture' \in Slots
    BY <1>20, <2>1 DEF updateTexImage
  <2>3. SlotsTyped'
    BY <1>20, <2>2 DEF updateTexImage, FreeReplacedTexture, SlotsTyped
  <2>4. mDequeueCondition' \subseteq mDequeueCondition
    BY <1>20, SignalShrinks DEF updateTexImage
  <2>5. mCurrentTextureBuf' \in BOOLEAN
    BY <1>20, Zenon DEF updateTexImage
  <2> QED
    BY <1>20, <2>2, <2>3, <2>4, <2>5 DEF updateTexImage, CountsTyped, ThreadsTyped, RestTyped
<1>21. CASE abandon
  <2>1. SlotsTyped'
    BY <1>21, FreeTyped DEF abandon, freeAllBuffersLocked
  <2>2. mDequeueCondition' \subseteq mDequeueCondition
    BY <1>21, SignalShrinks DEF abandon
  <2>3. mCurrentTextureBuf' \in BOOLEAN /\ mAbandoned' \in BOOLEAN
    BY <1>21, Zenon DEF abandon
  <2> QED
    BY <1>21, <2>1, <2>2, <2>3 DEF abandon, CountsTyped, ThreadsTyped, RestTyped
<1>22. CASE UpdateTexImageIdle
  BY <1>1, <1>22 DEF UpdateTexImageIdle
<1> QED
  BY <1>1, <1>2, <1>3, <1>4, <1>5, <1>6, <1>7, <1>8, <1>9, <1>10, <1>11, <1>12, <1>13,
     <1>14, <1>15, <1>16, <1>17, <1>19, <1>20, <1>21, <1>22
     DEF Next, ProducerStep, dequeueBuffer

\* Every variable always has its type.
THEOREM TypeCorrect == Spec => []TypeOK
<1>1. Init => TypeOK
  BY TypeInit
<1>2. TypeOK /\ [Next]_vars => TypeOK'
  BY TypeStep
<1> QED
  BY <1>1, <1>2, PTL DEF Spec

-----------------------------------------------------------------------------
(* The asynchronous FIFO is one deep.  A step that leaves synchronous mode     *)
(* does so with an empty FIFO, and an asynchronous queueBuffer appends to an   *)
(* empty FIFO or replaces its head.                                            *)

LEMMA AsyncStep == TypeOK /\ AsyncOneDeep /\ [Next]_vars => AsyncOneDeep'
<1> SUFFICES ASSUME TypeOK, AsyncOneDeep, [Next]_vars, ~mSynchronousMode'
             PROVE  Len(mQueue') <= 1
  BY DEF AsyncOneDeep
<1> USE DEF slotVars, textureVars, countVars, modeVars, threadVars, AsyncOneDeep
<1>1. mQueue \in Seq(Slots)
  BY DEF TypeOK
<1>2. CASE mQueue' = mQueue /\ mSynchronousMode' = mSynchronousMode
  BY <1>2
<1>3. CASE mQueue' = <<>>
  BY <1>3
<1>4. ASSUME NEW t \in Threads, NEW s \in held, queueBuffer(t, s)
      PROVE  Len(mQueue') <= 1
  <2>1. s \in Slots /\ ~mSynchronousMode
    BY <1>4 DEF TypeOK, queueBuffer
  <2>2. CASE mQueue = <<>>
    BY <1>4, <2>1, <2>2 DEF queueBuffer
  <2>3. CASE mQueue # <<>>
    BY <1>1, <1>4, <2>1, <2>3 DEF queueBuffer
  <2> QED
    BY <2>2, <2>3
<1>5. ASSUME NEW t \in Threads, SetAsynchronous(t)
      PROVE  Len(mQueue') <= 1
  <2>1. CASE mSynchronousMode' = mSynchronousMode
    BY <1>2, <1>5, <2>1 DEF SetAsynchronous, DrainWaits
  <2>2. CASE mSynchronousMode' # mSynchronousMode
    BY <1>5, <2>2 DEF SetAsynchronous, DrainWaits, MustDrain
  <2> QED
    BY <2>1, <2>2
<1>6. ASSUME NEW t \in Threads, disconnect(t)
      PROVE  Len(mQueue') <= 1
  BY <1>2, <1>6 DEF disconnect, DrainWaits, FinishDisconnect
<1>7. ASSUME NEW t \in Threads, dequeueBuffer(t)
      PROVE  Len(mQueue') <= 1
  BY <1>2, <1>7
     DEF dequeueBuffer, DequeueWaitsForDrain, DequeueResizes, DequeueTakes, DequeueFindsNone,
         DequeueSpins, DequeueFails
<1>8. CASE updateTexImage
  BY <1>1, <1>8 DEF updateTexImage, CanLatch
<1>9. ASSUME NEW t \in Threads, ProducerStep(t)
      PROVE  Len(mQueue') <= 1
  BY <1>2, <1>3, <1>4, <1>5, <1>6, <1>7, <1>9
     DEF ProducerStep, requestBuffer, QueueBufferFails, OnFrameAvailable, cancelBuffer, connect,
         SetSynchronous, ResetBufferCount, setBufferCount
<1> QED
  BY <1>2, <1>3, <1>8, <1>9 DEF Next, setBufferCountServer, UpdateTexImageIdle, abandon, vars

\* In asynchronous mode at most one frame is pending, for every history of mode
\* changes, drains and resizes.
THEOREM AsyncDepth == Spec => []AsyncOneDeep
<1>1. Init => AsyncOneDeep
  BY DEF Init, InitWith, AsyncOneDeep
<1>2. TypeOK /\ AsyncOneDeep /\ [Next]_vars => AsyncOneDeep'
  BY AsyncStep
<1> QED
  BY <1>1, <1>2, TypeCorrect, PTL DEF Spec

-----------------------------------------------------------------------------
(* Ownership.  ExclusiveAccess is not inductive: that a held slot is neither   *)
(* pending nor current follows from where QUEUED slots are (the FIFO or the    *)
(* texture) and from the producer holding none of them.                        *)

InQueue(q) == {q[i] : i \in 1 .. Len(q)}
NoRepeats(q) == \A i, j \in 1 .. Len(q) : q[i] = q[j] => i = j

OwnInv ==
  /\ \A s \in Slots : mBufferState[s] = "QUEUED" <=> s \in Queued \/ s = mCurrentTexture
  /\ mCurrentTexture \notin Queued
  /\ NoRepeats(mQueue)
  /\ \A s \in held : mBufferState[s] # "QUEUED"

\* Appending a new element.
LEMMA AppendInQueue ==
  ASSUME NEW S, NEW q \in Seq(S), NEW e \in S, e \notin InQueue(q)
  PROVE  /\ InQueue(Append(q, e)) = InQueue(q) \cup {e}
         /\ NoRepeats(q) => NoRepeats(Append(q, e))
<1> DEFINE r == Append(q, e)
<1>1. /\ Len(r) = Len(q) + 1 /\ Len(q) \in Nat
      /\ \A i \in 1 .. Len(q) : r[i] = q[i]
      /\ r[Len(q) + 1] = e
  OBVIOUS
<1> HIDE DEF r
<1>2. 1 .. Len(r) = (1 .. Len(q)) \cup {Len(q) + 1}
  BY <1>1
<1>3. InQueue(r) = InQueue(q) \cup {e}
  BY <1>1, <1>2 DEF InQueue
<1>4. NoRepeats(q) => NoRepeats(r)
  BY <1>1, <1>2 DEF NoRepeats, InQueue
<1> QED
  BY <1>3, <1>4 DEF r

\* Taking the head.
LEMMA TailInQueue ==
  ASSUME NEW S, NEW q \in Seq(S), q # <<>>
  PROVE  /\ Head(q) \in InQueue(q)
         /\ InQueue(Tail(q)) \cup {Head(q)} = InQueue(q)
         /\ NoRepeats(q) => Head(q) \notin InQueue(Tail(q)) /\ NoRepeats(Tail(q))
<1>1. /\ Len(q) \in Nat /\ Len(q) >= 1 /\ Head(q) = q[1]
      /\ Tail(q) \in Seq(S) /\ Len(Tail(q)) = Len(q) - 1
      /\ \A i \in 1 .. Len(q) - 1 : Tail(q)[i] = q[i + 1]
  OBVIOUS
<1>2. \A i \in 1 .. Len(q) : i = 1 \/ i - 1 \in 1 .. Len(q) - 1
  BY <1>1
<1>3. InQueue(Tail(q)) \cup {Head(q)} = InQueue(q)
  <2>1. InQueue(Tail(q)) \cup {Head(q)} \subseteq InQueue(q)
    BY <1>1 DEF InQueue
  <2>2. ASSUME NEW i \in 1 .. Len(q) PROVE q[i] \in InQueue(Tail(q)) \cup {Head(q)}
    <3>1. CASE i = 1
      BY <1>1, <3>1
    <3>2. CASE i # 1
      <4>1. i - 1 \in 1 .. Len(Tail(q)) /\ Tail(q)[i - 1] = q[i]
        BY <1>1, <3>2
      <4> QED
        BY <4>1 DEF InQueue
    <3> QED
      BY <3>1, <3>2
  <2> QED
    BY <2>1, <2>2 DEF InQueue
<1>4. NoRepeats(q) => Head(q) \notin InQueue(Tail(q)) /\ NoRepeats(Tail(q))
  BY <1>1 DEF InQueue, NoRepeats
<1> QED
  BY <1>1, <1>3, <1>4 DEF InQueue

LEMMA OwnInit ==
  ASSUME NEW sync, NEW server, InitWith(sync, server)
  PROVE  OwnInv
  BY DEF InitWith, OwnInv, Queued, NoRepeats, Slots, INVALID_BUFFER_SLOT

\* Steps after which nothing is queued and no texture is bound.
LEMMA OwnEmpty ==
  ASSUME \A s \in Slots : mBufferState'[s] # "QUEUED", mQueue' = <<>>,
         mCurrentTexture' = INVALID_BUFFER_SLOT, held' \subseteq Slots
  PROVE  OwnInv'
<1>1. Queued' = {}
  BY DEF Queued
<1> QED
  BY <1>1, SlotsFinite DEF OwnInv, NoRepeats

\* Steps that leave states, FIFO and texture alone.
LEMMA OwnSame ==
  ASSUME OwnInv, UNCHANGED <<mBufferState, mQueue, mCurrentTexture>>, held' \subseteq held
  PROVE  OwnInv'
  BY DEF OwnInv, Queued, NoRepeats

\* Taking a FREE slot.
LEMMA OwnTake ==
  ASSUME TypeOK, OwnInv, NEW t \in Threads, NEW b \in Slots, mBufferState[b] = "FREE",
         TakeBuffer(t, b, mBufferState, mGraphicBuffer, mCurrentTexture, held),
         mQueue' = mQueue
  PROVE  OwnInv'
<1>1. mBufferState' = [mBufferState EXCEPT ![b] = "DEQUEUED"]
  BY DEF TakeBuffer
<1>2. b # mCurrentTexture /\ b \notin Queued
  BY DEF OwnInv
<1>3. mCurrentTexture' = mCurrentTexture
  BY <1>2 DEF TakeBuffer
<1>4. held' \subseteq held \cup {b}
  BY DEF TakeBuffer
<1>5. Queued' = Queued
  BY DEF Queued
<1> QED
  BY <1>1, <1>2, <1>3, <1>4, <1>5 DEF OwnInv, TypeOK, NoRepeats

\* queueBuffer: the slot leaves the producer for the end of the FIFO, or for the
\* place of the only pending frame, which is free again.
LEMMA OwnQueue ==
  ASSUME TypeOK, OwnInv, AsyncOneDeep,
         NEW t \in Threads, NEW s \in held, queueBuffer(t, s)
  PROVE  OwnInv'
<1>1. /\ s \in Slots /\ mBufferState[s] = "DEQUEUED" /\ mQueue \in Seq(Slots)
      /\ mCurrentTexture' = mCurrentTexture /\ held' = held \ {s}
  BY DEF queueBuffer, CanQueue, TypeOK, textureVars
<1>2. s \notin Queued /\ s # mCurrentTexture
  BY <1>1 DEF OwnInv
<1>3. CASE mSynchronousMode \/ mQueue = <<>>
  <2>1. /\ mQueue' = Append(mQueue, s)
        /\ mBufferState' = [i \in Slots |-> IF i = s THEN "QUEUED" ELSE mBufferState[i]]
    BY <1>3 DEF queueBuffer
  <2>2. Queued' = Queued \cup {s} /\ NoRepeats(mQueue')
    BY <1>1, <1>2, <2>1, AppendInQueue DEF InQueue, Queued, OwnInv
  <2> QED
    BY <1>1, <1>2, <2>1, <2>2 DEF OwnInv, TypeOK
<1>4. CASE ~mSynchronousMode /\ mQueue # <<>>
  <2>0. Len(mQueue) = 1 /\ Head(mQueue) = mQueue[1]
    <3> DEFINE n == Len(mQueue)
    <3>1. n \in Nat /\ n # 0 /\ n <= 1
      BY <1>1, <1>4 DEF AsyncOneDeep
    <3>2. Head(mQueue) = mQueue[1]
      BY <1>1, <1>4
    <3> HIDE DEF n
    <3>3. n = 1
      BY <3>1
    <3> QED
      BY <3>2, <3>3 DEF n
  <2>1. Len(mQueue) = 1 /\ Queued = {Head(mQueue)}
    BY <2>0 DEF Queued
  <2>2. /\ mQueue' = [mQueue EXCEPT ![1] = s]
        /\ mBufferState' = [i \in Slots |-> IF i = s THEN "QUEUED"
                                            ELSE IF i \in {Head(mQueue)} THEN "FREE"
                                            ELSE mBufferState[i]]
    BY <1>4 DEF queueBuffer
  <2>3. Len(mQueue') = 1 /\ mQueue'[1] = s
    BY <1>1, <2>1, <2>2
  <2>4. Queued' = {s} /\ NoRepeats(mQueue')
    BY <2>3 DEF Queued, NoRepeats
  <2> QED
    BY <1>1, <1>2, <2>1, <2>2, <2>4 DEF OwnInv, TypeOK
<1> QED
  BY <1>3, <1>4

\* updateTexImage: the head of the FIFO becomes the texture, the slot it
\* replaces is free.
LEMMA OwnLatch == TypeOK /\ OwnInv /\ updateTexImage => OwnInv'
<1> SUFFICES ASSUME TypeOK, OwnInv, updateTexImage PROVE OwnInv'
  OBVIOUS
<1>1. mQueue \in Seq(Slots) /\ mQueue # <<>>
  BY DEF TypeOK, updateTexImage, CanLatch
<1>2. mQueue' = Tail(mQueue) /\ mCurrentTexture' = Head(mQueue) /\ held' = held
  BY DEF updateTexImage
<1>3. /\ Queued = Queued' \cup {Head(mQueue)}
      /\ Head(mQueue) \notin Queued' /\ NoRepeats(mQueue')
  <2>1. Queued = InQueue(mQueue) /\ Queued' = InQueue(Tail(mQueue))
    BY <1>2 DEF Queued, InQueue
  <2>2. NoRepeats(mQueue)
    BY DEF OwnInv
  <2>3. /\ InQueue(Tail(mQueue)) \cup {Head(mQueue)} = InQueue(mQueue)
        /\ Head(mQueue) \notin InQueue(Tail(mQueue)) /\ NoRepeats(Tail(mQueue))
    BY <1>1, <2>2, TailInQueue
  <2> QED
    BY <1>2, <2>1, <2>3
<1>4. \A s \in Slots : mBufferState'[s] =
        IF s = mCurrentTexture /\ mBufferState[s] = "QUEUED" THEN "FREE" ELSE mBufferState[s]
  BY SlotsFinite DEF updateTexImage, FreeReplacedTexture, TypeOK
<1>5. \A s \in Slots : mBufferState'[s] = "QUEUED" <=> s \in Queued' \/ s = mCurrentTexture'
  BY <1>2, <1>3, <1>4 DEF OwnInv
<1>6. \A s \in held' : mBufferState'[s] # "QUEUED"
  BY <1>2, <1>4 DEF OwnInv, TypeOK
<1> QED
  BY <1>2, <1>3, <1>5, <1>6 DEF OwnInv

\* The end of disconnect keeps at most the head of an asynchronous FIFO.
LEMMA OwnDisconnect ==
  ASSUME TypeOK, OwnInv, AsyncOneDeep, NEW t \in Threads, NEW drained \in BOOLEAN,
         FinishDisconnect(t, drained), drained => ~MustDrain
  PROVE  OwnInv'
<1>1. held' \subseteq held /\ mQueue' = mQueue /\ held \subseteq Slots /\ mQueue \in Seq(Slots)
  BY DEF FinishDisconnect, TypeOK
<1>2. CASE ~drained
  BY <1>1, <1>2, OwnSame DEF FinishDisconnect, slotVars
<1>3. CASE drained /\ mQueue = <<>>
  <2>1. mBufferState' = [s \in Slots |-> "FREE"] /\ mCurrentTexture' = INVALID_BUFFER_SLOT
    BY <1>3 DEF FinishDisconnect, freeAllBuffersLocked, freeAllBuffersExceptHeadLocked,
                FreeAllBuffersExcept
  <2> QED
    BY <1>1, <1>3, <2>1, OwnEmpty
<1>4. CASE drained /\ mQueue # <<>>
  <2>1. ~mSynchronousMode /\ Queued = {Head(mQueue)} /\ Head(mQueue) \in Slots
    BY <1>1, <1>4 DEF MustDrain, AsyncOneDeep, Queued
  <2>2. /\ mBufferState' = [s \in Slots |-> IF s \in {Head(mQueue)} THEN mBufferState[s] ELSE "FREE"]
        /\ mCurrentTexture' = INVALID_BUFFER_SLOT
    BY <1>4, <2>1 DEF FinishDisconnect, freeAllBuffersExceptHeadLocked, FreeAllBuffersExcept
  <2>3. Queued' = Queued
    BY <1>1 DEF Queued
  <2>4. INVALID_BUFFER_SLOT \notin Slots
    BY SlotsFinite
  <2> QED
    BY <1>1, <2>1, <2>2, <2>3, <2>4 DEF OwnInv, NoRepeats
<1> QED
  BY <1>2, <1>3, <1>4

LEMMA OwnStep == TypeOK /\ AsyncOneDeep /\ OwnInv /\ [Next]_vars => OwnInv'
<1> SUFFICES ASSUME TypeOK, AsyncOneDeep, OwnInv, [Next]_vars PROVE OwnInv'
  OBVIOUS
<1> USE DEF slotVars, textureVars, countVars, modeVars, threadVars
<1>1. held \subseteq Slots /\ mBufferState \in [Slots -> {"FREE", "DEQUEUED", "QUEUED"}]
  BY DEF TypeOK
<1>2. ASSUME UNCHANGED <<mBufferState, mQueue, mCurrentTexture>>, held' \subseteq held
      PROVE  OwnInv'
  BY <1>2, OwnSame
<1>3. ASSUME freeAllBuffersLocked, mQueue' = <<>>, held' \subseteq held
      PROVE  OwnInv'
  BY <1>1, <1>3, OwnEmpty DEF freeAllBuffersLocked, FreeAllBuffersExcept
<1>4. ASSUME NEW t \in Threads, DequeueResizes(t)
      PROVE  OwnInv'
  <2>1. PICK b \in Slots : TakeBuffer(t, b, [s \in Slots |-> "FREE"], {}, INVALID_BUFFER_SLOT, {})
    BY <1>4 DEF DequeueResizes, SlotsBelow
  <2>2. /\ mBufferState' = [[s \in Slots |-> "FREE"] EXCEPT ![b] = "DEQUEUED"]
        /\ mCurrentTexture' = INVALID_BUFFER_SLOT
        /\ held' \subseteq Slots
    BY <1>1, <2>1 DEF TakeBuffer
  <2>3. mQueue' = <<>>
    BY <1>4 DEF DequeueResizes
  <2> QED
    BY <2>2, <2>3, OwnEmpty
<1>5. ASSUME NEW t \in Threads, DequeueTakes(t)
      PROVE  OwnInv'
  <2>1. PICK b \in Slots : /\ mBufferState[b] = "FREE"
                           /\ TakeBuffer(t, b, mBufferState, mGraphicBuffer, mCurrentTexture, held)
    BY <1>5 DEF DequeueTakes, InState, SlotsBelow
  <2> QED
    BY <1>5, <2>1, OwnTake DEF DequeueTakes
<1>6. ASSUME NEW t \in Threads, NEW s \in held, cancelBuffer(t, s)
      PROVE  OwnInv'
  <2>1. s \in Slots /\ mBufferState[s] = "DEQUEUED"
    BY <1>1, <1>6 DEF cancelBuffer
  <2>2. s \notin Queued /\ s # mCurrentTexture
    BY <2>1 DEF OwnInv
  <2>3. Queued' = Queued
    BY <1>6 DEF cancelBuffer, Queued
  <2> QED
    BY <1>1, <1>6, <2>1, <2>2, <2>3 DEF cancelBuffer, OwnInv, NoRepeats
<1>7. ASSUME NEW t \in Threads, disconnect(t)
      PROVE  OwnInv'
  <2>1. CASE DrainWaits(t, "disconnect")
    BY <1>2, <2>1 DEF DrainWaits
  <2>2. CASE ~MustDrain /\ FinishDisconnect(t, TRUE)
    BY <2>2, OwnDisconnect
  <2>3. CASE FinishDisconnect(t, FALSE)
    BY <2>3, OwnDisconnect
  <2> QED
    BY <1>7, <2>1, <2>2, <2>3 DEF disconnect
<1>8. ASSUME NEW t \in Threads, SetAsynchronous(t)
      PROVE  OwnInv'
  BY <1>2, <1>8 DEF SetAsynchronous, DrainWaits
<1>9. ASSUME NEW t \in Threads, dequeueBuffer(t)
      PROVE  OwnInv'
  BY <1>2, <1>4, <1>5, <1>9
     DEF dequeueBuffer, DequeueWaitsForDrain, DequeueFindsNone, DequeueSpins, DequeueFails
<1>10. ASSUME NEW t \in Threads, NEW s \in held,
              requestBuffer(t, s) \/ queueBuffer(t, s) \/ QueueBufferFails(t, s) \/ cancelBuffer(t, s)
       PROVE  OwnInv'
  BY <1>2, <1>6, <1>10, OwnQueue DEF requestBuffer, QueueBufferFails
<1>11. ASSUME NEW t \in Threads, NEW n \in ClientCounts, setBufferCount(t, n)
       PROVE  OwnInv'
  BY <1>3, <1>11 DEF setBufferCount
<1>12. ASSUME NEW t \in Threads,
              OnFrameAvailable(t) \/ SetSynchronous(t) \/ ResetBufferCount(t)
              \/ \E api \in Apis : connect(t, api)
       PROVE  OwnInv'
  BY <1>2, <1>12 DEF OnFrameAvailable, connect, SetSynchronous, ResetBufferCount
<1>13. ASSUME NEW t \in Threads, ProducerStep(t)
       PROVE  OwnInv'
  BY <1>7, <1>8, <1>9, <1>10, <1>11, <1>12, <1>13 DEF ProducerStep
<1>14. CASE updateTexImage
  BY <1>14, OwnLatch
<1>15. CASE abandon
  BY <1>3, <1>15 DEF abandon
<1>16. CASE UNCHANGED vars \/ UpdateTexImageIdle \/ \E n \in ServerCounts : setBufferCountServer(n)
  BY <1>2, <1>16 DEF vars, UpdateTexImageIdle, setBufferCountServer
<1> QED
  BY <1>13, <1>14, <1>15, <1>16 DEF Next

LEMMA OwnAlways == Spec => [](TypeOK /\ AsyncOneDeep /\ OwnInv)
<1>1. Init => OwnInv
  BY OwnInit DEF Init
<1>2. TypeOK /\ AsyncOneDeep /\ OwnInv /\ [Next]_vars => OwnInv'
  BY OwnStep
<1> QED
  BY <1>1, <1>2, TypeCorrect, AsyncDepth, PTL DEF Spec

\* The consumer never shows, and the FIFO never holds, a slot the producer
\* still has, whatever is resized, cancelled, disconnected or abandoned.
THEOREM ExclusiveOwnership == Spec => []ExclusiveAccess
<1>1. TypeOK /\ OwnInv => ExclusiveAccess
  <2> SUFFICES ASSUME TypeOK, OwnInv PROVE ExclusiveAccess
    OBVIOUS
  <2>1. held \subseteq Slots
    BY DEF TypeOK
  <2> QED
    BY <2>1 DEF OwnInv, ExclusiveAccess
<1> QED
  BY <1>1, OwnAlways, PTL

\* A QUEUED slot is always on its way back to FREE: it is pending once or it is
\* the current texture.
THEOREM NoSlotLost == Spec => []QueuedAccounted
<1>1. TypeOK /\ OwnInv => QueuedAccounted
  <2> SUFFICES ASSUME TypeOK, OwnInv PROVE QueuedAccounted
    OBVIOUS
  <2>1. Queued \subseteq Slots
    BY DEF TypeOK, Queued
  <2>2. mCurrentTexture \in Slots \cup {INVALID_BUFFER_SLOT} /\ INVALID_BUFFER_SLOT \notin Slots
    BY SlotsFinite DEF TypeOK
  <2> QED
    BY <2>1, <2>2 DEF OwnInv, QueuedAccounted, NoRepeats
<1> QED
  BY <1>1, OwnAlways, PTL
-----------------------------------------------------------------------------
(* Buffers.  As long as no allocation fails, the producer knows only slots     *)
(* that have a buffer; that is what queueBuffer relies on.                     *)

BufInv ==
  /\ mAbandoned => mQueue = <<>>
  /\ MaxLeaked = 0 /\ ~mAbandoned => held \subseteq mGraphicBuffer /\ Queued \subseteq mGraphicBuffer

\* No allocation fails when none may.
LEMMA TakeSucceeds ==
  ASSUME MaxLeaked = 0, TypeOK,
         NEW t, NEW b, NEW states, NEW buffers, NEW current, NEW mySlots,
         TakeBuffer(t, b, states, buffers, current, mySlots)
  PROVE  mGraphicBuffer' = buffers \cup {b} /\ held' = mySlots \cup {b}
<1>1. IsFiniteSet(Leaked)
  BY FS_Subset, SlotsFinite DEF Leaked
<1>2. ~(Cardinality(Leaked) < 0)
  BY <1>1, FS_CardinalityType
<1> QED
  BY <1>2 DEF TakeBuffer

\* Steps that take no buffer away and show the producer no new slot.
LEMMA BufSame ==
  ASSUME BufInv, UNCHANGED <<mQueue, mAbandoned, mGraphicBuffer>>, held' \subseteq held
  PROVE  BufInv'
  BY DEF BufInv, Queued

\* Steps that leave the FIFO and the producer without slots.
LEMMA BufEmpty ==
  ASSUME mQueue' = <<>>, held' = {}
  PROVE  BufInv'
  BY DEF BufInv, Queued

LEMMA BufTake ==
  ASSUME TypeOK, BufInv, ~mAbandoned,
         NEW t, NEW b, NEW states, NEW current,
         NEW buffers, NEW mySlots,
         TakeBuffer(t, b, states, buffers, current, mySlots), UNCHANGED <<mQueue, mAbandoned>>,
         MaxLeaked = 0 => mySlots \subseteq buffers /\ Queued \subseteq buffers
  PROVE  BufInv'
  BY TakeSucceeds DEF BufInv, Queued

LEMMA BufQueue ==
  ASSUME TypeOK, BufInv, AsyncOneDeep, NEW t \in Threads, NEW s \in held, queueBuffer(t, s)
  PROVE  BufInv'
<1>1. /\ ~mAbandoned /\ mAbandoned' = mAbandoned /\ mGraphicBuffer' = mGraphicBuffer
      /\ held' = held \ {s} /\ s \in Slots /\ mQueue \in Seq(Slots)
  BY DEF queueBuffer, TypeOK, modeVars
<1>2. Queued' \subseteq Queued \cup {s}
  <2>1. CASE mSynchronousMode \/ mQueue = <<>>
    <3>1. mQueue' = Append(mQueue, s)
      BY <2>1 DEF queueBuffer
    <3> QED
      BY <1>1, <3>1 DEF Queued
  <2>2. CASE ~mSynchronousMode /\ mQueue # <<>>
    <3>1. mQueue' = [mQueue EXCEPT ![1] = s]
      BY <2>2 DEF queueBuffer
    <3>2. Len(mQueue') = Len(mQueue)
          /\ \A i \in 1 .. Len(mQueue) : mQueue'[i] = s \/ mQueue'[i] = mQueue[i]
      BY <1>1, <3>1
    <3> QED
      BY <3>2 DEF Queued
  <2> QED
    BY <2>1, <2>2
<1> QED
  BY <1>1, <1>2 DEF BufInv

LEMMA BufLatch == TypeOK /\ BufInv /\ updateTexImage => BufInv'
<1> SUFFICES ASSUME TypeOK, BufInv, updateTexImage PROVE BufInv'
  OBVIOUS
<1>1. /\ mQueue \in Seq(Slots) /\ mQueue # <<>> /\ mQueue' = Tail(mQueue)
      /\ UNCHANGED <<mAbandoned, mGraphicBuffer, held>> /\ ~mAbandoned
  BY DEF TypeOK, updateTexImage, CanLatch, modeVars
<1>2. Queued' \subseteq Queued
  BY <1>1, TailInQueue DEF Queued, InQueue
<1> QED
  BY <1>1, <1>2 DEF BufInv

\* The end of disconnect: what is freed is neither pending nor held.
LEMMA BufDisconnect ==
  ASSUME TypeOK, BufInv, AsyncOneDeep, NEW t \in Threads, NEW drained \in BOOLEAN,
         FinishDisconnect(t, drained), drained => ~MustDrain
  PROVE  BufInv'
<1>1. mQueue' = mQueue /\ mAbandoned' = mAbandoned /\ mQueue \in Seq(Slots)
  BY DEF FinishDisconnect, TypeOK
<1>2. CASE ~drained
  BY <1>1, <1>2, BufSame DEF FinishDisconnect, slotVars
<1>3. CASE drained /\ mQueue = <<>>
  BY <1>1, <1>3, BufEmpty DEF FinishDisconnect
<1>4. CASE drained /\ mQueue # <<>>
  <2>1. ~mSynchronousMode /\ Queued = {Head(mQueue)}
    BY <1>1, <1>4 DEF MustDrain, AsyncOneDeep, Queued
  <2>2. mGraphicBuffer' = mGraphicBuffer \cap {Head(mQueue)} /\ held' = {}
    BY <1>4, <2>1 DEF FinishDisconnect, freeAllBuffersExceptHeadLocked, FreeAllBuffersExcept
  <2>3. Queued' = Queued
    BY <1>1 DEF Queued
  <2> QED
    BY <1>1, <2>1, <2>2, <2>3 DEF BufInv
<1> QED
  BY <1>2, <1>3, <1>4

LEMMA BufInit ==
  ASSUME NEW sync, NEW server, InitWith(sync, server)
  PROVE  BufInv
  BY DEF InitWith, BufInv, Queued

LEMMA BufStep == TypeOK /\ AsyncOneDeep /\ BufInv /\ [Next]_vars => BufInv'
<1> SUFFICES ASSUME TypeOK, AsyncOneDeep, BufInv, [Next]_vars PROVE BufInv'
  OBVIOUS
<1> USE DEF slotVars, textureVars, countVars, modeVars, threadVars
<1>1. ASSUME UNCHANGED <<mQueue, mAbandoned, mGraphicBuffer>>, held' \subseteq held
      PROVE  BufInv'
  BY <1>1, BufSame
<1>2. ASSUME NEW t \in Threads, DequeueResizes(t) PROVE BufInv'
  <2>1. PICK b : TakeBuffer(t, b, [s \in Slots |-> "FREE"], {}, INVALID_BUFFER_SLOT, {})
    BY <1>2 DEF DequeueResizes
  <2>2. ~mAbandoned /\ UNCHANGED <<mQueue, mAbandoned>> /\ mQueue = <<>>
    BY <1>2 DEF DequeueResizes, EntersDequeue
  <2>3. Queued = {}
    BY <2>2 DEF Queued
  <2> QED
    BY <2>1, <2>2, <2>3, BufTake
<1>3. ASSUME NEW t \in Threads, DequeueTakes(t) PROVE BufInv'
  <2>1. PICK b : TakeBuffer(t, b, mBufferState, mGraphicBuffer, mCurrentTexture, held)
    BY <1>3 DEF DequeueTakes
  <2>2. ~mAbandoned /\ UNCHANGED <<mQueue, mAbandoned>>
    BY <1>3 DEF DequeueTakes, SearchesBuffer, EntersDequeue
  <2> QED
    BY <2>1, <2>2, BufTake DEF BufInv
<1>4. ASSUME NEW t \in Threads, disconnect(t) PROVE BufInv'
  <2>1. CASE DrainWaits(t, "disconnect")
    BY <1>1, <2>1 DEF DrainWaits
  <2>2. CASE ~MustDrain /\ FinishDisconnect(t, TRUE)
    BY <2>2, BufDisconnect
  <2>3. CASE FinishDisconnect(t, FALSE)
    BY <2>3, BufDisconnect
  <2> QED
    BY <1>4, <2>1, <2>2, <2>3 DEF disconnect
<1>5. ASSUME NEW t \in Threads, SetAsynchronous(t) PROVE BufInv'
  BY <1>1, <1>5 DEF SetAsynchronous, DrainWaits
<1>6. ASSUME NEW t \in Threads, dequeueBuffer(t) PROVE BufInv'
  BY <1>1, <1>2, <1>3, <1>6
     DEF dequeueBuffer, DequeueWaitsForDrain, DequeueFindsNone, DequeueSpins, DequeueFails
<1>7. ASSUME NEW t \in Threads, NEW s \in held,
             requestBuffer(t, s) \/ queueBuffer(t, s) \/ QueueBufferFails(t, s) \/ cancelBuffer(t, s)
      PROVE  BufInv'
  BY <1>1, <1>7, BufQueue DEF requestBuffer, QueueBufferFails, cancelBuffer
<1>8. ASSUME NEW t \in Threads, NEW n \in ClientCounts, setBufferCount(t, n) PROVE BufInv'
  BY <1>8, BufEmpty DEF setBufferCount
<1>9. ASSUME NEW t \in Threads,
             OnFrameAvailable(t) \/ SetSynchronous(t) \/ ResetBufferCount(t)
             \/ \E api \in Apis : connect(t, api)
      PROVE  BufInv'
  BY <1>1, <1>9 DEF OnFrameAvailable, connect, SetSynchronous, ResetBufferCount
<1>10. ASSUME NEW t \in Threads, ProducerStep(t) PROVE BufInv'
  BY <1>4, <1>5, <1>6, <1>7, <1>8, <1>9, <1>10 DEF ProducerStep
<1>11. CASE updateTexImage
  BY <1>11, BufLatch
<1>12. CASE abandon
  BY <1>12 DEF abandon, BufInv
<1>13. CASE UNCHANGED vars \/ UpdateTexImageIdle \/ \E n \in ServerCounts : setBufferCountServer(n)
  BY <1>1, <1>13 DEF vars, UpdateTexImageIdle, setBufferCountServer
<1> QED
  BY <1>10, <1>11, <1>12, <1>13 DEF Next

\* As long as no allocation fails, every queued slot has the buffer that
\* updateTexImage needs, whatever was freed by a resize or a disconnect.
THEOREM QueuedBuffers == Spec => []QueuedHasBuffer
<1>1. Init => BufInv
  BY BufInit DEF Init
<1>2. TypeOK /\ AsyncOneDeep /\ BufInv /\ [Next]_vars => BufInv'
  BY BufStep
<1>3. BufInv => QueuedHasBuffer
  BY DEF BufInv, QueuedHasBuffer, Queued
<1> QED
  BY <1>1, <1>2, <1>3, TypeCorrect, AsyncDepth, PTL DEF Spec
-----------------------------------------------------------------------------
(* Counts.  Every dequeued slot lies below mBufferCount, which only a step     *)
(* that frees every slot can lower: no buffer of the producer escapes the      *)
(* count the dequeue loop takes.                                               *)

CountInv == \A s \in Slots : mBufferState[s] = "DEQUEUED" => s < mBufferCount

\* Steps that dequeue no slot and do not lower the count.
LEMMA CountSame ==
  ASSUME TypeOK, TypeOK', CountInv, mBufferCount' >= mBufferCount,
         \A s \in Slots : mBufferState'[s] = "DEQUEUED" => mBufferState[s] = "DEQUEUED"
  PROVE  CountInv'
  BY SlotsFinite DEF CountInv, TypeOK

\* The loop of dequeueBuffer only raises the count.
LEMMA AdjustRaises == TypeOK /\ AdjustCounts => mBufferCount' >= mBufferCount
  BY RequiredCountNat DEF AdjustCounts, TooFewUndequeued, TypeOK

LEMMA CountServer ==
  ASSUME TypeOK, NEW n \in Nat, NEW client, setBufferCountServerLocked(n, client)
  PROVE  mBufferCount' >= mBufferCount
  BY DEF setBufferCountServerLocked, TypeOK

LEMMA CountStep == TypeOK /\ TypeOK' /\ CountInv /\ [Next]_vars => CountInv'
<1> SUFFICES ASSUME TypeOK, TypeOK', CountInv, [Next]_vars PROVE CountInv'
  OBVIOUS
<1> USE DEF slotVars, textureVars, countVars, modeVars, threadVars
<1>0. mBufferState \in [Slots -> {"FREE", "DEQUEUED", "QUEUED"}] /\ mBufferCount \in Nat
      /\ held \subseteq Slots /\ mBufferCount' \in Nat
  BY DEF TypeOK
<1>1. ASSUME UNCHANGED <<mBufferState, mBufferCount>> PROVE CountInv'
  BY <1>1 DEF CountInv
<1>2. ASSUME NEW keep, FreeAllBuffersExcept(keep), mBufferCount' = mBufferCount
      PROVE  CountInv'
  BY <1>0, <1>2, CountSame DEF FreeAllBuffersExcept
<1>3. ASSUME NEW t \in Threads, DequeueResizes(t) PROVE CountInv'
  BY <1>3 DEF DequeueResizes, SlotsBelow, TakeBuffer, CountInv
<1>4. ASSUME NEW t \in Threads, DequeueTakes(t) PROVE CountInv'
  <2>1. PICK b \in Slots : b < mBufferCount' /\ mBufferState' = [mBufferState EXCEPT ![b] = "DEQUEUED"]
    BY <1>4 DEF DequeueTakes, InState, SlotsBelow, TakeBuffer
  <2>2. mBufferCount' >= mBufferCount
    BY <1>4, AdjustRaises DEF DequeueTakes
  <2> QED
    BY <1>0, <2>1, <2>2, SlotsFinite DEF CountInv
<1>5. ASSUME NEW t \in Threads, DequeueFindsNone(t) PROVE CountInv'
  BY <1>0, <1>5, CountSame, AdjustRaises DEF DequeueFindsNone
<1>6. ASSUME NEW t \in Threads, NEW s \in held, queueBuffer(t, s) PROVE CountInv'
  BY <1>0, <1>6, CountSame DEF queueBuffer
<1>7. ASSUME NEW t \in Threads, NEW s \in held, cancelBuffer(t, s) PROVE CountInv'
  BY <1>0, <1>7, CountSame DEF cancelBuffer
<1>8. ASSUME NEW t \in Threads, NEW drained \in BOOLEAN, FinishDisconnect(t, drained)
      PROVE  CountInv'
  BY <1>1, <1>2, <1>8 DEF FinishDisconnect, freeAllBuffersLocked, freeAllBuffersExceptHeadLocked
<1>9. ASSUME NEW t \in Threads, disconnect(t) \/ SetAsynchronous(t) PROVE CountInv'
  BY <1>1, <1>8, <1>9 DEF disconnect, SetAsynchronous, DrainWaits
<1>10. ASSUME NEW t \in Threads, dequeueBuffer(t) PROVE CountInv'
  BY <1>1, <1>3, <1>4, <1>5, <1>10
     DEF dequeueBuffer, DequeueWaitsForDrain, DequeueSpins, DequeueFails
<1>11. ASSUME NEW t \in Threads, NEW s \in held,
              requestBuffer(t, s) \/ queueBuffer(t, s) \/ QueueBufferFails(t, s) \/ cancelBuffer(t, s)
       PROVE  CountInv'
  BY <1>1, <1>6, <1>7, <1>11 DEF requestBuffer, QueueBufferFails
<1>12. ASSUME NEW t \in Threads, NEW n \in ClientCounts, setBufferCount(t, n) PROVE CountInv'
  BY <1>12 DEF setBufferCount, freeAllBuffersLocked, FreeAllBuffersExcept, CountInv
<1>13. ASSUME NEW n \in Nat, NEW client, setBufferCountServerLocked(n, client),
              mBufferState' = mBufferState
       PROVE  CountInv'
  BY <1>13, CountServer, CountSame
<1>14. ASSUME NEW t \in Threads, ResetBufferCount(t) PROVE CountInv'
  <2>1. (IF mServerBufferCount >= MinSlots THEN mServerBufferCount ELSE MinSlots) \in Nat
    BY SlotsAssumption DEF MinSlots, MIN_SYNC_BUFFER_SLOTS, MIN_ASYNC_BUFFER_SLOTS, TypeOK
  <2> QED
    BY <1>13, <1>14, <2>1 DEF ResetBufferCount
<1>15. ASSUME NEW t \in Threads,
              OnFrameAvailable(t) \/ SetSynchronous(t) \/ \E api \in Apis : connect(t, api)
       PROVE  CountInv'
  BY <1>1, <1>15 DEF OnFrameAvailable, connect, SetSynchronous
<1>16. ASSUME NEW t \in Threads, ProducerStep(t) PROVE CountInv'
  BY <1>9, <1>10, <1>11, <1>12, <1>14, <1>15, <1>16 DEF ProducerStep
<1>17. CASE updateTexImage
  <2>1. mBufferCount' = mBufferCount
    BY <1>17 DEF updateTexImage
  <2>2. \A s \in Slots : mBufferState'[s] = "DEQUEUED" => mBufferState[s] = "DEQUEUED"
    BY <1>0, <1>17 DEF updateTexImage, FreeReplacedTexture
  <2> QED
    BY <1>0, <2>1, <2>2, CountSame
<1>18. CASE abandon
  BY <1>2, <1>18 DEF abandon, freeAllBuffersLocked
<1>19. ASSUME NEW n \in ServerCounts, setBufferCountServer(n) PROVE CountInv'
  BY <1>13, <1>19, ClientAssumption DEF setBufferCountServer
<1>20. CASE UNCHANGED vars \/ UpdateTexImageIdle
  BY <1>1, <1>20 DEF vars, UpdateTexImageIdle
<1> QED
  BY <1>16, <1>17, <1>18, <1>19, <1>20 DEF Next

\* A dequeue that takes a slot takes just one, and counted it before.
LEMMA TakesOne ==
  ASSUME TypeOK, CountInv, NEW t \in Threads, DequeueTakes(t)
  PROVE  /\ Cardinality({s \in SlotsBelow(mBufferCount') : mBufferState'[s] = "DEQUEUED"})
              = Cardinality(InState("DEQUEUED", mBufferCount)) + 1
         /\ Cardinality(InState("DEQUEUED", mBufferCount)) \in Nat
<1> DEFINE before == InState("DEQUEUED", mBufferCount)
           after == {s \in SlotsBelow(mBufferCount') : mBufferState'[s] = "DEQUEUED"}
<1>1. PICK b \in Slots : /\ b < mBufferCount' /\ mBufferState[b] = "FREE"
                         /\ mBufferState' = [mBufferState EXCEPT ![b] = "DEQUEUED"]
  BY DEF DequeueTakes, InState, SlotsBelow, TakeBuffer
<1>2. mBufferCount' >= mBufferCount /\ mBufferCount \in Nat
      /\ mBufferState \in [Slots -> {"FREE", "DEQUEUED", "QUEUED"}] /\ mBufferCount' \in Nat
  <2>1. mBufferCount' \in Nat
    BY RequiredCountNat DEF DequeueTakes, AdjustCounts, TypeOK
  <2> QED
    BY <2>1, AdjustRaises DEF DequeueTakes, TypeOK
<1>3. before = {s \in Slots : mBufferState[s] = "DEQUEUED"}
  BY DEF InState, SlotsBelow, CountInv
<1>4. after = before \cup {b} /\ b \notin before
  <2>1. \A s \in Slots : mBufferState'[s] = IF s = b THEN "DEQUEUED" ELSE mBufferState[s]
    BY <1>1, <1>2
  <2>2. ASSUME NEW s \in before PROVE s < mBufferCount'
    <3>1. s \in Nat /\ s < mBufferCount
      BY <1>3, <2>2, SlotsFinite DEF CountInv
    <3> QED
      BY <1>2, <3>1
  <2> QED
    BY <1>1, <1>3, <2>1, <2>2 DEF SlotsBelow
<1>5. IsFiniteSet(before)
  BY <1>3, FS_Subset, SlotsFinite
<1> HIDE DEF before, after
<1>6. Cardinality(after) = Cardinality(before) + 1 /\ Cardinality(before) \in Nat
  BY <1>4, <1>5, FS_AddElement, FS_CardinalityType
<1> QED
  BY <1>6 DEF before, after

\* Whatever the loop does to the counts, once a frame was latched a dequeue
\* leaves the consumer the buffers window.h promises.
THEOREM MinUndequeuedKept == Spec => LeavesMinUndequeued
<1> DEFINE Kept ==
      \A t \in Threads : dequeueBuffer(t) /\ held' # held /\ mCurrentTexture' # INVALID_BUFFER_SLOT =>
        mBufferCount' - Cardinality({s \in SlotsBelow(mBufferCount') : mBufferState'[s] = "DEQUEUED"})
          >= MIN_UNDEQUEUED_BUFFERS - (IF mSynchronousMode THEN 1 ELSE 0)
<1>1. Init => CountInv
  BY DEF Init, InitWith, CountInv
<1>2. TypeOK /\ TypeOK' /\ CountInv /\ [Next]_vars => CountInv'
  BY CountStep
<1>3. ASSUME TypeOK, CountInv PROVE Kept
  <2> SUFFICES ASSUME NEW t \in Threads, dequeueBuffer(t), held' # held,
                      mCurrentTexture' # INVALID_BUFFER_SLOT
               PROVE  mBufferCount' - Cardinality({s \in SlotsBelow(mBufferCount') : mBufferState'[s] = "DEQUEUED"})
                        >= MIN_UNDEQUEUED_BUFFERS - (IF mSynchronousMode THEN 1 ELSE 0)
    OBVIOUS
  <2>1. DequeueTakes(t)
    BY DEF dequeueBuffer, DequeueWaitsForDrain, DequeueResizes, TakeBuffer, DequeueFindsNone,
           DequeueSpins, DequeueFails
  <2>2. mCurrentTexture # INVALID_BUFFER_SLOT
    BY <2>1 DEF DequeueTakes, TakeBuffer
  <2>3. mBufferCount' >= RequiredCount
    BY <1>3, <2>1, <2>2, RequiredCountNat
       DEF DequeueTakes, SearchesBuffer, AdjustCounts, MinUndequeuedExceeded, TooFewUndequeued, TypeOK
  <2>4. mBufferCount' \in Nat
    BY <1>3, <2>1, RequiredCountNat DEF DequeueTakes, AdjustCounts, TypeOK
  <2>5. RequiredCount = Cardinality(InState("DEQUEUED", mBufferCount)) + 1
                          + MIN_UNDEQUEUED_BUFFERS - (IF mSynchronousMode THEN 1 ELSE 0)
    BY DEF RequiredCount
  <2>6. /\ Cardinality({s \in SlotsBelow(mBufferCount') : mBufferState'[s] = "DEQUEUED"})
             = Cardinality(InState("DEQUEUED", mBufferCount)) + 1
        /\ Cardinality(InState("DEQUEUED", mBufferCount)) \in Nat
    BY <1>3, <2>1, TakesOne
  <2> QED
    BY <2>3, <2>4, <2>5, <2>6, SlotsAssumption
<1>4. TypeOK /\ CountInv /\ [Next]_vars => [Kept]_vars
  BY <1>3
<1>5. LeavesMinUndequeued <=> [][Kept]_vars
  BY DEF LeavesMinUndequeued
<1> HIDE DEF Kept
<1> QED
  BY <1>1, <1>2, <1>4, <1>5, TypeCorrect, PTL DEF Spec
-----------------------------------------------------------------------------
(* The queue implements BufferOwnership.  Every step of the queue is a step of *)
(* the abstract specification, under the mapping SlotOwner, or leaves the      *)
(* owners and the FIFO alone.                                                  *)

\* The mapping without the CASE.
OwnerOf(state, s, texture) ==
  IF state = "FREE" THEN "free"
  ELSE IF state = "DEQUEUED" THEN "producer"
  ELSE IF s = texture THEN "screen" ELSE "fifo"

OwnerIs == SlotOwner = [s \in Slots |-> OwnerOf(mBufferState[s], s, mCurrentTexture)]

LEMMA OwnerTyped == TypeOK => OwnerIs
<1> SUFFICES ASSUME TypeOK PROVE OwnerIs
  OBVIOUS
<1> DEFINE owner(s) ==
      CASE mBufferState[s] = "FREE" -> "free"
        [] mBufferState[s] = "DEQUEUED" -> "producer"
        [] mBufferState[s] = "QUEUED" -> IF s = mCurrentTexture THEN "screen" ELSE "fifo"
<1>1. ASSUME NEW s \in Slots
      PROVE  owner(s) = OwnerOf(mBufferState[s], s, mCurrentTexture)
  <2>1. mBufferState[s] \in {"FREE", "DEQUEUED", "QUEUED"}
    BY DEF TypeOK
  <2>2. CASE mBufferState[s] = "FREE"
    BY <2>2 DEF OwnerOf
  <2>3. CASE mBufferState[s] = "DEQUEUED"
    BY <2>3 DEF OwnerOf
  <2>4. CASE mBufferState[s] = "QUEUED"
    BY <2>4 DEF OwnerOf
  <2> QED
    BY <2>1, <2>2, <2>3, <2>4
<1>2. SlotOwner = [s \in Slots |-> owner(s)]
  BY Zenon DEF SlotOwner
<1> HIDE DEF owner
<1> QED
  BY <1>1, <1>2 DEF OwnerIs

\* What the steps below may use of the states before and after.
Mapped ==
  /\ TypeOK /\ AsyncOneDeep /\ OwnInv
  /\ OwnerIs /\ OwnerIs'

\* A step of the abstract specification, or none.
Maps == [Ownership!Next]_(Ownership!ownVars)

LEMMA MapSame ==
  ASSUME Mapped, UNCHANGED <<mBufferState, mQueue, mCurrentTexture>>
  PROVE  Maps
  BY DEF Maps, Mapped, OwnerIs, Ownership!ownVars

LEMMA MapRevoke ==
  ASSUME Mapped, freeAllBuffersLocked, mQueue' = <<>>
  PROVE  Maps
<1>1. SlotOwner' = [s \in Slots |-> "free"]
  BY DEF Mapped, OwnerIs, OwnerOf, freeAllBuffersLocked, FreeAllBuffersExcept
<1>2. Ownership!Revoke
  BY <1>1 DEF Ownership!Revoke, Ownership!AllFree
<1> QED
  BY <1>2 DEF Maps, Ownership!Next

LEMMA MapGive ==
  ASSUME Mapped, NEW t \in Threads, DequeueTakes(t)
  PROVE  Maps
<1>1. PICK b \in Slots : /\ mBufferState[b] = "FREE"
                         /\ TakeBuffer(t, b, mBufferState, mGraphicBuffer, mCurrentTexture, held)
  BY DEF DequeueTakes, InState, SlotsBelow
<1>2. mBufferState' = [mBufferState EXCEPT ![b] = "DEQUEUED"]
  BY <1>1 DEF TakeBuffer
<1>3. b # mCurrentTexture
  BY <1>1 DEF Mapped, OwnInv
<1>4. mCurrentTexture' = mCurrentTexture
  BY <1>1, <1>3 DEF TakeBuffer
<1>5. SlotOwner[b] = "free" /\ SlotOwner' = [SlotOwner EXCEPT ![b] = "producer"]
  BY <1>1, <1>2, <1>4 DEF Mapped, OwnerIs, OwnerOf, TypeOK
<1>6. Ownership!Give(b)
  BY <1>5 DEF Ownership!Give, DequeueTakes
<1> QED
  BY <1>6 DEF Maps, Ownership!Next

LEMMA MapResize ==
  ASSUME Mapped, NEW t \in Threads, DequeueResizes(t)
  PROVE  Maps
<1>1. PICK b \in Slots : TakeBuffer(t, b, [s \in Slots |-> "FREE"], {}, INVALID_BUFFER_SLOT, {})
  BY DEF DequeueResizes, SlotsBelow
<1>2. /\ mBufferState' = [[s \in Slots |-> "FREE"] EXCEPT ![b] = "DEQUEUED"]
      /\ mQueue = <<>> /\ mQueue' = mQueue
  BY <1>1 DEF TakeBuffer, DequeueResizes
<1>3. SlotOwner' = [[s \in Slots |-> "free"] EXCEPT ![b] = "producer"]
  BY <1>2 DEF Mapped, OwnerIs, OwnerOf
<1>4. Ownership!RevokeAndGive(b)
  BY <1>2, <1>3 DEF Ownership!RevokeAndGive, Ownership!AllFree
<1> QED
  BY <1>4 DEF Maps, Ownership!Next

LEMMA MapCancel ==
  ASSUME Mapped, NEW t \in Threads, NEW s \in held, cancelBuffer(t, s)
  PROVE  Maps
<1>1. s \in Slots /\ mBufferState[s] = "DEQUEUED"
      /\ mBufferState' = [mBufferState EXCEPT ![s] = "FREE"]
      /\ UNCHANGED <<mQueue, mCurrentTexture>>
  BY DEF cancelBuffer, Mapped, TypeOK, textureVars
<1>2. SlotOwner[s] = "producer" /\ SlotOwner' = [SlotOwner EXCEPT ![s] = "free"]
  BY <1>1 DEF Mapped, OwnerIs, OwnerOf, TypeOK
<1>3. Ownership!Cancel(s)
  BY <1>1, <1>2 DEF Ownership!Cancel
<1> QED
  BY <1>1, <1>3 DEF Maps, Ownership!Next

\* An asynchronous FIFO that is not empty holds one frame.
LEMMA OnePending ==
  ASSUME TypeOK, AsyncOneDeep, ~mSynchronousMode, mQueue # <<>>
  PROVE  Len(mQueue) = 1 /\ Head(mQueue) = mQueue[1] /\ Head(mQueue) \in Queued
<1> DEFINE n == Len(mQueue)
<1>1. n \in Nat /\ n # 0 /\ n <= 1 /\ Head(mQueue) = mQueue[1]
  BY DEF TypeOK, AsyncOneDeep
<1> HIDE DEF n
<1>2. n = 1
  BY <1>1
<1> QED
  BY <1>1, <1>2 DEF n, Queued

LEMMA MapQueue ==
  ASSUME Mapped, NEW t \in Threads, NEW s \in held, queueBuffer(t, s)
  PROVE  Maps
<1>1. /\ s \in Slots /\ mBufferState[s] = "DEQUEUED" /\ mQueue \in Seq(Slots)
      /\ mCurrentTexture' = mCurrentTexture /\ s # mCurrentTexture
  BY DEF queueBuffer, CanQueue, Mapped, TypeOK, textureVars
<1>2. SlotOwner[s] = "producer"
  BY <1>1 DEF Mapped, OwnerIs, OwnerOf
<1>3. CASE mSynchronousMode \/ mQueue = <<>>
  <2>1. /\ mQueue' = Append(mQueue, s)
        /\ mBufferState' = [i \in Slots |-> IF i = s THEN "QUEUED" ELSE mBufferState[i]]
    BY <1>3 DEF queueBuffer
  <2>2. SlotOwner' = [SlotOwner EXCEPT ![s] = "fifo"]
    BY <1>1, <2>1 DEF Mapped, OwnerIs, OwnerOf
  <2>3. Ownership!Submit(s)
    BY <1>2, <2>1, <2>2 DEF Ownership!Submit
  <2> QED
    BY <1>1, <2>3 DEF Maps, Ownership!Next
<1>4. CASE ~mSynchronousMode /\ mQueue # <<>>
  <2>1. Len(mQueue) = 1 /\ Head(mQueue) = mQueue[1] /\ Head(mQueue) \in Queued
    BY <1>4, OnePending DEF Mapped
  <2>2. /\ mQueue' = [mQueue EXCEPT ![1] = s]
        /\ mBufferState' = [i \in Slots |-> IF i = s THEN "QUEUED"
                                            ELSE IF i \in {Head(mQueue)} THEN "FREE"
                                            ELSE mBufferState[i]]
    BY <1>4 DEF queueBuffer
  <2>3. Len(mQueue') = 1 /\ mQueue'[1] = s /\ mQueue' \in Seq(Slots)
    BY <1>1, <2>1, <2>2
  <2>4. mQueue' = <<s>>
    BY <2>3
  <2>5. Head(mQueue) \in Slots /\ Head(mQueue) # s
    BY <1>1, <2>1 DEF Mapped, OwnInv
  <2>6. SlotOwner' = [SlotOwner EXCEPT ![s] = "fifo", ![Head(mQueue)] = "free"]
    BY <1>1, <2>2, <2>5 DEF Mapped, OwnerIs, OwnerOf
  <2>7. Ownership!Replace(s)
    BY <1>2, <2>1, <2>4, <2>6 DEF Ownership!Replace
  <2> QED
    BY <1>1, <2>7 DEF Maps, Ownership!Next
<1> QED
  BY <1>3, <1>4

LEMMA MapShow ==
  ASSUME Mapped, updateTexImage
  PROVE  Maps
<1>1. mQueue \in Seq(Slots) /\ mQueue # <<>> /\ mQueue' = Tail(mQueue)
      /\ mCurrentTexture' = Head(mQueue)
  BY DEF Mapped, TypeOK, updateTexImage, CanLatch
<1>2. Head(mQueue) \in Slots /\ Head(mQueue) \in Queued
  BY <1>1, TailInQueue DEF Queued, InQueue
<1>3. Head(mQueue) # mCurrentTexture /\ mBufferState[Head(mQueue)] = "QUEUED"
  BY <1>2 DEF Mapped, OwnInv
<1>4. \A s \in Slots : mBufferState'[s] = IF s = mCurrentTexture THEN "FREE" ELSE mBufferState[s]
  BY SlotsFinite DEF updateTexImage, FreeReplacedTexture, Mapped, OwnInv, TypeOK
<1>5. \A s \in Slots : SlotOwner'[s] = IF s = Head(mQueue) THEN "screen"
                                       ELSE IF SlotOwner[s] = "screen" THEN "free"
                                       ELSE SlotOwner[s]
  BY <1>1, <1>3, <1>4 DEF Mapped, OwnerIs, OwnerOf, OwnInv, TypeOK
<1>6. SlotOwner' = [s \in Slots |-> SlotOwner'[s]]
  BY DEF Mapped, OwnerIs
<1>7. Ownership!Show
  BY <1>1, <1>5, <1>6 DEF Ownership!Show
<1> QED
  BY <1>7 DEF Maps, Ownership!Next

LEMMA MapDisconnect ==
  ASSUME Mapped, NEW t \in Threads, NEW drained \in BOOLEAN,
         FinishDisconnect(t, drained), drained => ~MustDrain
  PROVE  Maps
<1>1. mQueue' = mQueue
  BY DEF FinishDisconnect
<1>2. CASE ~drained
  BY <1>1, <1>2, MapSame DEF FinishDisconnect, slotVars
<1>3. CASE drained /\ mQueue = <<>>
  <2>1. freeAllBuffersLocked
    BY <1>3 DEF FinishDisconnect, freeAllBuffersLocked, freeAllBuffersExceptHeadLocked
  <2> QED
    BY <1>1, <1>3, <2>1, MapRevoke
<1>4. CASE drained /\ mQueue # <<>>
  <2>1. ~mSynchronousMode
    BY <1>4 DEF MustDrain
  <2>2. Len(mQueue) = 1 /\ Head(mQueue) \in Queued
    BY <1>4, <2>1, OnePending DEF Mapped
  <2>3. Queued \subseteq Slots /\ INVALID_BUFFER_SLOT \notin Slots
    BY SlotsFinite DEF Mapped, TypeOK, Queued
  <2>4. mBufferState[Head(mQueue)] = "QUEUED"
    BY <2>2, <2>3 DEF Mapped, OwnInv
  <2>5. /\ mBufferState' = [s \in Slots |-> IF s \in {Head(mQueue)} THEN mBufferState[s] ELSE "FREE"]
        /\ mCurrentTexture' = INVALID_BUFFER_SLOT
    BY <1>4, <2>1 DEF FinishDisconnect, freeAllBuffersExceptHeadLocked, FreeAllBuffersExcept
  <2>6. SlotOwner' = [s \in Slots |-> IF s = Head(mQueue) THEN "fifo" ELSE "free"]
    BY <2>3, <2>4, <2>5 DEF Mapped, OwnerIs, OwnerOf
  <2>7. Ownership!RevokeAllButPending
    BY <1>1, <2>2, <2>6 DEF Ownership!RevokeAllButPending
  <2> QED
    BY <2>7 DEF Maps, Ownership!Next
<1> QED
  BY <1>2, <1>3, <1>4

LEMMA MapStep == Mapped /\ [Next]_vars => Maps
<1> SUFFICES ASSUME Mapped, [Next]_vars PROVE Maps
  OBVIOUS
<1> USE DEF slotVars, textureVars, countVars, modeVars, threadVars
<1>1. ASSUME UNCHANGED <<mBufferState, mQueue, mCurrentTexture>> PROVE Maps
  BY <1>1, MapSame
<1>2. ASSUME NEW t \in Threads, disconnect(t) PROVE Maps
  <2>1. CASE DrainWaits(t, "disconnect")
    BY <1>1, <2>1 DEF DrainWaits
  <2>2. CASE ~MustDrain /\ FinishDisconnect(t, TRUE)
    BY <2>2, MapDisconnect
  <2>3. CASE FinishDisconnect(t, FALSE)
    BY <2>3, MapDisconnect
  <2> QED
    BY <1>2, <2>1, <2>2, <2>3 DEF disconnect
<1>3. ASSUME NEW t \in Threads, SetAsynchronous(t) PROVE Maps
  BY <1>1, <1>3 DEF SetAsynchronous, DrainWaits
<1>4. ASSUME NEW t \in Threads, dequeueBuffer(t) PROVE Maps
  BY <1>1, <1>4, MapGive, MapResize
     DEF dequeueBuffer, DequeueWaitsForDrain, DequeueFindsNone, DequeueSpins, DequeueFails
<1>5. ASSUME NEW t \in Threads, NEW s \in held,
             requestBuffer(t, s) \/ queueBuffer(t, s) \/ QueueBufferFails(t, s) \/ cancelBuffer(t, s)
      PROVE  Maps
  BY <1>1, <1>5, MapQueue, MapCancel DEF requestBuffer, QueueBufferFails
<1>6. ASSUME NEW t \in Threads, NEW n \in ClientCounts, setBufferCount(t, n) PROVE Maps
  BY <1>6, MapRevoke DEF setBufferCount
<1>7. ASSUME NEW t \in Threads,
             OnFrameAvailable(t) \/ SetSynchronous(t) \/ ResetBufferCount(t)
             \/ \E api \in Apis : connect(t, api)
      PROVE  Maps
  BY <1>1, <1>7 DEF OnFrameAvailable, connect, SetSynchronous, ResetBufferCount
<1>8. ASSUME NEW t \in Threads, ProducerStep(t) PROVE Maps
  BY <1>2, <1>3, <1>4, <1>5, <1>6, <1>7, <1>8 DEF ProducerStep
<1>9. CASE updateTexImage
  BY <1>9, MapShow
<1>10. CASE abandon
  BY <1>10, MapRevoke DEF abandon
<1>11. CASE UNCHANGED vars \/ UpdateTexImageIdle \/ \E n \in ServerCounts : setBufferCountServer(n)
  BY <1>1, <1>11 DEF vars, UpdateTexImageIdle, setBufferCountServer
<1> QED
  BY <1>8, <1>9, <1>10, <1>11 DEF Next

\* The queue does what BufferOwnership promises: each slot has one owner, what is
\* shown was submitted, and it is shown in the order it was submitted.
THEOREM Refinement == Spec => ImplementsOwnership
<1>1. Init => Ownership!Init
  <2> SUFFICES ASSUME Init PROVE Ownership!Init
    OBVIOUS
  <2>1. OwnerIs
    BY TypeInit, OwnerTyped
  <2>2. SlotOwner = [s \in Slots |-> "free"]
    BY <2>1 DEF OwnerIs, OwnerOf, Init, InitWith
  <2> QED
    BY <2>2 DEF Init, InitWith, Ownership!Init, Ownership!AllFree
<1>2. TypeOK /\ AsyncOneDeep /\ OwnInv /\ OwnerIs /\ OwnerIs' /\ [Next]_vars
        => [Ownership!Next]_(Ownership!ownVars)
  BY MapStep DEF Mapped, Maps
<1>3. TypeOK => OwnerIs
  BY OwnerTyped
<1> QED
  BY <1>1, <1>2, <1>3, OwnAlways, PTL DEF Spec, ImplementsOwnership, Ownership!Spec
=============================================================================
