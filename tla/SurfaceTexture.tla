---------------------------- MODULE SurfaceTexture ----------------------------
(***************************************************************************)
(* The buffer queue of frameworks/base/libs/gui/SurfaceTexture.cpp as the   *)
(* Blade build compiles it: MISSING_GRALLOC_BUFFERS is defined              *)
(* (device/zte/blade/BoardConfig.mk), ALLOW_DEQUEUE_CURRENT_BUFFER and      *)
(* USE_FENCE_SYNC are not.                                                  *)
(*                                                                          *)
(* Binder threads run the producer's calls, one consumer calls              *)
(* updateTexImage.  Every method holds mMutex from its first to its last    *)
(* statement except where it waits on mDequeueCondition, so a method is one *)
(* action, or one action per stretch between two waits.  A call that fails  *)
(* before it changes anything is a stuttering step and has no action.       *)
(*                                                                          *)
(* Left out as data: sizes, formats, crops, transforms, timestamps, EGL     *)
(* images, and the frame numbers that only rank the free slots, so that a   *)
(* dequeue may take any free slot and not just the oldest one.              *)
(***************************************************************************)
EXTENDS Integers, Sequences, FiniteSets

CONSTANTS
  NUM_BUFFER_SLOTS,        \* length of mSlots
  MIN_UNDEQUEUED_BUFFERS,  \* buffers an asynchronous client must leave alone
  Threads,                 \* binder threads serving the producer
  Apis,                    \* the APIs a producer connects with
  mAllowSynchronousMode,   \* constructor argument
  ServerCounts,            \* arguments of setBufferCountServer
  ClientCounts,            \* arguments of setBufferCount
  BindMayFail,             \* may the GL calls of updateTexImage fail?
  MaxHeld,                 \* bound: buffers the producer asks for at once
  MaxLeaked                \* bound: slots lost to failed allocations

ASSUME SlotsAssumption ==
  /\ NUM_BUFFER_SLOTS \in Nat
  /\ MIN_UNDEQUEUED_BUFFERS \in Nat
  /\ MIN_UNDEQUEUED_BUFFERS >= 2
  /\ MIN_UNDEQUEUED_BUFFERS + 1 <= NUM_BUFFER_SLOTS

ASSUME ClientAssumption ==
  /\ ServerCounts \subseteq Nat
  /\ ClientCounts \subseteq Nat
  /\ mAllowSynchronousMode \in BOOLEAN
  /\ BindMayFail \in BOOLEAN
  /\ MaxHeld \in Nat
  /\ MaxLeaked \in Nat

INVALID_BUFFER_SLOT == -1
NO_CONNECTED_API == "NO_CONNECTED_API"
MIN_SYNC_BUFFER_SLOTS == MIN_UNDEQUEUED_BUFFERS
MIN_ASYNC_BUFFER_SLOTS == MIN_UNDEQUEUED_BUFFERS + 1
Slots == 0 .. NUM_BUFFER_SLOTS - 1

ASSUME ApiAssumption == NO_CONNECTED_API \notin Apis

VARIABLES
  mBufferState,         \* [Slots -> {"FREE", "DEQUEUED", "QUEUED"}]
  mGraphicBuffer,       \* the slots that have a buffer
  mRequestBufferCalled, \* the slots whose buffer was handed to the producer
  mQueue,               \* FIFO of queued slots
  mCurrentTexture,      \* slot bound to the GL texture, or INVALID_BUFFER_SLOT
  mCurrentTextureBuf,   \* is there a buffer bound to the GL texture?
  mBufferCount,
  mClientBufferCount,   \* 0: the client did not choose a count
  mServerBufferCount,
  mSynchronousMode,
  mConnectedApi,
  mAbandoned,
  mDequeueCondition,    \* the threads waiting on the condition
  call,                 \* [Threads -> the call the thread is in]
  held                  \* the slots the producer believes it has dequeued

slotVars == <<mBufferState, mGraphicBuffer, mRequestBufferCalled>>
textureVars == <<mCurrentTexture, mCurrentTextureBuf>>
countVars == <<mBufferCount, mClientBufferCount, mServerBufferCount>>
modeVars == <<mSynchronousMode, mConnectedApi, mAbandoned>>
threadVars == <<mDequeueCondition, call>>
vars == <<slotVars, mQueue, textureVars, countVars, modeVars, threadVars, held>>

\* The calls a thread can be in.  One that waits in dequeueBuffer again after
\* its tries are used up is in "dequeueRetried".
Calls == {"none", "dequeueBuffer", "dequeueRetried", "spinning",
          "setSynchronousMode", "disconnect", "onFrameAvailable"}

\* The constructor, for a queue put in mode sync with a server count of server.
InitWith(sync, server) ==
  /\ mBufferState = [s \in Slots |-> "FREE"]
  /\ mGraphicBuffer = {}
  /\ mRequestBufferCalled = {}
  /\ mQueue = <<>>
  /\ mCurrentTexture = INVALID_BUFFER_SLOT
  /\ mCurrentTextureBuf = FALSE
  /\ mBufferCount = MIN_ASYNC_BUFFER_SLOTS
  /\ mClientBufferCount = 0
  /\ mServerBufferCount = server
  /\ mSynchronousMode = sync
  /\ mConnectedApi = NO_CONNECTED_API
  /\ mAbandoned = FALSE
  /\ mDequeueCondition = {}
  /\ call = [t \in Threads |-> "none"]
  /\ held = {}

Init == InitWith(FALSE, MIN_ASYNC_BUFFER_SLOTS)

-----------------------------------------------------------------------------
(* Helpers. *)

\* Who waits after a Condition::signal(): one waiter is released, not all.
Signal(waiters) ==
  IF waiters = {} THEN {waiters} ELSE {waiters \ {t} : t \in waiters}

\* A spinning thread never releases mMutex.
MutexFree == \A t \in Threads : call[t] # "spinning"

\* t may run op: it is free to call it, or was signalled while waiting in it.
Starts(t) == MutexFree /\ call[t] = "none"
Resumes(t, op) == MutexFree /\ call[t] = op /\ t \notin mDequeueCondition

Wait(t, op) ==
  /\ mDequeueCondition' = mDequeueCondition \cup {t}
  /\ call' = [call EXCEPT ![t] = op]

Return(t) == call' = [call EXCEPT ![t] = "none"]
SignalAndReturn(t) == mDequeueCondition' \in Signal(mDequeueCondition) /\ Return(t)
ReturnSilently(t) == mDequeueCondition' = mDequeueCondition /\ Return(t)

SlotsBelow(n) == {s \in Slots : s < n}
MinSlots == IF mSynchronousMode THEN MIN_SYNC_BUFFER_SLOTS ELSE MIN_ASYNC_BUFFER_SLOTS
InState(state, n) == {s \in SlotsBelow(n) : mBufferState[s] = state}
Leaked == {s \in Slots : mBufferState[s] = "DEQUEUED" /\ s \notin held}

\* freeBufferLocked on every slot but those of keep.  mRequestBufferCalled
\* is left as it was.
FreeAllBuffersExcept(keep) ==
  /\ mBufferState' = [s \in Slots |-> IF s \in keep THEN mBufferState[s] ELSE "FREE"]
  /\ mGraphicBuffer' = mGraphicBuffer \cap keep
  /\ mCurrentTexture' = INVALID_BUFFER_SLOT
  /\ UNCHANGED mRequestBufferCalled

freeAllBuffersLocked == FreeAllBuffersExcept({})
\* Mutant of freeAllBuffersExceptHeadLocked: the head is freed too.
FreeHeadToo == FreeAllBuffersExcept({})

freeAllBuffersExceptHeadLocked ==
  FreeAllBuffersExcept(IF mQueue = <<>> THEN {} ELSE {Head(mQueue)})

-----------------------------------------------------------------------------
(* Buffer counts. *)

\* What setBufferCountServerLocked(n) does when the client count is client.
setBufferCountServerLocked(n, client) ==
  IF n > NUM_BUFFER_SLOTS \/ n = mBufferCount
  THEN UNCHANGED <<mBufferCount, mServerBufferCount, mDequeueCondition>>
  ELSE IF client = 0 /\ n >= mBufferCount
  THEN /\ mBufferCount' = n
       /\ mServerBufferCount' = n
       /\ mDequeueCondition' \in Signal(mDequeueCondition)
  ELSE /\ mServerBufferCount' = IF n < 2 THEN mServerBufferCount ELSE n
       /\ UNCHANGED <<mBufferCount, mDequeueCondition>>

setBufferCountServer(n) ==
  /\ MutexFree
  /\ setBufferCountServerLocked(n, mClientBufferCount)
  /\ UNCHANGED <<slotVars, mQueue, textureVars, mClientBufferCount, modeVars, call, held>>

\* setBufferCount(0): back to the server's count.
ResetBufferCount(t) ==
  /\ Starts(t) /\ ~mAbandoned /\ InState("DEQUEUED", mBufferCount) = {}
  /\ mClientBufferCount' = 0
  /\ setBufferCountServerLocked(
       IF mServerBufferCount >= MinSlots THEN mServerBufferCount ELSE MinSlots, 0)
  /\ UNCHANGED <<slotVars, mQueue, textureVars, modeVars, call, held>>

\* Mutant of setBufferCount: the FIFO is not cleared.
SetBufferCountKeepsQueue(t, n) ==
  /\ Starts(t) /\ ~mAbandoned /\ InState("DEQUEUED", mBufferCount) = {}
  /\ MinSlots <= n /\ n <= NUM_BUFFER_SLOTS
  /\ freeAllBuffersLocked
  /\ mBufferCount' = n
  /\ mClientBufferCount' = n
  /\ held' = {}
  /\ SignalAndReturn(t)
  /\ UNCHANGED <<mQueue, mCurrentTextureBuf, mServerBufferCount, modeVars>>

\* setBufferCount(n), n # 0: the client drops every buffer it knew.
setBufferCount(t, n) ==
  /\ Starts(t) /\ ~mAbandoned /\ InState("DEQUEUED", mBufferCount) = {}
  /\ MinSlots <= n /\ n <= NUM_BUFFER_SLOTS
  /\ freeAllBuffersLocked
  /\ mBufferCount' = n
  /\ mClientBufferCount' = n
  /\ mQueue' = <<>>
  /\ held' = {}
  /\ SignalAndReturn(t)
  /\ UNCHANGED <<mCurrentTextureBuf, mServerBufferCount, modeVars>>

-----------------------------------------------------------------------------
(* dequeueBuffer. *)

NumberOfBuffersNeedsToChange ==
  /\ mClientBufferCount = 0
  /\ mServerBufferCount # mBufferCount \/ mServerBufferCount < MinSlots

\* The count a resizing dequeue settles on.
ResizedCount == IF mServerBufferCount < MinSlots THEN MinSlots ELSE mServerBufferCount

\* A producer without a client count that already owns a buffer is given the
\* server's count as its own after five tries with the lock held.
MustRetry == mClientBufferCount = 0 /\ InState("DEQUEUED", mBufferCount) # {}
ClientCount == IF MustRetry THEN mServerBufferCount ELSE mClientBufferCount

\* Once a buffer was latched, MIN_UNDEQUEUED_BUFFERS (one less in synchronous
\* mode) must stay after this dequeue; if fewer would, the count is raised
\* one by one until they do.
RequiredCount ==
  Cardinality(InState("DEQUEUED", mBufferCount)) + 1
    + MIN_UNDEQUEUED_BUFFERS - (IF mSynchronousMode THEN 1 ELSE 0)

\* Mutant of TooFewUndequeued: the current dequeue is not counted.
TooFewBeforeDequeue ==
  mCurrentTexture # INVALID_BUFFER_SLOT /\ mBufferCount < RequiredCount - 1

TooFewUndequeued ==
  mCurrentTexture # INVALID_BUFFER_SLOT /\ mBufferCount < RequiredCount
MinUndequeuedExceeded ==
  ~NumberOfBuffersNeedsToChange /\ TooFewUndequeued /\ ClientCount = 0

AdjustCounts ==
  IF TooFewUndequeued /\ ClientCount # 0
  THEN /\ mBufferCount' = RequiredCount
       /\ mClientBufferCount' = RequiredCount
       /\ mServerBufferCount' = RequiredCount
  ELSE /\ mClientBufferCount' = ClientCount
       /\ UNCHANGED <<mBufferCount, mServerBufferCount>>

Dequeuing == {t \in Threads : call[t] \in {"dequeueBuffer", "dequeueRetried"}}
ResumesDequeue(t) == Resumes(t, "dequeueBuffer") \/ Resumes(t, "dequeueRetried")

\* The call is made, or goes on after a wait.  The producer is asked to hold
\* at most MaxHeld buffers.
EntersDequeue(t) ==
  /\ ~mAbandoned
  /\ \/ Starts(t) /\ Cardinality(held) + Cardinality(Dequeuing) < MaxHeld
     \/ ResumesDequeue(t)

\* The loop reaches the search for a buffer, and its tries are not used up.
SearchesBuffer(t) ==
  /\ EntersDequeue(t)
  /\ ~NumberOfBuffersNeedsToChange /\ ~MinUndequeuedExceeded
  /\ call[t] = "dequeueRetried" => ~MustRetry

\* The found slot b, seen with the state the loop left, becomes the client's.
\* mySlots is what the producer still believes to own.
TakeBuffer(t, b, states, buffers, current, mySlots) ==
  /\ mBufferState' = [states EXCEPT ![b] = "DEQUEUED"]
  /\ ReturnSilently(t)
  /\ \/ \* the buffer of the slot fits
        /\ b \in buffers
        /\ mGraphicBuffer' = buffers
        /\ mCurrentTexture' = current
        /\ held' = mySlots \cup {b}
        /\ UNCHANGED mRequestBufferCalled
     \/ \* BUFFER_NEEDS_REALLOCATION
        /\ mGraphicBuffer' = buffers \cup {b}
        /\ mRequestBufferCalled' = mRequestBufferCalled \ {b}
        /\ mCurrentTexture' = IF current = b THEN INVALID_BUFFER_SLOT ELSE current
        /\ held' = mySlots \cup {b}
     \/ \* createGraphicBuffer failed: the slot stays DEQUEUED, flags are lost
        /\ Cardinality(Leaked) < MaxLeaked
        /\ mGraphicBuffer' = buffers
        /\ mCurrentTexture' = current
        /\ UNCHANGED <<mRequestBufferCalled, held>>

\* Wait for the FIFO to drain before the number of buffers can change.
DequeueWaitsForDrain(t) ==
  /\ EntersDequeue(t)
  /\ NumberOfBuffersNeedsToChange /\ mQueue # <<>>
  /\ Wait(t, IF Starts(t) THEN "dequeueBuffer" ELSE call[t])
  /\ UNCHANGED <<slotVars, mQueue, textureVars, countVars, modeVars, held>>

\* Mutant of DequeueResizes: the FIFO need not have drained.
DequeueResizesAtOnce(t) ==
  /\ EntersDequeue(t)
  /\ NumberOfBuffersNeedsToChange
  /\ mBufferCount' = ResizedCount
  /\ \E b \in SlotsBelow(ResizedCount) :
       TakeBuffer(t, b, [s \in Slots |-> "FREE"], {}, INVALID_BUFFER_SLOT, {})
  /\ UNCHANGED <<mQueue, mCurrentTextureBuf, mClientBufferCount, mServerBufferCount, modeVars>>

\* RELEASE_ALL_BUFFERS: every slot is freed, then one is taken.  A producer
\* that sees the flag forgets the buffers it had.
DequeueResizes(t) ==
  /\ EntersDequeue(t)
  /\ NumberOfBuffersNeedsToChange /\ mQueue = <<>>
  /\ mBufferCount' = ResizedCount
  /\ \E b \in SlotsBelow(ResizedCount) :
       TakeBuffer(t, b, [s \in Slots |-> "FREE"], {}, INVALID_BUFFER_SLOT, {})
  /\ UNCHANGED <<mQueue, mCurrentTextureBuf, mClientBufferCount, mServerBufferCount, modeVars>>

DequeueTakes(t) ==
  /\ SearchesBuffer(t)
  /\ AdjustCounts
  /\ \E b \in InState("FREE", mBufferCount') :
       TakeBuffer(t, b, mBufferState, mGraphicBuffer, mCurrentTexture, held)
  /\ UNCHANGED <<mQueue, mCurrentTextureBuf, modeVars>>

\* No free slot: wait for one in synchronous mode, fail in asynchronous mode.
\* The counts keep what the loop did to them.
DequeueFindsNone(t) ==
  /\ SearchesBuffer(t)
  /\ AdjustCounts
  /\ InState("FREE", mBufferCount') = {}
  /\ IF ~mSynchronousMode THEN ReturnSilently(t)
     ELSE Wait(t, IF MustRetry \/ call[t] = "dequeueRetried" THEN "dequeueRetried"
                  ELSE "dequeueBuffer")
  /\ UNCHANGED <<slotVars, mQueue, textureVars, modeVars, held>>

\* The tries were used up before a wait during which another thread put the
\* client count back to 0 and took a buffer: the loop sleeps and tries again,
\* with mMutex held, for ever.
DequeueSpins(t) ==
  /\ Resumes(t, "dequeueRetried") /\ ~mAbandoned
  /\ ~NumberOfBuffersNeedsToChange /\ MustRetry
  /\ call' = [call EXCEPT ![t] = "spinning"]
  /\ UNCHANGED <<slotVars, mQueue, textureVars, countVars, modeVars, mDequeueCondition, held>>

\* A woken thread that gives up: the queue was abandoned, or the client count
\* is not set and too few buffers would stay.
DequeueFails(t) ==
  /\ ResumesDequeue(t)
  /\ mAbandoned \/ MinUndequeuedExceeded
  /\ ReturnSilently(t)
  /\ UNCHANGED <<slotVars, mQueue, textureVars, countVars, modeVars, held>>

dequeueBuffer(t) ==
  \/ DequeueWaitsForDrain(t) \/ DequeueResizes(t) \/ DequeueTakes(t)
  \/ DequeueFindsNone(t) \/ DequeueSpins(t) \/ DequeueFails(t)

-----------------------------------------------------------------------------
(* The other calls of the producer. *)

requestBuffer(t, s) ==
  /\ Starts(t) /\ ~mAbandoned
  /\ s \in held /\ s < mBufferCount
  /\ mRequestBufferCalled' = mRequestBufferCalled \cup {s}
  /\ UNCHANGED <<mBufferState, mGraphicBuffer, mQueue, textureVars, countVars,
                 modeVars, threadVars, held>>

CanQueue(s) ==
  /\ s < mBufferCount
  /\ mBufferState[s] = "DEQUEUED"
  /\ s # mCurrentTexture
  /\ s \in mRequestBufferCalled

\* Synchronous mode appends; asynchronous mode replaces the pending frame, and
\* tells the listener only if there was none.  The listener is called after
\* the lock was released.
queueBuffer(t, s) ==
  /\ Starts(t) /\ ~mAbandoned /\ s \in held
  /\ CanQueue(s)
  /\ LET replaced == IF mSynchronousMode \/ mQueue = <<>> THEN {} ELSE {Head(mQueue)}
     IN /\ mQueue' = IF replaced = {} THEN Append(mQueue, s) ELSE [mQueue EXCEPT ![1] = s]
        /\ mBufferState' = [i \in Slots |-> IF i = s THEN "QUEUED"
                                            ELSE IF i \in replaced THEN "FREE"
                                            ELSE mBufferState[i]]
        /\ call' = [call EXCEPT ![t] = IF replaced = {} THEN "onFrameAvailable" ELSE "none"]
  /\ mDequeueCondition' \in Signal(mDequeueCondition)
  /\ held' = held \ {s}
  /\ UNCHANGED <<mGraphicBuffer, mRequestBufferCalled, textureVars, countVars, modeVars>>

\* The slot was taken away from the producer: -EINVAL, and it gives up.
QueueBufferFails(t, s) ==
  /\ Starts(t) /\ ~mAbandoned /\ s \in held
  /\ s >= mBufferCount \/ mBufferState[s] # "DEQUEUED"
  /\ held' = held \ {s}
  /\ UNCHANGED <<slotVars, mQueue, textureVars, countVars, modeVars, threadVars>>

OnFrameAvailable(t) ==
  /\ call[t] = "onFrameAvailable"
  /\ ReturnSilently(t)
  /\ UNCHANGED <<slotVars, mQueue, textureVars, countVars, modeVars, held>>

cancelBuffer(t, s) ==
  /\ Starts(t) /\ ~mAbandoned /\ s \in held
  /\ s < mBufferCount /\ mBufferState[s] = "DEQUEUED"
  /\ mBufferState' = [mBufferState EXCEPT ![s] = "FREE"]
  /\ held' = held \ {s}
  /\ SignalAndReturn(t)
  /\ UNCHANGED <<mGraphicBuffer, mRequestBufferCalled, mQueue, textureVars, countVars, modeVars>>

connect(t, api) ==
  /\ Starts(t) /\ ~mAbandoned
  /\ mConnectedApi = NO_CONNECTED_API
  /\ mConnectedApi' = api
  /\ UNCHANGED <<slotVars, mQueue, textureVars, countVars, mSynchronousMode, mAbandoned,
                 threadVars, held>>

-----------------------------------------------------------------------------
(* Calls that drain the queue. *)

MustDrain == mSynchronousMode /\ mQueue # <<>>

\* drainQueueLocked looks at the connection only after it has waited.
DrainGivesUp(t, op) == Resumes(t, op) /\ (mAbandoned \/ mConnectedApi = NO_CONNECTED_API)
DrainGoesOn(t, op) == Resumes(t, op) /\ ~mAbandoned /\ mConnectedApi # NO_CONNECTED_API

DrainWaits(t, op) ==
  /\ MustDrain
  /\ Wait(t, op)
  /\ UNCHANGED <<slotVars, mQueue, textureVars, countVars, modeVars, held>>

SetSynchronous(t) ==
  /\ Starts(t) /\ ~mAbandoned /\ mAllowSynchronousMode
  /\ ~mSynchronousMode
  /\ mSynchronousMode' = TRUE
  /\ SignalAndReturn(t)
  /\ UNCHANGED <<slotVars, mQueue, textureVars, countVars, mConnectedApi, mAbandoned, held>>

\* Mutant of SetAsynchronous: after one wait the FIFO is taken to be empty.
SetAsynchronousWaitsOnce(t) ==
  \/ Starts(t) /\ ~mAbandoned /\ DrainWaits(t, "setSynchronousMode")
  \/ /\ (Starts(t) /\ ~mAbandoned /\ ~MustDrain) \/ DrainGoesOn(t, "setSynchronousMode")
     /\ mSynchronousMode' = FALSE
     /\ IF mSynchronousMode THEN SignalAndReturn(t) ELSE ReturnSilently(t)
     /\ UNCHANGED <<slotVars, mQueue, textureVars, countVars, mConnectedApi, mAbandoned, held>>
  \/ /\ DrainGivesUp(t, "setSynchronousMode")
     /\ ReturnSilently(t)
     /\ UNCHANGED <<slotVars, mQueue, textureVars, countVars, modeVars, held>>

SetAsynchronous(t) ==
  \/ /\ (Starts(t) /\ ~mAbandoned) \/ DrainGoesOn(t, "setSynchronousMode")
     /\ \/ DrainWaits(t, "setSynchronousMode")
        \/ /\ ~MustDrain
           /\ mSynchronousMode' = FALSE
           /\ IF mSynchronousMode THEN SignalAndReturn(t) ELSE ReturnSilently(t)
           /\ UNCHANGED <<slotVars, mQueue, textureVars, countVars, mConnectedApi,
                          mAbandoned, held>>
  \/ /\ DrainGivesUp(t, "setSynchronousMode")
     /\ ReturnSilently(t)
     /\ UNCHANGED <<slotVars, mQueue, textureVars, countVars, modeVars, held>>

\* The end of disconnect; the buffers are freed only if the drain succeeded.
FinishDisconnect(t, drained) ==
  /\ IF ~drained THEN UNCHANGED <<slotVars, mCurrentTexture>>
     ELSE IF mSynchronousMode THEN freeAllBuffersLocked
     ELSE freeAllBuffersExceptHeadLocked
  /\ mConnectedApi' = NO_CONNECTED_API
  /\ held' = IF drained THEN {} ELSE held
  /\ SignalAndReturn(t)
  /\ UNCHANGED <<mQueue, mCurrentTextureBuf, countVars, mSynchronousMode, mAbandoned>>

disconnect(t) ==
  \/ /\ \/ Starts(t) /\ ~mAbandoned /\ mConnectedApi # NO_CONNECTED_API
        \/ DrainGoesOn(t, "disconnect")
     /\ \/ DrainWaits(t, "disconnect")
        \/ ~MustDrain /\ FinishDisconnect(t, TRUE)
  \/ DrainGivesUp(t, "disconnect") /\ FinishDisconnect(t, FALSE)

-----------------------------------------------------------------------------
(* The consumer. *)

CanLatch == ~mAbandoned /\ mQueue # <<>> /\ Head(mQueue) \in mGraphicBuffer

\* Mutant of FreeReplacedTexture: the slot of the texture is forgotten.
KeepReplacedTexture == UNCHANGED mBufferState

\* The slot of the texture is free again if it was not dequeued meanwhile.
FreeReplacedTexture ==
  mBufferState' =
    IF mCurrentTexture # INVALID_BUFFER_SLOT /\ mBufferState[mCurrentTexture] = "QUEUED"
    THEN [mBufferState EXCEPT ![mCurrentTexture] = "FREE"]
    ELSE mBufferState

updateTexImage ==
  /\ MutexFree /\ CanLatch
  /\ FreeReplacedTexture
  /\ mCurrentTexture' = Head(mQueue)
  /\ mCurrentTextureBuf' = TRUE
  /\ mQueue' = Tail(mQueue)
  /\ mDequeueCondition' \in Signal(mDequeueCondition)
  /\ UNCHANGED <<mGraphicBuffer, mRequestBufferCalled, countVars, modeVars, call, held>>

\* Nothing queued, no buffer in the head slot, or the image cannot be made or
\* bound: the queue stays as it is.
UpdateTexImageIdle ==
  /\ MutexFree
  /\ CanLatch => BindMayFail
  /\ UNCHANGED vars

abandon ==
  /\ MutexFree
  /\ mQueue' = <<>>
  /\ mAbandoned' = TRUE
  /\ mCurrentTextureBuf' = FALSE
  /\ freeAllBuffersLocked
  /\ mDequeueCondition' \in Signal(mDequeueCondition)
  /\ UNCHANGED <<countVars, mSynchronousMode, mConnectedApi, call, held>>

-----------------------------------------------------------------------------
ProducerStep(t) ==
  \/ dequeueBuffer(t)
  \/ \E s \in held : \/ requestBuffer(t, s) \/ queueBuffer(t, s)
                     \/ QueueBufferFails(t, s) \/ cancelBuffer(t, s)
  \/ OnFrameAvailable(t)
  \/ \E api \in Apis : connect(t, api)
  \/ disconnect(t)
  \/ SetSynchronous(t) \/ SetAsynchronous(t)
  \/ 0 \in ClientCounts /\ ResetBufferCount(t)
  \/ \E n \in ClientCounts : setBufferCount(t, n)

Next ==
  \/ \E t \in Threads : ProducerStep(t)
  \/ \E n \in ServerCounts : setBufferCountServer(n)
  \/ updateTexImage \/ UpdateTexImageIdle \/ abandon

Spec == Init /\ [][Next]_vars

\* A signalled thread gets the mutex and a listener call returns; the consumer
\* goes on latching frames.  Nothing obliges the producer to make a call.
ResumeStep(t) == call[t] \notin {"none", "onFrameAvailable"} /\ ProducerStep(t)
Fairness ==
  /\ \A t \in Threads : WF_vars(ResumeStep(t)) /\ WF_vars(OnFrameAvailable(t))
  /\ WF_vars(updateTexImage)
FairSpec == Spec /\ Fairness

-----------------------------------------------------------------------------
(* Properties. *)

Queued == {mQueue[i] : i \in 1 .. Len(mQueue)}

\* The type of every variable; the slots of the queue and the texture lie
\* within mBufferCount.
TypeOK ==
  /\ mBufferState \in [Slots -> {"FREE", "DEQUEUED", "QUEUED"}]
  /\ mGraphicBuffer \subseteq Slots
  /\ mRequestBufferCalled \subseteq Slots
  /\ mQueue \in Seq(Slots)
  /\ mCurrentTexture \in Slots \cup {INVALID_BUFFER_SLOT}
  /\ mCurrentTextureBuf \in BOOLEAN
  /\ mBufferCount \in Nat
  /\ mClientBufferCount \in Nat
  /\ mServerBufferCount \in Nat
  /\ mSynchronousMode \in BOOLEAN
  /\ mConnectedApi \in Apis \cup {NO_CONNECTED_API}
  /\ mAbandoned \in BOOLEAN
  /\ mDequeueCondition \subseteq {t \in Threads : call[t] \notin {"none", "onFrameAvailable"}}
  /\ call \in [Threads -> Calls]
  /\ held \subseteq Slots

\* The consumer never has a buffer the producer may be drawing into: no slot
\* the producer holds is pending in the FIFO or bound to the texture.
ExclusiveAccess ==
  /\ held \cap Queued = {}
  /\ mCurrentTexture \notin held
  /\ mCurrentTexture \notin Queued

\* No slot is lost: one that is QUEUED is pending once in the FIFO or is the
\* current texture, so that it will be FREE again, and one that is pending or
\* current is QUEUED ("if buffer is FREE it CANNOT be current").
QueuedAccounted ==
  /\ {s \in Slots : mBufferState[s] = "QUEUED"}
       = Queued \cup ({mCurrentTexture} \ {INVALID_BUFFER_SLOT})
  /\ \A i, j \in 1 .. Len(mQueue) : mQueue[i] = mQueue[j] => i = j

\* "In asynchronous mode the list is guaranteed to be one buffer deep"
\* (updateTexImage), whatever mode changes and drains came before.
AsyncOneDeep == ~mSynchronousMode => Len(mQueue) <= 1

\* What is queued can be shown: updateTexImage finds a buffer in the slot.  This
\* holds as long as no allocation fails.  One that fails in a resize takes the
\* buffers from a producer that is not told so: it may then queue a slot without
\* a buffer, and updateTexImage never gets past that slot.
QueuedHasBuffer == MaxLeaked = 0 => Queued \subseteq mGraphicBuffer

\* A dequeue leaves the consumer enough buffers once a frame was latched
\* (window.h, NATIVE_WINDOW_MIN_UNDEQUEUED_BUFFERS).
LeavesMinUndequeued ==
  [][\A t \in Threads : dequeueBuffer(t) /\ held' # held /\ mCurrentTexture' # INVALID_BUFFER_SLOT =>
       mBufferCount' - Cardinality({s \in SlotsBelow(mBufferCount') : mBufferState'[s] = "DEQUEUED"})
         >= MIN_UNDEQUEUED_BUFFERS - (IF mSynchronousMode THEN 1 ELSE 0)]_vars

\* The queue implements the promise of BufferOwnership: one owner per slot,
\* frames latched in the order they were queued, nothing shown that was not
\* queued.
SlotOwner ==
  [s \in Slots |-> CASE mBufferState[s] = "FREE" -> "free"
                     [] mBufferState[s] = "DEQUEUED" -> "producer"
                     [] mBufferState[s] = "QUEUED" ->
                          IF s = mCurrentTexture THEN "screen" ELSE "fifo"]
Ownership == INSTANCE BufferOwnership WITH owner <- SlotOwner, fifo <- mQueue
ImplementsOwnership == Ownership!Spec

\* A waiting call notices that the queue was abandoned ("we need to reevaluate
\* our whole state (eg: we could be abandoned or disconnected)").
AbandonReleasesWaiters == mAbandoned ~> mDequeueCondition = {}

=============================================================================
