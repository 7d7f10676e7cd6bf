--------------------------------- MODULE Layer ---------------------------------
(***************************************************************************)
(* A layer of SurfaceFlinger that consumes a SurfaceTexture:                *)
(* frameworks/base/services/surfaceflinger/Layer.cpp and the event loop of  *)
(* SurfaceFlinger.cpp.  The listener of the queue counts the queued frames  *)
(* and posts an event; the main thread wakes up on an event and latches one *)
(* frame per wake-up.                                                       *)
(***************************************************************************)
EXTENDS SurfaceTexture

CONSTANT
  MaxCleared       \* bound: announcements left over from frames that were dropped

ASSUME LayerAssumption == MaxCleared \in Nat

VARIABLES
  mQueuedFrames,   \* frames announced and not yet asked for
  signalling,      \* threads between the increment and signalEvent
  mInvalidate,     \* an INVALIDATE message is in the event queue
  loop,            \* where the main thread is
  mActiveBuffer,   \* does the layer have a buffer to draw?
  clearedFrames,   \* frames that setBufferCount has dropped and that are, or will
                   \*  be, announced all the same
  clearedFirst     \* has it dropped a frame before any was latched?

historyVars == <<clearedFrames, clearedFirst>>
layerVars == <<mQueuedFrames, signalling, mInvalidate, loop, mActiveBuffer, historyVars>>
allVars == <<vars, layerVars>>

\* onFirstRef: a synchronous queue of two buffers.
LayerInit ==
  /\ InitWith(TRUE, 2)
  /\ mQueuedFrames = 0
  /\ signalling = {}
  /\ mInvalidate = FALSE
  /\ loop = "waitForEvent"
  /\ mActiveBuffer = FALSE
  /\ clearedFrames = 0
  /\ clearedFirst = FALSE

-----------------------------------------------------------------------------
(* Binder threads. *)

\* The frames a step takes from the queue without latching them.
Dropped == IF mQueue' = <<>> THEN Len(mQueue) ELSE 0

\* The frames that setBufferCount drops stay announced.
Produce(t) ==
  /\ call[t] # "onFrameAvailable"
  /\ ProducerStep(t)
  /\ clearedFrames + Dropped <= MaxCleared
  /\ clearedFrames' = clearedFrames + Dropped
  /\ clearedFirst' = (clearedFirst \/ (Dropped > 0 /\ ~mCurrentTextureBuf))
  /\ UNCHANGED <<mQueuedFrames, signalling, mInvalidate, loop, mActiveBuffer>>

onFrameQueued(t) ==
  /\ call[t] = "onFrameAvailable" /\ t \notin signalling
  /\ mQueuedFrames' = mQueuedFrames + 1
  /\ signalling' = signalling \cup {t}
  /\ UNCHANGED <<vars, mInvalidate, loop, mActiveBuffer, historyVars>>

signalEvent(t) ==
  /\ t \in signalling
  /\ mInvalidate' = TRUE
  /\ signalling' = signalling \ {t}
  /\ OnFrameAvailable(t)
  /\ UNCHANGED <<mQueuedFrames, loop, mActiveBuffer, historyVars>>

\* Another layer, or a transaction, wakes the main thread.
OtherEvent ==
  /\ ~mInvalidate
  /\ mInvalidate' = TRUE
  /\ UNCHANGED <<vars, mQueuedFrames, signalling, loop, mActiveBuffer, historyVars>>

-----------------------------------------------------------------------------
(* The main thread. *)

waitForEvent ==
  /\ loop = "waitForEvent" /\ mInvalidate
  /\ mInvalidate' = FALSE
  /\ loop' = "lockPageFlip"
  /\ UNCHANGED <<vars, mQueuedFrames, signalling, mActiveBuffer, historyVars>>

\* A transaction that removed the layer is committed before the page flip;
\* the layer is no longer drawn.
onRemoved ==
  /\ loop = "lockPageFlip" /\ ~mAbandoned
  /\ abandon
  /\ loop' = "waitForEvent"
  /\ UNCHANGED <<mQueuedFrames, signalling, mInvalidate, mActiveBuffer, historyVars>>

LockPageFlipIdle ==
  /\ loop = "lockPageFlip"
  /\ mQueuedFrames = 0 \/ mAbandoned
  /\ loop' = "waitForEvent"
  /\ UNCHANGED <<vars, mQueuedFrames, signalling, mInvalidate, mActiveBuffer, historyVars>>

\* Mutant of LockPageFlipTakes: the frame is asked for and stays counted.
LockPageFlipKeepsCount ==
  /\ loop = "lockPageFlip"
  /\ mQueuedFrames > 0 /\ ~mAbandoned
  /\ mInvalidate' = (mInvalidate \/ mQueuedFrames > 1)
  /\ loop' = "updateTexImage"
  /\ UNCHANGED <<vars, mQueuedFrames, signalling, mActiveBuffer, historyVars>>

\* Mutant of LockPageFlipTakes: no event is posted for the frames that remain.
LockPageFlipTakesSilently ==
  /\ loop = "lockPageFlip"
  /\ mQueuedFrames > 0 /\ ~mAbandoned
  /\ mQueuedFrames' = mQueuedFrames - 1
  /\ loop' = "updateTexImage"
  /\ UNCHANGED <<vars, signalling, mInvalidate, mActiveBuffer, historyVars>>

\* One frame is asked for; another event is posted if more are pending.
LockPageFlipTakes ==
  /\ loop = "lockPageFlip"
  /\ mQueuedFrames > 0 /\ ~mAbandoned
  /\ mQueuedFrames' = mQueuedFrames - 1
  /\ mInvalidate' = (mInvalidate \/ mQueuedFrames > 1)
  /\ loop' = "updateTexImage"
  /\ UNCHANGED <<vars, signalling, mActiveBuffer, historyVars>>

\* Mutant of LockPageFlipUpdates: the result of updateTexImage is ignored.
LockPageFlipIgnoresError ==
  /\ loop = "updateTexImage"
  /\ updateTexImage \/ UpdateTexImageIdle
  /\ loop' = "getCurrentBuffer"
  /\ UNCHANGED <<mQueuedFrames, signalling, mInvalidate, mActiveBuffer, historyVars>>

\* With an empty queue updateTexImage succeeds and changes nothing: what announced
\* a frame that was dropped is used up.
LockPageFlipUpdates ==
  /\ loop = "updateTexImage"
  /\ \/ updateTexImage /\ loop' = "getCurrentBuffer" /\ UNCHANGED clearedFrames
     \/ /\ UpdateTexImageIdle /\ mQueue = <<>>
        /\ loop' = "getCurrentBuffer" /\ clearedFrames' = clearedFrames - 1
     \/ /\ UpdateTexImageIdle /\ mQueue # <<>>
        /\ loop' = "waitForEvent" /\ UNCHANGED clearedFrames
  /\ UNCHANGED <<mQueuedFrames, signalling, mInvalidate, mActiveBuffer, clearedFirst>>

\* The buffer is fetched with a second lock, and its size read.
LockPageFlipActivates ==
  /\ loop = "getCurrentBuffer" /\ MutexFree
  /\ mActiveBuffer' = mCurrentTextureBuf
  /\ loop' = "waitForEvent"
  /\ UNCHANGED <<vars, mQueuedFrames, signalling, mInvalidate, historyVars>>

PageFlip ==
  \/ waitForEvent \/ LockPageFlipIdle \/ LockPageFlipTakes
  \/ LockPageFlipUpdates \/ LockPageFlipActivates

LayerNext ==
  \/ \E t \in Threads : Produce(t) \/ onFrameQueued(t) \/ signalEvent(t)
  \/ OtherEvent
  \/ PageFlip \/ onRemoved

\* Every runnable thread runs.  Removing the layer is nobody's obligation, so
\* the main thread is fair without it.
LayerFairness ==
  /\ WF_allVars(PageFlip)
  /\ \A t \in Threads : /\ WF_allVars(ResumeStep(t) /\ UNCHANGED layerVars)
                        /\ WF_allVars(onFrameQueued(t))
                        /\ WF_allVars(signalEvent(t))

LayerSpec == LayerInit /\ [][LayerNext]_allVars
LayerFairSpec == LayerSpec /\ LayerFairness

-----------------------------------------------------------------------------
(* Properties. *)

LayerTypeOK ==
  /\ mQueuedFrames \in Nat
  /\ signalling \subseteq {t \in Threads : call[t] = "onFrameAvailable"}
  /\ mInvalidate \in BOOLEAN
  /\ loop \in {"waitForEvent", "lockPageFlip", "updateTexImage", "getCurrentBuffer"}
  /\ mActiveBuffer \in BOOLEAN
  /\ clearedFrames \in Nat /\ clearedFirst \in BOOLEAN

\* No announcement without a pending frame, unless setBufferCount has dropped the
\* frame, and unless a GL call or an allocation may fail no pending frame without an
\* announcement on its way to the main thread: in both modes and across a change of
\* mode, of producer or of the number of buffers.
FramesAnnounced ==
  LET announced == Cardinality({t \in Threads : call[t] = "onFrameAvailable"} \ signalling)
                   + mQueuedFrames + (IF loop = "updateTexImage" THEN 1 ELSE 0)
  IN ~mAbandoned =>
       /\ announced <= Len(mQueue) + clearedFrames
       /\ ~BindMayFail /\ MaxLeaked = 0 => announced = Len(mQueue) + clearedFrames

\* lockPageFlip reads the size of a buffer it does not have (Layer.cpp:439) in one
\* case only: setBufferCount has dropped announced frames and none was ever latched.
\* Failed GL calls, later changes of the number of buffers and whatever binder threads
\* do between updateTexImage and getCurrentBuffer leave it a buffer.
ActiveBufferExists == loop = "getCurrentBuffer" => mCurrentTextureBuf \/ clearedFirst

\* No event is lost: while announced frames wait, the main thread is awake, has
\* an event to wake up on, or a binder thread is about to post one.
EventNotLost ==
  mQueuedFrames > 0 /\ ~mAbandoned =>
    loop = "lockPageFlip" \/ mInvalidate \/ signalling # {}

\* Driven by events only, the main thread keeps latching frames until every
\* waiting call of the producer comes back.
LayerCallsReturn == \A t \in Threads : (call[t] # "none") ~> (call[t] = "none")

=============================================================================
