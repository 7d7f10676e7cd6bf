# A verification of ics4blade: buffer queue, page flip, radio, GPS, RPC

ics4blade is the part of an Android 4.0 tree that was changed to run on the ZTE
Blade: framework sources (SurfaceFlinger, libgui, window manager, telephony,
media), hardware abstraction layers for the MSM7k family, the radio interface
layer, the volume daemon, applications, and vendored code (busybox, mesa,
WebKit).  This directory holds TLA+ models of the parts whose correctness
depends on the order in which threads run, the checks TLC makes of them, and
proofs checked by TLAPS.

Contents: [inventory](#inventory), [modules](#modules),
[runs](#runs), [fairness](#fairness), [proofs](#proofs),
[where the code departs from its comments](#where-the-code-departs-from-its-comments),
[not modelled](#what-is-not-modelled), [plan](#plan).

## Inventory

The components that keep state of their own, what they do with it, and what
makes them correct.

**SurfaceTexture** (`frameworks/base/libs/gui/SurfaceTexture.cpp`).  A pool of
buffer slots between a producer (an application, through binder threads) and a
consumer (a layer of SurfaceFlinger, on its main thread).  State: the slots and
their state (FREE, DEQUEUED, QUEUED), which slots have a buffer, the FIFO of
queued slots, the slot bound to the GL texture, three buffer counts (the actual
one, the client's, the server's), the mode (synchronous or asynchronous), the
connected API, the abandoned flag.  Operations: dequeue, request, queue, cancel,
connect, disconnect, set the mode, set either count; update the texture, abandon.
All of them hold `mMutex`; dequeue, the change of mode and disconnect give it up
while they wait on `mDequeueCondition`.  Hard: what a call computed before a wait
is stale after it; two kinds of waiters share one condition that `signal()` wakes
one at a time; buffers are thrown away by resizes, by a mode change, by a
disconnect, while the other side holds slot numbers.  Correct when no slot is
drawn into by the producer while the consumer shows it or will show it, no slot
is lost, every waiting call returns, and the counts leave the consumer the
buffers it was promised.

**Layer and the event loop of SurfaceFlinger** (`services/surfaceflinger/Layer.cpp`,
`SurfaceFlinger.cpp`).  State: the count of announced frames, one pending event,
the buffer the layer draws.  Binder threads increment the count after they
released the queue's lock and post an event; the main thread wakes on an event
and latches one frame per layer.  Hard: the count and the FIFO are updated under
different protection; events coalesce; a latch can fail after its announcement
was consumed.  Correct when every frame is announced exactly once, no event is
lost, and `lockPageFlip` finds a buffer.

**AT channel and reference RIL** (`hardware/ril/reference-ril`).  State: the
descriptor, the pending command and its response, the closed flag; the radio
state and its own closed flag.  A command thread sends a line and waits for the
final response; a reader thread takes lines apart and hands them to the pending
command or to the handler of unsolicited lines; a main loop opens the channel,
waits until it is closed and opens it again.  Hard: an answer that comes after
its command timed out; the end of the stream while a command is pending;
reopening while the threads of the old channel still run.

**RIL event loop** (`hardware/ril/libril/ril_event.cpp`; the device carries a
copy).  State: a table of watched descriptors, a list of timers ordered by
deadline, a list of events to fire.  Hard: other threads add events and timers
between the loop's copy of the descriptors and its `select`; events wait in the
pending list while the callbacks before them change what they are about.

**RIL daemon** (`hardware/ril/libril/ril.cpp`).  State: the connection to the
telephony process and its two events, the requests not yet answered, the wake
lock with the time-out that releases it, the NITZ time kept for the next
connection.  The loop thread accepts, reads and dispatches; threads of the radio
implementation answer, report and ask for timed callbacks.  Hard: answers after a
reconnection, writes that fail and close the descriptor the loop watches, SIGPIPE,
a time-out that is replaced while it fires.  Correct when the daemon listens or
serves, no wakeup is lost, every timer fires, the wake lock is released.

**Telephony RIL client** (`RIL.java`).  State: the list of requests under way,
their pool, serial numbers, the socket, two counters and the wake lock they
justify.  Callers, the sender thread and the receiver thread share it.  Hard: the
stream ends while a request is between the queue, the list and the socket; objects
are pooled while a thread still holds them; counters under different locks; the
time-out resets what responses count on.  Correct when every caller is told once
what became of its own request, and the wake lock is held as long as needed and
not for ever.

**GPS location engine** (`hardware/qcom/gps/loc_api/libloc_api`).  State: one
event of the modem, flags and data for the deferred-action thread, the wake lock;
one selected ioctl callback for all threads; one network-initiated (NI)
notification with its time-out.  RPC callbacks, the deferred-action thread, the
Java layer, the user and the NI thread share it.  Hard: a condition that is
waited on once, without a loop; a callback that only the thread that waits for it
can handle; time-out and user answering the same notification.  Correct when no
flag is slept on, the wake lock covers what is pending, notifications end.

**RPC library** (`hardware/msm7k/librpc/clnt.c`).  State: the list of clients; per
client one input buffer and the flag that it is in use, four mutexes with three
conditions, the callback thread; one wake lock for all.  Any thread calls; one receive
thread reads for all clients, wakes the caller or hands the message to the client's
callback thread, whose handler may call on the client itself.  Hard: a buffer that is
freed by whoever is done with it, and by whoever gave up; a receive thread that waits
for one client with the lock of all; clients created and destroyed meanwhile, on
descriptors that are used again.  Correct when a message has one consumer who finds it
unharmed, callbacks are dispatched once and in order, the wake lock is given back and
calls return.

**Others**: the volume daemon (sequences of system calls that can fail half way),
gralloc (best-fit allocator, page-flip thread), USB function switching, HTTP data
sources whose connection another thread may tear down.  `PROJECT.json` lists every component with
its files; "hazards" there lists, line by line, what is hard to test.

How they meet: an application's EGL calls arrive at SurfaceTexture through binder;
SurfaceTexture calls Layer through its frame listener; Layer calls SurfaceFlinger's
event and, on the main thread, SurfaceTexture's update.  `RIL.java` (module
`RilClient`) talks to `ril.cpp` (`RilDaemon`) over a socket, whose other end is an external
process in either module; `ril.cpp` runs on the event loop and calls the reference RIL, which
sends commands through the AT channel and is called back on its reader thread.  The location
engine's calls of the modem, and the modem's events, go through the RPC library; `LocEng` and
`RpcClient` each take the other for an external party.

## Modules

| Module | Models |
|---|---|
| `SurfaceTexture` | the buffer queue: every call that changes it, one action per stretch of code between two waits |
| `BufferOwnership` | what the queue promises: each buffer has one owner at a time (pool, producer, FIFO, screen), frames are shown in the order they were queued |
| `Layer` | extends `SurfaceTexture` with the layer's frame counter, SurfaceFlinger's event and its main thread |
| `AtChannel` | the AT channel of the reference RIL with the main loop that reopens it |
| `RilEvent` | the event loop: watch table, timers, pending list, `select` |
| `RilDaemon` | extends `RilEvent` with the daemon: connections, requests, responses, wake lock, NITZ time |
| `RilClient` | the client of the daemon in the telephony process |
| `LocIoctl` | the ioctl calls of the GPS engine: one selected callback, waits with a limit |
| `LocEng` | extends `LocIoctl` with the deferred-action thread, the modem, the NI threads and the Java layer |
| `RpcClient` | the client side of the RPC library: callers, receive thread, callback threads |
| `SurfaceTexture_proofs`, `Layer_proofs`, `AtChannel_proofs`, `RilDaemon_proofs`, `RilClient_proofs`, `LocEng_proofs`, `RpcClient_proofs` | theorems about the module they extend |
| `MCSurfaceTexture`, `MCLayer`, `MCAtChannel`, `MCRilDaemon`, `MCRilClient`, `MCLocEng`, `MCRpcClient` | model values and symmetry for TLC |

### SurfaceTexture

A variable per field of the class, with the field's name.  Slots are
`0 .. NUM_BUFFER_SLOTS - 1`.  `mGraphicBuffer` and `mRequestBufferCalled` are sets of
slots, since the code only asks whether a slot has them.  `mDequeueCondition` is the
set of waiting threads; `Signal` releases one of them, chosen arbitrarily, as
`Condition::signal()` does.  `call[t]` says in which call thread `t` is while it does
not hold the lock; a thread in a call and not in `mDequeueCondition` has been
signalled and will go on when it gets the lock.  `held` is the producer's view: the
slots `SurfaceTextureClient` believes it has dequeued.  It differs from the DEQUEUED
slots exactly where the code's flags get lost.

`dequeueBuffer` is a loop.  Its iterations up to a wait or a return are one action:
`DequeueWaitsForDrain` (the number of buffers has to change and frames are pending),
`DequeueResizes` (every slot is freed and one is given out), `DequeueTakes`,
`DequeueFindsNone` (wait in synchronous mode, fail otherwise), `DequeueFails`, and
`DequeueSpins` for the turn in which `dequeueRetries` is spent and the loop never ends.
The Blade build defines `MISSING_GRALLOC_BUFFERS`, so the branches under it, which
invent a client count and raise the counts, are part of the actions
(`AdjustCounts`).  The replaced guard, the failed allocation (the slot stays DEQUEUED
and the flags are not returned) and the failing GL calls are alternatives of the
actions.

Not in the model because no property looks at them: sizes, formats, crops,
transforms, timestamps, the EGL images, and the frame number that picks the oldest of
several free slots (any free slot may be taken: the model allows more).

### Layer

`signalling` holds the threads between the atomic increment in `onFrameQueued` and the
`signalEvent` that follows it.  `mInvalidate` is the single pending INVALIDATE message.
The main thread is split where it touches shared state: `waitForEvent`, the decrement
(`LockPageFlipTakes`, which posts an event if more frames are pending), `updateTexImage`
under the queue's lock, and `getCurrentBuffer` under a second acquisition of it.

A producer may call `setBufferCount` at any time; the frames it drops (`Dropped`) stay announced.
Two variables of the model keep the history the properties need: `clearedFrames`, how many announcements
are left over from dropped frames (an update that finds the queue empty uses one up), and
`clearedFirst`, whether frames were dropped before the first one was latched.  In that one case the code
goes on to read an active buffer it does not have (see
[below](#where-the-code-departs-from-its-comments)); `ActiveBufferExists` says there is no other.

### BufferOwnership

Three variables: the owner of each slot, the FIFO, and no more.  The refinement maps
a slot's state to its owner; the abstract steps are the ones a reader of the
interface expects (take, give back, queue, replace the pending frame, show, take
everything back).

### AtChannel

The variables of `atchannel.c` and `reference-ril.c` keep their names.  `sp_response` is NULL or
says whether the final response has come and whether it was meant for this command
(`mine`, which the code cannot know: answers carry no name).  `command` is where the
request thread is: idle, waiting, between two attempts of a handshake or asleep after
one; in the last two it holds `s_commandmutex`.  `reader[r]` follows a reader thread from
`readline` through the closing of the channel to its end; the identities allow the old
reader to finish while the new one starts.  `mainLoop` is where `mainLoop()` is, `toModem`,
`input` and `hungUp` are the modem's side of the stream.  All commands of the program are
sent by the request thread (the reader is refused, and onATTimeout is reached by no
caller), so there is one command thread.

The wait loop is split at the condition variable: `Issue` writes and waits, `CommandWakes` is
one turn after a wake-up (spurious ones included), `HandshakeTimesOut` is the return of
ETIMEDOUT, which may also come when the answer was handled just as the time was up.
Closing is split where locks are released: the flag under `s_commandmutex`, the
descriptor, the flag again, `s_closed`, the radio state.  `at_open`, which takes no lock, is
one action.  The daemon stops in `command = "crashed"` where the code would read a response
through NULL; see `claim_at_open`.

`ReadLeftover` is what becomes of a partial line left in `s_ATBuffer` by the last channel.
The text of responses and the handling of unsolicited lines are left out: such lines are
of no consequence for the command, except that `processLine` needs the lock for them.  Also left out:
the second `setRadioState` of `initializeCallback`, which sets another of the available states under
the same test of `s_closed`, and the test for a pending command before the line of a handshake is
written, which the one command thread never fails.

### RilEvent and RilDaemon

`watch_table` maps an index to an event; `readFds` is the set of descriptors in the table, and
`nfds` always exceeds them, so neither has a variable.  `timer_list` is sorted by `timeout`, a
number of ticks from now; a timer expires when now is strictly later, at -1.  `rfds` and `tv` are
the local variables of `ril_event_loop`: the copy of the descriptors and the time `select` waits at
most.  `loop` is where the loop thread is; `CopyReadFds` and `SelectReturns` are separate steps,
because everything that other threads add in between is the hazard.

In `RilDaemon` a call into the library is a record (`call[t]`) with a program counter: the check of
`s_fdCommand`, the write, the close after a failed write, the storing of the NITZ time, the read of
`s_last_wake_timeout_info`, the write through it, the new timer, the byte for the wakeup pipe and the
assignment of the new pointer are steps of their own, since no lock holds them together.  Callbacks
on the loop thread take the same steps with `t = LoopThread`.  `fdConn` is the connection behind the
descriptor's number, which the next connection gets again; `close` by a writer makes it 0 under the
loop (`closedUnderLoop`).  `ProcessKilled` is SIGPIPE and the restart by init (the service is declared
in `system/core/rootdir/init.rc`): everything but the kernel's wake lock starts anew (`inherited`).

Simplifications: one request per connection; accepting a connection and adding its event is one step,
and an `accept` that fails is the refusal of a connection (both leave the listening event to be put back);
`select` interrupted by a signal and a failing allocation are left out; of timed callbacks there are
those of the wake lock (one tick) and those an implementation asks for without a delay; responses
that do not hold the wake lock are those outside `WakePartial`; malformed data comes only from the
implementation's threads; the debug port and the requests it issues are left out.

### RilClient

Variables have the names of the fields.  Request objects are numbers with `mSerial`, `mResult` and
`mp`; a caller's request is a number of its own, carried by the parcel, so that a wrong match of
objects or serials shows in `results`, the history of what each caller was told.  `++` and `--` of
`mRequestMessagesPending` are a read and a write (`acquireWakeLock`, `CountPending`,
`SenderReadsPending`, `SenderWritesPending`), since the sender takes no lock.  The receiver's end of a
connection is four steps (close, forget the socket, reset the serials, clear the list).
`mRequestMessagesWaiting` is changed under the lock of the list by everybody but the time-out, which
holds `mWakeLock` only (RIL.java:393) and takes the list's lock afterwards, to log it.  So the receiver's test,
read and write of the counter (2177-2178) are three steps (`processSolicited`, `ReceiverReadsWaiting`,
`ReceiverWritesWaiting`), in which it holds the list (`ListLocked`), and the time-out's reset
(`TimeoutResetsWaiting`) may come between any two; the time-out then waits for the list with `mWakeLock`
held (`"log"`), and resets the other counter (`SenderHandlesTimeout`).  The sender's own removal
(`RemoveRequest`) is one step, as the sender's thread is also the time-out's.  Plain fields are read and
written one at a time in the order of the program: the Java memory model would allow a thread to see
an older value, too.
`timedOut`, `countReset`, `lostUpdate` and `clashed` record what four properties exclude: a time-out that
released the lock, one that reset the counter of the waiting requests since the list was cleared, an
update of the other counter that was lost, two requests in use with one serial.

The parcel may be too large, or gone, when the sender takes it out of the request (`SenderMarshalls`).
Not modelled: marshalling and the contents of responses; that the caller writes its parameters into
the parcel between `obtain` and `send`; that connecting is retried (a retry changes nothing).

### LocIoctl and LocEng

`io[t]` is the ioctl call thread `t` makes: setup and `loc_ioctl`, then the wait, then the reset.
Setup and `loc_ioctl` are one step, as nothing but the set of calls the modem may answer changes in
between.  The modem's answer is an event like any other and is handled by the deferred-action thread,
as in the code.  The payload and the result of a call are left out: every caller only logs them.

`deferred` is where the deferred-action thread is, with its local copies; `signalled` says whether
`deferred_action_cond` was signalled since its wait began; spurious wake-ups of it, after which the thread
would look at the flags once more often, are left out.  `wakelock` is one lock, as the callbacks of
the Java layer are.  `ni`, `ui` and `java` are the NI thread, the thread that delivers the user's
answer and the thread of the Java layer.  A tick of the NI thread is a second; the time the user has
is `NO_RESPONSE_TIME`.  An NI request stands for its identity, its pass-back data and the random
`current_notif_id`.

### RpcClient

`cl[c]` is `struct CLIENT` with the part of its `xdr` that matters.  A client is named by its
descriptor, so a client created after the destruction of another may be it again.  Mutexes have no
variables: who holds one follows from where the threads are (`ClientLockFree` and its like).  `pc[t]`
and `on[t]` are the call or destruction thread `t` is in; the handlers that a callback thread runs are named
by their client and may call on it.  `cb` is where the callback thread is, `rx` the receive thread with its
copy `rfds`, the client it is `serving` and those of the list still to come, `scan`, in any order.  Steps end where a lock is taken or a condition is
waited on; the wait for a reply is `waiting` until the signal, `woken` until the mutex is taken again.

`CbUnserved` is a callback nobody is registered for, and also a reply that is taken for one after an
overwritten callback.  `unserved` and `cut` record what properties exclude: a callback without a server,
and a call that was cut short by a failed write or a spurious wake-up of the wait for the reply, which is
not in a loop.  Spurious wake-ups of the other conditions only repeat a test.

The environment: the thread that destroys a client is the only one with calls on it, handlers apart;
`svc_register` comes after `clnt_create`, as in the GPS glue; the modem answers every call it has got and
calls when it wants.  A callback thread whose client was freed takes no further step, and its descriptor is
not given out again.  The thread for real servers, which uses the same wake lock, is left out; so are
marshalling and the abort on a failed read.

## Runs

| Run | Question |
|---|---|
| `st_ownership` | two producer threads that may wait in different calls, three slots, all server and client counts, GL failures: ownership, accounting, queued slots have buffers, the depth of the asynchronous FIFO, a dequeue leaves the consumer its buffers, refinement of `BufferOwnership` |
| `layer_events` | the layer driven by events only, and a producer that also sets the number of buffers: every frame queued or dropped is announced once, every call of the producer returns |
| `layer_threads` | two binder threads against the main thread, with failing latches, an allocation that may fail and `setBufferCount`: no event is lost, no missing buffer is read but in the one case |
| `at_channel` | two generations of the channel, a modem that answers late, out of turn or never, and hangs up at any time: one reader at a time, nothing left pending, answers meet their commands, a closed channel is unavailable, the end of the stream releases the waiting command and leads to a new channel, a handshake returns |
| `ril_wake` | one thread of the implementation that reports two responses or asks for timed callbacks, one connection: no wakeup is lost, the wake lock is never held without somebody to release it, every timer fires, the lock is released |
| `ril_link` | two connections, each with a request, writes that fail, a stored NITZ time, SIGPIPE: the callbacks' assertions, the daemon listens or serves, it listens again, requests are answered |
| `ril_client` | three requests over two connections with a pool of one object: one answer for each, the right one, counters that match the list, a wake lock that is held, guarded by its time-out and freed |
| `gps_engine` | two events of the modem beside its callbacks, a call of the Java layer or an answer of the user, a modem that may never answer: no action slept on, wake lock, NI time-outs |
| `rpc_client` | two clients, one called back twice, three creations, a call and a call of a handler, one of which may be cut short: one consumer of the buffer, callbacks in order, the wake lock, calls return |
| `claim_abandon`, `claim_at_open`, `claim_input_buffer` | where the code departs from what it says (below) |

Bounds.  Three slots stand for 32: the code compares slot numbers only with
`mBufferCount` and the counts only with each other, with 2 and 3
(`MIN_UNDEQUEUED_BUFFERS` and one more) and with the number of slots; two and three are the minima of the
modes, and a producer can push the count past the last slot, where the model, unlike the code, finds
nothing.  Two threads suffice for two kinds of waiter.
`MaxHeld` bounds the buffers a producer asks for, `MaxLeaked` the allocations that
fail; both are constants of the module, and the theorems hold for all their values.
`MaxCleared` bounds the announcements left over from dropped frames, without which they would grow with
every `setBufferCount`; it is two, so that more than one is left when the next frame is queued.
`layer_threads` has one count to set and no API to connect with, to keep two threads, a failing
allocation and failing latches within reach; `layer_events` has all counts, and connections.
`MaxLeaked` is one in `layer_threads` and zero elsewhere; `QueuedHasBuffer` claims nothing for a queue in
which an allocation failed (see [below](#where-the-code-departs-from-its-comments)).

For the AT channel two reader identities are enough, as `ExclusiveReader` shows: at most
one thread is alive beside a reader that has only the radio state left to set, and
`at_open` waits for a free identity.  `HANDSHAKE_RETRY_COUNT` is two (eight in the code; a
first, and a last attempt).  `MaxLines` bounds the lines in the stream to one and
`MaxUnanswered` the commands the modem has still to answer to two (a modem with more
forgets the oldest); only the relation to the newest command matters, so a stale answer
and a right one are the cases there are.  With `MaxInits` the main loop waits until the
last `initializeCallback` was run before it asks for another.

For the daemon, three timers are what two reports and one connection allocate at most, and
`MAX_FD_EVENTS` is the number of events the module has; one tick tells a time-out that is due
from one that is not.  `ril_wake` keeps the link quiet and `ril_link` the wake lock, because their
product adds no interaction but the loop's, which both have.  Two connections are a connection and the
next one; the request of the first may be answered, cancelled or late.  For the client, three requests
over two connections give a serial number that is used again, a pooled object that is used again and
a third request to confuse with either; one caller suffices as callers exclude each other by the lock
(the safety properties were also checked with two).  For the GPS engine, two events are an event that
replaces another, or an NI request during another; one call beside them is the answer that is late.

For the RPC library, two callbacks are one in the buffer and the next; two clients are one that is stuck and
one that waits for it, or the one that is destroyed last; the third creation gives a descriptor a second
time.  One call of the program and one of a handler exclude each other or wait for each other; the reply to
the one and a callback compete for the buffer.

`at_channel` does not check deadlock, because a crashed daemon stops; the other runs of the radio, of the GPS
engine and of the RPC library do not, because their bounded inputs end (and the event loop may return).
`st_ownership` does not check deadlock: a spinning dequeue (`DequeueSpins`) never releases
`mMutex`, and then the system has stopped.

A mutant for each property of each passing run is kept beside the definition it
changes (`Mutant of ...`): a plausible mistake in that piece of code, which breaks the
property.

## Fairness

Liveness is checked under weak fairness only.  In `Layer`: a signalled thread gets the
mutex and goes on (`ResumeStep`), a listener call is finished, and the main thread runs
while it has something to do (`PageFlip`).  No fairness is put on a thread's decision to
call something, on events of other layers, or on the removal of the layer, so the
progress of `LayerCallsReturn` comes from the layer's own announcements.  In
`SurfaceTexture`, `FairSpec` puts weak fairness on `updateTexImage` instead of the layer's
loop.  Choosing which waiter a signal wakes is left to chance in both.

In `AtChannel`: the request thread, the main loop and each reader run while they can, and
the time of a handshake that keeps waiting is up in the end.  Nothing is assumed of the
modem: it may stay silent and need not hang up.  A command without a time-out then waits
for ever, which is why `ReleasedByClose` starts from the end of the stream.

In `RilDaemon`: `RIL_register` is called, the loop thread runs, a thread of the implementation finishes
its calls and answers the requests it was given, and time goes by.  The telephony process is free to
do nothing.  In `RilClient`: the sender, the receiver and a caller in `send` run; the time-out is
delivered.  `EveryRequestAnswered` then needs the daemon to answer or hang up, which is in the
fairness of the receiver's step: it is enabled as long as an answer is outstanding.  The properties are
stated as "again and again", as requests are bounded.  In `LocEng`: the four threads run and waits time out.
Nothing is assumed of the modem.

In `RpcClient`: the threads of the library and those in a call or a destruction run, and the modem answers
the calls it got.  Nobody need call, create or destroy anything.  `OperationsReturn` excludes the states of
`Stuck`, in which the code really waits for ever: each is a way the library hangs, and TLC shows there
is no other.

With two producer threads that wait in different calls `LayerCallsReturn` does not hold:
the one wake-up can go to a thread that has to wait again.  That is the code's
behaviour; the run with one thread states what holds.

## Proofs

Seven modules hold theorems; each is about the module it extends, from the `ASSUME`s of that
module and of those it extends, for every value of the constants: any number of threads,
slots, connections, events and retries, and every value of the bounds.  Each
begins with the type invariant.  `TypeOK` (of the queue, and of the daemon), `LayerTypeOK`, `AtTypeOK`,
`RcTypeOK`, `LeTypeOK` and `RpcTypeOK` are proved and therefore not in a run; where the type invariant is not inductive,
`Typed` in the proof module is what is.

`SurfaceTexture_proofs`

* `TypeCorrect`: `TypeOK` is inductive as it stands; its last-but-one conjunct (only threads in a
  call that waits are in the condition) is what the lemmas about `Signal` and `Wait` keep.
* `AsyncDepth`: `Spec => []AsyncOneDeep`.  Inductive together with `TypeOK`: an append happens in
  synchronous mode or into an empty FIFO, and the only step into asynchronous mode has looked at the
  FIFO in the same action (`~MustDrain`).
* `ExclusiveOwnership`: `Spec => []ExclusiveAccess` and `NoSlotLost`: `Spec => []QueuedAccounted`.
  Neither is inductive alone.  The strengthening (`OwnInv`) says where every QUEUED slot is (once in
  the FIFO or bound to the texture, never both) and that no slot the producer holds is QUEUED.
  The producer may hold slots that are FREE (after a lost flag) or beyond the count;
  therefore the invariant says "not QUEUED" and not "DEQUEUED".
* `QueuedBuffers`: `Spec => []QueuedHasBuffer`.  `BufInv`: an abandoned queue is empty, and otherwise what the
  producer holds and what is pending have buffers, as long as no allocation fails.  A slot of the
  producer loses its buffer only with a release it is told of in the same call.
* `MinUndequeuedKept`: `Spec => LeavesMinUndequeued`.  `CountInv`: a DEQUEUED slot lies below the count, so
  the dequeue loop counts every buffer of the producer before it takes one more.
* `Refinement`: `Spec => ImplementsOwnership`.  `SlotOwner` changes in a step of the code as in one step of the
  protocol, or not at all; there is a lemma for each.  `OwnInv` is needed for the steps that give slots back.

`Layer_proofs`

* `WakesForFrames`: `LayerSpec => []EventNotLost`.  All it needs of the queue is that a step of the
  producer leaves the thread in a call or announces nothing (`ProducerMovesOn`), so the argument is
  about the counter, the pending event and the threads between the two.
* `LayerRefinement`: `LayerSpec => ImplementsOwnership`.  `QueueStep`: every step of the layer is a step of the
  queue or leaves it alone, so the invariants of the queue (`QueueInv`) and its refinement carry over.
* `Announced`: `LayerSpec => []FramesAnnounced`.  `AnnounceInv` counts a frame with the thread about to announce
  it, in `mQueuedFrames`, or with the main thread that has taken the announcement: together never more than
  the FIFO holds and `setBufferCount` has dropped (`clearedFrames`), and exactly as many when no update and no
  allocation fails.  `Queues` says what a call of the producer does to the FIFO: it appends a frame it will
  announce, drops all (`Dropped`), or leaves the length.
* `ActiveBuffer`: `LayerSpec => []ActiveBufferExists`.  By `AnnounceInv` an update that finds the FIFO empty has
  a left-over announcement (`ClearedLeft`, which the types rest on as well), and while there is one the
  texture has a buffer or frames were dropped before it got the first (`ActiveInv`).

`AtChannel_proofs`

* `ReadsAlone`: `Spec => []ExclusiveReader`.  `OneReader`: a thread between `at_open` and the setting of
  `s_closed` keeps the main loop from opening again, and there is only one.
* `StaysUnavailable`: `Spec => []ClosedIsUnavailable`, inductive as it stands.
* `LeavesNothing`: `Spec => []NothingLeftPending`.  `OnlyWhileWaiting`: there is a response only while a
  command waits, and a message only with a response.
* `AnswersTheCommand`: `Spec => []AnswersMatch`.  `Expected`: on a channel that is open and in sync there
  is at most one answer, in the modem, in the stream or with the reader, it is for the command that
  waits, and there is none before a command is sent or after it was answered.  `LineHeld` says
  that the answer the reader has taken has a reader to process it.

`RilDaemon_proofs`

* `RilTypeCorrect`: `Spec => []TypeOK`.  The lemmas on the operators of `RilEvent` (`TimerAdded`, `AddedTyped`,
  `ReadiesOnce`, `Processed`) say what insertion, a free slot of the table and a round of `select` give.
* `Assertions`: `Spec => []AssertionsHold` and `ListensServes`: `Spec => []ListensOrServes`.  `LinkInv` says where
  the two events of the link are: the listening one is in the table or pending until there is a connection,
  the other in the table exactly as long as there is one.  `Once`: an event is in the table at
  most once, so the table has room for the event that is added (`AddedOnce`).
* `WakeupsKept`: `Spec => []NoLostWakeup`.  `TimersInv`: the timer list is sorted and has each timer once, so
  the head that `calcNextTimeout` looks at is the first one due.  `LoopCalls`: the loop thread makes
  calls itself only from callbacks, so it copies the table and computes its time-out again before it sleeps.
* `WakeLockKept`: `Spec => []WakeLockCovered`, from `LinkInv`, `LoopCalls` and `CallsMatch` (what a call is about,
  where its next step depends on it).  A timer that would release the lock is in the timer list, pending or being
  fired (`AllocatedIs`), and no step of the loop drops it (`LockCarried`).
* `EndsWhenClosed`: `Spec => []EndsOnlyWhenClosed`.  `ClosedUnder`: a descriptor that is closed and still
  in the watch table, or in the copy `select` is given, was closed by a failed write.  The rest of the
  daemon keeps the table and the descriptor in step.  No run checks this property.

`RilClient_proofs`

* `WaitingMatches`: `Spec => []WaitingMatchesList`.  `CountingDown` says what the receiver knows between its look
  at the counter and its write: at the look the counter was positive and has only been reset since, and
  what it has read is at most the size of the list with the request it took off, and the counter itself
  unless a time-out has come.  So it writes -1 at worst, and no value is below: the next look finds nothing to
  count down.  The types say therefore that this counter is an integer, and `mRequestMessagesPending` a natural
  number: its unlocked decrement writes what was read, which was positive.
* `AlwaysGuarded`: `Spec => []TimeoutGuards`, inductive with the types.  `MonitorHeld`, part of
  `Typed`, says that a caller in the middle of `acquireWakeLock` has the monitor of the lock.
* `HeldForRequests`: `Spec => []HeldWhileUnderWay`.  `Counted`: until a time-out resets the counters or an
  update is lost, `mRequestMessagesPending` is the number of requests in the queue, about to be posted
  or taken and not yet subtracted, and the lock is held while either counter is not zero.  `LogHeld`:
  a time-out that waits for the list has the monitor of `mWakeLock` and has set `timedOut`.
* `ToldOnce`: `Spec => []AnsweredOnce`.  `Matched`, which holds until two requests in use share a serial number,
  follows the pooled objects: each is in one place (with a caller, queued, with the sender that adds it, on the
  list, with the receiver that answers it, or in the pool), those that are not in the pool are for
  different requests that have been told nothing, and have different serial numbers.  `Awaited`: what the
  daemon has to answer is on the list, and the sender is done with it, although the sender keeps a reference
  to an object the receiver may have failed and given back to the pool.
* `FirstConnectionTold`: on the first connection, until it is reset, `AnsweredOnce` holds without its condition.
  Numbers are then given out in order and none twice (`FirstSerials`).  No run checks this property.

`LocEng_proofs`

* `ActionsSeen`: `Spec => []ActionNotLost` and `StaysAwake`: `Spec => []AwakeWhilePending`, from their
  conjunction: whoever sets a flag signals and takes the lock in one step under the mutex.
* `AlwaysTimed`: `Spec => []NotificationTimed` and `RightAnswer`: `Spec => []TimeoutAnswersItsRequest`.
  `Answering`: the NI thread answers with `loc_ni_lock` held, so nobody ends the notification or replaces
  the request before the answer is sent.  No run checks `TimeoutAnswersItsRequest`.

`RpcClient_proofs`

* `WakeCorrect`: `Spec => []WakeReleased`.  When a client's place is taken by a new one, nothing it left
  may count as a callback under way: a client that is not alive has none waiting (`DeadQuiet`).  That
  rests on the list (`Listing`): the receive thread, holding `rx_mutex`, serves only clients that are in
  the list, those are alive, and a client is closed by the one thread that destroys it and that has
  taken it from the list before.
* `BufferCorrect`: `Spec => []BufferAccounted`.  `OneCall` says what `client->lock` does: one thread at most
  is in a call on a client, and then the client is alive.  `Replies` follows the reply to that call: it is
  asked of the modem, in the stream or being passed on, exactly one of them, and there is none when
  nobody waits, so what the receive thread signals is always the thread the buffer is for.  `Buffer` says that
  at most one of receive thread, flag `got_cb`, callback thread and decoding caller has the buffer, and
  that it is in use as long as one does.  A lemma per action (`...Accounts`) shows the two kept for the client the
  action is about; `OneClient` and the frame lemmas dispose of the others.
* `DispatchedInOrder`: `Spec => CallbacksInOrder`, from that and `Order`: the callbacks still to be
  read are the numbers after the last one read or dispatched, each once, in order.

An invariance lemma has one step per action; actions that leave alone what the invariant speaks of
are dismissed together.

So every invariant and every action property of the passing runs, and the refinement, has a theorem.  Only
model-checked is liveness, which is out of the prover's reach with the fairness it rests on: the calls of
the producer that return, the AT handshake, the release and the reopening of the channel, the timers that fire,
the locks that are released, the requests that are answered, the threads that come to rest.

## Where the code departs from its comments

Three runs end in a violation on purpose: each checks one statement the source makes.

* `claim_abandon`: "we need to reevaluate our whole state (eg: we could be abandoned or
  disconnected)" (SurfaceTexture.cpp:330).  `abandon` wakes one waiter; a second one
  waits for ever.
* `claim_at_open`: the state of the pending command is "protected by s_commandmutex"
  (atchannel.c:76-79).  `at_open` resets it without the lock; a command of the closed channel that
  was signalled and has not yet run finds its response gone.
* `claim_input_buffer`: "We need to make sure that the XDR's in_buf is not in use before we read into it"
  (clnt.c:206).  A call whose write failed marks the buffer as free while a callback in it is still to be
  copied, and the next message is read over it.

The liveness of `at_channel` is therefore stated "unless the daemon crashes".

The models show more of the kind, which the text of the hazards records: a resize frees a
buffer its client owns, an early return leaves an older server count in force,
`setBufferCount` frees the slots before it clears the FIFO, a client count of two survives the switch to
asynchronous mode; the `MISSING_GRALLOC_BUFFERS` branch of `dequeueBuffer` raises the count past the slots there
are, which `setBufferCount` refuses ("bufferCount larger than slots available", SurfaceTexture.cpp:206); that the
count stays within the slots is therefore not claimed.  A resize frees all slots first (SurfaceTexture.cpp:335-342)
and an allocation that fails then returns without RELEASE_ALL_BUFFERS (485): the producer may queue a slot
without a buffer, and `updateTexImage` fails on it for ever (794); a `setBufferCount` that clears queued
frames leaves them announced, and `lockPageFlip` reads an active buffer there may never have been (Layer.cpp:439).  A radio request that is
unlinked just before its connection ends is answered on the next one, against the comment at ril.cpp:2155; a NITZ time stored
just after the client connected is not delivered (ril.cpp:2850); the old time-out may release the wake lock
between the grab and the cancellation (ril.cpp:2790); the counter of waiting requests, which "should match
mRequestList.size()" but for requests without a reply at a time-out (RIL.java:226-228), may become -1 or keep its value
when the time-out comes while a response is handled; serial numbers that start again let a response meet the
wrong request (RIL.java:588).

## What is not modelled

Drawing, geometry and the hardware composer; window management and audio policy (large
sequential policies under one lock); device HALs (cameras, sensors, lights), whose
behaviour is the driver's; generated RPC marshalling, generated interpreter code and
vendored projects; user interface.  The volume daemon, gralloc, the server side of the RPC library, the USB
services and the HTTP sources are candidates for later modules.

## Plan

1. `SurfaceTexture`, `BufferOwnership`, `Layer` and the first proofs (done).
2. `AtChannel` with the main loop (done).
3. `RilEvent` and `RilDaemon` (done).
4. `RilClient` (done).
5. `LocIoctl` and `LocEng`, and `RpcClient` (done).
6. The theorems of [Proofs](#proofs): types, and the safety invariants that are the reason for a
   component's locks (done).
7. The theorems for every other safety property of the runs, and the refinement, also for the layer (done).
8. More theorems from the invariants there are: what refines what in the RIL (a client that is told once, and a
   daemon that serves one connection at a time), and the depth of the event loop's lists.
9. The volume daemon (loop devices, ASEC containers, UMS sharing), the RPC library's server thread, and
   gralloc's page flip.
