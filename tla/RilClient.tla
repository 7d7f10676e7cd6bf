------------------------------- MODULE RilClient -------------------------------
(***************************************************************************)
(* The telephony process's end of the radio socket: RIL.java.  Threads call *)
(* send, the sender thread writes the requests it finds in its queue and    *)
(* keeps them in mRequestsList, and the receiver thread connects, matches   *)
(* the responses with the requests by their serial numbers and fails what   *)
(* is left when the stream ends.  A partial wake lock is held while two     *)
(* counters say that requests are under way; a time-out releases it.        *)
(*                                                                          *)
(* Request objects come from a pool and go back to it; mSerial, mResult and *)
(* mp are their fields.  A caller's request is a number, 0 is null.  The    *)
(* daemon answers what it has received, in any order, and may hang up.      *)
(***************************************************************************)
EXTENDS Integers, Sequences, FiniteSets, SequencesExt

CONSTANTS
  Threads,         \* threads that call send
  NoThread,
  MAX_POOL_SIZE,
  MaxRequests,     \* bound: calls of send
  MaxConns         \* bound: connections

ASSUME RilClientAssumption ==
  /\ IsFiniteSet(Threads) /\ NoThread \notin Threads /\ MAX_POOL_SIZE \in Nat
  /\ MaxRequests \in Nat /\ MaxConns \in Nat

VARIABLES
  mSerial, mResult, mp,      \* [object -> serial, request to answer, request in the parcel]
  sNextSerial, sPool,
  created,                   \* objects made so far
  mSocket,                   \* the connection, or 0
  conns,                     \* connections made so far
  socketOpen,                \* has the receiver not closed the newest connection?
  peerOpen,                  \* has the daemon not?
  received,                  \* what the daemon has still to answer on it
  mRequestsList,
  mRequestMessagesPending, mRequestMessagesWaiting,
  mWakeLock,                 \* is it held?
  lockedBy,                  \* the thread in a block synchronized on mWakeLock
  timeoutPosted,             \* is an EVENT_WAKE_LOCK_TIMEOUT in the sender's queue?
  queue,                     \* the requests of the EVENT_SENDs in it
  caller, sender, receiver,  \* what the threads are doing
  issued,                    \* calls of send so far
  results,                   \* [request -> what its caller was told: 0 for an error,
                             \*  the request whose response it was given]
  timedOut,                  \* has a time-out released the lock and reset the counters?
  countReset,                \* has one reset mRequestMessagesWaiting since mRequestsList
                             \*  was cleared?
  lostUpdate,                \* has an update of mRequestMessagesPending been lost?
  clashed                    \* has a request got the serial of another one in use?

requestVars == <<mSerial, mResult, mp, sPool, results>>
issueVars == <<sNextSerial, created, issued>>
socketVars == <<mSocket, conns, socketOpen, peerOpen>>
listVars == <<mRequestsList, mRequestMessagesWaiting>>
wakeVars == <<mWakeLock, lockedBy, timeoutPosted>>
historyVars == <<timedOut, countReset, lostUpdate, clashed>>
vars == <<requestVars, issueVars, socketVars, received, listVars, mRequestMessagesPending,
          wakeVars, queue, caller, sender, receiver, historyVars>>

Requests == 1 .. MaxRequests
Objects == 1 .. MaxRequests
CallerIdle == [pc |-> "idle", rr |-> 0, read |-> 0]
SenderIdle == [pc |-> "idle", rr |-> 0, s |-> 0, read |-> 0, data |-> 0]
ReceiverIdle(pc) == [pc |-> pc, rr |-> 0, of |-> 0, read |-> 0]

Init ==
  /\ mSerial = [o \in Objects |-> 0] /\ mResult = [o \in Objects |-> 0]
  /\ mp = [o \in Objects |-> 0]
  /\ sNextSerial = 0 /\ sPool = <<>> /\ created = 0
  /\ mSocket = 0 /\ conns = 0 /\ socketOpen = FALSE /\ peerOpen = FALSE /\ received = {}
  /\ mRequestsList = <<>> /\ mRequestMessagesPending = 0 /\ mRequestMessagesWaiting = 0
  /\ mWakeLock = FALSE /\ lockedBy = NoThread /\ timeoutPosted = FALSE /\ queue = <<>>
  /\ caller = [t \in Threads |-> CallerIdle] /\ sender = SenderIdle
  /\ receiver = ReceiverIdle("connect")
  /\ issued = 0 /\ results = [r \in Requests |-> <<>>]
  /\ timedOut = FALSE /\ countReset = FALSE /\ lostUpdate = FALSE /\ clashed = FALSE

-----------------------------------------------------------------------------
(* Requests. *)

\* The objects somebody still works with.
InUse == (ToSet(queue) \cup ToSet(mRequestsList) \cup {sender.rr, receiver.rr}
          \cup {caller[t].rr : t \in Threads}) \ {0}

\* Objects go to the pool while there is room in it, where they forget mResult.
Release(os) ==
  LET room == MAX_POOL_SIZE - Len(sPool)
      pooled == SubSeq(os, 1, IF Len(os) < room THEN Len(os) ELSE room)
  IN /\ sPool' = Reverse(pooled) \o sPool
     /\ mResult' = [o \in Objects |-> IF o \in ToSet(pooled) THEN 0 ELSE mResult[o]]

\* The callers of these requests get a result.
Report(os, what) ==
  results' = [r \in Requests |-> IF \E o \in os : mResult[o] = r
                                 THEN Append(results[r], what) ELSE results[r]]

Recycled(os) == [o \in Objects |-> IF o \in os THEN 0 ELSE mp[o]]

\* onError and release.
Fail(os) ==
  /\ Report(ToSet(os), 0)
  /\ mp' = Recycled(ToSet(os))
  /\ Release(os)
  /\ UNCHANGED mSerial

\* The place of the first request with the serial number, or 0.
Matching(serial) ==
  LET at == {i \in DOMAIN mRequestsList : mSerial[mRequestsList[i]] = serial}
  IN IF at = {} THEN 0 ELSE CHOOSE i \in at : \A j \in at : i <= j

\* findAndRemoveRequestFromList on the sender's thread, which is also the time-out's;
\* the receiver's is in steps, between which a time-out may reset the count.
RemoveRequest(i) ==
  /\ mRequestsList' = RemoveAt(mRequestsList, i)
  /\ mRequestMessagesWaiting' = IF mRequestMessagesWaiting > 0 THEN mRequestMessagesWaiting - 1
                                ELSE mRequestMessagesWaiting

\* The receiver is in its block synchronized on mRequestsList.
ListLocked == receiver.pc \in {"decrement", "write waiting"}

\* Nobody is in a block synchronized on mWakeLock: no caller, and not the time-out,
\* which waits for mRequestsList there.
LockFree == lockedBy = NoThread /\ sender.pc # "log"

\* Mutant of Done: what is still to be sent does not count.
DoneWaiting == mWakeLock /\ mRequestMessagesWaiting = 0

Done == mWakeLock /\ mRequestMessagesPending = 0 /\ mRequestMessagesWaiting = 0

\* Mutant of releaseWakeLockIfDone: the time-out is cancelled anyway.
CancelThenRelease ==
  /\ LockFree
  /\ timeoutPosted' = FALSE
  /\ mWakeLock' = IF Done THEN FALSE ELSE mWakeLock
  /\ UNCHANGED lockedBy

releaseWakeLockIfDone ==
  /\ LockFree
  /\ mWakeLock' = (mWakeLock /\ ~Done)
  /\ timeoutPosted' = (timeoutPosted /\ ~Done)
  /\ UNCHANGED lockedBy

-----------------------------------------------------------------------------
(* The threads that make requests. *)

\* RILRequest.obtain.
obtain(t) ==
  /\ caller[t].pc = "idle" /\ issued < MaxRequests
  /\ issued' = issued + 1
  /\ LET o == IF sPool = <<>> THEN created + 1 ELSE Head(sPool) IN
       /\ created' = IF sPool = <<>> THEN created + 1 ELSE created
       /\ sPool' = IF sPool = <<>> THEN sPool ELSE Tail(sPool)
       /\ mSerial' = [mSerial EXCEPT ![o] = sNextSerial]
       /\ mResult' = [mResult EXCEPT ![o] = issued + 1]
       /\ mp' = [mp EXCEPT ![o] = issued + 1]
       /\ caller' = [caller EXCEPT ![t] = [CallerIdle EXCEPT !.pc = "send", !.rr = o]]
       /\ clashed' = (clashed \/ \E p \in InUse \ {o} : mSerial[p] = sNextSerial)
  /\ sNextSerial' = sNextSerial + 1
  /\ UNCHANGED <<results, socketVars, received, listVars, mRequestMessagesPending,
                 wakeVars, queue, sender, receiver, timedOut, countReset, lostUpdate>>

\* send without a connection fails at once.
SendFails(t) ==
  /\ caller[t].pc = "send" /\ mSocket = 0
  /\ Fail(<<caller[t].rr>>)
  /\ caller' = [caller EXCEPT ![t] = CallerIdle]
  /\ UNCHANGED <<issueVars, socketVars, received, listVars, mRequestMessagesPending,
                 wakeVars, queue, sender, receiver, historyVars>>

SendGoesOn(t) ==
  /\ caller[t].pc = "send" /\ mSocket # 0
  /\ caller' = [caller EXCEPT ![t].pc = "acquire"]
  /\ UNCHANGED <<requestVars, issueVars, socketVars, received, listVars,
                 mRequestMessagesPending, wakeVars, queue, sender, receiver,
                 historyVars>>

\* acquireWakeLock, up to the moment mRequestMessagesPending is read ...
acquireWakeLock(t) ==
  /\ caller[t].pc = "acquire" /\ LockFree
  /\ lockedBy' = t /\ mWakeLock' = TRUE
  /\ caller' = [caller EXCEPT ![t].pc = "count", ![t].read = mRequestMessagesPending]
  /\ UNCHANGED <<requestVars, issueVars, socketVars, received, listVars,
                 mRequestMessagesPending, timeoutPosted, queue, sender, receiver,
                 historyVars>>

\* ... and from the moment it is written; the time-out starts again.
CountPending(t) ==
  /\ caller[t].pc = "count"
  /\ mRequestMessagesPending' = caller[t].read + 1
  /\ lostUpdate' = (lostUpdate \/ mRequestMessagesPending # caller[t].read)
  /\ timeoutPosted' = TRUE /\ lockedBy' = NoThread
  /\ caller' = [caller EXCEPT ![t].pc = "post", ![t].read = 0]
  /\ UNCHANGED <<requestVars, issueVars, socketVars, received, listVars, mWakeLock,
                 queue, sender, receiver, timedOut, countReset, clashed>>

Post(t) ==
  /\ caller[t].pc = "post"
  /\ queue' = Append(queue, caller[t].rr)
  /\ caller' = [caller EXCEPT ![t] = CallerIdle]
  /\ UNCHANGED <<requestVars, issueVars, socketVars, received, listVars,
                 mRequestMessagesPending, wakeVars, sender, receiver, historyVars>>

send(t) == SendFails(t) \/ SendGoesOn(t) \/ acquireWakeLock(t) \/ CountPending(t) \/ Post(t)

-----------------------------------------------------------------------------
(* RILSender.handleMessage. *)

\* EVENT_SEND, without a connection ...
SenderFindsNoSocket ==
  /\ sender.pc = "idle" /\ queue # <<>> /\ mSocket = 0
  /\ queue' = Tail(queue)
  /\ Fail(<<Head(queue)>>)
  /\ sender' = [SenderIdle EXCEPT !.pc = "subtract"]
  /\ UNCHANGED <<issueVars, socketVars, received, listVars, mRequestMessagesPending,
                 wakeVars, caller, receiver, historyVars>>

\* ... and with one, which is used from here on.
SenderTakes ==
  /\ sender.pc = "idle" /\ queue # <<>> /\ mSocket # 0
  /\ queue' = Tail(queue)
  /\ sender' = [SenderIdle EXCEPT !.pc = "add", !.rr = Head(queue), !.s = mSocket]
  /\ UNCHANGED <<requestVars, issueVars, socketVars, received, listVars,
                 mRequestMessagesPending, wakeVars, caller, receiver, historyVars>>

SenderAdds ==
  /\ sender.pc = "add" /\ ~ListLocked
  /\ mRequestsList' = Append(mRequestsList, sender.rr)
  /\ mRequestMessagesWaiting' = mRequestMessagesWaiting + 1
  /\ sender' = [sender EXCEPT !.pc = "subtract"]
  /\ UNCHANGED <<requestVars, issueVars, socketVars, received, mRequestMessagesPending,
                 wakeVars, queue, caller, receiver, historyVars>>

AfterSubtract == IF sender.rr = 0 THEN "done" ELSE "marshall"

\* mRequestMessagesPending is read ...
SenderReadsPending ==
  /\ sender.pc = "subtract"
  /\ sender' = IF mRequestMessagesPending > 0
               THEN [sender EXCEPT !.pc = "write pending", !.read = mRequestMessagesPending]
               ELSE [sender EXCEPT !.pc = AfterSubtract]
  /\ UNCHANGED <<requestVars, issueVars, socketVars, received, listVars,
                 mRequestMessagesPending, wakeVars, queue, caller, receiver,
                 historyVars>>

\* ... and written, without a lock.
SenderWritesPending ==
  /\ sender.pc = "write pending"
  /\ mRequestMessagesPending' = sender.read - 1
  /\ lostUpdate' = (lostUpdate \/ mRequestMessagesPending # sender.read)
  /\ sender' = [sender EXCEPT !.pc = AfterSubtract, !.read = 0]
  /\ UNCHANGED <<requestVars, issueVars, socketVars, received, listVars, wakeVars,
                 queue, caller, receiver, timedOut, countReset, clashed>>

\* The parcel is taken out of the request, which may have none any more; it may be
\* larger than RIL_MAX_COMMAND_BYTES.
SenderMarshalls ==
  /\ sender.pc = "marshall"
  /\ mp' = Recycled({sender.rr})
  /\ \/ sender' = [SenderIdle EXCEPT !.pc = "error", !.rr = sender.rr]
     \/ /\ mp[sender.rr] # 0
        /\ sender' = [sender EXCEPT !.pc = "write", !.data = mp[sender.rr]]
  /\ UNCHANGED <<mSerial, mResult, sPool, results, issueVars, socketVars, received,
                 listVars, mRequestMessagesPending, wakeVars, queue, caller, receiver,
                 historyVars>>

\* The serial number is part of the parcel.
SenderWrites ==
  /\ sender.pc = "write"
  /\ IF sender.s = conns /\ socketOpen /\ peerOpen
     THEN /\ received' = received \cup {[serial |-> mSerial[sender.rr], of |-> sender.data]}
          /\ sender' = [SenderIdle EXCEPT !.pc = "done"]
     ELSE /\ sender' = [SenderIdle EXCEPT !.pc = "error", !.rr = sender.rr]
          /\ UNCHANGED received
  /\ UNCHANGED <<requestVars, issueVars, socketVars, listVars, mRequestMessagesPending,
                 wakeVars, queue, caller, receiver, historyVars>>

\* Mutants of SenderFails: whether the request is still in the list is not looked at;
\* the request is only taken off the list.
SenderFailsAnyway ==
  /\ sender.pc = "error" /\ ~ListLocked
  /\ LET i == Matching(mSerial[sender.rr]) IN
       IF i = 0 THEN UNCHANGED listVars ELSE RemoveRequest(i)
  /\ Fail(<<sender.rr>>)
  /\ sender' = [SenderIdle EXCEPT !.pc = "done"]
  /\ UNCHANGED <<issueVars, socketVars, received, mRequestMessagesPending, wakeVars,
                 queue, caller, receiver, historyVars>>
SenderFailsSilently ==
  /\ sender.pc = "error" /\ ~ListLocked
  /\ LET i == Matching(mSerial[sender.rr]) IN
       IF i = 0 THEN UNCHANGED listVars ELSE RemoveRequest(i)
  /\ sender' = [SenderIdle EXCEPT !.pc = "done"]
  /\ UNCHANGED <<requestVars, issueVars, socketVars, received, mRequestMessagesPending,
                 wakeVars, queue, caller, receiver, historyVars>>

\* An exception: the request fails unless the receiver has cleared the list.
SenderFails ==
  /\ sender.pc = "error" /\ ~ListLocked
  /\ LET i == Matching(mSerial[sender.rr]) IN
       IF i = 0
       THEN UNCHANGED <<listVars, requestVars>>
       ELSE RemoveRequest(i) /\ Fail(<<sender.rr>>)
  /\ sender' = [SenderIdle EXCEPT !.pc = "done"]
  /\ UNCHANGED <<issueVars, socketVars, received, mRequestMessagesPending, wakeVars,
                 queue, caller, receiver, historyVars>>

SenderDone ==
  /\ sender.pc = "done"
  /\ releaseWakeLockIfDone
  /\ sender' = SenderIdle
  /\ UNCHANGED <<requestVars, issueVars, socketVars, received, listVars,
                 mRequestMessagesPending, queue, caller, receiver, historyVars>>

\* EVENT_WAKE_LOCK_TIMEOUT comes out of the queue ...
SenderTakesTimeout ==
  /\ sender.pc = "idle" /\ timeoutPosted
  /\ timeoutPosted' = FALSE
  /\ sender' = [SenderIdle EXCEPT !.pc = "timeout"]
  /\ UNCHANGED <<requestVars, issueVars, socketVars, received, listVars,
                 mRequestMessagesPending, mWakeLock, lockedBy, queue, caller, receiver,
                 historyVars>>

\* Mutant of SenderHandlesTimeout: the lock is only released when nothing is under way.
TimeoutReleasesIfDone ==
  /\ sender.pc = "timeout"
  /\ releaseWakeLockIfDone
  /\ sender' = SenderIdle
  /\ UNCHANGED <<requestVars, issueVars, socketVars, received, listVars,
                 mRequestMessagesPending, queue, caller, receiver, historyVars>>

\* ... the count of the requests that wait is reset, whatever the receiver does to it,
\* and the list is waited for, to log it ...
TimeoutResetsWaiting ==
  /\ sender.pc = "timeout" /\ lockedBy = NoThread
  /\ mWakeLock /\ mRequestMessagesWaiting # 0
  /\ mRequestMessagesWaiting' = 0
  /\ sender' = [SenderIdle EXCEPT !.pc = "log"]
  /\ timedOut' = TRUE /\ countReset' = TRUE
  /\ UNCHANGED <<requestVars, issueVars, socketVars, received, mRequestsList,
                 mRequestMessagesPending, wakeVars, queue, caller, receiver, lostUpdate,
                 clashed>>

\* ... and what is still to be sent is given up on, too.
SenderHandlesTimeout ==
  /\ \/ /\ sender.pc = "timeout" /\ lockedBy = NoThread
        /\ mWakeLock => mRequestMessagesWaiting = 0
     \/ sender.pc = "log" /\ ~ListLocked
  /\ sender' = SenderIdle
  /\ mWakeLock' = FALSE
  /\ timedOut' = (timedOut \/ mWakeLock)
  /\ mRequestMessagesPending' = IF mWakeLock THEN 0 ELSE mRequestMessagesPending
  /\ UNCHANGED <<requestVars, issueVars, socketVars, received, listVars, lockedBy,
                 timeoutPosted, queue, caller, receiver, countReset, lostUpdate, clashed>>

HandleSend ==
  \/ SenderFindsNoSocket \/ SenderTakes \/ SenderAdds \/ SenderReadsPending
  \/ SenderWritesPending \/ SenderMarshalls \/ SenderWrites \/ SenderFails \/ SenderDone
  \/ TimeoutResetsWaiting \/ SenderHandlesTimeout

-----------------------------------------------------------------------------
(* RILReceiver.run. *)

Connect ==
  /\ receiver.pc = "connect" /\ conns < MaxConns
  /\ conns' = conns + 1 /\ mSocket' = conns + 1 /\ socketOpen' = TRUE /\ peerOpen' = TRUE
  /\ receiver' = ReceiverIdle("read")
  /\ UNCHANGED <<requestVars, issueVars, received, listVars, mRequestMessagesPending,
                 wakeVars, queue, caller, sender, historyVars>>

processUnsolicited ==
  /\ receiver.pc = "read"
  /\ releaseWakeLockIfDone
  /\ UNCHANGED <<requestVars, issueVars, socketVars, received, listVars,
                 mRequestMessagesPending, queue, caller, sender, receiver, historyVars>>

\* A response is read and its request found and taken off the list, and whether it
\* counts is looked at.  Nothing is found when it was given up.
processSolicited ==
  /\ receiver.pc = "read"
  /\ \E m \in received :
       /\ received' = received \ {m}
       /\ LET i == Matching(m.serial) IN
            IF i = 0
            THEN /\ receiver' = ReceiverIdle("done")
                 /\ UNCHANGED mRequestsList
            ELSE /\ receiver' = [pc |-> IF mRequestMessagesWaiting > 0 THEN "decrement"
                                       ELSE "answer",
                                rr |-> mRequestsList[i], of |-> m.of, read |-> 0]
                 /\ mRequestsList' = RemoveAt(mRequestsList, i)
  /\ UNCHANGED <<requestVars, issueVars, socketVars, mRequestMessagesWaiting,
                 mRequestMessagesPending, wakeVars, queue, caller, sender, historyVars>>

\* mRequestMessagesWaiting is read, which a time-out may have reset by now ...
ReceiverReadsWaiting ==
  /\ receiver.pc = "decrement"
  /\ receiver' = [receiver EXCEPT !.pc = "write waiting", !.read = mRequestMessagesWaiting]
  /\ UNCHANGED <<requestVars, issueVars, socketVars, received, listVars,
                 mRequestMessagesPending, wakeVars, queue, caller, sender, historyVars>>

\* ... or may reset before it is written.
ReceiverWritesWaiting ==
  /\ receiver.pc = "write waiting"
  /\ mRequestMessagesWaiting' = receiver.read - 1
  /\ receiver' = [receiver EXCEPT !.pc = "answer", !.read = 0]
  /\ UNCHANGED <<requestVars, issueVars, socketVars, received, mRequestsList,
                 mRequestMessagesPending, wakeVars, queue, caller, sender, historyVars>>

\* The caller is told, also of an error; the parcel is recycled then.
Answer ==
  /\ receiver.pc = "answer"
  /\ Report({receiver.rr}, receiver.of)
  /\ \E error \in BOOLEAN : mp' = IF error THEN Recycled({receiver.rr}) ELSE mp
  /\ Release(<<receiver.rr>>)
  /\ receiver' = ReceiverIdle("done")
  /\ UNCHANGED <<mSerial, issueVars, socketVars, received, listVars,
                 mRequestMessagesPending, wakeVars, queue, caller, sender, historyVars>>

ReceiverDone ==
  /\ receiver.pc = "done"
  /\ releaseWakeLockIfDone
  /\ receiver' = ReceiverIdle("read")
  /\ UNCHANGED <<requestVars, issueVars, socketVars, received, listVars,
                 mRequestMessagesPending, queue, caller, sender, historyVars>>

\* The end of the stream.
CloseSocket ==
  /\ receiver.pc = "read" /\ ~peerOpen
  /\ socketOpen' = FALSE /\ received' = {}
  /\ receiver' = ReceiverIdle("forget")
  /\ UNCHANGED <<requestVars, issueVars, mSocket, conns, peerOpen, listVars,
                 mRequestMessagesPending, wakeVars, queue, caller, sender, historyVars>>

ForgetSocket ==
  /\ receiver.pc = "forget"
  /\ mSocket' = 0
  /\ receiver' = ReceiverIdle("reset")
  /\ UNCHANGED <<requestVars, issueVars, conns, socketOpen, peerOpen, received,
                 listVars, mRequestMessagesPending, wakeVars, queue, caller, sender,
                 historyVars>>

resetSerial ==
  /\ receiver.pc = "reset"
  /\ sNextSerial' = 0
  /\ receiver' = ReceiverIdle("clear")
  /\ UNCHANGED <<requestVars, created, issued, socketVars, received, listVars,
                 mRequestMessagesPending, wakeVars, queue, caller, sender, historyVars>>

\* Mutant of clearRequestsList: the count is left.
ClearListOnly ==
  /\ receiver.pc = "clear"
  /\ Fail(mRequestsList)
  /\ mRequestsList' = <<>>
  /\ receiver' = ReceiverIdle("connect")
  /\ UNCHANGED <<issueVars, socketVars, received, mRequestMessagesWaiting,
                 mRequestMessagesPending, wakeVars, queue, caller, sender, historyVars>>

clearRequestsList ==
  /\ receiver.pc = "clear"
  /\ Fail(mRequestsList)
  /\ mRequestsList' = <<>> /\ mRequestMessagesWaiting' = 0 /\ countReset' = FALSE
  /\ receiver' = ReceiverIdle("connect")
  /\ UNCHANGED <<issueVars, socketVars, received, mRequestMessagesPending, wakeVars,
                 queue, caller, sender, timedOut, lostUpdate, clashed>>

ReceiverStep ==
  \/ Connect \/ processSolicited \/ ReceiverReadsWaiting \/ ReceiverWritesWaiting \/ Answer
  \/ ReceiverDone \/ CloseSocket \/ ForgetSocket \/ resetSerial \/ clearRequestsList

-----------------------------------------------------------------------------
(* The specification. *)

DaemonHangsUp ==
  /\ peerOpen
  /\ peerOpen' = FALSE
  /\ UNCHANGED <<requestVars, issueVars, mSocket, conns, socketOpen, received, listVars,
                 mRequestMessagesPending, wakeVars, queue, caller, sender, receiver,
                 historyVars>>

Next ==
  \/ \E t \in Threads : obtain(t) \/ send(t)
  \/ HandleSend \/ SenderTakesTimeout
  \/ ReceiverStep \/ processUnsolicited
  \/ DaemonHangsUp

Spec == Init /\ [][Next]_vars

\* The threads run, a time-out comes in time, and the daemon answers every
\* request or hangs up.
Fairness ==
  /\ \A t \in Threads : WF_vars(send(t))
  /\ WF_vars(HandleSend) /\ WF_vars(SenderTakesTimeout)
  /\ WF_vars(ReceiverStep)

FairSpec == Spec /\ Fairness

-----------------------------------------------------------------------------
(* Properties. *)

\* The variables hold values of their types.
RcTypeOK ==
  /\ mSerial \in [Objects -> 0 .. MaxRequests] /\ mResult \in [Objects -> 0 .. MaxRequests]
  /\ mp \in [Objects -> 0 .. MaxRequests] /\ sNextSerial \in 0 .. MaxRequests
  /\ sPool \in Seq(Objects) /\ Len(sPool) <= MAX_POOL_SIZE /\ created \in 0 .. MaxRequests
  /\ conns \in 0 .. MaxConns /\ mSocket \in {0, conns}
  /\ socketOpen \in BOOLEAN /\ peerOpen \in BOOLEAN
  /\ received \subseteq [serial : 0 .. MaxRequests, of : Requests]
  /\ mRequestsList \in Seq(Objects) /\ queue \in Seq(Objects)
  /\ mRequestMessagesPending \in Nat /\ mRequestMessagesWaiting \in Int
  /\ mWakeLock \in BOOLEAN /\ lockedBy \in Threads \cup {NoThread} /\ timeoutPosted \in BOOLEAN
  /\ caller \in [Threads -> [pc : {"idle", "send", "acquire", "count", "post"},
                             rr : 0 .. MaxRequests, read : Nat]]
  /\ sender \in [pc : {"idle", "add", "subtract", "write pending", "marshall", "write", "error",
                       "done", "timeout", "log"},
                 rr : 0 .. MaxRequests, s : 0 .. MaxConns, read : Nat, data : 0 .. MaxRequests]
  /\ receiver \in [pc : {"connect", "read", "decrement", "write waiting", "answer", "done",
                         "forget", "reset", "clear"},
                   rr : 0 .. MaxRequests, of : 0 .. MaxRequests, read : Int]
  /\ issued \in 0 .. MaxRequests /\ results \in [Requests -> Seq(0 .. MaxRequests)]
  /\ timedOut \in BOOLEAN /\ countReset \in BOOLEAN /\ lostUpdate \in BOOLEAN /\ clashed \in BOOLEAN

\* The caller of a request is told one result at most, an error or the response to
\* its own request, though the receiver, the sender and the caller itself may each
\* fail it, and its object goes back to the pool while the sender may still hold
\* it: as long as no two requests in use share a serial number, which resetSerial
\* does not ensure.
AnsweredOnce == ~clashed => \A r \in Requests : results[r] \in {<<>>, <<0>>, <<r>>}

\* The request the receiver has taken off the list counts until the count is written.
Counting == IF ListLocked THEN 1 ELSE 0

\* mRequestMessagesWaiting matches the size of mRequestsList, as the comment at
\* RIL.java:225 says, unless a time-out has reset it since the list was cleared.  The
\* time-out does so without the list's lock: the receiver may count down from the reset
\* value, to -1 but no further, or undo the reset, but never to more than the size.
WaitingMatchesList ==
  /\ -1 <= mRequestMessagesWaiting
  /\ mRequestMessagesWaiting <= Len(mRequestsList) + Counting
  /\ ~countReset => mRequestMessagesWaiting = Len(mRequestsList) + Counting

\* The wake lock is never held without a time-out that will release it.
TimeoutGuards ==
  mWakeLock => timeoutPosted \/ sender.pc \in {"timeout", "log"} \/ \E t \in Threads : caller[t].pc = "count"

\* What the comment at RIL.java:2076 says: the wake lock is held while a request is
\* to be sent or waits for its response, unless it timed out; and unless the sender
\* and a caller have changed mRequestMessagesPending at the same moment.
HeldWhileUnderWay ==
  (queue # <<>> \/ mRequestsList # <<>>) => mWakeLock \/ timedOut \/ lostUpdate

\* Every caller is told in the end what became of its request, whatever happens to
\* the connections, unless serial numbers clash (requests are bounded, so that it
\* comes to a time when all are answered).
EveryRequestAnswered ==
  []<>((\A r \in 1 .. issued : results[r] # <<>>) \/ clashed)

\* The wake lock is not held for ever: it is released when all is done, or timed out.
WakeLockFreed == []<>~mWakeLock

=============================================================================
