------------------------------- MODULE RilDaemon -------------------------------
(***************************************************************************)
(* The radio daemon library, hardware/ril/libril/ril.cpp, on its event      *)
(* loop.  The loop thread accepts the telephony process, one connection at  *)
(* a time, reads its requests and hands them to the radio implementation,   *)
(* which answers on the loop thread or on a thread of its own.  The threads *)
(* of the implementation also report unsolicited responses, most of which   *)
(* hold the wake lock for a while, and ask for timed callbacks.             *)
(*                                                                          *)
(* A connection carries one request at most, named by the connection.  A    *)
(* new connection gets the descriptor number of the one before it.  A write *)
(* to a connection whose other end is gone kills the process (SIGPIPE is    *)
(* not handled), and init starts it again; the kernel keeps the wake lock.  *)
(***************************************************************************)
EXTENDS RilEvent

CONSTANTS
  Threads,         \* threads of the radio implementation
  LoopThread,      \* s_tid_dispatch
  Responses,       \* what the threads report: "other", "nitz", and "timer" for
                   \* RIL_requestTimedCallback
  WakePartial,     \* the unsolicited responses whose wakeType is WAKE_PARTIAL: "state"
                   \* (of the radio, sent to a new connection), "other", "nitz"
  WAKE_TIMEOUT,    \* TIMEVAL_WAKE_TIMEOUT in ticks
  MayFill,         \* may the buffer of the socket be full?
  MaxConns,        \* bound: connections
  RequestConns,    \* bound: the connections that carry a request
  MaxCalls         \* bound: unsolicited responses and timed callbacks

ASSUME RilDaemonAssumption ==
  /\ FdEvents = {"wakeup", "listen", "commands"}
  /\ Persistent = {"wakeup", "commands"}
  /\ LoopThread \notin Threads
  /\ Responses \subseteq {"other", "nitz", "timer"}
  /\ WakePartial \subseteq {"state", "other", "nitz"}
  /\ WAKE_TIMEOUT \in 1 .. MaxTimeout
  /\ MaxConns \in Nat /\ RequestConns \subseteq 1 .. MaxConns /\ MaxCalls \in Nat
  /\ MayFill \in BOOLEAN

VARIABLES
  s_registerCalled,
  s_fdCommand,     \* is it a descriptor?
  fdConn,          \* the connection behind that number, 0 when it is closed
  request,         \* [connection -> what became of its request]
  s_lastNITZTimeData,        \* 0 for NULL
  s_last_wake_timeout_info,  \* a timer, or NoEvent
  userParam,       \* [Timers -> is userParam set?]
  timedCallback,   \* [Timers -> "wake" or "user"]
  firing,          \* the timer whose callback runs
  wakeLock,        \* is the partial wake lock held?
  pipe,            \* is there a byte in the wakeup pipe?
  call,            \* [thread -> the call into the library it makes]
  conns,           \* connections made so far
  accepted,        \* connections accepted so far
  peerOpen,        \* is the client's end of the newest connection open?
  calls,           \* calls made so far
  answered,        \* [connection -> the connection its answer was written to]
  closedUnderLoop, \* has a failed write closed the connection the loop still watches?
  inherited        \* is the wake lock held since before the process was killed?

daemonVars == <<s_registerCalled, s_fdCommand, fdConn, s_lastNITZTimeData,
                s_last_wake_timeout_info, userParam, timedCallback, firing, pipe, call>>
clientVars == <<conns, accepted, peerOpen>>
historyVars == <<calls, answered, closedUnderLoop, inherited>>
vars == <<eventVars, daemonVars, request, wakeLock, clientVars, historyVars>>

Conns == 1 .. MaxConns
Callers == Threads \cup {LoopThread}
NoCall == [pc |-> "idle", msg |-> "none", n |-> 0, info |-> NoEvent]

StartTable == Added(EmptyTable, "wakeup")

\* The process before RIL_register, its event loop started.
Init ==
  /\ watch_table = StartTable /\ timer_list = <<>> /\ pending_list = <<>>
  /\ timeout = [t \in Timers |-> 0]
  /\ rfds = {} /\ tv = 0 /\ loop = "copy"
  /\ s_registerCalled = FALSE /\ s_fdCommand = FALSE /\ fdConn = 0
  /\ s_lastNITZTimeData = 0 /\ s_last_wake_timeout_info = NoEvent
  /\ userParam = [t \in Timers |-> FALSE] /\ timedCallback = [t \in Timers |-> "user"]
  /\ firing = NoEvent /\ pipe = TRUE /\ call = [t \in Callers |-> NoCall]
  /\ request = [c \in Conns |-> "none"]
  /\ wakeLock = FALSE
  /\ conns = 0 /\ accepted = 0 /\ peerOpen = FALSE
  /\ calls = 0 /\ answered = [c \in Conns |-> 0] /\ closedUnderLoop = FALSE
  /\ inherited = FALSE

-----------------------------------------------------------------------------
(* Helpers. *)

At(t, pc) == call[t].pc = pc
Goes(t, pc) == call' = [call EXCEPT ![t].pc = pc]
Returns(t) == call' = [call EXCEPT ![t] = NoCall]

\* The timers that were allocated and not freed.
Allocated == Timers \cap ({timer_list[i] : i \in DOMAIN timer_list}
                         \cup {pending_list[i] : i \in DOMAIN pending_list} \cup {firing})

PeerOpen(c) == c = conns /\ peerOpen

\* The descriptors select finds readable.
Ready ==
  {ev \in FdEvents :
     \/ ev = "wakeup" /\ pipe
     \/ ev = "listen" /\ accepted < conns
     \/ ev = "commands" /\ fdConn # 0 /\ (request[fdConn] = "sent" \/ ~PeerOpen(fdConn))}

Closed == IF fdConn = 0 THEN {"commands"} ELSE {}

\* The requests of the connections before: onCommandsSocketClosed.
Cancelled == [c \in Conns |-> IF request[c] = "pending" THEN "cancelled" ELSE request[c]]

\* Mutant of triggerEvLoop: nothing is written to the pipe.
TriggerNobody(onLoopThread) == UNCHANGED pipe

\* A byte is written to the pipe, but not by the loop thread.
triggerEvLoop(onLoopThread) == pipe' = (pipe \/ ~onLoopThread)

\* Mutant of rilEventAddWakeup: the loop is not woken.
EventAddQuietly(ev, onLoopThread) == ril_event_add(ev) /\ UNCHANGED pipe

rilEventAddWakeup(ev, onLoopThread) == ril_event_add(ev) /\ triggerEvLoop(onLoopThread)

\* Mutant of ClosedTable: the daemon does not listen again.
ClosedTableDeaf == Removed(watch_table, {"commands"})

\* The table when a connection was closed.
ClosedTable == Added(Removed(watch_table, {"commands"}), "listen")

\* Mutant of releaseWakeLock: it is not released.
ReleaseNothing == UNCHANGED wakeLock

releaseWakeLock == wakeLock' = FALSE

-----------------------------------------------------------------------------
(* Calls into the library, on any thread. *)

\* RIL_register starts to listen.
RIL_register ==
  /\ ~s_registerCalled
  /\ s_registerCalled' = TRUE
  /\ rilEventAddWakeup("listen", FALSE)
  /\ UNCHANGED <<timer_list, timeout, pending_list, rfds, tv, loop, s_fdCommand, fdConn,
                 s_lastNITZTimeData, s_last_wake_timeout_info, userParam, timedCallback,
                 firing, call, request, wakeLock, clientVars, historyVars>>

\* RIL_onUnsolicitedResponse begins, or RIL_requestTimedCallback.  The wake lock
\* is taken, and given back at once when the data of the response is bad.
BeginsCall(t, msg, n) ==
  /\ wakeLock' = (wakeLock \/ msg \in WakePartial)
  /\ inherited' = (inherited /\ msg \notin WakePartial)
  /\ \/ call' = [call EXCEPT ![t] = [NoCall EXCEPT !.msg = msg, !.n = n,
                   !.pc = IF msg = "timer" THEN "add" ELSE "send"]]
     \/ /\ msg \in WakePartial /\ t \in Threads
        /\ call' = [call EXCEPT ![t] = [NoCall EXCEPT !.pc = "error"]]

RIL_onUnsolicitedResponse(t) ==
  /\ s_registerCalled /\ At(t, "idle") /\ calls < MaxCalls
  /\ calls' = calls + 1
  /\ \E msg \in Responses : BeginsCall(t, msg, IF msg = "nitz" THEN calls + 1 ELSE 0)
  /\ UNCHANGED <<eventVars, s_registerCalled, s_fdCommand, fdConn, s_lastNITZTimeData,
                 s_last_wake_timeout_info, userParam, timedCallback, firing, pipe, request,
                 clientVars, answered, closedUnderLoop>>

error_exit(t) ==
  /\ At(t, "error")
  /\ releaseWakeLock
  /\ Returns(t)
  /\ UNCHANGED <<eventVars, s_registerCalled, s_fdCommand, fdConn, s_lastNITZTimeData,
                 s_last_wake_timeout_info, userParam, timedCallback, firing, pipe, request,
                 clientVars, historyVars>>

\* RIL_onRequestComplete takes the request off the list of pending ones; the
\* answer to a cancelled one is dropped.
RIL_onRequestComplete(t) ==
  /\ At(t, "idle")
  /\ \E c \in Conns :
       /\ request[c] \in {"pending", "cancelled"}
       /\ request' = [request EXCEPT ![c] = "done"]
       /\ call' = IF request[c] = "cancelled" THEN call
                  ELSE [call EXCEPT ![t] = [NoCall EXCEPT !.pc = "send", !.msg = "answer",
                                                          !.n = c]]
  /\ UNCHANGED <<eventVars, s_registerCalled, s_fdCommand, fdConn, s_lastNITZTimeData,
                 s_last_wake_timeout_info, userParam, timedCallback, firing, pipe, wakeLock,
                 clientVars, historyVars>>

\* The response was sent or stored; the time-out of the wake lock comes next.
Schedules(t, msg) ==
  IF msg \in WakePartial THEN call' = [call EXCEPT ![t] = [NoCall EXCEPT !.pc = "cancel"]]
  ELSE Returns(t)

\* Mutant of AfterSend: a response that cannot be sent is given up.
AfterSendGivesUp(t, ok) ==
  IF ok THEN Schedules(t, call[t].msg) ELSE Returns(t)

\* What follows sendResponse.
AfterSend(t, ok) ==
  IF call[t].msg = "nitz" /\ ~ok THEN Goes(t, "store") ELSE Schedules(t, call[t].msg)

\* sendResponseRaw looks at s_fdCommand before it has s_writeMutex.
sendResponseRaw(t) ==
  /\ At(t, "send")
  /\ IF s_fdCommand THEN Goes(t, "write") ELSE AfterSend(t, FALSE)
  /\ UNCHANGED <<eventVars, s_registerCalled, s_fdCommand, fdConn, s_lastNITZTimeData,
                 s_last_wake_timeout_info, userParam, timedCallback, firing, pipe, request,
                 wakeLock, clientVars, historyVars>>

blockingWrite(t) ==
  /\ At(t, "write") /\ fdConn # 0 /\ PeerOpen(fdConn)
  /\ answered' = IF call[t].msg = "answer" THEN [answered EXCEPT ![call[t].n] = fdConn]
                 ELSE answered
  /\ AfterSend(t, TRUE)
  /\ UNCHANGED <<eventVars, s_registerCalled, s_fdCommand, fdConn, s_lastNITZTimeData,
                 s_last_wake_timeout_info, userParam, timedCallback, firing, pipe, request,
                 wakeLock, clientVars, calls, closedUnderLoop, inherited>>

\* The descriptor is closed (EBADF), or the buffer is full (EAGAIN: it does not block).
WriteFails(t) ==
  /\ At(t, "write")
  /\ fdConn = 0 \/ (MayFill /\ PeerOpen(fdConn))
  /\ Goes(t, "close")
  /\ UNCHANGED <<eventVars, s_registerCalled, s_fdCommand, fdConn, s_lastNITZTimeData,
                 s_last_wake_timeout_info, userParam, timedCallback, firing, pipe, request,
                 wakeLock, clientVars, historyVars>>

\* The descriptor is closed, whatever is behind its number by now; s_fdCommand
\* and the event keep it.
CloseAfterWrite(t) ==
  /\ At(t, "close")
  /\ fdConn' = 0
  /\ closedUnderLoop' = (closedUnderLoop \/ fdConn # 0)
  /\ peerOpen' = (peerOpen /\ fdConn # conns)
  /\ AfterSend(t, FALSE)
  /\ UNCHANGED <<eventVars, s_registerCalled, s_fdCommand, s_lastNITZTimeData,
                 s_last_wake_timeout_info, userParam, timedCallback, firing, pipe, request,
                 wakeLock, conns, accepted, calls, answered, inherited>>

\* SIGPIPE ends the process, and init starts it again.
ProcessKilled(t) ==
  /\ At(t, "write") /\ fdConn # 0 /\ ~PeerOpen(fdConn)
  /\ watch_table' = StartTable /\ timer_list' = <<>> /\ pending_list' = <<>>
  /\ timeout' = [i \in Timers |-> 0]
  /\ rfds' = {} /\ tv' = 0 /\ loop' = "copy"
  /\ s_registerCalled' = FALSE /\ s_fdCommand' = FALSE /\ fdConn' = 0
  /\ s_lastNITZTimeData' = 0 /\ s_last_wake_timeout_info' = NoEvent
  /\ userParam' = [i \in Timers |-> FALSE] /\ timedCallback' = [i \in Timers |-> "user"]
  /\ firing' = NoEvent /\ pipe' = TRUE /\ call' = [c \in Callers |-> NoCall]
  /\ request' = [c \in Conns |-> IF request[c] = "none" THEN "none" ELSE "done"]
  /\ accepted' = conns /\ peerOpen' = FALSE
  /\ closedUnderLoop' = FALSE /\ inherited' = wakeLock
  /\ UNCHANGED <<wakeLock, conns, calls, answered>>

StoreNITZ(t) ==
  /\ At(t, "store")
  /\ s_lastNITZTimeData' = call[t].n
  /\ Schedules(t, "nitz")
  /\ UNCHANGED <<eventVars, s_registerCalled, s_fdCommand, fdConn, s_last_wake_timeout_info,
                 userParam, timedCallback, firing, pipe, request, wakeLock, clientVars,
                 historyVars>>

\* The previous time-out is cancelled: the pointer is read, and then written through.
ReadLastTimeout(t) ==
  /\ At(t, "cancel")
  /\ call' = [call EXCEPT ![t].info = s_last_wake_timeout_info,
                          ![t].pc = IF s_last_wake_timeout_info = NoEvent THEN "add" ELSE "mark"]
  /\ UNCHANGED <<eventVars, s_registerCalled, s_fdCommand, fdConn, s_lastNITZTimeData,
                 s_last_wake_timeout_info, userParam, timedCallback, firing, pipe, request,
                 wakeLock, clientVars, historyVars>>

\* The timer may have been freed, and be another's by now.
CancelLastTimeout(t) ==
  /\ At(t, "mark")
  /\ userParam' = IF call[t].info \in Allocated
                  THEN [userParam EXCEPT ![call[t].info] = TRUE] ELSE userParam
  /\ Goes(t, "add")
  /\ UNCHANGED <<eventVars, s_registerCalled, s_fdCommand, fdConn, s_lastNITZTimeData,
                 s_last_wake_timeout_info, timedCallback, firing, pipe, request, wakeLock,
                 clientVars, historyVars>>

\* internalRequestTimedCallback, up to triggerEvLoop.
AddTimer(t) ==
  /\ At(t, "add")
  /\ Allocated # Timers
  /\ LET info == CHOOSE i \in Timers : i \notin Allocated IN
       /\ userParam' = [userParam EXCEPT ![info] = FALSE]
       /\ timedCallback' = [timedCallback EXCEPT
                              ![info] = IF call[t].msg = "timer" THEN "user" ELSE "wake"]
       /\ ril_timer_add(info, IF call[t].msg = "timer" THEN 0 ELSE WAKE_TIMEOUT)
       /\ call' = [call EXCEPT ![t].pc = "trigger", ![t].info = info]
  /\ UNCHANGED <<watch_table, pending_list, rfds, tv, loop, s_registerCalled, s_fdCommand,
                 fdConn, s_lastNITZTimeData, s_last_wake_timeout_info, firing, pipe, request,
                 wakeLock, clientVars, historyVars>>

TriggerAfterAdd(t) ==
  /\ At(t, "trigger")
  /\ triggerEvLoop(t = LoopThread)
  /\ IF call[t].msg = "timer" THEN Returns(t) ELSE Goes(t, "assign")
  /\ UNCHANGED <<eventVars, s_registerCalled, s_fdCommand, fdConn, s_lastNITZTimeData,
                 s_last_wake_timeout_info, userParam, timedCallback, firing, request, wakeLock,
                 clientVars, historyVars>>

SetLastTimeout(t) ==
  /\ At(t, "assign")
  /\ s_last_wake_timeout_info' = call[t].info
  /\ Returns(t)
  /\ UNCHANGED <<eventVars, s_registerCalled, s_fdCommand, fdConn, s_lastNITZTimeData,
                 userParam, timedCallback, firing, pipe, request, wakeLock, clientVars,
                 historyVars>>

CallStep(t) ==
  \/ error_exit(t) \/ sendResponseRaw(t) \/ blockingWrite(t) \/ WriteFails(t)
  \/ CloseAfterWrite(t) \/ ProcessKilled(t) \/ StoreNITZ(t) \/ ReadLastTimeout(t)
  \/ CancelLastTimeout(t) \/ AddTimer(t) \/ TriggerAfterAdd(t) \/ SetLastTimeout(t)

-----------------------------------------------------------------------------
(* Callbacks, on the loop thread. *)

\* The loop thread makes no call of its own.
LoopIdle == At(LoopThread, "idle")

processWakeupCallback ==
  /\ Fire("wakeup", "fire")
  /\ pipe' = FALSE
  /\ UNCHANGED <<watch_table, s_registerCalled, s_fdCommand, fdConn, s_lastNITZTimeData,
                 s_last_wake_timeout_info, userParam, timedCallback, firing, call, request,
                 wakeLock, clientVars, historyVars>>

FireTimer ==
  /\ \E info \in Timers : Fire(info, "timer") /\ firing' = info
  /\ UNCHANGED <<watch_table, s_registerCalled, s_fdCommand, fdConn, s_lastNITZTimeData,
                 s_last_wake_timeout_info, userParam, timedCallback, pipe, call, request,
                 wakeLock, clientVars, historyVars>>

\* userTimerCallback calls wakeTimeoutCallback, which releases the wake lock
\* unless it was cancelled, or a callback of the implementation.
wakeTimeoutCallback ==
  /\ loop = "timer"
  /\ IF timedCallback[firing] = "wake" /\ ~userParam[firing] THEN releaseWakeLock
     ELSE UNCHANGED wakeLock
  /\ loop' = "free"
  /\ UNCHANGED <<watch_table, timer_list, timeout, pending_list, rfds, tv, daemonVars, request,
                 clientVars, historyVars>>

\* The rest of userTimerCallback.
FreeTimer ==
  /\ loop = "free"
  /\ s_last_wake_timeout_info' =
       IF s_last_wake_timeout_info = firing THEN NoEvent ELSE s_last_wake_timeout_info
  /\ firing' = NoEvent
  /\ userParam' = [userParam EXCEPT ![firing] = FALSE]
  /\ timedCallback' = [timedCallback EXCEPT ![firing] = "user"]
  /\ loop' = "fire"
  /\ UNCHANGED <<watch_table, timer_list, timeout, pending_list, rfds, tv, s_registerCalled,
                 s_fdCommand, fdConn, s_lastNITZTimeData, pipe, call, request, wakeLock,
                 clientVars, historyVars>>

\* listenCallback: accept, and RIL_onUnsolicitedResponse from onNewCommandConnect.
listenCallback ==
  /\ Fire("listen", "connect")
  /\ accepted' = accepted + 1 /\ fdConn' = accepted + 1 /\ s_fdCommand' = TRUE
  /\ rilEventAddWakeup("commands", TRUE)
  /\ BeginsCall(LoopThread, "state", 0)
  /\ UNCHANGED <<s_registerCalled, s_lastNITZTimeData, s_last_wake_timeout_info, userParam,
                 timedCallback, firing, request, conns, peerOpen, calls, answered,
                 closedUnderLoop>>

\* accept fails, or the other end is not the telephony process.
listenCallbackRefuses ==
  /\ Fire("listen", "fire")
  /\ accepted' = accepted + 1
  /\ peerOpen' = (peerOpen /\ accepted + 1 # conns)
  /\ request' = Cancelled
  /\ rilEventAddWakeup("listen", TRUE)
  /\ UNCHANGED <<s_registerCalled, s_fdCommand, fdConn, s_lastNITZTimeData,
                 s_last_wake_timeout_info, userParam, timedCallback, firing, call, wakeLock,
                 conns, historyVars>>

\* onNewCommandConnect sends the time that was kept ...
SendLastNITZ ==
  /\ loop = "connect" /\ LoopIdle
  /\ IF s_lastNITZTimeData = 0 THEN loop' = "fire" /\ UNCHANGED call
     ELSE /\ loop' = "freeNITZ"
          /\ call' = [call EXCEPT ![LoopThread] =
                        [NoCall EXCEPT !.pc = "send", !.msg = "kept", !.n = s_lastNITZTimeData]]
  /\ UNCHANGED <<watch_table, timer_list, timeout, pending_list, rfds, tv, s_registerCalled,
                 s_fdCommand, fdConn, s_lastNITZTimeData, s_last_wake_timeout_info, userParam,
                 timedCallback, firing, pipe, request, wakeLock, clientVars, historyVars>>

\* ... and frees what is kept by then.
FreeLastNITZ ==
  /\ loop = "freeNITZ" /\ LoopIdle
  /\ s_lastNITZTimeData' = 0
  /\ loop' = "fire"
  /\ UNCHANGED <<watch_table, timer_list, timeout, pending_list, rfds, tv, s_registerCalled,
                 s_fdCommand, fdConn, s_last_wake_timeout_info, userParam, timedCallback, firing,
                 pipe, call, request, wakeLock, clientVars, historyVars>>

processCommandsCallback ==
  /\ Fire("commands", "commands")
  /\ UNCHANGED <<watch_table, daemonVars, request, wakeLock, clientVars, historyVars>>

\* processCommandBuffer: the request is handed to the implementation, which
\* answers it here or later.
processCommandBuffer ==
  /\ loop = "commands" /\ LoopIdle
  /\ fdConn # 0 /\ request[fdConn] = "sent"
  /\ \/ request' = [request EXCEPT ![fdConn] = "pending"] /\ UNCHANGED call
     \/ /\ request' = [request EXCEPT ![fdConn] = "done"]
        /\ call' = [call EXCEPT ![LoopThread] = [NoCall EXCEPT !.pc = "send", !.msg = "answer",
                                                              !.n = fdConn]]
  /\ UNCHANGED <<eventVars, s_registerCalled, s_fdCommand, fdConn, s_lastNITZTimeData,
                 s_last_wake_timeout_info, userParam, timedCallback, firing, pipe, wakeLock,
                 clientVars, historyVars>>

\* Nothing more to read for now (EAGAIN).
CommandsRead ==
  /\ loop = "commands" /\ LoopIdle
  /\ fdConn # 0 /\ request[fdConn] # "sent" /\ PeerOpen(fdConn)
  /\ loop' = "fire"
  /\ UNCHANGED <<watch_table, timer_list, timeout, pending_list, rfds, tv, daemonVars, request,
                 wakeLock, clientVars, historyVars>>

\* End of stream, or an error: the connection is closed and the daemon listens
\* for a new one.
CloseCommands ==
  /\ loop = "commands" /\ LoopIdle
  /\ fdConn # 0 => request[fdConn] # "sent" /\ ~PeerOpen(fdConn)
  /\ fdConn' = 0 /\ s_fdCommand' = FALSE
  /\ watch_table' = ClosedTable
  /\ loop' = "cancel"
  /\ closedUnderLoop' = FALSE
  /\ UNCHANGED <<timer_list, timeout, pending_list, rfds, tv, s_registerCalled,
                 s_lastNITZTimeData, s_last_wake_timeout_info, userParam, timedCallback, firing,
                 pipe, call, request, wakeLock, clientVars, calls, answered, inherited>>

onCommandsSocketClosed ==
  /\ loop = "cancel"
  /\ request' = Cancelled
  /\ loop' = "fire"
  /\ UNCHANGED <<watch_table, timer_list, timeout, pending_list, rfds, tv, daemonVars, wakeLock,
                 clientVars, historyVars>>

Rest == UNCHANGED <<daemonVars, request, wakeLock, clientVars, historyVars>>

LoopStep ==
  \/ CopyReadFds(Closed) /\ Rest
  \/ SelectReturns(Ready) /\ Rest
  \/ processTimeouts /\ Rest
  \/ FireDone /\ Rest
  \/ processWakeupCallback \/ FireTimer \/ wakeTimeoutCallback \/ FreeTimer
  \/ listenCallback \/ listenCallbackRefuses \/ SendLastNITZ \/ FreeLastNITZ
  \/ processCommandsCallback \/ processCommandBuffer \/ CommandsRead
  \/ CloseCommands \/ onCommandsSocketClosed
  \/ CallStep(LoopThread)

-----------------------------------------------------------------------------
(* The telephony process. *)

ClientConnects ==
  /\ ~peerOpen /\ conns < MaxConns
  /\ conns' = conns + 1 /\ peerOpen' = TRUE
  /\ UNCHANGED <<eventVars, daemonVars, request, wakeLock, accepted, historyVars>>

ClientSends ==
  /\ peerOpen /\ conns \in RequestConns /\ request[conns] = "none"
  /\ request' = [request EXCEPT ![conns] = "sent"]
  /\ UNCHANGED <<eventVars, daemonVars, wakeLock, clientVars, historyVars>>

ClientCloses ==
  /\ peerOpen
  /\ peerOpen' = FALSE
  /\ UNCHANGED <<eventVars, daemonVars, request, wakeLock, conns, accepted, historyVars>>

-----------------------------------------------------------------------------
(* The specification. *)

ThreadStep(t) == CallStep(t) \/ RIL_onRequestComplete(t)

Next ==
  \/ RIL_register
  \/ LoopStep
  \/ SelectFails(Closed) /\ Rest
  \/ \E t \in Threads : ThreadStep(t) \/ RIL_onUnsolicitedResponse(t)
  \/ ClientConnects \/ ClientSends \/ ClientCloses
  \/ Tick /\ Rest

Spec == Init /\ [][Next]_vars

\* The threads run, time goes by, and the implementation answers every request.
Fairness ==
  /\ WF_vars(RIL_register)
  /\ WF_vars(LoopStep)
  /\ \A t \in Threads : WF_vars(ThreadStep(t))
  /\ WF_vars(Tick /\ Rest)

FairSpec == Spec /\ Fairness

-----------------------------------------------------------------------------
(* Properties. *)

\* The assertions of the callbacks hold, though both events wait in the pending
\* list while other callbacks run: a connection is accepted when there is none
\* (ril.cpp:2261), requests are read from the one there is (2179), and the event
\* that is deleted then is in the table, without which ril_event_del would leave
\* listMutex locked.
AssertionsHold ==
  /\ \A i \in DOMAIN pending_list :
       /\ pending_list[i] = "listen" => ~s_fdCommand
       /\ pending_list[i] = "commands" => s_fdCommand /\ "commands" \in Watched
  /\ loop = "commands" => s_fdCommand /\ "commands" \in Watched

\* Between two rounds of callbacks the daemon either listens for a connection or
\* reads from the one it has, never both and never neither.
ListensOrServes ==
  s_registerCalled /\ loop \in {"copy", "select"} =>
    /\ "commands" \in Watched <=> s_fdCommand
    /\ "listen" \in Watched <=> ~s_fdCommand

\* No wakeup is lost: whatever was added since the loop made its copy of readFds
\* and computed its time-out, select is about to return for it, or a thread is
\* about to write to the pipe.
NoLostWakeup ==
  loop = "select" =>
    \/ pipe \/ \E t \in Threads : At(t, "trigger")
    \/ /\ Watched \subseteq rfds
       /\ \A i \in DOMAIN timer_list :
            tv <= IF timeout[timer_list[i]] > 0 THEN timeout[timer_list[i]] ELSE 0

\* Does the thread hold the wake lock for a response it has not scheduled the
\* end of yet?
HoldsForResponse(t) ==
  \/ call[t].pc \in {"error", "cancel", "mark"}
  \/ call[t].pc \in {"send", "write", "close", "store"} /\ call[t].msg \in WakePartial
  \/ call[t].pc = "add" /\ call[t].msg # "timer"

\* The wake lock is never held with nobody left to release it: a thread is still
\* to schedule the time-out, or a time-out that is not cancelled is in one of the
\* lists or runs; but for a lock the process found when it was started.
WakeLockCovered ==
  wakeLock /\ ~inherited =>
    \/ \E t \in Callers : HoldsForResponse(t)
    \/ \E info \in Allocated :
         timedCallback[info] = "wake" /\ ~userParam[info] /\ (info = firing => loop = "timer")

\* The loop ends, and the daemon with it, only when a failed write has closed the
\* descriptor it watches.
EndsOnlyWhenClosed == loop = "ended" => closedUnderLoop

\* Every timed callback runs, or its time-out was for a process that is gone.
TimersFire ==
  \A info \in Timers :
    (\E i \in DOMAIN timer_list : timer_list[i] = info)
      ~> (loop = "ended" \/ \A i \in DOMAIN timer_list : timer_list[i] # info)

\* The daemon goes back to sleep: once the responses stop the wake lock is
\* released, unless the loop has ended or the lock is one the process found.
WakeLockReleased == wakeLock ~> (~wakeLock \/ inherited \/ loop = "ended")

\* A client that connects is accepted or refused, whatever became of the
\* connections before: the daemon starts to listen again.
ListensAgain == \A c \in Conns : (conns = c /\ accepted < c) ~> (accepted >= c \/ closedUnderLoop)

\* A request is answered, on the connection it came from, as long as the client
\* keeps that open.
RequestAnswered ==
  \A c \in Conns :
    (request[c] = "sent") ~> (answered[c] = c \/ ~PeerOpen(c) \/ closedUnderLoop)

=============================================================================
