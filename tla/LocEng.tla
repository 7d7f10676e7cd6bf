--------------------------------- MODULE LocEng ---------------------------------
(***************************************************************************)
(* The GPS location engine, loc_eng.cpp and loc_eng_ni.cpp.  The modem's    *)
(* events are put, one at a time, where the deferred-action thread takes    *)
(* them; the Java layer starts and stops the engine, deletes aiding data    *)
(* and answers data-connection requests; network-initiated (NI) requests    *)
(* are shown to the user, who answers on a thread of his own, and a thread  *)
(* that wakes up every second answers when the user does not.  All of them  *)
(* make ioctl calls.                                                        *)
(*                                                                          *)
(* An NI request is a number, which also stands for the random number that  *)
(* current_notif_id gets; 0 is none, and -1 in the code.                    *)
(***************************************************************************)
EXTENDS LocIoctl

CONSTANTS
  NO_RESPONSE_TIME,   \* seconds the user has to answer
  MaxEvents,          \* bound: events of the modem, but for callbacks
  MaxCalls            \* bound: calls of the Java layer and of the user

ASSUME LocEngAssumption ==
  /\ IoctlThreads = {"deferred", "ni", "ui", "java"}
  /\ NO_RESPONSE_TIME \in Nat \ {0} /\ MaxEvents \in Nat /\ MaxCalls \in Nat

VARIABLES
  loc_event,                \* the event and its payload
  deferred_action_flags,
  agps_status,              \* "none", "request", "release"
  engine_status,            \* "none", "begin", "off"
  aiding_data_for_deletion,
  wakelock,                 \* is the wake lock held?
  signalled,                \* has deferred_action_cond been signalled since the wait began?
  deferred,                 \* what the deferred-action thread is doing, and its copies
  agps_request_pending, stop_request_pending,
  loc_ni_lock,              \* the thread that holds it, or "none"
  response_time_left, notif_in_progress, loc_ni_request, current_notif_id,
  ni, ui,                   \* what the NI thread and the user's thread are doing
  java,                     \* what the Java layer's thread is doing
  asked,                    \* the data connection the Java layer was asked for last
  modemOn,                  \* does the modem run a session?
  events, calls, requests   \* so far

deferredVars == <<loc_event, deferred_action_flags, agps_status, engine_status,
                  aiding_data_for_deletion, wakelock, signalled>>
stopVars == <<agps_request_pending, stop_request_pending>>
niVars == <<loc_ni_lock, response_time_left, notif_in_progress, loc_ni_request, current_notif_id>>
modemVars == <<modemOn, events, requests>>
vars == <<ioctlVars, deferredVars, deferred, stopVars, niVars, ni, ui, java, asked, modemVars,
          calls>>

NoEvent == [kind |-> "none", arg |-> "none", req |-> 0]
ConnFlags == {"success", "closed", "failed"}
Flags == {"event", "aiding", "status"} \cup ConnFlags
DeferredAt(pc) ==
  [pc |-> pc, event |-> NoEvent, flags |-> {}, status |-> "none", aiding |-> FALSE]

\* loc_eng_init has run.
Init ==
  /\ IoctlInit
  /\ loc_event = NoEvent /\ deferred_action_flags = {} /\ agps_status = "none"
  /\ engine_status = "none" /\ aiding_data_for_deletion = FALSE
  /\ wakelock = FALSE /\ signalled = FALSE /\ deferred = DeferredAt("start")
  /\ agps_request_pending = FALSE /\ stop_request_pending = FALSE
  /\ loc_ni_lock = "none" /\ response_time_left = 0 /\ notif_in_progress = FALSE
  /\ loc_ni_request = 0 /\ current_notif_id = 0
  /\ ni = "sleep" /\ ui = "idle" /\ java = "idle" /\ asked = "none"
  /\ modemOn = FALSE /\ events = 0 /\ requests = 0 /\ calls = 0

-----------------------------------------------------------------------------
(* Helpers. *)

\* Mutants of Post: nobody is signalled; the wake lock is left to the thread.
PostQuietly(flags) ==
  /\ deferred_action_flags' = deferred_action_flags \cup flags
  /\ wakelock' = (wakelock \/ flags # {}) /\ UNCHANGED signalled
PostAsleep(flags) ==
  /\ deferred_action_flags' = deferred_action_flags \cup flags
  /\ signalled' = (signalled \/ (flags # {} /\ deferred.pc = "wait")) /\ UNCHANGED wakelock

\* Flags are set for the deferred-action thread, which is signalled, and the wake lock
\* is taken for it.
Post(flags) ==
  /\ deferred_action_flags' = deferred_action_flags \cup flags
  /\ wakelock' = (wakelock \/ flags # {})
  /\ signalled' = (signalled \/ (flags # {} /\ deferred.pc = "wait"))

DeletesAiding(status, aiding) == IF status # "begin" /\ aiding THEN {"aiding"} ELSE {}

Goes(pc) == deferred' = [deferred EXCEPT !.pc = pc]
EventDone == deferred' = [deferred EXCEPT !.pc = "aiding", !.event = NoEvent]

-----------------------------------------------------------------------------
(* The deferred-action thread. *)

At(pc) == deferred.pc = pc /\ NoCall("deferred")

\* The engine lock is taken off first.
loc_eng_set_gps_lock ==
  /\ At("start")
  /\ loc_eng_ioctl("deferred", "lock", 0)
  /\ Goes("top")
  /\ UNCHANGED <<ioctlData, sent, deferredVars, stopVars, niVars, ni, ui, java, asked, modemVars,
                 calls>>

WaitForAction ==
  /\ At("top") /\ deferred_action_flags = {}
  /\ wakelock' = FALSE /\ signalled' = FALSE
  /\ Goes("wait")
  /\ UNCHANGED <<ioctlVars, loc_event, deferred_action_flags, agps_status, engine_status,
                 aiding_data_for_deletion, stopVars, niVars, ni, ui, java, asked, modemVars,
                 calls>>

\* The thread copies what there is to do; the status it calls engine_status is
\* that of the data connection.
TakeActions ==
  /\ (At("top") /\ deferred_action_flags # {}) \/ (At("wait") /\ signalled)
  /\ deferred' = [pc |-> "event", event |-> loc_event, flags |-> deferred_action_flags,
                  status |-> agps_status, aiding |-> aiding_data_for_deletion]
  /\ loc_event' = NoEvent /\ deferred_action_flags' = {} /\ agps_status' = "none"
  /\ signalled' = FALSE
  /\ wakelock' = (wakelock \/ deferred.pc = "wait")
  /\ UNCHANGED <<ioctlVars, engine_status, aiding_data_for_deletion, stopVars, niVars, ni, ui,
                 java, asked, modemVars, calls>>

Handles(kind) == At("event") /\ deferred.event.kind = kind

OtherEvent ==
  /\ Handles("none")
  /\ EventDone
  /\ UNCHANGED <<ioctlVars, deferredVars, stopVars, niVars, ni, ui, java, asked, modemVars, calls>>

loc_eng_report_status ==
  /\ Handles("status")
  /\ engine_status' = deferred.event.arg
  /\ Post(DeletesAiding(deferred.event.arg, aiding_data_for_deletion))
  /\ EventDone
  /\ UNCHANGED <<ioctlVars, loc_event, agps_status, aiding_data_for_deletion, stopVars, niVars,
                 ni, ui, java, asked, modemVars, calls>>

loc_eng_process_conn_request ==
  /\ Handles("conn")
  /\ agps_status' = deferred.event.arg
  /\ agps_request_pending' = (deferred.event.arg = "request")
  /\ Post({"status"})
  /\ EventDone
  /\ UNCHANGED <<ioctlVars, loc_event, engine_status, aiding_data_for_deletion,
                 stop_request_pending, niVars, ni, ui, java, asked, modemVars, calls>>

ProcessIoctlReport ==
  /\ Handles("ioctl")
  /\ loc_eng_ioctl_process_cb(deferred.event.arg)
  /\ IF deferred.event.arg = ioctl_type THEN Goes("signal") ELSE EventDone
  /\ UNCHANGED <<cb_is_selected, ioctl_type, io, sent, deferredVars, stopVars, niVars, ni, ui,
                 java, asked, modemVars, calls>>

SignalCallback ==
  /\ At("signal")
  /\ SignalArrived
  /\ EventDone
  /\ UNCHANGED <<ioctlData, sent, deferredVars, stopVars, niVars, ni, ui, java, asked, modemVars,
                 calls>>

\* A request that comes while another one is in progress is ignored ...
NiRequestIgnored ==
  /\ Handles("ni") /\ notif_in_progress
  /\ EventDone
  /\ UNCHANGED <<ioctlVars, deferredVars, stopVars, niVars, ni, ui, java, asked, modemVars, calls>>

NiRequestLocks ==
  /\ Handles("ni") /\ ~notif_in_progress
  /\ Goes("ni")
  /\ UNCHANGED <<ioctlVars, deferredVars, stopVars, niVars, ni, ui, java, asked, modemVars, calls>>

\* Mutant of loc_ni_request_handler: without the time-out.
RequestHandlerUntimed ==
  /\ At("ni") /\ loc_ni_lock = "none"
  /\ loc_ni_request' = deferred.event.req /\ current_notif_id' = deferred.event.req
  /\ notif_in_progress' = TRUE /\ UNCHANGED response_time_left
  /\ EventDone
  /\ UNCHANGED <<ioctlVars, deferredVars, stopVars, loc_ni_lock, ni, ui, java, asked, modemVars,
                 calls>>

\* ... otherwise it is saved and shown to the user.
loc_ni_request_handler ==
  /\ At("ni") /\ loc_ni_lock = "none"
  /\ loc_ni_request' = deferred.event.req /\ current_notif_id' = deferred.event.req
  /\ notif_in_progress' = TRUE /\ response_time_left' = NO_RESPONSE_TIME
  /\ EventDone
  /\ UNCHANGED <<ioctlVars, deferredVars, stopVars, loc_ni_lock, ni, ui, java, asked, modemVars,
                 calls>>

loc_eng_delete_aiding_data_deferred_action ==
  /\ At("aiding")
  /\ IF deferred.status # "request" /\ deferred.aiding
     THEN aiding_data_for_deletion' = FALSE /\ loc_eng_ioctl("deferred", "aiding", 0)
     ELSE UNCHANGED <<aiding_data_for_deletion, io>>
  /\ deferred' = [deferred EXCEPT !.pc = "atl", !.aiding = FALSE]
  /\ UNCHANGED <<ioctlData, sent, loc_event, deferred_action_flags, agps_status, engine_status,
                 wakelock, signalled, stopVars, niVars, ni, ui, java, asked, modemVars, calls>>

loc_eng_process_atl_deferred_action ==
  /\ At("atl")
  /\ IF deferred.flags \cap ConnFlags # {}
     THEN /\ loc_eng_ioctl("deferred", "atl", 0)
          /\ deferred' = [deferred EXCEPT !.pc = "stop", !.flags = {}]
     ELSE /\ deferred' = [deferred EXCEPT !.pc = "status", !.flags = {}]
          /\ UNCHANGED io
  /\ UNCHANGED <<ioctlData, sent, deferredVars, stopVars, niVars, ni, ui, java, asked, modemVars,
                 calls>>

\* Stopping was put off until the data call is done.
DeferredStop ==
  /\ At("stop")
  /\ agps_request_pending' = FALSE
  /\ modemOn' = (modemOn /\ ~stop_request_pending)
  /\ Goes("status")
  /\ UNCHANGED <<ioctlVars, deferredVars, stop_request_pending, niVars, ni, ui, java, asked,
                 events, requests, calls>>

\* The Java layer is told of a request for a data connection, or of its release.
ReportAgpsStatus ==
  /\ At("status")
  /\ asked' = IF deferred.status = "none" THEN asked ELSE deferred.status
  /\ deferred' = DeferredAt("top")
  /\ UNCHANGED <<ioctlVars, deferredVars, stopVars, niVars, ni, ui, java, modemVars, calls>>

\* The same step of an ioctl call for every thread.
IoctlOf(t) ==
  /\ IoctlStep(t)
  /\ UNCHANGED <<deferredVars, deferred, stopVars, niVars, ni, ui, java, asked, modemVars, calls>>

loc_eng_process_deferred_action ==
  \/ loc_eng_set_gps_lock \/ WaitForAction \/ TakeActions \/ OtherEvent \/ loc_eng_report_status
  \/ loc_eng_process_conn_request \/ ProcessIoctlReport \/ SignalCallback \/ NiRequestIgnored
  \/ NiRequestLocks \/ loc_ni_request_handler \/ loc_eng_delete_aiding_data_deferred_action
  \/ loc_eng_process_atl_deferred_action \/ DeferredStop \/ ReportAgpsStatus
  \/ IoctlOf("deferred")

-----------------------------------------------------------------------------
(* The modem. *)

\* An event replaces one that has not been taken yet.
loc_event_cb(event) ==
  /\ loc_event' = event
  /\ Post({"event"})

ModemReports ==
  /\ \/ /\ events < MaxEvents /\ events' = events + 1
        /\ \/ loc_event_cb([NoEvent EXCEPT !.kind = "status", !.arg = IF modemOn THEN "begin" ELSE "off"])
              /\ UNCHANGED requests
           \/ (\E arg \in {"request", "release"} :
                 loc_event_cb([NoEvent EXCEPT !.kind = "conn", !.arg = arg])) /\ UNCHANGED requests
           \/ /\ requests' = requests + 1
              /\ loc_event_cb([NoEvent EXCEPT !.kind = "ni", !.req = requests + 1])
        /\ UNCHANGED sent
     \/ /\ \E type \in sent :
             /\ sent' = sent \ {type}
             /\ loc_event_cb([NoEvent EXCEPT !.kind = "ioctl", !.arg = type])
        /\ UNCHANGED <<events, requests>>
  /\ UNCHANGED <<ioctlData, io, agps_status, engine_status, aiding_data_for_deletion, deferred,
                 stopVars, niVars, ni, ui, java, asked, modemOn, calls>>

-----------------------------------------------------------------------------
(* The NI threads. *)

\* Every second while a notification waits.  The lock is kept for the answer.
NiTick ==
  /\ ni = "sleep" /\ loc_ni_lock = "none"
  /\ notif_in_progress /\ response_time_left > 0
  /\ response_time_left' = response_time_left - 1
  /\ IF response_time_left = 1
     THEN /\ loc_ni_lock' = "ni" /\ ni' = "respond"
          /\ loc_eng_ioctl("ni", "ni", loc_ni_request)
     ELSE UNCHANGED <<loc_ni_lock, ni, io>>
  /\ UNCHANGED <<ioctlData, sent, deferredVars, deferred, stopVars, notif_in_progress,
                 loc_ni_request, current_notif_id, ui, java, asked, modemVars, calls>>

\* Mutant of NiTimedOut: the notification stays in progress.
NiTimedOutKeeps ==
  /\ ni = "respond" /\ NoCall("ni")
  /\ loc_ni_lock' = "none"
  /\ ni' = "sleep"
  /\ UNCHANGED <<ioctlVars, deferredVars, deferred, stopVars, response_time_left,
                 notif_in_progress, loc_ni_request, current_notif_id, ui, java, asked, modemVars,
                 calls>>

NiTimedOut ==
  /\ ni = "respond" /\ NoCall("ni")
  /\ notif_in_progress' = FALSE /\ loc_ni_lock' = "none"
  /\ ni' = "sleep"
  /\ UNCHANGED <<ioctlVars, deferredVars, deferred, stopVars, response_time_left, loc_ni_request,
                 current_notif_id, ui, java, asked, modemVars, calls>>

loc_ni_thread_proc == NiTick \/ NiTimedOut \/ IoctlOf("ni")

\* The user answers a notification he was shown; nothing is locked.
loc_eng_ni_respond ==
  /\ ui = "idle" /\ calls < MaxCalls
  /\ calls' = calls + 1
  /\ current_notif_id # 0 /\ notif_in_progress
  /\ ui' = "send"
  /\ UNCHANGED <<ioctlVars, deferredVars, deferred, stopVars, niVars, ni, java, asked, modemVars>>

loc_ni_respond ==
  /\ ui = "send"
  /\ loc_eng_ioctl("ui", "ni", loc_ni_request)
  /\ ui' = "clear"
  /\ UNCHANGED <<ioctlData, sent, deferredVars, deferred, stopVars, niVars, ni, java, asked,
                 modemVars, calls>>

\* What was in progress is over, whichever request it is by now.
loc_ni_process_user_response ==
  /\ ui = "clear" /\ NoCall("ui") /\ loc_ni_lock = "none"
  /\ notif_in_progress' = FALSE /\ response_time_left' = 0 /\ current_notif_id' = 0
  /\ ui' = "idle"
  /\ UNCHANGED <<ioctlVars, deferredVars, deferred, stopVars, loc_ni_lock, loc_ni_request, ni,
                 java, asked, modemVars, calls>>

UserStep == loc_ni_respond \/ loc_ni_process_user_response \/ IoctlOf("ui")

-----------------------------------------------------------------------------
(* The Java layer. *)

JavaCalls == java = "idle" /\ NoCall("java") /\ calls < MaxCalls /\ calls' = calls + 1

\* loc_eng_start may set the server first.
loc_eng_start ==
  /\ JavaCalls
  /\ java' = "start"
  /\ loc_eng_ioctl("java", "server", 0) \/ UNCHANGED io
  /\ UNCHANGED <<ioctlData, sent, deferredVars, deferred, stopVars, niVars, ni, ui, asked,
                 modemVars>>

loc_start_fix ==
  /\ java = "start" /\ NoCall("java")
  /\ modemOn' = TRUE
  /\ java' = "idle"
  /\ UNCHANGED <<ioctlVars, deferredVars, deferred, stopVars, niVars, ni, ui, asked, events,
                 requests, calls>>

\* Stopping is put off while a data call is under way.
loc_eng_stop ==
  /\ JavaCalls
  /\ stop_request_pending' = (stop_request_pending \/ agps_request_pending)
  /\ java' = IF agps_request_pending THEN "idle" ELSE "stop"
  /\ UNCHANGED <<ioctlVars, deferredVars, deferred, agps_request_pending, niVars, ni, ui, asked,
                 modemVars>>

loc_stop_fix ==
  /\ java = "stop"
  /\ modemOn' = FALSE
  /\ java' = "idle"
  /\ UNCHANGED <<ioctlVars, deferredVars, deferred, stopVars, niVars, ni, ui, asked, events,
                 requests, calls>>

loc_eng_delete_aiding_data ==
  /\ JavaCalls
  /\ aiding_data_for_deletion' = TRUE
  /\ Post(DeletesAiding(engine_status, TRUE))
  /\ UNCHANGED <<ioctlVars, loc_event, agps_status, engine_status, deferred, stopVars, niVars, ni,
                 ui, java, asked, modemVars>>

\* loc_eng_agps_data_conn_open, _closed and _failed answer what was asked for.
loc_eng_agps_data_conn ==
  /\ java = "idle" /\ NoCall("java") /\ asked # "none"
  /\ asked' = "none"
  /\ \E flag \in IF asked = "request" THEN {"success", "failed"} ELSE {"closed"} : Post({flag})
  /\ UNCHANGED <<ioctlVars, loc_event, agps_status, engine_status, aiding_data_for_deletion,
                 deferred, stopVars, niVars, ni, ui, java, modemVars, calls>>

JavaStep == loc_start_fix \/ loc_stop_fix \/ IoctlOf("java")

-----------------------------------------------------------------------------
(* The specification. *)

Next ==
  \/ loc_eng_process_deferred_action
  \/ ModemReports
  \/ loc_ni_thread_proc
  \/ loc_eng_ni_respond \/ UserStep
  \/ loc_eng_start \/ loc_eng_stop \/ loc_eng_delete_aiding_data \/ loc_eng_agps_data_conn
  \/ JavaStep

Spec == Init /\ [][Next]_vars

\* The threads run, and their waits time out; the modem need not answer.
Fairness ==
  /\ WF_vars(loc_eng_process_deferred_action)
  /\ WF_vars(loc_ni_thread_proc)
  /\ WF_vars(UserStep) /\ WF_vars(JavaStep)

FairSpec == Spec /\ Fairness

-----------------------------------------------------------------------------
(* Properties. *)

\* The variables hold values of their types.
LeTypeOK ==
  /\ cb_is_selected \in BOOLEAN /\ cb_has_arrived \in BOOLEAN /\ ioctl_type \in IoctlTypes
  /\ io \in [IoctlThreads -> [pc : {"none", "setup", "wait", "waiting", "reset"},
                              type : IoctlTypes, req : 0 .. MaxEvents]]
  /\ sent \subseteq IoctlTypes
  /\ loc_event \in [kind : {"none", "status", "conn", "ioctl", "ni"},
                    arg : IoctlTypes \cup {"begin", "off", "request", "release"},
                    req : 0 .. MaxEvents]
  /\ deferred_action_flags \subseteq Flags
  /\ agps_status \in {"none", "request", "release"} /\ asked \in {"none", "request", "release"}
  /\ engine_status \in {"none", "begin", "off"} /\ aiding_data_for_deletion \in BOOLEAN
  /\ wakelock \in BOOLEAN /\ signalled \in BOOLEAN
  /\ deferred.pc \in {"start", "top", "wait", "event", "signal", "ni", "aiding", "atl", "stop",
                      "status"}
  /\ agps_request_pending \in BOOLEAN /\ stop_request_pending \in BOOLEAN
  /\ loc_ni_lock \in {"none", "ni"} /\ response_time_left \in 0 .. NO_RESPONSE_TIME
  /\ notif_in_progress \in BOOLEAN
  /\ loc_ni_request \in 0 .. requests /\ current_notif_id \in 0 .. requests
  /\ ni \in {"sleep", "respond"} /\ ui \in {"idle", "send", "clear"}
  /\ java \in {"idle", "start", "stop"}
  /\ modemOn \in BOOLEAN
  /\ events \in 0 .. MaxEvents /\ requests \in 0 .. events /\ calls \in 0 .. MaxCalls

\* The deferred-action thread does not sleep on something to do: whoever sets a flag
\* while it waits has signalled it, on six paths of four threads.
ActionNotLost == At("wait") /\ ~signalled => deferred_action_flags = {}

\* What the comment at loc_eng.cpp:714 says: the wake lock is held while actions are
\* pending for the thread, and until it is done with them, though it gives the lock
\* up before every wait and threads take it at any time.
AwakeWhilePending ==
  /\ deferred_action_flags # {} => wakelock
  /\ deferred.pc \notin {"start", "top", "wait"} => wakelock

\* When the time is over, the answer to the modem is about the request the user was
\* asked about, which is in progress until it is sent.
TimeoutAnswersItsRequest ==
  ~NoCall("ni") => notif_in_progress /\ io["ni"].req = loc_ni_request

\* What the comment at loc_eng_ni.cpp:414 says: a notification in progress always has
\* its time-out, although the user's answer to the one before may reset it late.
NotificationTimed ==
  notif_in_progress => response_time_left > 0 \/ ni = "respond"

\* A notification does not stay in progress, where it would have all later NI requests
\* ignored: the user or the time-out ends it, even when the modem never answers.
NotificationClears == notif_in_progress ~> ~notif_in_progress

\* The engine goes back to sleep: the thread comes to the end of what it does, calls to
\* the modem included whose callback only it could handle, and gives up the wake lock.
Sleeps == wakelock ~> ~wakelock

=============================================================================
