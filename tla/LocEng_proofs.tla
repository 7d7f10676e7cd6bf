----------------------------- MODULE LocEng_proofs -----------------------------
(***************************************************************************)
(* Theorems of LocEng for every number of events, calls and seconds.        *)
(***************************************************************************)
EXTENDS LocEng, TLAPS

-----------------------------------------------------------------------------
(* Type correctness.  An event's argument fits its kind, and it is about an  *)
(* NI request that was made, so that the thread can copy both.               *)

Args == IoctlTypes \cup {"begin", "off", "request", "release"}
EventType == [kind : {"none", "status", "conn", "ioctl", "ni"}, arg : Args, req : Nat]

Fits(event, n) ==
  /\ event.kind = "status" => event.arg \in {"begin", "off"}
  /\ event.kind = "conn" => event.arg \in {"request", "release"}
  /\ event.req <= n

BooleansTyped ==
  /\ cb_is_selected \in BOOLEAN /\ cb_has_arrived \in BOOLEAN
  /\ wakelock \in BOOLEAN /\ signalled \in BOOLEAN /\ aiding_data_for_deletion \in BOOLEAN
  /\ agps_request_pending \in BOOLEAN /\ stop_request_pending \in BOOLEAN
  /\ notif_in_progress \in BOOLEAN /\ modemOn \in BOOLEAN

IoctlTyped ==
  /\ ioctl_type \in IoctlTypes
  /\ io \in [IoctlThreads -> [pc : {"none", "setup", "wait", "waiting", "reset"},
                              type : IoctlTypes, req : 0 .. MaxEvents]]
  /\ sent \subseteq IoctlTypes

EventTyped == loc_event \in EventType /\ Fits(loc_event, requests)

FlagsTyped == deferred_action_flags \subseteq Flags

DeferredTyped ==
  /\ deferred \in [pc : {"start", "top", "wait", "event", "signal", "ni", "aiding", "atl", "stop",
                         "status"},
                   event : EventType, flags : SUBSET Flags,
                   status : {"none", "request", "release"}, aiding : BOOLEAN]
  /\ Fits(deferred.event, requests)

StatusTyped ==
  /\ agps_status \in {"none", "request", "release"} /\ asked \in {"none", "request", "release"}
  /\ engine_status \in {"none", "begin", "off"}

NiTyped ==
  /\ loc_ni_lock \in {"none", "ni"} /\ response_time_left \in 0 .. NO_RESPONSE_TIME
  /\ loc_ni_request \in 0 .. requests /\ current_notif_id \in 0 .. requests
  /\ ni \in {"sleep", "respond"} /\ ui \in {"idle", "send", "clear"}

CountsTyped ==
  /\ events \in 0 .. MaxEvents /\ requests \in 0 .. events /\ calls \in 0 .. MaxCalls
  /\ java \in {"idle", "start", "stop"}

Typed ==
  /\ BooleansTyped /\ IoctlTyped /\ EventTyped /\ FlagsTyped /\ DeferredTyped /\ StatusTyped
  /\ NiTyped /\ CountsTyped

LEMMA TypedImpliesTypeOK == Typed => LeTypeOK
<1> SUFFICES ASSUME Typed PROVE LeTypeOK
  OBVIOUS
<1>1. loc_event.req \in 0 .. MaxEvents
  BY LocEngAssumption DEF Typed, EventTyped, EventType, Fits, CountsTyped
<1>2. loc_event \in [kind : {"none", "status", "conn", "ioctl", "ni"},
                     arg : IoctlTypes \cup {"begin", "off", "request", "release"},
                     req : 0 .. MaxEvents]
  BY <1>1 DEF Typed, EventTyped, EventType, Args
<1>3. deferred.pc \in {"start", "top", "wait", "event", "signal", "ni", "aiding", "atl", "stop",
                       "status"}
  BY DEF Typed, DeferredTyped
<1> QED
  BY <1>2, <1>3, Zenon DEF Typed, LeTypeOK, BooleansTyped, IoctlTyped, FlagsTyped, StatusTyped,
     NiTyped, CountsTyped

\* No event is an event, and what fits goes on fitting when more requests are made.
LEMMA NoEventTyped == NoEvent \in EventType /\ \A n \in Nat : Fits(NoEvent, n)
  BY DEF NoEvent, EventType, Args, Fits, IoctlTypes

LEMMA FitsMore ==
  ASSUME NEW event \in EventType, NEW n \in Nat, NEW m \in Nat, n <= m, Fits(event, n)
  PROVE  Fits(event, m)
  BY DEF Fits, EventType

LEMMA TypedInit == Init => Typed
<1> SUFFICES ASSUME Init PROVE Typed
  OBVIOUS
<1> USE DEF Init, IoctlInit
<1>1. BooleansTyped
  BY Zenon DEF BooleansTyped
<1>2. IoctlTyped
  BY LocEngAssumption DEF IoctlTyped, IoctlTypes, NoIoctl
<1>3. EventTyped
  BY NoEventTyped DEF EventTyped
<1>4. FlagsTyped /\ StatusTyped
  BY DEF FlagsTyped, StatusTyped
<1>5. DeferredTyped
  BY NoEventTyped DEF DeferredTyped, DeferredAt
<1>6. NiTyped /\ CountsTyped
  BY LocEngAssumption DEF NiTyped, CountsTyped
<1> QED
  BY <1>1, <1>2, <1>3, <1>4, <1>5, <1>6 DEF Typed

\* The modem reports an event of its own, or a callback.
LEMMA ModemCounts ==
  ASSUME ModemReports
  PROVE  /\ UNCHANGED <<calls, java>>
         /\ \/ /\ events < MaxEvents /\ events' = events + 1
               /\ requests' = requests \/ requests' = requests + 1
            \/ UNCHANGED <<events, requests>>
  BY Zenon DEF ModemReports, modemVars

\* The counts stay within their bounds.
LEMMA CountsStep == Typed /\ [Next]_vars => CountsTyped'
<1> SUFFICES ASSUME Typed, [Next]_vars PROVE CountsTyped'
  OBVIOUS
<1> USE DEF Typed, ioctlVars, ioctlData, deferredVars, stopVars, niVars,
           modemVars
<1>1. \/ UNCHANGED <<events, requests, calls, java>>
      \/ ModemReports \/ loc_eng_ni_respond \/ loc_eng_start \/ loc_start_fix \/ loc_eng_stop
      \/ loc_stop_fix \/ loc_eng_delete_aiding_data
  BY LocEngAssumption, Zenon DEF Next, loc_eng_process_deferred_action, loc_ni_thread_proc,
     UserStep, JavaStep, loc_eng_set_gps_lock, WaitForAction, TakeActions, OtherEvent,
     loc_eng_report_status, loc_eng_process_conn_request, ProcessIoctlReport, SignalCallback,
     NiRequestIgnored, NiRequestLocks, loc_ni_request_handler,
     loc_eng_delete_aiding_data_deferred_action, loc_eng_process_atl_deferred_action,
     DeferredStop, ReportAgpsStatus, IoctlOf, NiTick, NiTimedOut, loc_ni_respond,
     loc_ni_process_user_response, loc_eng_agps_data_conn, vars
<1>2. CASE UNCHANGED <<events, requests, calls, java>>
  BY <1>2 DEF CountsTyped
<1>3. CASE ModemReports
  BY <1>3, LocEngAssumption, ModemCounts DEF CountsTyped
<1>4. CASE loc_eng_ni_respond
  BY <1>4, LocEngAssumption DEF loc_eng_ni_respond, CountsTyped
<1>5. CASE loc_eng_start
  BY <1>5, LocEngAssumption DEF loc_eng_start, JavaCalls, CountsTyped
<1>6. CASE loc_start_fix
  BY <1>6 DEF loc_start_fix, CountsTyped
<1>7. CASE loc_eng_stop
  BY <1>7, LocEngAssumption DEF loc_eng_stop, JavaCalls, CountsTyped
<1>8. CASE loc_stop_fix
  BY <1>8 DEF loc_stop_fix, CountsTyped
<1>9. CASE loc_eng_delete_aiding_data
  BY <1>9, LocEngAssumption DEF loc_eng_delete_aiding_data, JavaCalls, CountsTyped
<1> QED
  BY <1>1, <1>2, <1>3, <1>4, <1>5, <1>6, <1>7, <1>8, <1>9

\* The NI requests that were made stay made.
LEMMA RequestsGrow ==
  ASSUME Typed, [Next]_vars
  PROVE  requests \in Nat /\ requests' \in Nat /\ requests <= requests'
<1>1. UNCHANGED requests \/ ModemReports
  BY LocEngAssumption, Zenon DEF Next, loc_eng_process_deferred_action, loc_ni_thread_proc,
     UserStep, JavaStep, loc_eng_set_gps_lock, WaitForAction, TakeActions, OtherEvent,
     loc_eng_report_status, loc_eng_process_conn_request, ProcessIoctlReport, SignalCallback,
     NiRequestIgnored, NiRequestLocks, loc_ni_request_handler,
     loc_eng_delete_aiding_data_deferred_action, loc_eng_process_atl_deferred_action,
     DeferredStop, ReportAgpsStatus, IoctlOf, NiTick, NiTimedOut, loc_eng_ni_respond,
     loc_ni_respond, loc_ni_process_user_response, loc_eng_start, loc_start_fix, loc_eng_stop,
     loc_stop_fix, loc_eng_delete_aiding_data, loc_eng_agps_data_conn, vars, ioctlVars,
     ioctlData, deferredVars, stopVars, niVars, modemVars
<1>2. requests \in Nat
  BY DEF Typed, CountsTyped
<1> QED
  BY <1>1, <1>2, ModemCounts

\* The Boolean variables stay Boolean.
LEMMA BooleansStep == Typed /\ [Next]_vars => BooleansTyped'
<1> SUFFICES ASSUME Typed, [Next]_vars PROVE BooleansTyped'
  OBVIOUS
<1> USE DEF Typed, ioctlVars, ioctlData, deferredVars, stopVars, niVars,
           modemVars
<1>1. \/ UNCHANGED <<cb_is_selected, cb_has_arrived, wakelock, signalled, aiding_data_for_deletion,
                       agps_request_pending, stop_request_pending, notif_in_progress, modemOn>>
      \/ WaitForAction \/ TakeActions \/ loc_eng_report_status
      \/ loc_eng_process_conn_request \/ ProcessIoctlReport \/ loc_ni_request_handler
      \/ loc_eng_delete_aiding_data_deferred_action \/ DeferredStop
      \/ (\E t \in IoctlThreads : IoctlOf(t)) \/ ModemReports \/ NiTimedOut
      \/ loc_ni_process_user_response \/ loc_start_fix \/ loc_eng_stop \/ loc_stop_fix
      \/ loc_eng_delete_aiding_data \/ loc_eng_agps_data_conn
  BY LocEngAssumption, Zenon DEF Next, loc_eng_process_deferred_action, loc_ni_thread_proc,
     UserStep, JavaStep, loc_eng_set_gps_lock, OtherEvent, SignalCallback, NiRequestIgnored,
     NiRequestLocks, loc_eng_process_atl_deferred_action, ReportAgpsStatus, NiTick,
     loc_eng_ni_respond, loc_ni_respond, loc_eng_start, vars
<1>2. CASE UNCHANGED <<cb_is_selected, cb_has_arrived, wakelock, signalled, aiding_data_for_deletion,
                       agps_request_pending, stop_request_pending, notif_in_progress, modemOn>>
  BY <1>2 DEF BooleansTyped
<1>3. CASE WaitForAction
  BY <1>3, Zenon DEF WaitForAction, BooleansTyped
<1>4. CASE TakeActions
  BY <1>4, Zenon DEF TakeActions, BooleansTyped
<1>5. CASE loc_eng_report_status
  BY <1>5, Zenon DEF loc_eng_report_status, Post, BooleansTyped
<1>6. CASE loc_eng_process_conn_request
  BY <1>6, Zenon DEF loc_eng_process_conn_request, Post, BooleansTyped
<1>7. CASE ProcessIoctlReport
  BY <1>7, Zenon DEF ProcessIoctlReport, loc_eng_ioctl_process_cb, BooleansTyped
<1>8. CASE loc_ni_request_handler
  BY <1>8, Zenon DEF loc_ni_request_handler, BooleansTyped
<1>9. CASE loc_eng_delete_aiding_data_deferred_action
  BY <1>9, Zenon DEF loc_eng_delete_aiding_data_deferred_action, BooleansTyped
<1>10. CASE DeferredStop
  BY <1>10, Zenon DEF DeferredStop, BooleansTyped
<1>11. ASSUME NEW t \in IoctlThreads, IoctlOf(t) PROVE BooleansTyped'
  BY <1>11, Zenon DEF IoctlOf, IoctlStep, loc_eng_ioctl_setup_cb, loc_ioctl,
     loc_eng_ioctl_wait_cb, WaitTimesOut, ResetState, BooleansTyped
<1>12. CASE ModemReports
  BY <1>12, Zenon DEF ModemReports, loc_event_cb, Post, BooleansTyped
<1>13. CASE NiTimedOut
  BY <1>13, Zenon DEF NiTimedOut, BooleansTyped
<1>14. CASE loc_ni_process_user_response
  BY <1>14, Zenon DEF loc_ni_process_user_response, BooleansTyped
<1>15. CASE loc_start_fix
  BY <1>15, Zenon DEF loc_start_fix, BooleansTyped
<1>16. CASE loc_eng_stop
  BY <1>16, Zenon DEF loc_eng_stop, BooleansTyped
<1>17. CASE loc_stop_fix
  BY <1>17, Zenon DEF loc_stop_fix, BooleansTyped
<1>18. CASE loc_eng_delete_aiding_data
  BY <1>18, Zenon DEF loc_eng_delete_aiding_data, Post, BooleansTyped
<1>19. CASE loc_eng_agps_data_conn
  BY <1>19, Zenon DEF loc_eng_agps_data_conn, Post, BooleansTyped
<1> QED
  BY <1>1, <1>2, <1>3, <1>4, <1>5, <1>6, <1>7, <1>8, <1>9, <1>10, <1>11, <1>12, <1>13, <1>14,
     <1>15, <1>16, <1>17, <1>18, <1>19

\* The calls stay typed.
LEMMA IoctlTypedStep == Typed /\ [Next]_vars => IoctlTyped'
<1> SUFFICES ASSUME Typed, [Next]_vars PROVE IoctlTyped'
  OBVIOUS
<1> USE DEF Typed, ioctlVars, ioctlData, deferredVars, stopVars, niVars,
           modemVars
<1>1. \/ UNCHANGED <<ioctl_type, io, sent>>
      \/ loc_eng_set_gps_lock \/ SignalCallback \/ loc_eng_delete_aiding_data_deferred_action
      \/ loc_eng_process_atl_deferred_action \/ (\E t \in IoctlThreads : IoctlOf(t))
      \/ ModemReports \/ NiTick \/ loc_ni_respond \/ loc_eng_start
  BY LocEngAssumption, Zenon DEF Next, loc_eng_process_deferred_action, loc_ni_thread_proc,
     UserStep, JavaStep, WaitForAction, TakeActions, OtherEvent, loc_eng_report_status,
     loc_eng_process_conn_request, ProcessIoctlReport, NiRequestIgnored, NiRequestLocks,
     loc_ni_request_handler, DeferredStop, ReportAgpsStatus, NiTimedOut, loc_eng_ni_respond,
     loc_ni_process_user_response, loc_start_fix, loc_eng_stop, loc_stop_fix,
     loc_eng_delete_aiding_data, loc_eng_agps_data_conn, vars
<1>2. CASE UNCHANGED <<ioctl_type, io, sent>>
  BY <1>2 DEF IoctlTyped
<1>3. CASE loc_eng_set_gps_lock
  BY <1>3, LocEngAssumption DEF loc_eng_set_gps_lock, loc_eng_ioctl, IoctlTypes, IoctlTyped
<1>4. CASE SignalCallback
  BY <1>4 DEF SignalCallback, SignalArrived, Waiting, IoctlTypes, IoctlTyped
<1>5. CASE loc_eng_delete_aiding_data_deferred_action
  BY <1>5, LocEngAssumption DEF loc_eng_delete_aiding_data_deferred_action, loc_eng_ioctl,
     IoctlTypes, IoctlTyped
<1>6. CASE loc_eng_process_atl_deferred_action
  BY <1>6, LocEngAssumption DEF loc_eng_process_atl_deferred_action, loc_eng_ioctl, IoctlTypes,
     IoctlTyped
<1>7. ASSUME NEW t \in IoctlThreads, IoctlOf(t) PROVE IoctlTyped'
  BY <1>7, LocEngAssumption DEF IoctlOf, IoctlStep, loc_eng_ioctl_setup_cb, loc_ioctl,
     loc_eng_ioctl_wait_cb, WaitTimesOut, ResetState, NoIoctl, IoctlTypes, IoctlTyped
<1>8. CASE ModemReports
  BY <1>8 DEF ModemReports, IoctlTyped
<1>9. CASE NiTick
  BY <1>9, LocEngAssumption DEF NiTick, loc_eng_ioctl, IoctlTypes, NiTyped, CountsTyped,
     IoctlTyped
<1>10. CASE loc_ni_respond
  BY <1>10, LocEngAssumption DEF loc_ni_respond, loc_eng_ioctl, IoctlTypes, NiTyped,
     CountsTyped, IoctlTyped
<1>11. CASE loc_eng_start
  BY <1>11, LocEngAssumption DEF loc_eng_start, loc_eng_ioctl, IoctlTypes, IoctlTyped
<1> QED
  BY <1>1, <1>2, <1>3, <1>4, <1>5, <1>6, <1>7, <1>8, <1>9, <1>10, <1>11

\* The flags stay typed.
LEMMA FlagsStep == Typed /\ [Next]_vars => FlagsTyped'
<1> SUFFICES ASSUME Typed, [Next]_vars PROVE FlagsTyped'
  OBVIOUS
<1> USE DEF Typed, ioctlVars, ioctlData, deferredVars, stopVars, niVars,
           modemVars
<1>1. \/ UNCHANGED <<deferred_action_flags>>
      \/ TakeActions \/ loc_eng_report_status \/ loc_eng_process_conn_request \/ ModemReports
      \/ loc_eng_delete_aiding_data \/ loc_eng_agps_data_conn
  BY LocEngAssumption, Zenon DEF Next, loc_eng_process_deferred_action, loc_ni_thread_proc,
     UserStep, JavaStep, loc_eng_set_gps_lock, WaitForAction, OtherEvent, ProcessIoctlReport,
     SignalCallback, NiRequestIgnored, NiRequestLocks, loc_ni_request_handler,
     loc_eng_delete_aiding_data_deferred_action, loc_eng_process_atl_deferred_action,
     DeferredStop, ReportAgpsStatus, IoctlOf, NiTick, NiTimedOut, loc_eng_ni_respond,
     loc_ni_respond, loc_ni_process_user_response, loc_eng_start, loc_start_fix, loc_eng_stop,
     loc_stop_fix, vars
<1>2. CASE UNCHANGED <<deferred_action_flags>>
  BY <1>2 DEF FlagsTyped
<1>3. CASE TakeActions
  BY <1>3 DEF TakeActions, FlagsTyped
<1>4. CASE loc_eng_report_status
  BY <1>4 DEF loc_eng_report_status, Post, DeletesAiding, Flags, FlagsTyped
<1>5. CASE loc_eng_process_conn_request
  BY <1>5 DEF loc_eng_process_conn_request, Post, Flags, FlagsTyped
<1>6. CASE ModemReports
  BY <1>6 DEF ModemReports, loc_event_cb, Post, Flags, FlagsTyped
<1>7. CASE loc_eng_delete_aiding_data
  BY <1>7 DEF loc_eng_delete_aiding_data, Post, DeletesAiding, Flags, FlagsTyped
<1>8. CASE loc_eng_agps_data_conn
  BY <1>8 DEF loc_eng_agps_data_conn, Post, Flags, ConnFlags, FlagsTyped
<1> QED
  BY <1>1, <1>2, <1>3, <1>4, <1>5, <1>6, <1>7, <1>8

\* The event stays typed.
LEMMA EventStep == Typed /\ [Next]_vars => EventTyped'
<1> SUFFICES ASSUME Typed, [Next]_vars PROVE EventTyped'
  OBVIOUS
<1> USE DEF Typed, ioctlVars, ioctlData, deferredVars, stopVars, niVars,
           modemVars
<1>1. \/ UNCHANGED <<loc_event, requests>>
      \/ TakeActions \/ ModemReports
  BY LocEngAssumption, Zenon DEF Next, loc_eng_process_deferred_action, loc_ni_thread_proc,
     UserStep, JavaStep, loc_eng_set_gps_lock, WaitForAction, OtherEvent, loc_eng_report_status,
     loc_eng_process_conn_request, ProcessIoctlReport, SignalCallback, NiRequestIgnored,
     NiRequestLocks, loc_ni_request_handler, loc_eng_delete_aiding_data_deferred_action,
     loc_eng_process_atl_deferred_action, DeferredStop, ReportAgpsStatus, IoctlOf, NiTick,
     NiTimedOut, loc_eng_ni_respond, loc_ni_respond, loc_ni_process_user_response,
     loc_eng_start, loc_start_fix, loc_eng_stop, loc_stop_fix, loc_eng_delete_aiding_data,
     loc_eng_agps_data_conn, vars
<1>2. CASE UNCHANGED <<loc_event, requests>>
  BY <1>2 DEF EventTyped
<1>3. CASE TakeActions
  BY <1>3, RequestsGrow, NoEventTyped DEF TakeActions, EventTyped
<1>4. CASE ModemReports
  <2>1. /\ requests \in Nat /\ requests' \in Nat /\ requests <= requests'
    BY RequestsGrow
  <2>2. PICK kind \in {"status", "conn", "ioctl", "ni"}, arg \in Args, req \in {0, requests'} :
          /\ loc_event' = [kind |-> kind, arg |-> arg, req |-> req]
          /\ kind = "status" => arg \in {"begin", "off"}
          /\ kind = "conn" => arg \in {"request", "release"}
    BY <1>4, <2>1 DEF ModemReports, loc_event_cb, NoEvent, IoctlTyped, IoctlTypes, Args
  <2> QED
    BY <2>1, <2>2 DEF EventTyped, EventType, Fits
<1> QED
  BY <1>1, <1>2, <1>3, <1>4

\* The thread's copies stay typed.
LEMMA DeferredStep == Typed /\ [Next]_vars => DeferredTyped'
<1> SUFFICES ASSUME Typed, [Next]_vars PROVE DeferredTyped'
  OBVIOUS
<1> USE DEF Typed, ioctlVars, ioctlData, deferredVars, stopVars, niVars,
           modemVars
<1>1. \/ UNCHANGED <<deferred, requests>>
      \/ loc_eng_set_gps_lock \/ WaitForAction \/ TakeActions \/ OtherEvent
      \/ loc_eng_report_status \/ loc_eng_process_conn_request \/ ProcessIoctlReport
      \/ SignalCallback \/ NiRequestIgnored \/ NiRequestLocks \/ loc_ni_request_handler
      \/ loc_eng_delete_aiding_data_deferred_action \/ loc_eng_process_atl_deferred_action
      \/ DeferredStop \/ ReportAgpsStatus \/ ModemReports
  BY LocEngAssumption, Zenon DEF Next, loc_eng_process_deferred_action, loc_ni_thread_proc,
     UserStep, JavaStep, IoctlOf, NiTick, NiTimedOut, loc_eng_ni_respond, loc_ni_respond,
     loc_ni_process_user_response, loc_eng_start, loc_start_fix, loc_eng_stop, loc_stop_fix,
     loc_eng_delete_aiding_data, loc_eng_agps_data_conn, vars
<1>2. CASE UNCHANGED <<deferred, requests>>
  BY <1>2 DEF DeferredTyped
<1>3. CASE loc_eng_set_gps_lock
  BY <1>3 DEF loc_eng_set_gps_lock, Goes, DeferredTyped
<1>4. CASE WaitForAction
  BY <1>4 DEF WaitForAction, Goes, DeferredTyped
<1>5. CASE TakeActions
  <2>1. loc_event \in EventType /\ Fits(loc_event, requests) /\ deferred_action_flags \in SUBSET Flags
    BY DEF EventTyped, FlagsTyped
  <2>2. agps_status \in {"none", "request", "release"}
    BY DEF StatusTyped
  <2>3. aiding_data_for_deletion \in BOOLEAN
    BY DEF BooleansTyped
  <2> QED
    BY <1>5, <2>1, <2>2, <2>3 DEF TakeActions, DeferredTyped, modemVars
<1>6. CASE OtherEvent
  BY <1>6, NoEventTyped, RequestsGrow DEF OtherEvent, EventDone, modemVars, DeferredTyped
<1>7. CASE loc_eng_report_status
  BY <1>7, NoEventTyped, RequestsGrow DEF loc_eng_report_status, EventDone, modemVars,
     DeferredTyped
<1>8. CASE loc_eng_process_conn_request
  BY <1>8, NoEventTyped, RequestsGrow DEF loc_eng_process_conn_request, EventDone, modemVars,
     DeferredTyped
<1>9. CASE ProcessIoctlReport
  BY <1>9, NoEventTyped, RequestsGrow DEF ProcessIoctlReport, EventDone, Goes, modemVars,
     DeferredTyped
<1>10. CASE SignalCallback
  BY <1>10, NoEventTyped, RequestsGrow DEF SignalCallback, EventDone, modemVars, DeferredTyped
<1>11. CASE NiRequestIgnored
  BY <1>11, NoEventTyped, RequestsGrow DEF NiRequestIgnored, EventDone, modemVars, DeferredTyped
<1>12. CASE NiRequestLocks
  BY <1>12 DEF NiRequestLocks, Goes, DeferredTyped
<1>13. CASE loc_ni_request_handler
  BY <1>13, NoEventTyped, RequestsGrow DEF loc_ni_request_handler, EventDone, modemVars,
     DeferredTyped
<1>14. CASE loc_eng_delete_aiding_data_deferred_action
  BY <1>14 DEF loc_eng_delete_aiding_data_deferred_action, DeferredTyped
<1>15. CASE loc_eng_process_atl_deferred_action
  BY <1>15 DEF loc_eng_process_atl_deferred_action, DeferredTyped
<1>16. CASE DeferredStop
  BY <1>16 DEF DeferredStop, Goes, DeferredTyped
<1>17. CASE ReportAgpsStatus
  BY <1>17, NoEventTyped, RequestsGrow DEF ReportAgpsStatus, DeferredAt, modemVars,
     DeferredTyped
<1>18. CASE ModemReports
  <2>1. UNCHANGED deferred
    BY <1>18 DEF ModemReports
  <2> QED
    BY <2>1, RequestsGrow, FitsMore DEF DeferredTyped
<1> QED
  BY <1>1, <1>2, <1>3, <1>4, <1>5, <1>6, <1>7, <1>8, <1>9, <1>10, <1>11, <1>12, <1>13, <1>14,
     <1>15, <1>16, <1>17, <1>18

\* The statuses stay typed.
LEMMA StatusStep == Typed /\ [Next]_vars => StatusTyped'
<1> SUFFICES ASSUME Typed, [Next]_vars PROVE StatusTyped'
  OBVIOUS
<1> USE DEF Typed, ioctlVars, ioctlData, deferredVars, stopVars, niVars,
           modemVars
<1>1. \/ UNCHANGED <<agps_status, asked, engine_status>>
      \/ TakeActions \/ loc_eng_report_status \/ loc_eng_process_conn_request
      \/ ReportAgpsStatus \/ loc_eng_agps_data_conn
  BY LocEngAssumption, Zenon DEF Next, loc_eng_process_deferred_action, loc_ni_thread_proc,
     UserStep, JavaStep, loc_eng_set_gps_lock, WaitForAction, OtherEvent, ProcessIoctlReport,
     SignalCallback, NiRequestIgnored, NiRequestLocks, loc_ni_request_handler,
     loc_eng_delete_aiding_data_deferred_action, loc_eng_process_atl_deferred_action,
     DeferredStop, IoctlOf, ModemReports, NiTick, NiTimedOut, loc_eng_ni_respond,
     loc_ni_respond, loc_ni_process_user_response, loc_eng_start, loc_start_fix, loc_eng_stop,
     loc_stop_fix, loc_eng_delete_aiding_data, vars
<1>2. CASE UNCHANGED <<agps_status, asked, engine_status>>
  BY <1>2 DEF StatusTyped
<1>3. CASE TakeActions
  BY <1>3 DEF TakeActions, StatusTyped
<1>4. CASE loc_eng_report_status
  BY <1>4 DEF loc_eng_report_status, Handles, At, DeferredTyped, EventType, Fits, StatusTyped
<1>5. CASE loc_eng_process_conn_request
  BY <1>5 DEF loc_eng_process_conn_request, Handles, At, DeferredTyped, EventType, Fits,
     StatusTyped
<1>6. CASE ReportAgpsStatus
  BY <1>6 DEF ReportAgpsStatus, DeferredTyped, StatusTyped
<1>7. CASE loc_eng_agps_data_conn
  BY <1>7 DEF loc_eng_agps_data_conn, StatusTyped
<1> QED
  BY <1>1, <1>2, <1>3, <1>4, <1>5, <1>6, <1>7

\* The notification stays typed.
LEMMA NiTypedStep == Typed /\ [Next]_vars => NiTyped'
<1> SUFFICES ASSUME Typed, [Next]_vars PROVE NiTyped'
  OBVIOUS
<1> USE DEF Typed, ioctlVars, ioctlData, deferredVars, stopVars, niVars,
           modemVars
<1>1. \/ UNCHANGED <<loc_ni_lock, response_time_left, loc_ni_request, current_notif_id, ni, ui, requests>>
      \/ loc_ni_request_handler \/ ModemReports \/ NiTick \/ NiTimedOut \/ loc_eng_ni_respond
      \/ loc_ni_respond \/ loc_ni_process_user_response
  BY LocEngAssumption, Zenon DEF Next, loc_eng_process_deferred_action, loc_ni_thread_proc,
     UserStep, JavaStep, loc_eng_set_gps_lock, WaitForAction, TakeActions, OtherEvent,
     loc_eng_report_status, loc_eng_process_conn_request, ProcessIoctlReport, SignalCallback,
     NiRequestIgnored, NiRequestLocks, loc_eng_delete_aiding_data_deferred_action,
     loc_eng_process_atl_deferred_action, DeferredStop, ReportAgpsStatus, IoctlOf,
     loc_eng_start, loc_start_fix, loc_eng_stop, loc_stop_fix, loc_eng_delete_aiding_data,
     loc_eng_agps_data_conn, vars
<1>2. CASE UNCHANGED <<loc_ni_lock, response_time_left, loc_ni_request, current_notif_id, ni, ui, requests>>
  BY <1>2 DEF NiTyped
<1>3. CASE loc_ni_request_handler
  BY <1>3, LocEngAssumption DEF loc_ni_request_handler, At, DeferredTyped, EventType, Fits,
     CountsTyped, NiTyped
<1>4. CASE ModemReports
  <2>1. UNCHANGED <<niVars, ni, ui>>
    BY <1>4 DEF ModemReports
  <2> QED
    BY <2>1, RequestsGrow DEF NiTyped, niVars
<1>5. CASE NiTick
  BY <1>5, LocEngAssumption DEF NiTick, NiTyped
<1>6. CASE NiTimedOut
  BY <1>6 DEF NiTimedOut, NiTyped
<1>7. CASE loc_eng_ni_respond
  BY <1>7 DEF loc_eng_ni_respond, NiTyped
<1>8. CASE loc_ni_respond
  BY <1>8 DEF loc_ni_respond, NiTyped
<1>9. CASE loc_ni_process_user_response
  BY <1>9, LocEngAssumption DEF loc_ni_process_user_response, CountsTyped, NiTyped
<1> QED
  BY <1>1, <1>2, <1>3, <1>4, <1>5, <1>6, <1>7, <1>8, <1>9

LEMMA TypedStep == Typed /\ [Next]_vars => Typed'
  BY CountsStep, BooleansStep, IoctlTypedStep, FlagsStep, EventStep, DeferredStep, StatusStep,
     NiTypedStep DEF Typed

\* The variables of the location engine hold values of their types, and an answer to
\* the modem is about an NI request that was made.
THEOREM TypeCorrect == Spec => []LeTypeOK
<1> QED
  BY TypedStep, TypedInit, TypedImpliesTypeOK, PTL DEF Spec

-----------------------------------------------------------------------------
(* The deferred-action thread.  What is proved holds in every state of the   *)
(* thread, whether a call of its own is under way or not.                   *)

\* Flags are set with the wake lock, and with a signal for the thread that waits.
FlagsSeen ==
  /\ deferred.pc = "wait" /\ ~signalled => deferred_action_flags = {}
  /\ AwakeWhilePending

LEMMA PostSeen ==
  ASSUME FlagsSeen, NEW flags, Post(flags),
         deferred'.pc = deferred.pc \/ (deferred.pc = "event" /\ deferred'.pc = "aiding")
  PROVE  FlagsSeen'
<1>1. CASE flags = {}
  BY <1>1 DEF FlagsSeen, AwakeWhilePending, Post
<1>2. CASE flags # {}
  BY <1>2 DEF FlagsSeen, AwakeWhilePending, Post
<1> QED
  BY <1>1, <1>2

LEMMA FlagsSeenStep == Typed /\ FlagsSeen /\ [Next]_vars => FlagsSeen'
<1> SUFFICES ASSUME Typed, FlagsSeen, [Next]_vars PROVE FlagsSeen'
  OBVIOUS
<1> USE DEF ioctlVars, ioctlData, deferredVars, stopVars, niVars, modemVars
<1>1. deferred \in [pc : {"start", "top", "wait", "event", "signal", "ni", "aiding", "atl", "stop",
                         "status"},
                   event : EventType, flags : SUBSET Flags,
                   status : {"none", "request", "release"}, aiding : BOOLEAN]
  BY DEF Typed, DeferredTyped
<1>2. CASE loc_eng_set_gps_lock
  BY <1>1, <1>2 DEF loc_eng_set_gps_lock, At, Goes, FlagsSeen, AwakeWhilePending
<1>3. CASE OtherEvent
  BY <1>1, <1>3 DEF OtherEvent, Handles, At, EventDone, FlagsSeen, AwakeWhilePending
<1>4. CASE ProcessIoctlReport
  BY <1>1, <1>4 DEF ProcessIoctlReport, Handles, At, EventDone, Goes, FlagsSeen,
     AwakeWhilePending
<1>5. CASE SignalCallback
  BY <1>1, <1>5 DEF SignalCallback, At, EventDone, FlagsSeen, AwakeWhilePending
<1>6. CASE NiRequestIgnored
  BY <1>1, <1>6 DEF NiRequestIgnored, Handles, At, EventDone, FlagsSeen, AwakeWhilePending
<1>7. CASE NiRequestLocks
  BY <1>1, <1>7 DEF NiRequestLocks, Handles, At, Goes, FlagsSeen, AwakeWhilePending
<1>8. CASE loc_ni_request_handler
  BY <1>1, <1>8 DEF loc_ni_request_handler, At, EventDone, FlagsSeen, AwakeWhilePending
<1>9. CASE loc_eng_delete_aiding_data_deferred_action
  BY <1>1, <1>9 DEF loc_eng_delete_aiding_data_deferred_action, At, FlagsSeen, AwakeWhilePending
<1>10. CASE loc_eng_process_atl_deferred_action
  BY <1>1, <1>10 DEF loc_eng_process_atl_deferred_action, At, FlagsSeen, AwakeWhilePending
<1>11. CASE DeferredStop
  BY <1>1, <1>11 DEF DeferredStop, At, Goes, FlagsSeen, AwakeWhilePending
<1>12. CASE ReportAgpsStatus
  BY <1>1, <1>12 DEF ReportAgpsStatus, At, DeferredAt, FlagsSeen, AwakeWhilePending
<1>13. CASE WaitForAction
  BY <1>1, <1>13 DEF WaitForAction, At, Goes, FlagsSeen, AwakeWhilePending
<1>14. CASE TakeActions
  BY <1>1, <1>14 DEF TakeActions, At, FlagsSeen, AwakeWhilePending
<1>15. CASE loc_eng_report_status
  <2>1. PICK flags : Post(flags)
    BY <1>15 DEF loc_eng_report_status
  <2>2. deferred.pc = "event" /\ deferred'.pc = "aiding"
    BY <1>1, <1>15 DEF loc_eng_report_status, Handles, At, EventDone
  <2> QED
    BY <2>1, <2>2, PostSeen
<1>16. CASE loc_eng_process_conn_request
  <2>1. PICK flags : Post(flags)
    BY <1>16 DEF loc_eng_process_conn_request
  <2>2. deferred.pc = "event" /\ deferred'.pc = "aiding"
    BY <1>1, <1>16 DEF loc_eng_process_conn_request, Handles, At, EventDone
  <2> QED
    BY <2>1, <2>2, PostSeen
<1>17. CASE ModemReports
  <2>1. PICK flags : Post(flags)
    BY <1>17 DEF ModemReports, loc_event_cb
  <2>2. UNCHANGED deferred
    BY <1>17 DEF ModemReports
  <2> QED
    BY <2>1, <2>2, PostSeen
<1>18. CASE loc_eng_delete_aiding_data
  <2>1. PICK flags : Post(flags)
    BY <1>18 DEF loc_eng_delete_aiding_data
  <2>2. UNCHANGED deferred
    BY <1>18 DEF loc_eng_delete_aiding_data
  <2> QED
    BY <2>1, <2>2, PostSeen
<1>19. CASE loc_eng_agps_data_conn
  <2>1. PICK flags : Post(flags)
    BY <1>19 DEF loc_eng_agps_data_conn
  <2>2. UNCHANGED deferred
    BY <1>19 DEF loc_eng_agps_data_conn
  <2> QED
    BY <2>1, <2>2, PostSeen
<1>20. CASE UNCHANGED <<deferred, deferred_action_flags, wakelock, signalled>>
  BY <1>20 DEF FlagsSeen, AwakeWhilePending
<1> QED
  BY <1>2, <1>3, <1>4, <1>5, <1>6, <1>7, <1>8, <1>9, <1>10, <1>11, <1>12, <1>13, <1>14, <1>15,
     <1>16, <1>17, <1>18, <1>19, <1>20, LocEngAssumption, Zenon DEF Next,
     loc_eng_process_deferred_action, loc_ni_thread_proc, UserStep, JavaStep, IoctlOf, NiTick,
     NiTimedOut, loc_eng_ni_respond, loc_ni_respond, loc_ni_process_user_response,
     loc_eng_start, loc_start_fix, loc_eng_stop, loc_stop_fix, vars

LEMMA FlagsSeenAlways == Spec => []FlagsSeen
<1>1. Init => FlagsSeen
  BY DEF Init, FlagsSeen, AwakeWhilePending, DeferredAt
<1> QED
  BY <1>1, TypedInit, TypedStep, FlagsSeenStep, PTL DEF Spec

\* The deferred-action thread does not sleep on something to do.  ActionNotLost speaks
\* of the thread between its calls only, which a step of a call would not preserve.
THEOREM ActionsSeen == Spec => []ActionNotLost
<1>1. FlagsSeen => ActionNotLost
  BY DEF FlagsSeen, ActionNotLost, At
<1> QED
  BY <1>1, FlagsSeenAlways, PTL

\* The wake lock is held while there is something to do.
THEOREM StaysAwake == Spec => []AwakeWhilePending
<1>1. FlagsSeen => AwakeWhilePending
  BY DEF FlagsSeen
<1> QED
  BY <1>1, FlagsSeenAlways, PTL

-----------------------------------------------------------------------------
(* The notifications. *)

\* The NI thread answers under the lock, so that nobody ends the notification or
\* replaces the request before the answer is sent.
Answering ==
  /\ ni = "respond" <=> loc_ni_lock = "ni"
  /\ ni = "respond" => notif_in_progress
  /\ ~NoCall("ni") => ni = "respond" /\ io["ni"].req = loc_ni_request
  /\ NotificationTimed

\* The steps of a call of the NI thread keep what it answers.
LEMMA CallKeepsRequest ==
  ASSUME IoctlTyped, NEW t \in IoctlThreads, IoctlOf(t)
  PROVE  /\ io'["ni"].req = io["ni"].req \/ NoCall("ni")'
         /\ NoCall("ni") => NoCall("ni")'
<1> USE LocEngAssumption DEF IoctlOf, IoctlTyped, NoCall, NoIoctl
<1>1. CASE loc_eng_ioctl_setup_cb(t)
  BY <1>1 DEF loc_eng_ioctl_setup_cb
<1>2. CASE loc_ioctl(t)
  BY <1>2 DEF loc_ioctl
<1>3. CASE loc_eng_ioctl_wait_cb(t)
  BY <1>3 DEF loc_eng_ioctl_wait_cb
<1>4. CASE WaitTimesOut(t)
  BY <1>4 DEF WaitTimesOut
<1>5. CASE ResetState(t)
  BY <1>5 DEF ResetState
<1> QED
  BY <1>1, <1>2, <1>3, <1>4, <1>5 DEF IoctlStep

LEMMA AnsweringStep == Typed /\ Answering /\ [Next]_vars => Answering'
<1> SUFFICES ASSUME Typed, Answering, [Next]_vars PROVE Answering'
  OBVIOUS
<1> USE LocEngAssumption DEF ioctlVars, ioctlData, deferredVars, stopVars, niVars, modemVars, Typed,
         Answering, NotificationTimed
<1>1. IoctlTyped /\ NiTyped
  OBVIOUS
<1>2. ASSUME NEW t \in IoctlThreads, IoctlOf(t) PROVE Answering'
  BY <1>2, CallKeepsRequest DEF IoctlOf
<1>3. CASE loc_eng_set_gps_lock
  <2>1. UNCHANGED <<niVars, ni, io["ni"]>>
    BY <1>3, <1>1 DEF loc_eng_set_gps_lock, loc_eng_ioctl, IoctlTyped
  <2> QED
    BY <2>1 DEF NoCall
<1>4. CASE loc_eng_delete_aiding_data_deferred_action
  <2>1. UNCHANGED <<niVars, ni, io["ni"]>>
    BY <1>4, <1>1 DEF loc_eng_delete_aiding_data_deferred_action, loc_eng_ioctl, IoctlTyped
  <2> QED
    BY <2>1 DEF NoCall
<1>5. CASE loc_eng_process_atl_deferred_action
  <2>1. UNCHANGED <<niVars, ni, io["ni"]>>
    BY <1>5, <1>1 DEF loc_eng_process_atl_deferred_action, loc_eng_ioctl, IoctlTyped
  <2> QED
    BY <2>1 DEF NoCall
<1>6. CASE loc_ni_respond
  <2>1. UNCHANGED <<niVars, ni, io["ni"]>>
    BY <1>6, <1>1 DEF loc_ni_respond, loc_eng_ioctl, IoctlTyped
  <2> QED
    BY <2>1 DEF NoCall
<1>7. CASE loc_eng_start
  <2>1. UNCHANGED <<niVars, ni, io["ni"]>>
    BY <1>7, <1>1 DEF loc_eng_start, loc_eng_ioctl, IoctlTyped
  <2> QED
    BY <2>1 DEF NoCall
<1>8. CASE SignalCallback
  <2>1. UNCHANGED <<niVars, ni>> /\ io'["ni"].req = io["ni"].req /\ (NoCall("ni") => NoCall("ni")')
    BY <1>8, <1>1 DEF SignalCallback, SignalArrived, Waiting, NoCall, IoctlTyped
  <2> QED
    BY <2>1 DEF NoCall
<1>9. CASE loc_ni_request_handler
  BY <1>9 DEF loc_ni_request_handler, NoCall
<1>10. CASE NiTick
  BY <1>10, <1>1 DEF NiTick, loc_eng_ioctl, NoCall, IoctlTyped, NiTyped
<1>11. CASE NiTimedOut
  BY <1>11 DEF NiTimedOut, NoCall
<1>12. CASE loc_ni_process_user_response
  BY <1>12 DEF loc_ni_process_user_response, NoCall
<1>13. CASE ModemReports
  <2>1. UNCHANGED <<niVars, ni, io>>
    BY <1>13 DEF ModemReports
  <2> QED
    BY <2>1 DEF NoCall
<1>14. CASE UNCHANGED <<niVars, ni, io>>
  BY <1>14 DEF NoCall
<1> QED
  BY <1>2, <1>3, <1>4, <1>5, <1>6, <1>7, <1>8, <1>9, <1>10, <1>11, <1>12, <1>13, <1>14,
     Zenon DEF Next, loc_eng_process_deferred_action, loc_ni_thread_proc, UserStep, JavaStep,
     WaitForAction, TakeActions, OtherEvent, loc_eng_report_status,
     loc_eng_process_conn_request, ProcessIoctlReport, NiRequestIgnored, NiRequestLocks,
     DeferredStop, ReportAgpsStatus, loc_eng_ni_respond, loc_start_fix, loc_eng_stop,
     loc_stop_fix, loc_eng_delete_aiding_data, loc_eng_agps_data_conn, vars

LEMMA AnsweringAlways == Spec => []Answering
<1>1. Init => Answering
  BY LocEngAssumption DEF Init, IoctlInit, Answering, NotificationTimed, NoCall, NoIoctl
<1> QED
  BY <1>1, TypedInit, TypedStep, AnsweringStep, PTL DEF Spec

\* A notification in progress always has its time-out, whenever the answer to the one
\* before comes.
THEOREM AlwaysTimed == Spec => []NotificationTimed
<1>1. Answering => NotificationTimed
  BY DEF Answering
<1> QED
  BY <1>1, AnsweringAlways, PTL

\* When the time is over, the answer is about the request the user was asked about.
THEOREM RightAnswer == Spec => []TimeoutAnswersItsRequest
<1>1. Answering => TimeoutAnswersItsRequest
  BY DEF Answering, TimeoutAnswersItsRequest
<1> QED
  BY <1>1, AnsweringAlways, PTL

===============================================================================
