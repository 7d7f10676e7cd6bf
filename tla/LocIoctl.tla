-------------------------------- MODULE LocIoctl --------------------------------
(***************************************************************************)
(* The ioctl calls of the GPS location engine, loc_eng_ioctl.cpp: a thread   *)
(* selects the callback it waits for, sends the request to the modem and    *)
(* waits for a limited time.  There is one place for the callback, shared    *)
(* by all threads.  The callback itself comes as an event: LocEng extends    *)
(* this module.  No caller looks at the result of a call, so that the        *)
(* payload of the callback is left out.                                     *)
(***************************************************************************)
EXTENDS Naturals, FiniteSets

CONSTANTS IoctlThreads   \* threads that make calls

VARIABLES
  cb_is_selected, cb_has_arrived,
  ioctl_type,      \* the type of callback that is waited for
  io,              \* [thread -> its call, and the NI request it answers]
  sent             \* the types of the calls the modem has not answered

ioctlData == <<cb_is_selected, cb_has_arrived, ioctl_type>>
ioctlVars == <<ioctlData, io, sent>>

IoctlTypes == {"none", "lock", "aiding", "atl", "ni", "server"}
NoIoctl == [pc |-> "none", type |-> "none", req |-> 0]

IoctlInit ==
  /\ cb_is_selected = FALSE /\ cb_has_arrived = FALSE /\ ioctl_type = "none"
  /\ io = [t \in IoctlThreads |-> NoIoctl] /\ sent = {}

NoCall(t) == io[t].pc = "none"
Waiting == {t \in IoctlThreads : io[t].pc = "waiting"}

\* A thread begins a call.
loc_eng_ioctl(t, type, req) ==
  io' = [io EXCEPT ![t] = [pc |-> "setup", type |-> type, req |-> req]]

-----------------------------------------------------------------------------
(* The steps of a call. *)

\* A call that finds another one in progress fails, but resets the state in the end.
loc_eng_ioctl_setup_cb(t) ==
  /\ io[t].pc = "setup" /\ cb_is_selected
  /\ io' = [io EXCEPT ![t].pc = "reset"]
  /\ UNCHANGED <<ioctlData, sent>>

\* Otherwise the callback is selected and loc_ioctl reaches the modem, or fails.
loc_ioctl(t) ==
  /\ io[t].pc = "setup" /\ ~cb_is_selected
  /\ cb_is_selected' = TRUE /\ cb_has_arrived' = FALSE /\ ioctl_type' = io[t].type
  /\ \/ sent' = sent \cup {io[t].type} /\ io' = [io EXCEPT ![t].pc = "wait"]
     \/ io' = [io EXCEPT ![t].pc = "reset"] /\ UNCHANGED sent

\* The callback may have come before the thread waits for it, and another call
\* may have taken the selection away.
loc_eng_ioctl_wait_cb(t) ==
  /\ io[t].pc = "wait"
  /\ io' = [io EXCEPT ![t].pc = IF cb_is_selected /\ ~cb_has_arrived THEN "waiting" ELSE "reset"]
  /\ UNCHANGED <<ioctlData, sent>>

\* Mutant of WaitTimesOut: the wait has no limit.
WaitsForCallback(t) == io[t].pc = "waiting" /\ cb_has_arrived /\ UNCHANGED ioctlVars

WaitTimesOut(t) ==
  /\ io[t].pc = "waiting"
  /\ io' = [io EXCEPT ![t].pc = "reset"]
  /\ UNCHANGED <<ioctlData, sent>>

\* The call returns; the state is reset, whoever selected it.
ResetState(t) ==
  /\ io[t].pc = "reset"
  /\ cb_is_selected' = FALSE /\ cb_has_arrived' = FALSE
  /\ io' = [io EXCEPT ![t] = NoIoctl]
  /\ UNCHANGED <<ioctl_type, sent>>

IoctlStep(t) ==
  \/ loc_eng_ioctl_setup_cb(t) \/ loc_ioctl(t) \/ loc_eng_ioctl_wait_cb(t) \/ WaitTimesOut(t)
  \/ ResetState(t)

-----------------------------------------------------------------------------
(* The callback. *)

\* It is accepted when its type is the one that is waited for ...
loc_eng_ioctl_process_cb(type) == cb_has_arrived' = (cb_has_arrived \/ type = ioctl_type)

\* ... and a signal then wakes one of the threads that wait.
SignalArrived ==
  IF Waiting = {} THEN UNCHANGED io
  ELSE \E t \in Waiting : io' = [io EXCEPT ![t].pc = "reset"]

=============================================================================
