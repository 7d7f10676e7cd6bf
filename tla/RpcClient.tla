------------------------------- MODULE RpcClient -------------------------------
(***************************************************************************)
(* The client side of the RPC library, hardware/msm7k/librpc/clnt.c.        *)
(*                                                                          *)
(* Any thread may make a call on a client; client->lock lets one call at a  *)
(* time through.  One receive thread reads the messages of all clients.  A  *)
(* reply wakes the thread that waits for it.  A call that arrives on a      *)
(* client (a callback) goes to that client's callback thread, which is      *)
(* started by the first one, and which hands it to the server registered    *)
(* for it.  A client has a single input buffer, in_msg: input_xdr_busy      *)
(* keeps the receive thread from reading into it before the thread the last *)
(* message was for is done with it.                                         *)
(*                                                                          *)
(* A client is named by its descriptor, which a client created later may    *)
(* get again.  The order of the list of clients is left out: the receive    *)
(* thread serves those that are ready in any order.  Who holds a mutex is   *)
(* told by the program counters.  The thread that creates or destroys a     *)
(* client owns it: nobody else makes a call on a client that is being       *)
(* destroyed, except a callback's handler.                                  *)
(***************************************************************************)
EXTENDS Naturals, Sequences

CONSTANTS
  Clients,
  CalledBack,      \* the clients on which calls arrive
  NULL,
  Callers,         \* threads of the program
  MaxCreates,      \* bound: clients created
  MaxCalls,        \* bound: calls made by the program's threads
  MaxHandlerCalls, \* bound: calls made by handlers
  MaxCallbacks,    \* bound: calls that arrive
  MaxCuts          \* bound: calls cut short, by a write that fails or a wake-up from
                   \* pthread_cond_wait without a signal

\* The callback thread of a client is named by the client.
Threads == Callers \cup CalledBack

ASSUME RpcClientAssumption ==
  /\ Callers \cap Clients = {} /\ NULL \notin Clients
  /\ {"rx", "told", "cb"} \cap Threads = {}
  /\ CalledBack \subseteq Clients
  /\ {MaxCreates, MaxCalls, MaxHandlerCalls, MaxCallbacks, MaxCuts} \subseteq Nat

VARIABLES
  cl,        \* [Clients -> the fields of struct CLIENT and of its xdr, see Fresh]
  clients,   \* the clients in the list; also rx_fdset and num_clients
  rx,        \* where the receive thread is
  rfds,      \* its copy of the descriptors, and what select leaves of them
  serving,   \* the client the receive thread is at
  scan,      \* the clients of rfds still to be served after it
  pc,        \* [Threads -> where the thread is in clnt_call or clnt_destroy]
  on,        \* [Threads -> the client of that call]
  served,    \* the clients for whose callbacks a server is registered
  wakeLock,  \* is the wake lock "rpc-interface" held?
  dropped,   \* was a client destroyed before its callback thread was done?
  used       \* how much of each bound is used up

vars == <<cl, clients, rx, rfds, serving, scan, pc, on, served, wakeLock, dropped, used>>

NoMessage == [type |-> "none", id |-> 0]
Reply(x) == [type |-> "reply", id |-> x]
CallMessage(x) == [type |-> "call", id |-> x]

\* A new client.  sent, asked and inbox belong to the modem and the driver; cut and
\* unserved say whether a call on the client was ever cut short, by a failed write or
\* a spurious wake-up, and whether a callback found no server; the last callback
\* dispatched is recorded in dispatched.
Fresh ==
  [ alive |-> TRUE, input_xdr_busy |-> FALSE, in_msg |-> NoMessage, xid |-> 0,
    got_cb |-> FALSE, cb_stop |-> "unstarted", cb |-> "none",
    inbox |-> <<>>, asked |-> {}, sent |-> 0,
    dispatched |-> 0, cut |-> FALSE, unserved |-> FALSE ]

Init ==
  /\ cl = [c \in Clients |-> [Fresh EXCEPT !.alive = FALSE]]
  /\ clients = {}
  /\ rx = "exited" /\ rfds = {} /\ serving = NULL /\ scan = {}
  /\ pc = [t \in Threads |-> "idle"]
  /\ on = [t \in Threads |-> NULL]
  /\ served = {}
  /\ wakeLock = FALSE /\ dropped = FALSE
  /\ used = [creates |-> 0, calls |-> 0, handlers |-> 0, callbacks |-> 0, cuts |-> 0]

Use(bound) == used' = [used EXCEPT ![bound] = @ + 1]
Goto(t, label) == pc' = [pc EXCEPT ![t] = label]
Call(t, c, label) == Goto(t, label) /\ on' = [on EXCEPT ![t] = c]
Return(t) == Call(t, NULL, "idle")

-----------------------------------------------------------------------------
(* Mutexes. *)

Calling(t, c, labels) == on[t] = c /\ pc[t] \in labels
Destroying == {"stop", "joincb", "unlink", "joinrx", "dispose"}

ClientLockFree(c) ==
  \A t \in Threads : ~ Calling(t, c, {"begun", "sent", "waiting", "woken", "decode", "free"} \cup Destroying)
WaitReplyLockFree(c) == \A t \in Threads : ~ Calling(t, c, {"sent", "decode", "free"})
WaitCbLockFree(c) == cl[c].cb \notin {"loop", "handle", "dispatch"}
InputLockFree(c) == ~ (rx = "read" /\ serving = c)
RxMutexFree ==
  /\ rx \notin {"scan", "read", "reply", "call"}
  /\ \A t \in Threads : pc[t] # "joinrx"

-----------------------------------------------------------------------------
(* clnt_call. *)

\* A handler calls on the client its callback came on.
Calls(t, c) ==
  \/ /\ t \in Callers /\ \A u \in Threads : ~ Calling(u, c, Destroying)
     /\ used.calls < MaxCalls /\ Use("calls")
  \/ /\ t = c /\ cl[c].cb = "dispatch"
     /\ used.handlers < MaxHandlerCalls /\ Use("handlers")

Enter(t, c) ==
  /\ pc[t] = "idle" /\ cl[c].alive /\ Calls(t, c)
  /\ Call(t, c, "enter")
  /\ UNCHANGED <<cl, clients, rx, rfds, serving, scan, served, wakeLock, dropped>>

\* The lock and the encoding of the call, which may fail.
Begin(t) ==
  LET c == on[t] IN
  /\ pc[t] = "enter" /\ cl[c].alive /\ ClientLockFree(c)
  /\ cl' = [cl EXCEPT ![c].xid = @ + 1]
  /\ \/ Goto(t, "begun") /\ UNCHANGED on
     \/ Return(t)
  /\ UNCHANGED <<clients, rx, rfds, serving, scan, served, wakeLock, dropped, used>>

Send(t) ==
  LET c == on[t] IN
  /\ pc[t] = "begun" /\ WaitReplyLockFree(c)
  /\ \/ /\ cl' = [cl EXCEPT ![c].asked = @ \cup {cl[c].xid}]
        /\ Goto(t, "sent") /\ UNCHANGED used
     \/ /\ used.cuts < MaxCuts /\ Use("cuts")
        /\ cl' = [cl EXCEPT ![c].cut = TRUE]
        /\ Goto(t, "free")
  /\ UNCHANGED <<clients, rx, rfds, serving, scan, on, served, wakeLock, dropped>>

Wait(t) ==
  /\ pc[t] = "sent" /\ Goto(t, "waiting")
  /\ UNCHANGED <<cl, clients, rx, rfds, serving, scan, on, served, wakeLock, dropped, used>>

SpuriousWakeup(t) ==
  /\ pc[t] = "waiting" /\ used.cuts < MaxCuts /\ Use("cuts")
  /\ cl' = [cl EXCEPT ![on[t]].cut = TRUE]
  /\ Goto(t, "woken")
  /\ UNCHANGED <<clients, rx, rfds, serving, scan, on, served, wakeLock, dropped>>

\* The end of the wait: wait_reply_lock is taken again.
Reacquire(t) ==
  /\ pc[t] = "woken" /\ WaitReplyLockFree(on[t]) /\ Goto(t, "decode")
  /\ UNCHANGED <<cl, clients, rx, rfds, serving, scan, on, served, wakeLock, dropped, used>>

\* The buffer is free again, after what it holds was decoded, or found not to be the
\* reply to this call, or after the write failed.
FreeInput(t) ==
  LET c == on[t] IN
  /\ pc[t] \in {"decode", "free"} /\ InputLockFree(c)
  /\ cl' = [cl EXCEPT ![c].input_xdr_busy = FALSE]
  /\ Return(t)
  /\ UNCHANGED <<clients, rx, rfds, serving, scan, served, wakeLock, dropped, used>>

clnt_call(t) ==
  \/ Begin(t) \/ Send(t) \/ Wait(t) \/ Reacquire(t) \/ FreeInput(t)

-----------------------------------------------------------------------------
(* The receive thread. *)

RxCheck ==
  /\ rx = "check" /\ rx' = IF clients = {} THEN "exited" ELSE "copy"
  /\ UNCHANGED <<cl, clients, rfds, serving, scan, pc, on, served, wakeLock, dropped, used>>

RxCopy ==
  /\ rx = "copy" /\ RxMutexFree
  /\ rfds' = clients /\ rx' = "select"
  /\ UNCHANGED <<cl, clients, serving, scan, pc, on, served, wakeLock, dropped, used>>

\* select finds descriptors to read, or times out, or fails on one that was closed.
RxSelect ==
  LET ready == {c \in rfds : cl[c].alive /\ cl[c].inbox # <<>>} IN
  /\ rx = "select"
  /\ \/ ready # {} /\ rfds' = ready /\ rx' = "lock"
     \/ /\ ready = {} \/ \E c \in rfds : ~ cl[c].alive
        /\ rfds' = {} /\ rx' = "check"
  /\ UNCHANGED <<cl, clients, serving, scan, pc, on, served, wakeLock, dropped, used>>

\* On to the next client; past the last one rx_mutex is released.
Serve(S) ==
  \/ /\ S = {} /\ rx' = "check" /\ serving' = NULL /\ scan' = {}
  \/ \E c \in S : rx' = "scan" /\ serving' = c /\ scan' = S \ {c}

RxLock ==
  /\ rx = "lock" /\ RxMutexFree
  /\ Serve(clients \cap rfds)
  /\ rfds' = {}
  /\ UNCHANGED <<cl, clients, pc, on, served, wakeLock, dropped, used>>

\* Mutant of RxClaim: the buffer is not waited for.
RxClaimAnyway ==
  /\ rx = "scan"
  /\ wakeLock' = TRUE /\ rx' = "read"
  /\ UNCHANGED <<cl, clients, rfds, serving, scan, pc, on, served, dropped, used>>

\* The wait for the buffer; then the wake lock is taken, with input_xdr_lock held.
RxClaim ==
  /\ rx = "scan" /\ ~ cl[serving].input_xdr_busy
  /\ wakeLock' = TRUE /\ rx' = "read"
  /\ UNCHANGED <<cl, clients, rfds, serving, scan, pc, on, served, dropped, used>>

\* The read blocks while there is nothing to read.
RxRead ==
  LET c == serving IN
  /\ rx = "read" /\ cl[c].inbox # <<>>
  /\ cl' = [cl EXCEPT ![c].in_msg = Head(cl[c].inbox), ![c].inbox = Tail(cl[c].inbox),
                      ![c].input_xdr_busy = TRUE]
  /\ rx' = IF Head(cl[c].inbox).type = "reply" THEN "reply" ELSE "call"
  /\ UNCHANGED <<clients, rfds, serving, scan, pc, on, served, wakeLock, dropped, used>>

\* Mutant of RxReply: the signal is given without wait_reply_lock.
RxReplyUnlocked ==
  LET c == serving IN
  /\ rx = "reply"
  /\ pc' = [t \in Threads |-> IF Calling(t, c, {"waiting"}) THEN "woken" ELSE pc[t]]
  /\ wakeLock' = FALSE
  /\ Serve(scan)
  /\ UNCHANGED <<cl, clients, rfds, on, served, dropped, used>>

RxReply ==
  LET c == serving IN
  /\ rx = "reply" /\ WaitReplyLockFree(c)
  /\ pc' = [t \in Threads |-> IF Calling(t, c, {"waiting"}) THEN "woken" ELSE pc[t]]
  /\ wakeLock' = FALSE
  /\ Serve(scan)
  /\ UNCHANGED <<cl, clients, rfds, on, served, dropped, used>>

\* The first callback starts the callback thread, the others wake it.
RxCall ==
  LET c == serving IN
  /\ rx = "call" /\ WaitCbLockFree(c)
  /\ cl' = [cl EXCEPT ![c].got_cb = TRUE,
                      ![c].cb_stop = IF cl[c].cb_stop = "unstarted" THEN "run" ELSE cl[c].cb_stop,
                      ![c].cb = IF cl[c].cb_stop = "unstarted" THEN "start"
                                ELSE IF cl[c].cb = "wait" THEN "woken" ELSE cl[c].cb]
  /\ Serve(scan)
  /\ UNCHANGED <<clients, rfds, pc, on, served, wakeLock, dropped, used>>

rx_context ==
  \/ RxCheck \/ RxCopy \/ RxSelect \/ RxLock \/ RxClaim \/ RxRead \/ RxReply \/ RxCall

-----------------------------------------------------------------------------
(* The callback thread of c.  What a thread does whose client was freed under it is *)
(* undefined, and not modelled.                                                     *)

\* Mutant of CbLoop: got_cb is not reset.
CbLoopKeepsFlag(c) ==
  /\ cl[c].cb \in {"start", "loop"} /\ cl[c].alive
  /\ cl' = [cl EXCEPT ![c].cb = IF cl[c].cb_stop = "stop" THEN "ended"
                                ELSE IF cl[c].got_cb THEN "handle" ELSE "wait"]
  /\ UNCHANGED <<clients, rx, rfds, serving, scan, pc, on, served, wakeLock, dropped, used>>

\* The head of the loop, with wait_cb_lock held, which a new thread takes first.
CbLoop(c) ==
  /\ cl[c].cb \in {"start", "loop"} /\ cl[c].alive
  /\ cl' = [cl EXCEPT ![c].cb = IF cl[c].cb_stop = "stop" THEN "ended"
                                ELSE IF cl[c].got_cb THEN "handle" ELSE "wait",
                      ![c].got_cb = cl[c].got_cb /\ cl[c].cb_stop = "stop"]
  /\ UNCHANGED <<clients, rx, rfds, serving, scan, pc, on, served, wakeLock, dropped, used>>

\* The end of the wait: with a callback it is handled without another look at cb_stop.
CbWake(c) ==
  /\ cl[c].cb = "woken" /\ cl[c].alive
  /\ cl' = [cl EXCEPT ![c].cb = IF cl[c].got_cb THEN "handle" ELSE "loop",
                      ![c].got_cb = FALSE]
  /\ UNCHANGED <<clients, rx, rfds, serving, scan, pc, on, served, wakeLock, dropped, used>>

\* The message is copied for the server and the buffer is free again.
CbHandOver(c) ==
  /\ cl[c].cb = "handle" /\ cl[c].alive
  /\ c \in served /\ cl[c].in_msg.type = "call" /\ InputLockFree(c)
  /\ cl' = [cl EXCEPT ![c].input_xdr_busy = FALSE, ![c].cb = "dispatch",
                      ![c].dispatched = cl[c].in_msg.id]
  /\ UNCHANGED <<clients, rx, rfds, serving, scan, pc, on, served, wakeLock, dropped, used>>

\* Mutant of CbUnserved: the wake lock is kept.
CbUnservedAwake(c) ==
  /\ cl[c].cb = "handle" /\ cl[c].alive
  /\ ~ (c \in served /\ cl[c].in_msg.type = "call")
  /\ cl' = [cl EXCEPT ![c].cb = "loop", ![c].unserved = TRUE]
  /\ UNCHANGED <<clients, rx, rfds, serving, scan, pc, on, served, wakeLock, dropped, used>>

\* No server is registered for what the buffer holds: it stays marked as in use.
CbUnserved(c) ==
  /\ cl[c].cb = "handle" /\ cl[c].alive
  /\ ~ (c \in served /\ cl[c].in_msg.type = "call")
  /\ cl' = [cl EXCEPT ![c].cb = "loop", ![c].unserved = TRUE]
  /\ wakeLock' = FALSE
  /\ UNCHANGED <<clients, rx, rfds, serving, scan, pc, on, served, dropped, used>>

\* The handler has returned.
CbDispatched(c) ==
  /\ cl[c].cb = "dispatch" /\ cl[c].alive /\ pc[c] = "idle"
  /\ cl' = [cl EXCEPT ![c].cb = "loop"]
  /\ wakeLock' = FALSE
  /\ UNCHANGED <<clients, rx, rfds, serving, scan, pc, on, served, dropped, used>>

cb_context(c) ==
  CbLoop(c) \/ CbWake(c) \/ CbHandOver(c) \/ CbUnserved(c) \/ CbDispatched(c)

-----------------------------------------------------------------------------
(* clnt_create and clnt_destroy. *)

CbRunning(c) == cl[c].cb \notin {"none", "ended"}

\* One step: rx_mutex is held throughout.  The first client starts the receive thread.
clnt_create(c) ==
  /\ ~ cl[c].alive /\ ~ CbRunning(c) /\ RxMutexFree
  /\ used.creates < MaxCreates /\ Use("creates")
  /\ cl' = [cl EXCEPT ![c] = Fresh]
  /\ clients' = clients \cup {c}
  /\ rx' = IF clients = {} THEN "check" ELSE rx
  /\ UNCHANGED <<rfds, serving, scan, pc, on, served, wakeLock, dropped>>

\* client->lock is taken; a callback thread that runs is told to stop.
DestroyBegin(t, c) ==
  /\ t \in Callers /\ pc[t] = "idle"
  /\ cl[c].alive /\ ClientLockFree(c)
  /\ \A u \in Callers : ~ Calling(u, c, {"enter"})
  /\ IF cl[c].cb_stop = "run"
     THEN cl' = [cl EXCEPT ![c].cb_stop = "stop"] /\ Call(t, c, "stop")
     ELSE UNCHANGED cl /\ Call(t, c, "unlink")
  /\ UNCHANGED <<clients, rx, rfds, serving, scan, served, wakeLock, dropped, used>>

DestroySignals(t) ==
  LET c == on[t] IN
  /\ pc[t] = "stop" /\ WaitCbLockFree(c)
  /\ cl' = [cl EXCEPT ![c].cb = IF @ = "wait" THEN "woken" ELSE @]
  /\ Goto(t, "joincb")
  /\ UNCHANGED <<clients, rx, rfds, serving, scan, on, served, wakeLock, dropped, used>>

DestroyJoinsCb(t) ==
  /\ pc[t] = "joincb" /\ cl[on[t]].cb = "ended" /\ Goto(t, "unlink")
  /\ UNCHANGED <<cl, clients, rx, rfds, serving, scan, on, served, wakeLock, dropped, used>>

\* The last client's destruction waits for the receive thread, with rx_mutex held.
DestroyUnlinks(t) ==
  /\ pc[t] = "unlink" /\ RxMutexFree
  /\ clients' = clients \ {on[t]}
  /\ Goto(t, IF clients' = {} THEN "joinrx" ELSE "dispose")
  /\ UNCHANGED <<cl, rx, rfds, serving, scan, on, served, wakeLock, dropped, used>>

DestroyJoinsRx(t) ==
  /\ pc[t] = "joinrx" /\ rx = "exited" /\ Goto(t, "dispose")
  /\ UNCHANGED <<cl, clients, rx, rfds, serving, scan, on, served, wakeLock, dropped, used>>

\* The descriptor is closed and the client freed.
DestroyFrees(t) ==
  LET c == on[t] IN
  /\ pc[t] = "dispose"
  /\ cl' = [cl EXCEPT ![c] = [Fresh EXCEPT !.alive = FALSE, !.cb = cl[c].cb, !.cb_stop = cl[c].cb_stop]]
  /\ dropped' = (dropped \/ cl[c].got_cb \/ cl[c].cb \in {"handle", "dispatch"})
  /\ Return(t)
  /\ UNCHANGED <<clients, rx, rfds, serving, scan, served, wakeLock, used>>

clnt_destroy(t) ==
  \/ DestroySignals(t) \/ DestroyJoinsCb(t) \/ DestroyUnlinks(t)
  \/ DestroyJoinsRx(t) \/ DestroyFrees(t)

-----------------------------------------------------------------------------
(* The modem, and svc_register for the callbacks of c: the GPS glue registers its *)
(* server after it has created its client.                                        *)

svc_register(c) ==
  /\ cl[c].alive /\ c \notin served /\ served' = served \cup {c}
  /\ UNCHANGED <<cl, clients, rx, rfds, serving, scan, pc, on, wakeLock, dropped, used>>

ModemReplies(c) ==
  \E x \in cl[c].asked :
    /\ cl[c].alive
    /\ cl' = [cl EXCEPT ![c].asked = @ \ {x}, ![c].inbox = Append(cl[c].inbox, Reply(x))]
    /\ UNCHANGED <<clients, rx, rfds, serving, scan, pc, on, served, wakeLock, dropped, used>>

ModemCalls(c) ==
  /\ cl[c].alive /\ used.callbacks < MaxCallbacks /\ Use("callbacks")
  /\ cl' = [cl EXCEPT ![c].sent = @ + 1, ![c].inbox = Append(cl[c].inbox, CallMessage(cl[c].sent + 1))]
  /\ UNCHANGED <<clients, rx, rfds, serving, scan, pc, on, served, wakeLock, dropped>>

-----------------------------------------------------------------------------

CallerStep(t) ==
  \/ \E c \in Clients : Enter(t, c) \/ DestroyBegin(t, c)
  \/ clnt_call(t) \/ SpuriousWakeup(t) \/ clnt_destroy(t)

Next ==
  \/ \E t \in Threads : CallerStep(t)
  \/ rx_context
  \/ \E c \in Clients : clnt_create(c) \/ ModemReplies(c)
  \/ \E c \in CalledBack : cb_context(c) \/ svc_register(c) \/ ModemCalls(c)

Fairness ==
  /\ \A t \in Threads : WF_vars(clnt_call(t) \/ clnt_destroy(t))
  /\ WF_vars(rx_context)
  /\ \A c \in CalledBack : WF_vars(cb_context(c))
  /\ WF_vars(\E c \in Clients : ModemReplies(c))

Spec == Init /\ [][Next]_vars /\ Fairness
-----------------------------------------------------------------------------
(* Properties. *)

\* Every variable has its type.
Messages == [type : {"reply", "call"}, id : Nat]
RpcTypeOK ==
  /\ cl \in [Clients ->
       [ alive : BOOLEAN, input_xdr_busy : BOOLEAN, in_msg : Messages \cup {NoMessage},
         xid : Nat, got_cb : BOOLEAN, cb_stop : {"unstarted", "run", "stop"},
         cb : {"none", "start", "loop", "wait", "woken", "handle", "dispatch", "ended"},
         inbox : Seq(Messages), asked : SUBSET Nat, sent : Nat, dispatched : Nat,
         cut : BOOLEAN, unserved : BOOLEAN ]]
  /\ clients \subseteq Clients /\ rfds \subseteq Clients /\ scan \subseteq Clients
  /\ rx \in {"exited", "check", "copy", "select", "lock", "scan", "read", "reply", "call"}
  /\ serving \in Clients \cup {NULL}
  /\ pc \in [Threads -> {"idle", "enter", "begun", "sent", "waiting", "woken", "decode", "free"}
                         \cup Destroying]
  /\ on \in [Threads -> Clients \cup {NULL}]
  /\ served \subseteq Clients
  /\ wakeLock \in BOOLEAN /\ dropped \in BOOLEAN
  /\ used \in [{"creates", "calls", "handlers", "callbacks", "cuts"} -> Nat]

\* Who is to be done with the message in c's buffer before the next one is read: the
\* receive thread still passing it on, the callback thread told of it, or the thread
\* whose reply it is.
Consumers(c) ==
  {k \in {"rx", "told", "cb"} \cup Threads :
     \/ k = "rx" /\ rx \in {"reply", "call"} /\ serving = c
     \/ k = "told" /\ cl[c].got_cb /\ cl[c].cb # "ended"
     \/ k = "cb" /\ cl[c].cb = "handle"
     \/ k \in Threads /\ Calling(k, c, {"woken", "decode"})}

\* Unless a call on the client was cut short, the buffer has one consumer at most, is
\* marked as in use as long as it has one, and holds what it is to consume: a thread
\* that stops waiting finds the reply to its own call.  It stays in use without a
\* consumer only after a callback no server was registered for, or when the callback
\* thread was stopped.
BufferAccounted ==
  \A c \in Clients : cl[c].alive /\ ~ cl[c].cut =>
    /\ \A k, l \in Consumers(c) : k = l
    /\ Consumers(c) # {} => cl[c].input_xdr_busy
    /\ "cb" \in Consumers(c) => cl[c].in_msg.type = "call"
    /\ Consumers(c) \cap Threads # {} => cl[c].in_msg = Reply(cl[c].xid)
    /\ cl[c].input_xdr_busy => Consumers(c) # {} \/ cl[c].unserved \/ cl[c].cb = "ended"

\* Unless a call on the client was cut short, each of its callbacks is dispatched once,
\* in the order they were made in.
CallbacksInOrder ==
  [][\A c \in Clients :
       cl[c].cb = "handle" /\ cl'[c].cb = "dispatch" /\ ~ cl[c].cut =>
         cl'[c].dispatched = cl[c].dispatched + 1]_vars

\* The wake lock is held only while a message is read or passed on, or a callback waits
\* or is handled, unless a client was destroyed with a callback under way.
WakeReleased ==
  wakeLock /\ ~ dropped =>
    \/ rx \in {"read", "reply", "call"}
    \/ \E c \in Clients : cl[c].got_cb \/ cl[c].cb \in {"handle", "dispatch"}

\* Where a call can wait for ever.  The receive thread waits
\*  - for a buffer nobody will free: after a callback without a server, a reply
\*    nobody waits for, or a callback whose thread was stopped;
\*  - for a message on a new client that has the descriptor of one destroyed since;
\*  - for a handler that waits in a call of its own;
\*  - for rx_mutex, while the destruction of the last client waits for it;
\* or a handler waits for the lock its client's destruction holds, or its client is gone.
Stuck ==
  \/ rx = "scan" /\ Consumers(serving) = {}
  \/ rx = "read" /\ cl[serving].inbox = <<>>
  \/ rx = "call" /\ cl[serving].cb = "dispatch" /\ pc[serving] # "idle"
  \/ rx \in {"copy", "lock"} /\ \E t \in Callers : pc[t] = "joinrx"
  \/ \E c \in CalledBack : pc[c] # "idle" /\ (cl[c].cb_stop = "stop" \/ ~ cl[c].alive)

\* Every call on a client and every destruction returns, but for these cases.
OperationsReturn ==
  \A t \in Threads : pc[t] # "idle" ~> (pc[t] = "idle" \/ Stuck)

\* "We need to make sure that the XDR's in_buf is not in use before we read into it"
\* (rx_context): by a callback still to be taken, or by the reply being decoded.
InUse(c) ==
  \/ cl[c].cb = "handle"
  \/ cl[c].got_cb /\ cl[c].cb # "ended"
  \/ cl[c].in_msg = Reply(cl[c].xid) /\ \E t \in Threads : Calling(t, c, {"woken", "decode"})
InputBufferNotInUse ==
  [][\A c \in Clients : cl'[c].in_msg # cl[c].in_msg /\ cl'[c].in_msg # NoMessage => ~ InUse(c)]_vars
=============================================================================
