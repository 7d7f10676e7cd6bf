---------------------------- MODULE RpcClient_proofs ----------------------------
(***************************************************************************)
(* Theorems of RpcClient for every set of clients and threads and every     *)
(* number of calls and callbacks.                                           *)
(***************************************************************************)
EXTENDS RpcClient, SequenceTheorems, TLAPS

-----------------------------------------------------------------------------
(* Type correctness. *)

ClientType ==
  [ alive : BOOLEAN, input_xdr_busy : BOOLEAN, in_msg : Messages \cup {NoMessage},
    xid : Nat, got_cb : BOOLEAN, cb_stop : {"unstarted", "run", "stop"},
    cb : {"none", "start", "loop", "wait", "woken", "handle", "dispatch", "ended"},
    inbox : Seq(Messages), asked : SUBSET Nat, sent : Nat, dispatched : Nat,
    cut : BOOLEAN, unserved : BOOLEAN ]

Labels == {"idle", "enter", "begun", "sent", "waiting", "woken", "decode", "free"} \cup Destroying

ClTyped == cl \in [Clients -> ClientType]
RxTyped ==
  /\ clients \subseteq Clients /\ rfds \subseteq Clients /\ scan \subseteq Clients
  /\ rx \in {"exited", "check", "copy", "select", "lock", "scan", "read", "reply", "call"}
  /\ serving \in Clients \cup {NULL}
CallsTyped == pc \in [Threads -> Labels] /\ on \in [Threads -> Clients \cup {NULL}]
OthersTyped ==
  /\ served \subseteq Clients
  /\ wakeLock \in BOOLEAN /\ dropped \in BOOLEAN
  /\ used \in [{"creates", "calls", "handlers", "callbacks", "cuts"} -> Nat]

LEMMA TypeParts == RpcTypeOK <=> ClTyped /\ RxTyped /\ CallsTyped /\ OthersTyped
  BY Zenon DEF RpcTypeOK, ClTyped, RxTyped, CallsTyped, OthersTyped, ClientType, Labels

LEMMA NamesDiffer ==
  /\ NULL \notin Clients /\ CalledBack \subseteq Clients /\ Callers \subseteq Threads
  /\ CalledBack \subseteq Threads /\ Threads \subseteq Callers \cup Clients
  BY RpcClientAssumption DEF Threads

\* A client with one field changed.
CbPlaces == {"none", "start", "loop", "wait", "woken", "handle", "dispatch", "ended"}

LEMMA SetFlag ==
  ASSUME NEW x \in ClientType, NEW v \in BOOLEAN
  PROVE  /\ [x EXCEPT !.input_xdr_busy = v] \in ClientType
         /\ [x EXCEPT !.got_cb = v] \in ClientType
         /\ [x EXCEPT !.cut = v] \in ClientType
         /\ [x EXCEPT !.unserved = v] \in ClientType
  BY DEF ClientType

LEMMA SetCb ==
  ASSUME NEW x \in ClientType, NEW v \in CbPlaces
  PROVE  [x EXCEPT !.cb = v] \in ClientType
  BY DEF ClientType, CbPlaces

LEMMA SetCbStop ==
  ASSUME NEW x \in ClientType, NEW v \in {"unstarted", "run", "stop"}
  PROVE  [x EXCEPT !.cb_stop = v] \in ClientType
  BY DEF ClientType

LEMMA SetMessage ==
  ASSUME NEW x \in ClientType, NEW v \in Messages
  PROVE  [x EXCEPT !.in_msg = v] \in ClientType
  BY DEF ClientType

LEMMA SetInbox ==
  ASSUME NEW x \in ClientType, NEW v \in Seq(Messages)
  PROVE  [x EXCEPT !.inbox = v] \in ClientType
  BY DEF ClientType

LEMMA SetCount ==
  ASSUME NEW x \in ClientType, NEW v \in Nat
  PROVE  /\ [x EXCEPT !.sent = v] \in ClientType /\ [x EXCEPT !.dispatched = v] \in ClientType
         /\ [x EXCEPT !.xid = v] \in ClientType
  BY DEF ClientType

LEMMA SetAsked ==
  ASSUME NEW x \in ClientType, NEW v \in SUBSET Nat
  PROVE  [x EXCEPT !.asked = v] \in ClientType
  BY DEF ClientType

LEMMA Counts ==
  ASSUME NEW x \in ClientType
  PROVE  /\ x.xid + 1 \in Nat /\ x.sent + 1 \in Nat /\ x.asked \cup {x.xid} \in SUBSET Nat
         /\ \A y : x.asked \ {y} \in SUBSET Nat
  BY DEF ClientType

LEMMA CbTyped ==
  ASSUME NEW x \in ClientType
  PROVE  /\ x.cb \in CbPlaces /\ {"start", "loop", "woken"} \subseteq CbPlaces
         /\ x.cb_stop \in {"unstarted", "run", "stop"} /\ x.got_cb \in BOOLEAN
  BY DEF ClientType, CbPlaces

LEMMA FreshTyped ==
  /\ Fresh \in ClientType
  /\ [Fresh EXCEPT !.alive = FALSE] \in ClientType
  /\ \A x \in ClientType :
       [Fresh EXCEPT !.alive = FALSE, !.cb = x.cb, !.cb_stop = x.cb_stop] \in ClientType
<1>1. <<>> \in Seq(Messages) /\ NoMessage \in Messages \cup {NoMessage}
  BY EmptySeq
<1>2. Fresh \in ClientType
  BY <1>1 DEF Fresh, ClientType
<1>3. [Fresh EXCEPT !.alive = FALSE] \in ClientType
  BY <1>2 DEF ClientType
<1> HIDE DEF Fresh
<1> QED
  BY <1>2, <1>3, SetCb, SetCbStop, CbTyped

LEMMA TypedInit == Init => RpcTypeOK
<1> SUFFICES ASSUME Init PROVE RpcTypeOK
  OBVIOUS
<1>1. ClTyped
  BY FreshTyped DEF Init, ClTyped
<1>2. RxTyped
  BY DEF Init, RxTyped
<1>3. CallsTyped
  BY DEF Init, CallsTyped, Labels
<1>4. OthersTyped
  <2>1. used \in [{"creates", "calls", "handlers", "callbacks", "cuts"} -> Nat]
    BY DEF Init
  <2> QED
    BY <2>1, Zenon DEF Init, OthersTyped
<1> QED
  BY <1>1, <1>2, <1>3, <1>4, TypeParts

\* The actions, one by one.
CallsActs(t) ==
  \/ Begin(t) \/ Send(t) \/ Wait(t) \/ SpuriousWakeup(t) \/ Reacquire(t) \/ FreeInput(t)
DestroyActs(t) ==
  \/ DestroySignals(t) \/ DestroyJoinsCb(t) \/ DestroyUnlinks(t) \/ DestroyJoinsRx(t)
  \/ DestroyFrees(t)
RxActs ==
  RxCheck \/ RxCopy \/ RxSelect \/ RxLock \/ RxClaim \/ RxRead \/ RxReply \/ RxCall
CbActs(c) == CbLoop(c) \/ CbWake(c) \/ CbHandOver(c) \/ CbUnserved(c) \/ CbDispatched(c)
OtherActs(c) == clnt_create(c) \/ ModemReplies(c) \/ svc_register(c) \/ ModemCalls(c)

LEMMA Steps ==
  ASSUME [Next]_vars
  PROVE  \/ UNCHANGED vars
         \/ \E t \in Threads, c \in Clients : Enter(t, c) \/ DestroyBegin(t, c)
         \/ \E t \in Threads : CallsActs(t) \/ DestroyActs(t)
         \/ RxActs
         \/ \E c \in Clients : CbActs(c) \/ OtherActs(c)
  BY NamesDiffer, Zenon DEF Next, CallerStep, clnt_call, clnt_destroy, rx_context, cb_context,
     CallsActs, DestroyActs, RxActs, CbActs, OtherActs

\* The steps that change a client.
LEMMA ClSteps ==
  ASSUME [Next]_vars
  PROVE  \/ UNCHANGED cl
         \/ \E t \in Threads : \/ Begin(t) \/ Send(t) \/ FreeInput(t) \/ SpuriousWakeup(t)
                               \/ DestroySignals(t) \/ DestroyFrees(t)
                               \/ \E c \in Clients : DestroyBegin(t, c)
         \/ RxRead \/ RxCall
         \/ \E c \in Clients : \/ CbLoop(c) \/ CbWake(c) \/ CbHandOver(c) \/ CbUnserved(c)
                               \/ CbDispatched(c)
         \/ \E c \in Clients : clnt_create(c) \/ ModemReplies(c) \/ ModemCalls(c)
  BY NamesDiffer, Zenon DEF Next, CallerStep, clnt_call, clnt_destroy, rx_context, cb_context,
     Enter, Wait, Reacquire, DestroyJoinsCb, DestroyUnlinks, DestroyJoinsRx, RxCheck, RxCopy,
     RxSelect, RxLock, RxClaim, RxReply, svc_register, vars

\* The fields of a client stay typed, one group of actions after the other.
LEMMA ClStep == RpcTypeOK /\ [Next]_vars => ClTyped'
<1> SUFFICES ASSUME RpcTypeOK, [Next]_vars PROVE ClTyped'
  OBVIOUS
<1>0. ClTyped /\ RxTyped /\ CallsTyped /\ OthersTyped
  BY TypeParts
<1> USE <1>0 DEF ClTyped
<1>2. CASE UNCHANGED cl
  BY <1>2
<1>3. ASSUME NEW t \in Threads, Begin(t) PROVE ClTyped'
  <2>1. on[t] \in Clients => [cl[on[t]] EXCEPT !.xid = cl[on[t]].xid + 1] \in ClientType
    BY SetCount, Counts
  <2> QED
    BY <1>3, <2>1 DEF Begin
<1>4. ASSUME NEW t \in Threads, Send(t) PROVE ClTyped'
  <2>1. on[t] \in Clients => [cl[on[t]] EXCEPT !.asked = @ \cup {cl[on[t]].xid}] \in ClientType
    BY SetAsked, Counts
  <2>2. on[t] \in Clients => [cl[on[t]] EXCEPT !.cut = TRUE] \in ClientType
    BY SetFlag
  <2>3. \/ cl' = [cl EXCEPT ![on[t]].asked = @ \cup {cl[on[t]].xid}]
        \/ cl' = [cl EXCEPT ![on[t]].cut = TRUE]
    BY <1>4, Zenon DEF Send
  <2> QED
    BY <2>1, <2>2, <2>3
<1>5. ASSUME NEW t \in Threads, FreeInput(t) PROVE ClTyped'
  BY <1>5, SetFlag DEF FreeInput
<1>6. ASSUME NEW t \in Threads, SpuriousWakeup(t) PROVE ClTyped'
  BY <1>6, SetFlag DEF SpuriousWakeup
<1>7. ASSUME NEW t \in Threads, DestroySignals(t) PROVE ClTyped'
  <2>1. on[t] \in Clients => [cl[on[t]] EXCEPT !.cb = IF @ = "wait" THEN "woken" ELSE @] \in ClientType
    BY SetCb, CbTyped
  <2> QED
    BY <1>7, <2>1 DEF DestroySignals
<1>8. ASSUME NEW t \in Threads, DestroyFrees(t) PROVE ClTyped'
  <2> DEFINE y == [Fresh EXCEPT !.alive = FALSE, !.cb = cl[on[t]].cb, !.cb_stop = cl[on[t]].cb_stop]
  <2>1. on[t] \in Clients => y \in ClientType
    BY FreshTyped
  <2>2. cl' = [cl EXCEPT ![on[t]] = y]
    BY <1>8, Zenon DEF DestroyFrees
  <2> HIDE DEF y
  <2> QED
    BY <2>1, <2>2
<1>9. ASSUME NEW t \in Threads, NEW c \in Clients, DestroyBegin(t, c) PROVE ClTyped'
  <2>1. [cl[c] EXCEPT !.cb_stop = "stop"] \in ClientType
    BY SetCbStop
  <2>2. cl' = [cl EXCEPT ![c].cb_stop = "stop"] \/ UNCHANGED cl
    BY <1>9, Zenon DEF DestroyBegin
  <2> QED
    BY <2>1, <2>2
<1>10. CASE RxRead
  <2> DEFINE x == cl[serving]
             m == Head(cl[serving].inbox)
             l == Tail(cl[serving].inbox)
  <2>1. serving \in Clients => m \in Messages /\ l \in Seq(Messages)
    <3>1. serving \in Clients => x.inbox \in Seq(Messages) /\ x.inbox # <<>>
      BY <1>10 DEF RxRead, ClientType
    <3> QED
      BY <3>1, HeadTailProperties
  <2>2. cl' = [cl EXCEPT ![serving] =
                 [[[x EXCEPT !.in_msg = m] EXCEPT !.inbox = l] EXCEPT !.input_xdr_busy = TRUE]]
    BY <1>10 DEF RxRead
  <2> HIDE DEF x, m, l
  <2> QED
    BY <2>1, <2>2, SetMessage, SetInbox, SetFlag DEF x
<1>11. CASE RxCall
  <2> DEFINE x == cl[serving]
             stop == IF x.cb_stop = "unstarted" THEN "run" ELSE x.cb_stop
             thread == IF x.cb_stop = "unstarted" THEN "start"
                       ELSE IF x.cb = "wait" THEN "woken" ELSE x.cb
  <2>1. serving \in Clients => stop \in {"unstarted", "run", "stop"} /\ thread \in CbPlaces
    BY CbTyped
  <2>2. cl' = [cl EXCEPT ![serving].got_cb = TRUE, ![serving].cb_stop = stop,
                         ![serving].cb = thread]
    BY <1>11, Zenon DEF RxCall
  <2> HIDE DEF stop, thread
  <2>3. cl' = [cl EXCEPT ![serving] =
                 [[[x EXCEPT !.got_cb = TRUE] EXCEPT !.cb_stop = stop] EXCEPT !.cb = thread]]
    BY <2>2
  <2> HIDE DEF x
  <2> QED
    BY <2>1, <2>3, SetFlag, SetCbStop, SetCb DEF x
<1>12. ASSUME NEW c \in Clients, CbLoop(c) PROVE ClTyped'
  <2> DEFINE thread == IF cl[c].cb_stop = "stop" THEN "ended"
                       ELSE IF cl[c].got_cb THEN "handle" ELSE "wait"
             got == cl[c].got_cb /\ cl[c].cb_stop = "stop"
  <2>1. thread \in CbPlaces /\ got \in BOOLEAN
    BY CbTyped DEF CbPlaces
  <2>2. cl' = [cl EXCEPT ![c].cb = thread, ![c].got_cb = got]
    BY <1>12, Zenon DEF CbLoop
  <2> HIDE DEF thread, got
  <2>3. cl' = [cl EXCEPT ![c] = [[cl[c] EXCEPT !.cb = thread] EXCEPT !.got_cb = got]]
    BY <2>2
  <2> QED
    BY <2>1, <2>3, SetFlag, SetCb
<1>13. ASSUME NEW c \in Clients, CbWake(c) PROVE ClTyped'
  <2> DEFINE thread == IF cl[c].got_cb THEN "handle" ELSE "loop"
  <2>1. thread \in CbPlaces
    BY DEF CbPlaces
  <2>2. cl' = [cl EXCEPT ![c] = [[cl[c] EXCEPT !.cb = thread] EXCEPT !.got_cb = FALSE]]
    BY <1>13 DEF CbWake
  <2> HIDE DEF thread
  <2> QED
    BY <2>1, <2>2, SetFlag, SetCb
<1>14. ASSUME NEW c \in Clients, CbHandOver(c) PROVE ClTyped'
  <2> DEFINE id == cl[c].in_msg.id
  <2>1. id \in Nat /\ "dispatch" \in CbPlaces
    BY DEF ClientType, Messages, NoMessage, CbPlaces
  <2>2. cl' = [cl EXCEPT ![c] = [[[cl[c] EXCEPT !.input_xdr_busy = FALSE]
                                   EXCEPT !.cb = "dispatch"] EXCEPT !.dispatched = id]]
    BY <1>14 DEF CbHandOver
  <2> HIDE DEF id
  <2> QED
    BY <2>1, <2>2, SetFlag, SetCb, SetCount
<1>15. ASSUME NEW c \in Clients, CbUnserved(c) PROVE ClTyped'
  <2>1. "loop" \in CbPlaces
    BY DEF CbPlaces
  <2> QED
    BY <1>15, <2>1, SetFlag, SetCb DEF CbUnserved
<1>16. ASSUME NEW c \in Clients, CbDispatched(c) PROVE ClTyped'
  <2>1. "loop" \in CbPlaces
    BY DEF CbPlaces
  <2> QED
    BY <1>16, <2>1, SetCb DEF CbDispatched
<1>17. ASSUME NEW c \in Clients, clnt_create(c) PROVE ClTyped'
  BY <1>17, FreshTyped DEF clnt_create
<1>18. ASSUME NEW c \in Clients, ModemReplies(c) PROVE ClTyped'
  <2>1. PICK x \in cl[c].asked :
          cl' = [cl EXCEPT ![c] = [[cl[c] EXCEPT !.asked = @ \ {x}]
                                     EXCEPT !.inbox = Append(cl[c].inbox, Reply(x))]]
    BY <1>18 DEF ModemReplies
  <2>2. Reply(x) \in Messages /\ cl[c].inbox \in Seq(Messages)
    BY DEF ClientType, Reply, Messages
  <2>3. Append(cl[c].inbox, Reply(x)) \in Seq(Messages)
    BY <2>2, AppendProperties
  <2>4. [cl[c] EXCEPT !.asked = @ \ {x}] \in ClientType
    BY SetAsked, Counts
  <2> QED
    BY <2>1, <2>3, <2>4, SetInbox
<1>19. ASSUME NEW c \in Clients, ModemCalls(c) PROVE ClTyped'
  <2> DEFINE n == cl[c].sent + 1
  <2>1. cl' = [cl EXCEPT ![c] = [[cl[c] EXCEPT !.sent = n]
                                   EXCEPT !.inbox = Append(cl[c].inbox, CallMessage(n))]]
    BY <1>19 DEF ModemCalls
  <2>2. n \in Nat /\ CallMessage(n) \in Messages /\ cl[c].inbox \in Seq(Messages)
    BY DEF ClientType, CallMessage, Messages
  <2>3. Append(cl[c].inbox, CallMessage(n)) \in Seq(Messages)
    BY <2>2, AppendProperties
  <2> HIDE DEF n
  <2> QED
    BY <2>1, <2>2, <2>3, SetCount, SetInbox
<1> QED
  BY ClSteps, <1>2, <1>3, <1>4, <1>5, <1>6, <1>7, <1>8, <1>9, <1>10, <1>11, <1>12, <1>13, <1>14,
     <1>15, <1>16, <1>17, <1>18, <1>19

LEMMA RxSteps ==
  ASSUME [Next]_vars
  PROVE  \/ UNCHANGED <<clients, rx, rfds, serving, scan>>
         \/ RxCheck \/ RxCopy \/ RxSelect \/ RxLock \/ RxClaim \/ RxRead \/ RxReply \/ RxCall
         \/ \E c \in Clients : clnt_create(c)
         \/ \E t \in Threads : DestroyUnlinks(t)
<1> DEFINE Same == UNCHANGED <<clients, rx, rfds, serving, scan>>
<1>1. UNCHANGED vars => Same
  BY Zenon DEF vars
<1>2. ASSUME NEW t \in Threads, NEW c \in Clients, Enter(t, c) \/ DestroyBegin(t, c) PROVE Same
  BY <1>2, Zenon DEF Enter, DestroyBegin
<1>3. ASSUME NEW t \in Threads, CallsActs(t) PROVE Same
  BY <1>3, Zenon DEF CallsActs, Begin, Send, Wait, SpuriousWakeup, Reacquire, FreeInput
<1>4. ASSUME NEW t \in Threads, DestroyActs(t) PROVE Same \/ DestroyUnlinks(t)
  BY <1>4, Zenon DEF DestroyActs, DestroySignals, DestroyJoinsCb, DestroyJoinsRx, DestroyFrees
<1>5. ASSUME NEW c \in Clients, CbActs(c) PROVE Same
  BY <1>5, Zenon DEF CbActs, CbLoop, CbWake, CbHandOver, CbUnserved, CbDispatched
<1>6. ASSUME NEW c \in Clients, OtherActs(c) PROVE Same \/ clnt_create(c)
  BY <1>6, Zenon DEF OtherActs, ModemReplies, ModemCalls, svc_register
<1> HIDE DEF Same
<1> QED
  BY <1>1, <1>2, <1>3, <1>4, <1>5, <1>6, Steps, Zenon DEF RxActs, Same

LEMMA RxStep == RpcTypeOK /\ [Next]_vars => RxTyped'
<1> SUFFICES ASSUME RpcTypeOK, [Next]_vars PROVE RxTyped'
  OBVIOUS
<1>0. RxTyped
  BY TypeParts
<1> USE <1>0 DEF RxTyped
<1>2. CASE UNCHANGED <<clients, rx, rfds, serving, scan>>
  BY <1>2
<1>3. CASE RxCheck
  BY <1>3 DEF RxCheck
<1>4. CASE RxCopy
  BY <1>4 DEF RxCopy
<1>5. CASE RxSelect
  BY <1>5 DEF RxSelect
<1>6. CASE RxLock
  BY <1>6 DEF RxLock, Serve
<1>7. CASE RxClaim
  BY <1>7 DEF RxClaim
<1>8. CASE RxRead
  BY <1>8 DEF RxRead
<1>9. CASE RxReply
  BY <1>9 DEF RxReply, Serve
<1>10. CASE RxCall
  BY <1>10 DEF RxCall, Serve
<1>11. ASSUME NEW c \in Clients, clnt_create(c) PROVE RxTyped'
  BY <1>11 DEF clnt_create
<1>12. ASSUME NEW t \in Threads, DestroyUnlinks(t) PROVE RxTyped'
  BY <1>12 DEF DestroyUnlinks
<1> QED
  BY RxSteps, <1>2, <1>3, <1>4, <1>5, <1>6, <1>7, <1>8, <1>9, <1>10, <1>11, <1>12

LEMMA CallsStep == RpcTypeOK /\ [Next]_vars => CallsTyped'
<1> SUFFICES ASSUME RpcTypeOK, [Next]_vars PROVE CallsTyped'
  OBVIOUS
<1>0. CallsTyped
  BY TypeParts
<1> USE <1>0 DEF CallsTyped, Labels, Destroying
<1>1. \/ UNCHANGED <<pc, on>>
      \/ RxReply
      \/ \E t \in Threads : \/ clnt_call(t) \/ SpuriousWakeup(t) \/ clnt_destroy(t)
                            \/ \E c \in Clients : Enter(t, c) \/ DestroyBegin(t, c)
  BY NamesDiffer, Zenon DEF Next, CallerStep, rx_context, cb_context, CbLoop, CbWake, CbHandOver,
     CbUnserved, CbDispatched, ModemReplies, ModemCalls, svc_register, clnt_create, RxCheck, RxCopy,
     RxSelect, RxLock, RxClaim, RxRead, RxCall, vars
<1>2. CASE UNCHANGED <<pc, on>>
  BY <1>2
<1>3. CASE RxReply
  BY <1>3 DEF RxReply
<1>4. ASSUME NEW t \in Threads, clnt_call(t) \/ SpuriousWakeup(t) PROVE CallsTyped'
  BY <1>4 DEF clnt_call, SpuriousWakeup, Begin, Send, Wait, Reacquire, FreeInput, Goto, Call, Return
<1>5. ASSUME NEW t \in Threads, clnt_destroy(t) PROVE CallsTyped'
  BY <1>5 DEF clnt_destroy, DestroySignals, DestroyJoinsCb, DestroyUnlinks, DestroyJoinsRx,
     DestroyFrees, Goto, Call, Return
<1>6. ASSUME NEW t \in Threads, NEW c \in Clients, Enter(t, c) \/ DestroyBegin(t, c)
      PROVE  CallsTyped'
  BY <1>6 DEF Enter, DestroyBegin, Goto, Call
<1> QED
  BY <1>1, <1>2, <1>3, <1>4, <1>5, <1>6

LEMMA OthersStep == RpcTypeOK /\ [Next]_vars => OthersTyped'
<1> SUFFICES ASSUME RpcTypeOK, [Next]_vars PROVE OthersTyped'
  OBVIOUS
<1>0. OthersTyped /\ ClTyped
  BY TypeParts
<1>1. \/ UNCHANGED <<served, wakeLock, dropped, used>>
      \/ RxClaim \/ RxReply
      \/ \E t \in Threads : \/ Send(t) \/ SpuriousWakeup(t) \/ DestroyFrees(t)
                            \/ \E c \in Clients : Enter(t, c)
      \/ \E c \in Clients : \/ clnt_create(c) \/ ModemCalls(c) \/ svc_register(c)
                            \/ CbUnserved(c) \/ CbDispatched(c)
  BY NamesDiffer, Zenon DEF Next, CallerStep, clnt_call, clnt_destroy, rx_context, cb_context,
     Begin, Wait, Reacquire, FreeInput, DestroyBegin, DestroySignals, DestroyJoinsCb,
     DestroyUnlinks, DestroyJoinsRx, CbLoop, CbWake, CbHandOver, ModemReplies, RxCheck, RxCopy,
     RxSelect, RxLock, RxRead, RxCall, vars
<1> USE <1>0 DEF OthersTyped
<1>2. CASE UNCHANGED <<served, wakeLock, dropped, used>>
  BY <1>2
<1>3. CASE RxClaim \/ RxReply
  BY <1>3 DEF RxClaim, RxReply
<1>4. ASSUME NEW t \in Threads, Send(t) \/ SpuriousWakeup(t) PROVE OthersTyped'
  BY <1>4 DEF Send, SpuriousWakeup, Use
<1>5. ASSUME NEW t \in Threads, DestroyFrees(t) PROVE OthersTyped'
  BY <1>5, Zenon DEF DestroyFrees
<1>6. ASSUME NEW t \in Threads, NEW c \in Clients, Enter(t, c) PROVE OthersTyped'
  BY <1>6 DEF Enter, Calls, Use
<1>7. ASSUME NEW c \in Clients, clnt_create(c) \/ ModemCalls(c) \/ svc_register(c) PROVE OthersTyped'
  BY <1>7 DEF clnt_create, ModemCalls, svc_register, Use
<1>8. ASSUME NEW c \in Clients, CbUnserved(c) \/ CbDispatched(c) PROVE OthersTyped'
  BY <1>8 DEF CbUnserved, CbDispatched
<1> QED
  BY <1>1, <1>2, <1>3, <1>4, <1>5, <1>6, <1>7, <1>8

LEMMA TypedStep == RpcTypeOK /\ [Next]_vars => RpcTypeOK'
<1>1. (ClTyped /\ RxTyped /\ CallsTyped /\ OthersTyped)' => RpcTypeOK'
  BY TypeParts, PTL
<1> QED
  BY <1>1, ClStep, RxStep, CallsStep, OthersStep

\* Every variable has its type (RpcTypeOK).
THEOREM TypeCorrect == Spec => []RpcTypeOK
  BY TypedInit, TypedStep, PTL DEF Spec
-----------------------------------------------------------------------------
(* The wake lock. *)

\* While rx_mutex is held by the receive thread, the clients it has still to serve are
\* in the list.
ServesListed ==
  rx \in {"scan", "read", "reply", "call"} => serving \in clients /\ scan \subseteq clients

ListedAlive == \A c \in clients : cl[c].alive

\* A client that is not alive has no callback waiting.
DeadQuiet == \A c \in Clients : cl[c].got_cb => cl[c].alive

\* The thread that destroys a client owns it, and has taken it from the list before it
\* closes its descriptor.
Owned ==
  \A t \in Threads : pc[t] \in Destroying =>
    /\ on[t] \in Clients /\ cl[on[t]].alive
    /\ \A u \in Threads : pc[u] \in Destroying /\ on[u] = on[t] => u = t
Unlisted == \A t \in Threads : pc[t] \in {"joinrx", "dispose"} => on[t] \notin clients

Listing == ServesListed /\ ListedAlive /\ Owned /\ Unlisted
WakeInv == RpcTypeOK /\ Listing /\ DeadQuiet /\ WakeReleased
\* What most steps leave alone of a client.
Pending(c) == cl[c].got_cb \/ cl[c].cb \in {"handle", "dispatch"}
Quiet ==
  \A c \in Clients : /\ cl'[c].alive = cl[c].alive /\ cl'[c].got_cb = cl[c].got_cb
                     /\ Pending(c)' = Pending(c)

LEMMA QuietSteps ==
  ASSUME RpcTypeOK, [Next]_vars
  PROVE  \/ Quiet
         \/ RxCall
         \/ \E c \in Clients : CbLoop(c) \/ CbWake(c) \/ CbUnserved(c) \/ CbDispatched(c)
         \/ \E c \in Clients : clnt_create(c)
         \/ \E t \in Threads : DestroyFrees(t)
<1>0. cl \in [Clients -> ClientType]
  BY TypeParts DEF ClTyped
<1> USE <1>0 DEF Quiet, Pending
<1>2. CASE UNCHANGED cl
  BY <1>2
<1>3. ASSUME NEW t \in Threads, Begin(t) PROVE Quiet
  BY <1>3 DEF Begin, ClientType
<1>4. ASSUME NEW t \in Threads, Send(t) PROVE Quiet
  <2>1. \/ cl' = [cl EXCEPT ![on[t]].asked = @ \cup {cl[on[t]].xid}]
        \/ cl' = [cl EXCEPT ![on[t]].cut = TRUE]
    BY <1>4, Zenon DEF Send
  <2>2. CASE cl' = [cl EXCEPT ![on[t]].asked = @ \cup {cl[on[t]].xid}]
    BY <2>2 DEF ClientType
  <2>3. CASE cl' = [cl EXCEPT ![on[t]].cut = TRUE]
    BY <2>3 DEF ClientType
  <2> QED
    BY <2>1, <2>2, <2>3
<1>5. ASSUME NEW t \in Threads, FreeInput(t) PROVE Quiet
  BY <1>5 DEF FreeInput, ClientType
<1>6. ASSUME NEW t \in Threads, SpuriousWakeup(t) PROVE Quiet
  BY <1>6 DEF SpuriousWakeup, ClientType
<1>7. ASSUME NEW t \in Threads, DestroySignals(t) PROVE Quiet
  BY <1>7 DEF DestroySignals, ClientType
<1>8. ASSUME NEW t \in Threads, NEW c \in Clients, DestroyBegin(t, c) PROVE Quiet
  <2>1. cl' = [cl EXCEPT ![c].cb_stop = "stop"] \/ UNCHANGED cl
    BY <1>8, Zenon DEF DestroyBegin
  <2>2. CASE cl' = [cl EXCEPT ![c].cb_stop = "stop"]
    BY <2>2 DEF ClientType
  <2> QED
    BY <1>2, <2>1, <2>2
<1>9. CASE RxRead
  BY <1>9 DEF RxRead, ClientType
<1>10. ASSUME NEW c \in Clients, CbHandOver(c) PROVE Quiet
  BY <1>10 DEF CbHandOver, ClientType
<1>11. ASSUME NEW c \in Clients, ModemReplies(c) PROVE Quiet
  <2>1. PICK a, l : cl' = [cl EXCEPT ![c].asked = a, ![c].inbox = l]
    BY <1>11, Zenon DEF ModemReplies
  <2> QED
    BY <2>1 DEF ClientType
<1>12. ASSUME NEW c \in Clients, ModemCalls(c) PROVE Quiet
  <2>1. PICK n, l : cl' = [cl EXCEPT ![c].sent = n, ![c].inbox = l]
    BY <1>12, Zenon DEF ModemCalls
  <2> QED
    BY <2>1 DEF ClientType
<1> QED
  BY ClSteps, <1>2, <1>3, <1>4, <1>5, <1>6, <1>7, <1>8, <1>9, <1>10, <1>11, <1>12

\* The client of a step of the callback thread is alive.
LEMMA CbKeeps ==
  ASSUME RpcTypeOK, NEW c \in Clients, CbLoop(c) \/ CbWake(c) \/ CbUnserved(c) \/ CbDispatched(c)
  PROVE  /\ \A d \in Clients : /\ cl'[d].alive = cl[d].alive
                               /\ cl'[d].got_cb => cl[d].got_cb
                               /\ d # c => Pending(d)' = Pending(d)
         /\ Pending(c) => Pending(c)' \/ wakeLock' = FALSE
<1>0. cl \in [Clients -> ClientType]
  BY TypeParts DEF ClTyped
<1> USE <1>0 DEF Pending, ClientType
<1>1. CASE CbLoop(c)
  BY <1>1 DEF CbLoop
<1>2. CASE CbWake(c)
  BY <1>2 DEF CbWake
<1>3. CASE CbUnserved(c)
  BY <1>3 DEF CbUnserved
<1>4. CASE CbDispatched(c)
  BY <1>4 DEF CbDispatched
<1> QED
  BY <1>1, <1>2, <1>3, <1>4

LEMMA DeadQuietStep == WakeInv /\ [Next]_vars => DeadQuiet'
<1> SUFFICES ASSUME WakeInv, [Next]_vars PROVE DeadQuiet'
  OBVIOUS
<1>0. /\ RpcTypeOK /\ DeadQuiet /\ ServesListed /\ ListedAlive
      /\ cl \in [Clients -> ClientType] /\ cl' \in [Clients -> ClientType]
  BY TypeParts, ClStep DEF WakeInv, Listing, ClTyped
<1> USE <1>0 DEF DeadQuiet
<1>1. CASE Quiet
  BY <1>1 DEF Quiet
<1>2. CASE RxCall
  <2>1. serving \in Clients => cl[serving].alive
    BY <1>2, Zenon DEF RxCall, ServesListed, ListedAlive
  <2> QED
    BY <1>2, <2>1 DEF RxCall, ClientType
<1>3. ASSUME NEW c \in Clients, CbLoop(c) \/ CbWake(c) \/ CbUnserved(c) \/ CbDispatched(c)
      PROVE  DeadQuiet'
  BY <1>3, CbKeeps
<1>4. ASSUME NEW c \in Clients, clnt_create(c) PROVE DeadQuiet'
  BY <1>4 DEF clnt_create, Fresh
<1>5. ASSUME NEW t \in Threads, DestroyFrees(t) PROVE DeadQuiet'
  BY <1>5 DEF DestroyFrees, Fresh
<1> QED
  BY <1>1, <1>2, <1>3, <1>4, <1>5, QuietSteps

LEMMA WakeStep == WakeInv /\ [Next]_vars => WakeReleased'
<1> SUFFICES ASSUME WakeInv, [Next]_vars PROVE WakeReleased'
  OBVIOUS
<1>0. /\ RpcTypeOK /\ DeadQuiet /\ ServesListed /\ WakeReleased
      /\ cl \in [Clients -> ClientType] /\ cl' \in [Clients -> ClientType]
  <2>1. RpcTypeOK /\ DeadQuiet /\ ServesListed /\ WakeReleased
    BY Zenon DEF WakeInv, Listing
  <2> QED
    BY <2>1, TypeParts, ClStep, Zenon DEF ClTyped
<1> DEFINE Passing == rx \in {"read", "reply", "call"}
<1>1. wakeLock /\ ~ dropped => Passing \/ \E c \in Clients : Pending(c)
  BY <1>0, Zenon DEF WakeReleased, Pending
<1>2. SUFFICES ASSUME wakeLock', ~ dropped' PROVE Passing' \/ \E c \in Clients : Pending(c)'
  BY Zenon DEF WakeReleased, Pending
<1>3. \/ UNCHANGED <<rx, wakeLock, dropped>> /\ Quiet
      \/ RxCheck \/ RxCopy \/ RxSelect \/ RxLock
      \/ RxClaim \/ RxRead \/ RxReply \/ RxCall
      \/ \E c \in Clients : CbLoop(c) \/ CbWake(c) \/ CbUnserved(c) \/ CbDispatched(c)
      \/ \E c \in Clients : clnt_create(c)
      \/ \E t \in Threads : DestroyFrees(t)
  <2> DEFINE Same == UNCHANGED <<rx, wakeLock, dropped>>
  <2>1. UNCHANGED vars => Same
    BY Zenon DEF vars
  <2>2. ASSUME NEW t \in Threads, NEW c \in Clients, Enter(t, c) \/ DestroyBegin(t, c) PROVE Same
    BY <2>2, Zenon DEF Enter, DestroyBegin
  <2>3. ASSUME NEW t \in Threads, CallsActs(t) PROVE Same
    BY <2>3, Zenon DEF CallsActs, Begin, Send, Wait, SpuriousWakeup, Reacquire, FreeInput
  <2>4. ASSUME NEW t \in Threads, DestroyActs(t) PROVE Same \/ DestroyFrees(t)
    BY <2>4, Zenon DEF DestroyActs, DestroySignals, DestroyJoinsCb, DestroyUnlinks, DestroyJoinsRx
  <2>5. ASSUME NEW c \in Clients, CbHandOver(c) PROVE Same
    BY <2>5, Zenon DEF CbHandOver
  <2>6. ASSUME NEW c \in Clients, OtherActs(c) PROVE Same \/ clnt_create(c)
    BY <2>6, Zenon DEF OtherActs, ModemReplies, ModemCalls, svc_register
  <2> HIDE DEF Same
  <2>7. \/ Same \/ RxActs
        \/ \E c \in Clients : CbLoop(c) \/ CbWake(c) \/ CbUnserved(c) \/ CbDispatched(c)
        \/ \E c \in Clients : clnt_create(c)
        \/ \E t \in Threads : DestroyFrees(t)
    BY <2>1, <2>2, <2>3, <2>4, <2>5, <2>6, Steps, Zenon DEF CbActs
  <2> QED
    BY <1>0, <2>7, QuietSteps, Zenon DEF Same, RxActs
<1>4. CASE UNCHANGED <<rx, wakeLock, dropped>> /\ Quiet
  BY <1>1, <1>2, <1>4 DEF Quiet
<1>5. CASE RxCheck \/ RxCopy \/ RxSelect \/ RxLock
  <2>1. ~ Passing /\ UNCHANGED <<cl, wakeLock, dropped>>
    BY <1>5 DEF RxCheck, RxCopy, RxSelect, RxLock
  <2> QED
    BY <1>1, <1>2, <2>1 DEF Pending
<1>6. CASE RxClaim \/ RxRead \/ RxReply
  BY <1>2, <1>6 DEF RxClaim, RxRead, RxReply
<1>7. CASE RxCall
  <2>1. PICK c \in Clients : c = serving
    BY <1>0, <1>7, TypeParts DEF RxCall, ServesListed, RxTyped
  <2>2. PICK stop, thread :
          cl' = [cl EXCEPT ![c].got_cb = TRUE, ![c].cb_stop = stop, ![c].cb = thread]
    BY <1>7, <2>1, Zenon DEF RxCall
  <2>3. cl'[c].got_cb
    BY <1>0, <2>2 DEF ClientType
  <2> QED
    BY <2>3 DEF Pending
<1>8. ASSUME NEW c \in Clients, CbLoop(c) \/ CbWake(c) \/ CbUnserved(c) \/ CbDispatched(c)
      PROVE  Passing' \/ \E d \in Clients : Pending(d)'
  <2>1. UNCHANGED <<rx, dropped>> /\ wakeLock
    BY <1>2, <1>8, Zenon DEF CbLoop, CbWake, CbUnserved, CbDispatched
  <2>2. \A d \in Clients : Pending(d) => Pending(d)'
    BY <1>0, <1>2, <1>8, CbKeeps
  <2> QED
    BY <1>1, <1>2, <2>1, <2>2
<1>9. ASSUME NEW c \in Clients, clnt_create(c) PROVE \E d \in Clients : Pending(d)'
  <2>1. ~ Passing /\ UNCHANGED <<wakeLock, dropped>>
    BY <1>9 DEF clnt_create, RxMutexFree
  <2>2. ~ Pending(c)
    BY <1>0, <1>9 DEF clnt_create, CbRunning, DeadQuiet, Pending
  <2>3. \A d \in Clients : d # c => cl'[d] = cl[d]
    BY <1>0, <1>9 DEF clnt_create
  <2> QED
    BY <1>1, <1>2, <2>1, <2>2, <2>3 DEF Pending
<1>10. ASSUME NEW t \in Threads, DestroyFrees(t) PROVE Passing' \/ \E d \in Clients : Pending(d)'
  <2>1. UNCHANGED <<rx, wakeLock>> /\ ~ dropped /\ ~ Pending(on[t])
    BY <1>2, <1>10 DEF DestroyFrees, Pending
  <2>2. \A d \in Clients : d # on[t] => cl'[d] = cl[d]
    BY <1>0, <1>10 DEF DestroyFrees
  <2> QED
    BY <1>1, <1>2, <2>1, <2>2 DEF Pending
<1> QED
  BY <1>3, <1>4, <1>5, <1>6, <1>7, <1>8, <1>9, <1>10

-----------------------------------------------------------------------------
(* The list of clients. *)

LEMMA AliveSteps ==
  ASSUME RpcTypeOK, [Next]_vars
  PROVE  \/ \A c \in Clients : cl'[c].alive = cl[c].alive
         \/ \E c \in Clients : clnt_create(c)
         \/ \E t \in Threads : DestroyFrees(t)
<1>0. cl \in [Clients -> ClientType]
  BY TypeParts DEF ClTyped
<1>1. CASE RxCall
  <2>1. PICK stop, thread :
          cl' = [cl EXCEPT ![serving].got_cb = TRUE, ![serving].cb_stop = stop,
                           ![serving].cb = thread]
    BY <1>1, Zenon DEF RxCall
  <2> QED
    BY <1>0, <2>1 DEF ClientType
<1>2. ASSUME NEW c \in Clients, CbLoop(c) \/ CbWake(c) \/ CbUnserved(c) \/ CbDispatched(c)
      PROVE  \A d \in Clients : cl'[d].alive = cl[d].alive
  BY <1>2, CbKeeps
<1>3. CASE Quiet
  BY <1>3, Zenon DEF Quiet
<1> QED
  BY <1>1, <1>2, <1>3, QuietSteps, Zenon

\* A thread comes to destroy a client by DestroyBegin alone.
LEMMA DestroySteps ==
  ASSUME RpcTypeOK, [Next]_vars
  PROVE  \/ \A t \in Threads : /\ pc'[t] \in Destroying <=> pc[t] \in Destroying
                               /\ pc[t] \in Destroying => pc'[t] = pc[t] /\ on'[t] = on[t]
         \/ \E t \in Threads, c \in Clients : DestroyBegin(t, c)
         \/ \E t \in Threads : DestroyActs(t)
<1> DEFINE Same == \A t \in Threads :
             /\ pc'[t] \in Destroying <=> pc[t] \in Destroying
             /\ pc[t] \in Destroying => pc'[t] = pc[t] /\ on'[t] = on[t]
<1>0. pc \in [Threads -> Labels] /\ on \in [Threads -> Clients \cup {NULL}]
  BY TypeParts, Zenon DEF CallsTyped
<1>1. ASSUME UNCHANGED <<pc, on>> PROVE Same
  BY <1>1
<1>2. UNCHANGED vars => UNCHANGED <<pc, on>>
  BY Zenon DEF vars
<1>3. ASSUME NEW t \in Threads, NEW c \in Clients, Enter(t, c) PROVE Same
  BY <1>0, <1>3 DEF Enter, Goto, Call, Destroying
<1>4. ASSUME NEW t \in Threads, CallsActs(t) PROVE Same
  <2>1. PICK label : pc' = [pc EXCEPT ![t] = label] /\ label \notin Destroying
    BY <1>4 DEF CallsActs, Begin, Send, Wait, SpuriousWakeup, Reacquire, FreeInput, Goto, Call,
       Return, Destroying
  <2>2. pc[t] \notin Destroying
    BY <1>4 DEF CallsActs, Begin, Send, Wait, SpuriousWakeup, Reacquire, FreeInput, Destroying
  <2>3. on' = on \/ on' = [on EXCEPT ![t] = NULL]
    BY <1>4, Zenon DEF CallsActs, Begin, Send, Wait, SpuriousWakeup, Reacquire, FreeInput, Call,
       Return
  <2> QED
    BY <1>0, <2>1, <2>2, <2>3
<1>5. ASSUME RxActs PROVE Same
  <2>1. CASE RxReply
    BY <1>0, <2>1 DEF RxReply, Calling, Destroying
  <2> QED
    BY <1>1, <1>5, <2>1, Zenon DEF RxActs, RxCheck, RxCopy, RxSelect, RxLock, RxClaim, RxRead, RxCall
<1>6. ASSUME NEW c \in Clients, CbActs(c) PROVE UNCHANGED <<pc, on>>
  BY <1>6, Zenon DEF CbActs, CbLoop, CbWake, CbHandOver, CbUnserved, CbDispatched
<1>7. ASSUME NEW c \in Clients, OtherActs(c) PROVE UNCHANGED <<pc, on>>
  BY <1>7, Zenon DEF OtherActs, clnt_create, ModemReplies, ModemCalls, svc_register
<1> HIDE DEF Same
<1>8. Same \/ (\E t \in Threads, c \in Clients : DestroyBegin(t, c))
           \/ (\E t \in Threads : DestroyActs(t))
  BY <1>1, <1>2, <1>3, <1>4, <1>5, <1>6, <1>7, Steps
<1> QED
  BY <1>8, Zenon DEF Same

LEMMA ListShrinks ==
  ASSUME [Next]_vars
  PROVE  clients' \subseteq clients \/ \E c \in Clients : clnt_create(c)
<1>1. ASSUME NEW t \in Threads, DestroyUnlinks(t) PROVE clients' \subseteq clients
  BY <1>1 DEF DestroyUnlinks
<1>2. CASE RxActs
  BY <1>2 DEF RxActs, RxCheck, RxCopy, RxSelect, RxLock, RxClaim, RxRead, RxReply, RxCall
<1> QED
  BY <1>1, <1>2, RxSteps DEF RxActs

LEMMA ListingStep == RpcTypeOK /\ Listing /\ [Next]_vars => Listing'
<1> SUFFICES ASSUME RpcTypeOK, Listing, [Next]_vars PROVE Listing'
  OBVIOUS
<1>0. /\ ServesListed /\ ListedAlive /\ Owned /\ Unlisted
      /\ cl \in [Clients -> ClientType] /\ cl' \in [Clients -> ClientType]
      /\ pc \in [Threads -> Labels] /\ on \in [Threads -> Clients \cup {NULL}]
      /\ clients \subseteq Clients
  <2>1. ClTyped /\ ClTyped' /\ CallsTyped /\ RxTyped
    BY TypeParts, ClStep
  <2> QED
    BY <2>1, Zenon DEF Listing, ClTyped, CallsTyped, RxTyped
<1>1. ServesListed'
  <2>1. ASSUME NEW t \in Threads, DestroyUnlinks(t) PROVE ServesListed'
    BY <2>1 DEF DestroyUnlinks, RxMutexFree, ServesListed
  <2>2. ASSUME NEW c \in Clients, clnt_create(c) PROVE ServesListed'
    BY <2>2 DEF clnt_create, RxMutexFree, ServesListed
  <2>3. CASE RxActs
    BY <1>0, <2>3 DEF RxActs, RxCheck, RxCopy, RxSelect, RxLock, RxClaim, RxRead, RxReply, RxCall,
       Serve, ServesListed
  <2>4. CASE UNCHANGED <<clients, rx, rfds, serving, scan>>
    BY <1>0, <2>4 DEF ServesListed
  <2> QED
    BY <2>1, <2>2, <2>3, <2>4, RxSteps, Zenon DEF RxActs
<1>2. ListedAlive'
  <2>2. ASSUME NEW c \in Clients, clnt_create(c) PROVE ListedAlive'
    BY <1>0, <2>2 DEF clnt_create, Fresh, ListedAlive
  <2>3. ASSUME NEW t \in Threads, DestroyFrees(t) PROVE ListedAlive'
    BY <1>0, <2>3 DEF DestroyFrees, ListedAlive, Unlisted
  <2> QED
    BY <1>0, <2>2, <2>3, AliveSteps, ListShrinks DEF ListedAlive
<1>3. Owned'
  <2>1. ASSUME \A t \in Threads : /\ pc'[t] \in Destroying <=> pc[t] \in Destroying
                                  /\ pc[t] \in Destroying => pc'[t] = pc[t] /\ on'[t] = on[t]
        PROVE  Owned'
    <3>1. ASSUME NEW c \in Clients, clnt_create(c) PROVE Owned'
      BY <1>0, <2>1, <3>1 DEF clnt_create, Fresh, Owned
    <3>2. ASSUME NEW t \in Threads, DestroyFrees(t) PROVE FALSE
      BY <1>0, <2>1, <3>2 DEF DestroyFrees, Return, Call, Goto, Destroying
    <3>3. ASSUME \A c \in Clients : cl'[c].alive = cl[c].alive PROVE Owned'
      BY <1>0, <2>1, <3>3 DEF Owned
    <3> QED
      BY <3>1, <3>2, <3>3, AliveSteps, Zenon
  <2>2. ASSUME NEW t \in Threads, NEW c \in Clients, DestroyBegin(t, c) PROVE Owned'
    <3>1. PICK label \in Destroying :
            pc' = [pc EXCEPT ![t] = label] /\ on' = [on EXCEPT ![t] = c]
      BY <2>2 DEF DestroyBegin, Call, Goto, Destroying
    <3>2. cl[c].alive /\ \A u \in Threads : ~ (on[u] = c /\ pc[u] \in Destroying)
      BY <2>2 DEF DestroyBegin, ClientLockFree, Calling
    <3>3. \A d \in Clients : cl'[d].alive = cl[d].alive
      <4>1. cl' = [cl EXCEPT ![c].cb_stop = "stop"] \/ UNCHANGED cl
        BY <2>2, Zenon DEF DestroyBegin
      <4>2. CASE cl' = [cl EXCEPT ![c].cb_stop = "stop"]
        BY <1>0, <4>2 DEF ClientType
      <4> QED
        BY <4>1, <4>2
    <3> QED
      BY <1>0, <3>1, <3>2, <3>3 DEF Owned
  <2>3. ASSUME NEW t \in Threads, DestroyActs(t) PROVE Owned'
    <3>1. CASE DestroyFrees(t)
      <4>1. pc' = [pc EXCEPT ![t] = "idle"] /\ on' = [on EXCEPT ![t] = NULL] /\ pc[t] \in Destroying
        BY <3>1 DEF DestroyFrees, Return, Call, Goto, Destroying
      <4>2. \A d \in Clients : d # on[t] => cl'[d] = cl[d]
        BY <1>0, <3>1 DEF DestroyFrees
      <4>3. "idle" \notin Destroying
        BY DEF Destroying
      <4> QED
        BY <1>0, <4>1, <4>2, <4>3 DEF Owned
    <3>2. CASE ~ DestroyFrees(t)
      <4>1. PICK label : pc' = [pc EXCEPT ![t] = label] /\ on' = on /\ pc[t] \in Destroying
        BY <2>3, <3>2 DEF DestroyActs, DestroySignals, DestroyJoinsCb, DestroyUnlinks, DestroyJoinsRx,
           Goto, Destroying
      <4>2. \A d \in Clients : cl'[d].alive = cl[d].alive
        <5>1. UNCHANGED cl \/ \E x : cl' = [cl EXCEPT ![on[t]].cb = x]
          BY <2>3, <3>2, Zenon DEF DestroyActs, DestroySignals, DestroyJoinsCb, DestroyUnlinks,
             DestroyJoinsRx
        <5>2. ASSUME NEW x, cl' = [cl EXCEPT ![on[t]].cb = x]
              PROVE  \A d \in Clients : cl'[d].alive = cl[d].alive
          BY <1>0, <5>2 DEF ClientType
        <5> QED
          BY <5>1, <5>2
      <4> QED
        BY <1>0, <4>1, <4>2 DEF Owned
    <3> QED
      BY <3>1, <3>2
  <2> QED
    BY <2>1, <2>2, <2>3, DestroySteps
<1>4. Unlisted'
  <2>1. ASSUME \A t \in Threads : /\ pc'[t] \in Destroying <=> pc[t] \in Destroying
                                  /\ pc[t] \in Destroying => pc'[t] = pc[t] /\ on'[t] = on[t]
        PROVE  Unlisted'
    <3>1. ASSUME NEW c \in Clients, clnt_create(c) PROVE Unlisted'
      BY <1>0, <2>1, <3>1 DEF clnt_create, Owned, Unlisted, Destroying
    <3>2. ASSUME clients' \subseteq clients PROVE Unlisted'
      BY <1>0, <2>1, <3>2 DEF Unlisted, Destroying
    <3> QED
      BY <3>1, <3>2, ListShrinks
  <2>2. ASSUME NEW t \in Threads, NEW c \in Clients, DestroyBegin(t, c) PROVE Unlisted'
    <3>1. pc' = [pc EXCEPT ![t] = "stop"] \/ pc' = [pc EXCEPT ![t] = "unlink"]
      BY <2>2, Zenon DEF DestroyBegin, Call, Goto
    <3>2. UNCHANGED clients /\ on' = [on EXCEPT ![t] = c]
      BY <2>2, Zenon DEF DestroyBegin, Call
    <3> QED
      BY <1>0, <3>1, <3>2 DEF Unlisted
  <2>3. ASSUME NEW t \in Threads, DestroyActs(t) PROVE Unlisted'
    <3>1. CASE DestroyFrees(t)
      BY <1>0, <3>1 DEF DestroyFrees, Return, Call, Goto, Unlisted
    <3>2. CASE DestroyUnlinks(t)
      <4>1. clients' = clients \ {on[t]} /\ on' = on
        BY <3>2, Zenon DEF DestroyUnlinks
      <4>2. PICK label : pc' = [pc EXCEPT ![t] = label]
        BY <3>2, Zenon DEF DestroyUnlinks, Goto
      <4> QED
        BY <1>0, <4>1, <4>2 DEF Unlisted
    <3>3. CASE DestroySignals(t) \/ DestroyJoinsCb(t) \/ DestroyJoinsRx(t)
      BY <1>0, <3>3 DEF DestroySignals, DestroyJoinsCb, DestroyJoinsRx, Goto, Unlisted
    <3> QED
      BY <2>3, <3>1, <3>2, <3>3, Zenon DEF DestroyActs
  <2> QED
    BY <2>1, <2>2, <2>3, DestroySteps
<1> QED
  BY <1>1, <1>2, <1>3, <1>4 DEF Listing

LEMMA WakeInvInit == Init => WakeInv
<1> SUFFICES ASSUME Init PROVE WakeInv
  OBVIOUS
<1>1. Listing
  BY DEF Init, Listing, ServesListed, ListedAlive, Owned, Unlisted, Destroying
<1>2. DeadQuiet /\ WakeReleased
  BY DEF Init, Fresh, DeadQuiet, WakeReleased
<1> QED
  BY <1>1, <1>2, TypedInit DEF WakeInv

LEMMA WakeInvStep == WakeInv /\ [Next]_vars => WakeInv'
<1>1. WakeInv => RpcTypeOK /\ Listing
  BY Zenon DEF WakeInv
<1>2. (RpcTypeOK /\ Listing /\ DeadQuiet /\ WakeReleased)' => WakeInv'
  BY Zenon DEF WakeInv
<1> QED
  BY <1>1, <1>2, TypedStep, ListingStep, DeadQuietStep, WakeStep

\* The wake lock is held only while a message is read or passed on, or a callback waits
\* or is handled, unless a client was destroyed with a callback under way
\* (WakeReleased).
THEOREM WakeCorrect == Spec => []WakeReleased
<1>1. WakeInv => WakeReleased
  BY Zenon DEF WakeInv
<1> QED
  BY <1>1, WakeInvInit, WakeInvStep, PTL DEF Spec

-----------------------------------------------------------------------------
(* The lock of a client. *)

\* With the client's lock, or about to give it back.
Locked == Labels \ {"idle", "enter"}

\* A client's lock is held by one thread at most, and only if the client is alive.
OneCall ==
  \A t \in Threads :
    /\ pc[t] # "idle" => on[t] \in Clients
    /\ pc[t] \in Locked =>
         /\ cl[on[t]].alive
         /\ \A u \in Threads : pc[u] \in Locked /\ on[u] = on[t] => u = t

\* How a step moves one thread, or leaves who holds which lock.
Moves(t, label) == pc' = [pc EXCEPT ![t] = label] /\ on' = on
Leaves(t) == pc' = [pc EXCEPT ![t] = "idle"] /\ on' = [on EXCEPT ![t] = NULL]
Enters(t, c, label) == pc' = [pc EXCEPT ![t] = label] /\ on' = [on EXCEPT ![t] = c]

LEMMA LockSteps ==
  ASSUME RpcTypeOK, [Next]_vars
  PROVE  \/ UNCHANGED <<pc, on>>
         \/ RxReply
         \/ \E t \in Threads :
              \/ \E label \in Locked : pc[t] \in Locked /\ Moves(t, label) /\ ~ DestroyFrees(t)
              \/ pc[t] \in Locked /\ Leaves(t)
              \/ Begin(t) /\ (Moves(t, "begun") \/ Leaves(t))
              \/ \E c \in Clients : Enter(t, c) /\ pc[t] = "idle" /\ Enters(t, c, "enter")
              \/ \E c \in Clients, label \in Destroying :
                   DestroyBegin(t, c) /\ pc[t] = "idle" /\ Enters(t, c, label)
<1> DEFINE Moved(t) == \E label \in Locked : pc[t] \in Locked /\ Moves(t, label) /\ ~ DestroyFrees(t)
           Left(t) == pc[t] \in Locked /\ Leaves(t)
<1> USE DEF Goto, Call, Return, Moves, Leaves, Enters
<1>1. UNCHANGED vars => UNCHANGED <<pc, on>>
  BY Zenon DEF vars
<1>2. ASSUME NEW t \in Threads, NEW c \in Clients, Enter(t, c)
      PROVE  pc[t] = "idle" /\ Enters(t, c, "enter")
  BY <1>2, Zenon DEF Enter
<1>3. ASSUME NEW t \in Threads, NEW c \in Clients, DestroyBegin(t, c)
      PROVE  \E label \in Destroying : pc[t] = "idle" /\ Enters(t, c, label)
  BY <1>3 DEF DestroyBegin, Destroying
<1>4. ASSUME NEW t \in Threads, Begin(t) PROVE Moves(t, "begun") \/ Leaves(t)
  BY <1>4, Zenon DEF Begin
<1>5. ASSUME NEW t \in Threads, CallsActs(t), ~ Begin(t) PROVE Moved(t) \/ Left(t)
  <2> USE DEF Locked, Labels, Destroying
  <2>1. CASE Send(t)
    BY <2>1 DEF Send, DestroyFrees
  <2>2. CASE Wait(t) \/ SpuriousWakeup(t) \/ Reacquire(t)
    BY <2>2 DEF Wait, SpuriousWakeup, Reacquire, DestroyFrees
  <2>3. CASE FreeInput(t)
    BY <2>3 DEF FreeInput
  <2> QED
    BY <1>5, <2>1, <2>2, <2>3, Zenon DEF CallsActs
<1>6. ASSUME NEW t \in Threads, DestroyActs(t) PROVE Moved(t) \/ Left(t)
  <2> USE DEF Locked, Labels, Destroying
  <2>1. CASE DestroyFrees(t)
    BY <2>1 DEF DestroyFrees
  <2>2. CASE DestroyUnlinks(t) /\ ~ DestroyFrees(t)
    BY <2>2 DEF DestroyUnlinks
  <2>3. CASE (DestroySignals(t) \/ DestroyJoinsCb(t) \/ DestroyJoinsRx(t)) /\ ~ DestroyFrees(t)
    BY <2>3 DEF DestroySignals, DestroyJoinsCb, DestroyJoinsRx
  <2> QED
    BY <1>6, <2>1, <2>2, <2>3, Zenon DEF DestroyActs
<1>7. RxActs => RxReply \/ UNCHANGED <<pc, on>>
  BY Zenon DEF RxActs, RxCheck, RxCopy, RxSelect, RxLock, RxClaim, RxRead, RxCall
<1>8. ASSUME NEW c \in Clients, CbActs(c) PROVE UNCHANGED <<pc, on>>
  BY <1>8, Zenon DEF CbActs, CbLoop, CbWake, CbHandOver, CbUnserved, CbDispatched
<1>9. ASSUME NEW c \in Clients, OtherActs(c) PROVE UNCHANGED <<pc, on>>
  BY <1>9, Zenon DEF OtherActs, clnt_create, ModemReplies, ModemCalls, svc_register
<1> HIDE DEF Moves, Leaves, Enters
<1> QED
  BY <1>1, <1>2, <1>3, <1>4, <1>5, <1>6, <1>7, <1>8, <1>9, Steps, Zenon

LEMMA OneCallStep == RpcTypeOK /\ OneCall /\ [Next]_vars => OneCall'
<1> SUFFICES ASSUME RpcTypeOK, OneCall, [Next]_vars PROVE OneCall'
  OBVIOUS
<1>0. /\ cl \in [Clients -> ClientType]
      /\ pc \in [Threads -> Labels] /\ on \in [Threads -> Clients \cup {NULL}]
  BY TypeParts, Zenon DEF ClTyped, CallsTyped
<1> DEFINE KeepsAlive == \A c \in Clients : cl[c].alive => cl'[c].alive
<1>1. KeepsAlive \/ \E t \in Threads : DestroyFrees(t)
  <2>1. ASSUME NEW c \in Clients, clnt_create(c) PROVE KeepsAlive
    BY <1>0, <2>1 DEF clnt_create, Fresh
  <2> QED
    BY <2>1, AliveSteps
<1>2. ASSUME KeepsAlive, UNCHANGED <<pc, on>> PROVE OneCall'
  <2>1. pc' = pc /\ on' = on
    BY <1>2
  <2>2. SUFFICES ASSUME NEW t \in Threads
        PROVE  /\ pc[t] # "idle" => on[t] \in Clients
               /\ pc[t] \in Locked =>
                    /\ cl'[on[t]].alive
                    /\ \A u \in Threads : pc[u] \in Locked /\ on[u] = on[t] => u = t
    BY <2>1, Zenon DEF OneCall, Locked, Labels
  <2> QED
    BY <1>2, SMTT(30) DEF OneCall, Locked
<1>3. ASSUME KeepsAlive, RxReply PROVE OneCall'
  BY <1>0, <1>3 DEF OneCall, RxReply, Calling, Locked, Labels
<1>4. ASSUME KeepsAlive, NEW t \in Threads, NEW label \in Locked, pc[t] \in Locked, Moves(t, label)
      PROVE  OneCall'
  BY <1>0, <1>4 DEF OneCall, Moves, Locked
<1>5. ASSUME KeepsAlive, NEW t \in Threads, Leaves(t) PROVE OneCall'
  BY <1>0, <1>5 DEF OneCall, Leaves, Locked
<1>6. ASSUME KeepsAlive, NEW t \in Threads, Begin(t), Moves(t, "begun") PROVE OneCall'
  BY <1>0, <1>6 DEF OneCall, Moves, Begin, ClientLockFree, Calling, Locked, Labels
<1>7. ASSUME KeepsAlive, NEW t \in Threads, NEW c \in Clients, Enters(t, c, "enter") PROVE OneCall'
  BY <1>0, <1>7 DEF OneCall, Enters, Locked
<1>8. ASSUME KeepsAlive, NEW t \in Threads, NEW c \in Clients, NEW label \in Destroying,
             DestroyBegin(t, c), Enters(t, c, label)
      PROVE  OneCall'
  BY <1>0, <1>8 DEF OneCall, Enters, DestroyBegin, ClientLockFree, Calling, Locked, Labels
<1>9. ASSUME NEW t \in Threads, DestroyFrees(t) PROVE OneCall'
  <2>1. \A d \in Clients : d # on[t] => cl'[d] = cl[d]
    BY <1>0, <1>9 DEF DestroyFrees
  <2>2. Leaves(t) /\ pc[t] \in Locked
    BY <1>9 DEF DestroyFrees, Return, Call, Goto, Leaves, Locked, Labels, Destroying
  <2> QED
    BY <1>0, <2>1, <2>2 DEF OneCall, Leaves, Locked
<1> HIDE DEF KeepsAlive
<1> QED
  BY <1>1, <1>2, <1>3, <1>4, <1>5, <1>6, <1>7, <1>8, <1>9, LockSteps, Zenon

-----------------------------------------------------------------------------
(* The input buffer. *)

RxAt(c) == IF serving = c /\ rx \in {"read", "reply", "call"} THEN rx ELSE "away"
Expecting(c) == \E t \in Threads : Calling(t, c, {"sent", "waiting"})
Decoding(c) == \E t \in Threads : Calling(t, c, {"woken", "decode"})
Freeing(c) == \E t \in Threads : Calling(t, c, {"free"})
Passed(c) == cl[c].got_cb /\ cl[c].cb # "ended"
Handling(c) == cl[c].cb = "handle"
Ended(c) == cl[c].cb = "ended"

\* The reply to the call that waits is with the modem, on its way or being passed on;
\* there is no other, and none that nobody waits for.
Replies(c) ==
  /\ \A x \in cl[c].asked :
       /\ Expecting(c) /\ x = cl[c].xid /\ RxAt(c) # "reply"
       /\ \A i \in 1..Len(cl[c].inbox) : cl[c].inbox[i].type # "reply"
  /\ \A i \in 1..Len(cl[c].inbox) : cl[c].inbox[i].type = "reply" =>
       /\ Expecting(c) /\ cl[c].inbox[i] = Reply(cl[c].xid) /\ RxAt(c) # "reply"
       /\ \A j \in 1..Len(cl[c].inbox) : cl[c].inbox[j].type = "reply" => j = i
  /\ RxAt(c) = "reply" => Expecting(c) /\ cl[c].in_msg = Reply(cl[c].xid)
  /\ ~ Freeing(c)

\* The message in the buffer is for one of them, and the buffer is in use as long as it is.
Consumed(c) == RxAt(c) \in {"reply", "call"} \/ Passed(c) \/ Handling(c) \/ Decoding(c)
Buffer(c) ==
  /\ RxAt(c) \in {"reply", "call"} => ~ Passed(c) /\ ~ Handling(c) /\ ~ Decoding(c)
  /\ Passed(c) => ~ Handling(c) /\ ~ Decoding(c)
  /\ Handling(c) => ~ Decoding(c)
  /\ Consumed(c) => cl[c].input_xdr_busy
  /\ cl[c].input_xdr_busy => Consumed(c) \/ cl[c].unserved \/ Ended(c)
  /\ RxAt(c) = "read" => ~ cl[c].input_xdr_busy
  /\ RxAt(c) = "call" \/ Passed(c) \/ Handling(c) => cl[c].in_msg.type = "call"
  /\ Decoding(c) => cl[c].in_msg = Reply(cl[c].xid)

Accounts == \A c \in Clients : cl[c].alive /\ ~ cl[c].cut => Replies(c) /\ Buffer(c)
BufferInv == RpcTypeOK /\ Listing /\ OneCall /\ Accounts

\* What a step leaves alone.
SameRx(c) == RxAt(c)' = RxAt(c)
SameCalls(c) ==
  /\ Expecting(c)' <=> Expecting(c)
  /\ Decoding(c)' <=> Decoding(c)
  /\ Freeing(c)' <=> Freeing(c)
SameMessages(c) ==
  /\ cl'[c].alive = cl[c].alive /\ cl'[c].cut = cl[c].cut
  /\ cl'[c].asked = cl[c].asked /\ cl'[c].inbox = cl[c].inbox /\ cl'[c].xid = cl[c].xid
SameBuffer(c) ==
  /\ cl'[c].in_msg = cl[c].in_msg /\ cl'[c].input_xdr_busy = cl[c].input_xdr_busy
  /\ cl'[c].unserved = cl[c].unserved
  /\ (Passed(c)' <=> Passed(c)) /\ (Handling(c)' <=> Handling(c)) /\ (Ended(c)' <=> Ended(c))
Same(c) == SameRx(c) /\ SameCalls(c) /\ SameMessages(c) /\ SameBuffer(c)

LEMMA ClientFrame ==
  ASSUME NEW c \in Clients, cl'[c] = cl[c]
  PROVE  SameMessages(c) /\ SameBuffer(c)
  BY DEF SameMessages, SameBuffer, Passed, Handling, Ended

LEMMA RxFrame ==
  ASSUME UNCHANGED <<rx, serving>>
  PROVE  \A c \in Clients : SameRx(c)
  BY DEF SameRx, RxAt

LEMMA RxAway ==
  ASSUME rx \notin {"read", "reply", "call"}, rx' \notin {"read", "reply", "call"}
  PROVE  \A c \in Clients : SameRx(c)
  BY DEF SameRx, RxAt

LEMMA CallsFrame ==
  ASSUME UNCHANGED <<pc, on>>
  PROVE  \A c \in Clients : SameCalls(c)
  BY DEF SameCalls, Expecting, Decoding, Freeing, Calling

LEMMA MoveFrame ==
  ASSUME RpcTypeOK, NEW t \in Threads, NEW label, NEW c \in Clients,
         \/ Moves(t, label) /\ c # on[t]
         \/ Moves(t, label) /\ pc[t] \in {"sent", "waiting"} /\ label \in {"sent", "waiting"}
         \/ Moves(t, label) /\ pc[t] \in {"woken", "decode"} /\ label \in {"woken", "decode"}
         \/ /\ Moves(t, label)
            /\ {pc[t], label} \cap {"sent", "waiting", "woken", "decode", "free"} = {}
  PROVE  SameCalls(c)
<1>0. pc \in [Threads -> Labels] /\ on \in [Threads -> Clients \cup {NULL}]
  BY TypeParts, Zenon DEF CallsTyped
<1> QED
  BY <1>0 DEF Moves, SameCalls, Expecting, Decoding, Freeing, Calling

LEMMA LeaveFrame ==
  ASSUME RpcTypeOK, NEW t \in Threads, NEW c \in Clients, Leaves(t),
         c # on[t] \/ pc[t] \notin {"sent", "waiting", "woken", "decode", "free"}
  PROVE  SameCalls(c)
<1>0. pc \in [Threads -> Labels] /\ on \in [Threads -> Clients \cup {NULL}]
  BY TypeParts, Zenon DEF CallsTyped
<1> QED
  BY <1>0, NamesDiffer DEF Leaves, SameCalls, Expecting, Decoding, Freeing, Calling

LEMMA EnterFrame ==
  ASSUME RpcTypeOK, NEW t \in Threads, NEW d, NEW label, Enters(t, d, label), pc[t] = "idle",
         label \notin {"sent", "waiting", "woken", "decode", "free"}
  PROVE  \A c \in Clients : SameCalls(c)
<1>0. pc \in [Threads -> Labels] /\ on \in [Threads -> Clients \cup {NULL}]
  BY TypeParts, Zenon DEF CallsTyped
<1> QED
  BY <1>0 DEF Enters, SameCalls, Expecting, Decoding, Freeing, Calling

LEMMA Frame ==
  ASSUME NEW c \in Clients, Same(c)
  PROVE  /\ Replies(c) => Replies(c)'
         /\ Buffer(c) => Buffer(c)'
         /\ cl'[c].alive = cl[c].alive /\ cl'[c].cut = cl[c].cut
  BY DEF Same, SameRx, SameCalls, SameMessages, SameBuffer, Replies, Buffer, Consumed

\* All clients but one are left alone.
LEMMA OneClient ==
  ASSUME Accounts, NEW c,
         \A d \in Clients : d # c => Same(d),
         c \in Clients /\ cl'[c].alive /\ ~ cl'[c].cut => Replies(c)' /\ Buffer(c)'
  PROVE  Accounts'
  BY Frame DEF Accounts

LEMMA InvParts ==
  ASSUME BufferInv
  PROVE  /\ RpcTypeOK /\ Listing /\ OneCall /\ Accounts
         /\ cl \in [Clients -> ClientType]
         /\ pc \in [Threads -> Labels] /\ on \in [Threads -> Clients \cup {NULL}]
  BY TypeParts, Zenon DEF BufferInv, ClTyped, CallsTyped

\* The thread that holds a client's lock is the only one to expect or decode a reply.
LEMMA Holder ==
  ASSUME OneCall, NEW t \in Threads, pc[t] \in Locked
  PROVE  /\ on[t] \in Clients /\ cl[on[t]].alive
         /\ Expecting(on[t]) <=> pc[t] \in {"sent", "waiting"}
         /\ Decoding(on[t]) <=> pc[t] \in {"woken", "decode"}
         /\ Freeing(on[t]) <=> pc[t] = "free"
  BY DEF OneCall, Locked, Labels, Expecting, Decoding, Freeing, Calling

LEMMA BeginAccounts == ASSUME BufferInv, NEW t \in Threads, Begin(t) PROVE Accounts'
<1>a. on[t] \in Clients
  BY InvParts DEF Begin, OneCall
<1>b. PICK c \in Clients : c = on[t]
  BY <1>a
<1>0. /\ RpcTypeOK /\ OneCall /\ Accounts /\ cl \in [Clients -> ClientType]
      /\ pc[t] = "enter" /\ cl[c].alive /\ ClientLockFree(c)
      /\ cl' = [cl EXCEPT ![c].xid = @ + 1] /\ UNCHANGED <<rx, serving>>
  BY <1>b, InvParts DEF Begin
<1>1. ~ Expecting(c) /\ ~ Decoding(c) /\ ~ Freeing(c)
  BY <1>0 DEF ClientLockFree, Expecting, Decoding, Freeing, Calling
<1>2. \A d \in Clients : SameCalls(d)
  <2>1. Moves(t, "begun") \/ Leaves(t)
    BY Zenon DEF Begin, Goto, Return, Call, Moves, Leaves
  <2> QED
    BY <1>0, <2>1, MoveFrame, LeaveFrame
<1>3. \A d \in Clients : SameRx(d)
  BY <1>0, RxFrame
<1>4. \A d \in Clients : d # c => Same(d)
  BY <1>0, <1>2, <1>3, ClientFrame DEF Same
<1>5. SameBuffer(c) /\ cl'[c].alive = cl[c].alive /\ cl'[c].cut = cl[c].cut
      /\ cl'[c].asked = cl[c].asked /\ cl'[c].inbox = cl[c].inbox
  BY <1>0 DEF ClientType, SameBuffer, Passed, Handling, Ended
<1>6. ASSUME Replies(c), Buffer(c) PROVE Replies(c)' /\ Buffer(c)'
  BY <1>0, <1>1, <1>2, <1>3, <1>5, <1>6 DEF SameCalls, SameRx, SameBuffer, Replies, Buffer, Consumed
<1> QED
  BY <1>0, <1>4, <1>5, <1>6, OneClient DEF Accounts

LEMMA SendAccounts == ASSUME BufferInv, NEW t \in Threads, Send(t) PROVE Accounts'
<1>a. on[t] \in Clients /\ pc[t] \in Locked
  BY InvParts DEF Send, OneCall, Locked, Labels
<1>b. PICK c \in Clients : c = on[t]
  BY <1>a
<1>0. /\ RpcTypeOK /\ OneCall /\ Accounts /\ cl \in [Clients -> ClientType]
      /\ pc \in [Threads -> Labels]
      /\ pc[t] = "begun" /\ UNCHANGED <<rx, serving>>
  BY InvParts DEF Send
<1>1. ~ Expecting(c) /\ ~ Decoding(c) /\ ~ Freeing(c)
  BY <1>0, <1>a, <1>b, Holder
<1>2. \A d \in Clients : SameRx(d)
  BY <1>0, RxFrame
<1>3. ASSUME cl' = [cl EXCEPT ![c].cut = TRUE], Moves(t, "free") PROVE Accounts'
  <2>1. \A d \in Clients : d # c => Same(d)
    BY <1>0, <1>b, <1>2, <1>3, MoveFrame, ClientFrame DEF Same
  <2>2. cl'[c].cut
    BY <1>0, <1>1, <1>3 DEF ClientType
  <2> QED
    BY <1>0, <2>1, <2>2, OneClient
<1>4. ASSUME cl' = [cl EXCEPT ![c].asked = @ \cup {cl[c].xid}], Moves(t, "sent") PROVE Accounts'
  <2>1. \A d \in Clients : d # c => Same(d)
    BY <1>0, <1>b, <1>2, <1>4, MoveFrame, ClientFrame DEF Same
  <2>2. SameBuffer(c) /\ cl'[c].alive = cl[c].alive /\ cl'[c].cut = cl[c].cut
        /\ cl'[c].asked = cl[c].asked \cup {cl[c].xid} /\ cl'[c].inbox = cl[c].inbox
        /\ cl'[c].xid = cl[c].xid
    BY <1>0, <1>1, <1>4 DEF ClientType, SameBuffer, Passed, Handling, Ended
  <2>3. on' = on /\ pc'[t] = "sent" /\ pc'[t] \in Locked
    BY <1>0, <1>4 DEF Moves, Locked, Labels
  <2>4. Expecting(c)' /\ ~ Decoding(c)' /\ ~ Freeing(c)'
    BY <1>0, <1>b, <1>1, <1>4 DEF Moves, Expecting, Decoding, Freeing, Calling
  <2>5. ASSUME Replies(c), Buffer(c) PROVE Replies(c)' /\ Buffer(c)'
    BY <1>1, <1>2, <2>2, <2>4, <2>5 DEF SameRx, SameBuffer, Replies, Buffer, Consumed
  <2> QED
    BY <1>0, <2>1, <2>2, <2>5, OneClient DEF Accounts
<1> QED
  BY <1>b, <1>3, <1>4, Zenon DEF Send, Goto, Moves

LEMMA FreeInputAccounts == ASSUME BufferInv, NEW t \in Threads, FreeInput(t) PROVE Accounts'
<1>a. on[t] \in Clients /\ pc[t] \in Locked
  BY InvParts DEF FreeInput, OneCall, Locked, Labels
<1>b. PICK c \in Clients : c = on[t]
  BY <1>a
<1>0. /\ RpcTypeOK /\ OneCall /\ Accounts /\ cl \in [Clients -> ClientType]
      /\ pc \in [Threads -> Labels] /\ on \in [Threads -> Clients \cup {NULL}]
      /\ pc[t] \in {"decode", "free"} /\ UNCHANGED <<rx, serving>>
      /\ cl' = [cl EXCEPT ![c].input_xdr_busy = FALSE] /\ Leaves(t)
  BY <1>b, InvParts DEF FreeInput, Return, Call, Goto, Leaves
<1>1. \A d \in Clients : SameRx(d)
  BY <1>0, RxFrame
<1>2. \A d \in Clients : d # c => Same(d)
  BY <1>0, <1>b, <1>1, LeaveFrame, ClientFrame DEF Same
<1>3. /\ SameMessages(c) /\ ~ cl'[c].input_xdr_busy /\ cl'[c].in_msg = cl[c].in_msg
      /\ Passed(c)' = Passed(c) /\ Handling(c)' = Handling(c)
  BY <1>0 DEF ClientType, SameMessages, Passed, Handling
<1>4. ~ Expecting(c) /\ (Decoding(c) <=> pc[t] = "decode") /\ (Freeing(c) <=> pc[t] = "free")
  BY <1>0, <1>a, <1>b, Holder
<1>5. ~ Expecting(c)' /\ ~ Decoding(c)' /\ ~ Freeing(c)'
  <2>1. \A u \in Threads : u # t /\ pc[u] \in Locked => on[u] # c
    BY <1>0, <1>a, <1>b DEF OneCall
  <2> QED
    BY <1>0, <2>1 DEF Leaves, Expecting, Decoding, Freeing, Calling, Locked, Labels
<1>6. ASSUME Replies(c), Buffer(c) PROVE Replies(c)' /\ Buffer(c)'
  BY <1>0, <1>1, <1>3, <1>4, <1>5, <1>6 DEF SameRx, SameMessages, Replies, Buffer, Consumed
<1> QED
  BY <1>0, <1>2, <1>3, <1>6, OneClient DEF Accounts, SameMessages

LEMMA SpuriousAccounts == ASSUME BufferInv, NEW t \in Threads, SpuriousWakeup(t) PROVE Accounts'
<1>a. on[t] \in Clients
  BY InvParts DEF SpuriousWakeup, OneCall
<1>b. PICK c \in Clients : c = on[t]
  BY <1>a
<1>0. /\ RpcTypeOK /\ Accounts /\ cl \in [Clients -> ClientType]
      /\ UNCHANGED <<rx, serving>>
      /\ cl' = [cl EXCEPT ![c].cut = TRUE] /\ Moves(t, "woken")
  BY <1>b, InvParts DEF SpuriousWakeup, Goto, Moves
<1>1. \A d \in Clients : d # c => Same(d)
  BY <1>0, <1>b, RxFrame, MoveFrame, ClientFrame DEF Same
<1>2. cl'[c].cut
  BY <1>0 DEF ClientType
<1> QED
  BY <1>0, <1>1, <1>2, OneClient

LEMMA FreesAccounts == ASSUME BufferInv, NEW t \in Threads, DestroyFrees(t) PROVE Accounts'
<1>a. on[t] \in Clients
  BY InvParts DEF DestroyFrees, OneCall
<1>b. PICK c \in Clients : c = on[t]
  BY <1>a
<1> DEFINE y == [Fresh EXCEPT !.alive = FALSE, !.cb = cl[c].cb, !.cb_stop = cl[c].cb_stop]
<1>0. /\ RpcTypeOK /\ Accounts /\ cl \in [Clients -> ClientType]
      /\ UNCHANGED <<rx, serving>>
      /\ cl' = [cl EXCEPT ![c] = y] /\ Leaves(t)
  BY <1>b, InvParts DEF DestroyFrees, Return, Call, Goto, Leaves
<1>1. \A d \in Clients : d # c => Same(d)
  BY <1>0, <1>b, RxFrame, LeaveFrame, ClientFrame DEF Same
<1>2. ~ cl'[c].alive
  BY <1>0 DEF Fresh
<1> QED
  BY <1>0, <1>1, <1>2, OneClient

LEMMA CreateAccounts == ASSUME BufferInv, NEW c \in Clients, clnt_create(c) PROVE Accounts'
<1>0. /\ OneCall /\ Accounts /\ cl \in [Clients -> ClientType]
      /\ UNCHANGED <<pc, on>> /\ cl' = [cl EXCEPT ![c] = Fresh] /\ ~ cl[c].alive
  BY InvParts DEF clnt_create
<1>1. \A d \in Clients : SameRx(d) /\ RxAt(d)' = "away"
  <2>1. rx \notin {"read", "reply", "call"} /\ rx' \notin {"read", "reply", "call"}
    BY DEF clnt_create, RxMutexFree
  <2> QED
    BY <2>1, RxAway DEF RxAt
<1>2. \A d \in Clients : d # c => Same(d)
  BY <1>0, <1>1, CallsFrame, ClientFrame DEF Same
<1>3. ~ Expecting(c)' /\ ~ Decoding(c)' /\ ~ Freeing(c)'
  <2>1. \A t \in Threads : pc[t] \in Locked => on[t] # c
    BY <1>0 DEF OneCall
  <2> QED
    BY <1>0, <2>1 DEF Expecting, Decoding, Freeing, Calling, Locked, Labels
<1>4. cl'[c] = Fresh
  BY <1>0
<1>5. ~ Passed(c)' /\ ~ Handling(c)' /\ ~ cl'[c].input_xdr_busy /\ cl'[c].asked = {}
      /\ cl'[c].inbox = <<>>
  BY <1>4 DEF Passed, Handling, Fresh
<1>6. Replies(c)' /\ Buffer(c)'
  BY <1>1, <1>3, <1>5 DEF Replies, Buffer, Consumed
<1> QED
  BY <1>0, <1>2, <1>6, OneClient

LEMMA Serving ==
  ASSUME BufferInv, rx \in {"scan", "read", "reply", "call"}
  PROVE  serving \in Clients
<1>1. serving \in clients
  BY Zenon DEF BufferInv, Listing, ServesListed
<1> QED
  BY <1>1, TypeParts, Zenon DEF BufferInv, RxTyped

LEMMA RxClaimAccounts == ASSUME BufferInv, RxClaim PROVE Accounts'
<1>b. PICK c \in Clients : c = serving
  BY Serving DEF RxClaim
<1>0. /\ Accounts /\ UNCHANGED <<cl, pc, on, serving>>
      /\ ~ cl[c].input_xdr_busy /\ rx = "scan" /\ rx' = "read"
  BY <1>b, InvParts DEF RxClaim
<1>1. \A d \in Clients : d # c => Same(d)
  BY <1>0, <1>b, CallsFrame, ClientFrame DEF Same, SameRx, RxAt
<1>2. SameCalls(c) /\ SameMessages(c) /\ SameBuffer(c) /\ RxAt(c) = "away" /\ RxAt(c)' = "read"
  BY <1>0, <1>b, CallsFrame, ClientFrame DEF RxAt
<1>3. ASSUME Replies(c), Buffer(c) PROVE Replies(c)' /\ Buffer(c)'
  BY <1>0, <1>2, <1>3 DEF SameCalls, SameMessages, SameBuffer, Replies, Buffer, Consumed
<1> QED
  BY <1>0, <1>1, <1>2, <1>3, OneClient DEF Accounts, SameMessages

LEMMA RxReadAccounts == ASSUME BufferInv, RxRead PROVE Accounts'
<1>b. PICK c \in Clients : c = serving
  BY Serving DEF RxRead
<1> DEFINE m == Head(cl[c].inbox)
           l == Tail(cl[c].inbox)
<1>0. /\ Accounts /\ cl \in [Clients -> ClientType] /\ UNCHANGED <<pc, on, serving>>
      /\ rx = "read" /\ rx' = (IF m.type = "reply" THEN "reply" ELSE "call")
      /\ cl' = [cl EXCEPT ![c].in_msg = m, ![c].inbox = l, ![c].input_xdr_busy = TRUE]
      /\ cl[c].inbox # <<>>
  BY <1>b, InvParts, Zenon DEF RxRead
<1>1. /\ cl[c].inbox \in Seq(Messages) /\ Len(cl[c].inbox) \in Nat /\ Len(cl[c].inbox) > 0
      /\ Len(l) = Len(cl[c].inbox) - 1 /\ m = cl[c].inbox[1] /\ m.type \in {"reply", "call"}
      /\ \A i \in 1..Len(l) : l[i] = cl[c].inbox[i + 1] /\ i + 1 \in 1..Len(cl[c].inbox)
  <2>1. cl[c].inbox \in Seq(Messages)
    BY <1>0 DEF ClientType
  <2>2. m = cl[c].inbox[1] /\ m \in Messages /\ Len(l) = Len(cl[c].inbox) - 1
        /\ Len(cl[c].inbox) \in Nat /\ Len(cl[c].inbox) > 0
        /\ \A i \in 1..Len(l) : l[i] = cl[c].inbox[i + 1]
    BY <1>0, <2>1, HeadTailProperties, EmptySeq, LenProperties
  <2> QED
    BY <2>1, <2>2 DEF Messages
<1> HIDE DEF m, l
<1>2. \A d \in Clients : d # c => Same(d)
  BY <1>0, <1>b, CallsFrame, ClientFrame DEF Same, SameRx, RxAt
<1>3. /\ cl'[c].in_msg = m /\ cl'[c].inbox = l /\ cl'[c].input_xdr_busy
      /\ cl'[c].alive = cl[c].alive /\ cl'[c].cut = cl[c].cut
      /\ cl'[c].asked = cl[c].asked /\ cl'[c].xid = cl[c].xid
      /\ Passed(c)' = Passed(c) /\ Handling(c)' = Handling(c)
  BY <1>0 DEF ClientType, Passed, Handling
<1>4. RxAt(c) = "read" /\ RxAt(c)' = (IF m.type = "reply" THEN "reply" ELSE "call") /\ SameCalls(c)
  BY <1>0, <1>b, CallsFrame DEF RxAt
<1>5. ASSUME Replies(c), Buffer(c) PROVE Replies(c)' /\ Buffer(c)'
  <2>1. Replies(c)'
    <3>1. 1 \in 1..Len(cl[c].inbox)
      BY <1>1
    <3>2. \A x \in cl[c].asked :
            /\ Expecting(c) /\ x = cl[c].xid /\ m.type # "reply"
            /\ \A i \in 1..Len(l) : l[i].type # "reply"
      BY <1>1, <1>5, <3>1 DEF Replies
    <3>3. ASSUME NEW i \in 1..Len(l), l[i].type = "reply"
          PROVE  /\ Expecting(c) /\ l[i] = Reply(cl[c].xid) /\ m.type # "reply"
                 /\ \A j \in 1..Len(l) : l[j].type = "reply" => j = i
      <4>1. /\ i + 1 \in 1..Len(cl[c].inbox) /\ i + 1 # 1
            /\ cl[c].inbox[i + 1].type = "reply" /\ l[i] = cl[c].inbox[i + 1]
        BY <1>1, <3>3
      <4>2. /\ Expecting(c) /\ cl[c].inbox[i + 1] = Reply(cl[c].xid)
            /\ \A j \in 1..Len(cl[c].inbox) : cl[c].inbox[j].type = "reply" => j = i + 1
        BY <1>5, <4>1 DEF Replies
      <4>3. m.type # "reply"
        BY <1>1, <3>1, <4>1, <4>2
      <4>4. ASSUME NEW j \in 1..Len(l), l[j].type = "reply" PROVE j = i
        <5>1. j + 1 = i + 1
          BY <1>1, <4>2, <4>4
        <5> QED
          BY <1>1, <5>1
      <4> QED
        BY <4>1, <4>2, <4>3, <4>4
    <3>4. m.type = "reply" => Expecting(c) /\ m = Reply(cl[c].xid)
      BY <1>1, <1>5, <3>1 DEF Replies
    <3>5. RxAt(c)' = "reply" => m.type = "reply"
      BY <1>4
    <3> QED
      BY <1>3, <1>4, <1>5, <3>2, <3>3, <3>4, <3>5 DEF SameCalls, Replies
  <2>2. Buffer(c)'
    BY <1>1, <1>3, <1>4, <1>5 DEF SameCalls, Buffer, Consumed
  <2> QED
    BY <2>1, <2>2
<1> QED
  BY <1>0, <1>2, <1>3, <1>5, OneClient DEF Accounts

LEMMA RxReplyAccounts == ASSUME BufferInv, RxReply PROVE Accounts'
<1>b. PICK c \in Clients : c = serving
  BY Serving DEF RxReply
<1>0. /\ Accounts /\ UNCHANGED <<cl, on>> /\ pc \in [Threads -> Labels]
      /\ rx = "reply" /\ rx' \notin {"read", "reply", "call"} /\ WaitReplyLockFree(c)
      /\ pc' = [t \in Threads |-> IF Calling(t, c, {"waiting"}) THEN "woken" ELSE pc[t]]
  BY <1>b, InvParts DEF RxReply, Serve
<1>1. \A d \in Clients : d # c => Same(d)
  BY <1>0, <1>b, ClientFrame
     DEF Same, SameRx, RxAt, SameCalls, Expecting, Decoding, Freeing, Calling
<1>2. SameMessages(c) /\ SameBuffer(c) /\ RxAt(c) = "reply" /\ RxAt(c)' = "away"
  BY <1>0, <1>b, ClientFrame DEF RxAt
<1>3. Expecting(c) => ~ Expecting(c)' /\ Decoding(c)' /\ (Freeing(c)' <=> Freeing(c))
  BY <1>0 DEF WaitReplyLockFree, Expecting, Decoding, Freeing, Calling
<1>4. ASSUME Replies(c), Buffer(c) PROVE Replies(c)' /\ Buffer(c)'
  BY <1>2, <1>3, <1>4 DEF SameMessages, SameBuffer, Replies, Buffer, Consumed
<1> QED
  BY <1>0, <1>1, <1>2, <1>4, OneClient DEF Accounts, SameMessages

LEMMA RxCallAccounts == ASSUME BufferInv, RxCall PROVE Accounts'
<1>b. PICK c \in Clients : c = serving
  BY Serving DEF RxCall
<1> DEFINE stop == IF cl[c].cb_stop = "unstarted" THEN "run" ELSE cl[c].cb_stop
           thread == IF cl[c].cb_stop = "unstarted" THEN "start"
                     ELSE IF cl[c].cb = "wait" THEN "woken" ELSE cl[c].cb
<1>1. thread \in {"start", "woken", cl[c].cb}
  OBVIOUS
<1>2. cl' = [cl EXCEPT ![c].got_cb = TRUE, ![c].cb_stop = stop, ![c].cb = thread]
  BY <1>b, Zenon DEF RxCall
<1> HIDE DEF stop, thread
<1>0. /\ Accounts /\ cl \in [Clients -> ClientType] /\ UNCHANGED <<pc, on>>
      /\ rx = "call" /\ rx' \notin {"read", "reply", "call"}
  BY InvParts DEF RxCall, Serve
<1>3. \A d \in Clients : d # c => Same(d)
  <2>1. \A d \in Clients : d # c => cl'[d] = cl[d]
    BY <1>0, <1>2
  <2> QED
    BY <1>0, <1>b, <2>1, CallsFrame, ClientFrame DEF Same, SameRx, RxAt
<1>4. /\ SameMessages(c) /\ SameCalls(c) /\ cl'[c].cb = thread /\ cl'[c].got_cb
      /\ cl'[c].in_msg = cl[c].in_msg /\ cl'[c].input_xdr_busy = cl[c].input_xdr_busy
      /\ cl'[c].unserved = cl[c].unserved
  BY <1>0, <1>2, CallsFrame DEF ClientType, SameMessages
<1>5. RxAt(c) = "call" /\ RxAt(c)' = "away"
  BY <1>0, <1>b DEF RxAt
<1>6. ASSUME Replies(c), Buffer(c) PROVE Replies(c)' /\ Buffer(c)'
  <2>1. Replies(c)'
    BY <1>4, <1>5, <1>6 DEF SameMessages, SameCalls, Replies
  <2>2. /\ ~ Handling(c)' /\ (Passed(c)' <=> cl'[c].cb # "ended")
        /\ (Ended(c)' <=> cl'[c].cb = "ended")
    BY <1>1, <1>4, <1>5, <1>6 DEF Buffer, Handling, Passed, Ended
  <2>3. Buffer(c)'
    BY <1>4, <1>5, <1>6, <2>2 DEF SameCalls, Buffer, Consumed
  <2> QED
    BY <2>1, <2>3
<1> QED
  BY <1>0, <1>3, <1>4, <1>6, OneClient DEF Accounts, SameMessages

LEMMA CbLoopAccounts == ASSUME BufferInv, NEW c \in Clients, CbLoop(c) PROVE Accounts'
<1> DEFINE thread == IF cl[c].cb_stop = "stop" THEN "ended"
                     ELSE IF cl[c].got_cb THEN "handle" ELSE "wait"
           got == cl[c].got_cb /\ cl[c].cb_stop = "stop"
<1>1. \/ thread = "ended"
      \/ thread = "handle" /\ cl[c].got_cb /\ ~ got
      \/ thread = "wait" /\ ~ cl[c].got_cb /\ ~ got
  OBVIOUS
<1>2. cl' = [cl EXCEPT ![c].cb = thread, ![c].got_cb = got]
  BY Zenon DEF CbLoop
<1> HIDE DEF thread, got
<1>0. /\ Accounts /\ cl \in [Clients -> ClientType] /\ UNCHANGED <<pc, on, rx, serving>>
      /\ cl[c].cb \in {"start", "loop"}
  BY InvParts DEF CbLoop
<1>3. \A d \in Clients : d # c => Same(d)
  <2>1. \A d \in Clients : d # c => cl'[d] = cl[d]
    BY <1>0, <1>2
  <2> QED
    BY <1>0, <2>1, CallsFrame, RxFrame, ClientFrame DEF Same
<1>4. /\ SameMessages(c) /\ SameCalls(c) /\ SameRx(c) /\ cl'[c].cb = thread /\ cl'[c].got_cb = got
      /\ cl'[c].in_msg = cl[c].in_msg /\ cl'[c].input_xdr_busy = cl[c].input_xdr_busy
      /\ cl'[c].unserved = cl[c].unserved
  BY <1>0, <1>2, CallsFrame, RxFrame DEF ClientType, SameMessages
<1>5. /\ ~ Handling(c) /\ ~ Ended(c) /\ (Passed(c) <=> cl[c].got_cb)
      /\ (Passed(c)' => Passed(c)) /\ (Handling(c)' => Passed(c) /\ ~ Passed(c)')
      /\ (Passed(c) => Handling(c)' \/ Ended(c)') /\ ~ Passed(c)'
  BY <1>0, <1>1, <1>4 DEF Handling, Ended, Passed
<1>6. ASSUME Replies(c), Buffer(c) PROVE Replies(c)' /\ Buffer(c)'
  <2>1. Replies(c)'
    BY <1>4, <1>6 DEF SameRx, SameMessages, SameCalls, Replies
  <2>2. Buffer(c)'
    BY <1>4, <1>5, <1>6 DEF SameRx, SameMessages, SameCalls, Buffer, Consumed
  <2> QED
    BY <2>1, <2>2
<1> QED
  BY <1>0, <1>3, <1>4, <1>6, OneClient DEF Accounts, SameMessages

LEMMA CbWakeAccounts == ASSUME BufferInv, NEW c \in Clients, CbWake(c) PROVE Accounts'
<1> DEFINE thread == IF cl[c].got_cb THEN "handle" ELSE "loop"
<1>0. /\ Accounts /\ cl \in [Clients -> ClientType] /\ UNCHANGED <<pc, on, rx, serving>>
      /\ cl[c].cb = "woken" /\ cl' = [cl EXCEPT ![c].cb = thread, ![c].got_cb = FALSE]
  BY InvParts, Zenon DEF CbWake
<1>3. \A d \in Clients : d # c => Same(d)
  <2>1. \A d \in Clients : d # c => cl'[d] = cl[d]
    BY <1>0
  <2> QED
    BY <1>0, <2>1, CallsFrame, RxFrame, ClientFrame DEF Same
<1>4. /\ SameMessages(c) /\ SameCalls(c) /\ SameRx(c) /\ cl'[c].cb = thread /\ ~ cl'[c].got_cb
      /\ cl'[c].in_msg = cl[c].in_msg /\ cl'[c].input_xdr_busy = cl[c].input_xdr_busy
      /\ cl'[c].unserved = cl[c].unserved
  BY <1>0, CallsFrame, RxFrame DEF ClientType, SameMessages
<1>5. /\ ~ Handling(c) /\ ~ Ended(c) /\ (Handling(c)' <=> Passed(c)) /\ ~ Passed(c)'
  BY <1>0, <1>4 DEF Handling, Ended, Passed
<1>6. ASSUME Replies(c), Buffer(c) PROVE Replies(c)' /\ Buffer(c)'
  <2>1. Replies(c)'
    BY <1>4, <1>6 DEF SameRx, SameMessages, SameCalls, Replies
  <2>2. Buffer(c)'
    BY <1>4, <1>5, <1>6 DEF SameRx, SameMessages, SameCalls, Buffer, Consumed
  <2> QED
    BY <2>1, <2>2
<1> QED
  BY <1>0, <1>3, <1>4, <1>6, OneClient DEF Accounts, SameMessages

LEMMA CbHandOverAccounts == ASSUME BufferInv, NEW c \in Clients, CbHandOver(c) PROVE Accounts'
<1> DEFINE id == cl[c].in_msg.id
<1>0. /\ Accounts /\ cl \in [Clients -> ClientType] /\ UNCHANGED <<pc, on, rx, serving>>
      /\ cl[c].cb = "handle"
      /\ cl' = [cl EXCEPT ![c].input_xdr_busy = FALSE, ![c].cb = "dispatch", ![c].dispatched = id]
  BY InvParts, Zenon DEF CbHandOver
<1> HIDE DEF id
<1>3. \A d \in Clients : d # c => Same(d)
  <2>1. \A d \in Clients : d # c => cl'[d] = cl[d]
    BY <1>0
  <2> QED
    BY <1>0, <2>1, CallsFrame, RxFrame, ClientFrame DEF Same
<1>4. /\ SameMessages(c) /\ SameCalls(c) /\ SameRx(c) /\ cl'[c].cb = "dispatch"
      /\ cl'[c].got_cb = cl[c].got_cb /\ cl'[c].in_msg = cl[c].in_msg /\ ~ cl'[c].input_xdr_busy
  BY <1>0, CallsFrame, RxFrame DEF ClientType, SameMessages
<1>5. Handling(c) /\ ~ Handling(c)' /\ (Passed(c)' <=> Passed(c))
  BY <1>0, <1>4 DEF Handling, Passed
<1>6. ASSUME Replies(c), Buffer(c) PROVE Replies(c)' /\ Buffer(c)'
  <2>1. Replies(c)'
    BY <1>4, <1>6 DEF SameRx, SameMessages, SameCalls, Replies
  <2>2. Buffer(c)'
    BY <1>4, <1>5, <1>6 DEF SameRx, SameMessages, SameCalls, Buffer, Consumed
  <2> QED
    BY <2>1, <2>2
<1> QED
  BY <1>0, <1>3, <1>4, <1>6, OneClient DEF Accounts, SameMessages

LEMMA CbUnservedAccounts == ASSUME BufferInv, NEW c \in Clients, CbUnserved(c) PROVE Accounts'
<1>0. /\ Accounts /\ cl \in [Clients -> ClientType] /\ UNCHANGED <<pc, on, rx, serving>>
      /\ cl[c].cb = "handle" /\ cl' = [cl EXCEPT ![c].cb = "loop", ![c].unserved = TRUE]
  BY InvParts, Zenon DEF CbUnserved
<1>3. \A d \in Clients : d # c => Same(d)
  <2>1. \A d \in Clients : d # c => cl'[d] = cl[d]
    BY <1>0
  <2> QED
    BY <1>0, <2>1, CallsFrame, RxFrame, ClientFrame DEF Same
<1>4. /\ SameMessages(c) /\ SameCalls(c) /\ SameRx(c) /\ cl'[c].cb = "loop" /\ cl'[c].unserved
      /\ cl'[c].got_cb = cl[c].got_cb /\ cl'[c].in_msg = cl[c].in_msg
      /\ cl'[c].input_xdr_busy = cl[c].input_xdr_busy
  BY <1>0, CallsFrame, RxFrame DEF ClientType, SameMessages
<1>5. Handling(c) /\ ~ Handling(c)' /\ (Passed(c)' <=> Passed(c))
  BY <1>0, <1>4 DEF Handling, Passed
<1>6. ASSUME Replies(c), Buffer(c) PROVE Replies(c)' /\ Buffer(c)'
  <2>1. Replies(c)'
    BY <1>4, <1>6 DEF SameRx, SameMessages, SameCalls, Replies
  <2>2. Buffer(c)'
    BY <1>4, <1>5, <1>6 DEF SameRx, SameMessages, SameCalls, Buffer, Consumed
  <2> QED
    BY <2>1, <2>2
<1> QED
  BY <1>0, <1>3, <1>4, <1>6, OneClient DEF Accounts, SameMessages

LEMMA ModemRepliesAccounts == ASSUME BufferInv, NEW c \in Clients, ModemReplies(c) PROVE Accounts'
<1>0. PICK x \in cl[c].asked :
        /\ UNCHANGED <<pc, on, rx, serving>>
        /\ cl' = [cl EXCEPT ![c].asked = @ \ {x}, ![c].inbox = Append(cl[c].inbox, Reply(x))]
  BY Zenon DEF ModemReplies
<1> DEFINE l == Append(cl[c].inbox, Reply(x))
<1>1. Accounts /\ cl \in [Clients -> ClientType]
  BY InvParts
<1>2. /\ cl[c].inbox \in Seq(Messages) /\ Len(cl[c].inbox) \in Nat
      /\ Len(l) = Len(cl[c].inbox) + 1 /\ l[Len(cl[c].inbox) + 1] = Reply(x)
      /\ \A i \in 1..Len(cl[c].inbox) : l[i] = cl[c].inbox[i]
  <2>1. cl[c].inbox \in Seq(Messages) /\ Reply(x) \in Messages
    BY <1>1 DEF ClientType, Messages, Reply
  <2> QED
    BY <2>1, AppendProperties, LenProperties
<1>3. /\ \A d \in Clients : d # c => cl'[d] = cl[d]
      /\ cl'[c].asked = cl[c].asked \ {x} /\ cl'[c].inbox = l /\ cl'[c].xid = cl[c].xid
      /\ cl'[c].alive = cl[c].alive /\ cl'[c].cut = cl[c].cut /\ SameBuffer(c)
  BY <1>0, <1>1 DEF ClientType, SameBuffer, Passed, Handling, Ended
<1> HIDE DEF l
<1>4. \A d \in Clients : SameRx(d) /\ SameCalls(d)
  BY <1>0, CallsFrame, RxFrame
<1>5. \A d \in Clients : d # c => Same(d)
  BY <1>3, <1>4, ClientFrame DEF Same
<1>6. ASSUME Replies(c), Buffer(c) PROVE Replies(c)' /\ Buffer(c)'
  <2>1. /\ Expecting(c) /\ x = cl[c].xid /\ RxAt(c) # "reply" /\ cl'[c].asked = {}
        /\ \A i \in 1..Len(cl[c].inbox) : cl[c].inbox[i].type # "reply"
    BY <1>3, <1>6 DEF Replies
  <2>2. \A i \in 1..Len(l) : l[i].type = "reply" => i = Len(cl[c].inbox) + 1
    BY <1>2, <2>1
  <2>3. Replies(c)'
    BY <1>2, <1>3, <1>4, <1>6, <2>1, <2>2 DEF SameBuffer, SameRx, SameCalls, Replies
  <2>4. Buffer(c)'
    BY <1>3, <1>4, <1>6 DEF SameBuffer, SameRx, SameCalls, Buffer, Consumed
  <2> QED
    BY <2>3, <2>4
<1> QED
  BY <1>1, <1>3, <1>5, <1>6, OneClient DEF Accounts

LEMMA ModemCallsAccounts == ASSUME BufferInv, NEW c \in Clients, ModemCalls(c) PROVE Accounts'
<1> DEFINE m == CallMessage(cl[c].sent + 1)
           l == Append(cl[c].inbox, m)
           n == cl[c].sent + 1
<1>0. /\ Accounts /\ cl \in [Clients -> ClientType] /\ UNCHANGED <<pc, on, rx, serving>>
      /\ cl' = [cl EXCEPT ![c].sent = n, ![c].inbox = l]
  BY InvParts, Zenon DEF ModemCalls
<1>1. m.type = "call" /\ m \in Messages /\ cl[c].inbox \in Seq(Messages)
  BY <1>0 DEF ClientType, Messages, CallMessage
<1> HIDE DEF m, n
<1>2. /\ Len(cl[c].inbox) \in Nat
      /\ Len(l) = Len(cl[c].inbox) + 1 /\ l[Len(cl[c].inbox) + 1] = m
      /\ \A i \in 1..Len(cl[c].inbox) : l[i] = cl[c].inbox[i]
  BY <1>1, AppendProperties, LenProperties
<1> HIDE DEF l
<1>3. /\ \A d \in Clients : d # c => cl'[d] = cl[d]
      /\ cl'[c].asked = cl[c].asked /\ cl'[c].inbox = l /\ cl'[c].xid = cl[c].xid
      /\ cl'[c].alive = cl[c].alive /\ cl'[c].cut = cl[c].cut /\ SameBuffer(c)
  BY <1>0 DEF ClientType, SameBuffer, Passed, Handling, Ended
<1>4. \A d \in Clients : SameRx(d) /\ SameCalls(d)
  BY <1>0, CallsFrame, RxFrame
<1>5. \A d \in Clients : d # c => Same(d)
  BY <1>3, <1>4, ClientFrame DEF Same
<1>6. ASSUME Replies(c), Buffer(c) PROVE Replies(c)' /\ Buffer(c)'
  <2>1. \A i \in 1..Len(l) : l[i].type = "reply" => i \in 1..Len(cl[c].inbox) /\ l[i] = cl[c].inbox[i]
    BY <1>1, <1>2
  <2>2. Replies(c)'
    BY <1>3, <1>4, <1>6, <2>1 DEF SameBuffer, SameRx, SameCalls, Replies
  <2>3. Buffer(c)'
    BY <1>3, <1>4, <1>6 DEF SameBuffer, SameRx, SameCalls, Buffer, Consumed
  <2> QED
    BY <2>2, <2>3
<1> QED
  BY <1>0, <1>3, <1>5, <1>6, OneClient DEF Accounts

\* The other steps change nothing the buffers' accounts speak of.
QuietActs(t) ==
  \/ Wait(t) \/ Reacquire(t) \/ DestroySignals(t) \/ DestroyJoinsCb(t) \/ DestroyUnlinks(t)
  \/ DestroyJoinsRx(t) \/ \E c \in Clients : Enter(t, c) \/ DestroyBegin(t, c)

LEMMA QuietThread ==
  ASSUME BufferInv, NEW t \in Threads, QuietActs(t)
  PROVE  \A d \in Clients : Same(d)
<1>0. /\ RpcTypeOK /\ OneCall /\ cl \in [Clients -> ClientType]
      /\ pc \in [Threads -> Labels] /\ on \in [Threads -> Clients \cup {NULL}]
  BY InvParts
<1>1. \A d \in Clients : SameRx(d)
  <2>1. UNCHANGED <<rx, serving>>
    BY Zenon DEF QuietActs, Wait, Reacquire, DestroySignals, DestroyJoinsCb, DestroyUnlinks,
       DestroyJoinsRx, Enter, DestroyBegin
  <2> QED
    BY <2>1, RxFrame
<1>2. \A d \in Clients : SameMessages(d) /\ SameBuffer(d)
  <2>1. CASE UNCHANGED cl
    BY <2>1, ClientFrame
  <2>2. ASSUME NEW c \in Clients, cl' = [cl EXCEPT ![c].cb_stop = "stop"]
        PROVE  \A d \in Clients : SameMessages(d) /\ SameBuffer(d)
    BY <1>0, <2>2 DEF ClientType, SameMessages, SameBuffer, Passed, Handling, Ended
  <2>3. ASSUME DestroySignals(t) PROVE \A d \in Clients : SameMessages(d) /\ SameBuffer(d)
    <3>1. PICK c \in Clients : c = on[t]
      BY <1>0, <2>3 DEF DestroySignals, OneCall
    <3>2. cl' = [cl EXCEPT ![c].cb = IF @ = "wait" THEN "woken" ELSE @]
      BY <2>3, <3>1, Zenon DEF DestroySignals
    <3> QED
      BY <1>0, <3>2 DEF ClientType, SameMessages, SameBuffer, Passed, Handling, Ended
  <2>4. \/ UNCHANGED cl \/ DestroySignals(t)
        \/ \E c \in Clients : cl' = [cl EXCEPT ![c].cb_stop = "stop"]
    BY Zenon DEF QuietActs, Wait, Reacquire, DestroyJoinsCb, DestroyUnlinks, DestroyJoinsRx, Enter,
       DestroyBegin
  <2> QED
    BY <2>1, <2>2, <2>3, <2>4, Zenon
<1>3. \A d \in Clients : SameCalls(d)
  <2> USE DEF Goto, Call, Moves, Enters
  <2>1. CASE Wait(t)
    <3>1. Moves(t, "waiting") /\ pc[t] = "sent"
      BY <2>1, Zenon DEF Wait
    <3> HIDE DEF Moves
    <3> QED
      BY <1>0, <3>1, MoveFrame
  <2>2. CASE Reacquire(t)
    <3>1. Moves(t, "decode") /\ pc[t] = "woken"
      BY <2>2, Zenon DEF Reacquire
    <3> HIDE DEF Moves
    <3> QED
      BY <1>0, <3>1, MoveFrame
  <2>3. CASE DestroySignals(t) \/ DestroyJoinsCb(t) \/ DestroyUnlinks(t) \/ DestroyJoinsRx(t)
    <3>1. pc[t] \in Destroying /\ \E label \in Destroying : Moves(t, label)
      BY <2>3 DEF DestroySignals, DestroyJoinsCb, DestroyUnlinks, DestroyJoinsRx, Destroying
    <3>2. Destroying \cap {"sent", "waiting", "woken", "decode", "free"} = {}
      BY DEF Destroying
    <3> HIDE DEF Moves
    <3> QED
      BY <1>0, <3>1, <3>2, MoveFrame
  <2>4. ASSUME NEW c \in Clients, Enter(t, c) \/ DestroyBegin(t, c)
        PROVE  \A d \in Clients : SameCalls(d)
    <3>1. pc[t] = "idle" /\ \E label \in {"enter", "stop", "unlink"} : Enters(t, c, label)
      BY <2>4 DEF Enter, DestroyBegin
    <3> HIDE DEF Enters
    <3> QED
      BY <1>0, <3>1, EnterFrame
  <2> QED
    BY <2>1, <2>2, <2>3, <2>4, Zenon DEF QuietActs
<1> QED
  BY <1>1, <1>2, <1>3 DEF Same

LEMMA QuietRx ==
  ASSUME RxCheck \/ RxCopy \/ RxSelect \/ RxLock
  PROVE  \A d \in Clients : Same(d)
<1>1. rx \notin {"read", "reply", "call"} /\ rx' \notin {"read", "reply", "call"}
  BY DEF RxCheck, RxCopy, RxSelect, RxLock, Serve
<1>2. UNCHANGED <<cl, pc, on>>
  BY Zenon DEF RxCheck, RxCopy, RxSelect, RxLock
<1> QED
  BY <1>1, <1>2, RxAway, CallsFrame, ClientFrame DEF Same

LEMMA QuietCb ==
  ASSUME BufferInv, NEW c \in Clients, CbDispatched(c) \/ svc_register(c)
  PROVE  \A d \in Clients : Same(d)
<1>0. cl \in [Clients -> ClientType]
  BY InvParts
<1>1. UNCHANGED <<pc, on, rx, serving>>
  BY Zenon DEF CbDispatched, svc_register
<1>2. ASSUME CbDispatched(c) PROVE \A d \in Clients : SameMessages(d) /\ SameBuffer(d)
  <2>1. cl[c].cb = "dispatch" /\ cl' = [cl EXCEPT ![c].cb = "loop"]
    BY <1>2 DEF CbDispatched
  <2> QED
    BY <1>0, <2>1 DEF ClientType, SameMessages, SameBuffer, Passed, Handling, Ended
<1>3. svc_register(c) => UNCHANGED cl
  BY Zenon DEF svc_register
<1> QED
  BY <1>1, <1>2, <1>3, RxFrame, CallsFrame, ClientFrame DEF Same

LEMMA AccountsStep == BufferInv /\ [Next]_vars => Accounts'
<1> SUFFICES ASSUME BufferInv, [Next]_vars PROVE Accounts'
  OBVIOUS
<1>1. ASSUME \A d \in Clients : Same(d) PROVE Accounts'
  <2>1. Accounts
    BY InvParts
  <2> QED
    BY <1>1, <2>1, Frame DEF Accounts
<1>2. UNCHANGED vars => \A d \in Clients : Same(d)
  <2>1. UNCHANGED vars => UNCHANGED <<cl, pc, on, rx, serving>>
    BY Zenon DEF vars
  <2> QED
    BY <2>1, RxFrame, CallsFrame, ClientFrame DEF Same
<1>3. ASSUME NEW t \in Threads, NEW c \in Clients, Enter(t, c) \/ DestroyBegin(t, c) PROVE Accounts'
  <2>1. QuietActs(t)
    BY <1>3, Zenon DEF QuietActs
  <2> QED
    BY <1>1, <2>1, QuietThread
<1>4. ASSUME NEW t \in Threads, CallsActs(t) PROVE Accounts'
  <2>1. Begin(t) \/ Send(t) \/ SpuriousWakeup(t) \/ FreeInput(t) \/ QuietActs(t)
    BY <1>4, Zenon DEF CallsActs, QuietActs
  <2> QED
    BY <1>1, <2>1, BeginAccounts, SendAccounts, SpuriousAccounts, FreeInputAccounts, QuietThread
<1>5. ASSUME NEW t \in Threads, DestroyActs(t) PROVE Accounts'
  <2>1. DestroyFrees(t) \/ QuietActs(t)
    BY <1>5, Zenon DEF DestroyActs, QuietActs
  <2> QED
    BY <1>1, <2>1, FreesAccounts, QuietThread
<1>6. RxActs => Accounts'
  BY <1>1, QuietRx, RxClaimAccounts, RxReadAccounts, RxReplyAccounts, RxCallAccounts DEF RxActs
<1>7. ASSUME NEW c \in Clients, CbActs(c) PROVE Accounts'
  BY <1>1, <1>7, CbLoopAccounts, CbWakeAccounts, CbHandOverAccounts, CbUnservedAccounts, QuietCb
     DEF CbActs
<1>8. ASSUME NEW c \in Clients, OtherActs(c) PROVE Accounts'
  BY <1>1, <1>8, CreateAccounts, ModemRepliesAccounts, ModemCallsAccounts, QuietCb DEF OtherActs
<1> QED
  BY <1>1, <1>2, <1>3, <1>4, <1>5, <1>6, <1>7, <1>8, Steps, Zenon

LEMMA BufferInvStep == BufferInv /\ [Next]_vars => BufferInv'
<1>1. BufferInv => RpcTypeOK /\ Listing /\ OneCall
  BY Zenon DEF BufferInv
<1>2. (RpcTypeOK /\ Listing /\ OneCall /\ Accounts)' => BufferInv'
  BY Zenon DEF BufferInv
<1> QED
  BY <1>1, <1>2, TypedStep, ListingStep, OneCallStep, AccountsStep

LEMMA BufferInvInit == Init => BufferInv
<1> SUFFICES ASSUME Init PROVE BufferInv
  OBVIOUS
<1>1. Listing
  BY DEF Init, Listing, ServesListed, ListedAlive, Owned, Unlisted, Destroying
<1>2. OneCall
  BY DEF Init, OneCall, Locked, Labels
<1>3. Accounts
  BY DEF Init, Accounts, Fresh
<1> QED
  BY <1>1, <1>2, <1>3, TypedInit DEF BufferInv

LEMMA Implies == BufferInv => BufferAccounted
<1> SUFFICES ASSUME BufferInv, NEW c \in Clients, cl[c].alive, ~ cl[c].cut
             PROVE  /\ \A k, l \in Consumers(c) : k = l
                    /\ Consumers(c) # {} => cl[c].input_xdr_busy
                    /\ "cb" \in Consumers(c) => cl[c].in_msg.type = "call"
                    /\ Consumers(c) \cap Threads # {} => cl[c].in_msg = Reply(cl[c].xid)
                    /\ cl[c].input_xdr_busy =>
                         Consumers(c) # {} \/ cl[c].unserved \/ cl[c].cb = "ended"
  BY Zenon DEF BufferAccounted
<1>1. Buffer(c) /\ OneCall
  BY InvParts DEF Accounts
<1>2. "rx" \notin Threads /\ "told" \notin Threads /\ "cb" \notin Threads
  BY RpcClientAssumption
<1>3. \A k : k \in Consumers(c) <=>
        \/ k = "rx" /\ RxAt(c) \in {"reply", "call"}
        \/ k = "told" /\ Passed(c)
        \/ k = "cb" /\ Handling(c)
        \/ k \in Threads /\ Calling(k, c, {"woken", "decode"})
  BY <1>2 DEF Consumers, RxAt, Passed, Handling
<1>4. \A k, l \in Threads :
        Calling(k, c, {"woken", "decode"}) /\ Calling(l, c, {"woken", "decode"}) => k = l
  BY <1>1 DEF OneCall, Calling, Locked, Labels
<1>5. \A k \in Consumers(c) : k \in Threads => Decoding(c)
  BY <1>2, <1>3 DEF Decoding
<1>6. Decoding(c) => Consumers(c) # {}
  BY <1>3 DEF Decoding
<1>7. \A k, l \in Consumers(c) : k = l
  BY <1>1, <1>2, <1>3, <1>4, <1>5 DEF Buffer
<1> QED
  BY <1>1, <1>2, <1>3, <1>5, <1>6, <1>7 DEF Buffer, Consumed, Ended, Passed, Handling

\* Unless a call on the client was cut short, the input buffer has one consumer at most,
\* is in use as long as it has one, and holds what it is to consume (BufferAccounted).
THEOREM BufferCorrect == Spec => []BufferAccounted
  BY Implies, BufferInvInit, BufferInvStep, PTL DEF Spec

-----------------------------------------------------------------------------
(* The order of callbacks. *)

\* The buffer holds a callback that was not dispatched.
CallPending(c) == cl[c].input_xdr_busy /\ cl[c].in_msg.type = "call"
Last(c) == IF CallPending(c) THEN cl[c].dispatched + 1 ELSE cl[c].dispatched
IsCall(c, i) == cl[c].inbox[i].type = "call"

\* The callbacks still to be read are those after the last one, in order.
Order(c) ==
  /\ CallPending(c) => cl[c].in_msg.id = cl[c].dispatched + 1
  /\ Last(c) <= cl[c].sent
  /\ \A i \in 1..Len(cl[c].inbox) : IsCall(c, i) =>
       Last(c) < cl[c].inbox[i].id /\ cl[c].inbox[i].id <= cl[c].sent
  /\ \A i, j \in 1..Len(cl[c].inbox) :
       IsCall(c, i) /\ IsCall(c, j) /\ i < j => cl[c].inbox[i].id < cl[c].inbox[j].id
  /\ \A n \in Nat : Last(c) < n /\ n <= cl[c].sent =>
       \E i \in 1..Len(cl[c].inbox) : IsCall(c, i) /\ cl[c].inbox[i].id = n

Orders == \A c \in Clients : cl[c].alive /\ ~ cl[c].cut => Order(c)

SameOrder(c) ==
  /\ cl'[c].alive /\ ~ cl'[c].cut => cl[c].alive /\ ~ cl[c].cut
  /\ cl'[c].input_xdr_busy = cl[c].input_xdr_busy /\ cl'[c].in_msg = cl[c].in_msg
  /\ cl'[c].dispatched = cl[c].dispatched /\ cl'[c].sent = cl[c].sent
  /\ cl'[c].inbox = cl[c].inbox

LEMMA OrderFrame ==
  ASSUME NEW c \in Clients, SameOrder(c)
  PROVE  Order(c) => Order(c)'
  BY DEF SameOrder, Order, CallPending, Last, IsCall

LEMMA OneOrder ==
  ASSUME Orders, NEW c,
         \A d \in Clients : d # c => SameOrder(d),
         c \in Clients /\ cl'[c].alive /\ ~ cl'[c].cut => Order(c)'
  PROVE  Orders'
<1>1. ASSUME NEW d \in Clients, d # c, cl'[d].alive, ~ cl'[d].cut PROVE Order(d)'
  BY <1>1, OrderFrame DEF Orders, SameOrder
<1> QED
  BY <1>1 DEF Orders

LEMMA SameClientOrder == ASSUME NEW c \in Clients, cl'[c] = cl[c] PROVE SameOrder(c)
  BY DEF SameOrder

\* Most steps leave it alone.
LEMMA OrderSteps ==
  ASSUME RpcTypeOK, [Next]_vars
  PROVE  \/ \A d \in Clients : SameOrder(d)
         \/ \E t \in Threads : FreeInput(t) \/ DestroyFrees(t)
         \/ RxRead
         \/ \E c \in Clients : CbHandOver(c) \/ clnt_create(c) \/ ModemReplies(c) \/ ModemCalls(c)
<1> DEFINE Kept == \A d \in Clients : SameOrder(d)
<1>0. cl \in [Clients -> ClientType]
  BY TypeParts DEF ClTyped
<1> USE <1>0 DEF SameOrder
<1>1. ASSUME UNCHANGED cl PROVE Kept
  BY <1>1
<1>2. ASSUME NEW t \in Threads, Begin(t) PROVE Kept
  BY <1>2 DEF Begin, ClientType
<1>3. ASSUME NEW t \in Threads, Send(t) PROVE Kept
  <2>1. \/ cl' = [cl EXCEPT ![on[t]].asked = @ \cup {cl[on[t]].xid}]
        \/ cl' = [cl EXCEPT ![on[t]].cut = TRUE]
    BY <1>3, Zenon DEF Send
  <2>2. ASSUME cl' = [cl EXCEPT ![on[t]].asked = @ \cup {cl[on[t]].xid}] PROVE Kept
    BY <2>2 DEF ClientType
  <2>3. ASSUME cl' = [cl EXCEPT ![on[t]].cut = TRUE] PROVE Kept
    BY <2>3 DEF ClientType
  <2> QED
    BY <2>1, <2>2, <2>3
<1>4. ASSUME NEW t \in Threads, SpuriousWakeup(t) PROVE Kept
  BY <1>4 DEF SpuriousWakeup, ClientType
<1>5. ASSUME NEW t \in Threads, DestroySignals(t) PROVE Kept
  BY <1>5 DEF DestroySignals, ClientType
<1>6. ASSUME NEW t \in Threads, NEW c \in Clients, DestroyBegin(t, c) PROVE Kept
  <2>1. cl' = [cl EXCEPT ![c].cb_stop = "stop"] \/ UNCHANGED cl
    BY <1>6, Zenon DEF DestroyBegin
  <2>2. ASSUME cl' = [cl EXCEPT ![c].cb_stop = "stop"] PROVE Kept
    BY <2>2 DEF ClientType
  <2> QED
    BY <1>1, <2>1, <2>2
<1>7. ASSUME RxCall PROVE Kept
  <2>1. PICK stop, thread :
          cl' = [cl EXCEPT ![serving].got_cb = TRUE, ![serving].cb_stop = stop,
                           ![serving].cb = thread]
    BY <1>7, Zenon DEF RxCall
  <2> QED
    BY <2>1 DEF ClientType
<1>8. ASSUME NEW c \in Clients, CbLoop(c) \/ CbWake(c) PROVE Kept
  <2>1. PICK thread, got : cl' = [cl EXCEPT ![c].cb = thread, ![c].got_cb = got]
    BY <1>8, Zenon DEF CbLoop, CbWake
  <2> QED
    BY <2>1 DEF ClientType
<1>9. ASSUME NEW c \in Clients, CbUnserved(c) PROVE Kept
  BY <1>9 DEF CbUnserved, ClientType
<1>10. ASSUME NEW c \in Clients, CbDispatched(c) PROVE Kept
  BY <1>10 DEF CbDispatched, ClientType
<1> HIDE DEF Kept
<1>11. \/ Kept
       \/ \E t \in Threads : FreeInput(t) \/ DestroyFrees(t)
       \/ RxRead
       \/ \E c \in Clients : CbHandOver(c) \/ clnt_create(c) \/ ModemReplies(c) \/ ModemCalls(c)
  BY <1>1, <1>2, <1>3, <1>4, <1>5, <1>6, <1>7, <1>8, <1>9, <1>10, ClSteps, Zenon
<1> QED
  BY <1>11, Zenon DEF Kept

OrderInv == BufferInv /\ Orders

LEMMA OrderParts ==
  ASSUME OrderInv
  PROVE  BufferInv /\ Orders /\ cl \in [Clients -> ClientType]
  BY InvParts, Zenon DEF OrderInv

LEMMA FreeInputOrder == ASSUME OrderInv, NEW t \in Threads, FreeInput(t) PROVE Orders'
<1>a. on[t] \in Clients /\ pc[t] \in Locked /\ OneCall
  BY OrderParts, InvParts DEF FreeInput, OneCall, Locked, Labels
<1>b. PICK c \in Clients : c = on[t]
  BY <1>a
<1>0. /\ BufferInv /\ Orders /\ cl \in [Clients -> ClientType]
      /\ pc[t] \in {"decode", "free"} /\ cl' = [cl EXCEPT ![c].input_xdr_busy = FALSE]
  BY <1>b, OrderParts DEF FreeInput
<1>1. \A d \in Clients : d # c => SameOrder(d)
  BY <1>0, SameClientOrder
<1>2. /\ ~ cl'[c].input_xdr_busy /\ cl'[c].in_msg = cl[c].in_msg
      /\ cl'[c].dispatched = cl[c].dispatched /\ cl'[c].sent = cl[c].sent
      /\ cl'[c].inbox = cl[c].inbox /\ cl'[c].alive = cl[c].alive /\ cl'[c].cut = cl[c].cut
  BY <1>0 DEF ClientType
<1>3. ASSUME cl[c].alive, ~ cl[c].cut PROVE Order(c)'
  <2>1. Replies(c) /\ Buffer(c) /\ Order(c)
    BY <1>0, <1>3, InvParts DEF Accounts, Orders
  <2>2. Decoding(c)
    BY <1>0, <1>a, <1>b, <2>1, Holder DEF Replies
  <2>3. ~ CallPending(c)
    BY <2>1, <2>2 DEF Buffer, CallPending, Reply
  <2> QED
    BY <1>2, <2>1, <2>3 DEF Order, CallPending, Last, IsCall
<1> QED
  BY <1>0, <1>1, <1>2, <1>3, OneOrder

LEMMA FreesOrder == ASSUME OrderInv, NEW t \in Threads, DestroyFrees(t) PROVE Orders'
<1>a. on[t] \in Clients
  BY OrderParts, InvParts DEF DestroyFrees, OneCall
<1>b. PICK c \in Clients : c = on[t]
  BY <1>a
<1> DEFINE y == [Fresh EXCEPT !.alive = FALSE, !.cb = cl[c].cb, !.cb_stop = cl[c].cb_stop]
<1>0. Orders /\ cl \in [Clients -> ClientType] /\ cl' = [cl EXCEPT ![c] = y]
  BY <1>b, OrderParts DEF DestroyFrees
<1>1. \A d \in Clients : d # c => SameOrder(d)
  BY <1>0, SameClientOrder
<1>2. ~ cl'[c].alive
  BY <1>0 DEF Fresh
<1> QED
  BY <1>0, <1>1, <1>2, OneOrder

LEMMA CreateOrder == ASSUME OrderInv, NEW c \in Clients, clnt_create(c) PROVE Orders'
<1>0. Orders /\ cl \in [Clients -> ClientType] /\ cl' = [cl EXCEPT ![c] = Fresh]
  BY OrderParts DEF clnt_create
<1>1. \A d \in Clients : d # c => SameOrder(d)
  BY <1>0, SameClientOrder
<1>2. cl'[c].inbox = <<>> /\ ~ cl'[c].input_xdr_busy /\ cl'[c].dispatched = 0 /\ cl'[c].sent = 0
  BY <1>0 DEF Fresh
<1>3. Order(c)'
  BY <1>2 DEF Order, CallPending, Last, IsCall
<1> QED
  BY <1>0, <1>1, <1>3, OneOrder

LEMMA CbHandOverOrder ==
  ASSUME OrderInv, NEW c \in Clients, CbHandOver(c)
  PROVE  /\ Orders'
         /\ ~ cl[c].cut => cl'[c].dispatched = cl[c].dispatched + 1
         /\ \A d \in Clients : d # c => cl'[d] = cl[d]
<1> DEFINE id == cl[c].in_msg.id
<1>0. /\ BufferInv /\ Orders /\ cl \in [Clients -> ClientType]
      /\ cl[c].cb = "handle" /\ cl[c].alive
      /\ cl' = [cl EXCEPT ![c].input_xdr_busy = FALSE, ![c].cb = "dispatch", ![c].dispatched = id]
  BY OrderParts, Zenon DEF CbHandOver
<1>1. \A d \in Clients : d # c => cl'[d] = cl[d]
  BY <1>0
<1>2. /\ ~ cl'[c].input_xdr_busy /\ cl'[c].in_msg = cl[c].in_msg
      /\ cl'[c].dispatched = id /\ cl'[c].sent = cl[c].sent
      /\ cl'[c].inbox = cl[c].inbox /\ cl'[c].alive = cl[c].alive /\ cl'[c].cut = cl[c].cut
  BY <1>0 DEF ClientType
<1>3. ASSUME ~ cl[c].cut PROVE Order(c)' /\ id = cl[c].dispatched + 1
  <2>1. Buffer(c) /\ Order(c)
    BY <1>0, <1>3, InvParts DEF Accounts, Orders
  <2>2. CallPending(c)
    BY <1>0, <2>1 DEF Buffer, Consumed, Handling, CallPending
  <2>3. id = cl[c].dispatched + 1
    BY <2>1, <2>2 DEF Order
  <2>4. ~ CallPending(c)' /\ Last(c)' = Last(c)
    BY <1>2, <2>2, <2>3 DEF CallPending, Last
  <2> HIDE DEF id
  <2> QED
    BY <1>2, <2>1, <2>3, <2>4 DEF Order, IsCall
<1> QED
  BY <1>0, <1>1, <1>2, <1>3, SameClientOrder, OneOrder

LEMMA RxReadOrder == ASSUME OrderInv, RxRead PROVE Orders'
<1>b. PICK c \in Clients : c = serving
  BY Serving, OrderParts DEF RxRead
<1> DEFINE m == Head(cl[c].inbox)
           l == Tail(cl[c].inbox)
<1>0. /\ BufferInv /\ Orders /\ cl \in [Clients -> ClientType]
      /\ rx = "read" /\ cl[c].inbox # <<>>
      /\ cl' = [cl EXCEPT ![c].in_msg = m, ![c].inbox = l, ![c].input_xdr_busy = TRUE]
  BY <1>b, OrderParts, Zenon DEF RxRead
<1>1. /\ Len(cl[c].inbox) \in Nat /\ Len(cl[c].inbox) > 0 /\ 1 \in 1..Len(cl[c].inbox)
      /\ Len(l) = Len(cl[c].inbox) - 1 /\ m = cl[c].inbox[1] /\ m.type \in {"reply", "call"}
      /\ \A i \in 1..Len(l) : l[i] = cl[c].inbox[i + 1] /\ i + 1 \in 1..Len(cl[c].inbox)
      /\ \A i \in 1..Len(cl[c].inbox) : cl[c].inbox[i].id \in Nat
  <2>1. cl[c].inbox \in Seq(Messages)
    BY <1>0 DEF ClientType
  <2>2. m = cl[c].inbox[1] /\ m \in Messages /\ Len(l) = Len(cl[c].inbox) - 1
        /\ Len(cl[c].inbox) \in Nat /\ Len(cl[c].inbox) > 0
        /\ \A i \in 1..Len(l) : l[i] = cl[c].inbox[i + 1]
    BY <1>0, <2>1, HeadTailProperties, EmptySeq, LenProperties
  <2>3. \A i \in 1..Len(cl[c].inbox) : cl[c].inbox[i] \in Messages
    BY <2>1, ElementOfSeq
  <2> QED
    BY <2>2, <2>3 DEF Messages
<1> HIDE DEF m, l
<1>2. /\ \A d \in Clients : d # c => cl'[d] = cl[d]
      /\ cl'[c].in_msg = m /\ cl'[c].inbox = l /\ cl'[c].input_xdr_busy
      /\ cl'[c].alive = cl[c].alive /\ cl'[c].cut = cl[c].cut
      /\ cl'[c].dispatched = cl[c].dispatched /\ cl'[c].sent = cl[c].sent
      /\ cl[c].dispatched \in Nat /\ cl[c].sent \in Nat
  BY <1>0 DEF ClientType
<1>3. ASSUME cl[c].alive, ~ cl[c].cut PROVE Order(c)'
  <2>1. Buffer(c) /\ Order(c)
    BY <1>0, <1>3, InvParts DEF Accounts, Orders
  <2>2. ~ CallPending(c) /\ Last(c) = cl[c].dispatched
    BY <1>0, <1>b, <2>1 DEF Buffer, RxAt, CallPending, Last
  <2>3. ASSUME m.type = "call" PROVE m.id = cl[c].dispatched + 1
    <3>1. cl[c].dispatched < m.id /\ m.id <= cl[c].sent
      BY <1>1, <2>1, <2>2, <2>3 DEF Order, IsCall
    <3>2. PICK i \in 1..Len(cl[c].inbox) : IsCall(c, i) /\ cl[c].inbox[i].id = cl[c].dispatched + 1
      <4>1. cl[c].dispatched + 1 \in Nat /\ cl[c].dispatched < cl[c].dispatched + 1
            /\ cl[c].dispatched + 1 <= cl[c].sent
        BY <1>1, <1>2, <3>1
      <4> QED
        BY <2>1, <2>2, <4>1 DEF Order
    <3>3. i # 1 => m.id < cl[c].dispatched + 1
      BY <1>1, <2>1, <2>3, <3>2 DEF Order, IsCall
    <3> QED
      BY <1>1, <1>2, <3>1, <3>2, <3>3
  <2>4. Last(c)' = IF m.type = "call" THEN cl[c].dispatched + 1 ELSE cl[c].dispatched
    BY <1>2 DEF Last, CallPending
  <2>5. (CallPending(c) => cl[c].in_msg.id = cl[c].dispatched + 1)'
    BY <1>2, <2>3 DEF CallPending
  <2>6. ASSUME NEW i \in 1..Len(l), l[i].type = "call"
        PROVE  Last(c)' < l[i].id /\ l[i].id <= cl[c].sent
    <3>1. IsCall(c, i + 1) /\ i + 1 \in 1..Len(cl[c].inbox) /\ l[i] = cl[c].inbox[i + 1] /\ 1 < i + 1
      BY <1>1, <2>6 DEF IsCall
    <3>2. cl[c].dispatched < l[i].id /\ l[i].id <= cl[c].sent
      BY <2>1, <2>2, <3>1 DEF Order
    <3>3. m.type = "call" => m.id < l[i].id
      BY <1>1, <2>1, <3>1 DEF Order, IsCall
    <3> QED
      BY <2>3, <2>4, <3>2, <3>3
  <2>7. ASSUME NEW i \in 1..Len(l), NEW j \in 1..Len(l),
               l[i].type = "call", l[j].type = "call", i < j
        PROVE  l[i].id < l[j].id
    <3>1. /\ IsCall(c, i + 1) /\ i + 1 \in 1..Len(cl[c].inbox) /\ l[i] = cl[c].inbox[i + 1]
          /\ IsCall(c, j + 1) /\ j + 1 \in 1..Len(cl[c].inbox) /\ l[j] = cl[c].inbox[j + 1]
          /\ i + 1 < j + 1
      BY <1>1, <2>7 DEF IsCall
    <3> QED
      BY <2>1, <3>1 DEF Order
  <2>8. ASSUME NEW n \in Nat, Last(c)' < n, n <= cl[c].sent
        PROVE  \E i \in 1..Len(l) : l[i].type = "call" /\ l[i].id = n
    <3>1. cl[c].dispatched < n /\ (m.type = "call" => m.id # n)
      BY <1>2, <2>3, <2>4, <2>8
    <3>2. PICK i \in 1..Len(cl[c].inbox) : IsCall(c, i) /\ cl[c].inbox[i].id = n
      BY <2>1, <2>2, <2>8, <3>1 DEF Order
    <3>3. i # 1
      BY <1>1, <3>1, <3>2 DEF IsCall
    <3>4. i - 1 \in 1..Len(l) /\ l[i - 1] = cl[c].inbox[i]
      BY <1>1, <3>3
    <3> QED
      BY <3>2, <3>4 DEF IsCall
  <2>9. Last(c)' <= cl[c].sent
    <3>1. m.type = "call" => m.id <= cl[c].sent
      BY <1>1, <2>1 DEF Order, IsCall
    <3> QED
      BY <2>1, <2>2, <2>3, <2>4, <3>1 DEF Order
  <2> QED
    BY <1>2, <2>5, <2>6, <2>7, <2>8, <2>9 DEF Order, IsCall
<1> QED
  BY <1>0, <1>2, <1>3, SameClientOrder, OneOrder

LEMMA ModemRepliesOrder == ASSUME OrderInv, NEW c \in Clients, ModemReplies(c) PROVE Orders'
<1>0. PICK x \in cl[c].asked :
        cl' = [cl EXCEPT ![c].asked = @ \ {x}, ![c].inbox = Append(cl[c].inbox, Reply(x))]
  BY Zenon DEF ModemReplies
<1> DEFINE l == Append(cl[c].inbox, Reply(x))
<1>1. Orders /\ cl \in [Clients -> ClientType]
  BY OrderParts
<1>2. /\ Len(cl[c].inbox) \in Nat
      /\ Len(l) = Len(cl[c].inbox) + 1 /\ l[Len(cl[c].inbox) + 1].type = "reply"
      /\ \A i \in 1..Len(cl[c].inbox) : l[i] = cl[c].inbox[i]
  <2>1. cl[c].inbox \in Seq(Messages) /\ Reply(x) \in Messages /\ Reply(x).type = "reply"
    BY <1>1 DEF ClientType, Messages, Reply
  <2> QED
    BY <2>1, AppendProperties, LenProperties
<1>3. /\ \A d \in Clients : d # c => cl'[d] = cl[d]
      /\ cl'[c].input_xdr_busy = cl[c].input_xdr_busy /\ cl'[c].in_msg = cl[c].in_msg
      /\ cl'[c].dispatched = cl[c].dispatched /\ cl'[c].sent = cl[c].sent
      /\ cl'[c].inbox = l /\ cl'[c].alive = cl[c].alive /\ cl'[c].cut = cl[c].cut
  BY <1>0, <1>1 DEF ClientType
<1> HIDE DEF l
<1>4. ASSUME Order(c) PROVE Order(c)'
  <2>1. \A i \in 1..Len(l) : l[i].type = "call" => i \in 1..Len(cl[c].inbox)
    BY <1>2
  <2>2. \A i \in 1..Len(cl[c].inbox) : i \in 1..Len(l)
    BY <1>2
  <2>3. Last(c)' = Last(c) /\ (CallPending(c)' <=> CallPending(c))
    BY <1>3 DEF Last, CallPending
  <2>4. \A i \in 1..Len(l) : l[i].type = "call" =>
          Last(c) < l[i].id /\ l[i].id <= cl[c].sent
    BY <1>2, <1>4, <2>1 DEF Order, IsCall
  <2>5. \A i, j \in 1..Len(l) :
          l[i].type = "call" /\ l[j].type = "call" /\ i < j => l[i].id < l[j].id
    BY <1>2, <1>4, <2>1 DEF Order, IsCall
  <2>6. \A n \in Nat : Last(c) < n /\ n <= cl[c].sent =>
          \E i \in 1..Len(l) : l[i].type = "call" /\ l[i].id = n
    BY <1>2, <1>4, <2>2 DEF Order, IsCall
  <2>7. /\ CallPending(c) => cl[c].in_msg.id = cl[c].dispatched + 1
        /\ Last(c) <= cl[c].sent
    BY <1>4 DEF Order
  <2> QED
    BY <1>3, <2>3, <2>4, <2>5, <2>6, <2>7 DEF Order, IsCall
<1> QED
  BY <1>1, <1>3, <1>4, SameClientOrder, OneOrder DEF Orders

LEMMA ModemCallsOrder == ASSUME OrderInv, NEW c \in Clients, ModemCalls(c) PROVE Orders'
<1> DEFINE n == cl[c].sent + 1
           m == CallMessage(cl[c].sent + 1)
           l == Append(cl[c].inbox, m)
<1>0. /\ BufferInv /\ Orders /\ cl \in [Clients -> ClientType]
      /\ cl' = [cl EXCEPT ![c].sent = n, ![c].inbox = l]
  BY OrderParts, Zenon DEF ModemCalls
<1>1. /\ m.type = "call" /\ m.id = n /\ m \in Messages /\ cl[c].inbox \in Seq(Messages)
      /\ cl[c].sent \in Nat /\ cl[c].dispatched \in Nat /\ n \in Nat
  BY <1>0 DEF ClientType, Messages, CallMessage
<1> HIDE DEF m
<1>2. /\ Len(cl[c].inbox) \in Nat
      /\ Len(l) = Len(cl[c].inbox) + 1 /\ l[Len(cl[c].inbox) + 1] = m
      /\ \A i \in 1..Len(cl[c].inbox) : l[i] = cl[c].inbox[i]
  BY <1>1, AppendProperties, LenProperties
<1> HIDE DEF l
<1>3. /\ \A d \in Clients : d # c => cl'[d] = cl[d]
      /\ cl'[c].input_xdr_busy = cl[c].input_xdr_busy /\ cl'[c].in_msg = cl[c].in_msg
      /\ cl'[c].dispatched = cl[c].dispatched /\ cl'[c].sent = cl[c].sent + 1
      /\ cl'[c].inbox = l /\ cl'[c].alive = cl[c].alive /\ cl'[c].cut = cl[c].cut
  BY <1>0 DEF ClientType
<1>4. ASSUME Order(c) PROVE Order(c)'
  <2>1. \A i \in 1..Len(l) : \/ i \in 1..Len(cl[c].inbox) /\ l[i] = cl[c].inbox[i]
                             \/ i = Len(cl[c].inbox) + 1 /\ l[i] = m
    BY <1>2
  <2>2. /\ \A i \in 1..Len(cl[c].inbox) : i \in 1..Len(l)
        /\ Len(cl[c].inbox) + 1 \in 1..Len(l)
    BY <1>2
  <2>3. Last(c)' = Last(c) /\ (CallPending(c)' <=> CallPending(c))
    BY <1>3 DEF Last, CallPending
  <2>4. \A i \in 1..Len(cl[c].inbox) : cl[c].inbox[i].id \in Nat
    <3>1. \A i \in 1..Len(cl[c].inbox) : cl[c].inbox[i] \in Messages
      BY <1>1, ElementOfSeq
    <3> QED
      BY <3>1 DEF Messages
  <2>5. Last(c) \in Nat /\ Last(c) <= cl[c].sent /\ Last(c) < n
    BY <1>1, <1>4 DEF Order, Last
  <2>6. \A i \in 1..Len(l) : l[i].type = "call" => Last(c) < l[i].id /\ l[i].id <= n
    <3> SUFFICES ASSUME NEW i \in 1..Len(l), l[i].type = "call"
                 PROVE  Last(c) < l[i].id /\ l[i].id <= n
      OBVIOUS
    <3>1. CASE l[i] = m
      BY <1>1, <2>5, <3>1
    <3>2. CASE i \in 1..Len(cl[c].inbox) /\ l[i] = cl[c].inbox[i]
      <4>1. Last(c) < l[i].id /\ l[i].id <= cl[c].sent /\ l[i].id \in Nat
        BY <1>4, <2>4, <3>2 DEF Order, IsCall
      <4> QED
        BY <1>1, <4>1
    <3> QED
      BY <2>1, <3>1, <3>2
  <2>7. \A i, j \in 1..Len(l) :
          l[i].type = "call" /\ l[j].type = "call" /\ i < j => l[i].id < l[j].id
    <3> SUFFICES ASSUME NEW i \in 1..Len(l), NEW j \in 1..Len(l),
                        l[i].type = "call", l[j].type = "call", i < j
                 PROVE  l[i].id < l[j].id
      OBVIOUS
    <3>1. i \in 1..Len(cl[c].inbox) /\ l[i] = cl[c].inbox[i]
      BY <1>2, <2>1
    <3>2. l[i].id <= cl[c].sent /\ l[i].id \in Nat
      BY <1>4, <2>4, <3>1 DEF Order, IsCall
    <3>3. CASE l[j] = m
      BY <1>1, <3>2, <3>3
    <3>4. CASE j \in 1..Len(cl[c].inbox) /\ l[j] = cl[c].inbox[j]
      BY <1>4, <3>1, <3>4 DEF Order, IsCall
    <3> QED
      BY <2>1, <3>3, <3>4
  <2>8. \A k \in Nat : Last(c) < k /\ k <= n =>
          \E i \in 1..Len(l) : l[i].type = "call" /\ l[i].id = k
    <3> SUFFICES ASSUME NEW k \in Nat, Last(c) < k, k <= n
                 PROVE  \E i \in 1..Len(l) : l[i].type = "call" /\ l[i].id = k
      OBVIOUS
    <3>1. CASE k = n
      BY <1>1, <1>2, <2>2, <3>1
    <3>2. CASE k # n
      <4>1. k <= cl[c].sent
        BY <1>1, <3>2
      <4>2. PICK i \in 1..Len(cl[c].inbox) : IsCall(c, i) /\ cl[c].inbox[i].id = k
        BY <1>4, <4>1 DEF Order
      <4> QED
        BY <1>2, <2>2, <4>2 DEF IsCall
    <3> QED
      BY <3>1, <3>2
  <2>9. Last(c) <= n
    BY <1>1, <2>5
  <2> QED
    BY <1>3, <1>4, <2>3, <2>6, <2>7, <2>8, <2>9 DEF Order, IsCall, CallPending
<1> QED
  BY <1>0, <1>3, <1>4, SameClientOrder, OneOrder DEF Orders

LEMMA OrderInvStep == OrderInv /\ [Next]_vars => OrderInv'
<1> SUFFICES ASSUME OrderInv, [Next]_vars PROVE OrderInv'
  OBVIOUS
<1>1. BufferInv'
  BY BufferInvStep, Zenon DEF OrderInv
<1>2. ASSUME \A d \in Clients : SameOrder(d) PROVE Orders'
  BY <1>2, OrderParts, OrderFrame DEF Orders, SameOrder
<1>3. Orders'
  BY <1>2, OrderParts, InvParts, OrderSteps, FreeInputOrder, FreesOrder, RxReadOrder,
     CbHandOverOrder, CreateOrder, ModemRepliesOrder, ModemCallsOrder
<1> QED
  BY <1>1, <1>3, Zenon DEF OrderInv

\* A callback comes to be dispatched by CbHandOver alone.
LEMMA HandOverDispatches ==
  ASSUME RpcTypeOK, [Next]_vars, NEW c \in Clients, cl[c].cb = "handle", cl'[c].cb = "dispatch"
  PROVE  CbHandOver(c)
<1> DEFINE Not == cl'[c].cb # "dispatch"
<1>0. cl \in [Clients -> ClientType]
  BY TypeParts DEF ClTyped
<1>1. ASSUME UNCHANGED cl PROVE Not
  BY <1>1
<1>2. ASSUME NEW t \in Threads, Begin(t) \/ Send(t) \/ FreeInput(t) \/ SpuriousWakeup(t) PROVE Not
  <2>1. \E x : \/ cl' = [cl EXCEPT ![on[t]].xid = x] \/ cl' = [cl EXCEPT ![on[t]].asked = x]
               \/ cl' = [cl EXCEPT ![on[t]].cut = x]
               \/ cl' = [cl EXCEPT ![on[t]].input_xdr_busy = x]
    BY <1>2, Zenon DEF Begin, Send, FreeInput, SpuriousWakeup
  <2>2. ASSUME NEW x, cl' = [cl EXCEPT ![on[t]].xid = x] PROVE Not
    BY <1>0, <2>2 DEF ClientType
  <2>3. ASSUME NEW x, cl' = [cl EXCEPT ![on[t]].asked = x] PROVE Not
    BY <1>0, <2>3 DEF ClientType
  <2>4. ASSUME NEW x, cl' = [cl EXCEPT ![on[t]].cut = x] PROVE Not
    BY <1>0, <2>4 DEF ClientType
  <2>5. ASSUME NEW x, cl' = [cl EXCEPT ![on[t]].input_xdr_busy = x] PROVE Not
    BY <1>0, <2>5 DEF ClientType
  <2> QED
    BY <2>1, <2>2, <2>3, <2>4, <2>5, Zenon
<1>3. ASSUME NEW t \in Threads, DestroySignals(t) PROVE Not
  BY <1>0, <1>3 DEF DestroySignals, ClientType
<1>4. ASSUME NEW t \in Threads, DestroyFrees(t) PROVE Not
  BY <1>0, <1>4 DEF DestroyFrees, Fresh
<1>5. ASSUME NEW t \in Threads, NEW d \in Clients, DestroyBegin(t, d) PROVE Not
  <2>1. cl' = [cl EXCEPT ![d].cb_stop = "stop"] \/ UNCHANGED cl
    BY <1>5, Zenon DEF DestroyBegin
  <2>2. ASSUME cl' = [cl EXCEPT ![d].cb_stop = "stop"] PROVE Not
    BY <1>0, <2>2 DEF ClientType
  <2> QED
    BY <1>1, <2>1, <2>2
<1>6. ASSUME RxRead PROVE Not
  <2>1. PICK m, l : cl' = [cl EXCEPT ![serving].in_msg = m, ![serving].inbox = l,
                                     ![serving].input_xdr_busy = TRUE]
    BY <1>6, Zenon DEF RxRead
  <2> QED
    BY <1>0, <2>1 DEF ClientType
<1>7. ASSUME RxCall PROVE Not
  <2> DEFINE stop == IF cl[serving].cb_stop = "unstarted" THEN "run" ELSE cl[serving].cb_stop
             thread == IF cl[serving].cb_stop = "unstarted" THEN "start"
                       ELSE IF cl[serving].cb = "wait" THEN "woken" ELSE cl[serving].cb
  <2>1. cl' = [cl EXCEPT ![serving].got_cb = TRUE, ![serving].cb_stop = stop,
                         ![serving].cb = thread]
    BY <1>7, Zenon DEF RxCall
  <2>2. serving = c => thread # "dispatch"
    OBVIOUS
  <2> HIDE DEF stop, thread
  <2> QED
    BY <1>0, <2>1, <2>2 DEF ClientType
<1>8. ASSUME NEW d \in Clients, CbLoop(d) PROVE Not
  BY <1>0, <1>8 DEF CbLoop, ClientType
<1>9. ASSUME NEW d \in Clients, CbWake(d) PROVE Not
  BY <1>0, <1>9 DEF CbWake, ClientType
<1>10. ASSUME NEW d \in Clients, CbUnserved(d) PROVE Not
  BY <1>0, <1>10 DEF CbUnserved, ClientType
<1>11. ASSUME NEW d \in Clients, CbDispatched(d) PROVE Not
  BY <1>0, <1>11 DEF CbDispatched, ClientType
<1>12. ASSUME NEW d \in Clients, d # c, CbHandOver(d) PROVE Not
  BY <1>0, <1>12 DEF CbHandOver, ClientType
<1>13. ASSUME NEW d \in Clients, clnt_create(d) PROVE Not
  BY <1>0, <1>13 DEF clnt_create, Fresh
<1>14. ASSUME NEW d \in Clients, ModemReplies(d) PROVE Not
  <2>1. PICK a, l : cl' = [cl EXCEPT ![d].asked = a, ![d].inbox = l]
    BY <1>14, Zenon DEF ModemReplies
  <2> QED
    BY <1>0, <2>1 DEF ClientType
<1>15. ASSUME NEW d \in Clients, ModemCalls(d) PROVE Not
  <2>1. PICK n, l : cl' = [cl EXCEPT ![d].sent = n, ![d].inbox = l]
    BY <1>15, Zenon DEF ModemCalls
  <2> QED
    BY <1>0, <2>1 DEF ClientType
<1>16. ~ Not
  OBVIOUS
<1> HIDE DEF Not
<1> QED
  BY <1>1, <1>2, <1>3, <1>4, <1>5, <1>6, <1>7, <1>8, <1>9, <1>10, <1>11, <1>12, <1>13, <1>14,
     <1>15, <1>16, ClSteps, Zenon

LEMMA OrderInvInit == Init => OrderInv
  BY BufferInvInit DEF Init, OrderInv, Orders, Fresh

\* Unless a call on the client was cut short, each of its callbacks is dispatched once,
\* in the order they were made in (CallbacksInOrder).
THEOREM DispatchedInOrder == Spec => CallbacksInOrder
<1>1. ASSUME OrderInv, [Next]_vars
      PROVE  [\A c \in Clients : cl[c].cb = "handle" /\ cl'[c].cb = "dispatch" /\ ~ cl[c].cut =>
                cl'[c].dispatched = cl[c].dispatched + 1]_vars
  <2>1. SUFFICES ASSUME NEW c \in Clients, cl[c].cb = "handle", cl'[c].cb = "dispatch", ~ cl[c].cut
                 PROVE  cl'[c].dispatched = cl[c].dispatched + 1
    BY Zenon
  <2>2. CbHandOver(c)
    BY <1>1, <2>1, HandOverDispatches, OrderParts, InvParts
  <2> QED
    BY <1>1, <2>1, <2>2, CbHandOverOrder
<1> QED
  BY <1>1, OrderInvInit, OrderInvStep, PTL DEF Spec, CallbacksInOrder
=============================================================================
