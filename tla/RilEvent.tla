------------------------------- MODULE RilEvent --------------------------------
(***************************************************************************)
(* The event loop of hardware/ril/libril/ril_event.cpp: a table of watched  *)
(* descriptors, a list of timers sorted by deadline, and a list of pending  *)
(* events that the loop thread fires.  listMutex is held for one operation  *)
(* at a time; the loop reads readFds and the first timer without it.        *)
(* What is ready, and what the callbacks do, is the daemon's: RilDaemon     *)
(* extends this module.                                                     *)
(*                                                                          *)
(* A deadline is a number of ticks from now.  A timer expires when now is   *)
(* strictly later: at -1.  readFds is the set of descriptors in the table,  *)
(* and nfds exceeds each of them.                                           *)
(***************************************************************************)
EXTENDS Integers, Sequences, FiniteSets, SequencesExt

CONSTANTS
  MAX_FD_EVENTS,   \* entries of the watch table
  FdEvents,        \* the events with a descriptor
  Persistent,      \* those that stay in the table when they fire
  Timers,          \* timer events
  NoEvent,
  MaxTimeout       \* bound: ticks of the longest time-out

ASSUME RilEventAssumption ==
  /\ MAX_FD_EVENTS \in Nat /\ Cardinality(FdEvents) <= MAX_FD_EVENTS
  /\ Persistent \subseteq FdEvents /\ FdEvents \cap Timers = {}
  /\ NoEvent \notin FdEvents \cup Timers
  /\ MaxTimeout \in Nat

VARIABLES
  watch_table,     \* [index -> event or NoEvent]
  timer_list,      \* timers, the earliest first
  timeout,         \* [Timers -> ticks from now to the deadline]
  pending_list,    \* events to fire, the oldest first
  rfds,            \* the loop's copy of readFds, then what select left in it
  tv,              \* ticks select will wait at most
  loop             \* what the loop thread is doing

eventVars == <<watch_table, timer_list, timeout, pending_list, rfds, tv, loop>>

Forever == MaxTimeout + 1
Indices == 0 .. MAX_FD_EVENTS - 1
EmptyTable == [i \in Indices |-> NoEvent]

Watched == {watch_table[i] : i \in Indices} \ {NoEvent}
Least(S) == CHOOSE i \in S : \A j \in S : i <= j

-----------------------------------------------------------------------------
(* The table and the lists. *)

\* The table with an event in its first free entry; it is the same when there is none.
Added(table, ev) ==
  LET free == {i \in Indices : table[i] = NoEvent}
  IN IF free = {} THEN table ELSE [table EXCEPT ![Least(free)] = ev]

Removed(table, events) ==
  [i \in Indices |-> IF table[i] \in events THEN NoEvent ELSE table[i]]

ril_event_add(ev) == watch_table' = Added(watch_table, ev)

\* The new timer goes before the first one that is not earlier.
ril_timer_add(t, ticks) ==
  LET earlier == Cardinality({i \in DOMAIN timer_list : timeout[timer_list[i]] < ticks})
  IN /\ timer_list' = InsertAt(timer_list, earlier + 1, t)
     /\ timeout' = [timeout EXCEPT ![t] = ticks]

-----------------------------------------------------------------------------
(* The turns of ril_event_loop. *)

\* A deadline that has passed does not make select wait.
calcNextTimeout ==
  IF timer_list = <<>> THEN Forever
  ELSE IF timeout[Head(timer_list)] > 0 THEN timeout[Head(timer_list)] ELSE 0

\* readFds is copied, and the time to the first deadline computed.
\* select fails when a descriptor in the set is closed, and the loop returns.
CopyReadFds(closed) ==
  /\ loop = "copy"
  /\ rfds' = Watched
  /\ tv' = calcNextTimeout
  /\ loop' = IF Watched \cap closed = {} THEN "select" ELSE "ended"
  /\ UNCHANGED <<watch_table, timer_list, timeout, pending_list>>

\* The same for a descriptor closed after the copy but before the call.
SelectFails(closed) ==
  /\ loop = "select" /\ rfds \cap closed # {}
  /\ loop' = "ended"
  /\ UNCHANGED <<watch_table, timer_list, timeout, pending_list, rfds, tv>>

SelectReturns(ready) ==
  /\ loop = "select"
  /\ rfds \cap ready # {} \/ tv = 0
  /\ rfds' = rfds \cap ready /\ tv' = 0
  /\ loop' = "process"
  /\ UNCHANGED <<watch_table, timer_list, timeout, pending_list>>

\* Mutant of Expired: the last timer that has expired is left in the list.
AllButOneExpired == Cardinality({i \in DOMAIN timer_list :
  i < Len(timer_list) /\ \A j \in 1 .. i + 1 : timeout[timer_list[j]] < 0})

\* How many timers at the front of the list have expired.
Expired == Cardinality({i \in DOMAIN timer_list :
                         \A j \in 1 .. i : timeout[timer_list[j]] < 0})

\* Mutants of LeavesTable: no event persists; every event does.
AllLeaveTable == rfds
NoneLeavesTable == {}

\* The events that fired and do not persist.
LeavesTable == rfds \ Persistent

\* The events of the table that are ready, in its order.
ReadReadies ==
  LET ready == {i \in Indices : watch_table[i] \in rfds}
  IN [n \in 1 .. Cardinality(ready) |->
        watch_table[CHOOSE i \in ready : Cardinality({j \in ready : j <= i}) = n]]

\* processTimeouts, then processReadReadies; listMutex is free for a moment in
\* between, but what comes then waits for the next turn.
processTimeouts ==
  /\ loop = "process"
  /\ pending_list' = pending_list \o SubSeq(timer_list, 1, Expired) \o ReadReadies
  /\ timer_list' = SubSeq(timer_list, Expired + 1, Len(timer_list))
  /\ timeout' = [t \in Timers |->
                  IF \E i \in 1 .. Expired : timer_list[i] = t THEN 0 ELSE timeout[t]]
  /\ watch_table' = Removed(watch_table, LeavesTable)
  /\ rfds' = {}
  /\ loop' = "fire"
  /\ UNCHANGED tv

\* firePending takes the next event out of the list and calls its callback.
Fire(ev, to) ==
  /\ loop = "fire" /\ pending_list # <<>> /\ Head(pending_list) = ev
  /\ pending_list' = Tail(pending_list)
  /\ loop' = to
  /\ UNCHANGED <<timer_list, timeout, rfds, tv>>

FireDone ==
  /\ loop = "fire" /\ pending_list = <<>>
  /\ loop' = "copy"
  /\ UNCHANGED <<watch_table, timer_list, timeout, pending_list, rfds, tv>>

\* Time goes by.
Tick ==
  /\ \/ loop = "select" /\ tv \in 1 .. MaxTimeout
     \/ \E i \in DOMAIN timer_list : timeout[timer_list[i]] >= 0
  /\ timeout' = [t \in Timers |->
       IF timeout[t] > -1 /\ \E i \in DOMAIN timer_list : timer_list[i] = t
       THEN timeout[t] - 1 ELSE timeout[t]]
  /\ tv' = IF loop = "select" /\ tv \in 1 .. MaxTimeout THEN tv - 1 ELSE tv
  /\ UNCHANGED <<watch_table, timer_list, pending_list, rfds, loop>>

=============================================================================
