--------------------------- MODULE RilDaemon_proofs ----------------------------
(***************************************************************************)
(* Theorems of RilDaemon for every set of threads and timers and all        *)
(* bounds.  The invariants of the event loop, the link and the wake lock    *)
(* rest on four inductive ones: the types; where the two events of the link *)
(* are; that the timer list is sorted, each timer in it once; that the loop *)
(* thread makes calls only from the callbacks of the link.  Then what makes *)
(* the event loop end.                                                      *)
(***************************************************************************)
EXTENDS RilDaemon, FiniteSetTheorems, SequenceTheorems, WellFoundedInduction, TLAPS

-----------------------------------------------------------------------------
(* Lemmas of the operators of the event loop. *)

\* A set of naturals has a least member.
LEMMA HasLeast ==
  ASSUME NEW S \in SUBSET Nat, S # {}
  PROVE  Least(S) \in S /\ \A j \in S : Least(S) <= j
<1>1. \E i \in S : \A j \in S : <<j, i>> \notin OpToRel(<, Nat)
  BY NatLessThanWellFounded, WFMin, Zenon
<1>2. \A i, j \in Nat : <<j, i>> \notin OpToRel(<, Nat) => i <= j
  BY DEF OpToRel
<1>3. \E i \in S : \A j \in S : i <= j
  BY <1>1, <1>2
<1> QED
  BY <1>3 DEF Least

\* The items of a sequence before an index and from it on, with one put in between.
LEMMA Inserted ==
  ASSUME NEW S, NEW s \in Seq(S), NEW k \in 1 .. Len(s) + 1, NEW x \in S
  PROVE  /\ InsertAt(s, k, x) \in Seq(S) /\ Len(InsertAt(s, k, x)) = Len(s) + 1
         /\ InsertAt(s, k, x)[k] = x
         /\ \A i \in 1 .. Len(s) + 1 :
              InsertAt(s, k, x)[i] = IF i < k THEN s[i] ELSE IF i = k THEN x ELSE s[i - 1]
<1> DEFINE front == SubSeq(s, 1, k - 1)
           back == SubSeq(s, k, Len(s))
<1>1. Len(s) \in Nat /\ k \in Nat /\ \A i \in 1 .. Len(s) : s[i] \in S
  BY LenProperties, ElementOfSeq
<1>2. front \in Seq(S) /\ Len(front) = k - 1 /\ \A i \in 1 .. k - 1 : front[i] = s[i]
  <2>1. \A i \in 1 .. k - 1 : s[i] \in S
    BY <1>1
  <2> QED
    BY <1>1, <2>1, SubSeqProperties, k - 1 \in Int
<1>3. back \in Seq(S) /\ Len(back) = Len(s) - k + 1
      /\ \A i \in 1 .. Len(s) - k + 1 : back[i] = s[k + i - 1]
  <2>1. \A i \in k .. Len(s) : s[i] \in S
    BY <1>1
  <2> QED
    BY <1>1, <2>1, SubSeqProperties
<1>4. <<x>> \in Seq(S) /\ Len(<<x>>) = 1 /\ <<x>>[1] = x
  OBVIOUS
<1> HIDE DEF front, back
<1> DEFINE half == front \o <<x>>
<1>5. half \in Seq(S) /\ Len(half) = k /\ \A i \in 1 .. k : half[i] = IF i < k THEN s[i] ELSE x
  BY <1>1, <1>2, <1>4, ConcatProperties
<1> HIDE DEF half
<1>6. /\ half \o back \in Seq(S) /\ Len(half \o back) = Len(s) + 1
      /\ \A i \in 1 .. Len(s) + 1 : (half \o back)[i] = IF i <= k THEN half[i] ELSE back[i - k]
  <2>1. /\ half \o back \in Seq(S) /\ Len(half \o back) = Len(half) + Len(back)
        /\ \A i \in 1 .. Len(half) + Len(back) :
             (half \o back)[i] = IF i <= Len(half) THEN half[i] ELSE back[i - Len(half)]
    BY <1>3, <1>5, ConcatProperties
  <2>2. Len(half) = k /\ Len(half) + Len(back) = Len(s) + 1
    BY <1>1, <1>3, <1>5
  <2> QED
    BY <2>1, <2>2
<1>7. InsertAt(s, k, x) = half \o back
  BY DEF InsertAt, half, front, back
<1> QED
  BY <1>1, <1>3, <1>5, <1>6, <1>7


\* How many of a sorted sequence come first: those that satisfy a test which holds of
\* all that come before one that satisfies it.
LEMMA FirstOnes ==
  ASSUME NEW n \in Nat, NEW P \in SUBSET (1 .. n),
         \A i, j \in 1 .. n : j \in P /\ i <= j => i \in P
  PROVE  Cardinality(P) \in 0 .. n /\ P = 1 .. Cardinality(P)
<1>1. Cardinality(1 .. n) = n
  BY FS_Interval
<1>2. CASE P = 1 .. n
  BY <1>1, <1>2
<1>3. CASE P # 1 .. n
  <2> DEFINE out == (1 .. n) \ P
             k == Least(out)
  <2>1. out \in SUBSET Nat /\ out # {} /\ out \subseteq 1 .. n
    <3>1. \E j \in 1 .. n : j \notin P
      BY <1>3
    <3>2. \A j \in 1 .. n : j \in Nat
      OBVIOUS
    <3> QED
      BY <3>1, <3>2
  <2>2. \A j \in 1 .. n : j \in P <=> j \notin out
    OBVIOUS
  <2> HIDE DEF out
  <2>3. k \in out /\ \A j \in out : k <= j
    BY <2>1, HasLeast
  <2> HIDE DEF k
  <2>4. P = 1 .. k - 1
    <3>1. ASSUME NEW i \in P PROVE i \in 1 .. k - 1
      BY <2>1, <2>2, <2>3
    <3>2. ASSUME NEW i \in 1 .. k - 1 PROVE i \in P
      BY <2>1, <2>2, <2>3
    <3> QED
      BY <3>1, <3>2
  <2>5. k - 1 \in 0 .. n
    BY <2>1, <2>3
  <2>6. Cardinality(1 .. k - 1) = k - 1
    BY <2>5, FS_Interval
  <2> QED
    BY <2>4, <2>5, <2>6
<1> QED
  BY <1>2, <1>3

\* An event is added when it is not in the table yet: there are no more entries
\* than the table has.
Typed(table) == table \in [Indices -> FdEvents \cup {NoEvent}]
Once(table) == \A i, j \in Indices : table[i] = table[j] /\ table[i] # NoEvent => i = j

LEMMA EventsFinite == IsFiniteSet(FdEvents) /\ IsFiniteSet(Indices) /\ Cardinality(Indices) = MAX_FD_EVENTS
<1>1. IsFiniteSet({"wakeup"}) /\ IsFiniteSet({"wakeup", "listen"}) /\ IsFiniteSet({"wakeup", "listen", "commands"})
  <2>1. IsFiniteSet({})
    BY FS_EmptySet
  <2>2. IsFiniteSet({"wakeup"})
    BY <2>1, FS_AddElement, {"wakeup"} = {} \cup {"wakeup"}
  <2>3. IsFiniteSet({"wakeup", "listen"})
    BY <2>2, FS_AddElement, {"wakeup", "listen"} = {"wakeup"} \cup {"listen"}
  <2>4. IsFiniteSet({"wakeup", "listen", "commands"})
    BY <2>3, FS_AddElement, {"wakeup", "listen", "commands"} = {"wakeup", "listen"} \cup {"commands"}
  <2> QED
    BY <2>2, <2>3, <2>4
<1>2. 0 \in Int /\ MAX_FD_EVENTS - 1 \in Int /\ MAX_FD_EVENTS \in Nat
  BY RilEventAssumption
<1>3. IsFiniteSet(0 .. MAX_FD_EVENTS - 1)
      /\ Cardinality(0 .. MAX_FD_EVENTS - 1) = IF 0 > MAX_FD_EVENTS - 1 THEN 0 ELSE (MAX_FD_EVENTS - 1) - 0 + 1
  BY <1>2, FS_Interval
<1> QED
  BY <1>1, <1>2, <1>3, RilDaemonAssumption DEF Indices

LEMMA AddedTyped ==
  ASSUME NEW table, Typed(table), NEW ev \in FdEvents
  PROVE  Typed(Added(table, ev))
  BY DEF Typed, Added

LEMMA AddedOnce ==
  ASSUME NEW table, Typed(table), Once(table), NEW ev \in FdEvents,
         \A i \in Indices : table[i] # ev
  PROVE  /\ Typed(Added(table, ev)) /\ Once(Added(table, ev))
         /\ \A other \in FdEvents : (\E i \in Indices : Added(table, ev)[i] = other)
               <=> other = ev \/ \E i \in Indices : table[i] = other
<1> DEFINE free == {i \in Indices : table[i] = NoEvent}
<1>1. free # {}
  <2> SUFFICES ASSUME free = {} PROVE FALSE
    OBVIOUS
  <2>1. table \in Injection(Indices, FdEvents \ {ev})
    BY DEF Typed, Once, Injection, IsInjective
  <2>2. IsFiniteSet(FdEvents \ {ev}) /\ Cardinality(FdEvents \ {ev}) = Cardinality(FdEvents) - 1
    BY EventsFinite, FS_RemoveElement
  <2>3. Cardinality(Indices) <= Cardinality(FdEvents \ {ev})
    BY <2>1, <2>2, FS_Injection, EventsFinite DEF ExistsInjection
  <2>4. Cardinality(FdEvents) \in Nat
    BY EventsFinite, FS_CardinalityType
  <2> QED
    BY <2>2, <2>3, <2>4, EventsFinite, RilEventAssumption
<1> DEFINE k == Least(free)
<1>2. k \in free
  <2>1. free \in SUBSET Nat
    BY DEF Indices
  <2> QED
    BY <1>1, <2>1, HasLeast
<1>3. Added(table, ev) = [table EXCEPT ![k] = ev]
  BY <1>1 DEF Added
<1> HIDE DEF k
<1>4. k \in Indices /\ table[k] = NoEvent
  BY <1>2
<1> QED
  BY <1>3, <1>4, RilEventAssumption DEF Typed, Once


\* Each event of the table that is ready comes up once.
LEMMA ReadiesOnce ==
  ASSUME Typed(watch_table), rfds \subseteq FdEvents
  PROVE  /\ ReadReadies \in Seq(FdEvents)
         /\ \A ev \in FdEvents : (\E n \in DOMAIN ReadReadies : ReadReadies[n] = ev)
               <=> ev \in rfds /\ \E i \in Indices : watch_table[i] = ev
         /\ Once(watch_table) =>
              \A m, n \in DOMAIN ReadReadies : ReadReadies[m] = ReadReadies[n] => m = n
<1> DEFINE ready == {i \in Indices : watch_table[i] \in rfds}
           upTo(i) == {j \in ready : j <= i}
           rank == [i \in ready |-> Cardinality(upTo(i))]
           N == Cardinality(ready)
           nth(n) == CHOOSE i \in ready : Cardinality({j \in ready : j <= i}) = n
<1>1. IsFiniteSet(ready) /\ N \in Nat
  <2>1. IsFiniteSet(ready)
    BY EventsFinite, FS_Subset
  <2> QED
    BY <2>1, FS_CardinalityType
<1>2. \A i \in ready : i \in Int
  BY DEF Indices
<1>3. ASSUME NEW i \in ready PROVE IsFiniteSet(upTo(i)) /\ Cardinality(upTo(i)) \in 1 .. N
  <2>1. upTo(i) \in SUBSET ready /\ i \in upTo(i)
    BY <1>2
  <2>2. IsFiniteSet(upTo(i)) /\ Cardinality(upTo(i)) <= N
    BY <2>1, <1>1, FS_Subset
  <2>3. Cardinality(upTo(i)) \in Nat /\ Cardinality(upTo(i)) # 0
    <3>1. upTo(i) # {}
      BY <2>1
    <3> HIDE DEF upTo
    <3> QED
      BY <2>2, <3>1, FS_CardinalityType, FS_EmptySet
  <2> QED
    BY <1>1, <2>2, <2>3
<1>4. ASSUME NEW i \in ready, NEW j \in ready, i < j
      PROVE  Cardinality(upTo(i)) # Cardinality(upTo(j))
  <2>1. upTo(i) \in SUBSET upTo(j) /\ upTo(i) # upTo(j)
    BY <1>2, <1>4
  <2> HIDE DEF upTo
  <2> QED
    BY <2>1, <1>3, FS_Subset
<1>5. rank \in Injection(ready, 1 .. N)
  <2>1. rank \in [ready -> 1 .. N]
    BY <1>3
  <2>2. ASSUME NEW i \in ready, NEW j \in ready, rank[i] = rank[j] PROVE i = j
    <3>1. Cardinality(upTo(i)) = Cardinality(upTo(j))
      BY <2>2
    <3> HIDE DEF upTo, rank
    <3> QED
      BY <3>1, <1>2, <1>4
  <2> HIDE DEF rank, ready, N
  <2> QED
    BY <2>1, <2>2 DEF Injection, IsInjective
<1>6. rank \in Surjection(ready, 1 .. N)
  <2>1. IsFiniteSet(1 .. N) /\ Cardinality(1 .. N) = N
    BY <1>1, FS_Interval
  <2> HIDE DEF rank
  <2> QED
    BY <1>5, <2>1, FS_Injection
<1>7. ASSUME NEW n \in 1 .. N PROVE nth(n) \in ready /\ rank[nth(n)] = n
  <2>1. \E i \in ready : rank[i] = n
    <3> HIDE DEF rank, ready, N
    <3> QED
      BY <1>6 DEF Surjection
  <2>2. \E i \in ready : Cardinality({j \in ready : j <= i}) = n
    BY <2>1
  <2>3. nth(n) \in ready /\ Cardinality({j \in ready : j <= nth(n)}) = n
    <3> HIDE DEF ready
    <3> QED
      BY <2>2
  <2> HIDE DEF nth
  <2> QED
    BY <2>3
<1>8. ASSUME NEW i \in ready PROVE rank[i] \in 1 .. N /\ nth(rank[i]) = i
  <2>1. rank[i] \in 1 .. N
    BY <1>3
  <2> HIDE DEF nth, rank, N, ready
  <2>2. nth(rank[i]) \in ready /\ rank[nth(rank[i])] = rank[i]
    BY <2>1, <1>7
  <2> QED
    BY <2>1, <2>2, <1>5 DEF Injection, IsInjective
<1>9. ReadReadies = [n \in 1 .. N |-> watch_table[nth(n)]]
  BY DEF ReadReadies
<1>10. \A i \in Indices : i \in ready <=> watch_table[i] \in rfds
  OBVIOUS
<1>11. \A i \in ready : i \in Indices /\ watch_table[i] \in FdEvents
  OBVIOUS
<1>12. NoEvent \notin FdEvents
  BY RilEventAssumption
<1> HIDE DEF nth, rank, ready, N
<1>13. ReadReadies \in Seq(FdEvents) /\ DOMAIN ReadReadies = 1 .. N
  <2>1. ReadReadies \in [1 .. N -> FdEvents]
    BY <1>7, <1>9, <1>11
  <2> QED
    BY <1>1, <2>1
<1>14. ASSUME NEW ev \in FdEvents
       PROVE  (\E n \in DOMAIN ReadReadies : ReadReadies[n] = ev)
                <=> ev \in rfds /\ \E i \in Indices : watch_table[i] = ev
  <2>1. ASSUME NEW n \in 1 .. N, watch_table[nth(n)] = ev
        PROVE  ev \in rfds /\ \E i \in Indices : watch_table[i] = ev
    BY <2>1, <1>7, <1>10, <1>11
  <2>2. ASSUME ev \in rfds, NEW i \in Indices, watch_table[i] = ev
        PROVE  \E n \in 1 .. N : watch_table[nth(n)] = ev
    BY <2>2, <1>8, <1>10
  <2> QED
    BY <2>1, <2>2, <1>9
<1>15. ASSUME Once(watch_table), NEW m \in DOMAIN ReadReadies, NEW n \in DOMAIN ReadReadies,
              ReadReadies[m] = ReadReadies[n]
       PROVE  m = n
  <2>1. nth(m) \in Indices /\ nth(n) \in Indices /\ watch_table[nth(m)] = watch_table[nth(n)]
        /\ watch_table[nth(m)] \in FdEvents
    BY <1>7, <1>9, <1>11, <1>15
  <2>2. nth(m) = nth(n)
    BY <2>1, <1>12, <1>15 DEF Once
  <2> QED
    BY <2>2, <1>7, <1>9
<1> QED
  BY <1>13, <1>14, <1>15
-----------------------------------------------------------------------------
(* The types of the state. *)

Loops == {"copy", "select", "process", "fire", "timer", "free", "connect", "freeNITZ",
          "commands", "cancel", "ended"}
Counters == {"idle", "error", "send", "write", "close", "store", "cancel", "mark", "add",
             "trigger", "assign"}
Calls == [pc : Counters,
          msg : {"none", "state", "other", "nitz", "timer", "answer", "kept"},
          n : Nat, info : Timers \cup {NoEvent}]

LoopTypeOK ==
  /\ Typed(watch_table) /\ timer_list \in Seq(Timers)
  /\ timeout \in [Timers -> -1 .. MaxTimeout]
  /\ pending_list \in Seq(FdEvents \cup Timers) /\ rfds \subseteq FdEvents
  /\ tv \in 0 .. Forever /\ loop \in Loops

DaemonTypeOK ==
  /\ s_registerCalled \in BOOLEAN /\ s_fdCommand \in BOOLEAN /\ fdConn \in Nat
  /\ s_lastNITZTimeData \in Nat /\ s_last_wake_timeout_info \in Timers \cup {NoEvent}
  /\ userParam \in [Timers -> BOOLEAN] /\ timedCallback \in [Timers -> {"wake", "user"}]
  /\ firing \in Timers \cup {NoEvent} /\ (loop \in {"timer", "free"} => firing \in Timers)
  /\ pipe \in BOOLEAN /\ call \in [Callers -> Calls]

WorldTypeOK ==
  /\ request \in [Conns -> {"none", "sent", "pending", "cancelled", "done"}]
  /\ wakeLock \in BOOLEAN /\ conns \in Nat /\ accepted \in Nat /\ peerOpen \in BOOLEAN
  /\ calls \in Nat /\ answered \in [Conns -> Nat] /\ closedUnderLoop \in BOOLEAN
  /\ inherited \in BOOLEAN

TypeOK == LoopTypeOK /\ DaemonTypeOK /\ WorldTypeOK

\* What processTimeouts does to the lists.
LEMMA Processed ==
  ASSUME LoopTypeOK, processTimeouts
  PROVE  /\ Expired \in 0 .. Len(timer_list)
         /\ \A i \in 1 .. Len(timer_list) :
              i <= Expired <=> \A j \in 1 .. i : timeout[timer_list[j]] < 0
         /\ timer_list' \in Seq(Timers) /\ Len(timer_list') = Len(timer_list) - Expired
         /\ \A i \in 1 .. Len(timer_list) - Expired : timer_list'[i] = timer_list[i + Expired]
         /\ pending_list' \in Seq(FdEvents \cup Timers)
         /\ ReadReadies \in Seq(FdEvents)
         /\ Len(pending_list') = Len(pending_list) + Expired + Len(ReadReadies)
         /\ \A i \in 1 .. Len(pending_list) : pending_list'[i] = pending_list[i]
         /\ \A i \in 1 .. Expired : pending_list'[Len(pending_list) + i] = timer_list[i]
         /\ \A i \in 1 .. Len(ReadReadies) :
              pending_list'[Len(pending_list) + Expired + i] = ReadReadies[i]
<1> DEFINE L == Len(timer_list)
           P == {i \in DOMAIN timer_list : \A j \in 1 .. i : timeout[timer_list[j]] < 0}
           S == FdEvents \cup Timers
           front == SubSeq(timer_list, 1, Expired)
<1>1. L \in Nat /\ DOMAIN timer_list = 1 .. L /\ \A i \in 1 .. L : timer_list[i] \in Timers
  BY DEF LoopTypeOK
<1>2. Expired \in 0 .. L /\ P = 1 .. Expired
  <2>1. P \in SUBSET (1 .. L) /\ Expired = Cardinality(P)
    BY <1>1 DEF Expired
  <2>2. \A i, j \in 1 .. L : j \in P /\ i <= j => i \in P
    BY <1>1
  <2> HIDE DEF P, L
  <2> QED
    BY <1>1, <2>1, <2>2, FirstOnes
<1>3. \A i \in 1 .. L : i <= Expired <=> \A j \in 1 .. i : timeout[timer_list[j]] < 0
  <2>1. \A i \in 1 .. L : i \in P <=> \A j \in 1 .. i : timeout[timer_list[j]] < 0
    BY <1>1
  <2>2. \A i \in 1 .. L : i \in P <=> i <= Expired
    <3> HIDE DEF P
    <3> QED
      BY <1>1, <1>2
  <2> HIDE DEF P
  <2> QED
    BY <2>1, <2>2
<1> HIDE DEF P
<1>4. /\ front \in Seq(Timers) /\ Len(front) = Expired
      /\ \A i \in 1 .. Expired : front[i] = timer_list[i]
  <2>1. \A i \in 1 .. Expired : timer_list[i] \in Timers
    BY <1>1, <1>2
  <2>2. /\ front \in Seq(Timers) /\ Len(front) = IF 1 <= Expired THEN Expired - 1 + 1 ELSE 0
        /\ \A i \in 1 .. Expired - 1 + 1 : front[i] = timer_list[1 + i - 1]
    BY <1>2, <2>1, SubSeqProperties
  <2> HIDE DEF front
  <2> QED
    BY <1>2, <2>2
<1>5. /\ timer_list' \in Seq(Timers) /\ Len(timer_list') = L - Expired
      /\ \A i \in 1 .. L - Expired : timer_list'[i] = timer_list[i + Expired]
  <2> DEFINE e == Expired + 1
             rest == SubSeq(timer_list, e, L)
  <2>1. \A i \in e .. L : timer_list[i] \in Timers
    BY <1>1, <1>2
  <2>2. e \in Int /\ L \in Int
    BY <1>1, <1>2
  <2>3. /\ rest \in Seq(Timers) /\ Len(rest) = IF e <= L THEN L - e + 1 ELSE 0
        /\ \A i \in 1 .. L - e + 1 : rest[i] = timer_list[e + i - 1]
    <3> HIDE DEF e
    <3> QED
      BY <2>1, <2>2, SubSeqProperties
  <2>4. timer_list' = rest
    BY DEF processTimeouts
  <2> HIDE DEF rest, L
  <2>5. rest \in Seq(Timers) /\ Len(rest) = L - Expired
    BY <1>1, <1>2, <2>3
  <2>6. ASSUME NEW i \in 1 .. L - Expired PROVE rest[i] = timer_list[i + Expired]
    <3>1. i \in 1 .. L - e + 1 /\ e + i - 1 = i + Expired
      BY <1>1, <1>2
    <3> QED
      BY <2>3, <3>1
  <2> QED
    BY <2>4, <2>5, <2>6
<1>6. ReadReadies \in Seq(FdEvents)
  BY ReadiesOnce DEF LoopTypeOK
<1>7. front \in Seq(S) /\ ReadReadies \in Seq(S) /\ pending_list \in Seq(S)
  BY <1>4, <1>6 DEF LoopTypeOK
<1>8. pending_list' = (pending_list \o front) \o ReadReadies
  BY DEF processTimeouts
<1> HIDE DEF front, S
<1> DEFINE half == pending_list \o front
<1>9. /\ half \in Seq(S) /\ Len(half) = Len(pending_list) + Expired
      /\ \A i \in 1 .. Len(pending_list) : half[i] = pending_list[i]
      /\ \A i \in 1 .. Expired : half[Len(pending_list) + i] = timer_list[i]
  <2>1. /\ half \in Seq(S) /\ Len(half) = Len(pending_list) + Len(front)
        /\ \A i \in 1 .. Len(pending_list) + Len(front) :
             half[i] = IF i <= Len(pending_list) THEN pending_list[i]
                       ELSE front[i - Len(pending_list)]
    BY <1>7, ConcatProperties
  <2>2. Len(pending_list) \in Nat
    BY <1>7
  <2> HIDE DEF half
  <2>3. half \in Seq(S) /\ Len(half) = Len(pending_list) + Expired
    BY <1>4, <2>1
  <2>4. \A i \in 1 .. Len(pending_list) : half[i] = pending_list[i]
    BY <1>2, <1>4, <2>1, <2>2
  <2>5. ASSUME NEW i \in 1 .. Expired PROVE half[Len(pending_list) + i] = timer_list[i]
    <3> DEFINE j == Len(pending_list) + i
    <3>1. j \in 1 .. Len(pending_list) + Len(front) /\ ~(j <= Len(pending_list))
          /\ j - Len(pending_list) = i
      BY <1>2, <1>4, <2>2
    <3> HIDE DEF j
    <3>2. half[j] = front[i]
      BY <2>1, <3>1
    <3> QED
      BY <1>4, <3>2 DEF j
  <2> QED
    BY <2>3, <2>4, <2>5
<1> HIDE DEF half
<1>10. pending_list' = half \o ReadReadies
  BY <1>8 DEF half
<1>11. Len(pending_list) \in Nat /\ Len(ReadReadies) \in Nat /\ Len(half) \in Nat
  BY <1>6, <1>7, <1>9
<1>12. /\ pending_list' \in Seq(S) /\ Len(pending_list') = Len(half) + Len(ReadReadies)
       /\ \A i \in 1 .. Len(half) : pending_list'[i] = half[i]
       /\ \A i \in 1 .. Len(ReadReadies) : pending_list'[Len(half) + i] = ReadReadies[i]
  <2>1. /\ half \o ReadReadies \in Seq(S)
        /\ Len(half \o ReadReadies) = Len(half) + Len(ReadReadies)
        /\ \A i \in 1 .. Len(half) + Len(ReadReadies) :
             (half \o ReadReadies)[i] = IF i <= Len(half) THEN half[i]
                                        ELSE ReadReadies[i - Len(half)]
    BY <1>7, <1>9, ConcatProperties
  <2> QED
    BY <1>10, <1>11, <2>1
<1>13. \A i \in 1 .. Len(pending_list) : pending_list'[i] = pending_list[i]
  BY <1>2, <1>9, <1>11, <1>12
<1>14. \A i \in 1 .. Expired : pending_list'[Len(pending_list) + i] = timer_list[i]
  <2>1. \A i \in 1 .. Expired : Len(pending_list) + i \in 1 .. Len(half)
    BY <1>2, <1>9, <1>11
  <2> QED
    BY <1>9, <1>12, <2>1
<1>15. S = FdEvents \cup Timers
  BY DEF S
<1> QED
  BY <1>2, <1>3, <1>5, <1>6, <1>9, <1>12, <1>13, <1>14, <1>15\* A timer is added in front of the first that is not earlier.
LEMMA TimerAdded ==
  ASSUME timer_list \in Seq(Timers), NEW t \in Timers, NEW ticks \in Int,
         ril_timer_add(t, ticks), timeout \in [Timers -> -1 .. MaxTimeout]
  PROVE  \E k \in 1 .. Len(timer_list) + 1 :
           /\ timer_list' = InsertAt(timer_list, k, t)
           /\ (\A i, j \in 1 .. Len(timer_list) :
                 i <= j => timeout[timer_list[i]] <= timeout[timer_list[j]])
              => \A i \in 1 .. Len(timer_list) : i < k <=> timeout[timer_list[i]] < ticks
<1> DEFINE L == Len(timer_list)
           P == {i \in DOMAIN timer_list : timeout[timer_list[i]] < ticks}
<1>1. L \in Nat /\ DOMAIN timer_list = 1 .. L
      /\ \A i \in 1 .. L : timer_list[i] \in Timers /\ timeout[timer_list[i]] \in Int
  <2>1. \A i \in 1 .. L : timer_list[i] \in Timers
    OBVIOUS
  <2>2. \A i \in Timers : timeout[i] \in Int
    OBVIOUS
  <2> QED
    BY <2>1, <2>2
<1>2. Cardinality(P) \in 0 .. L
  <2>1. P \in SUBSET (1 .. L)
    BY <1>1
  <2> HIDE DEF P, L
  <2>2. IsFiniteSet(1 .. L) /\ Cardinality(1 .. L) = L
    BY <1>1, FS_Interval
  <2>3. Cardinality(P) \in Nat /\ Cardinality(P) <= L
    BY <2>1, <2>2, FS_Subset, FS_CardinalityType
  <2> QED
    BY <1>1, <2>3
<1>3. timer_list' = InsertAt(timer_list, Cardinality(P) + 1, t)
  BY DEF ril_timer_add
<1>4. ASSUME \A i, j \in 1 .. L : i <= j => timeout[timer_list[i]] <= timeout[timer_list[j]]
      PROVE  \A i \in 1 .. L : i < Cardinality(P) + 1 <=> timeout[timer_list[i]] < ticks
  <2>1. P \in SUBSET (1 .. L) /\ \A i, j \in 1 .. L : j \in P /\ i <= j => i \in P
    <3>1. P \in SUBSET (1 .. L)
      BY <1>1
    <3>2. ASSUME NEW i \in 1 .. L, NEW j \in 1 .. L, j \in P, i <= j PROVE i \in P
      <4>1. timeout[timer_list[j]] < ticks /\ timeout[timer_list[i]] <= timeout[timer_list[j]]
        BY <1>4, <3>2
      <4>2. timeout[timer_list[i]] < ticks
        BY <1>1, <4>1
      <4> QED
        BY <1>1, <4>2
    <3> QED
      BY <3>1, <3>2
  <2>2. \A i \in 1 .. L : i \in P <=> timeout[timer_list[i]] < ticks
    BY <1>1
  <2> HIDE DEF P, L
  <2>3. P = 1 .. Cardinality(P)
    BY <1>1, <2>1, FirstOnes
  <2> QED
    BY <1>1, <1>2, <2>2, <2>3
<1> HIDE DEF P
<1>5. Cardinality(P) + 1 \in 1 .. L + 1
  BY <1>1, <1>2
<1> QED
  BY <1>3, <1>4, <1>5

\* What a new timer is.
LEMMA NewTimer ==
  ASSUME NEW t, AddTimer(t)
  PROVE  \E info \in Timers \ Allocated :
           /\ userParam' = [userParam EXCEPT ![info] = FALSE]
           /\ timedCallback' = [timedCallback EXCEPT
                                  ![info] = IF call[t].msg = "timer" THEN "user" ELSE "wake"]
           /\ ril_timer_add(info, IF call[t].msg = "timer" THEN 0 ELSE WAKE_TIMEOUT)
           /\ call' = [call EXCEPT ![t].pc = "trigger", ![t].info = info]
<1>1. \E i \in Timers : i \notin Allocated
  BY DEF AddTimer, Allocated
<1>2. (CHOOSE i \in Timers : i \notin Allocated) \in Timers \ Allocated
  BY <1>1
<1> QED
  BY <1>2 DEF AddTimer

LEMMA TypedInit == Init => TypeOK
<1> SUFFICES ASSUME Init PROVE TypeOK
  OBVIOUS
<1>1. Typed(StartTable)
  <2>1. Typed(EmptyTable) /\ "wakeup" \in FdEvents
    BY RilDaemonAssumption DEF Typed, EmptyTable
  <2> QED
    BY <2>1, AddedTyped DEF StartTable
<1>2. LoopTypeOK
  BY <1>1, RilEventAssumption DEF Init, LoopTypeOK, Loops, Forever
<1>3. DaemonTypeOK
  BY DEF Init, DaemonTypeOK, Calls, NoCall, Callers, Counters
<1>4. WorldTypeOK
  BY DEF Init, WorldTypeOK
<1> QED
  BY <1>2, <1>3, <1>4 DEF TypeOK

\* The steps of a call, on any thread, that touch nothing the loop reads.
QuietStep(t) ==
  \/ error_exit(t) \/ sendResponseRaw(t) \/ blockingWrite(t) \/ WriteFails(t)
  \/ CloseAfterWrite(t) \/ StoreNITZ(t) \/ ReadLastTimeout(t) \/ CancelLastTimeout(t)
  \/ SetLastTimeout(t)

LEMMA NoCallTyped == NoCall \in Calls
  BY DEF NoCall, Calls, Counters

LEMMA GoesTyped ==
  ASSUME NEW t \in Callers, call \in [Callers -> Calls], NEW pc \in Counters, Goes(t, pc)
  PROVE  call' \in [Callers -> Calls]
  BY DEF Goes, Calls

LEMMA GoesWithTyped ==
  ASSUME NEW t \in Callers, call \in [Callers -> Calls], NEW pc \in Counters,
         NEW info \in Timers \cup {NoEvent},
         call' = [call EXCEPT ![t].info = info, ![t].pc = pc]
         \/ call' = [call EXCEPT ![t].pc = pc, ![t].info = info]
  PROVE  /\ call' \in [Callers -> Calls]
         /\ call'[t].pc = pc /\ call'[t].msg = call[t].msg
         /\ \A u \in Callers : u # t => call'[u] = call[u]
<1> DEFINE c == [call[t] EXCEPT !.pc = pc, !.info = info]
<1>1. c \in Calls
  BY DEF Calls
<1>2. call' = [call EXCEPT ![t] = c]
  <2>1. call[t] \in Calls
    OBVIOUS
  <2>2. [call[t] EXCEPT !.pc = pc, !.info = info] = [call[t] EXCEPT !.info = info, !.pc = pc]
    BY <2>1 DEF Calls
  <2>3. CASE call' = [call EXCEPT ![t].info = info, ![t].pc = pc]
    BY <2>1, <2>2, <2>3
  <2>4. CASE call' = [call EXCEPT ![t].pc = pc, ![t].info = info]
    BY <2>1, <2>4
  <2> QED
    BY <2>3, <2>4
<1>3. c.pc = pc /\ c.msg = call[t].msg
  BY DEF Calls
<1> HIDE DEF c
<1> QED
  BY <1>1, <1>2, <1>3

\* What becomes of the call after a response was sent or could not be.
LEMMA AfterSendTyped ==
  ASSUME TypeOK, NEW t \in Callers, NEW ok \in BOOLEAN, AfterSend(t, ok)
  PROVE  call' \in [Callers -> Calls]
  BY NoCallTyped DEF AfterSend, Schedules, Goes, Returns, TypeOK, DaemonTypeOK, Calls,
                    Counters, NoCall

LEMMA QuietTyped ==
  ASSUME TypeOK, NEW t \in Callers, QuietStep(t)
  PROVE  TypeOK'
<1> USE DEF eventVars, daemonVars, clientVars, historyVars, TypeOK, LoopTypeOK,
            DaemonTypeOK, WorldTypeOK, Typed
<1>1. CASE error_exit(t)
  BY <1>1, NoCallTyped DEF error_exit, releaseWakeLock, Returns
<1>2. CASE sendResponseRaw(t)
  <2>1. call' \in [Callers -> Calls]
    <3>1. CASE s_fdCommand
      BY <1>2, <3>1, GoesTyped DEF sendResponseRaw, Counters
    <3>2. CASE ~s_fdCommand
      BY <1>2, <3>2, AfterSendTyped DEF sendResponseRaw
    <3> QED
      BY <3>1, <3>2
  <2> QED
    BY <1>2, <2>1 DEF sendResponseRaw
<1>3. CASE blockingWrite(t)
  <2>1. call' \in [Callers -> Calls]
    BY <1>3, AfterSendTyped DEF blockingWrite
  <2>2. answered' \in [Conns -> Nat]
    BY <1>3 DEF blockingWrite
  <2> QED
    BY <1>3, <2>1, <2>2 DEF blockingWrite
<1>4. CASE WriteFails(t)
  <2>1. call' \in [Callers -> Calls]
    BY <1>4, GoesTyped DEF WriteFails, Counters
  <2> QED
    BY <1>4, <2>1 DEF WriteFails
<1>5. CASE CloseAfterWrite(t)
  <2>1. call' \in [Callers -> Calls]
    BY <1>5, AfterSendTyped DEF CloseAfterWrite
  <2> QED
    BY <1>5, <2>1 DEF CloseAfterWrite
<1>6. CASE StoreNITZ(t)
  <2>1. call' \in [Callers -> Calls]
    <3>1. [NoCall EXCEPT !.pc = "cancel"] \in Calls
      BY DEF Calls, Counters, NoCall
    <3>2. \E c \in Calls : call' = [call EXCEPT ![t] = c]
      BY <1>6, <3>1, NoCallTyped DEF StoreNITZ, Schedules, Returns
    <3> QED
      BY <3>2
  <2>2. s_lastNITZTimeData' \in Nat
    BY <1>6 DEF StoreNITZ, Calls
  <2> QED
    BY <1>6, <2>1, <2>2 DEF StoreNITZ
<1>7. CASE ReadLastTimeout(t)
  <2>1. call' \in [Callers -> Calls]
    <3> DEFINE pc == IF s_last_wake_timeout_info = NoEvent THEN "add" ELSE "mark"
    <3>1. pc \in Counters /\ s_last_wake_timeout_info \in Timers \cup {NoEvent}
      BY DEF Counters
    <3>2. call' = [call EXCEPT ![t].info = s_last_wake_timeout_info, ![t].pc = pc]
      BY <1>7 DEF ReadLastTimeout
    <3> HIDE DEF pc
    <3> QED
      BY <3>1, <3>2, GoesWithTyped
  <2> QED
    BY <1>7, <2>1 DEF ReadLastTimeout
<1>8. CASE CancelLastTimeout(t)
  <2>1. call' \in [Callers -> Calls]
    BY <1>8, GoesTyped DEF CancelLastTimeout, Counters
  <2> QED
    BY <1>8, <2>1 DEF CancelLastTimeout
<1>9. CASE SetLastTimeout(t)
  <2>1. call' \in [Callers -> Calls] /\ call[t].info \in Timers \cup {NoEvent}
    BY <1>9, NoCallTyped DEF SetLastTimeout, Returns, Calls
  <2> QED
    BY <1>9, <2>1 DEF SetLastTimeout
<1> QED
  BY <1>1, <1>2, <1>3, <1>4, <1>5, <1>6, <1>7, <1>8, <1>9 DEF QuietStep

LEMMA CallTyped ==
  ASSUME TypeOK, NEW t \in Callers, CallStep(t)
  PROVE  TypeOK'
<1> USE DEF eventVars, daemonVars, clientVars, historyVars
<1>1. CASE QuietStep(t)
  BY <1>1, QuietTyped
<1>2. CASE ProcessKilled(t)
  <2> USE <1>2 DEF ProcessKilled
  <2>1. LoopTypeOK'
    <3>1. Typed(StartTable)
      <4>1. Typed(EmptyTable) /\ "wakeup" \in FdEvents
        BY RilDaemonAssumption DEF Typed, EmptyTable
      <4> QED
        BY <4>1, AddedTyped DEF StartTable
    <3> QED
      BY <3>1, RilEventAssumption DEF LoopTypeOK, Loops, Forever, Typed
  <2>2. DaemonTypeOK'
    BY NoCallTyped DEF DaemonTypeOK
  <2>3. WorldTypeOK'
    BY DEF TypeOK, WorldTypeOK
  <2> QED
    BY <2>1, <2>2, <2>3 DEF TypeOK
<1>3. CASE AddTimer(t)
  <2>1. PICK info \in Timers \ Allocated :
           /\ userParam' = [userParam EXCEPT ![info] = FALSE]
           /\ timedCallback' = [timedCallback EXCEPT
                                  ![info] = IF call[t].msg = "timer" THEN "user" ELSE "wake"]
           /\ ril_timer_add(info, IF call[t].msg = "timer" THEN 0 ELSE WAKE_TIMEOUT)
           /\ call' = [call EXCEPT ![t].pc = "trigger", ![t].info = info]
    BY <1>3, NewTimer
  <2> DEFINE ticks == IF call[t].msg = "timer" THEN 0 ELSE WAKE_TIMEOUT
  <2>2. ticks \in 0 .. MaxTimeout
    BY RilEventAssumption, RilDaemonAssumption
  <2>3. timer_list' \in Seq(Timers)
    <3> HIDE DEF ticks
    <3>1. PICK k \in 1 .. Len(timer_list) + 1 : timer_list' = InsertAt(timer_list, k, info)
      <4>1. ril_timer_add(info, ticks) /\ ticks \in Int
        BY <2>1, <2>2 DEF ticks
      <4> QED
        BY <4>1, TimerAdded DEF TypeOK, LoopTypeOK
    <3> QED
      BY <3>1, Inserted DEF TypeOK, LoopTypeOK
  <2>4. timeout' \in [Timers -> -1 .. MaxTimeout]
    <3>1. timeout' = [timeout EXCEPT ![info] = ticks]
      BY <2>1 DEF ril_timer_add
    <3> HIDE DEF ticks
    <3> QED
      BY <2>2, <3>1 DEF TypeOK, LoopTypeOK
  <2>5. call' \in [Callers -> Calls]
    <3>1. "trigger" \in Counters
      BY DEF Counters
    <3> QED
      BY <2>1, <3>1, GoesWithTyped DEF TypeOK, DaemonTypeOK
  <2>6. LoopTypeOK'
    BY <1>3, <2>3, <2>4 DEF AddTimer, TypeOK, LoopTypeOK, Typed
  <2>7. DaemonTypeOK'
    BY <1>3, <2>1, <2>5 DEF AddTimer, TypeOK, DaemonTypeOK
  <2>8. WorldTypeOK'
    BY <1>3 DEF AddTimer, TypeOK, WorldTypeOK
  <2> QED
    BY <2>6, <2>7, <2>8 DEF TypeOK
<1>4. CASE TriggerAfterAdd(t)
  <2>1. call' \in [Callers -> Calls]
    BY <1>4, NoCallTyped DEF TriggerAfterAdd, Returns, Goes, TypeOK, DaemonTypeOK, Calls, Counters
  <2> QED
    BY <1>4, <2>1 DEF TriggerAfterAdd, triggerEvLoop, TypeOK, LoopTypeOK, DaemonTypeOK,
                      WorldTypeOK, Typed
<1> QED
  BY <1>1, <1>2, <1>3, <1>4 DEF CallStep, QuietStep\* A response begins, or a request for a timed callback.
LEMMA BeginsTyped ==
  ASSUME TypeOK, NEW t \in Callers, NEW msg \in {"state", "other", "nitz", "timer"},
         NEW n \in Nat, BeginsCall(t, msg, n)
  PROVE  wakeLock' \in BOOLEAN /\ inherited' \in BOOLEAN /\ call' \in [Callers -> Calls]
<1>1. wakeLock' \in BOOLEAN /\ inherited' \in BOOLEAN
  BY DEF BeginsCall, TypeOK, WorldTypeOK
<1> DEFINE pc == IF msg = "timer" THEN "add" ELSE "send"
<1>2. CASE call' = [call EXCEPT ![t] = [NoCall EXCEPT !.msg = msg, !.n = n, !.pc = pc]]
  BY <1>1, <1>2 DEF TypeOK, DaemonTypeOK, Calls, NoCall, Counters
<1>3. CASE call' = [call EXCEPT ![t] = [NoCall EXCEPT !.pc = "error"]]
  BY <1>1, <1>3 DEF TypeOK, DaemonTypeOK, Calls, NoCall, Counters
<1> QED
  BY <1>2, <1>3 DEF BeginsCall

LEMMA LoopTyped ==
  ASSUME TypeOK, LoopStep
  PROVE  TypeOK'
<1> USE DEF eventVars, daemonVars, clientVars, historyVars, Rest, Fire
<1>19. "wakeup" \in FdEvents /\ "listen" \in FdEvents /\ "commands" \in FdEvents
  BY RilDaemonAssumption
<1>20. ASSUME pending_list # <<>>
      PROVE  Head(pending_list) \in FdEvents \cup Timers
             /\ Tail(pending_list) \in Seq(FdEvents \cup Timers)
  BY <1>20 DEF TypeOK, LoopTypeOK
<1>1. CASE CopyReadFds(Closed) /\ Rest
  <2>1. Watched \subseteq FdEvents
    BY DEF TypeOK, LoopTypeOK, Typed, Watched
  <2>2. calcNextTimeout \in 0 .. Forever
    <3>1. CASE timer_list = <<>>
      BY <3>1, RilEventAssumption DEF calcNextTimeout, Forever
    <3>2. CASE timer_list # <<>>
      <4>1. Head(timer_list) \in Timers
        BY <3>2 DEF TypeOK, LoopTypeOK
      <4>2. timeout[Head(timer_list)] \in -1 .. MaxTimeout
        BY <4>1 DEF TypeOK, LoopTypeOK
      <4> QED
        BY <3>2, <4>2, RilEventAssumption DEF calcNextTimeout, Forever
    <3> QED
      BY <3>1, <3>2
  <2>3. LoopTypeOK'
    BY <1>1, <2>1, <2>2 DEF CopyReadFds, TypeOK, LoopTypeOK, Typed, Loops
  <2>4. loop' \in {"select", "ended"}
    BY <1>1 DEF CopyReadFds
  <2> QED
    BY <1>1, <2>3, <2>4 DEF TypeOK, DaemonTypeOK, WorldTypeOK
<1>2. CASE SelectReturns(Ready) /\ Rest
  <2>1. LoopTypeOK'
    BY <1>2, RilEventAssumption DEF SelectReturns, TypeOK, LoopTypeOK, Typed, Loops, Forever
  <2> QED
    BY <1>2, <2>1 DEF SelectReturns, TypeOK, DaemonTypeOK, WorldTypeOK
<1>3. CASE processTimeouts /\ Rest
  <2>1. timer_list' \in Seq(Timers) /\ pending_list' \in Seq(FdEvents \cup Timers)
    BY <1>3, Processed DEF TypeOK
  <2>2. timeout' \in [Timers -> -1 .. MaxTimeout]
    BY <1>3, RilEventAssumption DEF processTimeouts, TypeOK, LoopTypeOK
  <2>3. Typed(watch_table)'
    BY <1>3 DEF processTimeouts, Removed, TypeOK, LoopTypeOK, Typed
  <2>4. LoopTypeOK'
    BY <1>3, <2>1, <2>2, <2>3 DEF processTimeouts, TypeOK, LoopTypeOK, Loops
  <2> QED
    BY <1>3, <2>4 DEF processTimeouts, TypeOK, DaemonTypeOK, WorldTypeOK
<1>4. CASE FireDone /\ Rest
  BY <1>4 DEF FireDone, TypeOK, LoopTypeOK, Typed, Loops, DaemonTypeOK, WorldTypeOK
<1>5. CASE processWakeupCallback
  BY <1>5, <1>20 DEF processWakeupCallback, TypeOK, LoopTypeOK, Typed, Loops, DaemonTypeOK,
                    WorldTypeOK
<1>6. CASE FireTimer
  BY <1>6, <1>20 DEF FireTimer, TypeOK, LoopTypeOK, Typed, Loops, DaemonTypeOK, WorldTypeOK
<1>7. CASE wakeTimeoutCallback
  BY <1>7 DEF wakeTimeoutCallback, releaseWakeLock, TypeOK, LoopTypeOK, Typed, Loops,
              DaemonTypeOK, WorldTypeOK
<1>8. CASE FreeTimer
  BY <1>8 DEF FreeTimer, TypeOK, LoopTypeOK, Typed, Loops, DaemonTypeOK, WorldTypeOK
<1>9. CASE listenCallback
  <2>1. wakeLock' \in BOOLEAN /\ inherited' \in BOOLEAN /\ call' \in [Callers -> Calls]
    BY <1>9, BeginsTyped DEF listenCallback, Callers
  <2>2. Typed(watch_table)'
    <3>1. watch_table' = Added(watch_table, "commands") /\ Typed(watch_table)
      BY <1>9 DEF listenCallback, rilEventAddWakeup, ril_event_add, TypeOK, LoopTypeOK
    <3>2. Typed(Added(watch_table, "commands"))
      BY <1>19, <3>1, AddedTyped
    <3> QED
      BY <3>1, <3>2 DEF Typed
  <2>3. LoopTypeOK'
    BY <1>9, <1>20, <2>2 DEF listenCallback, TypeOK, LoopTypeOK, Loops
  <2> QED
    BY <1>9, <2>1, <2>3 DEF listenCallback, rilEventAddWakeup, triggerEvLoop, TypeOK,
                            DaemonTypeOK, WorldTypeOK
<1>10. CASE listenCallbackRefuses
  <2>1. Typed(watch_table)'
    <3>1. watch_table' = Added(watch_table, "listen") /\ Typed(watch_table)
      BY <1>10 DEF listenCallbackRefuses, rilEventAddWakeup, ril_event_add, TypeOK, LoopTypeOK
    <3>2. Typed(Added(watch_table, "listen"))
      BY <1>19, <3>1, AddedTyped
    <3> QED
      BY <3>1, <3>2 DEF Typed
  <2>2. LoopTypeOK'
    BY <1>10, <1>20, <2>1 DEF listenCallbackRefuses, TypeOK, LoopTypeOK, Loops
  <2>3. request' \in [Conns -> {"none", "sent", "pending", "cancelled", "done"}]
    BY <1>10 DEF listenCallbackRefuses, Cancelled, TypeOK, WorldTypeOK
  <2> QED
    BY <1>10, <2>2, <2>3 DEF listenCallbackRefuses, rilEventAddWakeup, triggerEvLoop, TypeOK,
                             DaemonTypeOK, WorldTypeOK
<1>11. CASE SendLastNITZ
  <2>1. call' \in [Callers -> Calls] /\ loop' \in {"fire", "freeNITZ"}
    <3> DEFINE c == [NoCall EXCEPT !.pc = "send", !.msg = "kept", !.n = s_lastNITZTimeData]
    <3>1. c \in Calls
      BY DEF Calls, Counters, NoCall, TypeOK, DaemonTypeOK
    <3>2. /\ call' = call \/ call' = [call EXCEPT ![LoopThread] = c]
          /\ loop' \in {"fire", "freeNITZ"}
      BY <1>11 DEF SendLastNITZ
    <3> HIDE DEF c
    <3> QED
      BY <3>1, <3>2 DEF TypeOK, DaemonTypeOK
  <2> QED
    BY <1>11, <2>1 DEF SendLastNITZ, TypeOK, LoopTypeOK, Typed, Loops, DaemonTypeOK, WorldTypeOK
<1>12. CASE FreeLastNITZ
  BY <1>12 DEF FreeLastNITZ, TypeOK, LoopTypeOK, Typed, Loops, DaemonTypeOK, WorldTypeOK
<1>13. CASE processCommandsCallback
  BY <1>13, <1>20 DEF processCommandsCallback, TypeOK, LoopTypeOK, Typed, Loops, DaemonTypeOK,
                     WorldTypeOK
<1>14. CASE processCommandBuffer
  <2>1. call' \in [Callers -> Calls]
    <3> DEFINE c == [NoCall EXCEPT !.pc = "send", !.msg = "answer", !.n = fdConn]
    <3>1. c \in Calls
      BY DEF Calls, Counters, NoCall, TypeOK, DaemonTypeOK
    <3>2. call' = call \/ call' = [call EXCEPT ![LoopThread] = c]
      BY <1>14 DEF processCommandBuffer
    <3> HIDE DEF c
    <3> QED
      BY <3>1, <3>2 DEF TypeOK, DaemonTypeOK
  <2>2. request' \in [Conns -> {"none", "sent", "pending", "cancelled", "done"}]
    BY <1>14 DEF processCommandBuffer, TypeOK, WorldTypeOK
  <2> QED
    BY <1>14, <2>1, <2>2 DEF processCommandBuffer, TypeOK, LoopTypeOK, Typed, DaemonTypeOK,
                             WorldTypeOK
<1>15. CASE CommandsRead
  BY <1>15 DEF CommandsRead, TypeOK, LoopTypeOK, Typed, Loops, DaemonTypeOK, WorldTypeOK
<1>16. CASE CloseCommands
  <2>1. Typed(watch_table)'
    <3>1. watch_table' = Added(Removed(watch_table, {"commands"}), "listen") /\ Typed(watch_table)
      BY <1>16 DEF CloseCommands, ClosedTable, TypeOK, LoopTypeOK
    <3>2. Typed(Removed(watch_table, {"commands"}))
      BY <3>1 DEF Removed, Typed
    <3>3. Typed(Added(Removed(watch_table, {"commands"}), "listen"))
      BY <1>19, <3>2, AddedTyped
    <3> QED
      BY <3>1, <3>3 DEF Typed
  <2> QED
    BY <1>16, <2>1 DEF CloseCommands, TypeOK, LoopTypeOK, Loops, DaemonTypeOK, WorldTypeOK
<1>17. CASE onCommandsSocketClosed
  <2>1. request' \in [Conns -> {"none", "sent", "pending", "cancelled", "done"}]
    BY <1>17 DEF onCommandsSocketClosed, Cancelled, TypeOK, WorldTypeOK
  <2> QED
    BY <1>17, <2>1 DEF onCommandsSocketClosed, TypeOK, LoopTypeOK, Typed, Loops, DaemonTypeOK,
                       WorldTypeOK
<1>18. CASE CallStep(LoopThread)
  BY <1>18, CallTyped DEF Callers
<1> QED
  BY <1>1, <1>2, <1>3, <1>4, <1>5, <1>6, <1>7, <1>8, <1>9, <1>10, <1>11, <1>12, <1>13, <1>14,
     <1>15, <1>16, <1>17, <1>18 DEF LoopStep

LEMMA TypedStep == TypeOK /\ [Next]_vars => TypeOK'
<1> SUFFICES ASSUME TypeOK, [Next]_vars PROVE TypeOK'
  OBVIOUS
<1> USE DEF eventVars, daemonVars, clientVars, historyVars
<1>1. CASE UNCHANGED vars
  BY <1>1 DEF vars, TypeOK, LoopTypeOK, Typed, DaemonTypeOK, WorldTypeOK
<1>2. CASE RIL_register
  <2>1. Typed(watch_table)'
    <3>1. watch_table' = Added(watch_table, "listen") /\ Typed(watch_table)
      BY <1>2 DEF RIL_register, rilEventAddWakeup, ril_event_add, TypeOK, LoopTypeOK
    <3>2. Typed(Added(watch_table, "listen"))
      BY RilDaemonAssumption, <3>1, AddedTyped
    <3> QED
      BY <3>1, <3>2 DEF Typed
  <2> QED
    BY <1>2, <2>1 DEF RIL_register, rilEventAddWakeup, triggerEvLoop, TypeOK, LoopTypeOK,
                      DaemonTypeOK, WorldTypeOK
<1>3. CASE LoopStep
  BY <1>3, LoopTyped
<1>4. CASE SelectFails(Closed) /\ Rest
  BY <1>4 DEF SelectFails, Rest, TypeOK, LoopTypeOK, Typed, Loops, DaemonTypeOK, WorldTypeOK
<1>5. ASSUME NEW t \in Threads, CallStep(t) PROVE TypeOK'
  BY <1>5, CallTyped DEF Callers
<1>6. ASSUME NEW t \in Threads, RIL_onRequestComplete(t) PROVE TypeOK'
  <2>1. PICK c \in Conns :
           /\ request' = [request EXCEPT ![c] = "done"]
           /\ call' = IF request[c] = "cancelled" THEN call
                      ELSE [call EXCEPT ![t] = [NoCall EXCEPT !.pc = "send", !.msg = "answer",
                                                              !.n = c]]
    BY <1>6 DEF RIL_onRequestComplete
  <2>2. call' \in [Callers -> Calls]
    <3>1. c \in Nat
      BY DEF Conns
    <3> QED
      BY <2>1, <3>1 DEF TypeOK, DaemonTypeOK, Calls, NoCall, Counters
  <2>3. request' \in [Conns -> {"none", "sent", "pending", "cancelled", "done"}]
    BY <2>1 DEF TypeOK, WorldTypeOK
  <2> QED
    BY <1>6, <2>2, <2>3 DEF RIL_onRequestComplete, TypeOK, LoopTypeOK, Typed, DaemonTypeOK,
                            WorldTypeOK
<1>7. ASSUME NEW t \in Threads, RIL_onUnsolicitedResponse(t) PROVE TypeOK'
  <2>1. PICK msg \in Responses : BeginsCall(t, msg, IF msg = "nitz" THEN calls + 1 ELSE 0)
    BY <1>7 DEF RIL_onUnsolicitedResponse
  <2>2. /\ (IF msg = "nitz" THEN calls + 1 ELSE 0) \in Nat
        /\ msg \in {"state", "other", "nitz", "timer"} /\ t \in Callers
    BY RilDaemonAssumption DEF TypeOK, WorldTypeOK, Callers
  <2>3. wakeLock' \in BOOLEAN /\ inherited' \in BOOLEAN /\ call' \in [Callers -> Calls]
    BY <2>1, <2>2, BeginsTyped
  <2> QED
    BY <1>7, <2>3 DEF RIL_onUnsolicitedResponse, TypeOK, LoopTypeOK, Typed, DaemonTypeOK,
                      WorldTypeOK
<1>8. CASE ClientConnects
  BY <1>8 DEF ClientConnects, TypeOK, LoopTypeOK, Typed, DaemonTypeOK, WorldTypeOK
<1>9. CASE ClientSends
  BY <1>9 DEF ClientSends, TypeOK, LoopTypeOK, Typed, DaemonTypeOK, WorldTypeOK
<1>10. CASE ClientCloses
  BY <1>10 DEF ClientCloses, TypeOK, LoopTypeOK, Typed, DaemonTypeOK, WorldTypeOK
<1>11. CASE Tick /\ Rest
  <2>1. timeout' \in [Timers -> -1 .. MaxTimeout]
    <3>1. timeout' = [t \in Timers |->
            IF timeout[t] > -1 /\ \E i \in DOMAIN timer_list : timer_list[i] = t
            THEN timeout[t] - 1 ELSE timeout[t]]
      BY <1>11 DEF Tick
    <3>2. ASSUME NEW t \in Timers
          PROVE  timeout[t] \in -1 .. MaxTimeout /\ timeout'[t] \in -1 .. MaxTimeout
      <4>1. timeout[t] \in -1 .. MaxTimeout
        BY DEF TypeOK, LoopTypeOK
      <4>2. timeout'[t] = IF timeout[t] > -1 /\ \E i \in DOMAIN timer_list : timer_list[i] = t
                          THEN timeout[t] - 1 ELSE timeout[t]
        BY <3>1
      <4> QED
        BY <4>1, <4>2, RilEventAssumption
    <3> QED
      BY <3>1, <3>2
  <2>2. tv' \in 0 .. Forever
    BY <1>11, RilEventAssumption DEF Tick, TypeOK, LoopTypeOK, Forever
  <2> QED
    BY <1>11, <2>1, <2>2 DEF Tick, Rest, TypeOK, LoopTypeOK, Typed, DaemonTypeOK, WorldTypeOK
<1> QED
  BY <1>1, <1>2, <1>3, <1>4, <1>5, <1>6, <1>7, <1>8, <1>9, <1>10, <1>11 DEF Next, ThreadStep

-----------------------------------------------------------------------------
(* The two events of the link: where each of them is. *)

In(table, ev) == \E i \in Indices : table[i] = ev
Pends(ev) == \E i \in DOMAIN pending_list : pending_list[i] = ev
PendsOnce ==
  \A i, j \in DOMAIN pending_list :
    pending_list[i] \in {"listen", "commands"} /\ pending_list[i] = pending_list[j] => i = j

\* The daemon listens, has a connection to accept or has accepted one: one of
\* these from RIL_register on.
LinkInv ==
  /\ Once(watch_table) /\ PendsOnce
  /\ loop \in {"copy", "select", "process"} => pending_list = <<>>
  /\ s_fdCommand <=> In(watch_table, "commands")
  /\ s_registerCalled <=> In(watch_table, "listen") \/ Pends("listen") \/ s_fdCommand
  /\ ~(In(watch_table, "listen") /\ Pends("listen"))
  /\ ~(In(watch_table, "listen") /\ s_fdCommand) /\ ~(Pends("listen") /\ s_fdCommand)
  /\ Pends("commands") => s_fdCommand /\ loop # "commands"
  /\ loop = "commands" => s_fdCommand

-----------------------------------------------------------------------------
(* Timers: the list is sorted, each timer is in it once; and calls. *)

Sorted ==
  \A i, j \in DOMAIN timer_list : i <= j => timeout[timer_list[i]] <= timeout[timer_list[j]]
Distinct ==
  \A i, j \in DOMAIN timer_list : timer_list[i] = timer_list[j] => i = j

\* The loop thread makes calls from the callbacks of the link only.
LoopCalls == call[LoopThread].pc # "idle" => loop \in {"connect", "freeNITZ", "commands"}

\* What a call is about, where its next step depends on it.
CallsMatch ==
  \A t \in Callers :
    /\ call[t].pc = "store" => call[t].msg = "nitz"
    /\ call[t].pc \in {"cancel", "mark"} => call[t].msg # "timer"

-----------------------------------------------------------------------------
(* The events of the link. *)

LEMMA LinkNames ==
  /\ "wakeup" \in FdEvents /\ "listen" \in FdEvents /\ "commands" \in FdEvents
  /\ \A t \in Timers : t \notin FdEvents
  /\ NoEvent \notin FdEvents /\ NoEvent \notin Timers
  BY RilEventAssumption, RilDaemonAssumption

\* A step that moves neither event.
LEMMA LinkSame ==
  ASSUME LinkInv, UNCHANGED <<watch_table, pending_list, s_registerCalled, s_fdCommand>>,
         \/ loop' = loop
         \/ loop' \notin {"copy", "select", "process", "commands"}
         \/ pending_list = <<>> /\ loop' # "commands"
  PROVE  LinkInv'
  BY DEF LinkInv, Once, PendsOnce, Pends, In

\* The table and the list of a process that was started.
LEMMA LinkStart ==
  ASSUME watch_table' = StartTable, pending_list' = <<>>, ~s_registerCalled', ~s_fdCommand',
         loop' = "copy"
  PROVE  LinkInv'
<1>1. /\ Typed(EmptyTable) /\ Once(EmptyTable)
      /\ \A ev \in FdEvents : \A i \in Indices : EmptyTable[i] # ev
  BY LinkNames DEF EmptyTable, Typed, Once
<1>2. /\ Once(StartTable)
      /\ ~In(StartTable, "listen") /\ ~In(StartTable, "commands")
  BY <1>1, AddedOnce, LinkNames DEF StartTable, In
<1> QED
  BY <1>2 DEF LinkInv, Once, PendsOnce, Pends, In

LEMMA LinkInit == Init => LinkInv
<1> SUFFICES ASSUME Init PROVE LinkInv
  OBVIOUS
<1>1. /\ Typed(EmptyTable) /\ Once(EmptyTable)
      /\ \A ev \in FdEvents : \A i \in Indices : EmptyTable[i] # ev
  BY LinkNames DEF EmptyTable, Typed, Once
<1>2. /\ Once(StartTable)
      /\ ~In(StartTable, "listen") /\ ~In(StartTable, "commands")
  BY <1>1, AddedOnce, LinkNames DEF StartTable, In
<1> QED
  BY <1>2 DEF Init, LinkInv, Once, PendsOnce, Pends, In

\* An event leaves the list when it fires.
LEMMA Fired ==
  ASSUME TypeOK, PendsOnce, NEW ev, NEW to, Fire(ev, to)
  PROVE  /\ PendsOnce' /\ Pends(ev)
         /\ \A other : Pends(other)' => Pends(other)
         /\ \A other : Pends(other) => Pends(other)' \/ other = ev
         /\ ev \in {"listen", "commands"} => ~Pends(ev)'
<1> DEFINE L == Len(pending_list)
           q == Tail(pending_list)
<1>1. L \in Nat \ {0} /\ DOMAIN pending_list = 1 .. L /\ pending_list[1] = ev
  BY DEF Fire, TypeOK, LoopTypeOK
<1>2. pending_list' = q /\ DOMAIN q = 1 .. L - 1 /\ \A i \in 1 .. L - 1 : q[i] = pending_list[i + 1]
  BY DEF Fire, TypeOK, LoopTypeOK
<1> HIDE DEF L, q
<1>3. Pends(ev)
  BY <1>1 DEF Pends
<1>4. ASSUME NEW other, Pends(other)' PROVE Pends(other)
  <2>1. PICK i \in 1 .. L - 1 : q[i] = other
    BY <1>2, <1>4 DEF Pends
  <2>2. i + 1 \in 1 .. L /\ pending_list[i + 1] = other
    BY <1>1, <1>2, <2>1
  <2> QED
    BY <1>1, <2>2 DEF Pends
<1>5. ASSUME NEW other, Pends(other) PROVE Pends(other)' \/ other = ev
  <2>1. PICK i \in 1 .. L : pending_list[i] = other
    BY <1>1, <1>5 DEF Pends
  <2>2. CASE i = 1
    BY <1>1, <2>1, <2>2
  <2>3. CASE i # 1
    <3>1. i - 1 \in 1 .. L - 1 /\ q[i - 1] = other
      <4>1. i - 1 \in 1 .. L - 1 /\ (i - 1) + 1 = i
        BY <1>1, <2>1, <2>3
      <4> QED
        BY <1>2, <2>1, <4>1
    <3> QED
      BY <1>2, <3>1 DEF Pends
  <2> QED
    BY <2>2, <2>3
<1>6. PendsOnce'
  <2> SUFFICES ASSUME NEW i \in 1 .. L - 1, NEW j \in 1 .. L - 1,
                      q[i] \in {"listen", "commands"}, q[i] = q[j]
               PROVE  i = j
    BY <1>2 DEF PendsOnce
  <2>1. /\ i + 1 \in 1 .. L /\ j + 1 \in 1 .. L
        /\ pending_list[i + 1] \in {"listen", "commands"}
        /\ pending_list[i + 1] = pending_list[j + 1]
    BY <1>1, <1>2
  <2>2. i + 1 = j + 1
    BY <1>1, <2>1 DEF PendsOnce
  <2> QED
    BY <2>2, <1>1
<1>7. ASSUME ev \in {"listen", "commands"}, Pends(ev)' PROVE FALSE
  <2>1. PICK i \in 1 .. L - 1 : q[i] = ev
    BY <1>2, <1>7 DEF Pends
  <2>2. i + 1 \in 1 .. L /\ pending_list[i + 1] = ev /\ 1 \in 1 .. L
    BY <1>1, <1>2, <2>1
  <2>3. i + 1 = 1
    BY <1>1, <2>2, <1>7 DEF PendsOnce
  <2> QED
    BY <2>1, <2>3, <1>1
<1> QED
  BY <1>3, <1>4, <1>5, <1>6, <1>7

\* The events that are ready go from the table to the list, the others stay.
LEMMA LinkProcessed ==
  ASSUME TypeOK, LinkInv, processTimeouts
  PROVE  /\ Once(watch_table)' /\ PendsOnce'
         /\ \A ev \in {"listen", "commands"} :
              Pends(ev)' <=> ev \in rfds /\ In(watch_table, ev)
         /\ \A ev \in FdEvents :
              In(watch_table', ev) <=> In(watch_table, ev) /\ ev \notin LeavesTable
<1> DEFINE E == Expired
           R == ReadReadies
<1>1. pending_list = <<>> /\ Once(watch_table) /\ LoopTypeOK
  BY DEF LinkInv, processTimeouts, TypeOK
<1>2. /\ E \in 0 .. Len(timer_list) /\ Len(timer_list) \in Nat
      /\ \A i \in 1 .. Len(timer_list) : timer_list[i] \in Timers
      /\ R \in Seq(FdEvents)
      /\ pending_list' \in Seq(FdEvents \cup Timers) /\ Len(pending_list') = E + Len(R)
      /\ \A i \in 1 .. E : pending_list'[i] = timer_list[i]
      /\ \A i \in 1 .. Len(R) : pending_list'[E + i] = R[i]
  <2>1. Len(pending_list) = 0
    BY <1>1
  <2>2. /\ E \in 0 .. Len(timer_list)
        /\ R \in Seq(FdEvents)
        /\ pending_list' \in Seq(FdEvents \cup Timers) /\ Len(pending_list') = 0 + E + Len(R)
        /\ \A i \in 1 .. E : pending_list'[0 + i] = timer_list[i]
        /\ \A i \in 1 .. Len(R) : pending_list'[0 + E + i] = R[i]
    BY <1>1, <2>1, Processed
  <2>3. Len(timer_list) \in Nat /\ \A i \in 1 .. Len(timer_list) : timer_list[i] \in Timers
    BY <1>1 DEF LoopTypeOK
  <2>4. Len(R) \in Nat
    BY <2>2
  <2> HIDE DEF E, R
  <2> QED
    BY <2>2, <2>3, <2>4
<1>3. /\ \A ev \in FdEvents : (\E n \in DOMAIN R : R[n] = ev)
            <=> ev \in rfds /\ In(watch_table, ev)
      /\ \A m, n \in DOMAIN R : R[m] = R[n] => m = n
  BY <1>1, ReadiesOnce DEF LoopTypeOK, In
<1>4. watch_table' = Removed(watch_table, LeavesTable)
  BY DEF processTimeouts
<1>5. LeavesTable \subseteq FdEvents
  BY <1>1 DEF LeavesTable, LoopTypeOK
<1> HIDE DEF E, R
<1>6. DOMAIN R = 1 .. Len(R) /\ Len(R) \in Nat /\ \A n \in 1 .. Len(R) : R[n] \in FdEvents
  BY <1>2
<1>7. DOMAIN pending_list' = 1 .. E + Len(R) /\ E \in Nat
  BY <1>2
<1>8. ASSUME NEW i \in 1 .. E + Len(R), pending_list'[i] \in FdEvents
      PROVE  i - E \in 1 .. Len(R) /\ pending_list'[i] = R[i - E]
  <2>1. CASE i <= E
    <3>1. i \in 1 .. E /\ i \in 1 .. Len(timer_list)
      BY <1>2, <1>6, <1>7, <2>1
    <3> QED
      BY <1>2, <1>8, <3>1, LinkNames
  <2>2. CASE ~(i <= E)
    <3> DEFINE k == i - E
    <3>1. k \in 1 .. Len(R) /\ E + k = i
      BY <1>6, <1>7, <2>2
    <3> HIDE DEF k
    <3>2. pending_list'[i] = R[k]
      BY <1>2, <3>1
    <3> QED
      BY <3>1, <3>2 DEF k
  <2> QED
    BY <2>1, <2>2
<1>9. PendsOnce'
  <2> SUFFICES ASSUME NEW i \in 1 .. E + Len(R), NEW j \in 1 .. E + Len(R),
                      pending_list'[i] \in FdEvents, pending_list'[i] = pending_list'[j]
               PROVE  i = j
    BY <1>7, LinkNames DEF PendsOnce
  <2>1. i - E \in 1 .. Len(R) /\ j - E \in 1 .. Len(R) /\ R[i - E] = R[j - E]
    BY <1>8
  <2>2. i - E = j - E
    BY <1>3, <1>6, <2>1
  <2> QED
    BY <2>2, <1>6, <1>7
<1>10. ASSUME NEW ev \in FdEvents PROVE Pends(ev)' <=> ev \in rfds /\ In(watch_table, ev)
  <2>1. ASSUME Pends(ev)' PROVE ev \in rfds /\ In(watch_table, ev)
    <3>1. PICK i \in 1 .. E + Len(R) : pending_list'[i] = ev
      BY <1>7, <2>1 DEF Pends
    <3>2. i - E \in DOMAIN R /\ R[i - E] = ev
      BY <1>6, <1>8, <3>1
    <3> QED
      BY <1>3, <3>2
  <2>2. ASSUME ev \in rfds, In(watch_table, ev) PROVE Pends(ev)'
    <3>1. PICK n \in 1 .. Len(R) : R[n] = ev
      BY <1>3, <1>6, <2>2
    <3>2. E + n \in 1 .. E + Len(R) /\ pending_list'[E + n] = ev
      BY <1>2, <1>6, <1>7, <3>1
    <3> QED
      BY <1>7, <3>2 DEF Pends
  <2> QED
    BY <2>1, <2>2
<1>11. Once(watch_table)' /\ \A ev \in FdEvents :
         In(watch_table', ev) <=> In(watch_table, ev) /\ ev \notin LeavesTable
  BY <1>1, <1>4, <1>5, LinkNames DEF Removed, Once, In
<1> QED
  BY <1>9, <1>10, <1>11, LinkNames

LEMMA AddedIn ==
  ASSUME NEW table, Typed(table), Once(table), NEW ev \in FdEvents, ~In(table, ev)
  PROVE  /\ Once(Added(table, ev))
         /\ \A other \in FdEvents : In(Added(table, ev), other) <=> other = ev \/ In(table, other)
  BY AddedOnce DEF In

\* The steps of a call leave the events where they are, or the process is killed.
LEMMA LinkCall ==
  ASSUME LinkInv, NEW t, CallStep(t)
  PROVE  LinkInv'
<1> USE DEF eventVars, daemonVars, clientVars, historyVars
<1>1. CASE error_exit(t)
  BY <1>1, LinkSame DEF error_exit
<1>2. CASE sendResponseRaw(t)
  BY <1>2, LinkSame DEF sendResponseRaw
<1>3. CASE blockingWrite(t)
  BY <1>3, LinkSame DEF blockingWrite
<1>4. CASE WriteFails(t)
  BY <1>4, LinkSame DEF WriteFails
<1>5. CASE CloseAfterWrite(t)
  BY <1>5, LinkSame DEF CloseAfterWrite
<1>6. CASE ProcessKilled(t)
  <2>1. watch_table' = StartTable /\ pending_list' = <<>> /\ ~s_registerCalled'
        /\ ~s_fdCommand' /\ loop' = "copy"
    BY <1>6 DEF ProcessKilled
  <2> QED
    BY <2>1, LinkStart
<1>7. CASE StoreNITZ(t)
  BY <1>7, LinkSame DEF StoreNITZ
<1>8. CASE ReadLastTimeout(t)
  BY <1>8, LinkSame DEF ReadLastTimeout
<1>9. CASE CancelLastTimeout(t)
  BY <1>9, LinkSame DEF CancelLastTimeout
<1>10. CASE AddTimer(t)
  BY <1>10, LinkSame DEF AddTimer
<1>11. CASE TriggerAfterAdd(t)
  BY <1>11, LinkSame DEF TriggerAfterAdd
<1>12. CASE SetLastTimeout(t)
  BY <1>12, LinkSame DEF SetLastTimeout
<1> QED
  BY <1>1, <1>2, <1>3, <1>4, <1>5, <1>6, <1>7, <1>8, <1>9, <1>10, <1>11, <1>12 DEF CallStep

\* An event of neither kind fires.
LEMMA LinkOther ==
  ASSUME TypeOK, LinkInv, NEW ev, ev \notin {"listen", "commands"}, NEW to,
         to \notin {"copy", "select", "process", "commands"}, Fire(ev, to),
         UNCHANGED <<watch_table, s_registerCalled, s_fdCommand>>
  PROVE  LinkInv'
<1>1. /\ PendsOnce' /\ (Pends("listen")' <=> Pends("listen"))
      /\ (Pends("commands")' <=> Pends("commands")) /\ loop' = to
  BY Fired DEF LinkInv, Fire
<1> QED
  BY <1>1 DEF LinkInv, Once, In

LEMMA LinkLoop ==
  ASSUME TypeOK, LinkInv, LoopStep
  PROVE  LinkInv'
<1> USE DEF eventVars, daemonVars, clientVars, historyVars, Rest
<1>1. CASE CopyReadFds(Closed) /\ Rest
  BY <1>1, LinkSame DEF CopyReadFds, LinkInv
<1>2. CASE SelectReturns(Ready) /\ Rest
  BY <1>2, LinkSame DEF SelectReturns, LinkInv
<1>3. CASE processTimeouts /\ Rest
  <2>1. /\ Once(watch_table)' /\ PendsOnce'
        /\ Pends("listen")' <=> "listen" \in rfds /\ In(watch_table, "listen")
        /\ Pends("commands")' <=> "commands" \in rfds /\ In(watch_table, "commands")
        /\ In(watch_table', "listen") <=> In(watch_table, "listen") /\ "listen" \notin LeavesTable
        /\ In(watch_table', "commands")
             <=> In(watch_table, "commands") /\ "commands" \notin LeavesTable
    BY <1>3, LinkProcessed, LinkNames
  <2>2. "commands" \notin LeavesTable /\ ("listen" \in LeavesTable <=> "listen" \in rfds)
    BY RilDaemonAssumption DEF LeavesTable
  <2>3. loop' = "fire" /\ UNCHANGED <<s_registerCalled, s_fdCommand>>
    BY <1>3 DEF processTimeouts
  <2>4. pending_list = <<>> /\ ~Pends("listen")
    BY <1>3 DEF processTimeouts, LinkInv, Pends
  <2> QED
    BY <2>1, <2>2, <2>3, <2>4 DEF LinkInv, In
<1>4. CASE FireDone /\ Rest
  BY <1>4, LinkSame DEF FireDone
<1>5. CASE processWakeupCallback
  BY <1>5, LinkOther DEF processWakeupCallback
<1>6. CASE FireTimer
  <2>1. PICK info \in Timers : Fire(info, "timer")
    BY <1>6 DEF FireTimer
  <2>2. info \notin {"listen", "commands"}
    BY LinkNames
  <2> QED
    BY <1>6, <2>1, <2>2, LinkOther DEF FireTimer
<1>7. CASE wakeTimeoutCallback
  BY <1>7, LinkSame DEF wakeTimeoutCallback
<1>8. CASE FreeTimer
  BY <1>8, LinkSame DEF FreeTimer
<1>9. CASE listenCallback
  <2>1. /\ Fire("listen", "connect") /\ s_fdCommand' /\ UNCHANGED s_registerCalled
        /\ watch_table' = Added(watch_table, "commands")
    BY <1>9 DEF listenCallback, rilEventAddWakeup, ril_event_add
  <2>2. /\ PendsOnce' /\ Pends("listen") /\ ~Pends("listen")' /\ loop' = "connect"
        /\ (Pends("commands")' => Pends("commands"))
    BY <2>1, Fired DEF LinkInv, Fire
  <2>3. ~s_fdCommand /\ ~In(watch_table, "commands") /\ ~In(watch_table, "listen")
        /\ s_registerCalled /\ Once(watch_table) /\ Typed(watch_table)
    BY <2>2 DEF LinkInv, TypeOK, LoopTypeOK
  <2>4. Once(watch_table') /\ In(watch_table', "commands") /\ ~In(watch_table', "listen")
    BY <2>1, <2>3, AddedIn, LinkNames
  <2>5. Once(watch_table)'
    BY <2>4 DEF Once
  <2> QED
    BY <2>1, <2>2, <2>3, <2>4, <2>5 DEF LinkInv, In
<1>10. CASE listenCallbackRefuses
  <2>1. /\ Fire("listen", "fire") /\ UNCHANGED <<s_registerCalled, s_fdCommand>>
        /\ watch_table' = Added(watch_table, "listen")
    BY <1>10 DEF listenCallbackRefuses, rilEventAddWakeup, ril_event_add
  <2>2. /\ PendsOnce' /\ Pends("listen") /\ ~Pends("listen")' /\ loop' = "fire"
        /\ (Pends("commands")' => Pends("commands"))
    BY <2>1, Fired DEF LinkInv, Fire
  <2>3. ~s_fdCommand /\ ~In(watch_table, "commands") /\ ~In(watch_table, "listen")
        /\ s_registerCalled /\ Once(watch_table) /\ Typed(watch_table)
    BY <2>2 DEF LinkInv, TypeOK, LoopTypeOK
  <2>4. Once(watch_table') /\ In(watch_table', "listen") /\ ~In(watch_table', "commands")
    BY <2>1, <2>3, AddedIn, LinkNames
  <2>5. Once(watch_table)'
    BY <2>4 DEF Once
  <2> QED
    BY <2>1, <2>2, <2>3, <2>4, <2>5 DEF LinkInv, In
<1>11. CASE SendLastNITZ
  BY <1>11, LinkSame DEF SendLastNITZ
<1>12. CASE FreeLastNITZ
  BY <1>12, LinkSame DEF FreeLastNITZ
<1>13. CASE processCommandsCallback
  <2>1. Fire("commands", "commands") /\ UNCHANGED <<watch_table, s_registerCalled, s_fdCommand>>
    BY <1>13 DEF processCommandsCallback
  <2>2. /\ PendsOnce' /\ Pends("commands") /\ ~Pends("commands")' /\ loop' = "commands"
        /\ (Pends("listen")' <=> Pends("listen"))
    BY <2>1, Fired DEF LinkInv, Fire
  <2> QED
    BY <2>1, <2>2 DEF LinkInv, Once, In
<1>14. CASE processCommandBuffer
  BY <1>14, LinkSame DEF processCommandBuffer
<1>15. CASE CommandsRead
  BY <1>15, LinkSame DEF CommandsRead
<1>16. CASE CloseCommands
  <2>1. /\ loop = "commands" /\ loop' = "cancel" /\ ~s_fdCommand'
        /\ UNCHANGED <<pending_list, s_registerCalled>>
        /\ watch_table' = Added(Removed(watch_table, {"commands"}), "listen")
    BY <1>16 DEF CloseCommands, ClosedTable
  <2>2. /\ s_fdCommand /\ s_registerCalled /\ ~Pends("listen") /\ ~Pends("commands")
        /\ ~In(watch_table, "listen") /\ Once(watch_table) /\ Typed(watch_table)
    BY <2>1 DEF LinkInv, TypeOK, LoopTypeOK
  <2> DEFINE table == Removed(watch_table, {"commands"})
  <2>3. Typed(table) /\ Once(table) /\ ~In(table, "listen") /\ ~In(table, "commands")
    BY <2>2, LinkNames DEF Removed, Typed, Once, In
  <2> HIDE DEF table
  <2>4. Once(watch_table') /\ In(watch_table', "listen") /\ ~In(watch_table', "commands")
    <3>1. watch_table' = Added(table, "listen")
      BY <2>1 DEF table
    <3> QED
      BY <2>3, <3>1, AddedIn, LinkNames
  <2>5. Once(watch_table)'
    BY <2>4 DEF Once
  <2>6. PendsOnce' /\ ~Pends("listen")' /\ ~Pends("commands")'
    BY <2>1, <2>2 DEF LinkInv, PendsOnce, Pends
  <2> QED
    BY <2>1, <2>2, <2>4, <2>5, <2>6 DEF LinkInv, In
<1>17. CASE onCommandsSocketClosed
  BY <1>17, LinkSame DEF onCommandsSocketClosed
<1>18. CASE CallStep(LoopThread)
  BY <1>18, LinkCall
<1> QED
  BY <1>1, <1>2, <1>3, <1>4, <1>5, <1>6, <1>7, <1>8, <1>9, <1>10, <1>11, <1>12, <1>13, <1>14,
     <1>15, <1>16, <1>17, <1>18 DEF LoopStep

LEMMA LinkStep == TypeOK /\ LinkInv /\ [Next]_vars => LinkInv'
<1> SUFFICES ASSUME TypeOK, LinkInv, [Next]_vars PROVE LinkInv'
  OBVIOUS
<1> USE DEF eventVars, daemonVars, clientVars, historyVars
<1>1. CASE UNCHANGED vars
  BY <1>1, LinkSame DEF vars
<1>2. CASE RIL_register
  <2>1. /\ ~s_registerCalled /\ s_registerCalled' /\ UNCHANGED <<pending_list, s_fdCommand, loop>>
        /\ watch_table' = Added(watch_table, "listen")
    BY <1>2 DEF RIL_register, rilEventAddWakeup, ril_event_add
  <2>2. /\ ~s_fdCommand /\ ~Pends("listen") /\ ~In(watch_table, "listen")
        /\ Once(watch_table) /\ Typed(watch_table)
    BY <2>1 DEF LinkInv, TypeOK, LoopTypeOK
  <2>3. Once(watch_table') /\ In(watch_table', "listen")
        /\ (In(watch_table', "commands") <=> In(watch_table, "commands"))
    BY <2>1, <2>2, AddedIn, LinkNames
  <2>4. Once(watch_table)'
    BY <2>3 DEF Once
  <2> QED
    BY <2>1, <2>2, <2>3, <2>4 DEF LinkInv, In, PendsOnce, Pends
<1>3. CASE LoopStep
  BY <1>3, LinkLoop
<1>4. CASE SelectFails(Closed) /\ Rest
  BY <1>4, LinkSame DEF SelectFails, Rest
<1>5. ASSUME NEW t \in Threads, CallStep(t) PROVE LinkInv'
  BY <1>5, LinkCall
<1>6. ASSUME NEW t \in Threads, RIL_onRequestComplete(t) PROVE LinkInv'
  BY <1>6, LinkSame DEF RIL_onRequestComplete
<1>7. ASSUME NEW t \in Threads, RIL_onUnsolicitedResponse(t) PROVE LinkInv'
  BY <1>7, LinkSame DEF RIL_onUnsolicitedResponse
<1>8. CASE ClientConnects
  BY <1>8, LinkSame DEF ClientConnects
<1>9. CASE ClientSends
  BY <1>9, LinkSame DEF ClientSends
<1>10. CASE ClientCloses
  BY <1>10, LinkSame DEF ClientCloses
<1>11. CASE Tick /\ Rest
  BY <1>11, LinkSame DEF Tick, Rest
<1> QED
  BY <1>1, <1>2, <1>3, <1>4, <1>5, <1>6, <1>7, <1>8, <1>9, <1>10, <1>11 DEF Next, ThreadStep

LEMMA WatchedIn == \A ev : ev # NoEvent => (ev \in Watched <=> In(watch_table, ev))
  BY DEF Watched, In

\* The types are right in every state: the table holds events of the daemon, the
\* lists are sequences of them, the time-outs stay within bounds.
THEOREM RilTypeCorrect == Spec => []TypeOK
  BY TypedInit, TypedStep, PTL DEF Spec

\* The assertions of the callbacks hold: a connection is accepted when there is
\* none, requests are read from the one there is, and the event that is then
\* deleted is in the table.
THEOREM Assertions == Spec => []AssertionsHold
<1>1. LinkInv => AssertionsHold
  <2>1. "commands" \in Watched <=> In(watch_table, "commands")
    BY WatchedIn, LinkNames
  <2> QED
    BY <2>1 DEF LinkInv, AssertionsHold, Pends
<1> QED
  BY <1>1, LinkInit, LinkStep, RilTypeCorrect, PTL DEF Spec

\* Between two rounds of callbacks the daemon listens or reads requests: an event
\* that is added is never turned away by a full table.
THEOREM ListensServes == Spec => []ListensOrServes
<1>1. LinkInv => ListensOrServes
  <2>1. /\ "commands" \in Watched <=> In(watch_table, "commands")
        /\ "listen" \in Watched <=> In(watch_table, "listen")
    BY WatchedIn, LinkNames
  <2>2. pending_list = <<>> => ~Pends("listen")
    BY DEF Pends
  <2> QED
    BY <2>1, <2>2 DEF LinkInv, ListensOrServes
<1> QED
  BY <1>1, LinkInit, LinkStep, RilTypeCorrect, PTL DEF Spec

-----------------------------------------------------------------------------
(* The calls of the loop thread. *)

\* A step of a call that is not the last of the process.
LEMMA CallOnly ==
  ASSUME TypeOK, NEW t \in Callers, CallStep(t), ~ProcessKilled(t)
  PROVE  /\ call[t].pc # "idle" /\ \A u \in Callers : u # t => call'[u] = call[u]
         /\ UNCHANGED <<loop, pending_list, watch_table, rfds, tv, firing>>
         /\ AddTimer(t) \/ UNCHANGED <<timer_list, timeout, timedCallback>>
         /\ TriggerAfterAdd(t) \/ UNCHANGED pipe
<1> USE DEF eventVars, daemonVars, clientVars, historyVars, At
<1> DEFINE Only == \A u \in Callers : u # t => call'[u] = call[u]
<1>1. ASSUME NEW pc, Goes(t, pc) PROVE Only
  BY <1>1 DEF Goes, TypeOK, DaemonTypeOK
<1>2. ASSUME Returns(t) PROVE Only
  BY <1>2 DEF Returns, TypeOK, DaemonTypeOK
<1>3. ASSUME NEW msg, Schedules(t, msg) PROVE Only
  BY <1>2, <1>3 DEF Schedules, TypeOK, DaemonTypeOK
<1>4. ASSUME NEW ok, AfterSend(t, ok) PROVE Only
  BY <1>1, <1>3, <1>4 DEF AfterSend
<1>5. ASSUME NEW pc \in Counters, NEW info \in Timers \cup {NoEvent},
             call' = [call EXCEPT ![t].info = info, ![t].pc = pc]
             \/ call' = [call EXCEPT ![t].pc = pc, ![t].info = info]
      PROVE  Only
  BY <1>5, GoesWithTyped DEF TypeOK, DaemonTypeOK
<1> HIDE DEF Only
<1>6. CASE error_exit(t)
  BY <1>6, <1>2 DEF error_exit, Only
<1>7. CASE sendResponseRaw(t)
  <2>1. Only
    BY <1>7, <1>1, <1>4 DEF sendResponseRaw
  <2> QED
    BY <1>7, <2>1 DEF sendResponseRaw, Only
<1>8. CASE blockingWrite(t)
  BY <1>8, <1>4 DEF blockingWrite, Only
<1>9. CASE WriteFails(t)
  BY <1>9, <1>1 DEF WriteFails, Only
<1>10. CASE CloseAfterWrite(t)
  BY <1>10, <1>4 DEF CloseAfterWrite, Only
<1>11. CASE StoreNITZ(t)
  BY <1>11, <1>3 DEF StoreNITZ, Only
<1>12. CASE ReadLastTimeout(t)
  <2>1. Only
    <3> DEFINE pc == IF s_last_wake_timeout_info = NoEvent THEN "add" ELSE "mark"
    <3>1. pc \in Counters /\ s_last_wake_timeout_info \in Timers \cup {NoEvent}
      BY DEF Counters, TypeOK, DaemonTypeOK
    <3>2. call' = [call EXCEPT ![t].info = s_last_wake_timeout_info, ![t].pc = pc]
      BY <1>12 DEF ReadLastTimeout
    <3> HIDE DEF pc
    <3> QED
      BY <3>1, <3>2, <1>5
  <2> QED
    BY <1>12, <2>1 DEF ReadLastTimeout, Only
<1>13. CASE CancelLastTimeout(t)
  BY <1>13, <1>1 DEF CancelLastTimeout, Only
<1>14. CASE AddTimer(t)
  <2>1. PICK info \in Timers : call' = [call EXCEPT ![t].pc = "trigger", ![t].info = info]
    BY <1>14, NewTimer
  <2>2. Only
    BY <2>1, <1>5 DEF Counters
  <2> QED
    BY <1>14, <2>2 DEF AddTimer, Only
<1>15. CASE TriggerAfterAdd(t)
  <2>1. Only
    BY <1>15, <1>1, <1>2 DEF TriggerAfterAdd
  <2> QED
    BY <1>15, <2>1 DEF TriggerAfterAdd, Only
<1>16. CASE SetLastTimeout(t)
  BY <1>16, <1>2 DEF SetLastTimeout, Only
<1> QED
  BY <1>6, <1>7, <1>8, <1>9, <1>10, <1>11, <1>12, <1>13, <1>14, <1>15, <1>16 DEF CallStep

\* The steps of a call, on any thread, keep LoopCalls.
LEMMA LoopCallsCall ==
  ASSUME TypeOK, LoopCalls, NEW t \in Callers, CallStep(t)
  PROVE  LoopCalls'
<1>1. CASE ProcessKilled(t)
  BY <1>1 DEF ProcessKilled, LoopCalls, Callers, NoCall
<1>2. CASE ~ProcessKilled(t)
  BY <1>2, CallOnly DEF LoopCalls, Callers
<1> QED
  BY <1>1, <1>2

LEMMA LoopCallsLoop ==
  ASSUME TypeOK, LoopCalls, LoopStep
  PROVE  LoopCalls'
<1> USE DEF eventVars, daemonVars, clientVars, historyVars, Rest, Fire, LoopCalls
<1>1. CASE CopyReadFds(Closed) /\ Rest
  BY <1>1 DEF CopyReadFds
<1>2. CASE SelectReturns(Ready) /\ Rest
  BY <1>2 DEF SelectReturns
<1>3. CASE processTimeouts /\ Rest
  BY <1>3 DEF processTimeouts
<1>4. CASE FireDone /\ Rest
  BY <1>4 DEF FireDone
<1>5. CASE processWakeupCallback
  BY <1>5 DEF processWakeupCallback
<1>6. CASE FireTimer
  BY <1>6 DEF FireTimer
<1>7. CASE wakeTimeoutCallback
  BY <1>7 DEF wakeTimeoutCallback
<1>8. CASE FreeTimer
  BY <1>8 DEF FreeTimer
<1>9. CASE listenCallback
  BY <1>9 DEF listenCallback
<1>10. CASE listenCallbackRefuses
  BY <1>10 DEF listenCallbackRefuses
<1>11. CASE SendLastNITZ
  BY <1>11 DEF SendLastNITZ, LoopIdle, At
<1>12. CASE FreeLastNITZ
  BY <1>12 DEF FreeLastNITZ, LoopIdle, At
<1>13. CASE processCommandsCallback
  BY <1>13 DEF processCommandsCallback
<1>14. CASE processCommandBuffer
  BY <1>14 DEF processCommandBuffer
<1>15. CASE CommandsRead
  BY <1>15 DEF CommandsRead, LoopIdle, At
<1>16. CASE CloseCommands
  BY <1>16 DEF CloseCommands, LoopIdle, At
<1>17. CASE onCommandsSocketClosed
  BY <1>17 DEF onCommandsSocketClosed
<1>18. CASE CallStep(LoopThread)
  BY <1>18, LoopCallsCall DEF Callers
<1> QED
  BY <1>1, <1>2, <1>3, <1>4, <1>5, <1>6, <1>7, <1>8, <1>9, <1>10, <1>11, <1>12, <1>13, <1>14,
     <1>15, <1>16, <1>17, <1>18 DEF LoopStep

\* What a thread does when it begins a call, or asks that a request be answered.
LEMMA ThreadBegins ==
  ASSUME TypeOK, NEW t \in Threads, RIL_onRequestComplete(t) \/ RIL_onUnsolicitedResponse(t)
  PROVE  /\ call[t].pc = "idle" /\ UNCHANGED <<eventVars, pipe, timedCallback, userParam, firing>>
         /\ \A u \in Callers : u # t => call'[u] = call[u]
         /\ t # LoopThread
<1>1. t # LoopThread
  BY RilDaemonAssumption
<1>2. CASE RIL_onRequestComplete(t)
  BY <1>1, <1>2 DEF RIL_onRequestComplete, At, TypeOK, DaemonTypeOK
<1>3. CASE RIL_onUnsolicitedResponse(t)
  <2>1. PICK msg \in Responses : BeginsCall(t, msg, IF msg = "nitz" THEN calls + 1 ELSE 0)
    BY <1>3 DEF RIL_onUnsolicitedResponse
  <2>2. \A u \in Callers : u # t => call'[u] = call[u]
    BY <2>1 DEF BeginsCall, TypeOK, DaemonTypeOK
  <2> QED
    BY <1>1, <1>3, <2>2 DEF RIL_onUnsolicitedResponse, At
<1> QED
  BY <1>2, <1>3

LEMMA LoopCallsStep == TypeOK /\ LoopCalls /\ [Next]_vars => LoopCalls'
<1> SUFFICES ASSUME TypeOK, LoopCalls, [Next]_vars PROVE LoopCalls'
  OBVIOUS
<1> USE DEF eventVars, daemonVars, clientVars, historyVars
<1>1. CASE UNCHANGED vars
  BY <1>1 DEF vars, LoopCalls
<1>2. CASE RIL_register
  BY <1>2 DEF RIL_register, LoopCalls
<1>3. CASE LoopStep
  BY <1>3, LoopCallsLoop
<1>4. CASE SelectFails(Closed) /\ Rest
  BY <1>4 DEF SelectFails, Rest, LoopCalls
<1>5. ASSUME NEW t \in Threads, CallStep(t) PROVE LoopCalls'
  BY <1>5, LoopCallsCall DEF Callers
<1>6. ASSUME NEW t \in Threads, RIL_onRequestComplete(t) \/ RIL_onUnsolicitedResponse(t)
      PROVE  LoopCalls'
  BY <1>6, ThreadBegins DEF LoopCalls, Callers
<1>7. CASE ClientConnects
  BY <1>7 DEF ClientConnects, LoopCalls
<1>8. CASE ClientSends
  BY <1>8 DEF ClientSends, LoopCalls
<1>9. CASE ClientCloses
  BY <1>9 DEF ClientCloses, LoopCalls
<1>10. CASE Tick /\ Rest
  BY <1>10 DEF Tick, Rest, LoopCalls
<1> QED
  BY <1>1, <1>2, <1>3, <1>4, <1>5, <1>6, <1>7, <1>8, <1>9, <1>10 DEF Next, ThreadStep

-----------------------------------------------------------------------------
(* The timer list. *)

TimersInv == Sorted /\ Distinct

LEMMA TimersSame ==
  ASSUME TimersInv, UNCHANGED <<timer_list, timeout>>
  PROVE  TimersInv'
  BY DEF TimersInv, Sorted, Distinct

LEMMA TimersNone ==
  ASSUME timer_list' = <<>>
  PROVE  TimersInv'
  BY DEF TimersInv, Sorted, Distinct

LEMMA TimersAdd ==
  ASSUME TypeOK, TimersInv, NEW t \in Callers, AddTimer(t)
  PROVE  TimersInv'
<1> DEFINE L == Len(timer_list)
           ticks == IF call[t].msg = "timer" THEN 0 ELSE WAKE_TIMEOUT
<1>1. PICK info \in Timers \ Allocated : ril_timer_add(info, ticks)
  BY NewTimer
<1>2. ticks \in Int
  BY RilEventAssumption, RilDaemonAssumption
<1> HIDE DEF ticks
<1>3. /\ timer_list \in Seq(Timers) /\ L \in Nat /\ DOMAIN timer_list = 1 .. L
      /\ \A i \in 1 .. L : timer_list[i] \in Timers /\ timer_list[i] # info
      /\ timeout \in [Timers -> -1 .. MaxTimeout]
  BY <1>1 DEF TypeOK, LoopTypeOK, Allocated
<1>4. \A i, j \in 1 .. L : i <= j => timeout[timer_list[i]] <= timeout[timer_list[j]]
  BY <1>3 DEF TimersInv, Sorted
<1>5. PICK k \in 1 .. L + 1 :
        /\ timer_list' = InsertAt(timer_list, k, info)
        /\ \A i \in 1 .. L : i < k <=> timeout[timer_list[i]] < ticks
  BY <1>1, <1>2, <1>3, <1>4, TimerAdded
<1>6. /\ timer_list' \in Seq(Timers) /\ Len(timer_list') = L + 1
      /\ \A i \in 1 .. L + 1 :
           timer_list'[i] = IF i < k THEN timer_list[i] ELSE IF i = k THEN info ELSE timer_list[i - 1]
  <2>1. info \in Timers /\ k \in 1 .. Len(timer_list) + 1 /\ timer_list \in Seq(Timers)
    BY <1>1, <1>3, <1>5
  <2>2. /\ InsertAt(timer_list, k, info) \in Seq(Timers)
        /\ Len(InsertAt(timer_list, k, info)) = Len(timer_list) + 1
        /\ \A i \in 1 .. Len(timer_list) + 1 :
             InsertAt(timer_list, k, info)[i] =
               IF i < k THEN timer_list[i] ELSE IF i = k THEN info ELSE timer_list[i - 1]
    BY <2>1, Inserted
  <2> QED
    BY <1>5, <2>2
<1>7. DOMAIN timer_list' = 1 .. L + 1
  BY <1>6
<1>8. timeout' = [timeout EXCEPT ![info] = ticks]
  BY <1>1 DEF ril_timer_add
<1>9. \A i \in 1 .. L : timeout'[timer_list[i]] = timeout[timer_list[i]] /\ timeout[timer_list[i]] \in Int
  <2>1. \A i \in Timers : timeout[i] \in -1 .. MaxTimeout
    BY <1>3
  <2> QED
    BY <1>3, <1>8, <2>1
<1>10. timeout'[info] = ticks
  BY <1>1, <1>3, <1>8
<1> HIDE DEF L
<1> DEFINE old(i) == IF i < k THEN i ELSE i - 1
<1>11. \A i \in 1 .. L + 1 : i # k => old(i) \in 1 .. L /\ timer_list'[i] = timer_list[old(i)]
  BY <1>3, <1>5, <1>6
<1>12. Distinct'
  <2> SUFFICES ASSUME NEW i \in 1 .. L + 1, NEW j \in 1 .. L + 1, timer_list'[i] = timer_list'[j]
               PROVE  i = j
    BY <1>7 DEF Distinct
  <2>1. CASE i = k /\ j = k
    BY <2>1
  <2>2. CASE i = k /\ j # k
    BY <2>2, <1>3, <1>5, <1>6, <1>11
  <2>3. CASE i # k /\ j = k
    BY <2>3, <1>3, <1>5, <1>6, <1>11
  <2>4. CASE i # k /\ j # k
    <3>1. old(i) = old(j)
      BY <2>4, <1>3, <1>11 DEF TimersInv, Distinct
    <3> QED
      BY <2>4, <3>1, <1>3, <1>5
  <2> QED
    BY <2>1, <2>2, <2>3, <2>4
<1>13. Sorted'
  <2> SUFFICES ASSUME NEW i \in 1 .. L + 1, NEW j \in 1 .. L + 1, i <= j
               PROVE  timeout'[timer_list'[i]] <= timeout'[timer_list'[j]]
    BY <1>7 DEF Sorted
  <2>1. timer_list'[k] = info
    BY <1>5, <1>6
  <2>2. CASE i = k /\ j = k
    BY <2>1, <2>2, <1>2, <1>10
  <2>3. CASE i = k /\ j # k
    <3>1. old(j) \in 1 .. L /\ ~(old(j) < k) /\ timer_list'[j] = timer_list[old(j)]
      BY <2>3, <1>3, <1>5, <1>11
    <3> HIDE DEF old
    <3>2. ~(timeout[timer_list[old(j)]] < ticks) /\ timeout[timer_list[old(j)]] \in Int
      BY <3>1, <1>5, <1>9
    <3> QED
      BY <2>1, <2>3, <3>1, <3>2, <1>2, <1>9, <1>10
  <2>4. CASE i # k /\ j = k
    <3>1. old(i) \in 1 .. L /\ old(i) < k /\ timer_list'[i] = timer_list[old(i)]
      BY <2>4, <1>3, <1>5, <1>11
    <3> HIDE DEF old
    <3>2. timeout[timer_list[old(i)]] < ticks /\ timeout[timer_list[old(i)]] \in Int
      BY <3>1, <1>5, <1>9
    <3> QED
      BY <2>1, <2>4, <3>1, <3>2, <1>2, <1>9, <1>10
  <2>5. CASE i # k /\ j # k
    <3>1. old(i) \in 1 .. L /\ old(j) \in 1 .. L /\ old(i) <= old(j)
          /\ timer_list'[i] = timer_list[old(i)] /\ timer_list'[j] = timer_list[old(j)]
      BY <2>5, <1>3, <1>5, <1>11
    <3> HIDE DEF old
    <3> QED
      BY <3>1, <1>4, <1>9
  <2> QED
    BY <2>2, <2>3, <2>4, <2>5
<1> QED
  BY <1>12, <1>13 DEF TimersInv

LEMMA TimersProcessed ==
  ASSUME TypeOK, TimersInv, processTimeouts
  PROVE  TimersInv'
<1> DEFINE L == Len(timer_list)
           E == Expired
<1>1. /\ E \in 0 .. L /\ timer_list' \in Seq(Timers) /\ Len(timer_list') = L - E
      /\ \A i \in 1 .. L - E : timer_list'[i] = timer_list[i + E]
  BY Processed DEF TypeOK
<1>2. L \in Nat /\ DOMAIN timer_list = 1 .. L /\ \A i \in 1 .. L : timer_list[i] \in Timers
  BY DEF TypeOK, LoopTypeOK
<1>3. DOMAIN timer_list' = 1 .. L - E
  BY <1>1
<1>4. timeout' = [t \in Timers |->
                    IF \E i \in 1 .. E : timer_list[i] = t THEN 0 ELSE timeout[t]]
  BY DEF processTimeouts
<1> HIDE DEF L, E
<1>5. ASSUME NEW i \in 1 .. L - E
      PROVE  i + E \in 1 .. L /\ timeout'[timer_list'[i]] = timeout[timer_list[i + E]]
  <2>1. i + E \in 1 .. L /\ \A j \in 1 .. E : j \in 1 .. L /\ j # i + E
    BY <1>1, <1>2
  <2>2. \A j \in 1 .. E : timer_list[j] # timer_list[i + E]
    BY <1>2, <2>1 DEF TimersInv, Distinct
  <2> QED
    BY <1>1, <1>2, <1>4, <2>1, <2>2
<1>6. Sorted'
  <2> SUFFICES ASSUME NEW i \in 1 .. L - E, NEW j \in 1 .. L - E, i <= j
               PROVE  timeout'[timer_list'[i]] <= timeout'[timer_list'[j]]
    BY <1>3 DEF Sorted
  <2>1. i + E <= j + E
    BY <1>1, <1>2
  <2>2. timeout[timer_list[i + E]] <= timeout[timer_list[j + E]]
    BY <1>2, <1>5, <2>1 DEF TimersInv, Sorted
  <2> QED
    BY <1>5, <2>2
<1>7. Distinct'
  <2> SUFFICES ASSUME NEW i \in 1 .. L - E, NEW j \in 1 .. L - E, timer_list'[i] = timer_list'[j]
               PROVE  i = j
    BY <1>3 DEF Distinct
  <2>1. timer_list[i + E] = timer_list[j + E] /\ i + E \in 1 .. L /\ j + E \in 1 .. L
    BY <1>1, <1>5
  <2>2. i + E = j + E
    BY <1>2, <2>1 DEF TimersInv, Distinct
  <2> QED
    BY <1>1, <1>2, <2>2
<1> QED
  BY <1>6, <1>7 DEF TimersInv

\* Time goes by for every timer of the list.
LEMMA TickTimers ==
  ASSUME TypeOK, Tick
  PROVE  /\ UNCHANGED timer_list
         /\ \A i \in DOMAIN timer_list :
              /\ timeout[timer_list[i]] \in -1 .. MaxTimeout
              /\ timeout'[timer_list[i]] = IF timeout[timer_list[i]] > -1
                                           THEN timeout[timer_list[i]] - 1
                                           ELSE timeout[timer_list[i]]
<1>1. \A i \in DOMAIN timer_list : timer_list[i] \in Timers
  BY DEF TypeOK, LoopTypeOK
<1>2. timeout' = [t \in Timers |->
         IF timeout[t] > -1 /\ \E i \in DOMAIN timer_list : timer_list[i] = t
         THEN timeout[t] - 1 ELSE timeout[t]]
  BY DEF Tick
<1>3. \A t \in Timers : timeout[t] \in -1 .. MaxTimeout
  BY DEF TypeOK, LoopTypeOK
<1>4. UNCHANGED timer_list
  BY DEF Tick
<1> QED
  BY <1>1, <1>2, <1>3, <1>4

LEMMA TimersTick ==
  ASSUME TypeOK, TimersInv, Tick
  PROVE  TimersInv'
<1>1. Distinct'
  BY TickTimers DEF TimersInv, Distinct
<1>2. Sorted'
  <2> SUFFICES ASSUME NEW i \in DOMAIN timer_list, NEW j \in DOMAIN timer_list, i <= j
               PROVE  timeout'[timer_list[i]] <= timeout'[timer_list[j]]
    BY TickTimers DEF Sorted
  <2>1. timeout[timer_list[i]] <= timeout[timer_list[j]]
    BY DEF TimersInv, Sorted
  <2> QED
    BY <2>1, TickTimers, RilEventAssumption
<1> QED
  BY <1>1, <1>2 DEF TimersInv

LEMMA TimersCall ==
  ASSUME TypeOK, TimersInv, NEW t \in Callers, CallStep(t)
  PROVE  TimersInv'
<1>1. CASE ProcessKilled(t)
  BY <1>1, TimersNone DEF ProcessKilled
<1>2. CASE AddTimer(t)
  BY <1>2, TimersAdd
<1>3. CASE ~ProcessKilled(t) /\ ~AddTimer(t)
  BY <1>3, CallOnly, TimersSame
<1> QED
  BY <1>1, <1>2, <1>3

\* The steps of the loop itself move no timer but those that expire.
LEMMA LoopTimers ==
  ASSUME LoopStep, ~CallStep(LoopThread)
  PROVE  UNCHANGED <<timer_list, timeout>> \/ processTimeouts
<1> USE DEF eventVars, daemonVars, clientVars, historyVars, Rest, Fire
<1> QED
  BY DEF LoopStep, CopyReadFds, SelectReturns, FireDone, processWakeupCallback, FireTimer,
         wakeTimeoutCallback, FreeTimer, listenCallback, listenCallbackRefuses, SendLastNITZ,
         FreeLastNITZ, processCommandsCallback, processCommandBuffer, CommandsRead,
         CloseCommands, onCommandsSocketClosed

LEMMA TimersStep == TypeOK /\ TimersInv /\ [Next]_vars => TimersInv'
<1> SUFFICES ASSUME TypeOK, TimersInv, [Next]_vars PROVE TimersInv'
  OBVIOUS
<1> USE DEF eventVars, daemonVars, clientVars, historyVars
<1>1. CASE UNCHANGED vars
  BY <1>1, TimersSame DEF vars
<1>2. CASE RIL_register
  BY <1>2, TimersSame DEF RIL_register
<1>3. CASE LoopStep
  <2>1. CASE CallStep(LoopThread)
    BY <2>1, TimersCall DEF Callers
  <2>2. CASE ~CallStep(LoopThread)
    BY <1>3, <2>2, LoopTimers, TimersSame, TimersProcessed
  <2> QED
    BY <2>1, <2>2
<1>4. CASE SelectFails(Closed) /\ Rest
  BY <1>4, TimersSame DEF SelectFails, Rest
<1>5. ASSUME NEW t \in Threads, CallStep(t) PROVE TimersInv'
  BY <1>5, TimersCall DEF Callers
<1>6. ASSUME NEW t \in Threads, RIL_onRequestComplete(t) \/ RIL_onUnsolicitedResponse(t)
      PROVE  TimersInv'
  BY <1>6, ThreadBegins, TimersSame
<1>7. CASE ClientConnects
  BY <1>7, TimersSame DEF ClientConnects
<1>8. CASE ClientSends
  BY <1>8, TimersSame DEF ClientSends
<1>9. CASE ClientCloses
  BY <1>9, TimersSame DEF ClientCloses
<1>10. CASE Tick /\ Rest
  BY <1>10, TimersTick
<1> QED
  BY <1>1, <1>2, <1>3, <1>4, <1>5, <1>6, <1>7, <1>8, <1>9, <1>10 DEF Next, ThreadStep

-----------------------------------------------------------------------------
(* No wakeup is lost. *)

\* Only threads that are at it write to the pipe.
LEMMA WakeupCall ==
  ASSUME TypeOK, TimersInv, LoopCalls, NoLostWakeup, NEW t \in Callers, CallStep(t)
  PROVE  NoLostWakeup'
<1>1. CASE ProcessKilled(t)
  BY <1>1 DEF ProcessKilled, NoLostWakeup
<1>2. CASE ~ProcessKilled(t)
  <2> SUFFICES ASSUME loop' = "select"
               PROVE  \/ pipe' \/ \E u \in Threads : At(u, "trigger")'
                      \/ /\ Watched' \subseteq rfds'
                         /\ \A i \in DOMAIN timer_list' :
                              tv' <= IF timeout'[timer_list'[i]] > 0
                                     THEN timeout'[timer_list'[i]] ELSE 0
    BY DEF NoLostWakeup
  <2>1. /\ loop = "select" /\ call[t].pc # "idle"
        /\ UNCHANGED <<watch_table, rfds, tv>> /\ Watched' = Watched
        /\ \A u \in Callers : u # t => call'[u] = call[u]
        /\ AddTimer(t) \/ UNCHANGED <<timer_list, timeout>>
        /\ TriggerAfterAdd(t) \/ UNCHANGED pipe
    BY <1>2, CallOnly DEF Watched
  <2>2. t \in Threads /\ t # LoopThread
    BY <2>1, RilDaemonAssumption DEF LoopCalls, Callers
  <2>3. CASE AddTimer(t)
    <3>1. PICK info \in Timers : call' = [call EXCEPT ![t].pc = "trigger", ![t].info = info]
      BY <2>3, NewTimer
    <3>2. call'[t].pc = "trigger"
      BY <3>1, GoesWithTyped DEF TypeOK, DaemonTypeOK, Counters
    <3> QED
      BY <2>2, <3>2 DEF At
  <2>4. CASE TriggerAfterAdd(t)
    BY <2>2, <2>4 DEF TriggerAfterAdd, triggerEvLoop
  <2>5. CASE ~AddTimer(t) /\ ~TriggerAfterAdd(t)
    <3>1. call[t].pc # "trigger"
      BY <1>2, <2>5 DEF CallStep, At, error_exit, sendResponseRaw, blockingWrite, WriteFails,
                        CloseAfterWrite, StoreNITZ, ReadLastTimeout, CancelLastTimeout,
                        SetLastTimeout
    <3>2. UNCHANGED <<timer_list, timeout, pipe>>
      BY <2>1, <2>5
    <3>3. ASSUME NEW u \in Threads, At(u, "trigger") PROVE At(u, "trigger")'
      BY <2>1, <3>1, <3>3 DEF At, Callers
    <3> QED
      BY <2>1, <3>2, <3>3 DEF NoLostWakeup
  <2> QED
    BY <2>3, <2>4, <2>5
<1> QED
  BY <1>1, <1>2

\* The loop goes to wait when it has looked at everything.
LEMMA WakeupCopy ==
  ASSUME TypeOK, TimersInv, CopyReadFds(Closed)
  PROVE  NoLostWakeup'
<1>1. /\ rfds' = Watched /\ tv' = calcNextTimeout /\ UNCHANGED <<watch_table, timer_list, timeout>>
      /\ Watched' = Watched
  BY DEF CopyReadFds, Watched
<1>2. ASSUME NEW i \in DOMAIN timer_list
      PROVE  calcNextTimeout <= IF timeout[timer_list[i]] > 0 THEN timeout[timer_list[i]] ELSE 0
  <2>1. /\ timer_list # <<>> /\ Head(timer_list) = timer_list[1] /\ 1 \in DOMAIN timer_list
        /\ 1 <= i /\ timer_list[1] \in Timers /\ timer_list[i] \in Timers
    BY DEF TypeOK, LoopTypeOK
  <2>2. timeout[timer_list[1]] <= timeout[timer_list[i]]
    BY <2>1 DEF TimersInv, Sorted
  <2>3. timeout[timer_list[1]] \in Int /\ timeout[timer_list[i]] \in Int
    <3>1. \A t \in Timers : timeout[t] \in -1 .. MaxTimeout
      BY DEF TypeOK, LoopTypeOK
    <3> QED
      BY <2>1, <3>1
  <2>4. calcNextTimeout = IF timeout[timer_list[1]] > 0 THEN timeout[timer_list[1]] ELSE 0
    BY <2>1 DEF calcNextTimeout
  <2> QED
    BY <2>2, <2>3, <2>4
<1> QED
  BY <1>1, <1>2 DEF NoLostWakeup

\* Time goes by for select as for the timers.
LEMMA WakeupTick ==
  ASSUME TypeOK, NoLostWakeup, Tick, Rest
  PROVE  NoLostWakeup'
<1>1. /\ UNCHANGED <<watch_table, rfds, loop, pipe, call, timer_list>> /\ Watched' = Watched
  BY DEF Tick, Rest, daemonVars, Watched
<1>2. ASSUME loop = "select", NEW i \in DOMAIN timer_list,
             tv <= IF timeout[timer_list[i]] > 0 THEN timeout[timer_list[i]] ELSE 0
      PROVE  tv' <= IF timeout'[timer_list'[i]] > 0 THEN timeout'[timer_list'[i]] ELSE 0
  <2> DEFINE x == timeout[timer_list[i]]
             y == timeout'[timer_list[i]]
  <2>1. x \in -1 .. MaxTimeout /\ y = IF x > -1 THEN x - 1 ELSE x
    BY TickTimers
  <2>2. tv \in 0 .. MaxTimeout + 1 /\ tv' = IF tv \in 1 .. MaxTimeout THEN tv - 1 ELSE tv
    BY <1>2 DEF Tick, TypeOK, LoopTypeOK, Forever
  <2>3. tv <= IF x > 0 THEN x ELSE 0
    BY <1>2
  <2> HIDE DEF x, y
  <2>4. tv' <= IF y > 0 THEN y ELSE 0
    BY <2>1, <2>2, <2>3, RilEventAssumption
  <2> QED
    BY <1>1, <2>4 DEF y
<1>3. CASE loop = "select" /\ ~pipe /\ ~\E t \in Threads : At(t, "trigger")
  <2>1. /\ Watched \subseteq rfds
        /\ \A i \in DOMAIN timer_list :
             tv <= IF timeout[timer_list[i]] > 0 THEN timeout[timer_list[i]] ELSE 0
    BY <1>3 DEF NoLostWakeup
  <2>2. \A i \in DOMAIN timer_list :
          tv' <= IF timeout'[timer_list'[i]] > 0 THEN timeout'[timer_list'[i]] ELSE 0
    BY <1>2, <1>3, <2>1
  <2> QED
    BY <1>1, <2>1, <2>2 DEF NoLostWakeup
<1> QED
  BY <1>1, <1>3 DEF NoLostWakeup, At

LEMMA WakeupSame ==
  ASSUME NoLostWakeup, UNCHANGED <<eventVars, pipe, call>>
  PROVE  NoLostWakeup'
  BY DEF NoLostWakeup, eventVars, Watched, At

\* The loop goes to wait in no other way.
LEMMA LoopWaits ==
  ASSUME LoopStep, ~CallStep(LoopThread)
  PROVE  \/ loop' # "select" \/ CopyReadFds(Closed)
         \/ processCommandBuffer /\ loop = "commands"
<1> USE DEF eventVars, daemonVars, clientVars, historyVars, Rest, Fire
<1> QED
  BY DEF LoopStep, CopyReadFds, SelectReturns, processTimeouts, FireDone, processWakeupCallback,
         FireTimer, wakeTimeoutCallback, FreeTimer, listenCallback, listenCallbackRefuses,
         SendLastNITZ, FreeLastNITZ, processCommandsCallback, processCommandBuffer, CommandsRead,
         CloseCommands, onCommandsSocketClosed

LEMMA WakeupStep ==
  TypeOK /\ TimersInv /\ LoopCalls /\ NoLostWakeup /\ [Next]_vars => NoLostWakeup'
<1> SUFFICES ASSUME TypeOK, TimersInv, LoopCalls, NoLostWakeup, [Next]_vars PROVE NoLostWakeup'
  OBVIOUS
<1>1. CASE UNCHANGED vars
  BY <1>1, WakeupSame DEF vars, daemonVars
<1>2. CASE RIL_register
  BY <1>2 DEF RIL_register, rilEventAddWakeup, triggerEvLoop, NoLostWakeup
<1>3. CASE LoopStep
  <2>1. CASE CallStep(LoopThread)
    BY <2>1, WakeupCall DEF Callers
  <2>2. CASE ~CallStep(LoopThread)
    <3>1. CASE CopyReadFds(Closed)
      BY <3>1, WakeupCopy
    <3>2. CASE processCommandBuffer /\ loop = "commands"
      BY <3>2 DEF processCommandBuffer, eventVars, NoLostWakeup
    <3> QED
      BY <1>3, <2>2, <3>1, <3>2, LoopWaits DEF NoLostWakeup
  <2> QED
    BY <2>1, <2>2
<1>4. CASE SelectFails(Closed) /\ Rest
  BY <1>4 DEF SelectFails, NoLostWakeup
<1>5. ASSUME NEW t \in Threads, CallStep(t) PROVE NoLostWakeup'
  BY <1>5, WakeupCall DEF Callers
<1>6. ASSUME NEW t \in Threads, RIL_onRequestComplete(t) \/ RIL_onUnsolicitedResponse(t)
      PROVE  NoLostWakeup'
  <2>1. /\ call[t].pc = "idle" /\ UNCHANGED <<eventVars, pipe>>
        /\ \A u \in Callers : u # t => call'[u] = call[u]
    BY <1>6, ThreadBegins
  <2>2. ASSUME NEW u \in Threads, At(u, "trigger") PROVE At(u, "trigger")'
    BY <2>1, <2>2 DEF At, Callers
  <2> QED
    BY <2>1, <2>2 DEF NoLostWakeup, eventVars, Watched
<1>7. CASE ClientConnects
  BY <1>7, WakeupSame DEF ClientConnects, daemonVars
<1>8. CASE ClientSends
  BY <1>8, WakeupSame DEF ClientSends, daemonVars
<1>9. CASE ClientCloses
  BY <1>9, WakeupSame DEF ClientCloses, daemonVars
<1>10. CASE Tick /\ Rest
  BY <1>10, WakeupTick
<1> QED
  BY <1>1, <1>2, <1>3, <1>4, <1>5, <1>6, <1>7, <1>8, <1>9, <1>10 DEF Next, ThreadStep

LEMMA WakeupInit == Init => TimersInv /\ LoopCalls /\ NoLostWakeup
  BY DEF Init, TimersInv, Sorted, Distinct, LoopCalls, Callers, NoCall, NoLostWakeup

\* The loop never waits for what was added without its knowledge: select is about
\* to return for it, the pipe has a byte, or a thread is about to write one.
THEOREM WakeupsKept == Spec => []NoLostWakeup
<1>1. TypeOK /\ TimersInv /\ LoopCalls /\ NoLostWakeup /\ [Next]_vars
        => (TimersInv /\ LoopCalls /\ NoLostWakeup)'
  BY TimersStep, LoopCallsStep, WakeupStep
<1> QED
  BY <1>1, WakeupInit, RilTypeCorrect, PTL DEF Spec

-----------------------------------------------------------------------------
(* The wake lock. *)

Listed(info) == \E i \in DOMAIN timer_list : timer_list[i] = info

\* The timer is to release the wake lock.
Releases(info) ==
  timedCallback[info] = "wake" /\ ~userParam[info] /\ (info = firing => loop = "timer")

LEMMA AllocatedIs ==
  \A info : info \in Allocated <=> info \in Timers /\ (Listed(info) \/ Pends(info) \/ info = firing)
  BY DEF Allocated, Listed, Pends

\* Who was to release the lock still is.
LEMMA LockCarried ==
  ASSUME WakeLockCovered, wakeLock' /\ ~inherited' => wakeLock /\ ~inherited,
         \A t \in Callers : HoldsForResponse(t) => HoldsForResponse(t)',
         \A info \in Allocated : Releases(info) => info \in Allocated' /\ Releases(info)'
  PROVE  WakeLockCovered'
  BY DEF WakeLockCovered, Releases

\* A step of the loop's that starts, ends and frees no timer.
LEMMA LockLoop ==
  ASSUME WakeLockCovered, wakeLock' /\ ~inherited' => wakeLock /\ ~inherited,
         \A t \in Callers : HoldsForResponse(t) => HoldsForResponse(t)',
         UNCHANGED <<timedCallback, userParam, firing>>, loop = loop' \/ loop # "timer",
         \A info \in Timers :
           Listed(info) \/ Pends(info) => Listed(info)' \/ Pends(info)'
  PROVE  WakeLockCovered'
<1>1. ASSUME NEW info \in Allocated, Releases(info)
      PROVE  info \in Allocated' /\ Releases(info)'
  <2>1. info \in Timers /\ (Listed(info) \/ Pends(info) \/ info = firing)
    BY AllocatedIs
  <2>2. Listed(info)' \/ Pends(info)' \/ info = firing'
    BY <2>1
  <2>3. info \in Allocated'
    BY <2>1, <2>2 DEF Allocated, Listed, Pends
  <2>4. Releases(info)'
    BY <1>1 DEF Releases
  <2> QED
    BY <2>3, <2>4
<1> QED
  BY <1>1, LockCarried

\* What a step of a call makes of the call.
LEMMA GoesCall ==
  ASSUME TypeOK, NEW t \in Callers, NEW pc, Goes(t, pc)
  PROVE  call'[t].pc = pc /\ call'[t].msg = call[t].msg
  BY DEF Goes, TypeOK, DaemonTypeOK, Calls

LEMMA SchedulesCall ==
  ASSUME TypeOK, NEW t \in Callers, NEW msg, Schedules(t, msg)
  PROVE  /\ call'[t].msg = "none"
         /\ call'[t].pc = IF msg \in WakePartial THEN "cancel" ELSE "idle"
  BY DEF Schedules, Returns, NoCall, TypeOK, DaemonTypeOK, Calls

LEMMA AfterSendCall ==
  ASSUME TypeOK, NEW t \in Callers, NEW ok, AfterSend(t, ok)
  PROVE  \/ call'[t].pc = "store" /\ call'[t].msg = "nitz" /\ call[t].msg = "nitz"
         \/ /\ call'[t].msg = "none"
            /\ call'[t].pc = IF call[t].msg \in WakePartial THEN "cancel" ELSE "idle"
<1>1. CASE call[t].msg = "nitz" /\ ~ok
  BY <1>1, GoesCall DEF AfterSend
<1>2. CASE ~(call[t].msg = "nitz" /\ ~ok)
  BY <1>2, SchedulesCall DEF AfterSend
<1> QED
  BY <1>1, <1>2

LEMMA CallsMatchOne ==
  ASSUME CallsMatch, NEW t \in Callers, \A u \in Callers : u # t => call'[u] = call[u],
         call'[t].pc = "store" => call'[t].msg = "nitz",
         call'[t].pc \in {"cancel", "mark"} => call'[t].msg # "timer"
  PROVE  CallsMatch'
  BY DEF CallsMatch

\* A call that goes on to hold the lock if it does, and touches no timer.
LEMMA LockOne ==
  ASSUME TypeOK, CallsMatch, WakeLockCovered, NEW t \in Callers, CallStep(t), ~ProcessKilled(t),
         UNCHANGED <<wakeLock, inherited, timer_list, timedCallback, userParam>>,
         HoldsForResponse(t) => HoldsForResponse(t)',
         call'[t].pc = "store" => call'[t].msg = "nitz",
         call'[t].pc \in {"cancel", "mark"} => call'[t].msg # "timer"
  PROVE  CallsMatch' /\ WakeLockCovered'
<1>1. /\ \A u \in Callers : u # t => call'[u] = call[u]
      /\ UNCHANGED <<loop, pending_list, firing>>
  BY CallOnly
<1>2. CallsMatch'
  BY <1>1, CallsMatchOne
<1>3. \A u \in Callers : HoldsForResponse(u) => HoldsForResponse(u)'
  BY <1>1 DEF HoldsForResponse
<1>4. \A info \in Timers : Listed(info) \/ Pends(info) => Listed(info)' \/ Pends(info)'
  BY <1>1 DEF Listed, Pends
<1>5. WakeLockCovered'
  BY <1>1, <1>3, <1>4, LockLoop
<1> QED
  BY <1>2, <1>5

LEMMA LockCall ==
  ASSUME TypeOK, CallsMatch, WakeLockCovered, NEW t \in Callers, CallStep(t)
  PROVE  CallsMatch' /\ WakeLockCovered'
<1> USE DEF eventVars, daemonVars, clientVars, historyVars, At
<1>1. CASE ProcessKilled(t)
  BY <1>1 DEF ProcessKilled, CallsMatch, WakeLockCovered, NoCall
<1> SUFFICES ASSUME ~ProcessKilled(t) PROVE CallsMatch' /\ WakeLockCovered'
  BY <1>1
<1>2. CASE error_exit(t)
  <2>1. call'[t] = NoCall /\ ~wakeLock'
    BY <1>2 DEF error_exit, Returns, releaseWakeLock, TypeOK, DaemonTypeOK
  <2>2. CallsMatch'
    BY <2>1, CallOnly, CallsMatchOne DEF NoCall
  <2> QED
    BY <2>1, <2>2 DEF WakeLockCovered
<1>3. CASE sendResponseRaw(t)
  <2>1. CASE s_fdCommand
    BY <1>3, <2>1, GoesCall, LockOne DEF sendResponseRaw, HoldsForResponse
  <2>2. CASE ~s_fdCommand
    BY <1>3, <2>2, AfterSendCall, LockOne DEF sendResponseRaw, HoldsForResponse
  <2> QED
    BY <2>1, <2>2
<1>4. CASE blockingWrite(t)
  BY <1>4, AfterSendCall, LockOne DEF blockingWrite, HoldsForResponse
<1>5. CASE WriteFails(t)
  BY <1>5, GoesCall, LockOne DEF WriteFails, HoldsForResponse
<1>6. CASE CloseAfterWrite(t)
  BY <1>6, AfterSendCall, LockOne DEF CloseAfterWrite, HoldsForResponse
<1>7. CASE StoreNITZ(t)
  BY <1>7, SchedulesCall, LockOne DEF StoreNITZ, HoldsForResponse, CallsMatch
<1>8. CASE ReadLastTimeout(t)
  <2> DEFINE pc == IF s_last_wake_timeout_info = NoEvent THEN "add" ELSE "mark"
  <2>1. call'[t].pc = pc /\ call'[t].msg = call[t].msg
    <3>1. /\ pc \in Counters /\ s_last_wake_timeout_info \in Timers \cup {NoEvent}
          /\ call \in [Callers -> Calls]
      BY DEF Counters, TypeOK, DaemonTypeOK
    <3>2. call' = [call EXCEPT ![t].info = s_last_wake_timeout_info, ![t].pc = pc]
      BY <1>8 DEF ReadLastTimeout
    <3> HIDE DEF pc
    <3> QED
      BY <3>1, <3>2, GoesWithTyped
  <2>2. pc \in {"add", "mark"} /\ call[t].pc = "cancel"
    BY <1>8 DEF ReadLastTimeout
  <2> HIDE DEF pc
  <2>3. UNCHANGED <<wakeLock, inherited, timer_list, timedCallback, userParam>>
    BY <1>8 DEF ReadLastTimeout
  <2>4. call[t].msg # "timer"
    BY <2>2 DEF CallsMatch
  <2> QED
    BY <2>1, <2>2, <2>3, <2>4, LockOne DEF HoldsForResponse
<1>9. CASE CancelLastTimeout(t)
  <2>1. call'[t].pc = "add" /\ call'[t].msg # "timer"
    BY <1>9, GoesCall DEF CancelLastTimeout, CallsMatch
  <2>2. CallsMatch'
    BY <2>1, CallOnly, CallsMatchOne
  <2> QED
    BY <2>1, <2>2 DEF WakeLockCovered, HoldsForResponse
<1>10. CASE AddTimer(t)
  <2>1. PICK info \in Timers \ Allocated :
           /\ userParam' = [userParam EXCEPT ![info] = FALSE]
           /\ timedCallback' = [timedCallback EXCEPT
                                  ![info] = IF call[t].msg = "timer" THEN "user" ELSE "wake"]
           /\ ril_timer_add(info, IF call[t].msg = "timer" THEN 0 ELSE WAKE_TIMEOUT)
           /\ call' = [call EXCEPT ![t].pc = "trigger", ![t].info = info]
    BY <1>10, NewTimer
  <2>2. call'[t].pc = "trigger"
    <3>1. info \in Timers /\ call' = [call EXCEPT ![t].pc = "trigger", ![t].info = info]
      BY <2>1
    <3> QED
      BY <3>1, GoesWithTyped DEF TypeOK, DaemonTypeOK, Counters
  <2>3. CallsMatch'
    BY <2>2, CallOnly, CallsMatchOne
  <2>4. Listed(info)' /\ \A other \in Timers : Listed(other) => Listed(other)'
    <3> DEFINE ticks == IF call[t].msg = "timer" THEN 0 ELSE WAKE_TIMEOUT
    <3>1. ticks \in Int /\ ril_timer_add(info, ticks)
      BY <2>1, RilEventAssumption, RilDaemonAssumption
    <3> HIDE DEF ticks
    <3>2. PICK k \in 1 .. Len(timer_list) + 1 : timer_list' = InsertAt(timer_list, k, info)
      BY <2>1, <3>1, TimerAdded DEF TypeOK, LoopTypeOK
    <3> DEFINE L == Len(timer_list)
    <3>3. timer_list \in Seq(Timers) /\ L \in Nat /\ DOMAIN timer_list = 1 .. L /\ k \in 1 .. L + 1
          /\ info \in Timers
      BY <2>1 DEF TypeOK, LoopTypeOK
    <3>4. /\ timer_list' \in Seq(Timers) /\ Len(timer_list') = L + 1 /\ timer_list'[k] = info
          /\ \A i \in 1 .. L + 1 :
               timer_list'[i] = IF i < k THEN timer_list[i] ELSE IF i = k THEN info
                                ELSE timer_list[i - 1]
      <4> HIDE DEF L
      <4>1. k \in 1 .. Len(timer_list) + 1 /\ info \in Timers /\ timer_list \in Seq(Timers)
        BY <3>3 DEF L
      <4>2. /\ InsertAt(timer_list, k, info) \in Seq(Timers)
            /\ Len(InsertAt(timer_list, k, info)) = Len(timer_list) + 1
            /\ \A i \in 1 .. Len(timer_list) + 1 :
                 InsertAt(timer_list, k, info)[i] =
                   IF i < k THEN timer_list[i] ELSE IF i = k THEN info ELSE timer_list[i - 1]
        BY <4>1, Inserted
      <4> QED
        BY <3>2, <3>3, <4>2 DEF L
    <3>5. DOMAIN timer_list' = 1 .. L + 1
      BY <3>4
    <3> HIDE DEF L
    <3>6. ASSUME NEW i \in 1 .. L PROVE \E j \in 1 .. L + 1 : timer_list'[j] = timer_list[i]
      <4>1. CASE i < k
        <5>1. i \in 1 .. L + 1 /\ timer_list'[i] = timer_list[i]
          BY <3>3, <3>4, <4>1
        <5> QED
          BY <5>1
      <4>2. CASE ~(i < k)
        <5>1. /\ i + 1 \in 1 .. L + 1 /\ ~(i + 1 < k) /\ i + 1 # k /\ i + 1 - 1 = i
          BY <3>3, <4>2
        <5>2. timer_list'[i + 1] = timer_list[i]
          BY <3>4, <5>1
        <5> QED
          BY <5>1, <5>2
      <4> QED
        BY <4>1, <4>2
    <3> QED
      BY <3>3, <3>4, <3>5, <3>6 DEF Listed
  <2>5. /\ \A u \in Callers : u # t => call'[u] = call[u]
        /\ UNCHANGED <<loop, pending_list, firing>>
    BY CallOnly
  <2>6. info # firing /\ UNCHANGED <<wakeLock, inherited>>
    BY <1>10, <2>1, AllocatedIs DEF AddTimer
  <2>7. CASE call[t].msg = "timer"
    <3>1. \A u \in Callers : HoldsForResponse(u) => HoldsForResponse(u)'
      BY <1>10, <2>5, <2>7 DEF HoldsForResponse, AddTimer
    <3>2. ASSUME NEW other \in Allocated, Releases(other)
          PROVE  other \in Allocated' /\ Releases(other)'
      <4>1. other # info /\ other \in Timers
        BY <2>1, AllocatedIs
      <4>2. other \in Allocated'
        <5>1. Listed(other)' \/ Pends(other)' \/ other = firing'
          BY <2>4, <2>5, <4>1, AllocatedIs DEF Pends
        <5> QED
          BY <4>1, <5>1 DEF Allocated, Listed, Pends
      <4>3. Releases(other)'
        BY <2>1, <2>5, <3>2, <4>1 DEF Releases, TypeOK, DaemonTypeOK
      <4> QED
        BY <4>2, <4>3
    <3> QED
      BY <2>3, <2>6, <3>1, <3>2, LockCarried
  <2>8. CASE call[t].msg # "timer"
    <3>1. timedCallback'[info] = "wake" /\ ~userParam'[info] /\ info # firing'
      BY <2>1, <2>5, <2>6, <2>8 DEF TypeOK, DaemonTypeOK
    <3>2. info \in Allocated'
      BY <2>1, <2>4 DEF Allocated, Listed
    <3> QED
      BY <2>3, <3>1, <3>2 DEF WakeLockCovered
  <2> QED
    BY <2>7, <2>8
<1>11. CASE TriggerAfterAdd(t)
  <2>1. call'[t].pc \in {"idle", "assign"}
    <3>1. CASE call[t].msg = "timer"
      BY <1>11, <3>1 DEF TriggerAfterAdd, Returns, NoCall, TypeOK, DaemonTypeOK
    <3>2. CASE call[t].msg # "timer"
      BY <1>11, <3>2, GoesCall DEF TriggerAfterAdd
    <3> QED
      BY <3>1, <3>2
  <2> QED
    BY <1>11, <2>1, LockOne DEF TriggerAfterAdd, HoldsForResponse
<1>12. CASE SetLastTimeout(t)
  <2>1. call'[t].pc = "idle"
    BY <1>12 DEF SetLastTimeout, Returns, NoCall, TypeOK, DaemonTypeOK
  <2> QED
    BY <1>12, <2>1, LockOne DEF SetLastTimeout, HoldsForResponse
<1> QED
  BY <1>2, <1>3, <1>4, <1>5, <1>6, <1>7, <1>8, <1>9, <1>10, <1>11, <1>12 DEF CallStep

LEMMA LockListsSame ==
  UNCHANGED <<timer_list, pending_list>> =>
    \A info \in Timers : Listed(info) \/ Pends(info) => Listed(info)' \/ Pends(info)'
  BY DEF Listed, Pends

\* An event that is no timer fires.
LEMMA LockListsFired ==
  ASSUME TypeOK, LinkInv, NEW ev \in FdEvents, NEW to, Fire(ev, to)
  PROVE  \A info \in Timers : Listed(info) \/ Pends(info) => Listed(info)' \/ Pends(info)'
<1>1. UNCHANGED timer_list /\ \A other : Pends(other) => Pends(other)' \/ other = ev
  BY Fired DEF LinkInv, Fire
<1> QED
  BY <1>1, LinkNames DEF Listed

\* The timers that expire go from one list to the other.
LEMMA LockListsProcessed ==
  ASSUME TypeOK, processTimeouts
  PROVE  \A info \in Timers : Listed(info) \/ Pends(info) => Listed(info)' \/ Pends(info)'
<1> DEFINE L == Len(timer_list)
           N == Len(pending_list)
           E == Expired
           R == Len(ReadReadies)
<1>1. /\ E \in 0 .. L /\ timer_list' \in Seq(Timers) /\ Len(timer_list') = L - E
      /\ \A i \in 1 .. L - E : timer_list'[i] = timer_list[i + E]
      /\ pending_list' \in Seq(FdEvents \cup Timers) /\ ReadReadies \in Seq(FdEvents)
      /\ Len(pending_list') = N + E + R
      /\ \A i \in 1 .. N : pending_list'[i] = pending_list[i]
      /\ \A i \in 1 .. E : pending_list'[N + i] = timer_list[i]
  BY Processed DEF TypeOK
<1>2. /\ L \in Nat /\ N \in Nat /\ R \in Nat
      /\ DOMAIN timer_list = 1 .. L /\ DOMAIN pending_list = 1 .. N
      /\ DOMAIN timer_list' = 1 .. L - E /\ DOMAIN pending_list' = 1 .. N + E + R
  BY <1>1 DEF TypeOK, LoopTypeOK
<1> HIDE DEF L, N, E, R
<1>3. ASSUME NEW info, Pends(info) PROVE Pends(info)'
  <2>1. PICK i \in 1 .. N : pending_list[i] = info
    BY <1>2, <1>3 DEF Pends
  <2>2. i \in 1 .. N + E + R /\ pending_list'[i] = info
    BY <1>1, <1>2, <2>1
  <2> QED
    BY <1>2, <2>2 DEF Pends
<1>4. ASSUME NEW info, Listed(info) PROVE Listed(info)' \/ Pends(info)'
  <2>1. PICK i \in 1 .. L : timer_list[i] = info
    BY <1>2, <1>4 DEF Listed
  <2>2. CASE i <= E
    <3>1. i \in 1 .. E /\ N + i \in 1 .. N + E + R
      BY <1>1, <1>2, <2>2
    <3>2. pending_list'[N + i] = info
      BY <1>1, <2>1, <3>1
    <3> QED
      BY <1>2, <3>1, <3>2 DEF Pends
  <2>3. CASE ~(i <= E)
    <3>1. i - E \in 1 .. L - E /\ (i - E) + E = i
      BY <1>1, <1>2, <2>3
    <3>2. timer_list'[i - E] = info
      BY <1>1, <2>1, <3>1
    <3> QED
      BY <1>2, <3>1, <3>2 DEF Listed
  <2> QED
    BY <2>2, <2>3
<1> QED
  BY <1>3, <1>4

\* A response that begins holds the lock if it took it.
LEMMA LockBegins ==
  ASSUME TypeOK, CallsMatch, WakeLockCovered, NEW t \in Callers, call[t].pc = "idle",
         NEW msg, NEW n, BeginsCall(t, msg, n),
         UNCHANGED <<timedCallback, userParam, firing>>, loop = loop' \/ loop # "timer",
         \A info \in Timers : Listed(info) \/ Pends(info) => Listed(info)' \/ Pends(info)'
  PROVE  CallsMatch' /\ WakeLockCovered'
<1> DEFINE pc == IF msg = "timer" THEN "add" ELSE "send"
<1>1. /\ \A u \in Callers : u # t => call'[u] = call[u]
      /\ \/ call'[t].pc = pc /\ call'[t].msg = msg
         \/ msg \in WakePartial /\ call'[t].pc = "error"
  BY DEF BeginsCall, NoCall, TypeOK, DaemonTypeOK
<1>2. CallsMatch'
  BY <1>1, CallsMatchOne
<1>3. CASE msg \in WakePartial
  <2>1. msg # "timer"
    BY <1>3, RilDaemonAssumption
  <2>2. HoldsForResponse(t)'
    BY <1>1, <1>3, <2>1 DEF HoldsForResponse
  <2> QED
    BY <1>2, <2>2 DEF WakeLockCovered
<1>4. CASE msg \notin WakePartial
  <2>1. UNCHANGED <<wakeLock, inherited>>
    BY <1>4 DEF BeginsCall, TypeOK, WorldTypeOK
  <2>2. \A u \in Callers : HoldsForResponse(u) => HoldsForResponse(u)'
    BY <1>1 DEF HoldsForResponse
  <2> QED
    BY <1>2, <2>1, <2>2, LockLoop
<1> QED
  BY <1>3, <1>4

LEMMA LockStepLoop ==
  ASSUME TypeOK, LinkInv, LoopCalls, CallsMatch, WakeLockCovered, LoopStep
  PROVE  CallsMatch' /\ WakeLockCovered'
<1> USE DEF eventVars, daemonVars, clientVars, historyVars, Rest
<1>19. ASSUME UNCHANGED call
       PROVE  CallsMatch' /\ \A u \in Callers : HoldsForResponse(u) => HoldsForResponse(u)'
  BY <1>19 DEF CallsMatch, HoldsForResponse
<1>20. "wakeup" \in FdEvents /\ "listen" \in FdEvents /\ "commands" \in FdEvents
  BY LinkNames
<1>21. LoopThread \in Callers
  BY DEF Callers
<1>1. CASE CopyReadFds(Closed) /\ Rest
  BY <1>1, <1>19, LockListsSame, LockLoop DEF CopyReadFds
<1>2. CASE SelectReturns(Ready) /\ Rest
  BY <1>2, <1>19, LockListsSame, LockLoop DEF SelectReturns
<1>3. CASE processTimeouts /\ Rest
  <2>1. \A info \in Timers : Listed(info) \/ Pends(info) => Listed(info)' \/ Pends(info)'
    BY <1>3, LockListsProcessed
  <2>2. UNCHANGED <<call, wakeLock, inherited, timedCallback, userParam, firing>> /\ loop # "timer"
    BY <1>3 DEF processTimeouts
  <2> QED
    BY <2>1, <2>2, <1>19, LockLoop
<1>4. CASE FireDone /\ Rest
  BY <1>4, <1>19, LockListsSame, LockLoop DEF FireDone
<1>5. CASE processWakeupCallback
  <2>1. \A info \in Timers : Listed(info) \/ Pends(info) => Listed(info)' \/ Pends(info)'
    BY <1>5, <1>20, LockListsFired DEF processWakeupCallback
  <2>2. UNCHANGED <<call, wakeLock, inherited, timedCallback, userParam, firing>> /\ loop # "timer"
    BY <1>5 DEF processWakeupCallback, Fire
  <2> QED
    BY <2>1, <2>2, <1>19, LockLoop
<1>6. CASE FireTimer
  <2>1. PICK info \in Timers : Fire(info, "timer") /\ firing' = info
    BY <1>6 DEF FireTimer
  <2>2. UNCHANGED <<call, wakeLock, inherited, timedCallback, userParam, timer_list>>
        /\ loop = "fire" /\ loop' = "timer"
    BY <1>6, <2>1 DEF FireTimer, Fire
  <2>3. \A other : Pends(other) => Pends(other)' \/ other = info
    BY <2>1, Fired DEF LinkInv
  <2>4. ASSUME NEW other \in Allocated, Releases(other)
        PROVE  other \in Allocated' /\ Releases(other)'
    <3>1. other \in Timers /\ (Listed(other) \/ Pends(other)) /\ other # firing
      BY <2>2, <2>4, AllocatedIs DEF Releases
    <3>2. Listed(other)' \/ Pends(other)' \/ other = firing'
      BY <2>1, <2>2, <2>3, <3>1 DEF Listed
    <3>3. other \in Allocated'
      BY <3>1, <3>2 DEF Allocated, Listed, Pends
    <3> QED
      BY <2>2, <2>4, <3>3 DEF Releases
  <2> QED
    BY <2>2, <2>4, <1>19, LockCarried
<1>7. CASE wakeTimeoutCallback
  <2>1. UNCHANGED <<call, inherited, timedCallback, userParam, timer_list, pending_list, firing>>
        /\ loop = "timer" /\ loop' = "free"
    BY <1>7 DEF wakeTimeoutCallback
  <2>2. CASE timedCallback[firing] = "wake" /\ ~userParam[firing]
    BY <1>7, <2>1, <2>2, <1>19 DEF wakeTimeoutCallback, releaseWakeLock, WakeLockCovered
  <2>3. CASE ~(timedCallback[firing] = "wake" /\ ~userParam[firing])
    <3>1. UNCHANGED wakeLock
      BY <1>7, <2>3 DEF wakeTimeoutCallback
    <3>2. ASSUME NEW other \in Allocated, Releases(other)
          PROVE  other \in Allocated' /\ Releases(other)'
      <4>1. other # firing
        BY <2>3, <3>2 DEF Releases
      <4> QED
        BY <2>1, <3>2, <4>1 DEF Releases, Allocated
    <3> QED
      BY <2>1, <3>1, <3>2, <1>19, LockCarried
  <2> QED
    BY <2>2, <2>3
<1>8. CASE FreeTimer
  <2>1. /\ UNCHANGED <<call, wakeLock, inherited, timer_list, pending_list>>
        /\ loop = "free" /\ firing' = NoEvent
        /\ userParam' = [userParam EXCEPT ![firing] = FALSE]
        /\ timedCallback' = [timedCallback EXCEPT ![firing] = "user"]
    BY <1>8 DEF FreeTimer
  <2>2. ASSUME NEW other \in Allocated, Releases(other)
        PROVE  other \in Allocated' /\ Releases(other)'
    <3>1. other # firing /\ other \in Timers /\ (Listed(other) \/ Pends(other))
      BY <2>1, <2>2, AllocatedIs DEF Releases
    <3>2. other \in Allocated'
      BY <2>1, <3>1 DEF Allocated, Listed, Pends
    <3>3. Releases(other)'
      BY <2>1, <2>2, <3>1, LinkNames DEF Releases, TypeOK, DaemonTypeOK
    <3> QED
      BY <3>2, <3>3
  <2> QED
    BY <2>1, <2>2, <1>19, LockCarried
<1>9. CASE listenCallback
  <2>1. Fire("listen", "connect") /\ BeginsCall(LoopThread, "state", 0)
        /\ UNCHANGED <<timedCallback, userParam, firing>>
    BY <1>9 DEF listenCallback
  <2>2. \A info \in Timers : Listed(info) \/ Pends(info) => Listed(info)' \/ Pends(info)'
    BY <2>1, <1>20, LockListsFired
  <2>3. loop # "timer" /\ call[LoopThread].pc = "idle"
    BY <2>1 DEF Fire, LoopCalls
  <2> QED
    BY <2>1, <2>2, <2>3, <1>21, LockBegins
<1>10. CASE listenCallbackRefuses
  <2>1. \A info \in Timers : Listed(info) \/ Pends(info) => Listed(info)' \/ Pends(info)'
    BY <1>10, <1>20, LockListsFired DEF listenCallbackRefuses
  <2>2. UNCHANGED <<call, wakeLock, inherited, timedCallback, userParam, firing>> /\ loop # "timer"
    BY <1>10 DEF listenCallbackRefuses, Fire
  <2> QED
    BY <2>1, <2>2, <1>19, LockLoop
<1>11. CASE SendLastNITZ
  <2>1. /\ call' = call \/ /\ \A u \in Callers : u # LoopThread => call'[u] = call[u]
                           /\ call'[LoopThread].pc = "send"
        /\ call[LoopThread].pc = "idle" /\ loop # "timer"
        /\ UNCHANGED <<wakeLock, inherited, timedCallback, userParam, firing, timer_list,
                       pending_list>>
    BY <1>11, <1>21 DEF SendLastNITZ, LoopIdle, At, NoCall, TypeOK, DaemonTypeOK
  <2>2. CallsMatch'
    BY <2>1, <1>19, <1>21, CallsMatchOne
  <2>3. \A u \in Callers : HoldsForResponse(u) => HoldsForResponse(u)'
    BY <2>1, <1>19 DEF HoldsForResponse
  <2> QED
    BY <2>1, <2>2, <2>3, LockListsSame, LockLoop
<1>12. CASE FreeLastNITZ
  BY <1>12, <1>19, LockListsSame, LockLoop DEF FreeLastNITZ
<1>13. CASE processCommandsCallback
  <2>1. \A info \in Timers : Listed(info) \/ Pends(info) => Listed(info)' \/ Pends(info)'
    BY <1>13, <1>20, LockListsFired DEF processCommandsCallback
  <2>2. UNCHANGED <<call, wakeLock, inherited, timedCallback, userParam, firing>> /\ loop # "timer"
    BY <1>13 DEF processCommandsCallback, Fire
  <2> QED
    BY <2>1, <2>2, <1>19, LockLoop
<1>14. CASE processCommandBuffer
  <2>1. /\ call' = call \/ /\ \A u \in Callers : u # LoopThread => call'[u] = call[u]
                           /\ call'[LoopThread].pc = "send"
        /\ call[LoopThread].pc = "idle" /\ loop # "timer"
        /\ UNCHANGED <<wakeLock, inherited, timedCallback, userParam, firing, timer_list,
                       pending_list>>
    BY <1>14, <1>21 DEF processCommandBuffer, LoopIdle, At, NoCall, TypeOK, DaemonTypeOK
  <2>2. CallsMatch'
    BY <2>1, <1>19, <1>21, CallsMatchOne
  <2>3. \A u \in Callers : HoldsForResponse(u) => HoldsForResponse(u)'
    BY <2>1, <1>19 DEF HoldsForResponse
  <2> QED
    BY <2>1, <2>2, <2>3, LockListsSame, LockLoop
<1>15. CASE CommandsRead
  BY <1>15, <1>19, LockListsSame, LockLoop DEF CommandsRead
<1>16. CASE CloseCommands
  BY <1>16, <1>19, LockListsSame, LockLoop DEF CloseCommands
<1>17. CASE onCommandsSocketClosed
  BY <1>17, <1>19, LockListsSame, LockLoop DEF onCommandsSocketClosed
<1>18. CASE CallStep(LoopThread)
  BY <1>18, <1>21, LockCall
<1> QED
  BY <1>1, <1>2, <1>3, <1>4, <1>5, <1>6, <1>7, <1>8, <1>9, <1>10, <1>11, <1>12, <1>13, <1>14,
     <1>15, <1>16, <1>17, <1>18 DEF LoopStep

LEMMA LockStep ==
  TypeOK /\ LinkInv /\ LoopCalls /\ CallsMatch /\ WakeLockCovered /\ [Next]_vars
    => CallsMatch' /\ WakeLockCovered'
<1> SUFFICES ASSUME TypeOK, LinkInv, LoopCalls, CallsMatch, WakeLockCovered, [Next]_vars
             PROVE  CallsMatch' /\ WakeLockCovered'
  OBVIOUS
<1> USE DEF eventVars, daemonVars, clientVars, historyVars
<1>0. ASSUME UNCHANGED call
      PROVE  CallsMatch' /\ \A u \in Callers : HoldsForResponse(u) => HoldsForResponse(u)'
  BY <1>0 DEF CallsMatch, HoldsForResponse
<1>1. CASE UNCHANGED vars
  BY <1>1, <1>0, LockListsSame, LockLoop DEF vars
<1>2. CASE RIL_register
  BY <1>2, <1>0, LockListsSame, LockLoop DEF RIL_register
<1>3. CASE LoopStep
  BY <1>3, LockStepLoop
<1>4. CASE SelectFails(Closed) /\ Rest
  BY <1>4, <1>0, LockListsSame, LockLoop DEF SelectFails, Rest
<1>5. ASSUME NEW t \in Threads, CallStep(t) PROVE CallsMatch' /\ WakeLockCovered'
  BY <1>5, LockCall DEF Callers
<1>6. ASSUME NEW t \in Threads, RIL_onRequestComplete(t) PROVE CallsMatch' /\ WakeLockCovered'
  <2>1. /\ call[t].pc = "idle" /\ UNCHANGED <<timedCallback, userParam, firing, loop, wakeLock,
                                             inherited, timer_list, pending_list>>
        /\ \A u \in Callers : u # t => call'[u] = call[u]
    BY <1>6, ThreadBegins DEF RIL_onRequestComplete
  <2>2. call' = call \/ call'[t].pc = "send"
    BY <1>6 DEF RIL_onRequestComplete, NoCall, TypeOK, DaemonTypeOK, Callers
  <2>3. CallsMatch'
    BY <2>1, <2>2, <1>0, CallsMatchOne DEF Callers
  <2>4. \A u \in Callers : HoldsForResponse(u) => HoldsForResponse(u)'
    BY <2>1, <2>2, <1>0 DEF HoldsForResponse
  <2> QED
    BY <2>1, <2>3, <2>4, LockListsSame, LockLoop
<1>7. ASSUME NEW t \in Threads, RIL_onUnsolicitedResponse(t) PROVE CallsMatch' /\ WakeLockCovered'
  <2>1. /\ call[t].pc = "idle"
        /\ UNCHANGED <<timedCallback, userParam, firing, loop, timer_list, pending_list>>
    BY <1>7, ThreadBegins
  <2>2. PICK msg \in Responses : BeginsCall(t, msg, IF msg = "nitz" THEN calls + 1 ELSE 0)
    BY <1>7 DEF RIL_onUnsolicitedResponse
  <2> QED
    BY <2>1, <2>2, LockListsSame, LockBegins DEF Callers
<1>8. CASE ClientConnects
  BY <1>8, <1>0, LockListsSame, LockLoop DEF ClientConnects
<1>9. CASE ClientSends
  BY <1>9, <1>0, LockListsSame, LockLoop DEF ClientSends
<1>10. CASE ClientCloses
  BY <1>10, <1>0, LockListsSame, LockLoop DEF ClientCloses
<1>11. CASE Tick /\ Rest
  BY <1>11, <1>0, LockListsSame, LockLoop DEF Tick, Rest
<1> QED
  BY <1>1, <1>2, <1>3, <1>4, <1>5, <1>6, <1>7, <1>8, <1>9, <1>10, <1>11 DEF Next, ThreadStep

LEMMA LockInit == Init => CallsMatch /\ WakeLockCovered
  BY DEF Init, CallsMatch, WakeLockCovered, NoCall

\* The wake lock is never held with nobody left to release it, whichever timer a
\* stale pointer cancels: the thread that cancels one starts another.
THEOREM WakeLockKept == Spec => []WakeLockCovered
<1>1. TypeOK /\ LinkInv /\ LoopCalls /\ CallsMatch /\ WakeLockCovered /\ [Next]_vars
        => (LinkInv /\ LoopCalls /\ CallsMatch /\ WakeLockCovered)'
  BY LinkStep, LoopCallsStep, LockStep
<1> QED
  BY <1>1, WakeupInit, LinkInit, LockInit, RilTypeCorrect, PTL DEF Spec

-----------------------------------------------------------------------------
(* The end of the loop. *)

\* An event is added or none is; those that are removed are gone.
LEMMA AddedEvent ==
  ASSUME NEW table, DOMAIN table = Indices, NEW ev
  PROVE  /\ DOMAIN Added(table, ev) = Indices
         /\ \A other : In(Added(table, ev), other) => other = ev \/ In(table, other)
<1> DEFINE free == {i \in Indices : table[i] = NoEvent}
<1>1. CASE free = {}
  BY <1>1 DEF Added
<1>2. CASE free # {}
  <2>1. Added(table, ev) = [table EXCEPT ![Least(free)] = ev]
    BY <1>2 DEF Added
  <2> HIDE DEF free
  <2> QED
    BY <2>1 DEF In
<1> QED
  BY <1>1, <1>2

LEMMA RemovedEvents ==
  ASSUME NEW table, NEW events
  PROVE  /\ DOMAIN Removed(table, events) = Indices
         /\ \A ev \in events : ev # NoEvent => ~In(Removed(table, events), ev)
         /\ \A ev : In(Removed(table, events), ev) => ev = NoEvent \/ In(table, ev)
  BY DEF Removed, In

\* The loop only watches a closed descriptor when a failed write has closed it.
ClosedUnder ==
  /\ DOMAIN watch_table = Indices
  /\ accepted \in Nat /\ conns \in Nat
  /\ fdConn = 0 /\ In(watch_table, "commands") => closedUnderLoop
  /\ fdConn = 0 /\ loop = "select" /\ "commands" \in rfds => closedUnderLoop
  /\ loop = "ended" => closedUnderLoop

LEMMA Names == NoEvent # "commands" /\ NoEvent # "listen" /\ NoEvent # "wakeup"
  BY RilEventAssumption, RilDaemonAssumption

LEMMA StartWatches == DOMAIN StartTable = Indices /\ ~In(StartTable, "commands")
<1>1. DOMAIN EmptyTable = Indices /\ ~In(EmptyTable, "commands")
  BY Names DEF EmptyTable, In
<1> QED
  BY <1>1, AddedEvent DEF StartTable

LEMMA ClosedInit == Init => ClosedUnder
  BY StartWatches DEF Init, ClosedUnder

\* A step that leaves alone what the loop watches and what is behind the descriptor.
LEMMA ClosedSame ==
  ASSUME ClosedUnder, UNCHANGED <<watch_table, rfds, accepted, conns, fdConn, closedUnderLoop>>,
         loop' = loop \/ loop' \notin {"select", "ended"}
  PROVE  ClosedUnder'
  BY DEF ClosedUnder

\* A step of the library on any thread.
LEMMA CallKeeps ==
  ASSUME ClosedUnder, NEW t, CallStep(t)
  PROVE  ClosedUnder'
<1> USE DEF eventVars, daemonVars, clientVars, historyVars
<1>1. CASE error_exit(t)
  BY <1>1, ClosedSame DEF error_exit
<1>2. CASE sendResponseRaw(t)
  BY <1>2, ClosedSame DEF sendResponseRaw
<1>3. CASE blockingWrite(t)
  BY <1>3, ClosedSame DEF blockingWrite
<1>4. CASE WriteFails(t)
  BY <1>4, ClosedSame DEF WriteFails
<1>5. CASE CloseAfterWrite(t)
  <2>1. /\ fdConn' = 0 /\ UNCHANGED <<watch_table, rfds, accepted, conns, loop>>
        /\ fdConn # 0 \/ closedUnderLoop => closedUnderLoop'
    BY <1>5 DEF CloseAfterWrite
  <2> QED
    BY <2>1 DEF ClosedUnder
<1>6. CASE ProcessKilled(t)
  <2>1. watch_table' = StartTable /\ rfds' = {} /\ loop' = "copy"
        /\ accepted' = conns /\ UNCHANGED conns
    BY <1>6 DEF ProcessKilled
  <2> QED
    BY <2>1, StartWatches DEF ClosedUnder
<1>7. CASE StoreNITZ(t)
  BY <1>7, ClosedSame DEF StoreNITZ
<1>8. CASE ReadLastTimeout(t)
  BY <1>8, ClosedSame DEF ReadLastTimeout
<1>9. CASE CancelLastTimeout(t)
  BY <1>9, ClosedSame DEF CancelLastTimeout
<1>10. CASE AddTimer(t)
  BY <1>10, ClosedSame DEF AddTimer
<1>11. CASE TriggerAfterAdd(t)
  BY <1>11, ClosedSame DEF TriggerAfterAdd
<1>12. CASE SetLastTimeout(t)
  BY <1>12, ClosedSame DEF SetLastTimeout
<1> QED
  BY <1>1, <1>2, <1>3, <1>4, <1>5, <1>6, <1>7, <1>8, <1>9, <1>10, <1>11, <1>12 DEF CallStep

\* A table that loses events, or gets one that is not the connection's.
LEMMA ClosedAdd ==
  ASSUME ClosedUnder, NEW events, NEW ev, ev # "commands",
         watch_table' = Added(watch_table, ev) \/ watch_table' = Removed(watch_table, events),
         accepted' \in Nat, UNCHANGED <<conns, fdConn, closedUnderLoop>>,
         UNCHANGED rfds \/ rfds' = {},
         loop' = loop \/ loop' \notin {"select", "ended"}
  PROVE  ClosedUnder'
<1>1. DOMAIN watch_table' = Indices /\ (In(watch_table', "commands") => In(watch_table, "commands"))
  BY AddedEvent, RemovedEvents, Names DEF ClosedUnder
<1> QED
  BY <1>1 DEF ClosedUnder

\* A step of the event loop.
LEMMA LoopKeeps ==
  ASSUME ClosedUnder, LoopStep
  PROVE  ClosedUnder'
<1> USE DEF eventVars, daemonVars, clientVars, historyVars, Rest, Fire
<1>1. CASE CopyReadFds(Closed) /\ Rest
  <2>1. /\ rfds' = Watched /\ UNCHANGED <<watch_table, accepted, conns, fdConn, closedUnderLoop>>
        /\ loop' = IF Watched \cap Closed = {} THEN "select" ELSE "ended"
    BY <1>1 DEF CopyReadFds
  <2>2. "commands" \in Watched => In(watch_table, "commands")
    BY DEF Watched, In
  <2>3. Watched \cap Closed # {} => "commands" \in Watched /\ fdConn = 0
    BY DEF Closed
  <2> QED
    BY <2>1, <2>2, <2>3 DEF ClosedUnder
<1>2. CASE SelectReturns(Ready) /\ Rest
  BY <1>2 DEF SelectReturns, ClosedUnder
<1>3. CASE processTimeouts /\ Rest
  <2>1. /\ watch_table' = Removed(watch_table, LeavesTable) /\ rfds' = {} /\ loop' = "fire"
        /\ UNCHANGED <<accepted, conns, fdConn, closedUnderLoop>>
    BY <1>3 DEF processTimeouts
  <2> QED
    BY <2>1, ClosedAdd DEF ClosedUnder
<1>4. CASE FireDone /\ Rest
  BY <1>4, ClosedSame DEF FireDone
<1>5. CASE processWakeupCallback
  BY <1>5, ClosedSame DEF processWakeupCallback
<1>6. CASE FireTimer
  BY <1>6, ClosedSame DEF FireTimer
<1>7. CASE wakeTimeoutCallback
  BY <1>7, ClosedSame DEF wakeTimeoutCallback
<1>8. CASE FreeTimer
  BY <1>8, ClosedSame DEF FreeTimer
<1>9. CASE listenCallback
  <2>1. /\ watch_table' = Added(watch_table, "commands") /\ UNCHANGED <<rfds, conns>>
        /\ accepted' = accepted + 1 /\ fdConn' = accepted + 1 /\ loop' = "connect"
    BY <1>9 DEF listenCallback, rilEventAddWakeup, ril_event_add
  <2>2. accepted' \in Nat /\ fdConn' # 0
    BY <2>1 DEF ClosedUnder
  <2>3. DOMAIN watch_table' = Indices
    BY <2>1, AddedEvent DEF ClosedUnder
  <2> QED
    BY <2>1, <2>2, <2>3 DEF ClosedUnder
<1>10. CASE listenCallbackRefuses
  <2>1. /\ watch_table' = Added(watch_table, "listen") /\ accepted' = accepted + 1
        /\ UNCHANGED <<rfds, conns, fdConn, closedUnderLoop>> /\ loop' = "fire"
    BY <1>10 DEF listenCallbackRefuses, rilEventAddWakeup, ril_event_add
  <2>2. accepted' \in Nat
    BY <2>1 DEF ClosedUnder
  <2> QED
    BY <2>1, <2>2, ClosedAdd
<1>11. CASE SendLastNITZ
  BY <1>11, ClosedSame DEF SendLastNITZ
<1>12. CASE FreeLastNITZ
  BY <1>12, ClosedSame DEF FreeLastNITZ
<1>13. CASE processCommandsCallback
  BY <1>13, ClosedSame DEF processCommandsCallback
<1>14. CASE processCommandBuffer
  BY <1>14, ClosedSame DEF processCommandBuffer
<1>15. CASE CommandsRead
  BY <1>15, ClosedSame DEF CommandsRead
<1>16. CASE CloseCommands
  <2>1. watch_table' = ClosedTable /\ loop' = "cancel" /\ UNCHANGED <<accepted, conns>>
    BY <1>16 DEF CloseCommands
  <2>2. DOMAIN ClosedTable = Indices /\ ~In(ClosedTable, "commands")
    BY AddedEvent, RemovedEvents, Names DEF ClosedTable
  <2> QED
    BY <2>1, <2>2 DEF ClosedUnder
<1>17. CASE onCommandsSocketClosed
  BY <1>17, ClosedSame DEF onCommandsSocketClosed
<1>18. CASE CallStep(LoopThread)
  BY <1>18, CallKeeps
<1> QED
  BY <1>1, <1>2, <1>3, <1>4, <1>5, <1>6, <1>7, <1>8, <1>9, <1>10, <1>11, <1>12, <1>13, <1>14,
     <1>15, <1>16, <1>17, <1>18 DEF LoopStep

LEMMA ClosedStep == ClosedUnder /\ [Next]_vars => ClosedUnder'
<1> SUFFICES ASSUME ClosedUnder, [Next]_vars PROVE ClosedUnder'
  OBVIOUS
<1> USE DEF eventVars, daemonVars, clientVars, historyVars
<1>1. CASE UNCHANGED vars
  BY <1>1, ClosedSame DEF vars
<1>2. CASE RIL_register
  <2>1. /\ watch_table' = Added(watch_table, "listen")
        /\ UNCHANGED <<rfds, loop, accepted, conns, fdConn, closedUnderLoop>>
    BY <1>2 DEF RIL_register, rilEventAddWakeup, ril_event_add
  <2> QED
    BY <2>1, ClosedAdd DEF ClosedUnder
<1>3. CASE LoopStep
  BY <1>3, LoopKeeps
<1>4. CASE SelectFails(Closed) /\ Rest
  <2>1. /\ loop = "select" /\ "commands" \in rfds /\ fdConn = 0
        /\ UNCHANGED <<watch_table, rfds, accepted, conns, fdConn, closedUnderLoop>>
    BY <1>4 DEF SelectFails, Closed, Rest
  <2> QED
    BY <2>1 DEF ClosedUnder
<1>5. ASSUME NEW t \in Threads, CallStep(t) PROVE ClosedUnder'
  BY <1>5, CallKeeps
<1>6. ASSUME NEW t \in Threads, RIL_onRequestComplete(t) PROVE ClosedUnder'
  BY <1>6, ClosedSame DEF RIL_onRequestComplete
<1>7. ASSUME NEW t \in Threads, RIL_onUnsolicitedResponse(t) PROVE ClosedUnder'
  BY <1>7, ClosedSame DEF RIL_onUnsolicitedResponse
<1>8. CASE ClientConnects
  <2>1. conns' = conns + 1
        /\ UNCHANGED <<watch_table, rfds, loop, accepted, fdConn, closedUnderLoop>>
    BY <1>8 DEF ClientConnects
  <2> QED
    BY <2>1 DEF ClosedUnder
<1>9. CASE ClientSends
  BY <1>9, ClosedSame DEF ClientSends
<1>10. CASE ClientCloses
  BY <1>10, ClosedSame DEF ClientCloses
<1>11. CASE Tick /\ Rest
  BY <1>11, ClosedSame DEF Tick, Rest
<1> QED
  BY <1>1, <1>2, <1>3, <1>4, <1>5, <1>6, <1>7, <1>8, <1>9, <1>10, <1>11 DEF Next, ThreadStep

\* The loop ends, and the daemon with it, only when a failed write has closed the
\* descriptor it watches: nothing else makes select fail.
THEOREM EndsWhenClosed == Spec => []EndsOnlyWhenClosed
<1>1. ClosedUnder => EndsOnlyWhenClosed
  BY DEF ClosedUnder, EndsOnlyWhenClosed
<1> QED
  BY <1>1, ClosedInit, ClosedStep, PTL DEF Spec

=============================================================================
