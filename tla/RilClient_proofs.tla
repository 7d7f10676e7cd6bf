---------------------------- MODULE RilClient_proofs ----------------------------
(***************************************************************************)
(* Theorems of RilClient for every set of threads, size of the pool and     *)
(* number of requests and connections.                                      *)
(***************************************************************************)
EXTENDS RilClient, SequenceTheorems, FiniteSetTheorems, WellFoundedInduction, TLAPS

-----------------------------------------------------------------------------
(* Lemmas on the helpers. *)

\* The place Matching finds is one of a request with the serial number.
LEMMA MatchingPlace ==
  ASSUME mRequestsList \in Seq(Objects), NEW serial, Matching(serial) # 0
  PROVE  /\ Matching(serial) \in 1 .. Len(mRequestsList)
         /\ mSerial[mRequestsList[Matching(serial)]] = serial
<1> DEFINE at == {i \in DOMAIN mRequestsList : mSerial[mRequestsList[i]] = serial}
<1>1. at # {} /\ at \subseteq Nat
  BY DEF Matching
<1> DEFINE less == {ss \in Nat \X Nat : ss[1] < ss[2]}
<1>2. IsWellFoundedOn(less, Nat)
  BY NatLessThanWellFounded, Zenon DEF OpToRel
<1> HIDE DEF less, at
<1>3. PICK i \in at : \A j \in at : <<j, i>> \notin less
  BY <1>1, <1>2, WFMin
<1>4. \A j \in at : i <= j
  <2>1. \A j, k \in Nat : j < k => <<j, k>> \in less
    BY DEF less
  <2> SUFFICES ASSUME NEW j \in at PROVE i <= j
    OBVIOUS
  <2>2. i \in Nat /\ j \in Nat
    BY <1>1
  <2>3. ~(j < i)
    BY <1>3, <2>1, <2>2
  <2> QED
    BY <2>2, <2>3
<1>5. Matching(serial) \in at
  BY <1>1, <1>4, Zenon DEF Matching, at
<1> QED
  BY <1>5 DEF at

LEMMA RemoveAtTyped ==
  ASSUME NEW S, NEW s \in Seq(S), NEW i \in 1 .. Len(s)
  PROVE  RemoveAt(s, i) \in Seq(S) /\ Len(RemoveAt(s, i)) = Len(s) - 1
<1> DEFINE before == SubSeq(s, 1, i - 1)
           after == SubSeq(s, i + 1, Len(s))
<1>1. Len(s) \in Nat /\ \A j \in 1 .. Len(s) : s[j] \in S
  BY LenProperties, ElementOfSeq
<1>2. /\ before \in Seq(S) /\ Len(before) = i - 1
      /\ after \in Seq(S) /\ Len(after) = Len(s) - i
  BY <1>1, SubSeqProperties
<1>3. RemoveAt(s, i) = before \o after
  BY Zenon DEF RemoveAt
<1> HIDE DEF before, after
<1>4. before \o after \in Seq(S) /\ Len(before \o after) = Len(before) + Len(after)
  BY <1>2, ConcatProperties, Zenon
<1>5. Len(before) + Len(after) = Len(s) - 1
  BY <1>1, <1>2
<1> QED
  BY <1>3, <1>4, <1>5, Zenon

\* Removing a request leaves a shorter list and a count that is one less, if it can be.
LEMMA RemoveTyped ==
  ASSUME mRequestsList \in Seq(Objects), mRequestMessagesWaiting \in Int,
         NEW i \in 1 .. Len(mRequestsList), RemoveRequest(i)
  PROVE  /\ mRequestsList' \in Seq(Objects)
         /\ Len(mRequestsList') = Len(mRequestsList) - 1
         /\ mRequestMessagesWaiting' \in Int
         /\ mRequestMessagesWaiting' =
              IF mRequestMessagesWaiting > 0 THEN mRequestMessagesWaiting - 1
              ELSE mRequestMessagesWaiting
<1>1. mRequestsList' = RemoveAt(mRequestsList, i)
  BY DEF RemoveRequest
<1>2. /\ mRequestsList' \in Seq(Objects)
      /\ Len(mRequestsList') = Len(mRequestsList) - 1
  BY <1>1, RemoveAtTyped
<1> QED
  BY <1>2 DEF RemoveRequest

-----------------------------------------------------------------------------
(* Lemmas on sequences in which every element occurs once. *)

LEMMA ElementsOf == ASSUME NEW S, NEW s \in Seq(S) PROVE ToSet(s) = {s[i] : i \in 1 .. Len(s)}
  BY DEF ToSet

LEMMA OnceIs ==
  ASSUME NEW S, NEW s \in Seq(S)
  PROVE  IsInjective(s) <=> \A i, j \in 1 .. Len(s) : s[i] = s[j] => i = j
  BY DEF IsInjective

\* What an element appended to a sequence, the first one taken off it and another one
\* taken out of it do to its set of elements.
LEMMA AppendedOnce ==
  ASSUME NEW S, NEW s \in Seq(S), NEW e \in S
  PROVE  /\ ToSet(Append(s, e)) = ToSet(s) \cup {e}
         /\ IsInjective(s) /\ e \notin ToSet(s) => IsInjective(Append(s, e))
<1>1. /\ Append(s, e) \in Seq(S) /\ Len(Append(s, e)) = Len(s) + 1 /\ Len(s) \in Nat
      /\ \A i \in 1 .. Len(s) : Append(s, e)[i] = s[i]
      /\ Append(s, e)[Len(s) + 1] = e
  BY AppendProperties, LenProperties
<1> DEFINE a == Append(s, e)
<1> HIDE DEF a
<1>2. ToSet(a) = {a[i] : i \in 1 .. Len(a)} /\ ToSet(s) = {s[i] : i \in 1 .. Len(s)}
  BY <1>1, ElementsOf DEF a
<1>3. /\ Len(a) = Len(s) + 1 /\ Len(s) \in Nat /\ \A i \in 1 .. Len(s) : a[i] = s[i]
      /\ a[Len(s) + 1] = e
  BY <1>1 DEF a
<1>4. ToSet(a) = ToSet(s) \cup {e}
  BY <1>2, <1>3
<1>5. ASSUME IsInjective(s), e \notin ToSet(s) PROVE IsInjective(a)
  <2>1. \A i, j \in 1 .. Len(s) : s[i] = s[j] => i = j
    BY <1>5, OnceIs
  <2>2. \A i, j \in 1 .. Len(a) : a[i] = a[j] => i = j
    BY <1>2, <1>3, <1>5, <2>1
  <2> QED
    BY <1>1, <2>2, OnceIs DEF a
<1> QED
  BY <1>4, <1>5 DEF a

LEMMA FirstTakenOff ==
  ASSUME NEW S, NEW s \in Seq(S), s # <<>>, IsInjective(s)
  PROVE  /\ Head(s) \in ToSet(s) /\ Head(s) \in S
         /\ ToSet(Tail(s)) = ToSet(s) \ {Head(s)} /\ IsInjective(Tail(s))
<1>1. /\ Tail(s) \in Seq(S) /\ Len(Tail(s)) = Len(s) - 1 /\ Len(s) \in Nat /\ Len(s) > 0
      /\ \A i \in 1 .. Len(Tail(s)) : Tail(s)[i] = s[i + 1]
      /\ Head(s) \in S /\ Head(s) = s[1]
  BY HeadTailProperties, LenProperties, EmptySeq
<1> DEFINE a == Tail(s)
<1>2. ToSet(a) = {a[i] : i \in 1 .. Len(a)} /\ ToSet(s) = {s[i] : i \in 1 .. Len(s)}
  BY <1>1, ElementsOf
<1>3. \A i, j \in 1 .. Len(s) : s[i] = s[j] => i = j
  BY OnceIs
<1>4. /\ Len(a) = Len(s) - 1 /\ Len(s) \in Nat /\ Len(s) > 0
      /\ \A i \in 1 .. Len(a) : a[i] = s[i + 1]
  BY <1>1
<1> HIDE DEF a
<1>5. \A i, j \in 1 .. Len(a) : a[i] = a[j] => i = j
  BY <1>3, <1>4
<1>6. IsInjective(a)
  BY <1>1, <1>5, OnceIs DEF a
<1>7. ToSet(a) \subseteq ToSet(s) \ {s[1]}
  BY <1>2, <1>3, <1>4
<1>8. ToSet(s) \ {s[1]} \subseteq ToSet(a)
  <2> SUFFICES ASSUME NEW i \in 1 .. Len(s), s[i] # s[1] PROVE s[i] \in ToSet(a)
    BY <1>2
  <2>1. i - 1 \in 1 .. Len(a) /\ a[i - 1] = s[i]
    BY <1>4
  <2> QED
    BY <1>2, <2>1
<1>9. s[1] \in ToSet(s)
  BY <1>2, <1>4
<1> QED
  BY <1>1, <1>6, <1>7, <1>8, <1>9 DEF a

LEMMA TakenOff ==
  ASSUME NEW S, NEW s \in Seq(S), NEW i \in 1 .. Len(s), IsInjective(s)
  PROVE  /\ s[i] \in ToSet(s)
         /\ ToSet(RemoveAt(s, i)) = ToSet(s) \ {s[i]} /\ IsInjective(RemoveAt(s, i))
<1> DEFINE before == SubSeq(s, 1, i - 1)
           after == SubSeq(s, i + 1, Len(s))
           a == RemoveAt(s, i)
<1>1. Len(s) \in Nat /\ \A j \in 1 .. Len(s) : s[j] \in S
  BY LenProperties, ElementOfSeq
<1>2. /\ before \in Seq(S) /\ Len(before) = i - 1
      /\ \A j \in 1 .. i - 1 : before[j] = s[j]
  BY <1>1, SubSeqProperties
<1>3. /\ after \in Seq(S) /\ Len(after) = Len(s) - i
      /\ \A j \in 1 .. Len(s) - i : after[j] = s[i + j]
  BY <1>1, SubSeqProperties
<1>4. a = before \o after
  BY Zenon DEF RemoveAt
<1> HIDE DEF before, after, a
<1>5. /\ a \in Seq(S) /\ Len(a) = Len(before) + Len(after)
      /\ \A j \in 1 .. Len(before) + Len(after) :
           a[j] = IF j <= Len(before) THEN before[j] ELSE after[j - Len(before)]
  BY <1>2, <1>3, <1>4, ConcatProperties
<1>6. Len(a) = Len(s) - 1
  BY <1>1, <1>2, <1>3, <1>5
<1>7. \A j \in 1 .. Len(a) : a[j] = IF j < i THEN s[j] ELSE s[j + 1]
  <2> SUFFICES ASSUME NEW j \in 1 .. Len(a) PROVE a[j] = IF j < i THEN s[j] ELSE s[j + 1]
    OBVIOUS
  <2>1. CASE j < i
    BY <1>1, <1>2, <1>3, <1>5, <1>6, <2>1
  <2>2. CASE ~(j < i)
    <3>1. a[j] = after[j - (i - 1)] /\ j - (i - 1) \in 1 .. Len(s) - i
      BY <1>1, <1>2, <1>3, <1>5, <1>6, <2>2
    <3>2. after[j - (i - 1)] = s[i + (j - (i - 1))] /\ i + (j - (i - 1)) = j + 1
      BY <1>1, <1>3, <1>6, <3>1
    <3> QED
      BY <2>2, <3>1, <3>2
  <2> QED
    BY <2>1, <2>2
<1>8. ToSet(a) = {a[j] : j \in 1 .. Len(a)} /\ ToSet(s) = {s[j] : j \in 1 .. Len(s)}
  BY <1>5, ElementsOf
<1>9. \A j, k \in 1 .. Len(s) : s[j] = s[k] => j = k
  BY OnceIs
<1>10. \A j, k \in 1 .. Len(a) : a[j] = a[k] => j = k
  BY <1>1, <1>6, <1>7, <1>9
<1>11. IsInjective(a)
  BY <1>5, <1>10, OnceIs
<1>12. ToSet(a) \subseteq ToSet(s) \ {s[i]}
  BY <1>1, <1>6, <1>7, <1>8, <1>9
<1>13. ToSet(s) \ {s[i]} \subseteq ToSet(a)
  <2> SUFFICES ASSUME NEW j \in 1 .. Len(s), j # i PROVE s[j] \in ToSet(a)
    BY <1>8
  <2>1. CASE j < i
    BY <1>1, <1>6, <1>7, <1>8, <2>1
  <2>2. CASE j > i
    <3>1. j - 1 \in 1 .. Len(a) /\ a[j - 1] = s[j]
      BY <1>1, <1>6, <1>7, <2>2
    <3> QED
      BY <1>8, <3>1
  <2> QED
    BY <2>1, <2>2
<1> QED
  BY <1>8, <1>11, <1>12, <1>13 DEF a

\* Joining, reversing and shortening sequences.
LEMMA JoinedOnce ==
  ASSUME NEW S, NEW s \in Seq(S), NEW t \in Seq(S), IsInjective(s), IsInjective(t),
         ToSet(s) \cap ToSet(t) = {}
  PROVE  IsInjective(s \o t) /\ ToSet(s \o t) = ToSet(s) \cup ToSet(t)
<1> DEFINE a == s \o t
<1>1. /\ a \in Seq(S) /\ Len(a) = Len(s) + Len(t) /\ Len(s) \in Nat /\ Len(t) \in Nat
      /\ \A i \in 1 .. Len(s) + Len(t) : a[i] = IF i <= Len(s) THEN s[i] ELSE t[i - Len(s)]
  BY ConcatProperties, LenProperties
<1> HIDE DEF a
<1>2. /\ ToSet(a) = {a[i] : i \in 1 .. Len(a)}
      /\ ToSet(s) = {s[i] : i \in 1 .. Len(s)} /\ ToSet(t) = {t[i] : i \in 1 .. Len(t)}
  BY <1>1, ElementsOf
<1>3. /\ \A i, j \in 1 .. Len(s) : s[i] = s[j] => i = j
      /\ \A i, j \in 1 .. Len(t) : t[i] = t[j] => i = j
  BY OnceIs
<1>4. \A i, j \in 1 .. Len(a) : a[i] = a[j] => i = j
  <2> SUFFICES ASSUME NEW i \in 1 .. Len(a), NEW j \in 1 .. Len(a), a[i] = a[j] PROVE i = j
    OBVIOUS
  <2>1. CASE i <= Len(s) /\ j <= Len(s)
    BY <1>1, <1>3, <2>1
  <2>2. CASE ~(i <= Len(s)) /\ ~(j <= Len(s))
    <3>1. i - Len(s) \in 1 .. Len(t) /\ j - Len(s) \in 1 .. Len(t)
      BY <1>1, <2>2
    <3>2. t[i - Len(s)] = t[j - Len(s)]
      BY <1>1, <2>2
    <3> QED
      BY <1>1, <1>3, <3>1, <3>2
  <2>3. CASE i <= Len(s) /\ ~(j <= Len(s))
    <3>1. a[i] \in ToSet(s) /\ j - Len(s) \in 1 .. Len(t) /\ a[j] = t[j - Len(s)]
      BY <1>1, <1>2, <2>3
    <3> QED
      BY <1>2, <3>1
  <2>4. CASE ~(i <= Len(s)) /\ j <= Len(s)
    <3>1. a[j] \in ToSet(s) /\ i - Len(s) \in 1 .. Len(t) /\ a[i] = t[i - Len(s)]
      BY <1>1, <1>2, <2>4
    <3> QED
      BY <1>2, <3>1
  <2> QED
    BY <2>1, <2>2, <2>3, <2>4
<1>5. ToSet(a) \subseteq ToSet(s) \cup ToSet(t)
  <2> SUFFICES ASSUME NEW i \in 1 .. Len(a) PROVE a[i] \in ToSet(s) \cup ToSet(t)
    BY <1>2
  <2>1. CASE i <= Len(s)
    BY <1>1, <1>2, <2>1
  <2>2. CASE ~(i <= Len(s))
    <3>1. i - Len(s) \in 1 .. Len(t) /\ a[i] = t[i - Len(s)]
      BY <1>1, <2>2
    <3> QED
      BY <1>2, <3>1
  <2> QED
    BY <2>1, <2>2
<1>6. ToSet(s) \subseteq ToSet(a)
  BY <1>1, <1>2
<1>7. ToSet(t) \subseteq ToSet(a)
  <2> SUFFICES ASSUME NEW i \in 1 .. Len(t) PROVE t[i] \in ToSet(a)
    BY <1>2
  <2>1. i + Len(s) \in 1 .. Len(a) /\ a[i + Len(s)] = t[i]
    BY <1>1
  <2> QED
    BY <1>2, <2>1
<1> QED
  BY <1>1, <1>4, <1>5, <1>6, <1>7, OnceIs DEF a

LEMMA ReversedOnce ==
  ASSUME NEW S, NEW s \in Seq(S), IsInjective(s)
  PROVE  Reverse(s) \in Seq(S) /\ IsInjective(Reverse(s)) /\ ToSet(Reverse(s)) = ToSet(s)
<1> DEFINE a == Reverse(s)
<1>1. Len(s) \in Nat /\ \A j \in 1 .. Len(s) : s[j] \in S
  BY LenProperties, ElementOfSeq
<1>2. /\ a \in Seq(S) /\ Len(a) = Len(s)
      /\ \A i \in 1 .. Len(s) : a[i] = s[(Len(s) - i) + 1]
  BY <1>1 DEF Reverse
<1> HIDE DEF a
<1>3. ToSet(a) = {a[i] : i \in 1 .. Len(a)} /\ ToSet(s) = {s[i] : i \in 1 .. Len(s)}
  BY <1>2, ElementsOf
<1>4. \A i, j \in 1 .. Len(s) : s[i] = s[j] => i = j
  BY OnceIs
<1>5. \A i \in 1 .. Len(s) : (Len(s) - i) + 1 \in 1 .. Len(s)
  BY <1>1
<1>6. \A i, j \in 1 .. Len(a) : a[i] = a[j] => i = j
  BY <1>1, <1>2, <1>4, <1>5
<1>7. ToSet(a) \subseteq ToSet(s)
  BY <1>2, <1>3, <1>5
<1>8. ToSet(s) \subseteq ToSet(a)
  <2> SUFFICES ASSUME NEW i \in 1 .. Len(s) PROVE s[i] \in ToSet(a)
    BY <1>3
  <2> DEFINE k == (Len(s) - i) + 1
  <2>1. k \in 1 .. Len(s) /\ (Len(s) - k) + 1 = i
    BY <1>1
  <2>2. a[k] = s[i] /\ k \in 1 .. Len(a)
    BY <1>2, <2>1
  <2> QED
    BY <1>3, <2>2
<1> QED
  BY <1>2, <1>6, <1>7, <1>8, OnceIs DEF a

LEMMA FirstOfOnce ==
  ASSUME NEW S, NEW s \in Seq(S), IsInjective(s), NEW n \in Nat, n <= Len(s)
  PROVE  /\ SubSeq(s, 1, n) \in Seq(S) /\ IsInjective(SubSeq(s, 1, n))
         /\ ToSet(SubSeq(s, 1, n)) \subseteq ToSet(s)
<1> DEFINE a == SubSeq(s, 1, n)
<1>1. Len(s) \in Nat /\ \A j \in 1 .. Len(s) : s[j] \in S
  BY LenProperties, ElementOfSeq
<1>2. a \in Seq(S) /\ Len(a) = n /\ \A i \in 1 .. n : a[i] = s[i]
  BY <1>1, SubSeqProperties
<1> HIDE DEF a
<1>3. ToSet(a) = {a[i] : i \in 1 .. Len(a)} /\ ToSet(s) = {s[i] : i \in 1 .. Len(s)}
  BY <1>2, ElementsOf
<1>4. \A i, j \in 1 .. Len(s) : s[i] = s[j] => i = j
  BY OnceIs
<1>5. \A i, j \in 1 .. Len(a) : a[i] = a[j] => i = j
  BY <1>1, <1>2, <1>4
<1>6. ToSet(a) \subseteq ToSet(s)
  BY <1>1, <1>2, <1>3
<1> QED
  BY <1>2, <1>5, <1>6, OnceIs DEF a

\* Sequences of none and of one.
LEMMA NoneOrOne ==
  /\ IsInjective(<<>>) /\ ToSet(<<>>) = {}
  /\ \A o : IsInjective(<<o>>) /\ ToSet(<<o>>) = {o}
  BY DEF IsInjective, ToSet

LEMMA NotNone ==
  ASSUME NEW S, NEW s \in Seq(S), NEW e \in ToSet(s)
  PROVE  e \in S /\ \E i \in 1 .. Len(s) : s[i] = e
  BY ElementsOf, ElementOfSeq

-----------------------------------------------------------------------------
(* Type correctness.  What a thread works with is there when it needs it.    *)

Serials == 0 .. MaxRequests
Connections == 0 .. MaxConns

LEMMA Numbers ==
  /\ 0 \in Serials /\ 0 \in Connections /\ Serials \ {0} = Objects /\ 0 \notin Objects
  /\ Objects = Requests /\ Objects \subseteq Serials
  BY RilClientAssumption DEF Serials, Connections, Objects, Requests

CallerType ==
  [pc : {"idle", "send", "acquire", "count", "post"}, rr : Serials, read : Nat]
SenderType ==
  [pc : {"idle", "add", "subtract", "write pending", "marshall", "write", "error", "done",
         "timeout", "log"},
   rr : Serials, s : Connections, read : Nat, data : Serials]
ReceiverType ==
  [pc : {"connect", "read", "decrement", "write waiting", "answer", "done", "forget", "reset",
         "clear"},
   rr : Serials, of : Serials, read : Int]
MessageType == [serial : Serials, of : Requests]

BooleansTyped ==
  /\ socketOpen \in BOOLEAN /\ peerOpen \in BOOLEAN
  /\ mWakeLock \in BOOLEAN /\ timeoutPosted \in BOOLEAN
  /\ timedOut \in BOOLEAN /\ countReset \in BOOLEAN
  /\ lostUpdate \in BOOLEAN /\ clashed \in BOOLEAN

IssueTyped == issued \in 0 .. MaxRequests /\ created \in 0 .. issued /\ sNextSerial \in 0 .. issued

ObjectsTyped ==
  /\ mSerial \in [Objects -> Serials] /\ mResult \in [Objects -> Serials]
  /\ mp \in [Objects -> Serials]
  /\ sPool \in Seq(Objects) /\ Len(sPool) <= MAX_POOL_SIZE

ResultsTyped == results \in [Requests -> Seq(Serials)]

SocketTyped == conns \in Connections /\ mSocket \in {0, conns}

ReceivedTyped == received \subseteq MessageType

ListTyped == mRequestsList \in Seq(Objects) /\ mRequestMessagesWaiting \in Int

PendingTyped == mRequestMessagesPending \in Nat

QueueTyped == queue \in Seq(Objects)

CallersTyped ==
  /\ caller \in [Threads -> CallerType]
  /\ \A t \in Threads : caller[t].pc # "idle" => caller[t].rr \in Objects

SenderTyped ==
  /\ sender \in SenderType
  /\ sender.pc \in {"add", "marshall", "write", "error"} => sender.rr \in Objects
  /\ sender.pc = "write" => sender.data # 0
  /\ sender.pc = "write pending" => sender.read > 0

\* The receiver has taken a request off the list and not answered it yet.
HasAnswer == receiver.pc \in {"decrement", "write waiting", "answer"}

ReceiverTyped ==
  /\ receiver \in ReceiverType
  /\ HasAnswer => receiver.rr \in Objects

\* A thread holds mWakeLock's monitor while it counts its request, and only then.
MonitorHeld ==
  /\ lockedBy \in Threads \cup {NoThread}
  /\ \A t \in Threads : caller[t].pc = "count" <=> lockedBy = t

Typed ==
  /\ BooleansTyped /\ IssueTyped /\ ObjectsTyped /\ ResultsTyped /\ SocketTyped /\ ReceivedTyped
  /\ ListTyped /\ PendingTyped /\ QueueTyped /\ CallersTyped /\ SenderTyped /\ ReceiverTyped
  /\ MonitorHeld

LEMMA TypedImpliesTypeOK == Typed => RcTypeOK
<1> SUFFICES ASSUME Typed PROVE RcTypeOK
  OBVIOUS
<1> USE DEF Typed
<1>1. sNextSerial \in 0 .. MaxRequests /\ created \in 0 .. MaxRequests
  BY RilClientAssumption DEF IssueTyped
<1>2. issued \in 0 .. MaxRequests
  BY DEF IssueTyped
<1> QED
  BY <1>1, <1>2, Zenon DEF RcTypeOK, BooleansTyped, ObjectsTyped, ResultsTyped, SocketTyped,
     ReceivedTyped, ListTyped, PendingTyped, QueueTyped, CallersTyped, SenderTyped, ReceiverTyped,
     MonitorHeld, CallerType, SenderType, ReceiverType, MessageType, Serials,
     Connections

LEMMA TypedInit == Init => Typed
<1> SUFFICES ASSUME Init PROVE Typed
  OBVIOUS
<1> USE DEF Init
<1>1. BooleansTyped
  BY Zenon DEF BooleansTyped
<1>2. IssueTyped /\ SocketTyped /\ ReceivedTyped /\ PendingTyped
  BY RilClientAssumption, Numbers DEF IssueTyped, SocketTyped, ReceivedTyped, PendingTyped,
     Connections
<1>3. ObjectsTyped /\ ResultsTyped /\ ListTyped /\ QueueTyped
  BY RilClientAssumption, Numbers DEF ObjectsTyped, ResultsTyped, ListTyped, QueueTyped
<1>4. CallersTyped /\ SenderTyped /\ ReceiverTyped
  BY Numbers DEF CallersTyped, SenderTyped, ReceiverTyped, CallerType, SenderType, ReceiverType,
     CallerIdle, SenderIdle, ReceiverIdle, HasAnswer
<1>5. MonitorHeld
  BY RilClientAssumption DEF MonitorHeld, CallerIdle
<1> QED
  BY <1>1, <1>2, <1>3, <1>4, <1>5 DEF Typed

\* Objects are released to a pool that does not overflow.
LEMMA ReleaseTyped ==
  ASSUME ObjectsTyped, NEW os \in Seq(Objects), Release(os)
  PROVE  /\ mResult' \in [Objects -> Serials]
         /\ sPool' \in Seq(Objects) /\ Len(sPool') <= MAX_POOL_SIZE
<1> USE RilClientAssumption
<1> DEFINE room == MAX_POOL_SIZE - Len(sPool)
           kept == IF Len(os) < room THEN Len(os) ELSE room
           pooled == SubSeq(os, 1, kept)
<1>1. Len(sPool) \in Nat /\ room \in Nat /\ Len(os) \in Nat /\ kept \in Nat /\ kept <= Len(os)
  BY LenProperties DEF ObjectsTyped
<1>2. \A j \in 1 .. Len(os) : os[j] \in Objects
  BY ElementOfSeq
<1>3. pooled \in Seq(Objects) /\ Len(pooled) = kept
  BY <1>1, <1>2, SubSeqProperties
<1>4. Reverse(pooled) \in Seq(Objects) /\ Len(Reverse(pooled)) = kept
  BY <1>1, <1>3, ElementOfSeq DEF Reverse
<1>5. sPool' \in Seq(Objects) /\ Len(sPool') = kept + Len(sPool)
  BY <1>1, <1>4, ConcatProperties DEF Release, ObjectsTyped
<1>6. mResult' \in [Objects -> Serials]
  BY Numbers DEF Release, ObjectsTyped
<1> QED
  BY <1>1, <1>5, <1>6

\* A caller is told a request, or 0.
LEMMA ReportTyped ==
  ASSUME ResultsTyped, NEW os, NEW what \in Serials, Report(os, what)
  PROVE  ResultsTyped'
  BY AppendProperties DEF ResultsTyped, Report

LEMMA FailTyped ==
  ASSUME ObjectsTyped, ResultsTyped, NEW os \in Seq(Objects), Fail(os)
  PROVE  ObjectsTyped' /\ ResultsTyped'
<1>1. ResultsTyped'
  BY ReportTyped, Numbers DEF Fail
<1>2. mp' \in [Objects -> Serials]
  BY Numbers DEF Fail, Recycled, ObjectsTyped
<1> QED
  BY <1>1, <1>2, ReleaseTyped DEF Fail, ObjectsTyped

\* The list and its head, and a list of one.
LEMMA One == ASSUME NEW o \in Objects PROVE <<o>> \in Seq(Objects)
  OBVIOUS

\* The Boolean variables stay Boolean.
LEMMA BooleansStep == Typed /\ [Next]_vars => BooleansTyped'
<1> SUFFICES ASSUME Typed, [Next]_vars PROVE BooleansTyped'
  OBVIOUS
<1> USE DEF Typed, requestVars, issueVars, socketVars, listVars, wakeVars, historyVars
<1>1. \/ UNCHANGED <<socketOpen, peerOpen, mWakeLock, timeoutPosted, timedOut, countReset,
                      lostUpdate, clashed>>
      \/ (\E t \in Threads : obtain(t)) \/ (\E t \in Threads : acquireWakeLock(t))
      \/ (\E t \in Threads : CountPending(t)) \/ SenderWritesPending \/ SenderDone
      \/ SenderTakesTimeout \/ SenderHandlesTimeout \/ Connect \/ processUnsolicited
      \/ ReceiverDone \/ CloseSocket \/ DaemonHangsUp \/ TimeoutResetsWaiting
      \/ clearRequestsList
  BY Zenon DEF Next, send, HandleSend, ReceiverStep, SendFails, SendGoesOn, Post,
     SenderFindsNoSocket, SenderTakes, SenderAdds, SenderReadsPending, SenderMarshalls,
     SenderWrites, SenderFails, processSolicited, ReceiverReadsWaiting, ReceiverWritesWaiting,
     Answer, ForgetSocket, resetSerial, vars
<1>2. CASE UNCHANGED <<socketOpen, peerOpen, mWakeLock, timeoutPosted, timedOut, countReset,
                      lostUpdate, clashed>>
  BY <1>2 DEF BooleansTyped
<1>3. ASSUME NEW t \in Threads, obtain(t) PROVE BooleansTyped'
  BY <1>3, Zenon DEF obtain, BooleansTyped
<1>4. ASSUME NEW t \in Threads, acquireWakeLock(t) PROVE BooleansTyped'
  BY <1>4, Zenon DEF acquireWakeLock, BooleansTyped
<1>5. ASSUME NEW t \in Threads, CountPending(t) PROVE BooleansTyped'
  BY <1>5, Zenon DEF CountPending, BooleansTyped
<1>6. CASE SenderWritesPending
  BY <1>6, Zenon DEF SenderWritesPending, BooleansTyped
<1>7. CASE SenderDone
  BY <1>7, Zenon DEF SenderDone, releaseWakeLockIfDone, BooleansTyped
<1>8. CASE SenderTakesTimeout
  BY <1>8, Zenon DEF SenderTakesTimeout, BooleansTyped
<1>9. CASE SenderHandlesTimeout
  BY <1>9, Zenon DEF SenderHandlesTimeout, BooleansTyped
<1>10. CASE Connect
  BY <1>10, Zenon DEF Connect, BooleansTyped
<1>11. CASE processUnsolicited
  BY <1>11, Zenon DEF processUnsolicited, releaseWakeLockIfDone, BooleansTyped
<1>12. CASE ReceiverDone
  BY <1>12, Zenon DEF ReceiverDone, releaseWakeLockIfDone, BooleansTyped
<1>13. CASE CloseSocket
  BY <1>13, Zenon DEF CloseSocket, BooleansTyped
<1>14. CASE DaemonHangsUp
  BY <1>14, Zenon DEF DaemonHangsUp, BooleansTyped
<1>15. CASE TimeoutResetsWaiting
  BY <1>15, Zenon DEF TimeoutResetsWaiting, BooleansTyped
<1>16. CASE clearRequestsList
  BY <1>16, Zenon DEF clearRequestsList, BooleansTyped
<1> QED
  BY <1>1, <1>2, <1>3, <1>4, <1>5, <1>6, <1>7, <1>8, <1>9, <1>10, <1>11, <1>12, <1>13, <1>14,
     <1>15, <1>16

\* The counts stay within their bounds.
LEMMA IssueStep == Typed /\ [Next]_vars => IssueTyped'
<1> SUFFICES ASSUME Typed, [Next]_vars PROVE IssueTyped'
  OBVIOUS
<1> USE DEF Typed, requestVars, issueVars, socketVars, listVars, wakeVars, historyVars
<1>1. \/ UNCHANGED <<issued, created, sNextSerial>>
      \/ (\E t \in Threads : obtain(t)) \/ resetSerial
  BY Zenon DEF Next, send, HandleSend, ReceiverStep, SendFails, SendGoesOn, acquireWakeLock,
     CountPending, Post, SenderFindsNoSocket, SenderTakes, SenderAdds, SenderReadsPending,
     SenderWritesPending, SenderMarshalls, SenderWrites, SenderFails, SenderDone,
     SenderTakesTimeout, TimeoutResetsWaiting, SenderHandlesTimeout, Connect, processUnsolicited,
     processSolicited, ReceiverReadsWaiting, ReceiverWritesWaiting, Answer, ReceiverDone,
     CloseSocket, ForgetSocket, clearRequestsList, DaemonHangsUp, vars
<1>2. CASE UNCHANGED <<issued, created, sNextSerial>>
  BY <1>2 DEF IssueTyped
<1>3. ASSUME NEW t \in Threads, obtain(t) PROVE IssueTyped'
  BY <1>3, RilClientAssumption DEF obtain, IssueTyped
<1>4. CASE resetSerial
  BY <1>4, RilClientAssumption DEF resetSerial, IssueTyped
<1> QED
  BY <1>1, <1>2, <1>3, <1>4

\* The object a request gets: a new one, or the first of the pool.
LEMMA ObtainedObject ==
  ASSUME Typed, issued < MaxRequests
  PROVE  (IF sPool = <<>> THEN created + 1 ELSE Head(sPool)) \in Objects
  BY HeadTailProperties, RilClientAssumption DEF Typed, IssueTyped, ObjectsTyped, Objects

\* The objects and the pool stay typed.
LEMMA ObjectsStep == Typed /\ [Next]_vars => ObjectsTyped'
<1> SUFFICES ASSUME Typed, [Next]_vars PROVE ObjectsTyped'
  OBVIOUS
<1> USE DEF Typed, requestVars, issueVars, socketVars, listVars, wakeVars, historyVars
<1>1. \/ UNCHANGED <<mSerial, mResult, mp, sPool>>
      \/ (\E t \in Threads : obtain(t)) \/ (\E t \in Threads : SendFails(t))
      \/ SenderFindsNoSocket \/ SenderMarshalls \/ SenderFails \/ Answer \/ clearRequestsList
  BY Zenon DEF Next, send, HandleSend, ReceiverStep, SendGoesOn, acquireWakeLock, CountPending,
     Post, SenderTakes, SenderAdds, SenderReadsPending, SenderWritesPending, SenderWrites,
     SenderDone, SenderTakesTimeout, TimeoutResetsWaiting, SenderHandlesTimeout, Connect,
     processUnsolicited, processSolicited, ReceiverReadsWaiting, ReceiverWritesWaiting,
     ReceiverDone, CloseSocket, ForgetSocket, resetSerial, DaemonHangsUp, vars
<1>2. CASE UNCHANGED <<mSerial, mResult, mp, sPool>>
  BY <1>2 DEF ObjectsTyped
<1>3. ASSUME NEW t \in Threads, obtain(t) PROVE ObjectsTyped'
  <2> DEFINE o == IF sPool = <<>> THEN created + 1 ELSE Head(sPool)
  <2>1. o \in Objects /\ issued + 1 \in Serials /\ sNextSerial \in Serials
    BY <1>3, ObtainedObject, RilClientAssumption DEF obtain, IssueTyped, Serials
  <2>2. /\ mSerial' = [mSerial EXCEPT ![o] = sNextSerial]
        /\ mResult' = [mResult EXCEPT ![o] = issued + 1] /\ mp' = [mp EXCEPT ![o] = issued + 1]
        /\ sPool' = IF sPool = <<>> THEN sPool ELSE Tail(sPool)
    BY <1>3 DEF obtain
  <2> HIDE DEF o
  <2>3. sPool' \in Seq(Objects) /\ Len(sPool') <= MAX_POOL_SIZE
    BY <2>2, HeadTailProperties, LenProperties, RilClientAssumption DEF ObjectsTyped
  <2> QED
    BY <2>1, <2>2, <2>3 DEF ObjectsTyped
<1>4. ASSUME NEW t \in Threads, SendFails(t) PROVE ObjectsTyped'
  <2>1. caller[t].rr \in Objects /\ Fail(<<caller[t].rr>>)
    BY <1>4 DEF SendFails, CallersTyped
  <2> QED
    BY <2>1, One, FailTyped
<1>5. CASE SenderFindsNoSocket
  <2>1. Head(queue) \in Objects /\ Fail(<<Head(queue)>>)
    BY <1>5, HeadTailProperties DEF SenderFindsNoSocket, QueueTyped
  <2> QED
    BY <2>1, One, FailTyped
<1>6. CASE SenderMarshalls
  BY <1>6, Numbers DEF SenderMarshalls, Recycled, ObjectsTyped
<1>7. CASE SenderFails
  <2>1. sender.rr \in Objects
    BY <1>7 DEF SenderFails, SenderTyped
  <2>2. UNCHANGED requestVars \/ Fail(<<sender.rr>>)
    BY <1>7 DEF SenderFails
  <2>3. CASE UNCHANGED requestVars
    BY <2>3 DEF ObjectsTyped
  <2> QED
    BY <2>1, <2>2, <2>3, One, FailTyped
<1>8. CASE Answer
  <2>1. receiver.rr \in Objects /\ Release(<<receiver.rr>>)
    BY <1>8 DEF Answer, ReceiverTyped, HasAnswer
  <2>2. mSerial' = mSerial /\ mp' \in [Objects -> Serials]
    BY <1>8, Numbers DEF Answer, Recycled, ObjectsTyped
  <2> QED
    BY <2>1, <2>2, One, ReleaseTyped DEF ObjectsTyped
<1>9. CASE clearRequestsList
  <2>1. mRequestsList \in Seq(Objects) /\ Fail(mRequestsList)
    BY <1>9 DEF clearRequestsList, ListTyped
  <2> QED
    BY <2>1, FailTyped
<1> QED
  BY <1>1, <1>2, <1>3, <1>4, <1>5, <1>6, <1>7, <1>8, <1>9

\* The results stay typed.
LEMMA ResultsStep == Typed /\ [Next]_vars => ResultsTyped'
<1> SUFFICES ASSUME Typed, [Next]_vars PROVE ResultsTyped'
  OBVIOUS
<1> USE DEF Typed, requestVars, issueVars, socketVars, listVars, wakeVars, historyVars
<1>1. \/ UNCHANGED <<results>>
      \/ (\E t \in Threads : SendFails(t)) \/ SenderFindsNoSocket \/ SenderFails \/ Answer
      \/ clearRequestsList
  BY Zenon DEF Next, send, HandleSend, ReceiverStep, obtain, SendGoesOn, acquireWakeLock,
     CountPending, Post, SenderTakes, SenderAdds, SenderReadsPending, SenderWritesPending,
     SenderMarshalls, SenderWrites, SenderDone, SenderTakesTimeout, TimeoutResetsWaiting,
     SenderHandlesTimeout, Connect, processUnsolicited, processSolicited, ReceiverReadsWaiting,
     ReceiverWritesWaiting, ReceiverDone, CloseSocket, ForgetSocket, resetSerial, DaemonHangsUp,
     vars
<1>2. CASE UNCHANGED <<results>>
  BY <1>2 DEF ResultsTyped
<1>3. ASSUME NEW t \in Threads, SendFails(t) PROVE ResultsTyped'
  <2>1. caller[t].rr \in Objects /\ Fail(<<caller[t].rr>>)
    BY <1>3 DEF SendFails, CallersTyped
  <2> QED
    BY <2>1, One, FailTyped
<1>4. CASE SenderFindsNoSocket
  <2>1. Head(queue) \in Objects /\ Fail(<<Head(queue)>>)
    BY <1>4, HeadTailProperties DEF SenderFindsNoSocket, QueueTyped
  <2> QED
    BY <2>1, One, FailTyped
<1>5. CASE SenderFails
  <2>1. sender.rr \in Objects
    BY <1>5 DEF SenderFails, SenderTyped
  <2>2. UNCHANGED requestVars \/ Fail(<<sender.rr>>)
    BY <1>5 DEF SenderFails
  <2>3. CASE UNCHANGED requestVars
    BY <2>3 DEF ResultsTyped
  <2> QED
    BY <2>1, <2>2, <2>3, One, FailTyped
<1>6. CASE Answer
  <2>1. receiver.of \in Serials /\ Report({receiver.rr}, receiver.of)
    BY <1>6 DEF Answer, ReceiverTyped, ReceiverType
  <2> QED
    BY <2>1, ReportTyped
<1>7. CASE clearRequestsList
  <2>1. mRequestsList \in Seq(Objects) /\ Fail(mRequestsList)
    BY <1>7 DEF clearRequestsList, ListTyped
  <2> QED
    BY <2>1, FailTyped
<1> QED
  BY <1>1, <1>2, <1>3, <1>4, <1>5, <1>6, <1>7

\* The connections stay within their bound.
LEMMA SocketStep == Typed /\ [Next]_vars => SocketTyped'
<1> SUFFICES ASSUME Typed, [Next]_vars PROVE SocketTyped'
  OBVIOUS
<1> USE DEF Typed, requestVars, issueVars, socketVars, listVars, wakeVars, historyVars
<1>1. \/ UNCHANGED <<conns, mSocket>>
      \/ Connect \/ ForgetSocket
  BY Zenon DEF Next, send, HandleSend, ReceiverStep, obtain, SendFails, SendGoesOn,
     acquireWakeLock, CountPending, Post, SenderFindsNoSocket, SenderTakes, SenderAdds,
     SenderReadsPending, SenderWritesPending, SenderMarshalls, SenderWrites, SenderFails,
     SenderDone, SenderTakesTimeout, TimeoutResetsWaiting, SenderHandlesTimeout,
     processUnsolicited, processSolicited, ReceiverReadsWaiting, ReceiverWritesWaiting, Answer,
     ReceiverDone, CloseSocket, resetSerial, clearRequestsList, DaemonHangsUp, vars
<1>2. CASE UNCHANGED <<conns, mSocket>>
  BY <1>2 DEF SocketTyped
<1>3. CASE Connect
  BY <1>3, RilClientAssumption, Numbers DEF Connect, Connections, SocketTyped
<1>4. CASE ForgetSocket
  BY <1>4 DEF ForgetSocket, SocketTyped
<1> QED
  BY <1>1, <1>2, <1>3, <1>4

\* The daemon is sent requests with their serial numbers.
LEMMA ReceivedStep == Typed /\ [Next]_vars => ReceivedTyped'
<1> SUFFICES ASSUME Typed, [Next]_vars PROVE ReceivedTyped'
  OBVIOUS
<1> USE DEF Typed, requestVars, issueVars, socketVars, listVars, wakeVars, historyVars
<1>1. \/ UNCHANGED <<received>>
      \/ SenderWrites \/ processSolicited \/ CloseSocket
  BY Zenon DEF Next, send, HandleSend, ReceiverStep, obtain, SendFails, SendGoesOn,
     acquireWakeLock, CountPending, Post, SenderFindsNoSocket, SenderTakes, SenderAdds,
     SenderReadsPending, SenderWritesPending, SenderMarshalls, SenderFails, SenderDone,
     SenderTakesTimeout, TimeoutResetsWaiting, SenderHandlesTimeout, Connect, processUnsolicited,
     ReceiverReadsWaiting, ReceiverWritesWaiting, Answer, ReceiverDone, ForgetSocket, resetSerial, clearRequestsList, DaemonHangsUp, vars
<1>2. CASE UNCHANGED <<received>>
  BY <1>2 DEF ReceivedTyped
<1>3. CASE SenderWrites
  <2> DEFINE m == [serial |-> mSerial[sender.rr], of |-> sender.data]
  <2>1. UNCHANGED received \/ (sender.pc = "write" /\ received' = received \cup {m})
    BY <1>3, Zenon DEF SenderWrites
  <2>2. sender.pc = "write" => m \in MessageType
    BY Numbers DEF SenderTyped, SenderType, ObjectsTyped, MessageType
  <2> QED
    BY <2>1, <2>2 DEF ReceivedTyped
<1>4. CASE processSolicited
  BY <1>4 DEF processSolicited, ReceivedTyped
<1>5. CASE CloseSocket
  BY <1>5 DEF CloseSocket, ReceivedTyped
<1> QED
  BY <1>1, <1>2, <1>3, <1>4, <1>5

\* The list and its count stay typed.
LEMMA ListStep == Typed /\ [Next]_vars => ListTyped'
<1> SUFFICES ASSUME Typed, [Next]_vars PROVE ListTyped'
  OBVIOUS
<1> USE DEF Typed, requestVars, issueVars, socketVars, listVars, wakeVars, historyVars
<1>1. \/ UNCHANGED <<mRequestsList, mRequestMessagesWaiting>>
      \/ SenderAdds \/ SenderFails \/ TimeoutResetsWaiting \/ processSolicited
      \/ ReceiverWritesWaiting \/ clearRequestsList
  BY Zenon DEF Next, send, HandleSend, ReceiverStep, obtain, SendFails, SendGoesOn,
     acquireWakeLock, CountPending, Post, SenderFindsNoSocket, SenderTakes, SenderReadsPending,
     SenderWritesPending, SenderMarshalls, SenderWrites, SenderDone, SenderTakesTimeout,
     SenderHandlesTimeout, Connect, processUnsolicited, ReceiverReadsWaiting, Answer,
     ReceiverDone, CloseSocket, ForgetSocket, resetSerial, DaemonHangsUp, vars
<1>2. CASE UNCHANGED <<mRequestsList, mRequestMessagesWaiting>>
  BY <1>2 DEF ListTyped
<1>3. CASE SenderAdds
  BY <1>3, AppendProperties DEF SenderAdds, SenderTyped, ListTyped
<1>4. CASE SenderFails
  <2>1. \/ UNCHANGED listVars
        \/ Matching(mSerial[sender.rr]) # 0 /\ RemoveRequest(Matching(mSerial[sender.rr]))
    BY <1>4, Zenon DEF SenderFails
  <2>2. CASE UNCHANGED listVars
    BY <2>2 DEF ListTyped
  <2>3. CASE Matching(mSerial[sender.rr]) # 0 /\ RemoveRequest(Matching(mSerial[sender.rr]))
    BY <2>3, MatchingPlace, RemoveTyped DEF ListTyped
  <2> QED
    BY <2>1, <2>2, <2>3
<1>5. CASE TimeoutResetsWaiting
  BY <1>5 DEF TimeoutResetsWaiting, ListTyped
<1>6. CASE processSolicited
  <2>1. PICK m \in received : LET i == Matching(m.serial) IN
                             IF i = 0 THEN UNCHANGED mRequestsList
                             ELSE mRequestsList' = RemoveAt(mRequestsList, i)
    BY <1>6, Zenon DEF processSolicited
  <2>2. UNCHANGED mRequestMessagesWaiting
    BY <1>6 DEF processSolicited
  <2>3. CASE Matching(m.serial) = 0
    BY <2>1, <2>2, <2>3 DEF ListTyped
  <2>4. CASE Matching(m.serial) # 0
    BY <2>1, <2>2, <2>4, MatchingPlace, RemoveAtTyped DEF ListTyped
  <2> QED
    BY <2>3, <2>4
<1>7. CASE ReceiverWritesWaiting
  <2>1. receiver.read \in Int
    BY DEF ReceiverTyped, ReceiverType
  <2>2. mRequestMessagesWaiting' = receiver.read - 1 /\ UNCHANGED mRequestsList
    BY <1>7 DEF ReceiverWritesWaiting
  <2> QED
    BY <2>1, <2>2 DEF ListTyped
<1>8. CASE clearRequestsList
  BY <1>8 DEF clearRequestsList, ListTyped
<1> QED
  BY <1>1, <1>2, <1>3, <1>4, <1>5, <1>6, <1>7, <1>8

\* The other count is never negative.
LEMMA PendingStep == Typed /\ [Next]_vars => PendingTyped'
<1> SUFFICES ASSUME Typed, [Next]_vars PROVE PendingTyped'
  OBVIOUS
<1> USE DEF Typed, requestVars, issueVars, socketVars, listVars, wakeVars, historyVars
<1>1. \/ UNCHANGED <<mRequestMessagesPending>>
      \/ (\E t \in Threads : CountPending(t)) \/ SenderWritesPending \/ SenderHandlesTimeout
  BY Zenon DEF Next, send, HandleSend, ReceiverStep, obtain, SendFails, SendGoesOn,
     acquireWakeLock, Post, SenderFindsNoSocket, SenderTakes, SenderAdds, SenderReadsPending,
     SenderMarshalls, SenderWrites, SenderFails, SenderDone, SenderTakesTimeout,
     TimeoutResetsWaiting, Connect, processUnsolicited, processSolicited, ReceiverReadsWaiting, ReceiverWritesWaiting, Answer,
     ReceiverDone, CloseSocket, ForgetSocket, resetSerial, clearRequestsList, DaemonHangsUp, vars
<1>2. CASE UNCHANGED <<mRequestMessagesPending>>
  BY <1>2 DEF PendingTyped
<1>3. ASSUME NEW t \in Threads, CountPending(t) PROVE PendingTyped'
  BY <1>3 DEF CountPending, CallersTyped, CallerType, PendingTyped
<1>4. CASE SenderWritesPending
  <2>1. sender.read \in Nat /\ sender.read > 0 /\ mRequestMessagesPending' = sender.read - 1
    BY <1>4 DEF SenderWritesPending, SenderTyped, SenderType
  <2> QED
    BY <2>1 DEF PendingTyped
<1>5. CASE SenderHandlesTimeout
  BY <1>5 DEF SenderHandlesTimeout, PendingTyped
<1> QED
  BY <1>1, <1>2, <1>3, <1>4, <1>5

\* Requests are queued.
LEMMA QueueStep == Typed /\ [Next]_vars => QueueTyped'
<1> SUFFICES ASSUME Typed, [Next]_vars PROVE QueueTyped'
  OBVIOUS
<1> USE DEF Typed, requestVars, issueVars, socketVars, listVars, wakeVars, historyVars
<1>1. \/ UNCHANGED <<queue>>
      \/ (\E t \in Threads : Post(t)) \/ SenderFindsNoSocket \/ SenderTakes
  BY Zenon DEF Next, send, HandleSend, ReceiverStep, obtain, SendFails, SendGoesOn,
     acquireWakeLock, CountPending, SenderAdds, SenderReadsPending, SenderWritesPending,
     SenderMarshalls, SenderWrites, SenderFails, SenderDone, SenderTakesTimeout,
     TimeoutResetsWaiting, SenderHandlesTimeout, Connect, processUnsolicited, processSolicited,
     ReceiverReadsWaiting, ReceiverWritesWaiting, Answer, ReceiverDone, CloseSocket, ForgetSocket,
     resetSerial, clearRequestsList, DaemonHangsUp, vars
<1>2. CASE UNCHANGED <<queue>>
  BY <1>2 DEF QueueTyped
<1>3. ASSUME NEW t \in Threads, Post(t) PROVE QueueTyped'
  BY <1>3, AppendProperties DEF Post, CallersTyped, QueueTyped
<1>4. CASE SenderFindsNoSocket
  BY <1>4, HeadTailProperties DEF SenderFindsNoSocket, QueueTyped
<1>5. CASE SenderTakes
  BY <1>5, HeadTailProperties DEF SenderTakes, QueueTyped
<1> QED
  BY <1>1, <1>2, <1>3, <1>4, <1>5

\* A thread in send has its request.
LEMMA CallersStep == Typed /\ [Next]_vars => CallersTyped'
<1> SUFFICES ASSUME Typed, [Next]_vars PROVE CallersTyped'
  OBVIOUS
<1> USE DEF Typed, requestVars, issueVars, socketVars, listVars, wakeVars, historyVars
<1>1. \/ UNCHANGED <<caller>>
      \/ (\E t \in Threads : obtain(t)) \/ (\E t \in Threads : SendFails(t))
      \/ (\E t \in Threads : SendGoesOn(t)) \/ (\E t \in Threads : acquireWakeLock(t))
      \/ (\E t \in Threads : CountPending(t)) \/ (\E t \in Threads : Post(t))
  BY Zenon DEF Next, send, HandleSend, ReceiverStep, SenderFindsNoSocket, SenderTakes, SenderAdds,
     SenderReadsPending, SenderWritesPending, SenderMarshalls, SenderWrites, SenderFails,
     SenderDone, SenderTakesTimeout, TimeoutResetsWaiting, SenderHandlesTimeout, Connect,
     processUnsolicited, processSolicited, ReceiverReadsWaiting, ReceiverWritesWaiting, Answer,
     ReceiverDone, CloseSocket, ForgetSocket, resetSerial, clearRequestsList, DaemonHangsUp, vars
<1>2. CASE UNCHANGED <<caller>>
  BY <1>2 DEF CallersTyped
<1>3. ASSUME NEW t \in Threads, obtain(t) PROVE CallersTyped'
  <2>1. PICK o \in Objects : caller' = [caller EXCEPT ![t] = [CallerIdle EXCEPT !.pc = "send", !.rr = o]]
    BY <1>3, ObtainedObject DEF obtain
  <2> QED
    BY <2>1, Numbers DEF CallersTyped, CallerType, CallerIdle
<1>4. ASSUME NEW t \in Threads, SendFails(t) PROVE CallersTyped'
  BY <1>4, Numbers DEF SendFails, CallerType, CallerIdle, CallersTyped
<1>5. ASSUME NEW t \in Threads, SendGoesOn(t) PROVE CallersTyped'
  BY <1>5 DEF SendGoesOn, CallerType, CallerIdle, CallersTyped
<1>6. ASSUME NEW t \in Threads, acquireWakeLock(t) PROVE CallersTyped'
  BY <1>6 DEF acquireWakeLock, CallerType, CallerIdle, PendingTyped, CallersTyped
<1>7. ASSUME NEW t \in Threads, CountPending(t) PROVE CallersTyped'
  BY <1>7 DEF CountPending, CallerType, CallerIdle, CallersTyped
<1>8. ASSUME NEW t \in Threads, Post(t) PROVE CallersTyped'
  BY <1>8, Numbers DEF Post, CallerType, CallerIdle, CallersTyped
<1> QED
  BY <1>1, <1>2, <1>3, <1>4, <1>5, <1>6, <1>7, <1>8

\* What the sender remembers has its type.
LEMMA SenderOfType ==
  ASSUME NEW pc \in {"idle", "add", "subtract", "write pending", "marshall", "write", "error",
                     "done", "timeout", "log"},
         NEW rr \in Serials, NEW s \in Connections, NEW read \in Nat, NEW data \in Serials
  PROVE  [pc |-> pc, rr |-> rr, s |-> s, read |-> read, data |-> data] \in SenderType
  BY DEF SenderType

\* The sender has a request to fail.
LEMMA ErrorTyped ==
  ASSUME NEW rr \in Objects, sender' = [SenderIdle EXCEPT !.pc = "error", !.rr = rr]
  PROVE  SenderTyped' /\ sender'.pc = "error" /\ sender'.rr = rr
<1>1. sender' = [pc |-> "error", rr |-> rr, s |-> 0, read |-> 0, data |-> 0]
  BY DEF SenderIdle
<1>2. rr \in Serials /\ 0 \in Serials /\ 0 \in Connections
  BY Numbers, Zenon
<1>3. sender' \in SenderType
  <2>1. 0 \in Nat
    OBVIOUS
  <2>2. "error" \in {"idle", "add", "subtract", "write pending", "marshall", "write", "error",
                     "done", "timeout", "log"}
    OBVIOUS
  <2>3. [pc |-> "error", rr |-> rr, s |-> 0, read |-> 0, data |-> 0] \in SenderType
    BY <1>2, <2>1, <2>2, SenderOfType, Zenon
  <2> QED
    BY <1>1, <2>3, Zenon
<1> QED
  BY <1>1, <1>3, Zenon DEF SenderTyped


\* The sender has its request when it needs it.
LEMMA SenderStep == Typed /\ [Next]_vars => SenderTyped'
<1> SUFFICES ASSUME Typed, [Next]_vars PROVE SenderTyped'
  OBVIOUS
<1> USE DEF Typed, requestVars, issueVars, socketVars, listVars, wakeVars, historyVars
<1>1. \/ UNCHANGED <<sender>>
      \/ SenderFindsNoSocket \/ SenderTakes \/ SenderAdds \/ SenderReadsPending
      \/ SenderWritesPending \/ SenderMarshalls \/ SenderWrites \/ SenderFails \/ SenderDone
      \/ SenderTakesTimeout \/ TimeoutResetsWaiting \/ SenderHandlesTimeout
  BY Zenon DEF Next, send, HandleSend, ReceiverStep, obtain, SendFails, SendGoesOn,
     acquireWakeLock, CountPending, Post, Connect, processUnsolicited, processSolicited,
     ReceiverReadsWaiting, ReceiverWritesWaiting, Answer, ReceiverDone, CloseSocket, ForgetSocket,
     resetSerial, clearRequestsList, DaemonHangsUp, vars
<1>2. CASE UNCHANGED <<sender>>
  BY <1>2 DEF SenderTyped
<1>3. CASE SenderFindsNoSocket
  BY <1>3, Numbers DEF SenderFindsNoSocket, SenderType, SenderIdle, SenderTyped
<1>4. CASE SenderTakes
  BY <1>4, Numbers, HeadTailProperties DEF SenderTakes, SenderType, SenderIdle, QueueTyped,
     SocketTyped, SenderTyped
<1>5. CASE SenderAdds
  BY <1>5 DEF SenderAdds, SenderType, SenderIdle, SenderTyped
<1>6. CASE SenderReadsPending
  BY <1>6, Numbers DEF SenderReadsPending, SenderType, SenderIdle, AfterSubtract, PendingTyped,
     SenderTyped
<1>7. CASE SenderWritesPending
  BY <1>7, Numbers DEF SenderWritesPending, SenderType, SenderIdle, AfterSubtract, SenderTyped
<1>8. CASE SenderMarshalls
  <2>1. sender.rr \in Objects
    BY <1>8 DEF SenderMarshalls, SenderTyped
  <2>2. \/ sender' = [SenderIdle EXCEPT !.pc = "error", !.rr = sender.rr]
        \/ mp[sender.rr] # 0 /\ sender' = [sender EXCEPT !.pc = "write", !.data = mp[sender.rr]]
    BY <1>8, Zenon DEF SenderMarshalls
  <2>3. CASE mp[sender.rr] # 0 /\ sender' = [sender EXCEPT !.pc = "write", !.data = mp[sender.rr]]
    <3>1. mp[sender.rr] \in Serials
      BY <2>1 DEF ObjectsTyped
    <3> QED
      BY <2>1, <2>3, <3>1 DEF SenderType, SenderTyped
  <2> QED
    BY <2>1, <2>2, <2>3, ErrorTyped
<1>9. CASE SenderWrites
  <2>1. sender.rr \in Objects
    BY <1>9 DEF SenderWrites, SenderTyped
  <2>2. \/ sender' = [SenderIdle EXCEPT !.pc = "done"]
        \/ sender' = [SenderIdle EXCEPT !.pc = "error", !.rr = sender.rr]
    BY <1>9, Zenon DEF SenderWrites
  <2>3. CASE sender' = [SenderIdle EXCEPT !.pc = "done"]
    BY <2>3, Numbers DEF SenderType, SenderIdle, SenderTyped
  <2> QED
    BY <2>1, <2>2, <2>3, ErrorTyped
<1>10. CASE SenderFails
  BY <1>10, Numbers DEF SenderFails, SenderType, SenderIdle, SenderTyped
<1>11. CASE SenderDone
  BY <1>11, Numbers DEF SenderDone, SenderType, SenderIdle, SenderTyped
<1>12. CASE SenderTakesTimeout
  BY <1>12, Numbers DEF SenderTakesTimeout, SenderType, SenderIdle, SenderTyped
<1>13. CASE SenderHandlesTimeout
  BY <1>13, Numbers DEF SenderHandlesTimeout, SenderType, SenderIdle, SenderTyped
<1>14. CASE TimeoutResetsWaiting
  BY <1>14, Numbers DEF TimeoutResetsWaiting, SenderType, SenderIdle, SenderTyped
<1> QED
  BY <1>1, <1>2, <1>3, <1>4, <1>5, <1>6, <1>7, <1>8, <1>9, <1>10, <1>11, <1>12, <1>13, <1>14

\* What the receiver remembers has its type.
LEMMA ReceiverOfType ==
  ASSUME NEW pc \in {"connect", "read", "decrement", "write waiting", "answer", "done", "forget",
                     "reset", "clear"},
         NEW rr \in Serials, NEW of \in Serials, NEW read \in Int
  PROVE  [pc |-> pc, rr |-> rr, of |-> of, read |-> read] \in ReceiverType
  BY DEF ReceiverType

\* The receiver has no request, or has one.
LEMMA IdleTyped ==
  ASSUME NEW pc \in {"connect", "read", "done", "forget", "reset", "clear"},
         receiver' = ReceiverIdle(pc)
  PROVE  ReceiverTyped' /\ ~HasAnswer' /\ ~ListLocked' /\ receiver'.pc = pc /\ receiver'.rr = 0
<1>2. receiver' \in ReceiverType
  <2>1. 0 \in Serials
    BY Numbers, Zenon
  <2>2. 0 \in Int
    OBVIOUS
  <2> QED
    BY <2>1, <2>2, ReceiverOfType, Zenon DEF ReceiverIdle
<1>3. ~HasAnswer' /\ ~ListLocked'
  BY DEF ReceiverIdle, HasAnswer, ListLocked
<1>4. receiver'.pc = pc /\ receiver'.rr = 0
  BY DEF ReceiverIdle
<1> QED
  BY <1>2, <1>3, <1>4, Zenon DEF ReceiverTyped

LEMMA AnsweringTyped ==
  ASSUME NEW pc \in {"decrement", "write waiting", "answer"}, NEW rr \in Objects,
         NEW of \in Serials, NEW read \in Int,
         receiver' = [pc |-> pc, rr |-> rr, of |-> of, read |-> read]
  PROVE  ReceiverTyped' /\ HasAnswer' /\ receiver'.pc = pc /\ receiver'.rr = rr
         /\ receiver'.of = of /\ receiver'.read = read
<1>1. receiver' \in ReceiverType
  BY Numbers DEF ReceiverType
<1>2. HasAnswer'
  BY DEF HasAnswer
<1> QED
  BY <1>1, <1>2 DEF ReceiverTyped

\* What the receiver does with a request between its answers.
LEMMA ReceiverCounts ==
  ASSUME ReceiverTyped, ListTyped
  PROVE  /\ ReceiverReadsWaiting =>
              receiver' = [pc |-> "write waiting", rr |-> receiver.rr, of |-> receiver.of,
                           read |-> mRequestMessagesWaiting]
         /\ ReceiverWritesWaiting =>
              receiver' = [pc |-> "answer", rr |-> receiver.rr, of |-> receiver.of, read |-> 0]
         /\ ReceiverReadsWaiting \/ ReceiverWritesWaiting =>
              receiver.rr \in Objects /\ receiver.of \in Serials
         /\ receiver.read \in Int
<1>1. receiver \in ReceiverType /\ receiver.of \in Serials /\ receiver.read \in Int
  BY DEF ReceiverTyped, ReceiverType
<1>2. ReceiverReadsWaiting \/ ReceiverWritesWaiting => receiver.rr \in Objects
  BY DEF ReceiverReadsWaiting, ReceiverWritesWaiting, ReceiverTyped, HasAnswer
<1>3. ReceiverReadsWaiting =>
        receiver' = [pc |-> "write waiting", rr |-> receiver.rr, of |-> receiver.of,
                     read |-> mRequestMessagesWaiting]
  BY <1>1 DEF ReceiverReadsWaiting, ReceiverType
<1>4. ReceiverWritesWaiting =>
        receiver' = [pc |-> "answer", rr |-> receiver.rr, of |-> receiver.of, read |-> 0]
  BY <1>1 DEF ReceiverWritesWaiting, ReceiverType
<1> QED
  BY <1>1, <1>2, <1>3, <1>4

\* The request that a response answers.
LEMMA Solicited ==
  ASSUME Typed, processSolicited
  PROVE  \E m \in received :
           /\ received' = received \ {m}
           /\ \/ Matching(m.serial) = 0 /\ receiver' = ReceiverIdle("done") /\ UNCHANGED mRequestsList
              \/ /\ Matching(m.serial) # 0 /\ Matching(m.serial) \in 1 .. Len(mRequestsList)
                 /\ mSerial[mRequestsList[Matching(m.serial)]] = m.serial
                 /\ mRequestsList' = RemoveAt(mRequestsList, Matching(m.serial))
                 /\ ReceiverTyped' /\ HasAnswer'
                 /\ receiver'.pc = IF mRequestMessagesWaiting > 0 THEN "decrement" ELSE "answer"
                 /\ receiver'.rr = mRequestsList[Matching(m.serial)] /\ receiver'.of = m.of
<1> USE DEF Typed
<1>1. PICK m \in received :
        /\ received' = received \ {m}
        /\ LET i == Matching(m.serial) IN
             IF i = 0
             THEN receiver' = ReceiverIdle("done") /\ UNCHANGED mRequestsList
             ELSE /\ receiver' = [pc |-> IF mRequestMessagesWaiting > 0 THEN "decrement"
                                        ELSE "answer",
                                 rr |-> mRequestsList[i], of |-> m.of, read |-> 0]
                  /\ mRequestsList' = RemoveAt(mRequestsList, i)
  BY Zenon DEF processSolicited
<1> DEFINE i == Matching(m.serial)
<1>2. CASE i = 0
  BY <1>1, <1>2
<1>3. CASE i # 0
  <2>1. /\ receiver' = [pc |-> IF mRequestMessagesWaiting > 0 THEN "decrement" ELSE "answer",
                        rr |-> mRequestsList[i], of |-> m.of, read |-> 0]
        /\ mRequestsList' = RemoveAt(mRequestsList, i)
    BY <1>1, <1>3
  <2>2. i \in 1 .. Len(mRequestsList) /\ mSerial[mRequestsList[i]] = m.serial
    BY <1>3, MatchingPlace DEF ListTyped
  <2> HIDE DEF i
  <2>3. mRequestsList[i] \in Objects
    BY <2>2, ElementOfSeq DEF ListTyped
  <2>4. m.of \in Serials
    BY Numbers DEF ReceivedTyped, MessageType
  <2> DEFINE pc == IF mRequestMessagesWaiting > 0 THEN "decrement" ELSE "answer"
  <2>5. pc \in {"decrement", "write waiting", "answer"} /\ 0 \in Int
    OBVIOUS
  <2>6. receiver' = [pc |-> pc, rr |-> mRequestsList[i], of |-> m.of, read |-> 0]
    BY <2>1
  <2> HIDE DEF pc
  <2>7. /\ ReceiverTyped' /\ HasAnswer' /\ receiver'.pc = pc
        /\ receiver'.rr = mRequestsList[i] /\ receiver'.of = m.of
    BY <2>3, <2>4, <2>5, <2>6, AnsweringTyped
  <2> QED
    BY <1>1, <1>3, <2>1, <2>2, <2>7, Zenon DEF i, pc
<1> QED
  BY <1>2, <1>3

\* The receiver has the request it answers.
LEMMA AnswererStep == Typed /\ [Next]_vars => ReceiverTyped'
<1> SUFFICES ASSUME Typed, [Next]_vars PROVE ReceiverTyped'
  OBVIOUS
<1> USE DEF Typed, requestVars, issueVars, socketVars, listVars, wakeVars, historyVars
<1>1. \/ UNCHANGED <<receiver>>
      \/ Connect \/ processSolicited \/ ReceiverReadsWaiting \/ ReceiverWritesWaiting \/ Answer
      \/ ReceiverDone \/ CloseSocket \/ ForgetSocket \/ resetSerial \/ clearRequestsList
  BY Zenon DEF Next, send, HandleSend, ReceiverStep, obtain, SendFails, SendGoesOn,
     acquireWakeLock, CountPending, Post, SenderFindsNoSocket, SenderTakes, SenderAdds,
     SenderReadsPending, SenderWritesPending, SenderMarshalls, SenderWrites, SenderFails,
     SenderDone, SenderTakesTimeout, TimeoutResetsWaiting, SenderHandlesTimeout,
     processUnsolicited, DaemonHangsUp, vars
<1>2. CASE UNCHANGED <<receiver>>
  BY <1>2 DEF ReceiverTyped, HasAnswer
<1>3. CASE Connect \/ Answer \/ ReceiverDone \/ CloseSocket \/ ForgetSocket \/ resetSerial
           \/ clearRequestsList
  <2>1. \E pc \in {"connect", "read", "done", "forget", "reset", "clear"} :
          receiver' = ReceiverIdle(pc)
    BY <1>3, Zenon DEF Connect, Answer, ReceiverDone, CloseSocket, ForgetSocket, resetSerial,
       clearRequestsList
  <2> QED
    BY <2>1, IdleTyped
<1>4. CASE processSolicited
  BY <1>4, Solicited, IdleTyped, Zenon
<1>5. CASE ReceiverReadsWaiting \/ ReceiverWritesWaiting
  <2>1. mRequestMessagesWaiting \in Int /\ 0 \in Int
    BY DEF ListTyped
  <2> QED
    BY <1>5, <2>1, ReceiverCounts, AnsweringTyped
<1> QED
  BY <1>1, <1>2, <1>3, <1>4, <1>5

\* The monitor is held by the thread that counts.
LEMMA MonitorStep == Typed /\ [Next]_vars => MonitorHeld'
<1> SUFFICES ASSUME Typed, [Next]_vars PROVE MonitorHeld'
  OBVIOUS
<1> USE DEF Typed, requestVars, issueVars, socketVars, listVars, wakeVars, historyVars
<1>1. \/ UNCHANGED <<caller, lockedBy>>
      \/ (\E t \in Threads : obtain(t)) \/ (\E t \in Threads : SendFails(t))
      \/ (\E t \in Threads : SendGoesOn(t)) \/ (\E t \in Threads : acquireWakeLock(t))
      \/ (\E t \in Threads : CountPending(t)) \/ (\E t \in Threads : Post(t))
  BY Zenon DEF releaseWakeLockIfDone, Next, send, HandleSend, ReceiverStep, SenderFindsNoSocket,
     SenderTakes, SenderAdds, SenderReadsPending, SenderWritesPending, SenderMarshalls,
     SenderWrites, SenderFails, SenderDone, SenderTakesTimeout, TimeoutResetsWaiting,
     SenderHandlesTimeout, Connect, processUnsolicited, processSolicited, ReceiverReadsWaiting,
     ReceiverWritesWaiting, Answer, ReceiverDone, CloseSocket, ForgetSocket, resetSerial,
     clearRequestsList, DaemonHangsUp, vars
<1>2. CASE UNCHANGED <<caller, lockedBy>>
  BY <1>2 DEF MonitorHeld
<1>3. ASSUME NEW t \in Threads, obtain(t) PROVE MonitorHeld'
  <2>1. lockedBy' = lockedBy /\ \A u \in Threads : caller'[u].pc = "count" <=> caller[u].pc = "count"
    BY <1>3 DEF obtain, CallersTyped, CallerType, CallerIdle
  <2> QED
    BY <2>1 DEF MonitorHeld
<1>4. ASSUME NEW t \in Threads, SendFails(t) PROVE MonitorHeld'
  BY <1>4, RilClientAssumption DEF SendFails, CallersTyped, CallerType, CallerIdle, MonitorHeld
<1>5. ASSUME NEW t \in Threads, SendGoesOn(t) PROVE MonitorHeld'
  BY <1>5, RilClientAssumption DEF SendGoesOn, CallersTyped, CallerType, CallerIdle, MonitorHeld
<1>6. ASSUME NEW t \in Threads, acquireWakeLock(t) PROVE MonitorHeld'
  BY <1>6, RilClientAssumption DEF acquireWakeLock, LockFree, CallersTyped, CallerType,
     CallerIdle, MonitorHeld
<1>7. ASSUME NEW t \in Threads, CountPending(t) PROVE MonitorHeld'
  BY <1>7, RilClientAssumption DEF CountPending, CallersTyped, CallerType, CallerIdle,
     MonitorHeld
<1>8. ASSUME NEW t \in Threads, Post(t) PROVE MonitorHeld'
  BY <1>8, RilClientAssumption DEF Post, CallersTyped, CallerType, CallerIdle, MonitorHeld
<1> QED
  BY <1>1, <1>2, <1>3, <1>4, <1>5, <1>6, <1>7, <1>8

LEMMA TypedStep == Typed /\ [Next]_vars => Typed'
  BY BooleansStep, IssueStep, ObjectsStep, ResultsStep, SocketStep, ReceivedStep, ListStep,
     PendingStep, QueueStep, CallersStep, SenderStep, AnswererStep, MonitorStep DEF Typed

\* The variables of RIL.java hold values of their types, mRequestMessagesPending is not
\* negative and the pool does not outgrow its size.
THEOREM TypeCorrect == Spec => []RcTypeOK
<1> QED
  BY TypedInit, TypedStep, TypedImpliesTypeOK, PTL DEF Spec

-----------------------------------------------------------------------------
(* The list and its count. *)

\* The invariant behind it: between the receiver's look at the count and its write the
\* list is locked, so that only a time-out changes the count.
CountingDown ==
  /\ receiver.pc = "decrement" => mRequestMessagesWaiting >= 0
  /\ receiver.pc = "write waiting" =>
       /\ 0 <= receiver.read /\ receiver.read <= Len(mRequestsList) + 1
       /\ ~countReset => receiver.read = mRequestMessagesWaiting

WaitingInv == WaitingMatchesList /\ (countReset => timedOut) /\ CountingDown

LEMMA WaitingInit == Init => WaitingInv
<1> SUFFICES ASSUME Init PROVE WaitingInv
  OBVIOUS
<1>1. /\ mRequestsList = <<>> /\ Len(mRequestsList) = 0 /\ mRequestMessagesWaiting = 0
      /\ ~countReset /\ receiver.pc = "connect"
  BY EmptySeq DEF Init, ReceiverIdle
<1>2. Counting = 0 /\ CountingDown
  BY <1>1 DEF Counting, ListLocked, CountingDown
<1>3. WaitingMatchesList
  BY <1>1, <1>2 DEF WaitingMatchesList
<1> QED
  BY <1>1, <1>2, <1>3 DEF WaitingInv

\* While the list is not locked only its own size matters.
LEMMA NotCounting ==
  ASSUME ~ListLocked, ~ListLocked' PROVE Counting = 0 /\ Counting' = 0 /\ CountingDown'
  BY Zenon DEF Counting, ListLocked, CountingDown

\* Another thread takes a request off the list, with the count.
LEMMA WaitingRemoved ==
  ASSUME Typed, WaitingInv, ~ListLocked, UNCHANGED <<receiver, countReset, timedOut>>,
         NEW serial, Matching(serial) # 0, RemoveRequest(Matching(serial))
  PROVE  WaitingInv'
<1>1. Matching(serial) \in 1 .. Len(mRequestsList)
  BY MatchingPlace DEF Typed, ListTyped
<1>2. /\ Len(mRequestsList') = Len(mRequestsList) - 1 /\ Len(mRequestsList) \in Nat \ {0}
      /\ mRequestMessagesWaiting \in Int
      /\ mRequestMessagesWaiting' =
           IF mRequestMessagesWaiting > 0 THEN mRequestMessagesWaiting - 1
           ELSE mRequestMessagesWaiting
  BY <1>1, LenProperties, RemoveTyped DEF Typed, ListTyped
<1>3. ~ListLocked'
  BY DEF ListLocked
<1>4. WaitingMatchesList
  BY DEF WaitingInv
<1>5. WaitingMatchesList'
  BY <1>2, <1>3, <1>4, NotCounting DEF WaitingMatchesList
<1> QED
  BY <1>3, <1>5, NotCounting DEF WaitingInv

\* A request goes on the list and off it with the count, until a time-out resets that.
LEMMA WaitingStep == Typed /\ WaitingInv /\ [Next]_vars => WaitingInv'
<1> SUFFICES ASSUME Typed, WaitingInv, [Next]_vars PROVE WaitingInv'
  OBVIOUS
<1> USE DEF Typed, requestVars, issueVars, socketVars, listVars, wakeVars, historyVars
<1>1. \/ UNCHANGED <<mRequestsList, mRequestMessagesWaiting, timedOut, countReset, receiver>>
      \/ SenderAdds \/ SenderFails \/ TimeoutResetsWaiting \/ SenderHandlesTimeout
      \/ Connect \/ processSolicited \/ ReceiverReadsWaiting \/ ReceiverWritesWaiting \/ Answer
      \/ ReceiverDone \/ CloseSocket \/ ForgetSocket \/ resetSerial \/ clearRequestsList
  BY Zenon DEF Next, send, HandleSend, ReceiverStep, obtain, SendFails, SendGoesOn,
     acquireWakeLock, CountPending, Post, SenderFindsNoSocket, SenderTakes, SenderReadsPending,
     SenderWritesPending, SenderMarshalls, SenderWrites, SenderDone, SenderTakesTimeout,
     processUnsolicited, DaemonHangsUp, vars
<1>2. Len(mRequestsList) \in Nat /\ mRequestMessagesWaiting \in Int
  BY LenProperties DEF ListTyped
<1>3. WaitingMatchesList /\ (countReset => timedOut) /\ CountingDown
  BY DEF WaitingInv
<1>4. CASE UNCHANGED <<mRequestsList, mRequestMessagesWaiting, timedOut, countReset, receiver>>
  BY <1>4, Zenon DEF WaitingInv, WaitingMatchesList, CountingDown, Counting, ListLocked
<1>5. CASE SenderAdds
  <2>1. /\ sender.rr \in Objects /\ ~ListLocked /\ UNCHANGED <<timedOut, countReset, receiver>>
        /\ mRequestsList' = Append(mRequestsList, sender.rr)
        /\ mRequestMessagesWaiting' = mRequestMessagesWaiting + 1
    BY <1>5 DEF SenderAdds, SenderTyped
  <2>2. Len(mRequestsList') = Len(mRequestsList) + 1
    BY <2>1, AppendProperties DEF ListTyped
  <2>3. ~ListLocked'
    BY <2>1 DEF ListLocked
  <2>4. WaitingMatchesList'
    BY <1>2, <1>3, <2>1, <2>2, <2>3, NotCounting DEF WaitingMatchesList
  <2> QED
    BY <1>3, <2>1, <2>3, <2>4, NotCounting DEF WaitingInv
<1>6. CASE SenderFails
  <2>1. \/ UNCHANGED listVars
        \/ Matching(mSerial[sender.rr]) # 0 /\ RemoveRequest(Matching(mSerial[sender.rr]))
    BY <1>6, Zenon DEF SenderFails
  <2>2. ~ListLocked /\ UNCHANGED <<timedOut, countReset, receiver>>
    BY <1>6 DEF SenderFails
  <2>3. CASE UNCHANGED listVars
    BY <2>2, <2>3, Zenon DEF WaitingInv, WaitingMatchesList, CountingDown, Counting, ListLocked
  <2> QED
    BY <2>1, <2>2, <2>3, WaitingRemoved
<1>7. CASE TimeoutResetsWaiting
  <2>1. /\ UNCHANGED <<mRequestsList, receiver>>
        /\ mRequestMessagesWaiting' = 0 /\ countReset' /\ timedOut'
    BY <1>7 DEF TimeoutResetsWaiting
  <2>2. Counting' \in {0, 1}
    BY DEF Counting
  <2>3. WaitingMatchesList'
    BY <1>2, <2>1, <2>2 DEF WaitingMatchesList
  <2>4. CountingDown'
    <3>1. UNCHANGED <<receiver.pc, receiver.read, Len(mRequestsList)>>
      BY <2>1, Zenon
    <3>2. mRequestMessagesWaiting' >= 0
      BY <2>1
    <3> QED
      BY <1>3, <2>1, <3>1, <3>2, Zenon DEF CountingDown
  <2> QED
    BY <2>1, <2>3, <2>4 DEF WaitingInv
<1>8. CASE SenderHandlesTimeout
  <2>1. /\ UNCHANGED <<mRequestsList, mRequestMessagesWaiting, countReset, receiver>>
        /\ timedOut => timedOut'
    BY <1>8, Zenon DEF SenderHandlesTimeout
  <2> QED
    BY <2>1, Zenon DEF WaitingInv, WaitingMatchesList, CountingDown, Counting, ListLocked
<1>9. CASE processSolicited
  <2>1. UNCHANGED <<mRequestMessagesWaiting, timedOut, countReset>> /\ ~ListLocked
    BY <1>9 DEF processSolicited, ListLocked
  <2>2. PICK m \in received :
          \/ receiver' = ReceiverIdle("done") /\ UNCHANGED mRequestsList
          \/ /\ Matching(m.serial) \in 1 .. Len(mRequestsList)
             /\ mRequestsList' = RemoveAt(mRequestsList, Matching(m.serial))
             /\ receiver'.pc = IF mRequestMessagesWaiting > 0 THEN "decrement" ELSE "answer"
    BY <1>9, Solicited, Zenon
  <2>3. CASE receiver' = ReceiverIdle("done") /\ UNCHANGED mRequestsList
    <3>1. ~ListLocked'
      BY <2>3, IdleTyped
    <3>2. WaitingMatchesList'
      BY <1>3, <2>1, <2>3, <3>1, NotCounting, Zenon DEF WaitingMatchesList
    <3> QED
      BY <1>3, <2>1, <3>1, <3>2, NotCounting DEF WaitingInv
  <2>4. CASE /\ Matching(m.serial) \in 1 .. Len(mRequestsList)
             /\ mRequestsList' = RemoveAt(mRequestsList, Matching(m.serial))
             /\ receiver'.pc = IF mRequestMessagesWaiting > 0 THEN "decrement" ELSE "answer"
    <3>1. Len(mRequestsList') = Len(mRequestsList) - 1 /\ Len(mRequestsList) > 0
      BY <1>2, <2>4, RemoveAtTyped DEF ListTyped
    <3>2. Counting = 0 /\ Counting' = IF mRequestMessagesWaiting > 0 THEN 1 ELSE 0
      BY <2>1, <2>4 DEF Counting, ListLocked
    <3>3. WaitingMatchesList'
      BY <1>2, <1>3, <2>1, <3>1, <3>2 DEF WaitingMatchesList
    <3>4. CountingDown'
      BY <1>2, <2>1, <2>4 DEF CountingDown
    <3> QED
      BY <1>3, <2>1, <3>3, <3>4 DEF WaitingInv
  <2> QED
    BY <2>2, <2>3, <2>4
<1>10. CASE ReceiverReadsWaiting
  <2>1. /\ UNCHANGED <<mRequestsList, mRequestMessagesWaiting, timedOut, countReset>>
        /\ receiver.pc = "decrement"
    BY <1>10 DEF ReceiverReadsWaiting
  <2>2. receiver'.pc = "write waiting" /\ receiver'.read = mRequestMessagesWaiting
    <3>1. receiver' = [pc |-> "write waiting", rr |-> receiver.rr, of |-> receiver.of,
                       read |-> mRequestMessagesWaiting]
      BY <1>10, ReceiverCounts, Zenon
    <3> QED
      BY <3>1, Zenon
  <2>3. Counting = 1 /\ Counting' = 1
    BY <2>1, <2>2 DEF Counting, ListLocked
  <2>4. WaitingMatchesList'
    BY <1>3, <2>1, <2>3, Zenon DEF WaitingMatchesList
  <2>5. 0 <= mRequestMessagesWaiting /\ mRequestMessagesWaiting <= Len(mRequestsList) + 1
    BY <1>2, <1>3, <2>1, <2>3 DEF WaitingMatchesList, CountingDown
  <2>6. CountingDown'
    BY <2>1, <2>2, <2>5 DEF CountingDown
  <2> QED
    BY <1>3, <2>1, <2>4, <2>6 DEF WaitingInv
<1>11. CASE ReceiverWritesWaiting
  <2>1. /\ UNCHANGED <<mRequestsList, timedOut, countReset>> /\ receiver.pc = "write waiting"
        /\ mRequestMessagesWaiting' = receiver.read - 1
    BY <1>11 DEF ReceiverWritesWaiting
  <2>2. receiver'.pc = "answer" /\ receiver.read \in Int
    <3>1. /\ receiver' = [pc |-> "answer", rr |-> receiver.rr, of |-> receiver.of, read |-> 0]
          /\ receiver.read \in Int
      BY <1>11, ReceiverCounts, Zenon
    <3> QED
      BY <3>1, Zenon
  <2>3. Counting = 1 /\ Counting' = 0 /\ ~ListLocked'
    BY <2>1, <2>2 DEF Counting, ListLocked
  <2>4. /\ 0 <= receiver.read /\ receiver.read <= Len(mRequestsList) + 1
        /\ ~countReset => receiver.read = Len(mRequestsList) + 1
    BY <1>3, <2>1, <2>3 DEF WaitingMatchesList, CountingDown
  <2>5. WaitingMatchesList'
    <3>1. Len(mRequestsList') = Len(mRequestsList) /\ countReset' = countReset
      BY <2>1, Zenon
    <3>2. /\ -1 <= mRequestMessagesWaiting' /\ mRequestMessagesWaiting' <= Len(mRequestsList) + 0
          /\ ~countReset => mRequestMessagesWaiting' = Len(mRequestsList) + 0
      <4>1. mRequestMessagesWaiting' = receiver.read - 1 /\ countReset' = countReset
        BY <2>1, Zenon
      <4>2. Len(mRequestsList) \in Nat
        BY <1>2, Zenon
      <4>3. receiver.read \in Int
        BY <2>2, Zenon
      <4> QED
        BY <2>4, <4>1, <4>2, <4>3
    <3> QED
      BY <2>3, <3>1, <3>2, Zenon DEF WaitingMatchesList
  <2>6. CountingDown'
    BY <2>2, Zenon DEF CountingDown
  <2> QED
    BY <1>3, <2>1, <2>5, <2>6 DEF WaitingInv
<1>12. CASE Connect \/ Answer \/ ReceiverDone \/ CloseSocket \/ ForgetSocket \/ resetSerial
  <2>1. /\ UNCHANGED <<mRequestsList, mRequestMessagesWaiting, timedOut, countReset>>
        /\ ~ListLocked
    BY <1>12 DEF Connect, Answer, ReceiverDone, CloseSocket, ForgetSocket, resetSerial, ListLocked
  <2>2. \E pc \in {"connect", "read", "done", "forget", "reset", "clear"} :
          receiver' = ReceiverIdle(pc)
    BY <1>12, Zenon DEF Connect, Answer, ReceiverDone, CloseSocket, ForgetSocket, resetSerial
  <2>3. ~ListLocked'
    BY <2>2, IdleTyped
  <2>4. WaitingMatchesList'
    BY <1>3, <2>1, <2>3, NotCounting, Zenon DEF WaitingMatchesList
  <2> QED
    BY <1>3, <2>1, <2>3, <2>4, NotCounting DEF WaitingInv
<1>13. CASE clearRequestsList
  <2>1. /\ mRequestsList' = <<>> /\ Len(mRequestsList') = 0 /\ mRequestMessagesWaiting' = 0
        /\ ~countReset' /\ ~ListLocked
    BY <1>13, EmptySeq DEF clearRequestsList, ListLocked
  <2>2. ~ListLocked'
    BY <1>13, IdleTyped DEF clearRequestsList
  <2>3. WaitingMatchesList'
    BY <2>1, <2>2, NotCounting DEF WaitingMatchesList
  <2> QED
    BY <2>1, <2>2, <2>3, NotCounting DEF WaitingInv
<1> QED
  BY <1>1, <1>4, <1>5, <1>6, <1>7, <1>8, <1>9, <1>10, <1>11, <1>12, <1>13

\* mRequestMessagesWaiting is the size of mRequestsList, the request the receiver is
\* taking off included, until a time-out resets it and again when the list has been
\* cleared; in between it is never more, and at least -1.
THEOREM WaitingMatches == Spec => []WaitingMatchesList
<1>1. WaitingInv => WaitingMatchesList
  BY Zenon DEF WaitingInv
<1> QED
  BY <1>1, WaitingInit, TypedInit, TypedStep, WaitingStep, PTL DEF Spec

-----------------------------------------------------------------------------
(* The wake lock. *)

\* The lock is given up, or a time-out comes for it.
LEMMA GuardStep == Typed /\ TimeoutGuards /\ [Next]_vars => TimeoutGuards'
<1> SUFFICES ASSUME Typed, TimeoutGuards, [Next]_vars PROVE TimeoutGuards'
  OBVIOUS
<1> USE DEF Typed, requestVars, issueVars, socketVars, listVars, wakeVars, historyVars
<1>1. \/ UNCHANGED <<mWakeLock, timeoutPosted, sender, caller>>
      \/ (\E t \in Threads : obtain(t)) \/ (\E t \in Threads : SendFails(t))
      \/ (\E t \in Threads : SendGoesOn(t)) \/ (\E t \in Threads : acquireWakeLock(t))
      \/ (\E t \in Threads : CountPending(t)) \/ (\E t \in Threads : Post(t))
      \/ SenderFindsNoSocket \/ SenderTakes \/ SenderAdds \/ SenderReadsPending
      \/ SenderWritesPending \/ SenderMarshalls \/ SenderWrites \/ SenderFails \/ SenderDone
      \/ SenderTakesTimeout \/ TimeoutResetsWaiting \/ SenderHandlesTimeout
      \/ processUnsolicited \/ ReceiverDone
  BY Zenon DEF Next, send, HandleSend, ReceiverStep, Connect, processSolicited,
     ReceiverReadsWaiting, ReceiverWritesWaiting, Answer, CloseSocket, ForgetSocket, resetSerial,
     clearRequestsList, DaemonHangsUp, vars
<1>2. CASE UNCHANGED <<mWakeLock, timeoutPosted, sender, caller>>
  BY <1>2 DEF TimeoutGuards
<1>3. ASSUME NEW t \in Threads, obtain(t) PROVE TimeoutGuards'
  <2>1. /\ UNCHANGED <<mWakeLock, timeoutPosted, sender>>
        /\ \A u \in Threads : caller[u].pc = "count" => caller'[u].pc = "count"
    BY <1>3 DEF obtain, CallersTyped
  <2> QED
    BY <2>1 DEF TimeoutGuards
<1>4. ASSUME NEW t \in Threads, SendFails(t) PROVE TimeoutGuards'
  BY <1>4 DEF SendFails, CallersTyped, CallerType, CallerIdle, TimeoutGuards
<1>5. ASSUME NEW t \in Threads, SendGoesOn(t) PROVE TimeoutGuards'
  BY <1>5 DEF SendGoesOn, CallersTyped, CallerType, CallerIdle, TimeoutGuards
<1>6. ASSUME NEW t \in Threads, acquireWakeLock(t) PROVE TimeoutGuards'
  BY <1>6 DEF acquireWakeLock, CallersTyped, CallerType, CallerIdle, TimeoutGuards
<1>7. ASSUME NEW t \in Threads, CountPending(t) PROVE TimeoutGuards'
  BY <1>7 DEF CountPending, CallersTyped, CallerType, CallerIdle, TimeoutGuards
<1>8. ASSUME NEW t \in Threads, Post(t) PROVE TimeoutGuards'
  BY <1>8 DEF Post, CallersTyped, CallerType, CallerIdle, TimeoutGuards
<1>9. CASE SenderFindsNoSocket
  BY <1>9 DEF SenderFindsNoSocket, SenderTyped, SenderType, SenderIdle, TimeoutGuards
<1>10. CASE SenderTakes
  BY <1>10 DEF SenderTakes, SenderTyped, SenderType, SenderIdle, TimeoutGuards
<1>11. CASE SenderAdds
  BY <1>11 DEF SenderAdds, SenderTyped, SenderType, SenderIdle, TimeoutGuards
<1>12. CASE SenderReadsPending
  BY <1>12 DEF SenderReadsPending, AfterSubtract, SenderTyped, SenderType, SenderIdle,
     TimeoutGuards
<1>13. CASE SenderWritesPending
  BY <1>13 DEF SenderWritesPending, AfterSubtract, SenderTyped, SenderType, SenderIdle,
     TimeoutGuards
<1>14. CASE SenderMarshalls
  BY <1>14 DEF SenderMarshalls, SenderTyped, SenderType, SenderIdle, TimeoutGuards
<1>15. CASE SenderWrites
  BY <1>15 DEF SenderWrites, SenderTyped, SenderType, SenderIdle, TimeoutGuards
<1>16. CASE SenderFails
  BY <1>16 DEF SenderFails, SenderTyped, SenderType, SenderIdle, TimeoutGuards
<1>17. CASE SenderDone
  BY <1>17 DEF SenderDone, releaseWakeLockIfDone, SenderTyped, SenderType, SenderIdle,
     TimeoutGuards
<1>18. CASE SenderTakesTimeout
  BY <1>18 DEF SenderTakesTimeout, SenderTyped, SenderType, SenderIdle, TimeoutGuards
<1>19. CASE SenderHandlesTimeout
  BY <1>19 DEF SenderHandlesTimeout, SenderTyped, SenderType, SenderIdle, TimeoutGuards
<1>20. CASE processUnsolicited
  BY <1>20 DEF processUnsolicited, releaseWakeLockIfDone, TimeoutGuards
<1>21. CASE ReceiverDone
  BY <1>21 DEF ReceiverDone, releaseWakeLockIfDone, TimeoutGuards
<1>22. CASE TimeoutResetsWaiting
  BY <1>22 DEF TimeoutResetsWaiting, SenderTyped, SenderType, SenderIdle, TimeoutGuards
<1> QED
  BY <1>1, <1>2, <1>3, <1>4, <1>5, <1>6, <1>7, <1>8, <1>9, <1>10, <1>11, <1>12, <1>13, <1>14,
     <1>15, <1>16, <1>17, <1>18, <1>19, <1>20, <1>21, <1>22

\* A wake lock that is held has a time-out, or one is about to be posted for it.
THEOREM AlwaysGuarded == Spec => []TimeoutGuards
<1>1. Init => TimeoutGuards
  BY DEF Init, TimeoutGuards
<1> QED
  BY <1>1, TypedInit, TypedStep, GuardStep, PTL DEF Spec

-----------------------------------------------------------------------------
(* The wake lock while requests are under way.  mRequestMessagesPending      *)
(* counts the requests in the queue, those about to be put there, and the    *)
(* one the sender has taken and not subtracted yet.                         *)

Posting == {t \in Threads : caller[t].pc = "post"}
Sending == IF sender.pc \in {"add", "subtract", "write pending"} THEN 1 ELSE 0
ToBeSent == Len(queue) + Cardinality(Posting) + Sending
UnderWay == mRequestMessagesPending # 0 \/ mRequestMessagesWaiting # 0

\* Both counters are right, and the lock is held when one of them is not zero: until a
\* time-out resets them or an update is lost.
Counted ==
  /\ lockedBy # NoThread => mWakeLock
  /\ ~timedOut /\ ~lostUpdate =>
       mRequestMessagesPending = ToBeSent /\ (UnderWay => mWakeLock)

LEMMA ToBeSentTyped ==
  ASSUME Typed
  PROVE  /\ Len(queue) \in Nat /\ Cardinality(Posting) \in Nat /\ Sending \in {0, 1}
         /\ ToBeSent \in Nat
<1>1. Len(queue) \in Nat
  BY LenProperties DEF Typed, QueueTyped
<1>2. IsFiniteSet(Posting)
  BY FS_Subset, RilClientAssumption DEF Posting
<1>3. Cardinality(Posting) \in Nat
  BY <1>2, FS_CardinalityType
<1>4. Sending \in {0, 1}
  BY DEF Sending
<1>5. ToBeSent \in Nat
  <2> HIDE DEF Posting, Sending
  <2> QED
    BY <1>1, <1>3, <1>4 DEF ToBeSent
<1> QED
  BY <1>1, <1>3, <1>4, <1>5

\* A step that leaves the counters, what they count and the lock alone.
LEMMA CountKept ==
  ASSUME Counted, ToBeSent' = ToBeSent,
         UNCHANGED <<mRequestMessagesPending, mRequestMessagesWaiting, mWakeLock, lockedBy,
                     timedOut, lostUpdate>>
  PROVE  Counted'
  BY DEF Counted, UnderWay

\* A step that takes a request off the list.
LEMMA CountRemoved ==
  ASSUME Counted, ToBeSent' = ToBeSent,
         mRequestMessagesWaiting = 0 => mRequestMessagesWaiting' = 0,
         UNCHANGED <<mRequestMessagesPending, mWakeLock, lockedBy, timedOut, lostUpdate>>
  PROVE  Counted'
  BY DEF Counted, UnderWay

\* The lock is only released when both counters are zero.
LEMMA CountReleased ==
  ASSUME Counted, releaseWakeLockIfDone, ToBeSent' = ToBeSent,
         UNCHANGED <<mRequestMessagesPending, mRequestMessagesWaiting, timedOut, lostUpdate>>
  PROVE  Counted'
<1>1. lockedBy = NoThread /\ UNCHANGED lockedBy
  BY DEF releaseWakeLockIfDone, LockFree
<1>2. ASSUME UnderWay, mWakeLock PROVE mWakeLock'
  BY <1>2, Zenon DEF UnderWay, Done, releaseWakeLockIfDone
<1>3. UNCHANGED UnderWay
  BY DEF UnderWay
<1> QED
  BY <1>1, <1>2, <1>3 DEF Counted

\* A thread that posts its request no longer posts.
LEMMA PostingStep ==
  ASSUME Typed, NEW t \in Threads
  PROVE  /\ Post(t) => Cardinality(Posting') = Cardinality(Posting) - 1
         /\ CountPending(t) => Cardinality(Posting') = Cardinality(Posting) + 1
         /\ obtain(t) \/ SendFails(t) \/ SendGoesOn(t) \/ acquireWakeLock(t) => Posting' = Posting
<1> USE DEF Typed, CallersTyped, CallerType, CallerIdle
<1>1. IsFiniteSet(Posting)
  BY FS_Subset, RilClientAssumption DEF Posting
<1>2. CASE Post(t)
  <2>1. t \in Posting /\ Posting' = Posting \ {t}
    BY <1>2 DEF Post, Posting
  <2>2. ~CountPending(t) /\ ~obtain(t) /\ ~SendFails(t) /\ ~SendGoesOn(t) /\ ~acquireWakeLock(t)
    BY <1>2 DEF Post, CountPending, obtain, SendFails, SendGoesOn, acquireWakeLock
  <2> QED
    BY <1>1, <2>1, <2>2, FS_RemoveElement
<1>3. CASE CountPending(t)
  <2>1. t \notin Posting /\ Posting' = Posting \cup {t}
    BY <1>3 DEF CountPending, Posting
  <2>2. ~Post(t) /\ ~obtain(t) /\ ~SendFails(t) /\ ~SendGoesOn(t) /\ ~acquireWakeLock(t)
    BY <1>3 DEF Post, CountPending, obtain, SendFails, SendGoesOn, acquireWakeLock
  <2> QED
    BY <1>1, <2>1, <2>2, FS_AddElement
<1>4. ASSUME obtain(t) \/ SendFails(t) \/ SendGoesOn(t) \/ acquireWakeLock(t)
      PROVE  Posting' = Posting
  <2>1. CASE obtain(t)
    BY <2>1 DEF obtain, Posting
  <2>2. CASE SendFails(t)
    BY <2>2 DEF SendFails, Posting
  <2>3. CASE SendGoesOn(t)
    BY <2>3 DEF SendGoesOn, Posting
  <2>4. CASE acquireWakeLock(t)
    BY <2>4 DEF acquireWakeLock, Posting
  <2> QED
    BY <1>4, <2>1, <2>2, <2>3, <2>4
<1> QED
  BY <1>2, <1>3, <1>4

\* The time-out that waits for the list has the monitor of mWakeLock, and has reset a
\* counter.
LogHeld == sender.pc = "log" => lockedBy = NoThread /\ timedOut

LEMMA LogStep == Typed /\ LogHeld /\ [Next]_vars => LogHeld'
<1> SUFFICES ASSUME Typed, LogHeld, [Next]_vars PROVE LogHeld'
  OBVIOUS
<1> USE DEF Typed, requestVars, issueVars, socketVars, listVars, wakeVars, historyVars
<1>1. \/ UNCHANGED <<sender, lockedBy, timedOut>>
      \/ (\E t \in Threads : acquireWakeLock(t)) \/ (\E t \in Threads : CountPending(t))
      \/ SenderFindsNoSocket \/ SenderTakes \/ SenderAdds \/ SenderReadsPending
      \/ SenderWritesPending \/ SenderMarshalls \/ SenderWrites \/ SenderFails \/ SenderDone
      \/ SenderTakesTimeout \/ TimeoutResetsWaiting \/ SenderHandlesTimeout
  BY Zenon DEF Next, send, HandleSend, ReceiverStep, obtain, SendFails, SendGoesOn, Post, Connect,
     processUnsolicited, releaseWakeLockIfDone, processSolicited, ReceiverReadsWaiting,
     ReceiverWritesWaiting, Answer, ReceiverDone, CloseSocket, ForgetSocket, resetSerial,
     clearRequestsList, DaemonHangsUp, vars
<1>2. CASE UNCHANGED <<sender, lockedBy, timedOut>>
  BY <1>2 DEF LogHeld
<1>3. ASSUME NEW t \in Threads, acquireWakeLock(t) PROVE LogHeld'
  BY <1>3 DEF acquireWakeLock, LockFree, LogHeld
<1>4. ASSUME NEW t \in Threads, CountPending(t) PROVE LogHeld'
  BY <1>4 DEF CountPending, LogHeld
<1>5. CASE SenderFindsNoSocket \/ SenderTakes \/ SenderDone \/ SenderTakesTimeout
           \/ SenderHandlesTimeout
  <2>1. sender'.pc # "log"
    <3>1. CASE SenderFindsNoSocket
      BY <3>1 DEF SenderFindsNoSocket, SenderIdle
    <3>2. CASE SenderTakes
      BY <3>2 DEF SenderTakes, SenderIdle
    <3>3. CASE SenderDone
      BY <3>3 DEF SenderDone, SenderIdle
    <3>4. CASE SenderTakesTimeout
      BY <3>4 DEF SenderTakesTimeout, SenderIdle
    <3>5. CASE SenderHandlesTimeout
      BY <3>5 DEF SenderHandlesTimeout, SenderIdle
    <3> QED
      BY <1>5, <3>1, <3>2, <3>3, <3>4, <3>5
  <2> QED
    BY <2>1, Zenon DEF LogHeld
<1>6. CASE SenderAdds \/ SenderReadsPending \/ SenderWritesPending \/ SenderMarshalls
           \/ SenderWrites \/ SenderFails
  BY <1>6 DEF SenderAdds, SenderReadsPending, SenderWritesPending, SenderMarshalls, SenderWrites,
     SenderFails, SenderIdle, AfterSubtract, SenderTyped, SenderType, LogHeld
<1>7. CASE TimeoutResetsWaiting
  BY <1>7 DEF TimeoutResetsWaiting, LogHeld
<1> QED
  BY <1>1, <1>2, <1>3, <1>4, <1>5, <1>6, <1>7

\* The counters stay right, and the lock is held for them.
LEMMA CountedStep ==
  Typed /\ WaitingInv /\ LogHeld /\ Counted /\ [Next]_vars => Counted'
<1> SUFFICES ASSUME Typed, WaitingInv, LogHeld, Counted, [Next]_vars PROVE Counted'
  OBVIOUS
<1> USE DEF Typed, requestVars, issueVars, socketVars, listVars, wakeVars, historyVars
<1>1. \/ UNCHANGED <<mRequestMessagesPending, mRequestMessagesWaiting, queue, caller, sender, mWakeLock,
                      lockedBy, timedOut, lostUpdate>>
      \/ (\E t \in Threads : obtain(t)) \/ (\E t \in Threads : SendFails(t))
      \/ (\E t \in Threads : SendGoesOn(t)) \/ (\E t \in Threads : acquireWakeLock(t))
      \/ (\E t \in Threads : CountPending(t)) \/ (\E t \in Threads : Post(t))
      \/ SenderFindsNoSocket \/ SenderTakes \/ SenderAdds \/ SenderReadsPending
      \/ SenderWritesPending \/ SenderMarshalls \/ SenderWrites \/ SenderFails \/ SenderDone
      \/ SenderTakesTimeout \/ TimeoutResetsWaiting \/ SenderHandlesTimeout
      \/ processUnsolicited \/ ReceiverWritesWaiting \/ ReceiverDone \/ clearRequestsList
  BY Zenon DEF Next, send, HandleSend, ReceiverStep, Connect, processSolicited,
     ReceiverReadsWaiting, Answer, CloseSocket, ForgetSocket,
     resetSerial, DaemonHangsUp, vars
<1>2. CASE UNCHANGED <<mRequestMessagesPending, mRequestMessagesWaiting, queue, caller, sender, mWakeLock,
                      lockedBy, timedOut, lostUpdate>>
  BY <1>2 DEF Counted, UnderWay, ToBeSent, Posting, Sending
<1>3. ASSUME NEW t \in Threads, obtain(t) PROVE Counted'
  <2>1. UNCHANGED <<queue, sender, mRequestMessagesPending, mRequestMessagesWaiting, mWakeLock,
                  lockedBy, timedOut, lostUpdate>>
    BY <1>3 DEF obtain
  <2>2. ToBeSent' = ToBeSent
    BY <1>3, <2>1, PostingStep DEF ToBeSent, Sending
  <2> QED
    BY <2>1, <2>2, CountKept
<1>4. ASSUME NEW t \in Threads, SendFails(t) PROVE Counted'
  <2>1. UNCHANGED <<queue, sender, mRequestMessagesPending, mRequestMessagesWaiting, mWakeLock,
                  lockedBy, timedOut, lostUpdate>>
    BY <1>4 DEF SendFails
  <2>2. ToBeSent' = ToBeSent
    BY <1>4, <2>1, PostingStep DEF ToBeSent, Sending
  <2> QED
    BY <2>1, <2>2, CountKept
<1>5. ASSUME NEW t \in Threads, SendGoesOn(t) PROVE Counted'
  <2>1. UNCHANGED <<queue, sender, mRequestMessagesPending, mRequestMessagesWaiting, mWakeLock,
                  lockedBy, timedOut, lostUpdate>>
    BY <1>5 DEF SendGoesOn
  <2>2. ToBeSent' = ToBeSent
    BY <1>5, <2>1, PostingStep DEF ToBeSent, Sending
  <2> QED
    BY <2>1, <2>2, CountKept
<1>6. ASSUME NEW t \in Threads, acquireWakeLock(t) PROVE Counted'
  <2>1. /\ UNCHANGED <<queue, sender, mRequestMessagesPending, mRequestMessagesWaiting, timedOut, lostUpdate>>
        /\ mWakeLock'
    BY <1>6 DEF acquireWakeLock
  <2>2. ToBeSent' = ToBeSent
    BY <1>6, <2>1, PostingStep DEF ToBeSent, Sending
  <2> QED
    BY <2>1, <2>2 DEF Counted, UnderWay
<1>7. ASSUME NEW t \in Threads, CountPending(t) PROVE Counted'
  <2>1. /\ UNCHANGED <<queue, sender, mRequestMessagesWaiting, mWakeLock, timedOut>>
        /\ mRequestMessagesPending' = caller[t].read + 1
    BY <1>7 DEF CountPending
  <2>2. ~lostUpdate' => ~lostUpdate /\ mRequestMessagesPending = caller[t].read
    BY <1>7, Zenon DEF CountPending
  <2>3. mWakeLock /\ lockedBy' = NoThread
    BY <1>7, RilClientAssumption DEF CountPending, MonitorHeld, Counted
  <2>4. ToBeSent' = ToBeSent + 1
    <3>1. UNCHANGED Sending
      BY <2>1 DEF Sending
    <3>2. Cardinality(Posting') = Cardinality(Posting) + 1
      BY <1>7, PostingStep
    <3> HIDE DEF Posting, Sending
    <3> QED
      BY <2>1, <3>1, <3>2, ToBeSentTyped DEF ToBeSent
  <2> QED
    BY <2>1, <2>2, <2>3, <2>4 DEF Counted
<1>8. ASSUME NEW t \in Threads, Post(t) PROVE Counted'
  <2>1. /\ UNCHANGED <<sender, mRequestMessagesPending, mRequestMessagesWaiting, mWakeLock, lockedBy,
                      timedOut, lostUpdate>>
        /\ queue' = Append(queue, caller[t].rr) /\ caller[t].rr \in Objects
    BY <1>8 DEF Post, CallersTyped
  <2>2. Len(queue') = Len(queue) + 1
    BY <2>1, AppendProperties DEF QueueTyped
  <2>3. ToBeSent' = ToBeSent
    <3>1. UNCHANGED Sending
      BY <2>1 DEF Sending
    <3>2. Cardinality(Posting') = Cardinality(Posting) - 1
      BY <1>8, PostingStep
    <3> HIDE DEF Posting, Sending
    <3> QED
      BY <2>2, <3>1, <3>2, ToBeSentTyped DEF ToBeSent
  <2> QED
    BY <2>1, <2>3, CountKept
<1>9. CASE SenderFindsNoSocket
  <2>1. /\ UNCHANGED <<caller, mRequestMessagesPending, mRequestMessagesWaiting, mWakeLock, lockedBy,
                      timedOut, lostUpdate>>
        /\ queue # <<>> /\ queue' = Tail(queue)
    BY <1>9 DEF SenderFindsNoSocket
  <2>2. Sending = 0 /\ Sending' = 1
    BY <1>9 DEF SenderFindsNoSocket, Sending, SenderIdle
  <2>3. Len(queue') = Len(queue) - 1
    BY <2>1, HeadTailProperties DEF QueueTyped
  <2>4. ToBeSent' = ToBeSent
    BY <2>1, <2>2, <2>3, ToBeSentTyped DEF ToBeSent, Posting
  <2> QED
    BY <2>1, <2>4, CountKept
<1>10. CASE SenderTakes
  <2>1. /\ UNCHANGED <<caller, mRequestMessagesPending, mRequestMessagesWaiting, mWakeLock, lockedBy,
                      timedOut, lostUpdate>>
        /\ queue # <<>> /\ queue' = Tail(queue)
    BY <1>10 DEF SenderTakes
  <2>2. Sending = 0 /\ Sending' = 1
    BY <1>10 DEF SenderTakes, Sending, SenderIdle
  <2>3. Len(queue') = Len(queue) - 1
    BY <2>1, HeadTailProperties DEF QueueTyped
  <2>4. ToBeSent' = ToBeSent
    BY <2>1, <2>2, <2>3, ToBeSentTyped DEF ToBeSent, Posting
  <2> QED
    BY <2>1, <2>4, CountKept
<1>11. CASE SenderAdds
  <2>1. /\ UNCHANGED <<queue, caller, mRequestMessagesPending, mWakeLock, lockedBy, timedOut, lostUpdate>>
        /\ mRequestMessagesWaiting' = mRequestMessagesWaiting + 1
    BY <1>11 DEF SenderAdds
  <2>2. Sending = 1 /\ Sending' = 1
    BY <1>11 DEF SenderAdds, Sending, SenderTyped, SenderType
  <2>3. ToBeSent' = ToBeSent /\ ToBeSent > 0
    BY <2>1, <2>2, ToBeSentTyped DEF ToBeSent, Posting
  <2>4. ~timedOut /\ ~lostUpdate => mWakeLock
    BY <2>3 DEF Counted, UnderWay, PendingTyped, ListTyped
  <2> QED
    BY <2>1, <2>3, <2>4 DEF Counted
<1>12. CASE SenderReadsPending
  <2>1. UNCHANGED <<queue, caller, mRequestMessagesPending, mRequestMessagesWaiting, mWakeLock, lockedBy,
                  timedOut, lostUpdate>>
    BY <1>12 DEF SenderReadsPending
  <2>2. Sending = 1 /\ ToBeSent > 0
    BY <1>12, ToBeSentTyped DEF SenderReadsPending, Sending, ToBeSent
  <2>3. CASE mRequestMessagesPending > 0
    <3>1. Sending' = 1
      BY <1>12, <2>3 DEF SenderReadsPending, Sending, SenderTyped, SenderType
    <3>2. ToBeSent' = ToBeSent
      BY <2>1, <2>2, <3>1 DEF ToBeSent, Posting
    <3> QED
      BY <2>1, <3>2, CountKept
  <2>4. CASE ~(mRequestMessagesPending > 0)
    <3>1. timedOut \/ lostUpdate
      BY <2>2, <2>4 DEF Counted
    <3> QED
      BY <2>1, <3>1 DEF Counted
  <2> QED
    BY <2>3, <2>4
<1>13. CASE SenderWritesPending
  <2>1. /\ UNCHANGED <<queue, caller, mRequestMessagesWaiting, mWakeLock, lockedBy, timedOut>>
        /\ mRequestMessagesPending' = sender.read - 1
    BY <1>13 DEF SenderWritesPending
  <2>2. ~lostUpdate' => ~lostUpdate /\ mRequestMessagesPending = sender.read
    BY <1>13, Zenon DEF SenderWritesPending
  <2>3. Sending = 1 /\ Sending' = 0
    BY <1>13 DEF SenderWritesPending, Sending, AfterSubtract, SenderTyped, SenderType
  <2>4. ToBeSent' = ToBeSent - 1
    BY <2>1, <2>3, ToBeSentTyped DEF ToBeSent, Posting
  <2>5. UnderWay' /\ mRequestMessagesPending = sender.read => UnderWay
    <3>1. sender.read > 0
      BY <1>13 DEF SenderWritesPending, SenderTyped
    <3> QED
      BY <2>1, <3>1 DEF UnderWay
  <2> QED
    BY <2>1, <2>2, <2>4, <2>5 DEF Counted
<1>14. CASE SenderMarshalls
  <2>1. UNCHANGED <<queue, caller, mRequestMessagesPending, mRequestMessagesWaiting, mWakeLock, lockedBy,
                  timedOut, lostUpdate>>
    BY <1>14 DEF SenderMarshalls
  <2>2. UNCHANGED Sending
    BY <1>14 DEF SenderMarshalls, Sending, SenderIdle, SenderTyped, SenderType
  <2>3. ToBeSent' = ToBeSent
    BY <2>1, <2>2 DEF ToBeSent, Posting
  <2> QED
    BY <2>1, <2>3, CountKept
<1>15. CASE SenderWrites
  <2>1. UNCHANGED <<queue, caller, mRequestMessagesPending, mRequestMessagesWaiting, mWakeLock, lockedBy,
                  timedOut, lostUpdate>>
    BY <1>15 DEF SenderWrites
  <2>2. UNCHANGED Sending
    BY <1>15 DEF SenderWrites, Sending, SenderIdle, SenderTyped, SenderType
  <2>3. ToBeSent' = ToBeSent
    BY <2>1, <2>2 DEF ToBeSent, Posting
  <2> QED
    BY <2>1, <2>3, CountKept
<1>16. CASE SenderFails
  <2>1. UNCHANGED <<queue, caller, mRequestMessagesPending, mWakeLock, lockedBy, timedOut, lostUpdate>>
    BY <1>16 DEF SenderFails
  <2>2. UNCHANGED Sending
    BY <1>16 DEF SenderFails, Sending, SenderIdle, SenderTyped, SenderType
  <2>3. ToBeSent' = ToBeSent
    BY <2>1, <2>2 DEF ToBeSent, Posting
  <2>4. mRequestMessagesWaiting = 0 => mRequestMessagesWaiting' = 0
    <3>1. \A i : RemoveRequest(i) /\ mRequestMessagesWaiting = 0 => mRequestMessagesWaiting' = 0
      BY DEF RemoveRequest
    <3> QED
      BY <1>16, <3>1, Zenon DEF SenderFails
  <2> QED
    BY <2>1, <2>3, <2>4, CountRemoved
<1>17. CASE SenderDone
  <2>1. UNCHANGED <<queue, caller, mRequestMessagesPending, mRequestMessagesWaiting, timedOut, lostUpdate>> /\ releaseWakeLockIfDone
    BY <1>17 DEF SenderDone
  <2>2. UNCHANGED Sending
    BY <1>17 DEF SenderDone, Sending, SenderIdle
  <2>3. ToBeSent' = ToBeSent
    BY <2>1, <2>2 DEF ToBeSent, Posting
  <2> QED
    BY <2>1, <2>3, CountReleased
<1>18. CASE SenderTakesTimeout
  <2>1. UNCHANGED <<queue, caller, mRequestMessagesPending, mRequestMessagesWaiting, mWakeLock, lockedBy,
                  timedOut, lostUpdate>>
    BY <1>18 DEF SenderTakesTimeout
  <2>2. UNCHANGED Sending
    BY <1>18 DEF SenderTakesTimeout, Sending, SenderIdle, SenderTyped, SenderType
  <2>3. ToBeSent' = ToBeSent
    BY <2>1, <2>2 DEF ToBeSent, Posting
  <2> QED
    BY <2>1, <2>3, CountKept
<1>19. CASE SenderHandlesTimeout
  <2>1. UNCHANGED <<queue, caller, lockedBy, lostUpdate>> /\ lockedBy = NoThread
    BY <1>19 DEF SenderHandlesTimeout, LogHeld
  <2>2. timedOut => timedOut'
    BY <1>19, Zenon DEF SenderHandlesTimeout
  <2>3. CASE mWakeLock \/ timedOut
    <3>1. timedOut'
      BY <1>19, <2>3, Zenon DEF SenderHandlesTimeout
    <3> QED
      BY <2>1, <3>1 DEF Counted
  <2>4. CASE ~mWakeLock /\ ~timedOut
    <3>1. UNCHANGED <<mRequestMessagesPending, mRequestMessagesWaiting, mWakeLock, timedOut>>
      BY <1>19, <2>4 DEF SenderHandlesTimeout, BooleansTyped
    <3>2. UNCHANGED Sending
      BY <1>19 DEF SenderHandlesTimeout, Sending, SenderIdle
    <3>3. ToBeSent' = ToBeSent
      BY <2>1, <3>2 DEF ToBeSent, Posting
    <3> QED
      BY <2>1, <3>1, <3>3, CountKept
  <2> QED
    BY <2>3, <2>4
<1>20. CASE processUnsolicited
  <2>1. /\ UNCHANGED <<queue, caller, sender, mRequestMessagesPending, mRequestMessagesWaiting, timedOut, lostUpdate>>
        /\ releaseWakeLockIfDone
    BY <1>20 DEF processUnsolicited
  <2>2. ToBeSent' = ToBeSent
    BY <2>1 DEF ToBeSent, Posting, Sending
  <2> QED
    BY <2>1, <2>2, CountReleased
<1>21. CASE ReceiverWritesWaiting
  <2>1. UNCHANGED <<queue, caller, sender, mRequestMessagesPending, mWakeLock, lockedBy, timedOut,
                    lostUpdate>>
    BY <1>21 DEF ReceiverWritesWaiting
  <2>2. ToBeSent' = ToBeSent
    BY <2>1 DEF ToBeSent, Posting, Sending
  <2>3. ~timedOut => mRequestMessagesWaiting # 0
    <3>1. ListLocked
      BY <1>21 DEF ReceiverWritesWaiting, ListLocked
    <3>2. Len(mRequestsList) \in Nat
      BY LenProperties DEF ListTyped
    <3> QED
      BY <3>1, <3>2 DEF WaitingInv, WaitingMatchesList, Counting
  <2> QED
    BY <2>1, <2>2, <2>3 DEF Counted, UnderWay
<1>22. CASE ReceiverDone
  <2>1. /\ UNCHANGED <<queue, caller, sender, mRequestMessagesPending, mRequestMessagesWaiting, timedOut, lostUpdate>>
        /\ releaseWakeLockIfDone
    BY <1>22 DEF ReceiverDone
  <2>2. ToBeSent' = ToBeSent
    BY <2>1 DEF ToBeSent, Posting, Sending
  <2> QED
    BY <2>1, <2>2, CountReleased
<1>23. CASE clearRequestsList
  <2>1. UNCHANGED <<queue, caller, sender, mRequestMessagesPending, mWakeLock, lockedBy, timedOut, lostUpdate>> /\ mRequestMessagesWaiting' = 0
    BY <1>23 DEF clearRequestsList
  <2>2. ToBeSent' = ToBeSent
    BY <2>1 DEF ToBeSent, Posting, Sending
  <2> QED
    BY <2>1, <2>2, CountRemoved
<1>24. CASE TimeoutResetsWaiting
  BY <1>24 DEF TimeoutResetsWaiting, Counted
<1> QED
  BY <1>1, <1>2, <1>3, <1>4, <1>5, <1>6, <1>7, <1>8, <1>9, <1>10, <1>11, <1>12, <1>13, <1>14,
     <1>15, <1>16, <1>17, <1>18, <1>19, <1>20, <1>21, <1>22, <1>23, <1>24

\* The wake lock is held while a request is to be sent or waits for its response, until
\* a time-out or a lost update of mRequestMessagesPending.
THEOREM HeldForRequests == Spec => []HeldWhileUnderWay
<1>1. Init => Counted
  <2> SUFFICES ASSUME Init PROVE Counted
    OBVIOUS
  <2>1. Posting = {} /\ Sending = 0 /\ Len(queue) = 0
    BY EmptySeq DEF Init, Posting, Sending, CallerIdle, SenderIdle
  <2>2. ToBeSent = 0
    BY <2>1, FS_EmptySet DEF ToBeSent
  <2> QED
    BY <2>2 DEF Init, Counted, UnderWay
<1>2. Typed /\ Counted /\ WaitingInv => HeldWhileUnderWay
  <2> SUFFICES ASSUME Typed, Counted, WaitingInv, ~timedOut, ~lostUpdate,
                      queue # <<>> \/ mRequestsList # <<>>
               PROVE  mWakeLock
    BY Zenon DEF HeldWhileUnderWay
  <2>1. queue # <<>> => Len(queue) > 0
    BY EmptySeq DEF Typed, QueueTyped
  <2>2. mRequestsList # <<>> => Len(mRequestsList) > 0
    BY EmptySeq DEF Typed, ListTyped
  <2>3. mRequestMessagesPending = ToBeSent /\ ToBeSent >= Len(queue)
    BY ToBeSentTyped DEF Counted, ToBeSent
  <2>4. mRequestMessagesWaiting = Len(mRequestsList) + Counting /\ Len(mRequestsList) \in Nat
    BY LenProperties DEF WaitingInv, WaitingMatchesList, Typed, ListTyped
  <2>5. UnderWay
    BY <2>1, <2>2, <2>3, <2>4, ToBeSentTyped DEF UnderWay, Counting
  <2> QED
    BY <2>5 DEF Counted
<1>3. Init => LogHeld
  BY DEF Init, LogHeld, SenderIdle
<1> QED
  BY <1>1, <1>2, <1>3, TypedInit, TypedStep, WaitingInit, WaitingStep, LogStep, CountedStep, PTL DEF Spec

-----------------------------------------------------------------------------
(* Each request is answered once.  An object is in one place: with a caller,  *)
(* in the queue, with the sender that adds it, on the list, with the receiver *)
(* that answers it, or in the pool.  The sender goes on with it when it is on *)
(* the list, and keeps its reference when the receiver has failed it.         *)

Calling == {caller[t].rr : t \in Threads} \ {0}
Queued == ToSet(queue)
Adding == IF sender.pc = "add" THEN {sender.rr} ELSE {}
Listed == ToSet(mRequestsList)
Answering == {receiver.rr} \ {0}
Pooled == ToSet(sPool)

\* What a request's answer still has to reach.
Owned == Calling \cup Queued \cup Adding \cup Listed \cup Answering

IdleOwnNothing ==
  /\ \A t \in Threads : caller[t].pc = "idle" => caller[t].rr = 0
  /\ ~HasAnswer => receiver.rr = 0

\* A closed connection has nothing to read, and the sender may still have an old one.
Connected ==
  /\ receiver.pc \in {"connect", "forget", "reset", "clear"} => ~socketOpen /\ received = {}
  /\ receiver.pc # "connect" => conns # 0
  /\ sender.s <= conns

CallersApart ==
  \A t, u \in Threads : caller[t].rr # 0 /\ caller[t].rr = caller[u].rr => t = u

PlacesApart ==
  /\ Calling \cap (Queued \cup Adding \cup Listed \cup Answering \cup Pooled) = {}
  /\ Queued \cap (Adding \cup Listed \cup Answering \cup Pooled) = {}
  /\ Adding \cap (Listed \cup Answering \cup Pooled) = {}
  /\ Listed \cap (Answering \cup Pooled) = {}
  /\ Answering \cap Pooled = {}

InOnePlace ==
  /\ CallersApart /\ PlacesApart
  /\ IsInjective(queue) /\ IsInjective(mRequestsList) /\ IsInjective(sPool)
  /\ Owned \cup Pooled \cup ({sender.rr} \ {0}) \subseteq 1 .. created

\* The requests of these objects are different ones and none has been told a result.
Untold ==
  /\ \A o \in Owned : /\ mResult[o] \in 1 .. issued /\ results[mResult[o]] = <<>>
                      /\ mp[o] \in {0, mResult[o]}
  /\ \A o, p \in Owned : mResult[o] = mResult[p] => o = p
  /\ \A r \in Requests : r > issued => results[r] = <<>>

SerialsApart ==
  \A o, p \in Owned \cup ({sender.rr} \ {0}) : mSerial[o] = mSerial[p] => o = p

\* On an open connection the sender's request is on the list, and it writes its parcel.
SenderListed ==
  /\ sender.pc \in {"subtract", "write pending", "marshall", "write"}
  /\ sender.rr # 0 /\ sender.s = conns /\ socketOpen
  => sender.rr \in Listed /\ (sender.pc = "write" => sender.data = mResult[sender.rr])

\* What the daemon has to answer is on the list, and the sender is done with it.
Awaited ==
  \A m \in received :
    \E o \in Listed \ {sender.rr} : mSerial[o] = m.serial /\ mResult[o] = m.of

AnswersIt == HasAnswer => receiver.of = mResult[receiver.rr]

Told == \A r \in Requests : results[r] \in {<<>>, <<0>>, <<r>>}

Matched ==
  InOnePlace /\ Untold /\ SerialsApart /\ SenderListed /\ Awaited /\ AnswersIt /\ Told

MatchedInv == IdleOwnNothing /\ Connected /\ (~clashed => Matched)

\* Idle threads keep no request.
LEMMA IdleStep == Typed /\ IdleOwnNothing /\ [Next]_vars => IdleOwnNothing'
<1> SUFFICES ASSUME Typed, IdleOwnNothing, [Next]_vars PROVE IdleOwnNothing'
  OBVIOUS
<1> USE DEF Typed, requestVars, issueVars, socketVars, listVars, wakeVars, historyVars
<1> DEFINE C == \A t \in Threads : caller[t].pc = "idle" => caller[t].rr = 0
           R == ~HasAnswer => receiver.rr = 0
<1>1. C'
  <2>1. \/ UNCHANGED <<caller>>
        \/ (\E t \in Threads : obtain(t)) \/ (\E t \in Threads : SendFails(t))
        \/ (\E t \in Threads : SendGoesOn(t)) \/ (\E t \in Threads : acquireWakeLock(t))
        \/ (\E t \in Threads : CountPending(t)) \/ (\E t \in Threads : Post(t))
    BY Zenon DEF Next, send, HandleSend, ReceiverStep, SenderFindsNoSocket, SenderTakes,
       SenderAdds, SenderReadsPending, SenderWritesPending, SenderMarshalls, SenderWrites,
       SenderFails, SenderDone, SenderTakesTimeout, TimeoutResetsWaiting, SenderHandlesTimeout,
       Connect, processUnsolicited, processSolicited, ReceiverReadsWaiting, ReceiverWritesWaiting,
       Answer, ReceiverDone, CloseSocket, ForgetSocket, resetSerial, clearRequestsList,
       DaemonHangsUp, vars
  <2>2. CASE UNCHANGED <<caller>>
    BY <2>2 DEF IdleOwnNothing
  <2>3. ASSUME NEW t \in Threads, obtain(t) PROVE C'
    <3>1. PICK o \in Objects : caller' = [caller EXCEPT ![t] = [CallerIdle EXCEPT !.pc = "send", !.rr = o]]
      BY <2>3, ObtainedObject DEF obtain
    <3> QED
      BY <3>1 DEF CallersTyped, CallerType, CallerIdle, IdleOwnNothing
  <2>4. ASSUME NEW t \in Threads, SendFails(t) \/ Post(t) PROVE C'
    <3>1. caller' = [caller EXCEPT ![t] = CallerIdle]
      BY <2>4 DEF SendFails, Post
    <3> QED
      BY <3>1 DEF CallersTyped, CallerType, CallerIdle, IdleOwnNothing
  <2>5. ASSUME NEW t \in Threads, SendGoesOn(t) PROVE C'
    BY <2>5 DEF SendGoesOn, CallersTyped, CallerType, IdleOwnNothing
  <2>6. ASSUME NEW t \in Threads, acquireWakeLock(t) PROVE C'
    BY <2>6 DEF acquireWakeLock, CallersTyped, CallerType, IdleOwnNothing
  <2>7. ASSUME NEW t \in Threads, CountPending(t) PROVE C'
    BY <2>7 DEF CountPending, CallersTyped, CallerType, IdleOwnNothing
  <2> HIDE DEF C
  <2> QED
    BY <2>1, <2>2, <2>3, <2>4, <2>5, <2>6, <2>7
<1>2. R'
  <2>1. \/ UNCHANGED <<receiver>>
        \/ (\E pc \in {"read", "done", "forget", "reset", "clear", "connect"} : receiver' = ReceiverIdle(pc))
        \/ processSolicited \/ ReceiverReadsWaiting \/ ReceiverWritesWaiting
    BY Zenon DEF Next, send, HandleSend, ReceiverStep, obtain, SendFails, SendGoesOn,
       acquireWakeLock, CountPending, Post, SenderFindsNoSocket, SenderTakes, SenderAdds,
       SenderReadsPending, SenderWritesPending, SenderMarshalls, SenderWrites, SenderFails,
       SenderDone, SenderTakesTimeout, TimeoutResetsWaiting, SenderHandlesTimeout,
       processUnsolicited, DaemonHangsUp, Connect, Answer, ReceiverDone, CloseSocket,
       ForgetSocket, resetSerial, clearRequestsList, vars
  <2>2. CASE UNCHANGED <<receiver>>
    BY <2>2 DEF IdleOwnNothing, HasAnswer
  <2>3. ASSUME NEW pc, receiver' = ReceiverIdle(pc) PROVE R'
    BY <2>3 DEF ReceiverIdle
  <2>4. CASE processSolicited
    BY <2>4, Solicited, IdleTyped, Zenon
  <2>5. CASE ReceiverReadsWaiting \/ ReceiverWritesWaiting
    BY <2>5 DEF ReceiverReadsWaiting, ReceiverWritesWaiting, HasAnswer, ReceiverTyped, ReceiverType
  <2> QED
    BY <2>1, <2>2, <2>3, <2>4, <2>5
<1> QED
  BY <1>1, <1>2 DEF IdleOwnNothing

\* Nothing is received from a closed connection.
LEMMA ConnectedStep == Typed /\ Connected /\ [Next]_vars => Connected'
<1> SUFFICES ASSUME Typed, Connected, [Next]_vars PROVE Connected'
  OBVIOUS
<1> USE DEF Typed, requestVars, issueVars, socketVars, listVars, wakeVars, historyVars
<1>1. conns \in Nat /\ sender.s \in Nat
  <2>1. conns \in Connections /\ sender.s \in Connections
    BY DEF SocketTyped, SenderTyped, SenderType
  <2> QED
    BY <2>1, RilClientAssumption DEF Connections
<1>2. /\ conns' \in {conns, conns + 1}
      /\ sender'.s \in {sender.s, 0, conns}
  <2>1. conns' \in {conns, conns + 1}
    BY Zenon DEF Next, send, HandleSend, ReceiverStep, obtain, SendFails, SendGoesOn,
       acquireWakeLock, CountPending, Post, SenderFindsNoSocket, SenderTakes, SenderAdds,
       SenderReadsPending, SenderWritesPending, SenderMarshalls, SenderWrites, SenderFails,
       SenderDone, SenderTakesTimeout, TimeoutResetsWaiting, SenderHandlesTimeout,
       processUnsolicited, DaemonHangsUp, Connect, processSolicited, ReceiverReadsWaiting,
       ReceiverWritesWaiting, Answer, ReceiverDone, CloseSocket, ForgetSocket, resetSerial,
       clearRequestsList, vars
  <2>2. \/ UNCHANGED <<sender>>
        \/ SenderFindsNoSocket \/ SenderTakes \/ SenderAdds \/ SenderReadsPending
        \/ SenderWritesPending \/ SenderMarshalls \/ SenderWrites \/ SenderFails \/ SenderDone
        \/ SenderTakesTimeout \/ TimeoutResetsWaiting \/ SenderHandlesTimeout
    BY Zenon DEF Next, send, HandleSend, ReceiverStep, obtain, SendFails, SendGoesOn,
       acquireWakeLock, CountPending, Post, Connect, processUnsolicited, processSolicited,
       ReceiverReadsWaiting, ReceiverWritesWaiting, Answer, ReceiverDone, CloseSocket,
       ForgetSocket, resetSerial, clearRequestsList, DaemonHangsUp, vars
  <2>3. CASE SenderTakes
    BY <2>3 DEF SenderTakes, SenderIdle, SocketTyped
  <2>4. CASE SenderFindsNoSocket \/ SenderDone \/ SenderTakesTimeout \/ TimeoutResetsWaiting
             \/ SenderHandlesTimeout
    BY <2>4 DEF SenderFindsNoSocket, SenderDone, SenderTakesTimeout, TimeoutResetsWaiting,
       SenderHandlesTimeout, SenderIdle
  <2>5. CASE SenderAdds \/ SenderReadsPending \/ SenderWritesPending \/ SenderMarshalls
             \/ SenderWrites \/ SenderFails
    BY <2>5 DEF SenderAdds, SenderReadsPending, SenderWritesPending, SenderMarshalls,
       SenderWrites, SenderFails, SenderTyped, SenderType, SenderIdle
  <2> QED
    BY <2>1, <2>2, <2>3, <2>4, <2>5
<1>3. sender'.s <= conns'
  BY <1>1, <1>2 DEF Connected
<1>4. receiver'.pc \in {"connect", "forget", "reset", "clear"} => ~socketOpen' /\ received' = {}
  <2>1. \/ UNCHANGED <<receiver, socketOpen, received>>
        \/ SenderWrites \/ Connect \/ processSolicited \/ ReceiverReadsWaiting
        \/ ReceiverWritesWaiting \/ Answer \/ ReceiverDone \/ CloseSocket \/ ForgetSocket
        \/ resetSerial \/ clearRequestsList
    BY Zenon DEF Next, send, HandleSend, ReceiverStep, obtain, SendFails, SendGoesOn,
       acquireWakeLock, CountPending, Post, SenderFindsNoSocket, SenderTakes, SenderAdds,
       SenderReadsPending, SenderWritesPending, SenderMarshalls, SenderFails, SenderDone,
       SenderTakesTimeout, TimeoutResetsWaiting, SenderHandlesTimeout, processUnsolicited,
       DaemonHangsUp, vars
  <2>2. CASE UNCHANGED <<receiver, socketOpen, received>>
    BY <2>2 DEF Connected
  <2>3. CASE SenderWrites
    <3>1. UNCHANGED <<receiver, socketOpen>> /\ (socketOpen \/ received' = received)
      BY <2>3, Zenon DEF SenderWrites
    <3> QED
      BY <3>1, Zenon DEF Connected
  <2>4. CASE Connect \/ Answer \/ ReceiverDone \/ processSolicited
    BY <2>4 DEF Connect, Answer, ReceiverDone, processSolicited, ReceiverIdle
  <2>5. CASE CloseSocket
    BY <2>5 DEF CloseSocket
  <2>6. CASE ForgetSocket
    BY <2>6 DEF ForgetSocket, Connected
  <2>7. CASE resetSerial
    BY <2>7 DEF resetSerial, Connected
  <2>8. CASE clearRequestsList
    BY <2>8 DEF clearRequestsList, Connected
  <2>9. CASE ReceiverReadsWaiting \/ ReceiverWritesWaiting
    BY <2>9 DEF ReceiverReadsWaiting, ReceiverWritesWaiting, ReceiverTyped, ReceiverType
  <2> QED
    BY <2>1, <2>2, <2>3, <2>4, <2>5, <2>6, <2>7, <2>8, <2>9
<1>5. receiver'.pc # "connect" => conns' # 0
  <2>1. \/ UNCHANGED receiver
        \/ Connect \/ processSolicited \/ ReceiverReadsWaiting \/ ReceiverWritesWaiting \/ Answer
        \/ ReceiverDone \/ CloseSocket \/ ForgetSocket \/ resetSerial \/ clearRequestsList
    BY Zenon DEF Next, send, HandleSend, ReceiverStep, obtain, SendFails, SendGoesOn,
       acquireWakeLock, CountPending, Post, SenderFindsNoSocket, SenderTakes, SenderAdds,
       SenderReadsPending, SenderWritesPending, SenderMarshalls, SenderWrites, SenderFails,
       SenderDone, SenderTakesTimeout, TimeoutResetsWaiting, SenderHandlesTimeout,
       processUnsolicited, DaemonHangsUp, vars
  <2>2. \/ UNCHANGED receiver \/ receiver.pc # "connect" \/ conns' = conns + 1
    BY <2>1, Zenon DEF Connect, processSolicited, ReceiverReadsWaiting, ReceiverWritesWaiting,
       Answer, ReceiverDone, CloseSocket, ForgetSocket, resetSerial, clearRequestsList
  <2> QED
    BY <1>1, <1>2, <2>2 DEF Connected
<1> QED
  BY <1>3, <1>4, <1>5 DEF Connected

\* Objects are in the places they can be in, and 0 is none of them.
LEMMA PlacesTyped ==
  ASSUME Typed
  PROVE  /\ Calling \subseteq Objects /\ Queued \subseteq Objects /\ Adding \subseteq Objects
         /\ Listed \subseteq Objects /\ Answering \subseteq Objects /\ Pooled \subseteq Objects
         /\ Owned \subseteq Objects /\ 0 \notin Owned /\ 0 \notin Listed
<1> USE DEF Typed
<1>1. Calling \subseteq Objects
  BY Numbers DEF Calling, CallersTyped, CallerType
<1>2. Queued \subseteq Objects /\ Listed \subseteq Objects /\ Pooled \subseteq Objects
  BY NotNone DEF Queued, Listed, Pooled, QueueTyped, ListTyped, ObjectsTyped
<1>3. Adding \subseteq Objects
  BY DEF Adding, SenderTyped
<1>4. Answering \subseteq Objects
  BY Numbers DEF Answering, ReceiverTyped, ReceiverType
<1> QED
  BY <1>1, <1>2, <1>3, <1>4, Numbers DEF Owned

\* A thread that is done with its request has it no more.
LEMMA CallerLets ==
  ASSUME Typed, CallersApart, NEW t \in Threads, caller[t].pc # "idle",
         caller' = [caller EXCEPT ![t] = CallerIdle]
  PROVE  /\ caller[t].rr \in Calling /\ caller[t].rr \in Objects
         /\ Calling' = Calling \ {caller[t].rr} /\ CallersApart'
<1>1. caller[t].rr \in Objects /\ caller[t].rr # 0
  BY Numbers DEF Typed, CallersTyped
<1>2. /\ caller'[t].rr = 0
      /\ \A u \in Threads \ {t} : caller'[u].rr = caller[u].rr
  BY DEF Typed, CallersTyped, CallerIdle
<1>3. \A u \in Threads \ {t} : caller[u].rr # caller[t].rr
  BY <1>1 DEF CallersApart
<1>4. CallersApart'
  BY <1>2 DEF CallersApart
<1>5. Calling' = Calling \ {caller[t].rr}
  BY <1>1, <1>2, <1>3 DEF Calling
<1> QED
  BY <1>1, <1>4, <1>5 DEF Calling

LEMMA CallersGoOn ==
  ASSUME CallersApart, \A t \in Threads : caller'[t].rr = caller[t].rr
  PROVE  Calling' = Calling /\ CallersApart'
  BY DEF Calling, CallersApart

\* What is released is in the pool, or nowhere.
LEMMA ReleasedOnce ==
  ASSUME ObjectsTyped, NEW os \in Seq(Objects), IsInjective(os), IsInjective(sPool),
         ToSet(os) \cap Pooled = {}, Release(os)
  PROVE  /\ IsInjective(sPool') /\ Pooled' \subseteq Pooled \cup ToSet(os)
         /\ \A o \in Objects \ ToSet(os) : mResult'[o] = mResult[o]
<1> DEFINE room == MAX_POOL_SIZE - Len(sPool)
           kept == IF Len(os) < room THEN Len(os) ELSE room
           pooled == SubSeq(os, 1, kept)
<1>1. Len(os) \in Nat /\ kept \in Nat /\ kept <= Len(os)
  BY LenProperties, RilClientAssumption DEF ObjectsTyped
<1>2. /\ sPool' = Reverse(pooled) \o sPool
      /\ \A o \in Objects : mResult'[o] = IF o \in ToSet(pooled) THEN 0 ELSE mResult[o]
  BY DEF Release
<1> HIDE DEF kept
<1>3. pooled \in Seq(Objects) /\ IsInjective(pooled) /\ ToSet(pooled) \subseteq ToSet(os)
  BY <1>1, FirstOfOnce
<1> HIDE DEF pooled
<1>4. /\ Reverse(pooled) \in Seq(Objects) /\ IsInjective(Reverse(pooled))
      /\ ToSet(Reverse(pooled)) = ToSet(pooled)
  BY <1>3, ReversedOnce
<1>5. sPool \in Seq(Objects) /\ ToSet(Reverse(pooled)) \cap ToSet(sPool) = {}
  BY <1>3, <1>4 DEF ObjectsTyped, Pooled
<1>6. IsInjective(sPool') /\ ToSet(sPool') = ToSet(pooled) \cup ToSet(sPool)
  BY <1>2, <1>4, <1>5, JoinedOnce
<1> QED
  BY <1>2, <1>3, <1>6 DEF Pooled

\* Objects keep their requests.
LEMMA RequestsKept ==
  ASSUME Matched, UNCHANGED <<mSerial, mResult, results, issued>>,
         Owned' \subseteq Owned, sender'.rr \in Owned \cup {sender.rr, 0},
         \A o \in Owned : mp'[o] \in {0, mp[o]}
  PROVE  Untold' /\ SerialsApart' /\ Told'
<1>1. Untold'
  BY DEF Matched, Untold
<1>2. SerialsApart'
  BY DEF Matched, SerialsApart
<1>3. Told'
  BY DEF Matched, Told
<1> QED
  BY <1>1, <1>2, <1>3

\* The callers of some requests are told: an error, or the response to the request.
LEMMA RequestsTold ==
  ASSUME Typed, Matched, NEW os, NEW what \in Serials, os \subseteq Owned,
         \A o \in os : what \in {0, mResult[o]},
         Report(os, what), UNCHANGED <<mSerial, issued>>,
         \A o \in Owned \ os : mResult'[o] = mResult[o] /\ mp'[o] \in {0, mp[o]},
         Owned' \subseteq Owned \ os, sender'.rr \in Owned \cup {sender.rr, 0}
  PROVE  Untold' /\ SerialsApart' /\ Told'
<1>1. \A r \in Requests : results'[r] = IF \E o \in os : mResult[o] = r
                                         THEN Append(results[r], what) ELSE results[r]
  BY DEF Report
<1>2. \A o \in Owned : mResult[o] \in 1 .. issued /\ results[mResult[o]] = <<>> /\ mp[o] \in {0, mResult[o]}
  BY DEF Matched, Untold
<1>3. \A o \in Owned : mResult[o] \in Requests
  BY <1>2, RilClientAssumption DEF Typed, IssueTyped, Requests
<1>4. \A o, p \in Owned : mResult[o] = mResult[p] => o = p
  BY DEF Matched, Untold
<1>5. Untold'
  <2>1. ASSUME NEW o \in Owned'
        PROVE  mResult'[o] \in 1 .. issued' /\ results'[mResult'[o]] = <<>> /\ mp'[o] \in {0, mResult'[o]}
    <3>1. o \in Owned \ os /\ mResult'[o] = mResult[o]
      BY <2>1
    <3>2. ~ \E p \in os : mResult[p] = mResult[o]
      BY <1>4, <3>1
    <3>3. results'[mResult[o]] = <<>>
      BY <1>1, <1>2, <1>3, <3>1, <3>2
    <3> QED
      BY <1>2, <3>1, <3>3
  <2>2. \A o, p \in Owned' : mResult'[o] = mResult'[p] => o = p
    BY <1>4
  <2>3. ASSUME NEW r \in Requests, r > issued' PROVE results'[r] = <<>>
    <3>1. ~ \E o \in os : mResult[o] = r
      BY <1>2, <2>3 DEF Typed, IssueTyped, Requests
    <3>2. results[r] = <<>>
      BY <2>3 DEF Matched, Untold
    <3> QED
      BY <1>1, <3>1, <3>2
  <2> QED
    BY <2>1, <2>2, <2>3 DEF Untold
<1>6. SerialsApart'
  BY DEF Matched, SerialsApart
<1>7. Told'
  <2> SUFFICES ASSUME NEW r \in Requests PROVE results'[r] \in {<<>>, <<0>>, <<r>>}
    BY DEF Told
  <2>1. CASE \E o \in os : mResult[o] = r
    <3>1. PICK o \in os : mResult[o] = r
      BY <2>1
    <3>2. results'[r] = Append(<<>>, what) /\ what \in {0, r}
      BY <1>1, <1>2, <3>1
    <3>3. Append(<<>>, what) = <<what>>
      OBVIOUS
    <3> QED
      BY <3>2, <3>3
  <2>2. CASE ~ \E o \in os : mResult[o] = r
    BY <1>1, <2>2 DEF Matched, Told
  <2> QED
    BY <2>1, <2>2
<1> QED
  BY <1>5, <1>6, <1>7

\* What is awaited stays on the list.
LEMMA AwaitedKept ==
  ASSUME Awaited, received' \subseteq received, UNCHANGED mSerial,
         \A o \in Listed \ {sender.rr} : o \in Listed' \ {sender'.rr} /\ mResult'[o] = mResult[o]
  PROVE  Awaited'
  BY DEF Awaited

\* A step that leaves objects where they are.
LEMMA PlacesKept ==
  ASSUME Matched, UNCHANGED <<requestVars, created, issued, queue, mRequestsList>>,
         CallersApart', Calling' = Calling, Adding' = Adding, Answering' = Answering,
         sender'.rr \in {sender.rr, 0}, received' \subseteq received
  PROVE  InOnePlace' /\ Untold' /\ SerialsApart' /\ Told' /\ Awaited'
<1>1. UNCHANGED <<mSerial, mResult, mp, sPool, results, created, issued, queue, mRequestsList>>
  BY DEF requestVars
<1>2. Queued' = Queued /\ Listed' = Listed /\ Pooled' = Pooled
  BY <1>1 DEF Queued, Listed, Pooled
<1>3. Owned' = Owned
  BY <1>2 DEF Owned
<1>4. PlacesApart'
  BY <1>2 DEF Matched, InOnePlace, PlacesApart
<1>5. InOnePlace'
  BY <1>1, <1>2, <1>3, <1>4 DEF Matched, InOnePlace
<1>6. Untold' /\ SerialsApart' /\ Told'
  BY <1>1, <1>3, RequestsKept
<1>7. 0 \notin Listed
  BY DEF Matched, InOnePlace, Owned
<1>8. Awaited'
  BY <1>1, <1>2, <1>7, AwaitedKept DEF Matched
<1> QED
  BY <1>5, <1>6, <1>8

\* Steps that have nothing to do with it.
LEMMA MatchedSame ==
  ASSUME Matched,
         UNCHANGED <<requestVars, created, issued, queue, mRequestsList, caller, sender, receiver,
                     received, conns, socketOpen>>
  PROVE  Matched'
<1>1. CallersApart' /\ Calling' = Calling /\ Adding' = Adding /\ Answering' = Answering
  BY DEF Matched, InOnePlace, CallersApart, Calling, Adding, Answering
<1>2. InOnePlace' /\ Untold' /\ SerialsApart' /\ Told' /\ Awaited'
  BY <1>1, PlacesKept
<1>3. SenderListed' /\ AnswersIt'
  BY DEF Matched, SenderListed, AnswersIt, HasAnswer, Listed, requestVars
<1> QED
  BY <1>2, <1>3 DEF Matched

\* A thread in send goes on with its request.
LEMMA MatchedCaller ==
  ASSUME Typed, Matched, NEW t \in Threads, SendGoesOn(t) \/ acquireWakeLock(t) \/ CountPending(t)
  PROVE  Matched'
<1>1. UNCHANGED <<requestVars, created, issued, queue, mRequestsList, sender, receiver, received,
                  conns, socketOpen>>
  BY DEF SendGoesOn, acquireWakeLock, CountPending, issueVars, socketVars, listVars
<1>2. \A u \in Threads : caller'[u].rr = caller[u].rr
  BY DEF SendGoesOn, acquireWakeLock, CountPending, Typed, CallersTyped, CallerType
<1>3. CallersApart' /\ Calling' = Calling
  BY <1>2, CallersGoOn DEF Matched, InOnePlace
<1>4. Adding' = Adding /\ Answering' = Answering
  BY <1>1 DEF Adding, Answering
<1>5. InOnePlace' /\ Untold' /\ SerialsApart' /\ Told' /\ Awaited'
  BY <1>1, <1>3, <1>4, PlacesKept
<1>6. SenderListed' /\ AnswersIt'
  BY <1>1 DEF Matched, SenderListed, AnswersIt, HasAnswer, Listed, requestVars
<1> QED
  BY <1>5, <1>6 DEF Matched

\* The sender counts, and handles other messages.
LEMMA MatchedSender ==
  ASSUME Typed, Matched,
         \/ SenderReadsPending \/ SenderWritesPending \/ SenderDone \/ SenderTakesTimeout
         \/ TimeoutResetsWaiting \/ SenderHandlesTimeout
  PROVE  Matched'
<1>1. UNCHANGED <<requestVars, created, issued, queue, mRequestsList, caller, receiver, received,
                  conns, socketOpen>>
  BY Zenon DEF SenderReadsPending, SenderWritesPending, SenderDone, SenderTakesTimeout,
     TimeoutResetsWaiting, SenderHandlesTimeout, issueVars, socketVars, listVars
<1>2. /\ sender.pc # "add" /\ sender'.pc # "add" /\ sender'.rr \in {sender.rr, 0}
      /\ sender'.pc \in {"subtract", "write pending", "marshall", "write"} =>
           sender'.pc # "write" /\ sender'.rr = sender.rr /\ sender'.s = sender.s
           /\ sender.pc \in {"subtract", "write pending"}
  <2>1. CASE SenderReadsPending
    BY <2>1 DEF SenderReadsPending, AfterSubtract, Typed, SenderTyped, SenderType
  <2>2. CASE SenderWritesPending
    BY <2>2 DEF SenderWritesPending, AfterSubtract, Typed, SenderTyped, SenderType
  <2>3. CASE SenderDone
    BY <2>3 DEF SenderDone, SenderIdle
  <2>4. CASE SenderTakesTimeout
    BY <2>4 DEF SenderTakesTimeout, SenderIdle
  <2>5. CASE SenderHandlesTimeout
    BY <2>5 DEF SenderHandlesTimeout, SenderIdle
  <2>6. CASE TimeoutResetsWaiting
    BY <2>6 DEF TimeoutResetsWaiting, SenderIdle
  <2> QED
    BY <2>1, <2>2, <2>3, <2>4, <2>5, <2>6
<1>3. CallersApart' /\ Calling' = Calling /\ Adding' = Adding /\ Answering' = Answering
  BY <1>1, <1>2 DEF Matched, InOnePlace, CallersApart, Calling, Adding, Answering
<1>4. InOnePlace' /\ Untold' /\ SerialsApart' /\ Told' /\ Awaited'
  BY <1>1, <1>2, <1>3, PlacesKept
<1>5. AnswersIt'
  BY <1>1 DEF Matched, AnswersIt, HasAnswer, requestVars
<1>6. SenderListed'
  BY <1>1, <1>2 DEF Matched, SenderListed, Listed
<1> QED
  BY <1>4, <1>5, <1>6 DEF Matched

\* The receiver opens, reads and closes connections.
LEMMA MatchedReceiver ==
  ASSUME Typed, IdleOwnNothing, Connected, Matched,
         Connect \/ ReceiverDone \/ CloseSocket \/ ForgetSocket \/ resetSerial
  PROVE  Matched'
<1>1. /\ UNCHANGED <<requestVars, created, issued, queue, mRequestsList, caller, sender>>
      /\ received' \subseteq received
  BY DEF Connect, ReceiverDone, CloseSocket, ForgetSocket, resetSerial, issueVars, socketVars,
     listVars
<1>2. ~HasAnswer /\ ~HasAnswer' /\ receiver'.rr = 0
  <2>1. \E pc \in {"connect", "read", "done", "forget", "reset", "clear"} :
          receiver' = ReceiverIdle(pc)
    BY Zenon DEF Connect, ReceiverDone, CloseSocket, ForgetSocket, resetSerial
  <2>2. ~HasAnswer
    BY DEF Connect, ReceiverDone, CloseSocket, ForgetSocket, resetSerial, HasAnswer
  <2> QED
    BY <2>1, <2>2, IdleTyped
<1>3. CallersApart' /\ Calling' = Calling /\ Adding' = Adding /\ Answering' = Answering
  BY <1>1, <1>2 DEF Matched, InOnePlace, CallersApart, Calling, Adding, Answering, IdleOwnNothing
<1>4. InOnePlace' /\ Untold' /\ SerialsApart' /\ Told' /\ Awaited'
  BY <1>1, <1>3, PlacesKept
<1>5. AnswersIt'
  BY <1>2 DEF AnswersIt, HasAnswer
<1>6. SenderListed'
  <2>1. CASE Connect
    <3>1. conns \in Nat /\ conns' = conns + 1
      BY <2>1, RilClientAssumption DEF Connect, Typed, SocketTyped, Connections
    <3>2. sender'.s \in Nat /\ sender'.s <= conns
      <4>1. sender.s \in Connections /\ sender'.s = sender.s
        BY <1>1 DEF Typed, SenderTyped, SenderType
      <4>2. sender.s \in Nat
        BY <4>1, RilClientAssumption DEF Connections
      <4> QED
        BY <4>1, <4>2 DEF Connected
    <3>3. sender'.s # conns'
      BY <3>1, <3>2
    <3> QED
      BY <3>3, Zenon DEF SenderListed
  <2>2. CASE CloseSocket
    BY <2>2 DEF CloseSocket, SenderListed
  <2>3. CASE ReceiverDone \/ ForgetSocket \/ resetSerial
    <3>1. UNCHANGED <<conns, socketOpen>>
      BY <2>3 DEF ReceiverDone, ForgetSocket, resetSerial, socketVars
    <3> QED
      BY <1>1, <3>1 DEF Matched, SenderListed, Listed, requestVars
  <2> QED
    BY <2>1, <2>2, <2>3
<1> QED
  BY <1>4, <1>5, <1>6 DEF Matched

\* A request goes to the queue.
LEMMA MatchedPost ==
  ASSUME Typed, Matched, NEW t \in Threads, Post(t)
  PROVE  Matched'
<1>1. /\ UNCHANGED <<mSerial, mResult, mp, sPool, results, created, issued, mRequestsList, sender,
                     receiver, received, conns, socketOpen>>
      /\ caller' = [caller EXCEPT ![t] = CallerIdle] /\ queue' = Append(queue, caller[t].rr)
  BY DEF Post, requestVars, issueVars, socketVars, listVars
<1>2. /\ caller[t].rr \in Calling /\ caller[t].rr \in Objects
      /\ Calling' = Calling \ {caller[t].rr} /\ CallersApart'
  BY <1>1, CallerLets DEF Matched, InOnePlace, Post
<1>3. Queued' = Queued \cup {caller[t].rr} /\ IsInjective(queue')
  BY <1>1, <1>2, AppendedOnce DEF Queued, Matched, InOnePlace, PlacesApart, Typed, QueueTyped
<1>4. Adding' = Adding /\ Listed' = Listed /\ Answering' = Answering /\ Pooled' = Pooled
  BY <1>1 DEF Adding, Listed, Answering, Pooled
<1>5. Owned' = Owned
  BY <1>2, <1>3, <1>4 DEF Owned
<1>6. PlacesApart'
  BY <1>2, <1>3, <1>4 DEF Matched, InOnePlace, PlacesApart
<1>7. InOnePlace'
  BY <1>1, <1>2, <1>3, <1>4, <1>5, <1>6 DEF Matched, InOnePlace
<1>8. Untold' /\ SerialsApart' /\ Told'
  BY <1>1, <1>5, RequestsKept
<1>9. Awaited' /\ AnswersIt'
  BY <1>1, <1>4 DEF Matched, Awaited, AnswersIt, HasAnswer
<1>10. SenderListed'
  BY <1>1, <1>4 DEF Matched, SenderListed
<1> QED
  BY <1>7, <1>8, <1>9, <1>10 DEF Matched

\* The sender takes a request from the queue.
LEMMA MatchedTakes ==
  ASSUME Typed, Matched, SenderTakes
  PROVE  Matched'
<1>1. /\ UNCHANGED <<mSerial, mResult, mp, sPool, results, created, issued, mRequestsList, caller,
                     receiver, received, conns, socketOpen>>
      /\ queue # <<>> /\ queue' = Tail(queue)
      /\ sender.pc = "idle" /\ sender'.pc = "add" /\ sender'.rr = Head(queue)
  BY DEF SenderTakes, SenderIdle, requestVars, issueVars, socketVars, listVars
<1>2. /\ Head(queue) \in Queued /\ Queued' = Queued \ {Head(queue)} /\ IsInjective(queue')
  BY <1>1, FirstTakenOff DEF Queued, Matched, InOnePlace, Typed, QueueTyped
<1>3. Adding = {} /\ Adding' = {Head(queue)}
  BY <1>1 DEF Adding
<1>4. Calling' = Calling /\ Listed' = Listed /\ Answering' = Answering /\ Pooled' = Pooled
  BY <1>1 DEF Calling, Listed, Answering, Pooled
<1>5. Owned' = Owned
  BY <1>2, <1>3, <1>4 DEF Owned
<1>6. PlacesApart'
  BY <1>2, <1>3, <1>4 DEF Matched, InOnePlace, PlacesApart
<1>7. CallersApart' /\ Head(queue) \in Owned
  BY <1>1, <1>2 DEF Matched, InOnePlace, CallersApart, Owned
<1>8. InOnePlace'
  BY <1>1, <1>2, <1>4, <1>5, <1>6, <1>7 DEF Matched, InOnePlace
<1>9. Untold' /\ SerialsApart' /\ Told'
  BY <1>1, <1>5, <1>7, RequestsKept
<1>10. Awaited'
  <2>1. Head(queue) \notin Listed
    BY <1>2 DEF Matched, InOnePlace, PlacesApart
  <2> QED
    BY <1>1, <1>4, <2>1, AwaitedKept DEF Matched
<1>11. AnswersIt' /\ SenderListed'
  BY <1>1 DEF Matched, AnswersIt, HasAnswer, SenderListed
<1> QED
  BY <1>8, <1>9, <1>10, <1>11 DEF Matched

\* It puts the request on the list.
LEMMA MatchedAdds ==
  ASSUME Typed, Matched, SenderAdds
  PROVE  Matched'
<1>1. /\ UNCHANGED <<mSerial, mResult, mp, sPool, results, created, issued, queue, caller,
                     receiver, received, conns, socketOpen>>
      /\ mRequestsList' = Append(mRequestsList, sender.rr)
      /\ sender.pc = "add" /\ sender'.pc = "subtract" /\ sender'.rr = sender.rr
      /\ sender.rr \in Objects
  BY DEF SenderAdds, requestVars, issueVars, socketVars, Typed, SenderTyped, SenderType
<1>2. Adding = {sender.rr} /\ Adding' = {}
  BY <1>1 DEF Adding
<1>3. Listed' = Listed \cup {sender.rr} /\ IsInjective(mRequestsList')
  BY <1>1, <1>2, AppendedOnce DEF Listed, Matched, InOnePlace, PlacesApart, Typed, ListTyped
<1>4. Calling' = Calling /\ Queued' = Queued /\ Answering' = Answering /\ Pooled' = Pooled
  BY <1>1 DEF Calling, Queued, Answering, Pooled
<1>5. Owned' = Owned
  BY <1>2, <1>3, <1>4 DEF Owned
<1>6. PlacesApart'
  BY <1>2, <1>3, <1>4 DEF Matched, InOnePlace, PlacesApart
<1>7. CallersApart'
  BY <1>1 DEF Matched, InOnePlace, CallersApart
<1>8. InOnePlace'
  BY <1>1, <1>3, <1>4, <1>5, <1>6, <1>7 DEF Matched, InOnePlace
<1>9. Untold' /\ SerialsApart' /\ Told'
  BY <1>1, <1>5, RequestsKept
<1>10. Awaited'
  BY <1>1, <1>3, AwaitedKept DEF Matched
<1>11. AnswersIt' /\ SenderListed'
  BY <1>1, <1>3 DEF Matched, AnswersIt, HasAnswer, SenderListed
<1> QED
  BY <1>8, <1>9, <1>10, <1>11 DEF Matched

\* It takes the parcel out of the request.
LEMMA MatchedMarshalls ==
  ASSUME Typed, Matched, SenderMarshalls
  PROVE  Matched'
<1>1. /\ UNCHANGED <<mSerial, mResult, sPool, results, created, issued, queue, mRequestsList,
                     caller, receiver, received, conns, socketOpen>>
      /\ sender.pc = "marshall" /\ sender'.pc \in {"write", "error"}
      /\ sender'.rr = sender.rr
      /\ sender'.pc = "write" =>
           mp[sender.rr] # 0 /\ sender'.s = sender.s /\ sender'.data = mp[sender.rr]
      /\ sender.rr \in Objects /\ sender.rr # 0
      /\ \A o \in Objects : mp'[o] \in {0, mp[o]}
  BY Numbers DEF SenderMarshalls, Recycled, SenderIdle, issueVars, socketVars, listVars, Typed,
     SenderTyped, SenderType
<1>2. Adding = {} /\ Adding' = {}
  BY <1>1 DEF Adding
<1>3. /\ Calling' = Calling /\ Queued' = Queued /\ Listed' = Listed /\ Answering' = Answering
      /\ Pooled' = Pooled
  BY <1>1 DEF Calling, Queued, Listed, Answering, Pooled
<1>4. Owned' = Owned
  BY <1>2, <1>3 DEF Owned
<1>5. PlacesApart'
  BY <1>2, <1>3 DEF Matched, InOnePlace, PlacesApart
<1>6. CallersApart'
  BY <1>1 DEF Matched, InOnePlace, CallersApart
<1>7. InOnePlace'
  BY <1>1, <1>3, <1>4, <1>5, <1>6 DEF Matched, InOnePlace
<1>8. Untold' /\ SerialsApart' /\ Told'
  <2>1. \A o \in Owned : mp'[o] \in {0, mp[o]}
    BY <1>1, PlacesTyped
  <2> QED
    BY <1>1, <1>4, <2>1, RequestsKept
<1>9. Awaited'
  BY <1>1, <1>3, AwaitedKept DEF Matched
<1>10. AnswersIt'
  BY <1>1 DEF Matched, AnswersIt, HasAnswer
<1>11. SenderListed'
  <2> SUFFICES ASSUME sender'.pc = "write", sender.s = conns, socketOpen
               PROVE  sender.rr \in Listed /\ mp[sender.rr] = mResult[sender.rr]
    BY <1>1, <1>3 DEF SenderListed
  <2>1. sender.rr \in Listed
    BY <1>1 DEF Matched, SenderListed
  <2>2. mp[sender.rr] \in {0, mResult[sender.rr]}
    BY <2>1 DEF Matched, Untold, Owned
  <2> QED
    BY <1>1, <2>1, <2>2
<1> QED
  BY <1>7, <1>8, <1>9, <1>10, <1>11 DEF Matched

\* It writes the request, or cannot.
LEMMA MatchedWrites ==
  ASSUME Typed, Matched, SenderWrites
  PROVE  Matched'
<1>1. /\ UNCHANGED <<mSerial, mResult, mp, sPool, results, created, issued, queue, mRequestsList,
                     caller, receiver, conns, socketOpen>>
      /\ sender.pc = "write" /\ sender'.pc \in {"done", "error"} /\ sender'.rr \in {sender.rr, 0}
  BY DEF SenderWrites, SenderIdle, requestVars, issueVars, socketVars, listVars
<1>2. Adding = {} /\ Adding' = {}
  BY <1>1 DEF Adding
<1>3. /\ Calling' = Calling /\ Queued' = Queued /\ Listed' = Listed /\ Answering' = Answering
      /\ Pooled' = Pooled
  BY <1>1 DEF Calling, Queued, Listed, Answering, Pooled
<1>4. Owned' = Owned
  BY <1>2, <1>3 DEF Owned
<1>5. PlacesApart'
  BY <1>2, <1>3 DEF Matched, InOnePlace, PlacesApart
<1>6. CallersApart'
  BY <1>1 DEF Matched, InOnePlace, CallersApart
<1>7. InOnePlace'
  BY <1>1, <1>3, <1>4, <1>5, <1>6 DEF Matched, InOnePlace
<1>8. Untold' /\ SerialsApart' /\ Told'
  BY <1>1, <1>4, RequestsKept
<1>9. AnswersIt' /\ SenderListed'
  BY <1>1 DEF Matched, AnswersIt, HasAnswer, SenderListed
<1>10. Awaited'
  <2>1. CASE sender.s = conns /\ socketOpen /\ peerOpen
    <3> DEFINE new == [serial |-> mSerial[sender.rr], of |-> sender.data]
    <3>1. received' = received \cup {new} /\ sender'.rr = 0
      BY <2>1 DEF SenderWrites, SenderIdle
    <3>2. sender.rr \in Objects /\ sender.rr # 0
      BY <1>1, Numbers DEF Typed, SenderTyped
    <3>3. sender.rr \in Listed /\ sender.data = mResult[sender.rr]
      BY <1>1, <2>1, <3>2 DEF Matched, SenderListed
    <3>4. 0 \notin Listed
      BY PlacesTyped
    <3>5. sender.rr \in Listed' \ {sender'.rr} /\ mSerial'[sender.rr] = new.serial
          /\ mResult'[sender.rr] = new.of
      BY <1>1, <1>3, <3>1, <3>3, <3>4
    <3>6. \A m \in received : \E o \in Listed' \ {sender'.rr} :
             mSerial'[o] = m.serial /\ mResult'[o] = m.of
      BY <1>1, <1>3, <3>1, <3>4 DEF Matched, Awaited
    <3> HIDE DEF new
    <3> QED
      BY <3>1, <3>5, <3>6 DEF Awaited
  <2>2. CASE ~(sender.s = conns /\ socketOpen /\ peerOpen)
    <3>1. UNCHANGED received /\ sender'.rr = sender.rr
      BY <2>2 DEF SenderWrites, SenderIdle
    <3> QED
      BY <1>1, <1>3, <3>1, AwaitedKept DEF Matched
  <2> QED
    BY <2>1, <2>2
<1> QED
  BY <1>7, <1>8, <1>9, <1>10 DEF Matched

\* A request is failed by the thread that makes it, for want of a connection.
LEMMA MatchedSendFails ==
  ASSUME Typed, Matched, NEW t \in Threads, SendFails(t)
  PROVE  Matched'
<1> DEFINE o == caller[t].rr
<1>1. /\ UNCHANGED <<mSerial, created, issued, queue, mRequestsList, sender, receiver, received,
                     conns, socketOpen>>
      /\ caller' = [caller EXCEPT ![t] = CallerIdle] /\ caller[t].pc # "idle" /\ Fail(<<o>>)
  BY DEF SendFails, Fail, issueVars, socketVars, listVars
<1>2. /\ o \in Calling /\ o \in Objects /\ Calling' = Calling \ {o} /\ CallersApart'
  BY <1>1, CallerLets DEF Matched, InOnePlace
<1> HIDE DEF o
<1>3. /\ Queued' = Queued /\ Adding' = Adding /\ Listed' = Listed /\ Answering' = Answering
  BY <1>1 DEF Queued, Adding, Listed, Answering
<1>4. /\ ToSet(<<o>>) = {o} /\ IsInjective(<<o>>) /\ <<o>> \in Seq(Objects)
  BY <1>2, NoneOrOne, One
<1>5. o \notin Queued \cup Adding \cup Listed \cup Answering \cup Pooled
  BY <1>2 DEF Matched, InOnePlace, PlacesApart
<1>6. /\ IsInjective(sPool') /\ Pooled' \subseteq Pooled \cup {o}
      /\ \A p \in Objects \ {o} : mResult'[p] = mResult[p]
  BY <1>1, <1>4, <1>5, ReleasedOnce DEF Fail, Matched, InOnePlace, Typed
<1>7. Owned' = Owned \ {o} /\ o \in Owned
  BY <1>2, <1>3, <1>5 DEF Owned
<1>8. PlacesApart'
  BY <1>2, <1>3, <1>5, <1>6 DEF Matched, InOnePlace, PlacesApart
<1>9. InOnePlace'
  BY <1>1, <1>2, <1>6, <1>7, <1>8 DEF Matched, InOnePlace
<1>10. Report({o}, 0) /\ \A p \in Objects : mp'[p] \in {0, mp[p]}
  BY <1>1, <1>4 DEF Fail, Recycled
<1>11. Untold' /\ SerialsApart' /\ Told'
  <2>1. \A p \in Owned \ {o} : mResult'[p] = mResult[p] /\ mp'[p] \in {0, mp[p]}
    BY <1>6, <1>10, PlacesTyped
  <2>2. {o} \subseteq Owned /\ 0 \in Serials /\ sender'.rr \in Owned \cup {sender.rr, 0}
    BY <1>1, <1>7, Numbers
  <2> QED
    BY <1>1, <1>7, <1>10, <2>1, <2>2, RequestsTold
<1>12. Awaited' /\ SenderListed'
  <2>1. \A p \in Listed : mResult'[p] = mResult[p]
    BY <1>5, <1>6, PlacesTyped
  <2>2. Awaited'
    BY <1>1, <1>3, <2>1, AwaitedKept DEF Matched
  <2> QED
    BY <1>1, <1>3, <2>1, <2>2 DEF Matched, SenderListed
<1>13. AnswersIt'
  <2>1. HasAnswer => receiver.rr \in Answering /\ receiver.rr \in Objects
    BY Numbers DEF Answering, Typed, ReceiverTyped
  <2> QED
    BY <1>1, <1>5, <1>6, <2>1 DEF Matched, AnswersIt, HasAnswer
<1> QED
  BY <1>9, <1>11, <1>12, <1>13 DEF Matched

\* It is failed by the sender.
LEMMA MatchedNoSocket ==
  ASSUME Typed, Matched, SenderFindsNoSocket
  PROVE  Matched'
<1> DEFINE o == Head(queue)
<1>1. /\ UNCHANGED <<mSerial, created, issued, caller, mRequestsList, receiver, received,
                     conns, socketOpen>>
      /\ queue # <<>> /\ queue' = Tail(queue) /\ Fail(<<o>>)
      /\ sender.pc = "idle" /\ sender'.pc = "subtract" /\ sender'.rr = 0
  BY DEF SenderFindsNoSocket, SenderIdle, Fail, issueVars, socketVars, listVars
<1>2. o \in Queued /\ o \in Objects /\ Queued' = Queued \ {o} /\ IsInjective(queue')
  BY <1>1, FirstTakenOff DEF Queued, Matched, InOnePlace, Typed, QueueTyped
<1> HIDE DEF o
<1>3. /\ Calling' = Calling /\ Adding = {} /\ Adding' = {} /\ Listed' = Listed
      /\ Answering' = Answering /\ CallersApart'
  BY <1>1 DEF Calling, Adding, Listed, Answering, Matched, InOnePlace, CallersApart
<1>4. /\ ToSet(<<o>>) = {o} /\ IsInjective(<<o>>) /\ <<o>> \in Seq(Objects)
  BY <1>2, NoneOrOne, One
<1>5. o \notin Calling \cup Listed \cup Answering \cup Pooled
  BY <1>2 DEF Matched, InOnePlace, PlacesApart
<1>6. /\ IsInjective(sPool') /\ Pooled' \subseteq Pooled \cup {o}
      /\ \A p \in Objects \ {o} : mResult'[p] = mResult[p]
  BY <1>1, <1>4, <1>5, ReleasedOnce DEF Fail, Matched, InOnePlace, Typed
<1>7. Owned' = Owned \ {o} /\ o \in Owned
  BY <1>2, <1>3, <1>5 DEF Owned
<1>8. PlacesApart'
  BY <1>2, <1>3, <1>5, <1>6 DEF Matched, InOnePlace, PlacesApart
<1>9. InOnePlace'
  BY <1>1, <1>2, <1>3, <1>6, <1>7, <1>8 DEF Matched, InOnePlace
<1>10. Report({o}, 0) /\ \A p \in Objects : mp'[p] \in {0, mp[p]}
  BY <1>1, <1>4 DEF Fail, Recycled
<1>11. Untold' /\ SerialsApart' /\ Told'
  <2>1. \A p \in Owned \ {o} : mResult'[p] = mResult[p] /\ mp'[p] \in {0, mp[p]}
    BY <1>6, <1>10, PlacesTyped
  <2>2. {o} \subseteq Owned /\ 0 \in Serials /\ sender'.rr \in Owned \cup {sender.rr, 0}
    BY <1>1, <1>7, Numbers
  <2> QED
    BY <1>1, <1>7, <1>10, <2>1, <2>2, RequestsTold
<1>12. Awaited' /\ SenderListed'
  <2>1. \A p \in Listed : p # 0 /\ mResult'[p] = mResult[p]
    BY <1>5, <1>6, PlacesTyped, Numbers
  <2>2. Awaited'
    BY <1>1, <1>3, <2>1, AwaitedKept DEF Matched
  <2> QED
    BY <1>1, <2>2 DEF SenderListed
<1>13. AnswersIt'
  <2>1. HasAnswer => receiver.rr \in Answering /\ receiver.rr \in Objects
    BY Numbers DEF Answering, Typed, ReceiverTyped
  <2> QED
    BY <1>1, <1>5, <1>6, <2>1 DEF Matched, AnswersIt, HasAnswer
<1> QED
  BY <1>9, <1>11, <1>12, <1>13 DEF Matched

\* Or for want of an answer; the request it takes off the list is its own.
LEMMA MatchedFails ==
  ASSUME Typed, Matched, SenderFails
  PROVE  Matched'
<1> DEFINE o == sender.rr
           i == Matching(mSerial[sender.rr])
<1>1. /\ UNCHANGED <<created, issued, caller, queue, receiver, received, conns, socketOpen>>
      /\ sender.pc = "error" /\ sender'.pc = "done" /\ sender'.rr = 0
      /\ o \in Objects
  BY DEF SenderFails, SenderIdle, issueVars, socketVars, Typed, SenderTyped
<1>2. Adding = {} /\ Adding' = {}
  BY <1>1 DEF Adding
<1>3. /\ Calling' = Calling /\ Queued' = Queued /\ Answering' = Answering /\ CallersApart'
  BY <1>1 DEF Calling, Queued, Answering, Matched, InOnePlace, CallersApart
<1>4. SenderListed'
  BY <1>1 DEF SenderListed
<1>5. CASE i = 0
  <2>1. UNCHANGED <<requestVars, mRequestsList>>
    BY <1>5, Zenon DEF SenderFails, listVars
  <2>2. InOnePlace' /\ Untold' /\ SerialsApart' /\ Told' /\ Awaited'
    BY <1>1, <1>2, <1>3, <2>1, PlacesKept
  <2>3. AnswersIt'
    BY <1>1, <2>1 DEF Matched, AnswersIt, HasAnswer, requestVars
  <2> QED
    BY <1>4, <2>2, <2>3 DEF Matched
<1>6. CASE i # 0
  <2>1. RemoveRequest(i) /\ Fail(<<o>>)
    BY <1>6, Zenon DEF SenderFails
  <2>2. mRequestsList \in Seq(Objects) /\ IsInjective(mRequestsList)
    BY DEF Typed, ListTyped, Matched, InOnePlace
  <2>3. i \in 1 .. Len(mRequestsList) /\ mSerial[mRequestsList[i]] = mSerial[o]
    BY <1>6, <2>2, MatchingPlace
  <2>4. mRequestsList' = RemoveAt(mRequestsList, i)
    BY <2>1 DEF RemoveRequest
  <2> HIDE DEF i
  <2>5. /\ mRequestsList[i] \in Listed /\ Listed' = Listed \ {mRequestsList[i]}
        /\ IsInjective(mRequestsList')
    BY <2>2, <2>3, <2>4, TakenOff DEF Listed
  <2>6. mRequestsList[i] = o
    BY <1>1, <2>3, <2>5, Numbers DEF Matched, SerialsApart, Owned
  <2>7. o \in Listed /\ Listed' = Listed \ {o}
    BY <2>5, <2>6
  <2>8. /\ ToSet(<<o>>) = {o} /\ IsInjective(<<o>>) /\ <<o>> \in Seq(Objects)
    BY <1>1, NoneOrOne, One
  <2>9. o \notin Calling \cup Queued \cup Answering \cup Pooled
    BY <2>7 DEF Matched, InOnePlace, PlacesApart
  <2>10. /\ IsInjective(sPool') /\ Pooled' \subseteq Pooled \cup {o}
         /\ \A p \in Objects \ {o} : mResult'[p] = mResult[p]
    BY <2>1, <2>8, <2>9, ReleasedOnce DEF Fail, Matched, InOnePlace, Typed
  <2>11. Owned' = Owned \ {o} /\ o \in Owned
    BY <1>2, <1>3, <2>7, <2>9 DEF Owned
  <2>12. PlacesApart'
    BY <1>2, <1>3, <2>7, <2>9, <2>10 DEF Matched, InOnePlace, PlacesApart
  <2>13. InOnePlace'
    BY <1>1, <1>3, <2>5, <2>10, <2>11, <2>12 DEF Matched, InOnePlace
  <2>14. Report({o}, 0) /\ mSerial' = mSerial /\ \A p \in Objects : mp'[p] \in {0, mp[p]}
    BY <2>1, <2>8 DEF Fail, Recycled
  <2>15. Untold' /\ SerialsApart' /\ Told'
    <3>1. \A p \in Owned \ {o} : mResult'[p] = mResult[p] /\ mp'[p] \in {0, mp[p]}
      BY <2>10, <2>14, PlacesTyped
    <3>2. {o} \subseteq Owned /\ 0 \in Serials /\ sender'.rr \in Owned \cup {sender.rr, 0}
      BY <1>1, <2>11, Numbers
    <3> QED
      BY <1>1, <2>11, <2>14, <3>1, <3>2, RequestsTold
  <2>16. Awaited'
    <3>1. \A p \in Listed \ {o} : p # 0 /\ mResult'[p] = mResult[p]
      BY <2>10, PlacesTyped
    <3> QED
      BY <1>1, <2>7, <2>14, <3>1, AwaitedKept DEF Matched
  <2>17. AnswersIt'
    <3>1. HasAnswer => receiver.rr \in Answering /\ receiver.rr \in Objects
      BY Numbers DEF Answering, Typed, ReceiverTyped
    <3> QED
      BY <1>1, <2>9, <2>10, <3>1 DEF Matched, AnswersIt, HasAnswer
  <2> QED
    BY <1>4, <2>13, <2>15, <2>16, <2>17 DEF Matched
<1> QED
  BY <1>5, <1>6

\* A response takes the request off the list that it answers.
LEMMA MatchedSolicited ==
  ASSUME Typed, IdleOwnNothing, Matched, processSolicited
  PROVE  Matched'
<1>1. /\ UNCHANGED <<mSerial, mResult, mp, sPool, results, created, issued, caller, queue, sender,
                     conns, socketOpen>>
      /\ receiver.pc = "read" /\ receiver.rr = 0
  BY DEF processSolicited, requestVars, issueVars, socketVars, IdleOwnNothing, HasAnswer
<1>2. PICK m \in received :
        /\ received' = received \ {m}
        /\ LET i == Matching(m.serial) IN
             IF i = 0
             THEN receiver' = ReceiverIdle("done") /\ UNCHANGED mRequestsList
             ELSE /\ receiver' = [pc |-> IF mRequestMessagesWaiting > 0 THEN "decrement"
                                        ELSE "answer",
                                 rr |-> mRequestsList[i], of |-> m.of, read |-> 0]
                  /\ mRequestsList' = RemoveAt(mRequestsList, i)
  BY Zenon DEF processSolicited
<1>3. /\ Calling' = Calling /\ Queued' = Queued /\ Adding' = Adding /\ Pooled' = Pooled
      /\ CallersApart' /\ Answering = {}
  BY <1>1 DEF Calling, Queued, Adding, Pooled, Answering, Matched, InOnePlace, CallersApart
<1> DEFINE i == Matching(m.serial)
<1>4. CASE i = 0
  <2>1. receiver' = ReceiverIdle("done") /\ UNCHANGED mRequestsList
    BY <1>2, <1>4, Zenon
  <2>2. Answering' = Answering
    BY <1>3, <2>1 DEF Answering, ReceiverIdle
  <2>3. InOnePlace' /\ Untold' /\ SerialsApart' /\ Told' /\ Awaited'
    BY <1>1, <1>2, <1>3, <2>1, <2>2, PlacesKept DEF requestVars
  <2>4. AnswersIt' /\ SenderListed'
    BY <1>1, <2>1 DEF AnswersIt, HasAnswer, ReceiverIdle, Matched, SenderListed, Listed
  <2> QED
    BY <2>3, <2>4 DEF Matched
<1>5. CASE i # 0
  <2> DEFINE o == mRequestsList[i]
  <2>1. /\ receiver'.rr = o /\ receiver'.of = m.of
        /\ mRequestsList' = RemoveAt(mRequestsList, i)
    BY <1>2, <1>5
  <2>2. mRequestsList \in Seq(Objects) /\ IsInjective(mRequestsList)
    BY DEF Typed, ListTyped, Matched, InOnePlace
  <2>3. i \in 1 .. Len(mRequestsList) /\ mSerial[o] = m.serial
    BY <1>5, <2>2, MatchingPlace
  <2> HIDE DEF i
  <2>4. o \in Listed /\ Listed' = Listed \ {o} /\ IsInjective(mRequestsList')
    BY <2>1, <2>2, <2>3, TakenOff DEF Listed
  <2> HIDE DEF o
  <2>5. Answering' = {o} /\ o \in Objects
    BY <2>1, <2>4, PlacesTyped, Numbers DEF Answering
  <2>6. Owned' = Owned
    BY <1>3, <2>4, <2>5 DEF Owned
  <2>7. PlacesApart'
    BY <1>3, <2>4, <2>5 DEF Matched, InOnePlace, PlacesApart
  <2>8. InOnePlace'
    BY <1>1, <1>3, <2>4, <2>6, <2>7 DEF Matched, InOnePlace
  <2>9. Untold' /\ SerialsApart' /\ Told'
    BY <1>1, <2>6, RequestsKept
  <2>10. \A q \in received : \E p \in Listed \ {sender.rr} : mSerial[p] = q.serial /\ mResult[p] = q.of
    BY DEF Matched, Awaited
  <2>11. \A p \in Listed : mSerial[p] = mSerial[o] => p = o
    BY <2>4 DEF Matched, SerialsApart, Owned
  <2>12. o # sender.rr /\ mResult[o] = m.of
    BY <2>3, <2>10, <2>11
  <2>13. Awaited'
    <3> SUFFICES ASSUME NEW q \in received' 
                 PROVE  \E p \in Listed' \ {sender.rr} : mSerial[p] = q.serial /\ mResult[p] = q.of
      BY <1>1 DEF Awaited
    <3>1. q \in received /\ q # m
      BY <1>2
    <3>2. PICK p \in Listed \ {sender.rr} : mSerial[p] = q.serial /\ mResult[p] = q.of
      BY <2>10, <3>1
    <3>3. q.serial # m.serial \/ q.of # m.of
      BY <3>1 DEF Typed, ReceivedTyped, MessageType
    <3>4. p # o
      BY <2>3, <2>12, <3>2, <3>3
    <3> QED
      BY <2>4, <3>2, <3>4
  <2>14. AnswersIt'
    BY <1>1, <2>1, <2>12 DEF AnswersIt
  <2>15. SenderListed'
    BY <1>1, <2>4, <2>12 DEF Matched, SenderListed
  <2> QED
    BY <2>8, <2>9, <2>13, <2>14, <2>15 DEF Matched
<1> QED
  BY <1>4, <1>5

\* The receiver counts down.
LEMMA MatchedCounts ==
  ASSUME Typed, Matched, ReceiverReadsWaiting \/ ReceiverWritesWaiting
  PROVE  Matched'
<1>1. /\ UNCHANGED <<requestVars, created, issued, queue, mRequestsList, caller, sender, received,
                     conns, socketOpen>>
      /\ HasAnswer /\ receiver'.rr = receiver.rr /\ receiver'.of = receiver.of
  BY DEF ReceiverReadsWaiting, ReceiverWritesWaiting, HasAnswer, issueVars, socketVars, listVars,
     Typed, ReceiverTyped, ReceiverType
<1>2. CallersApart' /\ Calling' = Calling /\ Adding' = Adding /\ Answering' = Answering
  BY <1>1 DEF Matched, InOnePlace, CallersApart, Calling, Adding, Answering
<1>3. InOnePlace' /\ Untold' /\ SerialsApart' /\ Told' /\ Awaited'
  BY <1>1, <1>2, PlacesKept
<1>4. SenderListed' /\ AnswersIt'
  BY <1>1 DEF Matched, SenderListed, AnswersIt, Listed, requestVars
<1> QED
  BY <1>3, <1>4 DEF Matched

\* The caller is told the response.
LEMMA MatchedAnswer ==
  ASSUME Typed, Matched, Answer
  PROVE  Matched'
<1> DEFINE o == receiver.rr
<1>1. /\ UNCHANGED <<mSerial, created, issued, caller, queue, mRequestsList, sender, received,
                     conns, socketOpen>>
      /\ receiver.pc = "answer" /\ receiver' = ReceiverIdle("done")
      /\ Report({o}, receiver.of) /\ Release(<<o>>)
      /\ \A p \in Objects : mp'[p] \in {0, mp[p]}
  BY DEF Answer, Recycled, issueVars, socketVars, listVars
<1>2. o \in Objects /\ o # 0 /\ receiver.of \in Serials
  BY <1>1, Numbers DEF Typed, ReceiverTyped, ReceiverType, HasAnswer
<1>3. Answering = {o} /\ Answering' = {} /\ ~HasAnswer'
  BY <1>1, <1>2 DEF Answering, ReceiverIdle, HasAnswer
<1>4. receiver.of = mResult[o]
  BY <1>1 DEF Matched, AnswersIt, HasAnswer
<1> HIDE DEF o
<1>5. /\ Calling' = Calling /\ Queued' = Queued /\ Adding' = Adding /\ Listed' = Listed
      /\ CallersApart'
  BY <1>1 DEF Calling, Queued, Adding, Listed, Matched, InOnePlace, CallersApart
<1>6. /\ ToSet(<<o>>) = {o} /\ IsInjective(<<o>>) /\ <<o>> \in Seq(Objects)
  BY <1>2, NoneOrOne, One
<1>7. o \notin Calling \cup Queued \cup Adding \cup Listed \cup Pooled
  BY <1>3 DEF Matched, InOnePlace, PlacesApart
<1>8. /\ IsInjective(sPool') /\ Pooled' \subseteq Pooled \cup {o}
      /\ \A p \in Objects \ {o} : mResult'[p] = mResult[p]
  BY <1>1, <1>6, <1>7, ReleasedOnce DEF Matched, InOnePlace, Typed
<1>9. Owned' = Owned \ {o} /\ o \in Owned
  BY <1>3, <1>5, <1>7 DEF Owned
<1>10. PlacesApart'
  BY <1>3, <1>5, <1>7, <1>8 DEF Matched, InOnePlace, PlacesApart
<1>11. InOnePlace'
  BY <1>1, <1>5, <1>8, <1>9, <1>10 DEF Matched, InOnePlace
<1>12. Untold' /\ SerialsApart' /\ Told'
  <2>1. \A p \in Owned \ {o} : mResult'[p] = mResult[p] /\ mp'[p] \in {0, mp[p]}
    BY <1>1, <1>8, PlacesTyped
  <2>2. {o} \subseteq Owned /\ sender'.rr \in Owned \cup {sender.rr, 0}
    BY <1>1, <1>9
  <2>3. \A p \in {o} : receiver.of \in {0, mResult[p]}
    BY <1>4
  <2> QED
    BY <1>1, <1>2, <1>9, <2>1, <2>2, <2>3, RequestsTold
<1>13. Awaited' /\ SenderListed'
  <2>1. \A p \in Listed : mResult'[p] = mResult[p]
    BY <1>7, <1>8, PlacesTyped
  <2>2. Awaited'
    BY <1>1, <1>5, <2>1, AwaitedKept DEF Matched
  <2> QED
    BY <1>1, <1>5, <2>1, <2>2 DEF Matched, SenderListed
<1>14. AnswersIt'
  BY <1>3 DEF AnswersIt, HasAnswer
<1> QED
  BY <1>11, <1>12, <1>13, <1>14 DEF Matched

\* The requests on the list fail when the stream has ended.
LEMMA MatchedCleared ==
  ASSUME Typed, IdleOwnNothing, Connected, Matched, clearRequestsList
  PROVE  Matched'
<1>1. /\ UNCHANGED <<mSerial, created, issued, caller, queue, sender, received, conns, socketOpen>>
      /\ receiver.pc = "clear" /\ receiver' = ReceiverIdle("connect")
      /\ mRequestsList' = <<>> /\ Fail(mRequestsList)
  BY DEF clearRequestsList, Fail, issueVars, socketVars
<1>2. /\ Calling' = Calling /\ Queued' = Queued /\ Adding' = Adding /\ CallersApart'
  BY <1>1 DEF Calling, Queued, Adding, Matched, InOnePlace, CallersApart
<1>3. Answering = {} /\ Answering' = {} /\ ~HasAnswer'
  BY <1>1 DEF Answering, ReceiverIdle, IdleOwnNothing, HasAnswer
<1>4. Listed' = {} /\ IsInjective(mRequestsList')
  BY <1>1, NoneOrOne DEF Listed
<1>5. mRequestsList \in Seq(Objects) /\ IsInjective(mRequestsList) /\ ToSet(mRequestsList) = Listed
  BY DEF Typed, ListTyped, Matched, InOnePlace, Listed
<1>6. Listed \cap (Calling \cup Queued \cup Adding \cup Pooled) = {}
  BY DEF Matched, InOnePlace, PlacesApart
<1>7. /\ IsInjective(sPool') /\ Pooled' \subseteq Pooled \cup Listed
      /\ \A p \in Objects \ Listed : mResult'[p] = mResult[p]
  BY <1>1, <1>5, <1>6, ReleasedOnce DEF Fail, Matched, InOnePlace, Typed
<1>8. Owned' = Owned \ Listed /\ Listed \subseteq Owned
  BY <1>2, <1>3, <1>4, <1>6 DEF Owned
<1>9. PlacesApart'
  BY <1>2, <1>3, <1>4, <1>6, <1>7 DEF Matched, InOnePlace, PlacesApart
<1>10. InOnePlace'
  BY <1>1, <1>2, <1>4, <1>7, <1>8, <1>9 DEF Matched, InOnePlace
<1>11. Report(Listed, 0) /\ \A p \in Objects : mp'[p] \in {0, mp[p]}
  BY <1>1, <1>5 DEF Fail, Recycled
<1>12. Untold' /\ SerialsApart' /\ Told'
  <2>1. \A p \in Owned \ Listed : mResult'[p] = mResult[p] /\ mp'[p] \in {0, mp[p]}
    BY <1>7, <1>11, PlacesTyped
  <2>2. 0 \in Serials /\ sender'.rr \in Owned \cup {sender.rr, 0}
    BY <1>1, Numbers
  <2> QED
    BY <1>1, <1>8, <1>11, <2>1, <2>2, RequestsTold
<1>13. Awaited' /\ SenderListed'
  BY <1>1 DEF Connected, Awaited, SenderListed
<1>14. AnswersIt'
  BY <1>3 DEF AnswersIt, HasAnswer
<1> QED
  BY <1>10, <1>12, <1>13, <1>14 DEF Matched

\* A new request gets an object that is nowhere but in the pool, though the sender may
\* still refer to it.
LEMMA MatchedObtains ==
  ASSUME Typed, IdleOwnNothing, Matched, NEW t \in Threads, obtain(t), ~clashed'
  PROVE  Matched'
<1> DEFINE o == IF sPool = <<>> THEN created + 1 ELSE Head(sPool)
<1>1. /\ UNCHANGED <<results, queue, mRequestsList, sender, receiver, received, conns, socketOpen>>
      /\ caller[t].pc = "idle" /\ issued' = issued + 1 /\ issued < MaxRequests
      /\ created' = IF sPool = <<>> THEN created + 1 ELSE created
      /\ sPool' = IF sPool = <<>> THEN sPool ELSE Tail(sPool)
      /\ mSerial' = [mSerial EXCEPT ![o] = sNextSerial]
      /\ mResult' = [mResult EXCEPT ![o] = issued + 1]
      /\ mp' = [mp EXCEPT ![o] = issued + 1]
      /\ caller' = [caller EXCEPT ![t] = [CallerIdle EXCEPT !.pc = "send", !.rr = o]]
  BY DEF obtain, socketVars, listVars
<1>2. ~ \E p \in InUse \ {o} : mSerial[p] = sNextSerial
  BY Zenon DEF obtain
<1>3. o \in Objects /\ o # 0 /\ issued \in Nat /\ created \in Nat /\ issued + 1 \in Requests
  BY <1>1, ObtainedObject, Numbers, RilClientAssumption DEF Typed, IssueTyped, Requests
<1>4. /\ o \notin Owned /\ o \in 1 .. created' /\ 1 .. created \subseteq 1 .. created'
      /\ IsInjective(sPool') /\ Pooled' = Pooled \ {o}
  <2>1. CASE sPool = <<>>
    <3>1. Pooled = {}
      BY <2>1, NoneOrOne DEF Pooled
    <3>2. o = created + 1 /\ created' = created + 1 /\ sPool' = sPool
      BY <1>1, <2>1
    <3>3. o \notin 1 .. created /\ o \in 1 .. created' /\ 1 .. created \subseteq 1 .. created'
      BY <1>3, <3>2
    <3> HIDE DEF o
    <3> QED
      BY <3>1, <3>2, <3>3 DEF Matched, InOnePlace, Pooled
  <2>2. CASE sPool # <<>>
    <3>1. o = Head(sPool) /\ created' = created /\ sPool' = Tail(sPool)
      BY <1>1, <2>2
    <3> HIDE DEF o
    <3>2. o \in Pooled /\ Pooled' = Pooled \ {o} /\ IsInjective(sPool')
      BY <2>2, <3>1, FirstTakenOff DEF Pooled, Matched, InOnePlace, Typed, ObjectsTyped
    <3>3. o \notin Owned /\ o \in 1 .. created
      BY <3>2 DEF Matched, InOnePlace, PlacesApart, Owned
    <3> QED
      BY <3>1, <3>2, <3>3
  <2> QED
    BY <2>1, <2>2
<1> HIDE DEF o
<1>5. /\ mSerial'[o] = sNextSerial /\ mResult'[o] = issued + 1 /\ mp'[o] = issued + 1
      /\ \A p \in Objects \ {o} : mSerial'[p] = mSerial[p] /\ mResult'[p] = mResult[p] /\ mp'[p] = mp[p]
  BY <1>1, <1>3 DEF Typed, ObjectsTyped
<1>6. caller'[t].rr = o /\ caller[t].rr = 0 /\ \A u \in Threads \ {t} : caller'[u] = caller[u]
  BY <1>1, <1>3 DEF Typed, CallersTyped, CallerType, CallerIdle, IdleOwnNothing
<1>7. Calling' = Calling \cup {o}
  BY <1>3, <1>6 DEF Calling
<1>8. CallersApart'
  <2>1. \A u \in Threads : caller[u].rr # o
    BY <1>3, <1>4 DEF Owned, Calling
  <2> QED
    BY <1>6, <2>1 DEF Matched, InOnePlace, CallersApart
<1>9. Queued' = Queued /\ Adding' = Adding /\ Listed' = Listed /\ Answering' = Answering
  BY <1>1 DEF Queued, Adding, Listed, Answering
<1>10. Owned' = Owned \cup {o}
  BY <1>7, <1>9 DEF Owned
<1>11. PlacesApart'
  BY <1>4, <1>7, <1>9 DEF Matched, InOnePlace, PlacesApart, Owned
<1>12. InOnePlace'
  BY <1>1, <1>4, <1>8, <1>9, <1>10, <1>11 DEF Matched, InOnePlace
<1>13. Untold'
  <2>1. \A p \in Owned : /\ mResult[p] \in 1 .. issued /\ results[mResult[p]] = <<>>
                         /\ mp[p] \in {0, mResult[p]}
    BY DEF Matched, Untold
  <2>2. \A p \in Owned : mResult'[p] = mResult[p] /\ mp'[p] = mp[p]
    BY <1>4, <1>5, PlacesTyped
  <2>3. results[issued + 1] = <<>>
    BY <1>3 DEF Matched, Untold
  <2>4. \A p, q \in Owned : mResult[p] = mResult[q] => p = q
    BY DEF Matched, Untold
  <2>5. \A p \in Owned' : /\ mResult'[p] \in 1 .. issued' /\ results'[mResult'[p]] = <<>>
                          /\ mp'[p] \in {0, mResult'[p]}
    BY <1>1, <1>3, <1>5, <1>10, <2>1, <2>2, <2>3
  <2>6. \A p, q \in Owned' : mResult'[p] = mResult'[q] => p = q
    BY <1>3, <1>5, <1>10, <2>1, <2>2, <2>4
  <2>7. \A r \in Requests : r > issued' => results'[r] = <<>>
    BY <1>1, <1>3 DEF Matched, Untold, Requests
  <2> QED
    BY <2>5, <2>6, <2>7 DEF Untold
<1>14. SerialsApart'
  <2> DEFINE Used == Owned \cup ({sender.rr} \ {0})
  <2>1. Used \subseteq InUse /\ Used \subseteq Objects
    <3>1. Owned \subseteq InUse /\ {sender.rr} \ {0} \subseteq InUse
      <4>1. 0 \notin Owned
        BY PlacesTyped
      <4> QED
        BY <4>1 DEF Owned, Calling, Queued, Adding, Listed, Answering, InUse
    <3>2. {sender.rr} \ {0} \subseteq Objects
      BY Numbers DEF Typed, SenderTyped, SenderType
    <3> QED
      BY <3>1, <3>2, PlacesTyped
  <2>2. \A p \in Used \ {o} : mSerial[p] # sNextSerial /\ mSerial'[p] = mSerial[p]
    BY <1>2, <1>5, <2>1
  <2>3. \A p, q \in Used : mSerial[p] = mSerial[q] => p = q
    BY DEF Matched, SerialsApart
  <2>4. Owned' \cup ({sender'.rr} \ {0}) \subseteq Used \cup {o}
    BY <1>1, <1>10
  <2> HIDE DEF Used
  <2> QED
    BY <1>5, <2>2, <2>3, <2>4 DEF SerialsApart
<1>15. \A p \in Listed : mSerial'[p] = mSerial[p] /\ mResult'[p] = mResult[p]
  BY <1>4, <1>5, PlacesTyped DEF Owned
<1>16. Awaited' /\ SenderListed'
  <2>1. Awaited'
    BY <1>1, <1>9, <1>15 DEF Matched, Awaited
  <2>2. SenderListed'
    BY <1>1, <1>9, <1>15 DEF Matched, SenderListed
  <2> QED
    BY <2>1, <2>2
<1>17. AnswersIt' /\ Told'
  <2>1. HasAnswer => receiver.rr \in Owned /\ receiver.rr \in Objects
    BY Numbers DEF Owned, Answering, Typed, ReceiverTyped
  <2> QED
    BY <1>1, <1>4, <1>5, <2>1 DEF Matched, AnswersIt, HasAnswer, Told
<1> QED
  BY <1>12, <1>13, <1>14, <1>16, <1>17 DEF Matched

\* Responses reach the requests they answer until serial numbers clash.
LEMMA MatchedStep ==
  ASSUME Typed, IdleOwnNothing, Connected, ~clashed => Matched, [Next]_vars, ~clashed'
  PROVE  Matched'
<1> USE DEF requestVars, issueVars, socketVars, listVars, wakeVars, historyVars
<1>1. ~clashed
  BY Zenon DEF Next, send, HandleSend, ReceiverStep, obtain, SendFails, SendGoesOn,
     acquireWakeLock, CountPending, Post, SenderFindsNoSocket, SenderTakes, SenderAdds,
     SenderReadsPending, SenderWritesPending, SenderMarshalls, SenderWrites, SenderFails,
     SenderDone, SenderTakesTimeout, TimeoutResetsWaiting, SenderHandlesTimeout,
     processUnsolicited, DaemonHangsUp, Connect, processSolicited, ReceiverReadsWaiting,
     ReceiverWritesWaiting, Answer, ReceiverDone, CloseSocket, ForgetSocket, resetSerial,
     clearRequestsList, vars
<1>2. Matched
  BY <1>1
<1>3. \/ UNCHANGED <<requestVars, created, issued, queue, mRequestsList, caller, sender, receiver,
                     received, conns, socketOpen>>
      \/ (\E t \in Threads : obtain(t)) \/ (\E t \in Threads : SendFails(t))
      \/ (\E t \in Threads : SendGoesOn(t) \/ acquireWakeLock(t) \/ CountPending(t))
      \/ (\E t \in Threads : Post(t))
      \/ SenderFindsNoSocket \/ SenderTakes \/ SenderAdds \/ SenderMarshalls \/ SenderWrites
      \/ SenderFails
      \/ SenderReadsPending \/ SenderWritesPending \/ SenderDone \/ SenderTakesTimeout
      \/ TimeoutResetsWaiting \/ SenderHandlesTimeout
      \/ ReceiverReadsWaiting \/ ReceiverWritesWaiting
      \/ Connect \/ ReceiverDone \/ CloseSocket \/ ForgetSocket \/ resetSerial
      \/ processSolicited \/ Answer \/ clearRequestsList
  BY Zenon DEF Next, send, HandleSend, ReceiverStep, processUnsolicited, DaemonHangsUp, vars
<1>4. CASE UNCHANGED <<requestVars, created, issued, queue, mRequestsList, caller, sender, receiver,
                       received, conns, socketOpen>>
  BY <1>2, <1>4, MatchedSame
<1>5. CASE \E t \in Threads : obtain(t)
  BY <1>2, <1>5, MatchedObtains
<1>6. CASE \E t \in Threads : SendFails(t)
  BY <1>2, <1>6, MatchedSendFails
<1>7. CASE \E t \in Threads : SendGoesOn(t) \/ acquireWakeLock(t) \/ CountPending(t)
  BY <1>2, <1>7, MatchedCaller
<1>8. CASE \E t \in Threads : Post(t)
  BY <1>2, <1>8, MatchedPost
<1>9. CASE SenderFindsNoSocket \/ SenderTakes \/ SenderAdds \/ SenderMarshalls \/ SenderWrites
           \/ SenderFails
  BY <1>2, <1>9, MatchedNoSocket, MatchedTakes, MatchedAdds, MatchedMarshalls, MatchedWrites,
     MatchedFails
<1>10. CASE SenderReadsPending \/ SenderWritesPending \/ SenderDone \/ SenderTakesTimeout
            \/ TimeoutResetsWaiting \/ SenderHandlesTimeout
  BY <1>2, <1>10, MatchedSender
<1>11. CASE Connect \/ ReceiverDone \/ CloseSocket \/ ForgetSocket \/ resetSerial
  BY <1>2, <1>11, MatchedReceiver
<1>12. CASE processSolicited \/ Answer \/ clearRequestsList
  BY <1>2, <1>12, MatchedSolicited, MatchedAnswer, MatchedCleared
<1>13. CASE ReceiverReadsWaiting \/ ReceiverWritesWaiting
  BY <1>2, <1>13, MatchedCounts
<1> QED
  BY <1>3, <1>4, <1>5, <1>6, <1>7, <1>8, <1>9, <1>10, <1>11, <1>12, <1>13, Zenon

LEMMA MatchedInit == Init => MatchedInv
<1> SUFFICES ASSUME Init PROVE MatchedInv
  OBVIOUS
<1>1. /\ queue = <<>> /\ mRequestsList = <<>> /\ sPool = <<>> /\ received = {}
      /\ \A t \in Threads : caller[t].rr = 0
      /\ sender.pc = "idle" /\ sender.rr = 0 /\ sender.s = 0 /\ conns = 0 /\ socketOpen = FALSE
      /\ receiver.pc = "connect" /\ receiver.rr = 0 /\ \A r \in Requests : results[r] = <<>>
  BY DEF Init, CallerIdle, SenderIdle, ReceiverIdle
<1>2. /\ Calling = {} /\ Queued = {} /\ Adding = {} /\ Listed = {} /\ Answering = {} /\ Pooled = {}
  BY <1>1, NoneOrOne DEF Calling, Queued, Adding, Listed, Answering, Pooled
<1>3. Owned = {}
  BY <1>2 DEF Owned
<1>4. InOnePlace
  BY <1>1, <1>2, <1>3, NoneOrOne DEF InOnePlace, CallersApart, PlacesApart
<1>5. Untold /\ SerialsApart /\ SenderListed /\ Awaited /\ AnswersIt /\ Told
  BY <1>1, <1>3 DEF Untold, SerialsApart, SenderListed, Awaited, AnswersIt, HasAnswer, Told
<1>6. IdleOwnNothing /\ Connected
  BY <1>1 DEF IdleOwnNothing, Connected
<1> QED
  BY <1>4, <1>5, <1>6 DEF MatchedInv, Matched

LEMMA MatchedAlways == Spec => []MatchedInv
<1>1. Typed /\ MatchedInv /\ [Next]_vars => MatchedInv'
  BY IdleStep, ConnectedStep, MatchedStep DEF MatchedInv
<1> QED
  BY <1>1, MatchedInit, TypedInit, TypedStep, PTL DEF Spec

\* A caller is told at most once what became of its request, and of no other, until
\* the serial numbers that resetSerial starts again clash.
THEOREM ToldOnce == Spec => []AnsweredOnce
<1>1. MatchedInv => AnsweredOnce
  BY Zenon DEF MatchedInv, Matched, Told, AnsweredOnce
<1> QED
  BY <1>1, MatchedAlways, PTL

\* The first connection, until its serial numbers have been reset.
BeforeReset == conns = 0 \/ (conns = 1 /\ receiver.pc \notin {"clear", "connect"})

\* Until then they go up, so that no two of them are the same.
FirstSerials == BeforeReset => ~clashed /\ \A o \in 1 .. created : mSerial[o] < sNextSerial

\* What is before the reset was before it in the last state.
LEMMA ResetStays == ASSUME Typed, [Next]_vars, BeforeReset' PROVE BeforeReset
<1> USE DEF Typed, requestVars, issueVars, socketVars, listVars, wakeVars, historyVars
<1>1. \/ UNCHANGED <<receiver, conns>>
      \/ Connect \/ processSolicited \/ ReceiverReadsWaiting \/ ReceiverWritesWaiting \/ Answer
      \/ ReceiverDone \/ CloseSocket \/ ForgetSocket \/ resetSerial \/ clearRequestsList
  BY Zenon DEF Next, send, HandleSend, ReceiverStep, obtain, SendFails, SendGoesOn,
     acquireWakeLock, CountPending, Post, SenderFindsNoSocket, SenderTakes, SenderAdds,
     SenderReadsPending, SenderWritesPending, SenderMarshalls, SenderWrites, SenderFails,
     SenderDone, SenderTakesTimeout, TimeoutResetsWaiting, SenderHandlesTimeout,
     processUnsolicited, DaemonHangsUp, vars
<1>2. CASE UNCHANGED <<receiver, conns>>
  BY <1>2 DEF BeforeReset
<1>3. CASE Connect
  BY <1>3, RilClientAssumption DEF Connect, BeforeReset, SocketTyped, Connections
<1>4. CASE processSolicited
  BY <1>4 DEF processSolicited, BeforeReset
<1>5. CASE Answer \/ ReceiverDone \/ CloseSocket \/ ForgetSocket \/ resetSerial
  BY <1>5 DEF Answer, ReceiverDone, CloseSocket, ForgetSocket, resetSerial, BeforeReset
<1>6. CASE clearRequestsList
  BY <1>6 DEF clearRequestsList, BeforeReset, ReceiverIdle
<1>7. CASE ReceiverReadsWaiting \/ ReceiverWritesWaiting
  BY <1>7 DEF ReceiverReadsWaiting, ReceiverWritesWaiting, BeforeReset
<1> QED
  BY <1>1, <1>2, <1>3, <1>4, <1>5, <1>6, <1>7

LEMMA FirstSerialsStep ==
  ASSUME Typed, MatchedInv, FirstSerials, [Next]_vars PROVE FirstSerials'
<1> SUFFICES ASSUME BeforeReset'
             PROVE  ~clashed' /\ \A o \in 1 .. created' : mSerial'[o] < sNextSerial'
  BY DEF FirstSerials
<1> USE DEF requestVars, issueVars, socketVars, listVars, wakeVars, historyVars
<1>1. ~clashed /\ \A o \in 1 .. created : mSerial[o] < sNextSerial
  BY ResetStays DEF FirstSerials
<1>2. \/ UNCHANGED <<mSerial, created, sNextSerial, clashed>>
      \/ (\E t \in Threads : obtain(t)) \/ resetSerial
  BY Zenon DEF Next, send, HandleSend, ReceiverStep, SendFails, SendGoesOn, Fail, acquireWakeLock,
     CountPending, Post, SenderFindsNoSocket, SenderTakes, SenderAdds, SenderReadsPending,
     SenderWritesPending, SenderMarshalls, SenderWrites, SenderFails, SenderDone,
     SenderTakesTimeout, TimeoutResetsWaiting, SenderHandlesTimeout, Connect, processUnsolicited,
     processSolicited, ReceiverReadsWaiting, ReceiverWritesWaiting, Answer, ReceiverDone,
     CloseSocket, ForgetSocket, clearRequestsList, DaemonHangsUp, vars
<1>3. CASE UNCHANGED <<mSerial, created, sNextSerial, clashed>>
  BY <1>1, <1>3
<1>4. CASE resetSerial
  <2>1. conns' = conns /\ receiver.pc = "reset" /\ receiver'.pc = "clear"
    BY <1>4 DEF resetSerial, ReceiverIdle
  <2>2. conns = 0
    BY <2>1 DEF BeforeReset
  <2> QED
    BY <2>1, <2>2 DEF MatchedInv, Connected
<1>5. ASSUME NEW t \in Threads, obtain(t)
      PROVE  ~clashed' /\ \A o \in 1 .. created' : mSerial'[o] < sNextSerial'
  <2> DEFINE o == IF sPool = <<>> THEN created + 1 ELSE Head(sPool)
  <2>1. /\ o \in Objects /\ sNextSerial \in Nat /\ created \in Nat /\ created' \in Nat
        /\ 1 .. created' \subseteq Objects /\ sNextSerial' = sNextSerial + 1
        /\ mSerial' = [mSerial EXCEPT ![o] = sNextSerial]
        /\ \A p \in 1 .. created' : p # o => p \in 1 .. created
    BY <1>5, ObtainedObject, RilClientAssumption DEF obtain, Typed, IssueTyped, Objects
  <2>2. clashed' = (clashed \/ \E p \in InUse \ {o} : mSerial[p] = sNextSerial)
    BY <1>5, Zenon DEF obtain
  <2> HIDE DEF o
  <2>3. InUse \subseteq 1 .. created
    <3>1. Owned \cup ({sender.rr} \ {0}) \subseteq 1 .. created
      BY <1>1 DEF MatchedInv, Matched, InOnePlace
    <3>2. InUse \subseteq Owned \cup ({sender.rr} \ {0})
      BY DEF InUse, Owned, Calling, Queued, Listed, Answering
    <3> QED
      BY <3>1, <3>2
  <2>4. \A p \in InUse : mSerial[p] # sNextSerial
    <3> SUFFICES ASSUME NEW p \in InUse PROVE mSerial[p] # sNextSerial
      OBVIOUS
    <3>1. mSerial[p] < sNextSerial
      BY <1>1, <2>3
    <3> QED
      BY <2>1, <3>1
  <2>5. \A p \in 1 .. created' : mSerial'[p] < sNextSerial'
    <3> SUFFICES ASSUME NEW p \in 1 .. created' PROVE mSerial'[p] < sNextSerial'
      OBVIOUS
    <3>1. CASE p = o
      BY <2>1, <3>1 DEF Typed, ObjectsTyped
    <3>2. CASE p # o
      <4>1. mSerial'[p] = mSerial[p] /\ mSerial[p] < sNextSerial /\ mSerial[p] \in Serials
        BY <1>1, <2>1, <3>2 DEF Typed, ObjectsTyped
      <4>2. mSerial[p] \in Nat
        BY <4>1, RilClientAssumption DEF Serials
      <4> QED
        BY <2>1, <4>1, <4>2
    <3> QED
      BY <3>1, <3>2
  <2> QED
    BY <1>1, <2>2, <2>4, <2>5, Zenon
<1> QED
  BY <1>2, <1>3, <1>4, <1>5

\* What AnsweredOnce says, without its condition.
FirstAnswers == BeforeReset => \A r \in Requests : results[r] \in {<<>>, <<0>>, <<r>>}

\* On the first connection every caller is told at most once, and of its own request:
\* serial numbers can only clash after resetSerial.
THEOREM FirstConnectionTold == Spec => []FirstAnswers
<1>1. Init => FirstSerials
  BY DEF Init, FirstSerials
<1>2. FirstSerials /\ AnsweredOnce => FirstAnswers
  BY Zenon DEF FirstSerials, AnsweredOnce, FirstAnswers
<1> QED
  BY <1>1, <1>2, FirstSerialsStep, ToldOnce, MatchedAlways, TypedInit, TypedStep, PTL DEF Spec

===============================================================================
