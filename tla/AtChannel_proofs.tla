--------------------------- MODULE AtChannel_proofs ----------------------------
(***************************************************************************)
(* Theorems of AtChannel for every set of reader threads, number of         *)
(* attempts and length of the stream.                                       *)
(***************************************************************************)
EXTENDS AtChannel, SequenceTheorems, TLAPS

-----------------------------------------------------------------------------
(* Type correctness. *)

Kinds == {"final", "prompt", "other"}
LineType == [kind : Kinds, mine : BOOLEAN]
CommandType == [mine : BOOLEAN, awaits : {"answer", "prompt", "pdu"}]

FlagsTyped ==
  /\ s_fd \in BOOLEAN /\ s_readerClosed \in BOOLEAN /\ s_smsPDU \in BOOLEAN
  /\ signalled \in BOOLEAN /\ leftover \in BOOLEAN /\ s_closed \in BOOLEAN
  /\ sState \in BOOLEAN /\ hungUp \in BOOLEAN /\ outOfSync \in BOOLEAN

ResponseTyped == sp_response \in [final : BOOLEAN, mine : BOOLEAN, set : BOOLEAN]

CommandTyped ==
  /\ command \in {"idle", "retry", "wait", "sleep", "crashed"}
  /\ attempt \in 0 .. HANDSHAKE_RETRY_COUNT

ReadersTyped == reader \in [Readers -> ReaderStates] /\ line \in LineType

MainTyped ==
  /\ mainLoop \in {"open", "at_open", "request", "waitForClose", "blocked"}
  /\ initRequests \in 0 .. MaxInits

ModemTyped == toModem \in Seq(CommandType) /\ input \in Seq(LineType)

Typed ==
  /\ FlagsTyped /\ ResponseTyped /\ CommandTyped /\ ReadersTyped /\ MainTyped /\ ModemTyped

LEMMA TypedImpliesTypeOK == Typed => AtTypeOK
  BY DEF Typed, FlagsTyped, ResponseTyped, CommandTyped, ReadersTyped, MainTyped, ModemTyped,
     AtTypeOK, LineType, CommandType, Kinds

LEMMA LineTyped == \A kind \in Kinds, mine \in BOOLEAN : Line(kind, mine) \in LineType
  BY DEF Line, LineType

LEMMA OtherTyped == Other \in LineType /\ Other.kind = "other"
  BY DEF Other, Line, LineType, Kinds

LEMMA TypedInit == Init => Typed
<1> SUFFICES ASSUME Init PROVE Typed
  OBVIOUS
<1> USE DEF Init
<1>1. FlagsTyped
  BY DEF FlagsTyped
<1>2. ResponseTyped
  BY DEF ResponseTyped, NULL
<1>3. CommandTyped
  BY AtAssumption DEF CommandTyped
<1>4. ReadersTyped
  BY OtherTyped DEF ReadersTyped, ReaderStates
<1>5. MainTyped
  BY AtAssumption DEF MainTyped
<1>6. ModemTyped
  BY EmptySeq DEF ModemTyped
<1> QED
  BY <1>1, <1>2, <1>3, <1>4, <1>5, <1>6 DEF Typed

\* The reader at_open starts is one that does not run.
LEMMA NewReaderFree ==
  ASSUME NEW q \in Readers, reader[q] = "none"
  PROVE  NewReader \in Readers /\ reader[NewReader] = "none"
  BY DEF NewReader

\* What is in a sequence that loses its first element, or gets a last one.
LEMMA TailElements ==
  ASSUME NEW S, NEW s \in Seq(S), s # <<>>
  PROVE  /\ Tail(s) \in Seq(S) /\ Head(s) \in S /\ Head(s) = s[1]
         /\ 1 \in 1 .. Len(s) /\ Len(s) \in Nat /\ Len(Tail(s)) = Len(s) - 1
         /\ \A i \in 1 .. Len(Tail(s)) : i + 1 \in 1 .. Len(s) /\ Tail(s)[i] = s[i + 1]
  BY HeadTailProperties, EmptySeq, LenProperties, ElementOfSeq

\* The commands the modem knows of after one more.
LEMMA ReceivesTyped ==
  ASSUME NEW commands \in Seq(CommandType), NEW new \in CommandType
  PROVE  Receives(commands, new) \in Seq(CommandType)
<1>1. Len(commands) \in Nat /\ \A i \in 1 .. Len(commands) : commands[i] \in CommandType
  BY LenProperties, ElementOfSeq
<1>2. Stale(commands) \in [1 .. Len(commands) -> CommandType]
  BY <1>1 DEF Stale, CommandType
<1>3. Stale(commands) \in Seq(CommandType)
  BY <1>1, <1>2, SeqDef
<1> DEFINE all == Append(Stale(commands), new)
<1>4. all \in Seq(CommandType) /\ all # <<>>
  BY <1>3, AppendProperties
<1>5. Tail(all) \in Seq(CommandType)
  BY <1>4, TailElements
<1> QED
  BY <1>4, <1>5 DEF Receives

\* Nothing changes in the lines that wait but whose answer they are.
LEMMA StaleLines ==
  ASSUME NEW lines \in Seq(LineType)
  PROVE  /\ Stale(lines) \in Seq(LineType) /\ Len(Stale(lines)) = Len(lines)
         /\ \A i \in 1 .. Len(lines) : Stale(lines)[i].kind = lines[i].kind
<1>1. Len(lines) \in Nat /\ \A i \in 1 .. Len(lines) : lines[i] \in LineType
  BY LenProperties, ElementOfSeq
<1>2. Stale(lines) \in [1 .. Len(lines) -> LineType]
  BY <1>1 DEF Stale, LineType
<1>3. Stale(lines) \in Seq(LineType)
  BY <1>1, <1>2, SeqDef
<1>4. Len(Stale(lines)) = Len(lines)
  BY <1>1, <1>2, <1>3, LenProperties
<1>5. \A i \in 1 .. Len(lines) : Stale(lines)[i].kind = lines[i].kind
  BY <1>1 DEF Stale, LineType
<1> QED
  BY <1>3, <1>4, <1>5

\* The command, or the message, that answers another one.
LEMMA AwaitsTyped ==
  ASSUME toModem \in Seq(CommandType), toModem # <<>>,
         NEW awaits \in {"answer", "prompt", "pdu"}
  PROVE  [toModem EXCEPT ![1].awaits = awaits] \in Seq(CommandType)
<1>1. toModem[1] \in CommandType /\ 1 \in 1 .. Len(toModem)
  BY TailElements
<1>2. [toModem[1] EXCEPT !.awaits = awaits] \in CommandType
  BY <1>1 DEF CommandType
<1>3. [toModem EXCEPT ![1] = [toModem[1] EXCEPT !.awaits = awaits]] \in Seq(CommandType)
  BY <1>1, <1>2, ExceptSeq
<1> QED
  BY <1>3

\* The flags stay Boolean.
LEMMA FlagsStep == Typed /\ [Next]_vars => FlagsTyped'
<1> SUFFICES ASSUME Typed, [Next]_vars PROVE FlagsTyped'
  OBVIOUS
<1> USE DEF Typed, pendingVars, commandVars, readerVars, stateVars, modemVars
<1>1. \/ UNCHANGED <<s_fd, s_readerClosed, s_smsPDU, signalled, leftover, s_closed, sState, hungUp,
                      outOfSync>>
      \/ (\E sms \in BOOLEAN : at_send_command(sms)) \/ initializeCallback \/ HandshakeWrites
      \/ HandshakeTimesOut \/ CommandWakes \/ SpuriousWakeup
      \/ (\E r \in Readers : ReadLeftover(r)) \/ (\E r \in Readers : processLine(r))
      \/ (\E r \in Readers : ReaderEof(r)) \/ (\E r \in Readers : onReaderClosed(r))
      \/ (\E r \in Readers : CloseFd(r)) \/ (\E r \in Readers : at_close(r))
      \/ (\E r \in Readers : SetClosed(r)) \/ (\E r \in Readers : ReaderEnds(r)) \/ ResetClosed
      \/ at_open \/ ModemReports \/ ModemHangsUp
  BY Zenon DEF Next, CommandStep, MainStep, ModemStep, ReaderStep, SetReaderClosed, Sends,
     HandshakeWriteFails, HandshakeEnds, readline, RequestInitialize, waitForClose,
     ModemAnswers, ModemPrompts, vars
<1>2. CASE UNCHANGED <<s_fd, s_readerClosed, s_smsPDU, signalled, leftover, s_closed, sState, hungUp,
                      outOfSync>>
  BY <1>2 DEF FlagsTyped
<1>3. ASSUME NEW sms \in BOOLEAN, at_send_command(sms) PROVE FlagsTyped'
  BY <1>3, Zenon DEF at_send_command, Issue, FlagsTyped
<1>4. CASE initializeCallback
  BY <1>4, Zenon DEF initializeCallback, setRadioState, FlagsTyped
<1>5. CASE HandshakeWrites
  BY <1>5, Zenon DEF HandshakeWrites, Issue, FlagsTyped
<1>6. CASE HandshakeTimesOut
  BY <1>6, Zenon DEF HandshakeTimesOut, NextAttempt, clearPendingCommand, FlagsTyped
<1>7. CASE CommandWakes
  BY <1>7, Zenon DEF CommandWakes, clearPendingCommand, NextAttempt, FlagsTyped
<1>8. CASE SpuriousWakeup
  BY <1>8, Zenon DEF SpuriousWakeup, FlagsTyped
<1>9. ASSUME NEW r \in Readers, ReadLeftover(r) PROVE FlagsTyped'
  BY <1>9, Zenon DEF ReadLeftover, Goes, FlagsTyped
<1>10. ASSUME NEW r \in Readers, processLine(r) PROVE FlagsTyped'
  BY <1>10, Zenon DEF processLine, Goes, Signal, FlagsTyped
<1>11. ASSUME NEW r \in Readers, ReaderEof(r) PROVE FlagsTyped'
  BY <1>11, Zenon DEF ReaderEof, Goes, FlagsTyped
<1>12. ASSUME NEW r \in Readers, onReaderClosed(r) PROVE FlagsTyped'
  BY <1>12, Zenon DEF onReaderClosed, SetReaderClosed, Goes, Signal, FlagsTyped
<1>13. ASSUME NEW r \in Readers, CloseFd(r) PROVE FlagsTyped'
  BY <1>13, Zenon DEF CloseFd, Goes, FlagsTyped
<1>14. ASSUME NEW r \in Readers, at_close(r) PROVE FlagsTyped'
  BY <1>14, Zenon DEF at_close, SetReaderClosed, Goes, Signal, FlagsTyped
<1>15. ASSUME NEW r \in Readers, SetClosed(r) PROVE FlagsTyped'
  BY <1>15, Zenon DEF SetClosed, Goes, FlagsTyped
<1>16. ASSUME NEW r \in Readers, ReaderEnds(r) PROVE FlagsTyped'
  BY <1>16, Zenon DEF ReaderEnds, Goes, setRadioState, FlagsTyped
<1>17. CASE ResetClosed
  BY <1>17, Zenon DEF ResetClosed, FlagsTyped
<1>18. CASE at_open
  BY <1>18, Zenon DEF at_open, Goes, FlagsTyped
<1>19. CASE ModemReports
  BY <1>19, Zenon DEF ModemReports, Sends, FlagsTyped
<1>20. CASE ModemHangsUp
  BY <1>20, Zenon DEF ModemHangsUp, FlagsTyped
<1> QED
  BY <1>1, <1>2, <1>3, <1>4, <1>5, <1>6, <1>7, <1>8, <1>9, <1>10, <1>11, <1>12, <1>13, <1>14,
     <1>15, <1>16, <1>17, <1>18, <1>19, <1>20

\* The response stays typed.
LEMMA ResponseStep == Typed /\ [Next]_vars => ResponseTyped'
<1> SUFFICES ASSUME Typed, [Next]_vars PROVE ResponseTyped'
  OBVIOUS
<1> USE DEF Typed, pendingVars, commandVars, readerVars, stateVars, modemVars
<1>1. \/ UNCHANGED <<sp_response>>
      \/ (\E sms \in BOOLEAN : at_send_command(sms)) \/ HandshakeWrites \/ HandshakeTimesOut
      \/ at_open \/ CommandWakes \/ (\E r \in Readers : processLine(r))
  BY Zenon DEF Next, CommandStep, MainStep, ModemStep, ReaderStep, SetReaderClosed, Sends,
     initializeCallback, HandshakeWriteFails, SpuriousWakeup, HandshakeEnds, readline,
     ReadLeftover, ReaderEof, onReaderClosed, CloseFd, at_close, SetClosed, ReaderEnds,
     ResetClosed, RequestInitialize, waitForClose, ModemAnswers, ModemPrompts, ModemReports,
     ModemHangsUp, vars
<1>2. CASE UNCHANGED <<sp_response>>
  BY <1>2 DEF ResponseTyped
<1>3. ASSUME NEW sms \in BOOLEAN, at_send_command(sms) PROVE ResponseTyped'
  BY <1>3 DEF at_send_command, Issue, at_response_new, ResponseTyped
<1>4. CASE HandshakeWrites
  BY <1>4 DEF HandshakeWrites, Issue, at_response_new, ResponseTyped
<1>5. CASE HandshakeTimesOut
  BY <1>5 DEF HandshakeTimesOut, NextAttempt, clearPendingCommand, NULL, ResponseTyped
<1>6. CASE at_open
  BY <1>6 DEF at_open, Goes, NULL, ResponseTyped
<1>7. CASE CommandWakes
  <2>1. UNCHANGED sp_response \/ sp_response' = NULL
    BY <1>7, Zenon DEF CommandWakes, clearPendingCommand
  <2>2. NULL \in [final : BOOLEAN, mine : BOOLEAN, set : BOOLEAN]
    BY DEF NULL
  <2> QED
    BY <2>1, <2>2, Zenon DEF ResponseTyped
<1>8. ASSUME NEW r \in Readers, processLine(r) PROVE ResponseTyped'
  BY <1>8 DEF processLine, Goes, Signal, TakesFinal, ReadersTyped, LineType, ResponseTyped
<1> QED
  BY <1>1, <1>2, <1>3, <1>4, <1>5, <1>6, <1>7, <1>8

\* What the request thread does stays typed.
LEMMA CommandTypedStep == Typed /\ [Next]_vars => CommandTyped'
<1> SUFFICES ASSUME Typed, [Next]_vars PROVE CommandTyped'
  OBVIOUS
<1> USE DEF Typed, pendingVars, commandVars, readerVars, stateVars, modemVars
<1>1. \/ UNCHANGED <<command, attempt>>
      \/ (\E sms \in BOOLEAN : at_send_command(sms)) \/ initializeCallback \/ HandshakeWrites
      \/ HandshakeWriteFails \/ HandshakeTimesOut \/ CommandWakes \/ HandshakeEnds
  BY Zenon DEF Next, CommandStep, MainStep, ModemStep, ReaderStep, SetReaderClosed, Sends,
     SpuriousWakeup, readline, ReadLeftover, processLine, ReaderEof, onReaderClosed, CloseFd,
     at_close, SetClosed, ReaderEnds, ResetClosed, at_open, RequestInitialize, waitForClose,
     ModemAnswers, ModemPrompts, ModemReports, ModemHangsUp, vars
<1>2. CASE UNCHANGED <<command, attempt>>
  BY <1>2 DEF CommandTyped
<1>3. ASSUME NEW sms \in BOOLEAN, at_send_command(sms) PROVE CommandTyped'
  BY <1>3, AtAssumption DEF at_send_command, Issue, CommandTyped
<1>4. CASE initializeCallback
  BY <1>4, AtAssumption DEF initializeCallback, setRadioState, CommandTyped
<1>5. CASE HandshakeWrites
  BY <1>5, AtAssumption DEF HandshakeWrites, Issue, CommandTyped
<1>6. CASE HandshakeWriteFails
  BY <1>6, AtAssumption DEF HandshakeWriteFails, NextAttempt, CommandTyped
<1>7. CASE HandshakeTimesOut
  BY <1>7, AtAssumption DEF HandshakeTimesOut, NextAttempt, clearPendingCommand, CommandTyped
<1>8. CASE CommandWakes
  BY <1>8, AtAssumption DEF CommandWakes, clearPendingCommand, NextAttempt, CommandTyped
<1>9. CASE HandshakeEnds
  BY <1>9, AtAssumption DEF HandshakeEnds, CommandTyped
<1> QED
  BY <1>1, <1>2, <1>3, <1>4, <1>5, <1>6, <1>7, <1>8, <1>9

\* What the readers do stays typed.
LEMMA ReadersStep == Typed /\ [Next]_vars => ReadersTyped'
<1> SUFFICES ASSUME Typed, [Next]_vars PROVE ReadersTyped'
  OBVIOUS
<1> USE DEF Typed, pendingVars, commandVars, readerVars, stateVars, modemVars
<1>1. \/ UNCHANGED <<reader, line>>
      \/ (\E r \in Readers : readline(r)) \/ (\E r \in Readers : ReadLeftover(r))
      \/ (\E r \in Readers : processLine(r)) \/ (\E r \in Readers : ReaderEof(r))
      \/ (\E r \in Readers : onReaderClosed(r)) \/ (\E r \in Readers : CloseFd(r))
      \/ (\E r \in Readers : at_close(r)) \/ (\E r \in Readers : SetClosed(r))
      \/ (\E r \in Readers : ReaderEnds(r)) \/ at_open
  BY Zenon DEF Next, CommandStep, MainStep, ModemStep, ReaderStep, SetReaderClosed, Sends,
     at_send_command, initializeCallback, HandshakeWrites, HandshakeWriteFails,
     HandshakeTimesOut, CommandWakes, SpuriousWakeup, HandshakeEnds, ResetClosed,
     RequestInitialize, waitForClose, ModemAnswers, ModemPrompts, ModemReports, ModemHangsUp,
     vars
<1>2. CASE UNCHANGED <<reader, line>>
  BY <1>2 DEF ReadersTyped
<1>3. ASSUME NEW r \in Readers, readline(r) PROVE ReadersTyped'
  <2>1. Head(input) \in LineType
    BY <1>3, TailElements DEF readline, ModemTyped
  <2> QED
    BY <1>3, <2>1 DEF readline, Goes, ReaderStates, ReadersTyped
<1>4. ASSUME NEW r \in Readers, ReadLeftover(r) PROVE ReadersTyped'
  BY <1>4, OtherTyped, LineTyped DEF ReadLeftover, Goes, ReaderStates, Kinds, ReadersTyped
<1>5. ASSUME NEW r \in Readers, processLine(r) PROVE ReadersTyped'
  BY <1>5, OtherTyped DEF processLine, Goes, Signal, ReaderStates, ReadersTyped
<1>6. ASSUME NEW r \in Readers, ReaderEof(r) PROVE ReadersTyped'
  BY <1>6 DEF ReaderEof, Goes, ReaderStates, ReadersTyped
<1>7. ASSUME NEW r \in Readers, onReaderClosed(r) PROVE ReadersTyped'
  BY <1>7 DEF onReaderClosed, SetReaderClosed, Goes, Signal, ReaderStates, ReadersTyped
<1>8. ASSUME NEW r \in Readers, CloseFd(r) PROVE ReadersTyped'
  BY <1>8 DEF CloseFd, Goes, ReaderStates, ReadersTyped
<1>9. ASSUME NEW r \in Readers, at_close(r) PROVE ReadersTyped'
  BY <1>9 DEF at_close, SetReaderClosed, Goes, Signal, ReaderStates, ReadersTyped
<1>10. ASSUME NEW r \in Readers, SetClosed(r) PROVE ReadersTyped'
  BY <1>10 DEF SetClosed, Goes, ReaderStates, ReadersTyped
<1>11. ASSUME NEW r \in Readers, ReaderEnds(r) PROVE ReadersTyped'
  BY <1>11 DEF ReaderEnds, Goes, setRadioState, ReaderStates, ReadersTyped
<1>12. CASE at_open
  BY <1>12, NewReaderFree DEF at_open, Goes, ReaderStates, ReadersTyped
<1> QED
  BY <1>1, <1>2, <1>3, <1>4, <1>5, <1>6, <1>7, <1>8, <1>9, <1>10, <1>11, <1>12

\* What the main loop does stays typed.
LEMMA MainTypedStep == Typed /\ [Next]_vars => MainTyped'
<1> SUFFICES ASSUME Typed, [Next]_vars PROVE MainTyped'
  OBVIOUS
<1> USE DEF Typed, pendingVars, commandVars, readerVars, stateVars, modemVars
<1>1. \/ UNCHANGED <<mainLoop, initRequests>>
      \/ initializeCallback \/ (\E r \in Readers : ReaderEnds(r)) \/ ResetClosed \/ at_open
      \/ RequestInitialize \/ waitForClose
  BY Zenon DEF Next, CommandStep, MainStep, ModemStep, ReaderStep, SetReaderClosed, Sends,
     at_send_command, HandshakeWrites, HandshakeWriteFails, HandshakeTimesOut, CommandWakes,
     SpuriousWakeup, HandshakeEnds, readline, ReadLeftover, processLine, ReaderEof,
     onReaderClosed, CloseFd, at_close, SetClosed, ModemAnswers, ModemPrompts, ModemReports,
     ModemHangsUp, vars
<1>2. CASE UNCHANGED <<mainLoop, initRequests>>
  BY <1>2 DEF MainTyped
<1>3. CASE initializeCallback
  BY <1>3, AtAssumption DEF initializeCallback, setRadioState, MainTyped
<1>4. ASSUME NEW r \in Readers, ReaderEnds(r) PROVE MainTyped'
  BY <1>4, AtAssumption DEF ReaderEnds, Goes, setRadioState, MainTyped
<1>5. CASE ResetClosed
  BY <1>5, AtAssumption DEF ResetClosed, MainTyped
<1>6. CASE at_open
  BY <1>6, AtAssumption DEF at_open, Goes, MainTyped
<1>7. CASE RequestInitialize
  BY <1>7, AtAssumption DEF RequestInitialize, MainTyped
<1>8. CASE waitForClose
  BY <1>8, AtAssumption DEF waitForClose, MainTyped
<1> QED
  BY <1>1, <1>2, <1>3, <1>4, <1>5, <1>6, <1>7, <1>8

\* The stream stays typed.
LEMMA ModemTypedStep == Typed /\ [Next]_vars => ModemTyped'
<1> SUFFICES ASSUME Typed, [Next]_vars PROVE ModemTyped'
  OBVIOUS
<1> USE DEF Typed, pendingVars, commandVars, readerVars, stateVars, modemVars
<1>1. \/ UNCHANGED <<toModem, input>>
      \/ (\E sms \in BOOLEAN : at_send_command(sms)) \/ HandshakeWrites
      \/ (\E r \in Readers : readline(r)) \/ (\E r \in Readers : ReadLeftover(r))
      \/ (\E r \in Readers : processLine(r)) \/ at_open \/ ModemAnswers \/ ModemPrompts
      \/ ModemReports
  BY Zenon DEF Next, CommandStep, MainStep, ModemStep, ReaderStep, SetReaderClosed, Sends,
     initializeCallback, HandshakeWriteFails, HandshakeTimesOut, CommandWakes, SpuriousWakeup,
     HandshakeEnds, ReaderEof, onReaderClosed, CloseFd, at_close, SetClosed, ReaderEnds,
     ResetClosed, RequestInitialize, waitForClose, ModemHangsUp, vars
<1>2. CASE UNCHANGED <<toModem, input>>
  BY <1>2 DEF ModemTyped
<1>3. ASSUME NEW sms \in BOOLEAN, at_send_command(sms) PROVE ModemTyped'
  <2>1. UNCHANGED toModem \/ \E awaits \in {"answer", "prompt"} :
              toModem' = Receives(toModem, [mine |-> TRUE, awaits |-> awaits])
    BY <1>3 DEF at_send_command, Issue
  <2>2. input' = Stale(input)
    BY <1>3 DEF at_send_command, Issue
  <2> QED
    BY <2>1, <2>2, ReceivesTyped, StaleLines DEF ModemTyped, CommandType
<1>4. CASE HandshakeWrites
  <2>1. UNCHANGED toModem \/ \E awaits \in {"answer", "prompt"} :
              toModem' = Receives(toModem, [mine |-> TRUE, awaits |-> awaits])
    BY <1>4 DEF HandshakeWrites, Issue
  <2>2. input' = Stale(input)
    BY <1>4 DEF HandshakeWrites, Issue
  <2> QED
    BY <2>1, <2>2, ReceivesTyped, StaleLines DEF ModemTyped, CommandType
<1>5. ASSUME NEW r \in Readers, readline(r) PROVE ModemTyped'
  BY <1>5, TailElements DEF readline, ModemTyped
<1>6. ASSUME NEW r \in Readers, ReadLeftover(r) PROVE ModemTyped'
  BY <1>6, TailElements DEF ReadLeftover, ModemTyped
<1>7. ASSUME NEW r \in Readers, processLine(r) PROVE ModemTyped'
  <2>1. UNCHANGED input
    BY <1>7 DEF processLine
  <2>2. \/ UNCHANGED toModem
        \/ toModem # <<>> /\ toModem' = [toModem EXCEPT ![1].awaits = "answer"]
    BY <1>7, Zenon DEF processLine
  <2> QED
    BY <2>1, <2>2, AwaitsTyped DEF ModemTyped
<1>8. CASE at_open
  BY <1>8, EmptySeq DEF at_open, ModemTyped
<1>9. CASE ModemAnswers
  <2>1. toModem # <<>> /\ toModem' = Tail(toModem)
    BY <1>9 DEF ModemAnswers
  <2>2. input' = Append(input, Line("final", Head(toModem).mine))
    BY <1>9 DEF ModemAnswers, Sends
  <2>3. Tail(toModem) \in Seq(CommandType) /\ Head(toModem) \in CommandType
    BY <2>1, TailElements DEF ModemTyped
  <2>4. Line("final", Head(toModem).mine) \in LineType
    BY <2>3, LineTyped DEF CommandType, Kinds
  <2> QED
    BY <2>1, <2>2, <2>3, <2>4, AppendProperties DEF ModemTyped
<1>10. CASE ModemPrompts
  <2>1. toModem # <<>> /\ toModem' = [toModem EXCEPT ![1].awaits = "pdu"]
    BY <1>10 DEF ModemPrompts
  <2>2. input' = Append(input, Line("prompt", Head(toModem).mine))
    BY <1>10 DEF ModemPrompts, Sends
  <2>3. Head(toModem) \in CommandType
    BY <2>1, TailElements DEF ModemTyped
  <2>4. Line("prompt", Head(toModem).mine) \in LineType
    BY <2>3, LineTyped DEF CommandType, Kinds
  <2>5. toModem' \in Seq(CommandType)
    BY <2>1, AwaitsTyped DEF ModemTyped
  <2> QED
    BY <2>2, <2>4, <2>5, AppendProperties DEF ModemTyped
<1>11. CASE ModemReports
  <2>1. Other \in LineType /\ Line("final", FALSE) \in LineType
    BY OtherTyped, LineTyped DEF Kinds
  <2>2. UNCHANGED toModem
    BY <1>11 DEF ModemReports
  <2>3. input' = Append(input, Other) \/ input' = Append(input, Line("final", FALSE))
    BY <1>11 DEF ModemReports, Sends
  <2>4. input' \in Seq(LineType)
    <3>1. Append(input, Other) \in Seq(LineType)
      BY <2>1, AppendProperties DEF ModemTyped
    <3>2. Append(input, Line("final", FALSE)) \in Seq(LineType)
      BY <2>1, AppendProperties DEF ModemTyped
    <3> QED
      BY <2>3, <3>1, <3>2, Zenon
  <2> QED
    BY <2>2, <2>4 DEF ModemTyped
<1> QED
  BY <1>1, <1>2, <1>3, <1>4, <1>5, <1>6, <1>7, <1>8, <1>9, <1>10, <1>11

LEMMA TypedStep == Typed /\ [Next]_vars => Typed'
  BY FlagsStep, ResponseStep, CommandTypedStep, ReadersStep, MainTypedStep, ModemTypedStep
     DEF Typed

\* The variables hold values of their types.
THEOREM TypeCorrect == Spec => []AtTypeOK
  BY TypedInit, TypedStep, TypedImpliesTypeOK, PTL DEF Spec

-----------------------------------------------------------------------------
(* One reader at a time. *)

\* A thread between at_open and SetClosed.
Live == {"readline", "processLine", "eof", "onATReaderClosed", "at_close", "closed"}

\* The main loop opens the channel again only when the reader has said that it is closed.
OneReader ==
  /\ \A r \in Readers : reader[r] \in Live => mainLoop \notin {"open", "at_open"} /\ ~s_closed
  /\ \A r, q \in Readers : reader[r] \in Live /\ reader[q] \in Live => r = q
  /\ mainLoop = "at_open" => ~s_closed
  /\ \A r \in Readers :
       reader[r] \in {"readline", "processLine", "eof"} => s_fd /\ ~s_readerClosed

\* No step makes a second reader.
LEMMA OneReaderStep == Typed /\ OneReader /\ [Next]_vars => OneReader'
<1> SUFFICES ASSUME Typed, OneReader, [Next]_vars PROVE OneReader'
  OBVIOUS
<1> USE DEF Typed, pendingVars, commandVars, readerVars, stateVars, modemVars
<1>1. \/ UNCHANGED <<reader, mainLoop, s_closed, s_fd, s_readerClosed>>
      \/ initializeCallback \/ (\E r \in Readers : readline(r))
      \/ (\E r \in Readers : ReadLeftover(r)) \/ (\E r \in Readers : processLine(r))
      \/ (\E r \in Readers : ReaderEof(r)) \/ (\E r \in Readers : onReaderClosed(r))
      \/ (\E r \in Readers : CloseFd(r)) \/ (\E r \in Readers : at_close(r))
      \/ (\E r \in Readers : SetClosed(r)) \/ (\E r \in Readers : ReaderEnds(r)) \/ ResetClosed
      \/ at_open \/ RequestInitialize \/ waitForClose
  BY Zenon DEF Next, CommandStep, MainStep, ModemStep, ReaderStep, SetReaderClosed, Sends,
     at_send_command, HandshakeWrites, HandshakeWriteFails, HandshakeTimesOut, CommandWakes,
     SpuriousWakeup, HandshakeEnds, ModemAnswers, ModemPrompts, ModemReports, ModemHangsUp, vars
<1>2. CASE UNCHANGED <<reader, mainLoop, s_closed, s_fd, s_readerClosed>>
  BY <1>2 DEF OneReader
<1>3. CASE initializeCallback
  BY <1>3 DEF initializeCallback, setRadioState, ReadersTyped, Live, OneReader
<1>4. ASSUME NEW r \in Readers, readline(r) PROVE OneReader'
  BY <1>4 DEF readline, Goes, ReadersTyped, Live, OneReader
<1>5. ASSUME NEW r \in Readers, ReadLeftover(r) PROVE OneReader'
  BY <1>5 DEF ReadLeftover, Goes, ReadersTyped, Live, OneReader
<1>6. ASSUME NEW r \in Readers, processLine(r) PROVE OneReader'
  BY <1>6 DEF processLine, Goes, Signal, ReadersTyped, Live, OneReader
<1>7. ASSUME NEW r \in Readers, ReaderEof(r) PROVE OneReader'
  BY <1>7 DEF ReaderEof, Goes, ReadersTyped, Live, OneReader
<1>8. ASSUME NEW r \in Readers, onReaderClosed(r) PROVE OneReader'
  BY <1>8 DEF onReaderClosed, SetReaderClosed, Goes, Signal, ReadersTyped, Live, OneReader
<1>9. ASSUME NEW r \in Readers, CloseFd(r) PROVE OneReader'
  BY <1>9 DEF CloseFd, Goes, ReadersTyped, Live, OneReader
<1>10. ASSUME NEW r \in Readers, at_close(r) PROVE OneReader'
  BY <1>10 DEF at_close, SetReaderClosed, Goes, Signal, ReadersTyped, Live, OneReader
<1>11. ASSUME NEW r \in Readers, SetClosed(r) PROVE OneReader'
  BY <1>11 DEF SetClosed, Goes, ReadersTyped, Live, OneReader
<1>12. ASSUME NEW r \in Readers, ReaderEnds(r) PROVE OneReader'
  BY <1>12 DEF ReaderEnds, Goes, setRadioState, ReadersTyped, Live, OneReader
<1>13. CASE ResetClosed
  BY <1>13 DEF ResetClosed, ReadersTyped, Live, OneReader
<1>14. CASE at_open
  <2>1. NewReader \in Readers /\ reader[NewReader] = "none"
    BY <1>14, NewReaderFree DEF at_open
  <2>2. /\ reader' = [reader EXCEPT ![NewReader] = "readline"] /\ mainLoop' = "request"
        /\ s_fd' = TRUE /\ s_readerClosed' = FALSE /\ UNCHANGED s_closed
    BY <1>14 DEF at_open, Goes
  <2>3. ~s_closed /\ \A r \in Readers : reader[r] \notin Live
    BY <1>14 DEF at_open, OneReader
  <2> QED
    BY <2>1, <2>2, <2>3 DEF ReadersTyped, Live, OneReader
<1>15. CASE RequestInitialize
  BY <1>15 DEF RequestInitialize, ReadersTyped, Live, OneReader
<1>16. CASE waitForClose
  BY <1>16 DEF waitForClose, ReadersTyped, Live, OneReader
<1> QED
  BY <1>1, <1>2, <1>3, <1>4, <1>5, <1>6, <1>7, <1>8, <1>9, <1>10, <1>11, <1>12, <1>13, <1>14,
     <1>15, <1>16

LEMMA OneReaderInit == Init => OneReader
  BY DEF Init, OneReader, Live

\* readline has the descriptor for itself, across closing and opening the channel.
THEOREM ReadsAlone == Spec => []ExclusiveReader
<1>1. Typed /\ OneReader => ExclusiveReader
  BY DEF Typed, ReadersTyped, ReaderStates, OneReader, Live, ExclusiveReader
<1> QED
  BY <1>1, TypedInit, TypedStep, OneReaderInit, OneReaderStep, PTL DEF Spec

-----------------------------------------------------------------------------
(* The state of the radio. *)

\* The state is unavailable when the reader is through with setRadioState.
LEMMA UnavailableStep == Typed /\ ClosedIsUnavailable /\ [Next]_vars => ClosedIsUnavailable'
<1> SUFFICES ASSUME Typed, ClosedIsUnavailable, [Next]_vars PROVE ClosedIsUnavailable'
  OBVIOUS
<1> USE DEF Typed, pendingVars, commandVars, readerVars, stateVars, modemVars
<1>1. \/ UNCHANGED <<s_closed, reader, sState>>
      \/ initializeCallback \/ (\E r \in Readers : readline(r))
      \/ (\E r \in Readers : ReadLeftover(r)) \/ (\E r \in Readers : processLine(r))
      \/ (\E r \in Readers : ReaderEof(r)) \/ (\E r \in Readers : onReaderClosed(r))
      \/ (\E r \in Readers : CloseFd(r)) \/ (\E r \in Readers : at_close(r))
      \/ (\E r \in Readers : SetClosed(r)) \/ (\E r \in Readers : ReaderEnds(r)) \/ ResetClosed
      \/ at_open
  BY Zenon DEF Next, CommandStep, MainStep, ModemStep, ReaderStep, SetReaderClosed, Sends,
     at_send_command, HandshakeWrites, HandshakeWriteFails, HandshakeTimesOut, CommandWakes,
     SpuriousWakeup, HandshakeEnds, RequestInitialize, waitForClose, ModemAnswers, ModemPrompts,
     ModemReports, ModemHangsUp, vars
<1>2. CASE UNCHANGED <<s_closed, reader, sState>>
  BY <1>2 DEF ClosedIsUnavailable
<1>3. CASE initializeCallback
  BY <1>3 DEF initializeCallback, setRadioState, ReadersTyped, ClosedIsUnavailable
<1>4. ASSUME NEW r \in Readers, readline(r) PROVE ClosedIsUnavailable'
  BY <1>4 DEF readline, Goes, ReadersTyped, ClosedIsUnavailable
<1>5. ASSUME NEW r \in Readers, ReadLeftover(r) PROVE ClosedIsUnavailable'
  BY <1>5 DEF ReadLeftover, Goes, ReadersTyped, ClosedIsUnavailable
<1>6. ASSUME NEW r \in Readers, processLine(r) PROVE ClosedIsUnavailable'
  BY <1>6 DEF processLine, Goes, Signal, ReadersTyped, ClosedIsUnavailable
<1>7. ASSUME NEW r \in Readers, ReaderEof(r) PROVE ClosedIsUnavailable'
  BY <1>7 DEF ReaderEof, Goes, ReadersTyped, ClosedIsUnavailable
<1>8. ASSUME NEW r \in Readers, onReaderClosed(r) PROVE ClosedIsUnavailable'
  BY <1>8 DEF onReaderClosed, SetReaderClosed, Goes, Signal, ReadersTyped, ClosedIsUnavailable
<1>9. ASSUME NEW r \in Readers, CloseFd(r) PROVE ClosedIsUnavailable'
  BY <1>9 DEF CloseFd, Goes, ReadersTyped, ClosedIsUnavailable
<1>10. ASSUME NEW r \in Readers, at_close(r) PROVE ClosedIsUnavailable'
  BY <1>10 DEF at_close, SetReaderClosed, Goes, Signal, ReadersTyped, ClosedIsUnavailable
<1>11. ASSUME NEW r \in Readers, SetClosed(r) PROVE ClosedIsUnavailable'
  BY <1>11 DEF SetClosed, Goes, ReadersTyped, ClosedIsUnavailable
<1>12. ASSUME NEW r \in Readers, ReaderEnds(r) PROVE ClosedIsUnavailable'
  BY <1>12 DEF ReaderEnds, Goes, setRadioState, ReadersTyped, ClosedIsUnavailable
<1>13. CASE ResetClosed
  BY <1>13 DEF ResetClosed, ReadersTyped, ClosedIsUnavailable
<1>14. CASE at_open
  BY <1>14, NewReaderFree DEF at_open, Goes, ReadersTyped, ClosedIsUnavailable
<1> QED
  BY <1>1, <1>2, <1>3, <1>4, <1>5, <1>6, <1>7, <1>8, <1>9, <1>10, <1>11, <1>12, <1>13, <1>14

\* A closed channel leaves the radio unavailable, whatever the request thread does.
THEOREM StaysUnavailable == Spec => []ClosedIsUnavailable
<1>1. Init => ClosedIsUnavailable
  BY DEF Init, ClosedIsUnavailable
<1> QED
  BY <1>1, TypedInit, TypedStep, UnavailableStep, PTL DEF Spec

-----------------------------------------------------------------------------
(* The pending command. *)

\* There is a response while a command waits, and a message only with it.
OnlyWhileWaiting ==
  /\ sp_response = NULL => ~s_smsPDU
  /\ sp_response # NULL => sp_response.set /\ command = "wait"

LEMMA NewIsNotNull == at_response_new # NULL /\ at_response_new.set /\ ~at_response_new.final
  BY DEF at_response_new, NULL

\* A command leaves nothing behind.
LEMMA PendingStep == Typed /\ OnlyWhileWaiting /\ [Next]_vars => OnlyWhileWaiting'
<1> SUFFICES ASSUME Typed, OnlyWhileWaiting, [Next]_vars PROVE OnlyWhileWaiting'
  OBVIOUS
<1> USE DEF Typed, pendingVars, commandVars, readerVars, stateVars, modemVars
<1>1. \/ UNCHANGED <<sp_response, s_smsPDU, command>>
      \/ (\E sms \in BOOLEAN : at_send_command(sms)) \/ initializeCallback \/ HandshakeWrites
      \/ HandshakeWriteFails \/ HandshakeTimesOut \/ CommandWakes \/ HandshakeEnds
      \/ (\E r \in Readers : processLine(r)) \/ at_open
  BY Zenon DEF Next, CommandStep, MainStep, ModemStep, ReaderStep, SetReaderClosed, Sends,
     SpuriousWakeup, readline, ReadLeftover, ReaderEof, onReaderClosed, CloseFd, at_close,
     SetClosed, ReaderEnds, ResetClosed, RequestInitialize, waitForClose, ModemAnswers,
     ModemPrompts, ModemReports, ModemHangsUp, vars
<1>2. CASE UNCHANGED <<sp_response, s_smsPDU, command>>
  BY <1>2 DEF OnlyWhileWaiting
<1>3. ASSUME NEW sms \in BOOLEAN, at_send_command(sms) PROVE OnlyWhileWaiting'
  BY <1>3, NewIsNotNull DEF at_send_command, Issue, OnlyWhileWaiting
<1>4. CASE initializeCallback
  BY <1>4 DEF initializeCallback, setRadioState, OnlyWhileWaiting
<1>5. CASE HandshakeWrites
  BY <1>5, NewIsNotNull DEF HandshakeWrites, Issue, OnlyWhileWaiting
<1>6. CASE HandshakeWriteFails
  BY <1>6 DEF HandshakeWriteFails, NextAttempt, OnlyWhileWaiting
<1>7. CASE HandshakeTimesOut
  BY <1>7 DEF HandshakeTimesOut, NextAttempt, clearPendingCommand, OnlyWhileWaiting
<1>8. CASE CommandWakes
  <2>1. \/ /\ UNCHANGED <<sp_response, s_smsPDU>>
           /\ sp_response = NULL \/ UNCHANGED command
        \/ sp_response' = NULL /\ s_smsPDU' = FALSE
    BY <1>8, Zenon DEF CommandWakes, clearPendingCommand
  <2> QED
    BY <2>1 DEF OnlyWhileWaiting
<1>9. CASE HandshakeEnds
  BY <1>9 DEF HandshakeEnds, OnlyWhileWaiting
<1>10. ASSUME NEW r \in Readers, processLine(r) PROVE OnlyWhileWaiting'
  <2>1. UNCHANGED command
    BY <1>10 DEF processLine
  <2>2. CASE sp_response = NULL
    BY <1>10, <2>1, <2>2 DEF processLine, TakesFinal, TakesPrompt, OnlyWhileWaiting
  <2>3. CASE sp_response # NULL
    <3>1. \/ UNCHANGED sp_response
          \/ sp_response' = [sp_response EXCEPT !.final = TRUE, !.mine = line.mine]
      BY <1>10, Zenon DEF processLine
    <3>2. sp_response.set
      BY <2>3 DEF OnlyWhileWaiting
    <3>3. sp_response' # NULL /\ sp_response'.set
      <4>1. NULL.set = FALSE
        BY DEF NULL
      <4>2. sp_response'.set
        BY <3>1, <3>2 DEF ResponseTyped
      <4> QED
        BY <4>1, <4>2
    <3> QED
      BY <1>10, <2>1, <2>3, <3>3 DEF OnlyWhileWaiting
  <2> QED
    BY <2>2, <2>3
<1>11. CASE at_open
  BY <1>11 DEF at_open, Goes, OnlyWhileWaiting
<1> QED
  BY <1>1, <1>2, <1>3, <1>4, <1>5, <1>6, <1>7, <1>8, <1>9, <1>10, <1>11

LEMMA PendingInit == Init => OnlyWhileWaiting
  BY DEF Init, OnlyWhileWaiting

\* Whatever ended the last command, it left neither a response nor a message.
THEOREM LeavesNothing == Spec => []NothingLeftPending
<1>1. OnlyWhileWaiting => NothingLeftPending
  BY DEF OnlyWhileWaiting, NothingLeftPending
<1> QED
  BY <1>1, TypedInit, TypedStep, PendingInit, PendingStep, PTL DEF Spec

-----------------------------------------------------------------------------
(* Answers.  On a channel that is in sync there is at most one answer: in the *)
(* modem, in the stream or with the reader, and it is for the command that    *)
(* waits.                                                                    *)

FinalsOf(lines) == {i \in 1 .. Len(lines) : lines[i].kind = "final"}

NoneLeft == toModem = <<>> /\ FinalsOf(input) = {} /\ line.kind # "final"
OneLeft ==
  /\ Len(toModem) <= 1
  /\ toModem # <<>> => toModem[1].mine /\ FinalsOf(input) = {} /\ line.kind # "final"
  /\ \A i \in FinalsOf(input) : input[i].mine /\ line.kind # "final"
  /\ \A i, j \in FinalsOf(input) : i = j
  /\ line.kind = "final" => line.mine

Expected ==
  ~outOfSync /\ ~s_readerClosed =>
    OneLeft /\ (sp_response = NULL \/ sp_response.final => NoneLeft)

\* A final response the reader has taken is not yet processed.
LineHeld == line.kind = "final" => \E r \in Readers : reader[r] = "processLine"

LEMMA FinalsOfTail ==
  ASSUME NEW lines \in Seq(LineType), lines # <<>>
  PROVE  \A i \in FinalsOf(Tail(lines)) :
           i \in Nat \ {0} /\ i + 1 \in FinalsOf(lines) /\ Tail(lines)[i] = lines[i + 1]
  BY TailElements DEF FinalsOf

LEMMA FinalsOfStale ==
  ASSUME NEW lines \in Seq(LineType), FinalsOf(lines) = {}
  PROVE  FinalsOf(Stale(lines)) = {}
  BY StaleLines DEF FinalsOf

LEMMA FinalsOfAppend ==
  ASSUME NEW lines \in Seq(LineType), NEW last \in LineType
  PROVE  /\ last.kind # "final" => FinalsOf(Append(lines, last)) = FinalsOf(lines)
         /\ \A i \in FinalsOf(lines) : Append(lines, last)[i] = lines[i]
         /\ last.kind = "final" /\ FinalsOf(lines) = {} =>
              /\ \A i \in FinalsOf(Append(lines, last)) :
                   i = Len(lines) + 1 /\ Append(lines, last)[i] = last
<1>1. Len(lines) \in Nat
  BY LenProperties
<1>2. /\ Len(Append(lines, last)) = Len(lines) + 1
      /\ \A i \in 1 .. Len(lines) : Append(lines, last)[i] = lines[i]
      /\ Append(lines, last)[Len(lines) + 1] = last
  BY AppendProperties
<1> QED
  BY <1>1, <1>2 DEF FinalsOf

\* The first command the modem gets is the only one it knows of.
LEMMA ReceivesFirst ==
  ASSUME NEW new
  PROVE  Receives(<<>>, new) = <<new>>
<1>1. Stale(<<>>) = <<>>
  BY DEF Stale
<1>2. Append(Stale(<<>>), new) = <<new>>
  BY <1>1, AppendIsConcat, ConcatEmptySeq DEF Stale
<1>3. Len(<<new>>) = 1 /\ ~(1 > MaxUnanswered)
  BY AtAssumption
<1> QED
  BY <1>2, <1>3 DEF Receives

LEMMA FinalsOfNone == FinalsOf(<<>>) = {}
  BY DEF FinalsOf

\* The line is processed by the reader that took it.
LEMMA LineHeldStep == Typed /\ LineHeld /\ [Next]_vars => LineHeld'
<1> SUFFICES ASSUME Typed, LineHeld, [Next]_vars PROVE LineHeld'
  OBVIOUS
<1> USE DEF Typed, pendingVars, commandVars, readerVars, stateVars, modemVars
<1>1. \/ UNCHANGED <<reader, line>>
      \/ (\E r \in Readers : readline(r)) \/ (\E r \in Readers : ReadLeftover(r))
      \/ (\E r \in Readers : processLine(r)) \/ (\E r \in Readers : ReaderEof(r))
      \/ (\E r \in Readers : onReaderClosed(r)) \/ (\E r \in Readers : CloseFd(r))
      \/ (\E r \in Readers : at_close(r)) \/ (\E r \in Readers : SetClosed(r))
      \/ (\E r \in Readers : ReaderEnds(r)) \/ at_open
  BY Zenon DEF Next, CommandStep, MainStep, ModemStep, ReaderStep, SetReaderClosed, Sends,
     at_send_command, initializeCallback, HandshakeWrites, HandshakeWriteFails,
     HandshakeTimesOut, CommandWakes, SpuriousWakeup, HandshakeEnds, ResetClosed,
     RequestInitialize, waitForClose, ModemAnswers, ModemPrompts, ModemReports, ModemHangsUp,
     vars
<1>2. CASE UNCHANGED <<reader, line>>
  BY <1>2 DEF LineHeld
<1>3. ASSUME NEW r \in Readers, readline(r) PROVE LineHeld'
  BY <1>3, OtherTyped DEF readline, Goes, ReadersTyped, LineHeld
<1>4. ASSUME NEW r \in Readers, ReadLeftover(r) PROVE LineHeld'
  BY <1>4, OtherTyped DEF ReadLeftover, Goes, ReadersTyped, LineHeld
<1>5. ASSUME NEW r \in Readers, processLine(r) PROVE LineHeld'
  BY <1>5, OtherTyped DEF processLine, Goes, LineHeld
<1>6. ASSUME NEW r \in Readers, ReaderEof(r) PROVE LineHeld'
  BY <1>6 DEF ReaderEof, Goes, ReadersTyped, LineHeld
<1>7. ASSUME NEW r \in Readers, onReaderClosed(r) PROVE LineHeld'
  BY <1>7 DEF onReaderClosed, SetReaderClosed, Goes, Signal, ReadersTyped, LineHeld
<1>8. ASSUME NEW r \in Readers, CloseFd(r) PROVE LineHeld'
  BY <1>8 DEF CloseFd, Goes, ReadersTyped, LineHeld
<1>9. ASSUME NEW r \in Readers, at_close(r) PROVE LineHeld'
  BY <1>9 DEF at_close, SetReaderClosed, Goes, Signal, ReadersTyped, LineHeld
<1>10. ASSUME NEW r \in Readers, SetClosed(r) PROVE LineHeld'
  BY <1>10 DEF SetClosed, Goes, ReadersTyped, LineHeld
<1>11. ASSUME NEW r \in Readers, ReaderEnds(r) PROVE LineHeld'
  BY <1>11 DEF ReaderEnds, Goes, setRadioState, ReadersTyped, LineHeld
<1>12. CASE at_open
  BY <1>12, NewReaderFree DEF at_open, Goes, ReadersTyped, LineHeld
<1> QED
  BY <1>1, <1>2, <1>3, <1>4, <1>5, <1>6, <1>7, <1>8, <1>9, <1>10, <1>11, <1>12

\* The one answer moves towards its command.
LEMMA ExpectedStep == Typed /\ OneReader /\ OnlyWhileWaiting /\ LineHeld /\ Expected /\ [Next]_vars => Expected'
<1> SUFFICES ASSUME Typed, OneReader, OnlyWhileWaiting, LineHeld, Expected, [Next]_vars PROVE Expected'
  OBVIOUS
<1> USE DEF Typed, pendingVars, commandVars, readerVars, stateVars, modemVars
<1>1. \/ UNCHANGED <<outOfSync, s_readerClosed, toModem, input, line, sp_response>>
      \/ (\E sms \in BOOLEAN : at_send_command(sms)) \/ HandshakeWrites \/ HandshakeTimesOut
      \/ CommandWakes \/ (\E r \in Readers : readline(r))
      \/ (\E r \in Readers : ReadLeftover(r)) \/ (\E r \in Readers : processLine(r))
      \/ (\E r \in Readers : onReaderClosed(r)) \/ (\E r \in Readers : at_close(r)) \/ at_open
      \/ ModemAnswers \/ ModemPrompts \/ ModemReports
  BY Zenon DEF Next, CommandStep, MainStep, ModemStep, ReaderStep, SetReaderClosed, Sends,
     initializeCallback, HandshakeWriteFails, SpuriousWakeup, HandshakeEnds, ReaderEof, CloseFd,
     SetClosed, ReaderEnds, ResetClosed, RequestInitialize, waitForClose, ModemHangsUp, vars
<1>2. CASE UNCHANGED <<outOfSync, s_readerClosed, toModem, input, line, sp_response>>
  BY <1>2 DEF Expected, OneLeft, NoneLeft
<1>3. ASSUME NEW sms \in BOOLEAN, at_send_command(sms) PROVE Expected'
  <2>1. /\ UNCHANGED <<outOfSync, s_readerClosed, line>> /\ ~s_readerClosed
        /\ sp_response = NULL /\ sp_response' = at_response_new
        /\ input' = Stale(input)
    BY <1>3 DEF at_send_command, Issue, OnlyWhileWaiting
  <2>2. \/ UNCHANGED toModem
        \/ \E awaits \in {"answer", "prompt"} :
             toModem' = Receives(toModem, [mine |-> TRUE, awaits |-> awaits])
    BY <1>3 DEF at_send_command, Issue
  <2> SUFFICES ASSUME ~outOfSync PROVE OneLeft'
    BY <2>1, NewIsNotNull DEF Expected
  <2>3. NoneLeft
    BY <2>1 DEF Expected
  <2>4. FinalsOf(input') = {} /\ line'.kind # "final"
    BY <2>1, <2>3, FinalsOfStale DEF NoneLeft, ModemTyped
  <2>5. toModem' = <<>> \/ \E awaits \in {"answer", "prompt"} :
          toModem' = <<[mine |-> TRUE, awaits |-> awaits]>>
    BY <2>2, <2>3, ReceivesFirst DEF NoneLeft
  <2>6. Len(toModem') <= 1 /\ (toModem' # <<>> => toModem'[1].mine)
    BY <2>5
  <2> QED
    BY <2>4, <2>6 DEF OneLeft
<1>4. CASE HandshakeWrites
  <2>1. /\ UNCHANGED <<outOfSync, s_readerClosed, line>> /\ ~s_readerClosed
        /\ sp_response = NULL /\ sp_response' = at_response_new
        /\ input' = Stale(input)
    BY <1>4 DEF HandshakeWrites, Issue, OnlyWhileWaiting
  <2>2. \/ UNCHANGED toModem
        \/ \E awaits \in {"answer", "prompt"} :
             toModem' = Receives(toModem, [mine |-> TRUE, awaits |-> awaits])
    BY <1>4 DEF HandshakeWrites, Issue
  <2> SUFFICES ASSUME ~outOfSync PROVE OneLeft'
    BY <2>1, NewIsNotNull DEF Expected
  <2>3. NoneLeft
    BY <2>1 DEF Expected
  <2>4. FinalsOf(input') = {} /\ line'.kind # "final"
    BY <2>1, <2>3, FinalsOfStale DEF NoneLeft, ModemTyped
  <2>5. toModem' = <<>> \/ \E awaits \in {"answer", "prompt"} :
          toModem' = <<[mine |-> TRUE, awaits |-> awaits]>>
    BY <2>2, <2>3, ReceivesFirst DEF NoneLeft
  <2>6. Len(toModem') <= 1 /\ (toModem' # <<>> => toModem'[1].mine)
    BY <2>5
  <2> QED
    BY <2>4, <2>6 DEF OneLeft
<1>5. CASE HandshakeTimesOut
  <2>1. UNCHANGED <<s_readerClosed, toModem, input, line>> /\ sp_response' = NULL
    BY <1>5 DEF HandshakeTimesOut, clearPendingCommand
  <2>2. outOfSync' = (outOfSync \/ ~sp_response.final)
    BY <1>5 DEF HandshakeTimesOut
  <2>3. ~outOfSync' => ~outOfSync /\ sp_response.final
    BY <2>2, Zenon
  <2> QED
    BY <2>1, <2>3, Zenon DEF Expected, OneLeft, NoneLeft
<1>6. CASE CommandWakes
  <2>1. UNCHANGED <<outOfSync, s_readerClosed, toModem, input, line>>
    BY <1>6 DEF CommandWakes
  <2>2. UNCHANGED sp_response \/ sp_response.final \/ s_readerClosed
    BY <1>6, Zenon DEF CommandWakes, Finishes
  <2>3. CASE UNCHANGED sp_response
    BY <2>1, <2>3, Zenon DEF Expected, OneLeft, NoneLeft
  <2> QED
    BY <2>1, <2>2, <2>3, Zenon DEF Expected, OneLeft, NoneLeft
<1>7. ASSUME NEW r \in Readers, readline(r) PROVE Expected'
  <2>1. /\ UNCHANGED <<outOfSync, s_readerClosed, toModem, sp_response>>
        /\ input # <<>> /\ line' = Head(input) /\ input' = Tail(input)
        /\ reader[r] = "readline"
    BY <1>7 DEF readline
  <2>2. line.kind # "final"
    BY <2>1 DEF LineHeld, OneReader, Live
  <2>3. /\ Head(input) = input[1] /\ 1 \in 1 .. Len(input)
        /\ input[1].kind = "final" => 1 \in FinalsOf(input)
    BY <2>1, TailElements DEF ModemTyped, FinalsOf
  <2>4. \A i \in FinalsOf(input') :
          i \in Nat \ {0} /\ i + 1 \in FinalsOf(input) /\ input'[i] = input[i + 1]
    BY <2>1, FinalsOfTail DEF ModemTyped
  <2> SUFFICES ASSUME ~outOfSync, ~s_readerClosed
               PROVE  OneLeft' /\ (sp_response = NULL \/ sp_response.final => NoneLeft')
    BY <2>1 DEF Expected
  <2>5. OneLeft'
    <3>1. ASSUME NEW i \in FinalsOf(input') PROVE input'[i].mine /\ line'.kind # "final"
      <4>1. i + 1 \in FinalsOf(input) /\ i + 1 # 1 /\ input'[i] = input[i + 1]
        BY <2>4
      <4> QED
        BY <2>1, <2>3, <4>1 DEF Expected, OneLeft
    <3>2. ASSUME NEW i \in FinalsOf(input'), NEW j \in FinalsOf(input') PROVE i = j
      <4>1. i \in Nat /\ j \in Nat /\ i + 1 = j + 1
        BY <2>4 DEF Expected, OneLeft
      <4> QED
        BY <4>1
    <3>3. toModem' # <<>> => /\ toModem'[1].mine /\ FinalsOf(input') = {}
                             /\ line'.kind # "final"
      BY <2>1, <2>3, <2>4 DEF Expected, OneLeft
    <3>4. Len(toModem') <= 1 /\ (line'.kind = "final" => line'.mine)
      BY <2>1, <2>3 DEF Expected, OneLeft
    <3> QED
      BY <3>1, <3>2, <3>3, <3>4 DEF OneLeft
  <2>6. sp_response = NULL \/ sp_response.final => NoneLeft'
    BY <2>1, <2>3, <2>4 DEF Expected, NoneLeft
  <2> QED
    BY <2>5, <2>6
<1>8. ASSUME NEW r \in Readers, ReadLeftover(r) PROVE Expected'
  BY <1>8 DEF ReadLeftover, Expected
<1>9. ASSUME NEW r \in Readers, processLine(r) PROVE Expected'
  <2>1. UNCHANGED <<outOfSync, s_readerClosed, input>> /\ line'.kind # "final"
    BY <1>9, OtherTyped DEF processLine
  <2> SUFFICES ASSUME ~outOfSync, ~s_readerClosed
               PROVE  OneLeft' /\ (sp_response' = NULL \/ sp_response'.final => NoneLeft')
    BY <2>1 DEF Expected
  <2>2. OneLeft
    BY DEF Expected
  <2>3. toModem = <<>> => UNCHANGED toModem
    BY <1>9, Zenon DEF processLine
  <2>4. \/ UNCHANGED toModem
        \/ toModem # <<>> /\ toModem' = [toModem EXCEPT ![1].awaits = "answer"]
    BY <1>9, Zenon DEF processLine
  <2>5. Len(toModem') <= 1 /\ (toModem' # <<>> => toModem # <<>> /\ toModem'[1].mine)
    <3>1. CASE UNCHANGED toModem
      BY <2>2, <3>1 DEF OneLeft
    <3>2. CASE toModem # <<>> /\ toModem' = [toModem EXCEPT ![1].awaits = "answer"]
      <4>1. toModem[1].mine /\ toModem[1] \in CommandType /\ 1 \in 1 .. Len(toModem)
        BY <2>2, <3>2, TailElements DEF OneLeft, ModemTyped
      <4>2. [toModem[1] EXCEPT !.awaits = "answer"] \in CommandType
        BY <4>1 DEF CommandType
      <4>3. /\ Len(toModem') = Len(toModem)
            /\ toModem'[1] = [toModem[1] EXCEPT !.awaits = "answer"]
        BY <3>2, <4>1, <4>2, ExceptSeq DEF ModemTyped
      <4>4. toModem'[1].mine
        BY <4>1, <4>3 DEF CommandType
      <4> QED
        BY <2>2, <3>2, <4>3, <4>4 DEF OneLeft
    <3> QED
      BY <2>4, <3>1, <3>2
  <2>6. OneLeft'
    BY <2>1, <2>2, <2>5 DEF OneLeft
  <2>7. CASE TakesFinal
    <3>1. toModem = <<>> /\ FinalsOf(input) = {}
      BY <2>2, <2>7 DEF TakesFinal, OneLeft
    <3> QED
      BY <2>1, <2>3, <2>6, <3>1 DEF NoneLeft
  <2>8. CASE ~TakesFinal
    <3>1. UNCHANGED sp_response
      BY <1>9, <2>8 DEF processLine
    <3>2. NoneLeft => NoneLeft'
      BY <2>1, <2>3 DEF NoneLeft
    <3> QED
      BY <2>6, <3>1, <3>2 DEF Expected
  <2> QED
    BY <2>7, <2>8
<1>10. ASSUME NEW r \in Readers, onReaderClosed(r) PROVE Expected'
  BY <1>10 DEF onReaderClosed, SetReaderClosed, Expected
<1>11. ASSUME NEW r \in Readers, at_close(r) PROVE Expected'
  BY <1>11 DEF at_close, SetReaderClosed, Expected
<1>12. CASE at_open
  <2>1. toModem' = <<>> /\ input' = <<>> /\ UNCHANGED line /\ mainLoop = "at_open"
    BY <1>12 DEF at_open
  <2>2. line'.kind # "final"
    BY <2>1 DEF LineHeld, OneReader, Live
  <2> QED
    BY <2>1, <2>2, FinalsOfNone DEF Expected, OneLeft, NoneLeft
<1>13. CASE ModemAnswers
  <2>1. /\ UNCHANGED <<outOfSync, s_readerClosed, sp_response, line>>
        /\ toModem # <<>> /\ toModem' = Tail(toModem)
    BY <1>13 DEF ModemAnswers, Sends
  <2>2. input' = Append(input, Line("final", Head(toModem).mine))
    BY <1>13 DEF ModemAnswers, Sends
  <2> SUFFICES ASSUME ~outOfSync, ~s_readerClosed
               PROVE  OneLeft' /\ (sp_response = NULL \/ sp_response.final => NoneLeft')
    BY <2>1 DEF Expected
  <2>3. /\ Len(toModem) <= 1 /\ toModem[1].mine
        /\ FinalsOf(input) = {} /\ line.kind # "final"
        /\ ~(sp_response = NULL \/ sp_response.final)
    BY <2>1 DEF Expected, OneLeft, NoneLeft
  <2>4. Head(toModem).mine /\ Len(toModem) \in Nat /\ Len(Tail(toModem)) = Len(toModem) - 1
        /\ Head(toModem) \in CommandType /\ Tail(toModem) \in Seq(CommandType)
    BY <2>1, <2>3, TailElements DEF ModemTyped
  <2>5. toModem' = <<>>
    BY <2>1, <2>3, <2>4, EmptySeq
  <2>6. Line("final", Head(toModem).mine) \in LineType
    BY <2>4, LineTyped DEF CommandType, Kinds
  <2>7. \A i \in FinalsOf(input') : i = Len(input) + 1 /\ input'[i].mine
    BY <2>2, <2>3, <2>4, <2>6, FinalsOfAppend DEF ModemTyped, Line
  <2> QED
    BY <2>1, <2>3, <2>5, <2>7 DEF OneLeft
<1>14. CASE ModemPrompts
  <2>1. /\ UNCHANGED <<outOfSync, s_readerClosed, sp_response, line>>
        /\ toModem # <<>> /\ toModem' = [toModem EXCEPT ![1].awaits = "pdu"]
    BY <1>14 DEF ModemPrompts, Sends
  <2>2. input' = Append(input, Line("prompt", Head(toModem).mine))
    BY <1>14 DEF ModemPrompts, Sends
  <2> SUFFICES ASSUME ~outOfSync, ~s_readerClosed
               PROVE  OneLeft' /\ (sp_response = NULL \/ sp_response.final => NoneLeft')
    BY <2>1 DEF Expected
  <2>3. /\ Len(toModem) <= 1 /\ toModem[1].mine
        /\ FinalsOf(input) = {} /\ line.kind # "final"
        /\ ~(sp_response = NULL \/ sp_response.final)
    BY <2>1 DEF Expected, OneLeft, NoneLeft
  <2>4. Head(toModem) \in CommandType /\ toModem[1] \in CommandType /\ 1 \in 1 .. Len(toModem)
    BY <2>1, TailElements DEF ModemTyped
  <2>5. Line("prompt", Head(toModem).mine) \in LineType
    BY <2>4, LineTyped DEF CommandType, Kinds
  <2>6. FinalsOf(input') = {}
    BY <2>2, <2>3, <2>5, FinalsOfAppend DEF ModemTyped, Line
  <2>7. [toModem[1] EXCEPT !.awaits = "pdu"] \in CommandType
    BY <2>4 DEF CommandType
  <2>8. Len(toModem') = Len(toModem) /\ toModem'[1] = [toModem[1] EXCEPT !.awaits = "pdu"]
    BY <2>1, <2>4, <2>7, ExceptSeq DEF ModemTyped
  <2>9. toModem'[1].mine
    BY <2>3, <2>4, <2>8 DEF CommandType
  <2> QED
    BY <2>1, <2>3, <2>6, <2>8, <2>9 DEF OneLeft
<1>15. CASE ModemReports
  <2>1. UNCHANGED <<s_readerClosed, sp_response, line, toModem>>
    BY <1>15 DEF ModemReports, Sends
  <2>2. outOfSync' = TRUE \/ (UNCHANGED outOfSync /\ input' = Append(input, Other))
    BY <1>15 DEF ModemReports, Sends
  <2>3. FinalsOf(Append(input, Other)) = FinalsOf(input)
        /\ \A i \in FinalsOf(input) : Append(input, Other)[i] = input[i]
    BY OtherTyped, FinalsOfAppend DEF ModemTyped
  <2> SUFFICES ASSUME UNCHANGED outOfSync, input' = Append(input, Other) PROVE Expected'
    BY <2>2 DEF Expected
  <2>4. OneLeft => OneLeft'
    BY <2>1, <2>3 DEF OneLeft
  <2>5. NoneLeft => NoneLeft'
    BY <2>1, <2>3 DEF NoneLeft
  <2> QED
    BY <2>1, <2>4, <2>5 DEF Expected
<1> QED
  BY <1>1, <1>2, <1>3, <1>4, <1>5, <1>6, <1>7, <1>8, <1>9, <1>10, <1>11, <1>12, <1>13, <1>14,
     <1>15

\* The response is filled in with the one answer.
LEMMA AnswerStep == Typed /\ OneReader /\ OnlyWhileWaiting /\ LineHeld /\ Expected /\ AnswersMatch /\ [Next]_vars => AnswersMatch'
<1> SUFFICES ASSUME Typed, OneReader, OnlyWhileWaiting, LineHeld, Expected, AnswersMatch, [Next]_vars PROVE AnswersMatch'
  OBVIOUS
<1> USE DEF Typed, pendingVars, commandVars, readerVars, stateVars, modemVars
<1>1. \/ UNCHANGED <<outOfSync, sp_response>>
      \/ (\E sms \in BOOLEAN : at_send_command(sms)) \/ HandshakeWrites \/ HandshakeTimesOut
      \/ CommandWakes \/ (\E r \in Readers : ReadLeftover(r))
      \/ (\E r \in Readers : processLine(r)) \/ at_open \/ ModemReports
  BY Zenon DEF Next, CommandStep, MainStep, ModemStep, ReaderStep, SetReaderClosed, Sends,
     initializeCallback, HandshakeWriteFails, SpuriousWakeup, HandshakeEnds, readline,
     ReaderEof, onReaderClosed, CloseFd, at_close, SetClosed, ReaderEnds, ResetClosed,
     RequestInitialize, waitForClose, ModemAnswers, ModemPrompts, ModemHangsUp, vars
<1>2. CASE UNCHANGED <<outOfSync, sp_response>>
  BY <1>2 DEF AnswersMatch
<1>3. ASSUME NEW sms \in BOOLEAN, at_send_command(sms) PROVE AnswersMatch'
  BY <1>3, NewIsNotNull DEF at_send_command, Issue, AnswersMatch
<1>4. CASE HandshakeWrites
  BY <1>4, NewIsNotNull DEF HandshakeWrites, Issue, AnswersMatch
<1>5. CASE HandshakeTimesOut
  BY <1>5 DEF HandshakeTimesOut, clearPendingCommand, NULL, AnswersMatch
<1>6. CASE CommandWakes
  <2>1. UNCHANGED outOfSync /\ (UNCHANGED sp_response \/ sp_response' = NULL)
    BY <1>6, Zenon DEF CommandWakes, clearPendingCommand
  <2> QED
    BY <2>1 DEF NULL, AnswersMatch
<1>7. ASSUME NEW r \in Readers, ReadLeftover(r) PROVE AnswersMatch'
  BY <1>7 DEF ReadLeftover, AnswersMatch
<1>8. ASSUME NEW r \in Readers, processLine(r) PROVE AnswersMatch'
  <2>1. UNCHANGED outOfSync
    BY <1>8 DEF processLine
  <2>2. CASE TakesFinal
    <3>1. sp_response' = [sp_response EXCEPT !.final = TRUE, !.mine = line.mine]
      BY <1>8, <2>2 DEF processLine
    <3>2. ~s_readerClosed /\ line.kind = "final"
      BY <1>8, <2>2 DEF processLine, TakesFinal, OneReader
    <3>3. ~outOfSync => line.mine
      BY <3>2 DEF Expected, OneLeft
    <3> QED
      BY <2>1, <3>1, <3>3 DEF ResponseTyped, AnswersMatch
  <2>3. CASE ~TakesFinal
    BY <1>8, <2>1, <2>3 DEF processLine, AnswersMatch
  <2> QED
    BY <2>2, <2>3
<1>9. CASE at_open
  BY <1>9 DEF at_open, NULL, AnswersMatch
<1>10. CASE ModemReports
  <2>1. UNCHANGED sp_response /\ (outOfSync' = TRUE \/ UNCHANGED outOfSync)
    BY <1>10, Zenon DEF ModemReports, Sends
  <2> QED
    BY <2>1, Zenon DEF AnswersMatch
<1> QED
  BY <1>1, <1>2, <1>3, <1>4, <1>5, <1>6, <1>7, <1>8, <1>9, <1>10

\* An answer reaches the command it is for, on a channel that is in sync.
THEOREM AnswersTheCommand == Spec => []AnswersMatch
<1>1. Init => LineHeld /\ Expected /\ AnswersMatch
  BY OtherTyped, FinalsOfNone DEF Init, LineHeld, Expected, OneLeft, NoneLeft, AnswersMatch, NULL
<1> QED
  BY <1>1, TypedInit, TypedStep, OneReaderInit, OneReaderStep, PendingInit, PendingStep,
     LineHeldStep, ExpectedStep, AnswerStep, PTL DEF Spec

=============================================================================
