------------------------------- MODULE AtChannel -------------------------------
(***************************************************************************)
(* The AT command channel of hardware/ril/reference-ril/atchannel.c with    *)
(* the program around it, reference-ril.c: the request thread of the radio  *)
(* daemon sends commands and waits for the answers, a reader thread takes   *)
(* lines from the stream, and the main loop opens the channel again         *)
(* whenever it was closed.  The modem is the environment.                   *)
(*                                                                          *)
(* s_commandmutex is held for one action at a time, except by a handshake   *)
(* between its attempts and while it sleeps.  All AT commands of the        *)
(* program are sent on the request thread, so there is one.                 *)
(*                                                                          *)
(* Lines that are neither a final response nor an SMS prompt go into the    *)
(* text of the response or to the handler of unsolicited lines, by the type *)
(* and the prefix of the command; both are left out, they are one kind.     *)
(***************************************************************************)
EXTENDS Integers, Sequences, FiniteSets

CONSTANTS
  Readers,                \* identities for reader threads
  HANDSHAKE_RETRY_COUNT,
  UnsolicitedFinals,      \* may an unsolicited line look like a final response?
  MaxLines,               \* bound: lines in the stream
  MaxUnanswered,          \* bound: commands the modem still knows of
  MaxInits                \* bound: initializeCallbacks requested

ASSUME AtAssumption ==
  /\ HANDSHAKE_RETRY_COUNT \in Nat \ {0}
  /\ MaxLines \in Nat /\ MaxUnanswered \in Nat \ {0} /\ MaxInits \in Nat
  /\ UnsolicitedFinals \in BOOLEAN

VARIABLES
  s_fd,            \* is the descriptor open?
  s_readerClosed,
  sp_response,     \* the response of the pending command, or NULL
  s_smsPDU,        \* is a message waiting for its prompt?
  command,         \* what the request thread is doing
  attempt,         \* attempts of the handshake so far, 0 outside of it
  signalled,       \* has s_commandcond been signalled to the request thread?
  reader,          \* [Readers -> what the reader thread is doing]
  line,            \* the line the reader has read
  leftover,        \* has s_ATBuffer a part of a line of the last channel?
  s_closed,
  sState,          \* is the radio state other than RADIO_STATE_UNAVAILABLE?
  mainLoop,        \* what the main loop is doing
  initRequests,    \* initializeCallbacks the request thread has to run
  toModem,         \* commands the modem has not answered, oldest first
  input,           \* lines from the modem, oldest first
  hungUp,          \* has the modem closed the stream?
  outOfSync        \* may lines of this channel be taken for the answer to another
                   \* command: has a handshake timed out, has the modem sent a line
                   \* that looks like an answer, was something left in s_ATBuffer?

pendingVars == <<sp_response, s_smsPDU>>
commandVars == <<command, attempt, signalled>>
readerVars == <<reader, line, leftover>>
stateVars == <<s_closed, sState, mainLoop, initRequests>>
modemVars == <<toModem, input, hungUp>>
vars == <<s_fd, s_readerClosed, pendingVars, commandVars, readerVars, stateVars,
          modemVars, outOfSync>>

NULL == [final |-> FALSE, mine |-> FALSE, set |-> FALSE]
at_response_new == [final |-> FALSE, mine |-> FALSE, set |-> TRUE]

Line(kind, mine) == [kind |-> kind, mine |-> mine]
Other == Line("other", FALSE)

Init ==
  /\ s_fd = FALSE /\ s_readerClosed = FALSE
  /\ sp_response = NULL /\ s_smsPDU = FALSE
  /\ command = "idle" /\ attempt = 0 /\ signalled = FALSE
  /\ reader = [r \in Readers |-> "none"] /\ line = Other /\ leftover = FALSE
  /\ s_closed = FALSE /\ sState = FALSE /\ mainLoop = "open" /\ initRequests = 0
  /\ toModem = <<>> /\ input = <<>> /\ hungUp = FALSE
  /\ outOfSync = FALSE

-----------------------------------------------------------------------------
(* Helpers. *)

\* The request thread keeps s_commandmutex between two attempts of a handshake
\* and while it sleeps after one.
CommandMutexFree == command \notin {"retry", "sleep"}

\* Mutant of Signal: nobody is woken.
SignalNobody == UNCHANGED signalled

\* pthread_cond_signal(&s_commandcond).
Signal == signalled' = (signalled \/ command = "wait")

\* Mutants of setRadioState: the closed channel is not looked at; the main loop
\* is woken by a change only.
SetRadioStateAnyway(available) ==
  /\ sState' = available
  /\ mainLoop' = IF mainLoop = "blocked" /\ (sState # available \/ s_closed)
                 THEN "waitForClose" ELSE mainLoop
SetRadioStateQuietly(available) ==
  LET new == available /\ ~s_closed
  IN /\ sState' = new
     /\ mainLoop' = IF mainLoop = "blocked" /\ sState # new
                    THEN "waitForClose" ELSE mainLoop

\* setRadioState: a closed channel forces RADIO_STATE_UNAVAILABLE, and any
\* change wakes the main loop.
setRadioState(available) ==
  LET new == available /\ ~s_closed
  IN /\ sState' = new
     /\ mainLoop' = IF mainLoop = "blocked" /\ (sState # new \/ s_closed)
                    THEN "waitForClose" ELSE mainLoop

\* An answer to any command but the newest one is not the one that is waited for.
Stale(lines) == [i \in 1 .. Len(lines) |-> [lines[i] EXCEPT !.mine = FALSE]]

\* The modem gets a command, and may forget the oldest one it has.
Receives(commands, new) ==
  LET all == Append(Stale(commands), new)
  IN IF Len(all) > MaxUnanswered THEN Tail(all) ELSE all

clearPendingCommand == sp_response' = NULL /\ s_smsPDU' = FALSE

-----------------------------------------------------------------------------
(* The request thread. *)

\* writeline: the channel is known to be closed, or the stream is broken.
WriteFails == ~s_fd \/ s_readerClosed \/ hungUp

\* The line is written, the response is allocated, and the thread waits.  A
\* stream whose other end is gone may still take the line.
Issue(sms) ==
  /\ s_fd /\ ~s_readerClosed
  /\ toModem' = IF hungUp THEN toModem
                ELSE Receives(toModem, [mine |-> TRUE,
                                        awaits |-> IF sms THEN "prompt" ELSE "answer"])
  /\ input' = Stale(input)
  /\ sp_response' = at_response_new
  /\ s_smsPDU' = sms
  /\ command' = "wait" /\ signalled' = FALSE

\* at_send_command and its variants: no time-out.  When writeline fails the
\* call returns with nothing changed.
at_send_command(sms) ==
  /\ command = "idle" /\ sp_response = NULL
  /\ Issue(sms)
  /\ UNCHANGED <<s_fd, s_readerClosed, attempt, readerVars, stateVars, hungUp, outOfSync>>

initializeCallback ==
  /\ command = "idle" /\ initRequests > 0
  /\ initRequests' = initRequests - 1
  /\ setRadioState(TRUE)
  /\ command' = "retry" /\ attempt' = 1
  /\ UNCHANGED <<s_fd, s_readerClosed, pendingVars, signalled, readerVars, s_closed,
                 modemVars, outOfSync>>

\* Mutant of NextAttempt: the attempts are not counted.
AttemptsForever == command' = "retry" /\ UNCHANGED attempt

\* The next attempt of the handshake, or the end of the last one.
NextAttempt ==
  IF attempt < HANDSHAKE_RETRY_COUNT
  THEN command' = "retry" /\ attempt' = attempt + 1
  ELSE command' = "idle" /\ attempt' = 0

HandshakeWrites ==
  /\ command = "retry"
  /\ Issue(FALSE)
  /\ UNCHANGED <<s_fd, s_readerClosed, attempt, readerVars, stateVars, hungUp, outOfSync>>

HandshakeWriteFails ==
  /\ command = "retry" /\ WriteFails
  /\ NextAttempt
  /\ UNCHANGED <<s_fd, s_readerClosed, pendingVars, signalled, readerVars, stateVars,
                 modemVars, outOfSync>>

\* Mutant of HandshakeTimesOut: the pending command is left behind.
HandshakeTimesOutPending ==
  /\ command = "wait" /\ attempt > 0
  /\ NextAttempt
  /\ outOfSync' = (outOfSync \/ ~sp_response.final)
  /\ UNCHANGED <<s_fd, s_readerClosed, pendingVars, signalled, readerVars, stateVars, modemVars>>

\* ETIMEDOUT: the command is forgotten, its answer is still to come, or came
\* when the time was already up.
HandshakeTimesOut ==
  /\ command = "wait" /\ attempt > 0
  /\ clearPendingCommand
  /\ NextAttempt
  /\ outOfSync' = (outOfSync \/ ~sp_response.final)
  /\ UNCHANGED <<s_fd, s_readerClosed, signalled, readerVars, stateVars, modemVars>>

\* The waiting thread goes on for a final response or a closed channel.
Finishes == sp_response.final \/ s_readerClosed

\* The condition returns and the state is looked at again.  A response that is
\* no longer there is dereferenced.
CommandWakes ==
  /\ command = "wait" /\ signalled
  /\ signalled' = FALSE
  /\ IF sp_response = NULL THEN command' = "crashed" /\ UNCHANGED <<pendingVars, attempt>>
     ELSE IF ~Finishes THEN UNCHANGED <<pendingVars, command, attempt>>
     ELSE /\ clearPendingCommand
          /\ IF attempt = 0 THEN command' = "idle" /\ UNCHANGED attempt
             ELSE IF s_readerClosed THEN NextAttempt
             ELSE command' = "sleep" /\ attempt' = 0
  /\ UNCHANGED <<s_fd, s_readerClosed, readerVars, stateVars, modemVars, outOfSync>>

\* The condition may return without having been signalled.
SpuriousWakeup ==
  /\ command = "wait" /\ ~signalled
  /\ signalled' = TRUE
  /\ UNCHANGED <<s_fd, s_readerClosed, pendingVars, command, attempt, readerVars,
                 stateVars, modemVars, outOfSync>>

\* The handshake has slept and unlocks s_commandmutex.
HandshakeEnds ==
  /\ command = "sleep"
  /\ command' = "idle"
  /\ UNCHANGED <<s_fd, s_readerClosed, pendingVars, attempt, signalled, readerVars,
                 stateVars, modemVars, outOfSync>>

-----------------------------------------------------------------------------
(* A reader thread. *)

Goes(r, to) == reader' = [reader EXCEPT ![r] = to]

\* The two lines of an incoming SMS are one here; they go to the handler of
\* unsolicited lines without s_commandmutex.
readline(r) ==
  /\ reader[r] = "readline" /\ input # <<>> /\ ~leftover
  /\ line' = Head(input) /\ input' = Tail(input)
  /\ \/ Goes(r, "processLine")
     \/ Head(input) = Other /\ Goes(r, "readline")
  /\ UNCHANGED <<s_fd, s_readerClosed, pendingVars, commandVars, leftover, stateVars,
                 toModem, hungUp, outOfSync>>

\* at_open does not empty s_ATBuffer: what is left there is put before the first
\* line of the new channel, or ends at its leading newline and is a line itself.
ReadLeftover(r) ==
  /\ reader[r] = "readline" /\ input # <<>> /\ leftover
  /\ leftover' = FALSE
  /\ \/ line' = Other /\ input' = Tail(input)
     \/ line' \in {Other, Line("final", FALSE)} /\ UNCHANGED input
  /\ Goes(r, "processLine")
  /\ outOfSync' = TRUE
  /\ UNCHANGED <<s_fd, s_readerClosed, pendingVars, commandVars, stateVars, toModem, hungUp>>

\* Mutant of TakesFinal: any line ends a command.
TakesAnyLine == sp_response # NULL

TakesFinal == sp_response # NULL /\ line.kind = "final"

\* An SMS prompt makes the reader write the message.
TakesPrompt == sp_response # NULL /\ line.kind = "prompt" /\ s_smsPDU

\* processLine: the pending command gets its final response, or the message is
\* written after its prompt, or the line is of no consequence.
processLine(r) ==
  /\ reader[r] = "processLine" /\ CommandMutexFree
  /\ Goes(r, "readline")
  /\ line' = Other
  /\ IF TakesFinal
     THEN /\ sp_response' = [sp_response EXCEPT !.final = TRUE, !.mine = line.mine]
          /\ Signal
     ELSE UNCHANGED <<sp_response, signalled>>
  /\ IF TakesPrompt
     THEN /\ s_smsPDU' = FALSE
          /\ toModem' = IF WriteFails \/ toModem = <<>> \/ Head(toModem).awaits # "pdu"
                        THEN toModem ELSE [toModem EXCEPT ![1].awaits = "answer"]
     ELSE UNCHANGED <<s_smsPDU, toModem>>
  /\ UNCHANGED <<s_fd, s_readerClosed, command, attempt, leftover, stateVars, input, hungUp,
                 outOfSync>>

ReaderEof(r) ==
  /\ reader[r] = "readline" /\ input = <<>> /\ hungUp
  /\ leftover' \in {leftover, TRUE}
  /\ Goes(r, "eof")
  /\ UNCHANGED <<s_fd, s_readerClosed, pendingVars, commandVars, line, stateVars,
                 modemVars, outOfSync>>

\* onReaderClosed, and the second half of at_close: the flag is set and the
\* request thread is woken.
SetReaderClosed(r, from, to) ==
  /\ reader[r] = from /\ CommandMutexFree
  /\ s_readerClosed' = TRUE
  /\ Signal
  /\ Goes(r, to)
  /\ UNCHANGED <<s_fd, pendingVars, command, attempt, line, leftover, stateVars,
                 modemVars, outOfSync>>

onReaderClosed(r) == ~s_readerClosed /\ SetReaderClosed(r, "eof", "onATReaderClosed")

\* at_close, called by onATReaderClosed.
CloseFd(r) ==
  /\ reader[r] = "onATReaderClosed"
  /\ s_fd' = FALSE
  /\ Goes(r, "at_close")
  /\ UNCHANGED <<s_readerClosed, pendingVars, commandVars, line, leftover, stateVars,
                 modemVars, outOfSync>>

at_close(r) == SetReaderClosed(r, "at_close", "closed")

SetClosed(r) ==
  /\ reader[r] = "closed"
  /\ s_closed' = TRUE
  /\ Goes(r, "setRadioState")
  /\ UNCHANGED <<s_fd, s_readerClosed, pendingVars, commandVars, line, leftover, sState,
                 mainLoop, initRequests, modemVars, outOfSync>>

ReaderEnds(r) ==
  /\ reader[r] = "setRadioState"
  /\ setRadioState(FALSE)
  /\ Goes(r, "none")
  /\ UNCHANGED <<s_fd, s_readerClosed, pendingVars, commandVars, line, leftover, s_closed,
                 initRequests, modemVars, outOfSync>>

ReaderStep(r) ==
  \/ readline(r) \/ ReadLeftover(r) \/ processLine(r) \/ ReaderEof(r)
  \/ onReaderClosed(r) \/ CloseFd(r) \/ at_close(r) \/ SetClosed(r) \/ ReaderEnds(r)

-----------------------------------------------------------------------------
(* The main loop. *)

\* Mutant of ResetClosed: s_closed keeps its value.
ResetNothing ==
  /\ mainLoop = "open"
  /\ mainLoop' = "at_open"
  /\ UNCHANGED <<s_fd, s_readerClosed, pendingVars, commandVars, readerVars, s_closed,
                 sState, initRequests, modemVars, outOfSync>>

\* The device was opened.
ResetClosed ==
  /\ mainLoop = "open"
  /\ s_closed' = FALSE
  /\ mainLoop' = "at_open"
  /\ UNCHANGED <<s_fd, s_readerClosed, pendingVars, commandVars, readerVars, sState,
                 initRequests, modemVars, outOfSync>>

NewReader == CHOOSE r \in Readers : reader[r] = "none"

\* at_open writes the state of the pending command without s_commandmutex.
at_open ==
  /\ mainLoop = "at_open" /\ \E r \in Readers : reader[r] = "none"
  /\ s_fd' = TRUE
  /\ s_readerClosed' = FALSE
  /\ sp_response' = NULL /\ s_smsPDU' = FALSE
  /\ Goes(NewReader, "readline")
  /\ toModem' = <<>> /\ input' = <<>> /\ hungUp' = FALSE /\ outOfSync' = FALSE
  /\ mainLoop' = "request"
  /\ UNCHANGED <<commandVars, line, leftover, s_closed, sState, initRequests>>

RequestInitialize ==
  /\ mainLoop = "request" /\ initRequests < MaxInits
  /\ initRequests' = initRequests + 1
  /\ mainLoop' = "waitForClose"
  /\ UNCHANGED <<s_fd, s_readerClosed, pendingVars, commandVars, readerVars, s_closed,
                 sState, modemVars, outOfSync>>

waitForClose ==
  /\ mainLoop = "waitForClose"
  /\ mainLoop' = IF s_closed THEN "open" ELSE "blocked"
  /\ UNCHANGED <<s_fd, s_readerClosed, pendingVars, commandVars, readerVars, s_closed,
                 sState, initRequests, modemVars, outOfSync>>

-----------------------------------------------------------------------------
(* The modem. *)

Sends(lines) ==
  /\ ~hungUp /\ Len(input) < MaxLines
  /\ input' = Append(input, lines)
  /\ UNCHANGED <<s_fd, s_readerClosed, pendingVars, commandVars, readerVars, stateVars,
                 hungUp>>

\* The final response of the oldest command.  An SMS may be refused at any time.
ModemAnswers ==
  /\ toModem # <<>>
  /\ Sends(Line("final", Head(toModem).mine))
  /\ toModem' = Tail(toModem)
  /\ UNCHANGED outOfSync

ModemPrompts ==
  /\ toModem # <<>> /\ Head(toModem).awaits = "prompt"
  /\ Sends(Line("prompt", Head(toModem).mine))
  /\ toModem' = [toModem EXCEPT ![1].awaits = "pdu"]
  /\ UNCHANGED outOfSync

\* An unsolicited line, which may look like a final response ("NO CARRIER").
ModemReports ==
  /\ s_fd
  /\ \/ Sends(Other) /\ UNCHANGED outOfSync
     \/ UnsolicitedFinals /\ Sends(Line("final", FALSE)) /\ outOfSync' = TRUE
  /\ UNCHANGED toModem

ModemHangsUp ==
  /\ s_fd /\ ~hungUp
  /\ hungUp' = TRUE
  /\ UNCHANGED <<s_fd, s_readerClosed, pendingVars, commandVars, readerVars, stateVars,
                 toModem, input, outOfSync>>

-----------------------------------------------------------------------------
CommandStep ==
  \/ initializeCallback \/ HandshakeWrites \/ HandshakeWriteFails \/ HandshakeTimesOut
  \/ CommandWakes \/ HandshakeEnds
MainStep ==
  \/ ResetClosed \/ at_open \/ RequestInitialize \/ waitForClose
ModemStep == ModemAnswers \/ ModemPrompts \/ ModemReports \/ ModemHangsUp

Next ==
  /\ command # "crashed"
  /\ \/ CommandStep \/ MainStep \/ ModemStep
     \/ SpuriousWakeup
     \/ \E sms \in BOOLEAN : at_send_command(sms)
     \/ \E r \in Readers : ReaderStep(r)

Spec == Init /\ [][Next]_vars

Runs(step) == command # "crashed" /\ step

\* Every thread that can run does, and the time of a handshake that keeps waiting
\* is up in the end.  Nothing obliges the modem to answer or to stay, nor anyone
\* to send a command.
Fairness ==
  /\ WF_vars(Runs(CommandStep))
  /\ WF_vars(Runs(HandshakeTimesOut))
  /\ WF_vars(Runs(MainStep))
  /\ \A r \in Readers : WF_vars(Runs(ReaderStep(r)))
FairSpec == Spec /\ Fairness

-----------------------------------------------------------------------------
(* Properties. *)

ReaderStates == {"none", "readline", "processLine", "eof", "onATReaderClosed", "at_close",
                 "closed", "setRadioState"}

AtTypeOK ==
  /\ s_fd \in BOOLEAN /\ s_readerClosed \in BOOLEAN /\ s_smsPDU \in BOOLEAN
  /\ sp_response \in [final : BOOLEAN, mine : BOOLEAN, set : BOOLEAN]
  /\ command \in {"idle", "retry", "wait", "sleep", "crashed"}
  /\ attempt \in 0 .. HANDSHAKE_RETRY_COUNT
  /\ signalled \in BOOLEAN
  /\ reader \in [Readers -> ReaderStates]
  /\ line \in [kind : {"final", "prompt", "other"}, mine : BOOLEAN]
  /\ s_closed \in BOOLEAN /\ sState \in BOOLEAN /\ leftover \in BOOLEAN
  /\ mainLoop \in {"open", "at_open", "request", "waitForClose", "blocked"}
  /\ initRequests \in 0 .. MaxInits
  /\ toModem \in Seq([mine : BOOLEAN, awaits : {"answer", "prompt", "pdu"}])
  /\ input \in Seq([kind : {"final", "prompt", "other"}, mine : BOOLEAN])
  /\ hungUp \in BOOLEAN /\ outOfSync \in BOOLEAN

\* readline "assumes it has exclusive read access to the FD": across closing
\* and reopening no two threads read, and a reader that reads has a channel.
ExclusiveReader ==
  /\ \A r, q \in Readers : reader[r] # "none" /\ reader[q] # "none" =>
       r = q \/ reader[r] = "setRadioState" \/ reader[q] = "setRadioState"
  /\ \A r \in Readers : reader[r] = "readline" => s_fd /\ ~s_readerClosed

\* AT_ERROR_COMMAND_PENDING cannot happen: whatever ended the last command (an
\* answer, a time-out, the end of the stream), it left nothing pending, neither
\* a response nor a message that a later prompt would send.
NothingLeftPending == command # "wait" => sp_response = NULL /\ ~s_smsPDU

\* The state of "the current pending command" is "protected by s_commandmutex":
\* nobody takes the response away from a waiting command.
ResponseProtected == command = "wait" => sp_response # NULL

\* An answer reaches the command it is for, as long as no handshake of the
\* channel timed out, no unsolicited line passed for an answer, and nothing
\* was left of the last channel.
AnswersMatch == sp_response.final /\ ~outOfSync => sp_response.mine

\* "If we're closed, the only reasonable state is RADIO_STATE_UNAVAILABLE",
\* although the request thread may set the state after the channel was closed.
ClosedIsUnavailable ==
  s_closed /\ (\A r \in Readers : reader[r] # "setRadioState") => ~sState

\* The end of the stream releases the command that waits for an answer.
ReleasedByClose == hungUp /\ command = "wait" ~> command # "wait"

\* A channel whose stream ended is opened again, unless the daemon crashes.
Reopened == hungUp ~> ~hungUp \/ command = "crashed"

\* A handshake returns even if the modem never says anything, unless the daemon
\* crashes.
HandshakeReturns == attempt > 0 ~> attempt = 0 \/ command = "crashed"

=============================================================================
