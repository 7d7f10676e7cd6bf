---------------------------- MODULE BufferOwnership ----------------------------
(***************************************************************************)
(* What the buffer queue of SurfaceTexture.cpp promises, without counts,    *)
(* threads or waiting: every slot has one owner, frames are shown in the    *)
(* order they were submitted, and a slot that was shown comes back.         *)
(***************************************************************************)
EXTENDS Naturals, Sequences

CONSTANT Slots

VARIABLES
  owner,  \* [Slots -> {"free", "producer", "fifo", "screen"}]
  fifo    \* the submitted slots, oldest first

ownVars == <<owner, fifo>>

Pending == {fifo[i] : i \in 1 .. Len(fifo)}
AllFree == [s \in Slots |-> "free"]

Init == owner = AllFree /\ fifo = <<>>

Give(s) ==
  /\ owner[s] = "free"
  /\ owner' = [owner EXCEPT ![s] = "producer"]
  /\ UNCHANGED fifo

Cancel(s) ==
  /\ owner[s] = "producer"
  /\ owner' = [owner EXCEPT ![s] = "free"]
  /\ UNCHANGED fifo

Submit(s) ==
  /\ owner[s] = "producer"
  /\ owner' = [owner EXCEPT ![s] = "fifo"]
  /\ fifo' = Append(fifo, s)

\* The only pending frame is dropped for a newer one.
Replace(s) ==
  /\ owner[s] = "producer" /\ Len(fifo) = 1
  /\ owner' = [owner EXCEPT ![s] = "fifo", ![Head(fifo)] = "free"]
  /\ fifo' = <<s>>

\* The oldest frame goes on screen and the one it replaces is free again.
Show ==
  /\ fifo # <<>>
  /\ owner' = [s \in Slots |-> IF s = Head(fifo) THEN "screen"
                               ELSE IF owner[s] = "screen" THEN "free"
                               ELSE owner[s]]
  /\ fifo' = Tail(fifo)

\* All slots are taken back; the pending frames are dropped.
Revoke == owner' = AllFree /\ fifo' = <<>>

\* All slots but the only pending one are taken back.
RevokeAllButPending ==
  /\ Len(fifo) = 1
  /\ owner' = [s \in Slots |-> IF s = Head(fifo) THEN "fifo" ELSE "free"]
  /\ UNCHANGED fifo

\* A resize: everything is taken back and one slot is given out.
RevokeAndGive(s) ==
  /\ fifo = <<>>
  /\ owner' = [AllFree EXCEPT ![s] = "producer"]
  /\ UNCHANGED fifo

Next ==
  \/ \E s \in Slots : Give(s) \/ Cancel(s) \/ Submit(s) \/ Replace(s) \/ RevokeAndGive(s)
  \/ Show \/ Revoke \/ RevokeAllButPending

Spec == Init /\ [][Next]_ownVars

=============================================================================
