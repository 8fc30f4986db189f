--------------------------- MODULE MCZbTransceiver ---------------------------
(***************************************************************************)
(* TLC instance of the two halves of zb_nrf_transceiver.c, which share no  *)
(* state: a behaviour is one of the calls of the ZBOSS thread (ZbRadio) or *)
(* one of reception (ZbRx, with fewer FIFO places than buffers, as in the  *)
(* code), chosen initially; the other half stands still.                   *)
(***************************************************************************)
EXTENDS ZbRadio, Sequences

CONSTANTS RxBuffers, FifoSize, MaxFrames, None

\* The null psdu is no buffer, no slot and no frame.
ASSUME RxAssumption ==
  /\ RxBuffers \in Nat \ {0}
  /\ FifoSize \in Nat \ {0}
  /\ MaxFrames \in Nat
  /\ None \notin Nat
  /\ None \notin [id : 1..MaxFrames, ackRequest : BOOLEAN, ackBit : BOOLEAN]

VARIABLES half, held, content, psdu, ack_fpb, fifo, last_frame_ack_fpb, acking, thread,
          slot, seen, queued, refusedSlots, delivered

rxHalf == <<held, content, psdu, ack_fpb, fifo, last_frame_ack_fpb, acking, thread,
            slot, seen, queued, refusedSlots, delivered>>
all == <<half, vars, rxHalf>>

Rx == INSTANCE ZbRx WITH refused <- refusedSlots

HalvesInit == half \in {"receive", "calls"} /\ Init /\ Rx!Init

Receiving(A) == half = "receive" /\ A /\ UNCHANGED <<half, vars>>
Calling(A) == half = "calls" /\ A /\ UNCHANGED <<half, rxHalf>>

HalvesNext == Receiving(Rx!Next) \/ Calling(Next)

\* The fairness of either specification, for its own half.
HalvesSpec ==
  /\ HalvesInit /\ [][HalvesNext]_all
  /\ WF_all(Receiving(Rx!Thread))
  /\ WF_all(Calling(Continue)) /\ WF_all(Calling(Interrupt))
  /\ WF_all(Calling(EnergyDetected))
  /\ SF_all(Calling(EdAccepted)) /\ SF_all(Calling(ReceiveAccepted))
  /\ SF_all(Calling(SleepAccepted))

\* The types of both halves.
TypesOK == half \in {"receive", "calls"} /\ TypeOK /\ Rx!TypeOK

\* Slots and driver buffers account for each other, whatever the interleaving.
SlotsAccounted == Rx!SlotsAccounted

\* Frames reach ZBOSS whole, in order, each with its own acknowledgement bit.
FramesIntact == Rx!FramesIntact

\* What is put into the FIFO is given to ZBOSS.
QueuedIsDelivered == Rx!QueuedIsDelivered
=============================================================================
