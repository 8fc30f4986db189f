---------------------------- MODULE ZbRadioProofs ----------------------------
(***************************************************************************)
(* Proofs about ZbRadio, for any number of energy detections: its types,   *)
(* that the value zb_trans_get_rssi returns is at most one scan old, and   *)
(* that nrf5_data.state tells what the radio does.                         *)
(*                                                                         *)
(* Neither property is inductive.  Scans needs where the detection asked   *)
(* for last is: not yet accepted, being measured, abandoned or measured.   *)
(* Honest needs what the radio does while the thread is inside a call.     *)
(***************************************************************************)
EXTENDS MCZbTransceiver, TLAPS

\* The scan asked for last is measured as soon as the driver accepts it, and its
\* value is there as soon as the driver does something else.
Scans ==
  /\ scans \in {queries, queries + 1}
  /\ pc \in {"start", "delay", "wait", "read"} => scans = queries + 1
  /\ measuring = IF pc \in {"start", "delay"} THEN queries ELSE scans
  /\ value.scan \in {measuring - 1, measuring}
  /\ radio # "ed" /\ abandoned # "ed" => value.scan = measuring
  /\ queries - 1 <= answer /\ answer <= queries

\* Between calls the state is honest; inside a call the radio is where the call put
\* it, or where the interrupt that ended the abandoned operation did.
Honest ==
  /\ abandoned # "none" => pc = "in receive"
  /\ pc = "transmit" => state = "TRANSMIT"
  /\ pc = "transmit" \/ refused => radio # "transmit"
  /\ pc = "in receive" => radio \in {"receive", "ed"}
  /\ pc = "in sleep" => radio = "sleep"
  /\ pc \notin {"transmit", "in receive", "in sleep"} /\ ~refused =>
       /\ radio = "transmit" <=> state = "TRANSMIT"
       /\ state = "RECEIVE" => radio # "sleep"

Inv == TypeOK /\ Scans /\ Honest

LEMMA ValueTyped == TypeOK => value.scan \in 0..MaxScans
BY DEF TypeOK

LEMMA Initially == Init => Inv
<1> SUFFICES ASSUME Init PROVE Inv
  OBVIOUS
<1>1. TypeOK
  <2>1. 0 \in 0..MaxScans
    BY RadioAssumption
  <2>2. value \in [scan : 0..MaxScans, measured : BOOLEAN]
    BY <2>1, Zenon DEF Init
  <2>3. QED
    BY <2>1, <2>2 DEF Init, TypeOK
<1>2. value.scan = 0
  BY DEF Init
<1>3. Scans
  BY <1>2 DEF Init, Scans
<1>4. Honest
  BY DEF Init, Honest
<1>5. QED
  BY <1>1, <1>3, <1>4 DEF Inv

-----------------------------------------------------------------------------
(* One lemma for each part: a step keeps it.                                 *)

LEMMA TypeStep ==
  ASSUME Inv, [Next]_vars
  PROVE  TypeOK'
<1>0. TypeOK /\ Scans /\ value.scan \in 0..MaxScans
  BY ValueTyped DEF Inv
<1> USE RadioAssumption DEF TypeOK, edVars, history
<1>1. CASE StartGetRssi
  BY <1>0, <1>1 DEF StartGetRssi, Thread
<1>2. CASE EdAccepted
  BY <1>0, <1>2 DEF EdAccepted, Thread, Free
<1>3. CASE EdRefused
  BY <1>0, <1>3 DEF EdRefused, Thread
<1>4. CASE EdRetry
  BY <1>0, <1>4 DEF EdRetry, Thread
<1>5. CASE GetRssi
  BY <1>0, <1>5 DEF GetRssi, Thread
<1>6. CASE GetRssiTake
  BY <1>0, <1>6 DEF GetRssiTake, Thread
<1>7. CASE GetRssiRead
  BY <1>0, <1>7 DEF GetRssiRead, Thread, Scans
<1>8. CASE EnergyDetected
  BY <1>0, <1>8 DEF EnergyDetected
<1>9. CASE EdFailedRestart
  BY <1>0, <1>9 DEF EdFailedRestart, EdFailed
<1>10. CASE EdFailedForGood
  BY <1>0, <1>10 DEF EdFailedForGood, EdFailed
<1>11. CASE TransmitEnds
  BY <1>0, <1>11 DEF TransmitEnds
<1>12. CASE Transmit
  BY <1>0, <1>12 DEF Transmit, Thread
<1>13. CASE TransmitAccepted
  BY <1>0, <1>13 DEF TransmitAccepted, Thread, Free
<1>14. CASE TransmitRefused
  BY <1>0, <1>14 DEF TransmitRefused, Thread
<1>15. CASE TransmitInvalid
  BY <1>0, <1>15 DEF TransmitInvalid, Thread
<1>16. CASE EnterReceive
  BY <1>0, <1>16 DEF EnterReceive, Thread
<1>17. CASE ReceiveAccepted
  BY <1>0, <1>17 DEF ReceiveAccepted, Thread, Free
<1>18. CASE InReceive
  BY <1>0, <1>18 DEF InReceive, Thread
<1>19. CASE EnterSleep
  BY <1>0, <1>19 DEF EnterSleep, Thread
<1>20. CASE SleepAccepted
  BY <1>0, <1>20 DEF SleepAccepted, Thread, Free
<1>21. CASE InSleep
  BY <1>0, <1>21 DEF InSleep, Thread
<1>22. CASE UNCHANGED vars
  BY <1>0, <1>22 DEF vars
<1>23. QED
  BY <1>1, <1>2, <1>3, <1>4, <1>5, <1>6, <1>7, <1>8, <1>9, <1>10, <1>11,
     <1>12, <1>13, <1>14, <1>15, <1>16, <1>17, <1>18, <1>19, <1>20, <1>21,
     <1>22
  DEF Next, Continue, Interrupt

LEMMA ScansStep ==
  ASSUME Inv, [Next]_vars
  PROVE  Scans'
<1>0. TypeOK /\ Scans /\ value.scan \in Nat
  BY ValueTyped DEF Inv
<1> USE DEF TypeOK, Scans, edVars, history
<1>1. CASE StartGetRssi
  BY <1>0, <1>1 DEF StartGetRssi, Thread
<1>2. CASE EdAccepted
  BY <1>0, <1>2 DEF EdAccepted, Thread, Free
<1>3. CASE EdRefused
  BY <1>0, <1>3 DEF EdRefused, Thread
<1>4. CASE EdRetry
  BY <1>0, <1>4 DEF EdRetry, Thread
<1>5. CASE GetRssi
  BY <1>0, <1>5 DEF GetRssi, Thread
<1>6. CASE GetRssiTake
  BY <1>0, <1>6 DEF GetRssiTake, Thread
<1>7. CASE GetRssiRead
  BY <1>0, <1>7 DEF GetRssiRead, Thread
<1>8. CASE EnergyDetected
  BY <1>0, <1>8 DEF EnergyDetected
<1>9. CASE EdFailedRestart
  BY <1>0, <1>9 DEF EdFailedRestart, EdFailed
<1>10. CASE EdFailedForGood
  BY <1>0, <1>10 DEF EdFailedForGood, EdFailed
<1>11. CASE TransmitEnds
  BY <1>0, <1>11 DEF TransmitEnds
<1>12. CASE Transmit
  BY <1>0, <1>12 DEF Transmit, Thread
<1>13. CASE TransmitAccepted
  BY <1>0, <1>13 DEF TransmitAccepted, Thread, Free
<1>14. CASE TransmitRefused
  BY <1>0, <1>14 DEF TransmitRefused, Thread
<1>15. CASE TransmitInvalid
  BY <1>0, <1>15 DEF TransmitInvalid, Thread
<1>16. CASE EnterReceive
  BY <1>0, <1>16 DEF EnterReceive, Thread
<1>17. CASE ReceiveAccepted
  BY <1>0, <1>17 DEF ReceiveAccepted, Thread, Free
<1>18. CASE InReceive
  BY <1>0, <1>18 DEF InReceive, Thread
<1>19. CASE EnterSleep
  BY <1>0, <1>19 DEF EnterSleep, Thread
<1>20. CASE SleepAccepted
  BY <1>0, <1>20 DEF SleepAccepted, Thread, Free
<1>21. CASE InSleep
  BY <1>0, <1>21 DEF InSleep, Thread
<1>22. CASE UNCHANGED vars
  BY <1>0, <1>22 DEF vars
<1>23. QED
  BY <1>1, <1>2, <1>3, <1>4, <1>5, <1>6, <1>7, <1>8, <1>9, <1>10, <1>11,
     <1>12, <1>13, <1>14, <1>15, <1>16, <1>17, <1>18, <1>19, <1>20, <1>21,
     <1>22
  DEF Next, Continue, Interrupt

LEMMA HonestStep ==
  ASSUME Inv, [Next]_vars
  PROVE  Honest'
<1>0. TypeOK /\ Honest
  BY DEF Inv
<1> USE DEF TypeOK, Honest, edVars, history
<1>1. CASE StartGetRssi
  BY <1>0, <1>1 DEF StartGetRssi, Thread
<1>2. CASE EdAccepted
  BY <1>0, <1>2 DEF EdAccepted, Thread, Free
<1>3. CASE EdRefused
  BY <1>0, <1>3 DEF EdRefused, Thread
<1>4. CASE EdRetry
  BY <1>0, <1>4 DEF EdRetry, Thread
<1>5. CASE GetRssi
  BY <1>0, <1>5 DEF GetRssi, Thread
<1>6. CASE GetRssiTake
  BY <1>0, <1>6 DEF GetRssiTake, Thread
<1>7. CASE GetRssiRead
  BY <1>0, <1>7 DEF GetRssiRead, Thread
<1>8. CASE EnergyDetected
  BY <1>0, <1>8 DEF EnergyDetected
<1>9. CASE EdFailedRestart
  BY <1>0, <1>9 DEF EdFailedRestart, EdFailed
<1>10. CASE EdFailedForGood
  BY <1>0, <1>10 DEF EdFailedForGood, EdFailed
<1>11. CASE TransmitEnds
  BY <1>0, <1>11 DEF TransmitEnds
<1>12. CASE Transmit
  BY <1>0, <1>12 DEF Transmit, Thread
<1>13. CASE TransmitAccepted
  BY <1>0, <1>13 DEF TransmitAccepted, Thread, Free
<1>14. CASE TransmitRefused
  BY <1>0, <1>14 DEF TransmitRefused, Thread
<1>15. CASE TransmitInvalid
  BY <1>0, <1>15 DEF TransmitInvalid, Thread
<1>16. CASE EnterReceive
  BY <1>0, <1>16 DEF EnterReceive, Thread
<1>17. CASE ReceiveAccepted
  BY <1>0, <1>17 DEF ReceiveAccepted, Thread, Free
<1>18. CASE InReceive
  BY <1>0, <1>18 DEF InReceive, Thread
<1>19. CASE EnterSleep
  BY <1>0, <1>19 DEF EnterSleep, Thread
<1>20. CASE SleepAccepted
  BY <1>0, <1>20 DEF SleepAccepted, Thread, Free
<1>21. CASE InSleep
  BY <1>0, <1>21 DEF InSleep, Thread
<1>22. CASE UNCHANGED vars
  BY <1>0, <1>22 DEF vars
<1>23. QED
  BY <1>1, <1>2, <1>3, <1>4, <1>5, <1>6, <1>7, <1>8, <1>9, <1>10, <1>11,
     <1>12, <1>13, <1>14, <1>15, <1>16, <1>17, <1>18, <1>19, <1>20, <1>21,
     <1>22
  DEF Next, Continue, Interrupt

THEOREM InvariantHolds == Spec => []Inv
<1>1. Inv /\ [Next]_vars => Inv'
  BY TypeStep, ScansStep, HonestStep DEF Inv
<1>2. QED
  BY <1>1, Initially, PTL DEF Spec

\* The radio data of zb_nrf_transceiver.c keep their types, the binary semaphore
\* holds at most one token.
THEOREM TypeCorrect == Spec => []TypeOK
<1>1. Inv => TypeOK
  BY DEF Inv
<1>2. QED
  BY <1>1, InvariantHolds, PTL

\* zb_nrf_transceiver.c:137, 201: however detections are refused, restarted, abandoned
\* and failed, the value returned is of the scan just started or of the one before.
THEOREM OneScanBehind == Spec => []AtMostOneScanBehind
<1>1. Inv => AtMostOneScanBehind
  <2> SUFFICES ASSUME Inv PROVE AtMostOneScanBehind
    OBVIOUS
  <2>1. queries \in 0..MaxScans /\ Scans
    BY Zenon DEF Inv, TypeOK
  <2>2. QED
    BY <2>1 DEF Scans, AtMostOneScanBehind
<1>2. QED
  BY <1>1, InvariantHolds, PTL

\* zb_nrf_transceiver.c:347: between calls the state kept is the radio's, unless the
\* last request was a refused transmission.
THEOREM StateIsHonest == Spec => []StateHonest
<1>1. Inv => StateHonest
  BY DEF Inv, Honest, StateHonest
<1>2. QED
  BY <1>1, InvariantHolds, PTL

-----------------------------------------------------------------------------
(***************************************************************************)
(* The whole of zb_nrf_transceiver.c: in a behaviour of HalvesSpec the     *)
(* receiving half is one of ZbRx, whose invariant therefore holds in it.   *)
(***************************************************************************)
RxProofs == INSTANCE ZbRxProofs WITH refused <- refusedSlots

\* The parameters of the instance are those that ZbRxProofs asks for.
LEMMA RxParameters == RxProofs!Parameters
BY RxAssumption DEF RxProofs!Parameters, RxProofs!Content, RxProofs!Frames

\* Every step is one of ZbRx or leaves its variables alone.
LEMMA ReceivingInv == HalvesSpec => []RxProofs!IInv
<1>1. HalvesInit => RxProofs!IInv
  <2>1. HalvesInit => RxProofs!Init
    BY DEF HalvesInit, RxProofs!Init, Rx!Init, Rx!Buffers, Rx!Slots, RxProofs!Buffers,
           RxProofs!Slots
  <2>2. QED
    BY <2>1, RxParameters, RxProofs!InitIInv
<1>2. RxProofs!IInv /\ [HalvesNext]_all => RxProofs!IInv'
  <2>1. Rx!Next = RxProofs!Next
    BY DEF Rx!Next, RxProofs!Next, Rx!TxAckStarted, RxProofs!TxAckStarted, Rx!AckedReceived,
           RxProofs!AckedReceived, Rx!PlainReceived, RxProofs!PlainReceived,
           Rx!ReceivedRaw, RxProofs!ReceivedRaw, Rx!Store, RxProofs!Store, Rx!FirstFree,
           RxProofs!FirstFree, Rx!FreeSlots, RxProofs!FreeSlots, Rx!Slots,
           RxProofs!Slots, Rx!Buffers, RxProofs!Buffers, Rx!ReceiveFailed,
           RxProofs!ReceiveFailed, Rx!Thread, RxProofs!Thread, Rx!Receive,
           RxProofs!Receive, Rx!Copy, RxProofs!Copy, Rx!Free, RxProofs!Free, Rx!Null,
           RxProofs!Null, Rx!driverVars, RxProofs!driverVars, Rx!rxVars,
           RxProofs!rxVars, Rx!threadVars, RxProofs!threadVars
  <2>2. [HalvesNext]_all => [RxProofs!Next]_(RxProofs!vars)
    BY <2>1 DEF HalvesNext, Receiving, Calling, all, rxHalf, RxProofs!vars,
                RxProofs!driverVars, RxProofs!rxVars, RxProofs!threadVars
  <2>3. QED
    BY <2>2, RxParameters, RxProofs!NextIInv
<1>3. QED
  BY <1>1, <1>2, PTL DEF HalvesSpec

\* The invariant of ZbRx is enough for its two properties.
LEMMA ReceivingMeans == RxProofs!IInv => SlotsAccounted /\ FramesIntact
BY RxParameters, RxProofs!IInvMeans
   DEF SlotsAccounted, FramesIntact, Rx!SlotsAccounted, RxProofs!SlotsAccounted,
       Rx!FreeSlots, RxProofs!FreeSlots, Rx!Slots, RxProofs!Slots, Rx!Buffers,
       RxProofs!Buffers, Rx!FifoSlots, RxProofs!FifoSlots, Rx!Reading, RxProofs!Reading, Rx!FramesIntact, RxProofs!FramesIntact

\* The driver never has a frame for which there is no slot, no buffer is in two slots or
\* read after it was given back, and none is lost but to a full FIFO
\* (received_timestamp_raw and zb_trans_get_next_packet).
THEOREM EverySlotAccounted == HalvesSpec => []SlotsAccounted
BY ReceivingInv, ReceivingMeans, PTL

\* Frames reach ZBOSS unaltered, in order, each once and with the frame-pending bit of its
\* own acknowledgement (zb_trans_get_next_packet).
THEOREM EveryFrameIntact == HalvesSpec => []FramesIntact
BY ReceivingInv, ReceivingMeans, PTL

\* A step of one half keeps the types and the invariant of the other.
LEMMA CallingInv == HalvesSpec => [](half \in {"receive", "calls"} /\ Inv)
<1>1. HalvesInit => half \in {"receive", "calls"} /\ Inv
  BY Initially DEF HalvesInit
<1>2. /\ half \in {"receive", "calls"} /\ Inv
      /\ [HalvesNext]_all
      => (half \in {"receive", "calls"} /\ Inv)'
  <2>1. [HalvesNext]_all => half' = half /\ [Next]_vars
    BY DEF HalvesNext, Receiving, Calling, all
  <2>2. Inv /\ [Next]_vars => Inv'
    BY TypeStep, ScansStep, HonestStep DEF Inv
  <2>3. QED
    BY <2>1, <2>2
<1>3. QED
  BY <1>1, <1>2, PTL DEF HalvesSpec

\* Both halves of zb_nrf_transceiver.c keep their types: the FIFO never holds more slots
\* than FIFO_QUEUE_SIZE, the counters of scans and frames stay within their bounds.
THEOREM TypesCorrect == HalvesSpec => []TypesOK
<1>1. RxProofs!IInv => Rx!TypeOK
  BY DEF RxProofs!IInv, RxProofs!Types, RxProofs!TypeOK, Rx!TypeOK, Rx!Buffers,
         RxProofs!Buffers, Rx!Slots, RxProofs!Slots, Rx!Content, RxProofs!Content,
         Rx!Frames, RxProofs!Frames
<1>2. /\ half \in {"receive", "calls"} /\ Inv
      /\ RxProofs!IInv
      => TypesOK
  BY <1>1 DEF Inv, TypesOK
<1>3. QED
  BY <1>2, CallingInv, ReceivingInv, PTL
=============================================================================
