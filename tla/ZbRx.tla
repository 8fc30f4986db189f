-------------------------------- MODULE ZbRx --------------------------------
(***************************************************************************)
(* The receive path of lib/modules/zigbee/osif/zb_nrf_transceiver.c: the   *)
(* 802.15.4 driver's callbacks, which run in interrupt context, put each   *)
(* frame into a slot of nrf5_data.rx.frames and the slot into a FIFO; the  *)
(* ZBOSS thread takes slots from the FIFO in zb_trans_get_next_packet.     *)
(*                                                                         *)
(* The driver is external: it owns RxBuffers buffers, reports a frame only *)
(* in a buffer it has free and before the next one is acknowledged, and    *)
(* gets a buffer back through nrf_802154_buffer_free_raw.  An interrupt    *)
(* preempts the thread between any two of its steps and is never preempted *)
(* by it.                                                                  *)
(***************************************************************************)
EXTENDS Naturals, Sequences, FiniteSets

CONSTANTS
  RxBuffers,   \* CONFIG_NRF_802154_RX_BUFFERS, the driver's buffers
  FifoSize,    \* FIFO_QUEUE_SIZE
  MaxFrames,   \* bound on the frames received
  None         \* a null psdu

Buffers == 1..RxBuffers
SlotsPerBuffer == 1..RxBuffers  \* mutant: one slot for each driver buffer
Slots == 1..(RxBuffers + 1)
Frames == 1..MaxFrames

\* A frame asks for an acknowledgement or not; the acknowledgement that the
\* radio sends carries a frame-pending bit or not.
Content == [id : Frames, ackRequest : BOOLEAN, ackBit : BOOLEAN]

VARIABLES
  held,                \* driver buffers handed over and not yet freed
  content,             \* what each driver buffer holds
  psdu,                \* rx.frames[i].psdu
  ack_fpb,             \* rx.frames[i].ack_fpb
  fifo,                \* rx.fifo, slot numbers
  last_frame_ack_fpb,  \* rx.last_frame_ack_fpb
  acking,              \* the frame being acknowledged, or None
  thread,              \* the ZBOSS thread: "idle", "copy", "free" or "null"
  slot,                \* its rx_frame
  seen,                \* bound and history: frames on the air so far
  queued,              \* history: frames put into the FIFO, in order
  refused,             \* history: slots filled while the FIFO was full
  delivered            \* history: frames given to ZBOSS, in order

driverVars == <<held, content, acking, seen>>
rxVars == <<psdu, ack_fpb, fifo, last_frame_ack_fpb>>
threadVars == <<thread, slot, delivered>>
vars == <<driverVars, rxVars, threadVars, queued, refused>>

Init ==
  /\ held = {}
  /\ content = [b \in Buffers |-> None]
  /\ psdu = [i \in Slots |-> None]
  /\ ack_fpb = [i \in Slots |-> FALSE]
  /\ fifo = <<>>
  /\ last_frame_ack_fpb = FALSE
  /\ acking = None
  /\ thread = "idle"
  /\ slot = None
  /\ seen = 0
  /\ queued = <<>>
  /\ refused = {}
  /\ delivered = <<>>
-----------------------------------------------------------------------------
(* Interrupt context.                                                      *)

\* A frame that asks for it is being acknowledged: tx_ack_started.
TxAckStarted(bit) ==
  /\ acking = None
  /\ seen < MaxFrames
  /\ held # Buffers
  /\ seen' = seen + 1
  /\ acking' = [id |-> seen + 1, ackRequest |-> TRUE, ackBit |-> bit]
  /\ last_frame_ack_fpb' = bit
  /\ UNCHANGED <<held, content, psdu, ack_fpb, fifo, threadVars, queued, refused>>

FreeSlots == {i \in Slots : psdu[i] = None}
FirstFree == CHOOSE i \in FreeSlots : \A j \in FreeSlots : i <= j

\* received_timestamp_raw with frame f in buffer b.
StoreUnbounded(f, b) ==  \* mutant: the FIFO has no limit
  /\ psdu' = [psdu EXCEPT ![FirstFree] = b]
  /\ ack_fpb' = [ack_fpb EXCEPT ![FirstFree] = f.ackRequest /\ last_frame_ack_fpb]
  /\ last_frame_ack_fpb' = FALSE
  /\ fifo' = Append(fifo, FirstFree)
  /\ queued' = Append(queued, f)
  /\ UNCHANGED refused

StoreOverwrite(f, b) ==  \* mutant: a full FIFO forgets its oldest slot
  /\ psdu' = [psdu EXCEPT ![FirstFree] = b]
  /\ ack_fpb' = [ack_fpb EXCEPT ![FirstFree] = f.ackRequest /\ last_frame_ack_fpb]
  /\ last_frame_ack_fpb' = FALSE
  /\ fifo' = Append(IF Len(fifo) < FifoSize THEN fifo ELSE Tail(fifo), FirstFree)
  /\ queued' = Append(queued, f)
  /\ UNCHANGED refused

Store(f, b) ==
  /\ psdu' = [psdu EXCEPT ![FirstFree] = b]
  /\ ack_fpb' = [ack_fpb EXCEPT ![FirstFree] = f.ackRequest /\ last_frame_ack_fpb]
  /\ last_frame_ack_fpb' = FALSE
  /\ IF Len(fifo) < FifoSize
       THEN /\ fifo' = Append(fifo, FirstFree)
            /\ queued' = Append(queued, f)
            /\ UNCHANGED refused
       ELSE /\ refused' = refused \cup {FirstFree}  \* the answer is not looked at
            /\ UNCHANGED <<fifo, queued>>

ReceivedRaw(f) ==
  \E b \in Buffers \ held :
    /\ held' = held \cup {b}
    /\ content' = [content EXCEPT ![b] = f]
    /\ acking' = None
    /\ IF FreeSlots = {}
         THEN UNCHANGED <<rxVars, queued, refused>>  \* "Not enough rx frames allocated"
         ELSE Store(f, b)
    /\ UNCHANGED threadVars

\* The acknowledged frame is complete.
AckedReceived ==
  /\ acking # None
  /\ ReceivedRaw(acking)
  /\ UNCHANGED seen

\* A frame is complete that was not acknowledged: it did not ask for it, or
\* the radio did not answer it (another node's frame in promiscuous mode).
PlainReceived(request) ==
  /\ acking = None
  /\ seen < MaxFrames
  /\ seen' = seen + 1
  /\ ReceivedRaw([id |-> seen + 1, ackRequest |-> request, ackBit |-> FALSE])

ReceiveFailedKeep ==  \* mutant: the bit of the failed frame is kept
  /\ acking' = None
  /\ UNCHANGED <<held, content, seen, rxVars, threadVars, queued, refused>>

\* The frame, acknowledged or not, is lost on the way: receive_failed.
ReceiveFailed ==
  /\ last_frame_ack_fpb' = FALSE
  /\ acking' = None
  /\ UNCHANGED <<held, content, seen, psdu, ack_fpb, fifo, threadVars, queued, refused>>
-----------------------------------------------------------------------------
(* The ZBOSS thread, zb_trans_get_next_packet.                             *)

Receive ==
  /\ thread = "idle"
  /\ fifo # <<>>
  /\ slot' = Head(fifo)
  /\ fifo' = Tail(fifo)
  /\ thread' = "copy"
  /\ UNCHANGED <<driverVars, psdu, ack_fpb, last_frame_ack_fpb, delivered,
                 queued, refused>>

\* The frame, its metadata and its bit are copied into the ZBOSS buffer.
Copy ==
  /\ thread = "copy"
  /\ delivered' = Append(delivered, [frame |-> content[psdu[slot]], fpb |-> ack_fpb[slot]])
  /\ thread' = "free"
  /\ UNCHANGED <<driverVars, rxVars, slot, queued, refused>>

\* nrf_802154_buffer_free_raw: the driver may use the buffer at once.
Free ==
  /\ thread = "free"
  /\ held' = held \ {psdu[slot]}
  /\ thread' = "null"
  /\ UNCHANGED <<content, acking, seen, rxVars, slot, delivered, queued, refused>>

\* Only now is the slot free again.
Null ==
  /\ thread = "null"
  /\ psdu' = [psdu EXCEPT ![slot] = None]
  /\ slot' = None
  /\ thread' = "idle"
  /\ UNCHANGED <<driverVars, ack_fpb, fifo, last_frame_ack_fpb, delivered,
                 queued, refused>>
-----------------------------------------------------------------------------
Thread == Receive \/ Copy \/ Free \/ Null

Next ==
  \/ \E bit \in BOOLEAN : TxAckStarted(bit)
  \/ AckedReceived
  \/ \E request \in BOOLEAN : PlainReceived(request)
  \/ ReceiveFailed
  \/ Thread

\* ZBOSS asks for a packet whenever zb_trans_rx_pending says there is one.
Spec == Init /\ [][Next]_vars /\ WF_vars(Thread)
-----------------------------------------------------------------------------
TypeOK ==
  /\ held \subseteq Buffers
  /\ content \in [Buffers -> Content \cup {None}]
  /\ psdu \in [Slots -> Buffers \cup {None}]
  /\ ack_fpb \in [Slots -> BOOLEAN]
  /\ fifo \in Seq(Slots) /\ Len(fifo) <= FifoSize
  /\ last_frame_ack_fpb \in BOOLEAN
  /\ acking \in Content \cup {None}
  /\ thread \in {"idle", "copy", "free", "null"}
  /\ slot \in Slots \cup {None}
  /\ seen \in 0..MaxFrames
  /\ queued \in Seq(Content)
  /\ refused \subseteq Slots

FifoSlots == {fifo[i] : i \in 1..Len(fifo)}
Reading == IF thread \in {"copy", "free"} THEN {slot} ELSE {}

\* The driver never has a frame to report while every slot is taken: the one
\* slot more than the driver has buffers is needed, since between Free and Null
\* a buffer is back in use while its slot is not.  A buffer that is queued or
\* being copied is ours and in no other such slot.  A slot is out of circulation
\* only when the FIFO was full as its frame came: its buffer never returns.
SlotsAccounted ==
  /\ held # Buffers => FreeSlots # {}
  /\ \A i, j \in 1..Len(fifo) : i # j => fifo[i] # fifo[j]
  /\ FifoSlots \cap Reading = {}
  /\ \A i \in FifoSlots \cup Reading :
       /\ psdu[i] \in held
       /\ \A j \in FifoSlots \cup Reading \cup refused : i # j => psdu[i] # psdu[j]
  /\ {i \in Slots : psdu[i] # None} \ (FifoSlots \cup {slot}) = refused

\* ZBOSS is given the frames of the FIFO, unaltered, in order and each once, and
\* with the frame-pending status of the acknowledgement sent for this very
\* frame, FALSE when none was sent.
FramesIntact ==
  /\ Len(delivered) <= Len(queued)
  /\ \A i \in 1..Len(delivered) :
       /\ delivered[i].frame = queued[i]
       /\ delivered[i].fpb = delivered[i].frame.ackBit

\* Every frame put into the FIFO is given to ZBOSS.
QueuedIsDelivered ==
  \A n \in Frames : Len(queued) >= n ~> Len(delivered) >= n
=============================================================================
