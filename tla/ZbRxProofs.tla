----------------------------- MODULE ZbRxProofs -----------------------------
(***************************************************************************)
(* Proofs about ZbRx, for any number of buffers, FIFO places and frames:   *)
(* slots and driver buffers account for each other, and frames reach ZBOSS *)
(* in order and intact.                                                    *)
(*                                                                         *)
(* That a slot is free when the driver has a frame is the pigeonhole: each *)
(* slot taken holds a buffer of its own, except one whose buffer has just  *)
(* been given back, and there is one slot more than buffers.  The order    *)
(* follows from where the frames queued and not yet delivered are.         *)
(***************************************************************************)
EXTENDS ZbRx, FiniteSetTheorems, WellFoundedInduction, TLAPS

\* The parameters: the null psdu is no buffer, no slot and no frame.
Parameters ==
  /\ RxBuffers \in Nat /\ FifoSize \in Nat /\ MaxFrames \in Nat
  /\ None \notin Nat /\ None \notin Content

Types ==
  /\ TypeOK
  /\ delivered \in Seq([frame : Content, fpb : BOOLEAN])

\* The slots with a buffer in them are those of the FIFO, the refused ones and the
\* thread's, and no two of these are the same.
Taken == {i \in Slots : psdu[i] # None}

SlotsPart ==
  /\ thread = "idle" <=> slot = None
  /\ slot # None => psdu[slot] # None /\ slot \notin FifoSlots /\ slot \notin refused
  /\ FifoSlots \cap refused = {}
  /\ Taken = FifoSlots \cup refused \cup ({slot} \ {None})
  /\ \A i, j \in 1..Len(fifo) : i # j => fifo[i] # fifo[j]

\* Their buffers are ours, each in one slot, except the one given back in a slot not
\* yet cleared.
Live == IF thread = "null" THEN Taken \ {slot} ELSE Taken

BuffersPart ==
  /\ \A i \in Live : psdu[i] \in held
  /\ \A i, j \in Live : psdu[i] = psdu[j] => i = j

\* The bit kept belongs to the acknowledgement under way.
BitPart ==
  /\ acking # None => acking.ackRequest /\ last_frame_ack_fpb = acking.ackBit
  /\ acking = None => ~last_frame_ack_fpb

\* The frame of slot i is f, with its bit.
Holds(i, f) == content[psdu[i]] = f /\ ack_fpb[i] = f.ackBit

\* The frames put into the FIFO are those delivered, the one being copied and those of
\* the FIFO, in this order.
Begun == Len(delivered) + (IF thread = "copy" THEN 1 ELSE 0)

OrderPart ==
  /\ Len(queued) = Begun + Len(fifo)
  /\ \A k \in 1..Len(fifo) : Holds(fifo[k], queued[Begun + k])
  /\ thread = "copy" => Holds(slot, queued[Begun])
  /\ \A k \in 1..Len(delivered) :
       delivered[k].frame = queued[k] /\ delivered[k].fpb = queued[k].ackBit

IInv == Types /\ SlotsPart /\ BuffersPart /\ BitPart /\ OrderPart

-----------------------------------------------------------------------------
\* A slot is free as long as the driver has a buffer: each slot taken, but for one
\* whose buffer has just been given back, holds a buffer of its own, and there is one
\* slot more than buffers.
LEMMA SlotForEveryBuffer ==
  ASSUME Parameters, TypeOK, SlotsPart, BuffersPart, held # Buffers
  PROVE  FreeSlots # {}
<1> SUFFICES ASSUME FreeSlots = {} PROVE FALSE
  OBVIOUS
<1>1. Taken = Slots
  BY DEF FreeSlots, Taken
<1>2. /\ IsFiniteSet(Buffers) /\ Cardinality(Buffers) = RxBuffers
      /\ IsFiniteSet(Slots) /\ Cardinality(Slots) = RxBuffers + 1
  BY FS_Interval DEF Parameters, Buffers, Slots
<1>3. IsFiniteSet(held) /\ Cardinality(held) < RxBuffers
  <2>1. held \in SUBSET Buffers
    BY DEF TypeOK
  <2>2. IsFiniteSet(held) /\ Cardinality(held) <= RxBuffers /\ Cardinality(held) # RxBuffers
    BY <1>2, <2>1, FS_Subset
  <2>3. Cardinality(held) \in Nat
    BY <2>2, FS_CardinalityType
  <2>4. QED
    BY <2>2, <2>3 DEF Parameters
<1>4. IsFiniteSet(Live) /\ Cardinality(Live) >= RxBuffers
  <2>1. CASE thread = "null"
    <3>1. Live = Slots \ {slot}
      BY <1>1, <2>1 DEF Live
    <3>2. /\ IsFiniteSet(Slots \ {slot})
          /\ Cardinality(Slots \ {slot}) = IF slot \in Slots THEN Cardinality(Slots) - 1 ELSE Cardinality(Slots)
      BY <1>2, FS_RemoveElement
    <3>3. QED
      BY <1>2, <3>1, <3>2 DEF Parameters
  <2>2. CASE thread # "null"
    BY <1>1, <1>2, <2>2 DEF Live, Parameters
  <2>3. QED
    BY <2>1, <2>2
<1> DEFINE f == [i \in Live |-> psdu[i]]
<1>5. f \in [Live -> held]
  BY DEF BuffersPart
<1>6. Cardinality(held) < Cardinality(Live)
  <2>1. Cardinality(Live) \in Nat /\ Cardinality(held) \in Nat
    BY <1>3, <1>4, FS_CardinalityType
  <2>2. QED
    BY <1>3, <1>4, <2>1 DEF Parameters
<1>7. PICK i, j \in Live : i # j /\ f[i] = f[j]
  <2> HIDE DEF f
  <2>1. QED
    BY <1>3, <1>4, <1>5, <1>6, FS_PigeonHole
<1>8. QED
  BY <1>7 DEF BuffersPart

\* The code's search for a free slot finds one if there is one.
LEMMA FirstFreeIsFree ==
  ASSUME Parameters, FreeSlots # {}
  PROVE  FirstFree \in FreeSlots
<1>1. FreeSlots \subseteq Nat
  BY DEF FreeSlots, Slots, Parameters
<1>2. PICK i \in FreeSlots : \A j \in FreeSlots : <<j, i>> \notin OpToRel(<, Nat)
  BY <1>1, NatLessThanWellFounded, WFMin
<1>3. \A j \in FreeSlots : i <= j
  <2>1. \A j \in FreeSlots : ~ j < i
    BY <1>1, <1>2 DEF OpToRel
  <2>2. QED
    BY <1>1, <2>1
<1>4. QED
  BY <1>3 DEF FirstFree

\* No buffer, frame or slot initially.
LEMMA InitIInv ==
  ASSUME Parameters
  PROVE  Init => IInv
<1> SUFFICES ASSUME Init PROVE IInv
  OBVIOUS
<1>1. Types
  <2>1. fifo \in Seq(Slots) /\ queued \in Seq(Content) /\ Len(fifo) <= FifoSize
    BY DEF Init, Parameters
  <2>2. delivered \in Seq([frame : Content, fpb : BOOLEAN])
    BY DEF Init
  <2>3. content \in [Buffers -> Content \cup {None}] /\ psdu \in [Slots -> Buffers \cup {None}]
    BY DEF Init
  <2>4. ack_fpb \in [Slots -> BOOLEAN] /\ last_frame_ack_fpb \in BOOLEAN
    BY DEF Init
  <2>5. seen \in 0..MaxFrames
    BY DEF Init, Parameters
  <2>6. QED
    BY <2>1, <2>2, <2>3, <2>4, <2>5 DEF Init, Types, TypeOK
<1>2. Taken = {} /\ FifoSlots = {}
  BY DEF Init, Taken, FifoSlots
<1>3. SlotsPart
  BY <1>2 DEF Init, SlotsPart
<1>4. BuffersPart
  BY <1>2 DEF Init, BuffersPart, Live
<1>5. BitPart
  BY DEF Init, BitPart
<1>6. OrderPart
  BY DEF Init, OrderPart, Begun
<1>7. QED
  BY <1>1, <1>3, <1>4, <1>5, <1>6 DEF IInv

-----------------------------------------------------------------------------
\* An acknowledgement begins: its bit is kept for its frame.
LEMMA TxAckStartedIInv ==
  ASSUME Parameters, IInv, NEW bit \in BOOLEAN, TxAckStarted(bit)
  PROVE  IInv'
<1> USE DEF TxAckStarted, threadVars
<1>0. acking' \in Content
  BY DEF IInv, Types, TypeOK, Content, Frames, Parameters
<1>1. Types'
  <2>2. seen' \in 0..MaxFrames
    BY DEF IInv, Types, TypeOK, Parameters
  <2>3. last_frame_ack_fpb' \in BOOLEAN
    OBVIOUS
  <2>4. QED
    BY <1>0, <2>2, <2>3 DEF IInv, Types, TypeOK
<1>2. SlotsPart' /\ BuffersPart'
  BY DEF IInv, SlotsPart, BuffersPart, Taken, FifoSlots, Live
<1>3. BitPart'
  <2>1. acking' # None
    BY <1>0 DEF Parameters
  <2>2. acking'.ackRequest /\ acking'.ackBit = bit
    OBVIOUS
  <2>3. QED
    BY <2>1, <2>2 DEF BitPart
<1>4. OrderPart'
  BY DEF IInv, OrderPart, Begun, Holds
<1>5. QED
  BY <1>1, <1>2, <1>3, <1>4 DEF IInv

\* A frame is lost on the way, and the bit with it.
LEMMA ReceiveFailedIInv ==
  ASSUME Parameters, IInv, ReceiveFailed
  PROVE  IInv'
<1> USE DEF ReceiveFailed, threadVars
<1>1. Types'
  BY DEF IInv, Types, TypeOK
<1>2. SlotsPart' /\ BuffersPart'
  BY DEF IInv, SlotsPart, BuffersPart, Taken, FifoSlots, Live
<1>3. BitPart'
  BY DEF BitPart
<1>4. OrderPart'
  BY DEF IInv, OrderPart, Begun, Holds
<1>5. QED
  BY <1>1, <1>2, <1>3, <1>4 DEF IInv

\* What an element more or less at the ends of a sequence does.
LEMMA AppendIs ==
  ASSUME NEW S, NEW q \in Seq(S), NEW e \in S
  PROVE  /\ Append(q, e) \in Seq(S) /\ Len(Append(q, e)) = Len(q) + 1
         /\ \A i \in 1..Len(q) : Append(q, e)[i] = q[i]
         /\ Append(q, e)[Len(q) + 1] = e
         /\ Len(q) \in Nat
OBVIOUS

\* A frame that the driver reports in buffer b: it finds a free slot, which joins the
\* FIFO or the refused.
LEMMA StoreIInv ==
  ASSUME Parameters, IInv, NEW f \in Content, NEW b \in Buffers \ held,
         f.ackBit = (f.ackRequest /\ last_frame_ack_fpb),
         held' = held \cup {b}, content' = [content EXCEPT ![b] = f], acking' = None,
         seen' \in 0..MaxFrames, Store(f, b), UNCHANGED threadVars,
         FirstFree \in FreeSlots
  PROVE  IInv'
<1>1. PICK s \in Slots : s = FirstFree /\ psdu[s] = None
  BY DEF FreeSlots
<1>2. /\ psdu' = [psdu EXCEPT ![s] = b]
      /\ ack_fpb' = [ack_fpb EXCEPT ![s] = f.ackRequest /\ last_frame_ack_fpb]
      /\ ~last_frame_ack_fpb' /\ last_frame_ack_fpb' = FALSE
      /\ thread' = thread /\ slot' = slot /\ delivered' = delivered
  BY <1>1 DEF Store, threadVars
<1>3. \/ /\ Len(fifo) < FifoSize /\ fifo' = Append(fifo, s)
         /\ queued' = Append(queued, f) /\ refused' = refused
      \/ refused' = refused \cup {s} /\ fifo' = fifo /\ queued' = queued
  BY <1>1 DEF Store
<1>4. b \in Buffers /\ b # None
  BY DEF Buffers, Parameters
<1>5. s \notin FifoSlots /\ s \notin refused /\ s # slot
  BY <1>1 DEF IInv, SlotsPart, Taken, Parameters, Slots
<1>6. Types'
  <2>1. held' \subseteq Buffers /\ content' \in [Buffers -> Content \cup {None}]
    BY <1>4 DEF IInv, Types, TypeOK
  <2>2. psdu' \in [Slots -> Buffers \cup {None}]
    BY <1>2, <1>4 DEF IInv, Types, TypeOK
  <2>3. ack_fpb' \in [Slots -> BOOLEAN] /\ last_frame_ack_fpb' \in BOOLEAN
    BY <1>2 DEF IInv, Types, TypeOK
  <2>4. fifo' \in Seq(Slots) /\ Len(fifo') <= FifoSize /\ queued' \in Seq(Content) /\ refused' \subseteq Slots
    <3>1. fifo \in Seq(Slots) /\ Len(fifo) <= FifoSize /\ queued \in Seq(Content) /\ refused \subseteq Slots
      BY DEF IInv, Types, TypeOK
    <3>2. CASE Len(fifo) < FifoSize /\ fifo' = Append(fifo, s) /\ queued' = Append(queued, f) /\ refused' = refused
      <4>1. fifo' \in Seq(Slots) /\ Len(fifo') = Len(fifo) + 1 /\ Len(fifo) \in Nat
        BY <3>1, <3>2, AppendIs
      <4>2. queued' \in Seq(Content)
        BY <3>1, <3>2, AppendIs
      <4>3. QED
        BY <3>1, <3>2, <4>1, <4>2 DEF Parameters
    <3>3. CASE refused' = refused \cup {s} /\ fifo' = fifo /\ queued' = queued
      BY <3>1, <3>3
    <3>4. QED
      BY <1>3, <3>2, <3>3
  <2>5. QED
    BY <1>2, <2>1, <2>2, <2>3, <2>4 DEF IInv, Types, TypeOK
<1>7. Taken' = Taken \cup {s} /\ s \notin Taken
  BY <1>1, <1>2, <1>4 DEF IInv, Types, TypeOK, Taken
<1>8. \/ FifoSlots' = FifoSlots \cup {s} /\ refused' = refused
      \/ FifoSlots' = FifoSlots /\ refused' = refused \cup {s}
  <2>1. fifo \in Seq(Slots)
    BY DEF IInv, Types, TypeOK
  <2>2. CASE fifo' = Append(fifo, s) /\ refused' = refused
    BY <2>1, <2>2, AppendIs DEF FifoSlots
  <2>3. CASE fifo' = fifo /\ refused' = refused \cup {s}
    BY <2>3 DEF FifoSlots
  <2>4. QED
    BY <1>3, <2>2, <2>3
<1>9. SlotsPart'
  <2>1. slot' # None => psdu'[slot'] # None /\ slot' \notin FifoSlots' /\ slot' \notin refused'
    BY <1>2, <1>5, <1>8 DEF IInv, Types, TypeOK, SlotsPart
  <2>2. FifoSlots' \cap refused' = {} /\ Taken' = FifoSlots' \cup refused' \cup ({slot'} \ {None})
    BY <1>2, <1>5, <1>7, <1>8 DEF IInv, SlotsPart
  <2>3. \A i, j \in 1..Len(fifo') : i # j => fifo'[i] # fifo'[j]
    <3>1. \A i \in 1..Len(fifo) : fifo[i] # s
      BY <1>5 DEF FifoSlots
    <3>2. fifo \in Seq(Slots) /\ \A i, j \in 1..Len(fifo) : i # j => fifo[i] # fifo[j]
      BY DEF IInv, Types, TypeOK, SlotsPart
    <3>3. CASE fifo' = Append(fifo, s)
      BY <3>1, <3>2, <3>3, AppendIs
    <3>4. QED
      BY <1>3, <3>2, <3>3
  <2>4. QED
    BY <1>2, <2>1, <2>2, <2>3 DEF IInv, SlotsPart
<1>10. Live' = Live \cup {s} /\ s \notin Live /\ Live \subseteq Slots
  BY <1>2, <1>5, <1>7 DEF Live, Taken
<1>11. /\ psdu'[s] = b /\ \A i \in Slots : i # s => psdu'[i] = psdu[i]
       /\ ack_fpb'[s] = f.ackBit /\ \A i \in Slots : i # s => ack_fpb'[i] = ack_fpb[i]
       /\ content'[b] = f /\ \A c \in held : content'[c] = content[c]
  BY <1>1, <1>2, <1>4 DEF IInv, Types, TypeOK
<1>12. BuffersPart'
  BY <1>10, <1>11 DEF IInv, BuffersPart
<1>13. BitPart'
  BY <1>2 DEF BitPart
<1>14. \A i \in Live : content'[psdu'[i]] = content[psdu[i]] /\ ack_fpb'[i] = ack_fpb[i]
  BY <1>10, <1>11 DEF IInv, BuffersPart
<1>15. Holds(s, f)'
  BY <1>11 DEF Holds
<1>16. OrderPart'
  <2>1. Begun' = Begun /\ Begun \in Nat
    BY <1>2 DEF Begun, IInv, Types
  <2>2. \A k \in 1..Len(fifo) : fifo[k] \in Live
    BY DEF IInv, Types, TypeOK, SlotsPart, FifoSlots, Live
  <2>3. thread = "copy" => slot \in Live /\ Begun \in 1..Len(queued)
    BY DEF IInv, Types, TypeOK, SlotsPart, Live, OrderPart, Begun
  <2>4. fifo \in Seq(Slots) /\ queued \in Seq(Content) /\ Len(delivered) \in Nat
    BY DEF IInv, Types, TypeOK
  <2>5. \A k \in 1..Len(queued) : queued[k] \in Content
    BY <2>4
  <2>6. Len(fifo) \in Nat /\ Len(queued) = Begun + Len(fifo) /\ Begun >= Len(delivered)
    BY <2>4 DEF IInv, OrderPart, Begun
  <2>7. \A k \in 1..Len(queued) : queued'[k] = queued[k]
    BY <1>3, <2>4, AppendIs
  <2>8. thread = "copy" => Holds(slot, queued[Begun])'
    BY <1>2, <1>14, <2>1, <2>3, <2>5, <2>7 DEF IInv, OrderPart, Holds
  <2>9. \A k \in 1..Len(fifo) :
          /\ fifo'[k] = fifo[k]
          /\ content'[psdu'[fifo[k]]] = queued'[Begun + k] /\ ack_fpb'[fifo[k]] = queued'[Begun + k].ackBit
    <3>1. \A k \in 1..Len(fifo) : fifo'[k] = fifo[k]
      BY <1>3, <2>4, AppendIs
    <3>2. \A k \in 1..Len(fifo) : Begun + k \in 1..Len(queued)
      BY <2>1, <2>6
    <3>3. QED
      BY <1>14, <2>2, <2>7, <3>1, <3>2 DEF IInv, OrderPart, Holds
  <2>10. QED
    <3>1. \A k \in 1..Len(fifo') : Holds(fifo[k], queued[Begun + k])'
      <4>1. CASE fifo' = fifo /\ queued' = queued
        BY <2>1, <2>9, <4>1 DEF Holds
      <4>2. CASE fifo' = Append(fifo, s) /\ queued' = Append(queued, f)
        <5>1. /\ Len(fifo') = Len(fifo) + 1 /\ fifo'[Len(fifo) + 1] = s
              /\ queued'[Begun + (Len(fifo) + 1)] = f
          BY <2>1, <2>4, <2>6, <4>2, AppendIs
        <5>2. \A k \in 1..Len(fifo') : k \in 1..Len(fifo) \/ k = Len(fifo) + 1
          BY <2>6, <5>1
        <5>3. \A k \in 1..Len(fifo) : Holds(fifo[k], queued[Begun + k])'
          BY <2>1, <2>9 DEF Holds
        <5>4. content'[psdu'[s]] = f /\ ack_fpb'[s] = f.ackBit
          BY <1>11
        <5>5. \A k \in {Len(fifo) + 1} : Holds(fifo[k], queued[Begun + k])'
          BY <2>1, <5>1, <5>4 DEF Holds
        <5>6. QED
          BY <5>2, <5>3, <5>5
      <4>3. QED
        BY <1>3, <4>1, <4>2
    <3>2. Len(queued') = Begun' + Len(fifo')
      BY <1>3, <2>1, <2>4, <2>6, AppendIs
    <3>3. \A k \in 1..Len(delivered') :
            delivered'[k].frame = queued'[k] /\ delivered'[k].fpb = queued'[k].ackBit
      BY <1>2, <2>1, <2>4, <2>6, <2>7 DEF IInv, OrderPart
    <3>4. QED
      BY <1>2, <2>8, <3>1, <3>2, <3>3 DEF OrderPart
<1>17. QED
  BY <1>6, <1>9, <1>12, <1>13, <1>16 DEF IInv

\* A frame has come, acknowledged or not.
LEMMA ReceivedIInv ==
  ASSUME Parameters, IInv, AckedReceived \/ \E request \in BOOLEAN : PlainReceived(request)
  PROVE  IInv'
<1>1. PICK f \in Content : /\ ReceivedRaw(f) /\ seen' \in 0..MaxFrames
                          /\ f.ackBit = (f.ackRequest /\ last_frame_ack_fpb)
  <2>1. CASE AckedReceived
    <3>1. acking \in Content /\ acking.ackRequest /\ last_frame_ack_fpb = acking.ackBit
      BY <2>1 DEF AckedReceived, IInv, Types, TypeOK, BitPart
    <3>2. acking.ackBit = (acking.ackRequest /\ last_frame_ack_fpb)
      BY <3>1 DEF IInv, Types, TypeOK
    <3>3. QED
      BY <2>1, <3>1, <3>2 DEF AckedReceived, IInv, Types, TypeOK
  <2>2. ASSUME NEW request \in BOOLEAN, PlainReceived(request)
        PROVE  \E f \in Content : /\ ReceivedRaw(f) /\ seen' \in 0..MaxFrames
                                 /\ f.ackBit = (f.ackRequest /\ last_frame_ack_fpb)
    <3> DEFINE f == [id |-> seen + 1, ackRequest |-> request, ackBit |-> FALSE]
    <3>1. seen' \in 0..MaxFrames /\ seen + 1 \in Frames
      BY <2>2 DEF PlainReceived, IInv, Types, TypeOK, Parameters, Frames
    <3>2. f \in Content
      BY <3>1 DEF Content
    <3>3. f.ackBit = FALSE /\ ~last_frame_ack_fpb
      BY <2>2 DEF PlainReceived, IInv, BitPart
    <3>4. ReceivedRaw(f)
      BY <2>2 DEF PlainReceived
    <3> HIDE DEF f
    <3>5. f.ackBit = (f.ackRequest /\ last_frame_ack_fpb)
      BY <3>3
    <3>6. QED
      BY <3>1, <3>2, <3>4, <3>5
  <2>3. QED
    BY <2>1, <2>2
<1>2. PICK b \in Buffers \ held :
        /\ held' = held \cup {b} /\ content' = [content EXCEPT ![b] = f] /\ acking' = None
        /\ IF FreeSlots = {} THEN UNCHANGED <<rxVars, queued, refused>> ELSE Store(f, b)
        /\ UNCHANGED threadVars
  BY <1>1 DEF ReceivedRaw
<1>3. FreeSlots # {}
  BY <1>2, SlotForEveryBuffer DEF IInv, Types
<1>4. FirstFree \in FreeSlots
  BY <1>3, FirstFreeIsFree
<1>5. QED
  BY <1>1, <1>2, <1>3, <1>4, StoreIInv

-----------------------------------------------------------------------------
\* The thread takes the slot at the head of the FIFO ...
LEMMA ReceiveIInv ==
  ASSUME Parameters, IInv, Receive
  PROVE  IInv'
<1> USE DEF Receive, driverVars
<1>1. /\ fifo \in Seq(Slots) /\ fifo # <<>> /\ Len(fifo) \in Nat \ {0}
      /\ Head(fifo) = fifo[1] /\ Head(fifo) \in Slots
      /\ Tail(fifo) \in Seq(Slots) /\ Len(Tail(fifo)) = Len(fifo) - 1
      /\ \A k \in 1..Len(Tail(fifo)) : Tail(fifo)[k] = fifo[k + 1]
  BY DEF IInv, Types, TypeOK
<1>2. slot' # None /\ slot = None
  BY <1>1 DEF IInv, SlotsPart, Parameters, Slots
<1>3. Types'
  BY <1>1 DEF IInv, Types, TypeOK, Parameters
<1>4. FifoSlots = FifoSlots' \cup {slot'} /\ slot' \notin FifoSlots'
  <2>1. slot' \notin FifoSlots'
    BY <1>1 DEF IInv, SlotsPart, FifoSlots
  <2>2. FifoSlots' \subseteq FifoSlots /\ slot' \in FifoSlots
    BY <1>1 DEF FifoSlots
  <2>3. FifoSlots \subseteq FifoSlots' \cup {slot'}
    <3>1. \A k \in 1..Len(fifo) : k = 1 \/ (k - 1 \in 1..Len(Tail(fifo)) /\ fifo[k] = Tail(fifo)[k - 1])
      BY <1>1
    <3>2. QED
      BY <1>1, <3>1 DEF FifoSlots
  <2>4. QED
    BY <2>1, <2>2, <2>3
<1>5. Taken' = Taken /\ refused' = refused
  BY DEF Taken
<1>6. SlotsPart'
  <2>1. psdu'[slot'] # None
    BY <1>4, <1>1 DEF IInv, SlotsPart, Taken
  <2>2. \A i, j \in 1..Len(fifo') : i # j => fifo'[i] # fifo'[j]
    BY <1>1 DEF IInv, SlotsPart
  <2>3. slot' \notin refused' /\ FifoSlots' \cap refused' = {}
    BY <1>4, <1>5 DEF IInv, SlotsPart
  <2>4. Taken' = FifoSlots' \cup refused' \cup ({slot'} \ {None})
    BY <1>2, <1>4, <1>5 DEF IInv, SlotsPart
  <2>5. QED
    BY <1>2, <1>4, <2>1, <2>2, <2>3, <2>4 DEF SlotsPart
<1>7. BuffersPart'
  BY <1>5 DEF IInv, BuffersPart, Live
<1>8. BitPart'
  BY DEF IInv, BitPart
<1>9. OrderPart'
  <2>1. Len(delivered) \in Nat /\ Begun = Len(delivered) /\ Begun' = Begun + 1
    BY DEF IInv, Types, Begun
  <2>2. Len(queued') = Begun' + Len(fifo')
    <3>1. queued' = queued /\ Len(fifo') = Len(fifo) - 1
      BY <1>1
    <3>2. Len(queued) = Begun + Len(fifo)
      BY DEF IInv, OrderPart
    <3>3. QED
      BY <1>1, <2>1, <3>1, <3>2
  <2>3. Holds(slot, queued[Begun])'
    BY <1>1, <2>1 DEF IInv, OrderPart, Holds
  <2>4. \A k \in 1..Len(fifo') : Holds(fifo[k], queued[Begun + k])'
    <3>1. \A k \in 1..Len(Tail(fifo)) : k + 1 \in 1..Len(fifo) /\ Begun' + k = Begun + (k + 1)
      BY <1>1, <2>1
    <3>2. QED
      BY <1>1, <3>1 DEF IInv, OrderPart, Holds
  <2>5. QED
    BY <2>2, <2>3, <2>4 DEF IInv, OrderPart
<1>10. QED
  BY <1>3, <1>6, <1>7, <1>8, <1>9 DEF IInv

\* ... gives its frame to ZBOSS, the next in order ...
LEMMA CopyIInv ==
  ASSUME Parameters, IInv, Copy
  PROVE  IInv'
<1> USE DEF Copy, driverVars, rxVars
<1> DEFINE e == [frame |-> content[psdu[slot]], fpb |-> ack_fpb[slot]]
<1>1. /\ Len(delivered) \in Nat /\ Begun = Len(delivered) + 1
      /\ queued \in Seq(Content) /\ Len(fifo) \in Nat /\ Len(queued) = Begun + Len(fifo)
  BY DEF IInv, Types, TypeOK, Begun, OrderPart
<1>2. queued[Begun] \in Content
  BY <1>1
<1>3. content[psdu[slot]] = queued[Begun] /\ ack_fpb[slot] = queued[Begun].ackBit
  BY DEF IInv, OrderPart, Holds
<1>4. slot \in Slots
  BY DEF IInv, Types, TypeOK, SlotsPart
<1>5. e \in [frame : Content, fpb : BOOLEAN]
  BY <1>2, <1>3, <1>4 DEF IInv, Types, TypeOK
<1>6. e.frame = queued[Begun] /\ e.fpb = queued[Begun].ackBit
  BY <1>3
<1>7. delivered' = Append(delivered, e)
  OBVIOUS
<1> HIDE DEF e
<1>8. /\ delivered' \in Seq([frame : Content, fpb : BOOLEAN]) /\ Len(delivered') = Len(delivered) + 1
      /\ \A k \in 1..Len(delivered) : delivered'[k] = delivered[k]
      /\ delivered'[Len(delivered) + 1] = e
  BY <1>5, <1>7, AppendIs DEF IInv, Types
<1>9. Types'
  BY <1>8 DEF IInv, Types, TypeOK
<1>10. SlotsPart' /\ BuffersPart'
  BY DEF IInv, SlotsPart, BuffersPart, Taken, FifoSlots, Live
<1>11. BitPart'
  BY DEF IInv, BitPart
<1>12. OrderPart'
  <2>1. Begun' = Begun /\ thread' # "copy"
    BY <1>1, <1>8 DEF Begun
  <2>2. \A k \in 1..Len(fifo') : Holds(fifo[k], queued[Begun + k])'
    BY <2>1 DEF IInv, OrderPart, Holds
  <2>3. \A k \in 1..Len(delivered') :
          delivered'[k].frame = queued'[k] /\ delivered'[k].fpb = queued'[k].ackBit
    <3>1. \A k \in 1..Len(delivered') : k \in 1..Len(delivered) \/ k = Len(delivered) + 1
      BY <1>1, <1>8
    <3>2. \A k \in 1..Len(delivered) :
            delivered'[k].frame = queued[k] /\ delivered'[k].fpb = queued[k].ackBit
      BY <1>8 DEF IInv, OrderPart
    <3>3. QED
      BY <1>1, <1>6, <1>8, <3>1, <3>2
  <2>4. QED
    BY <1>1, <2>1, <2>2, <2>3 DEF OrderPart
<1>13. QED
  BY <1>9, <1>10, <1>11, <1>12 DEF IInv

\* ... gives its buffer back, which nobody else has in a slot ...
LEMMA FreeIInv ==
  ASSUME Parameters, IInv, Free
  PROVE  IInv'
<1> USE DEF Free, rxVars
<1>1. Types'
  BY DEF IInv, Types, TypeOK
<1>2. SlotsPart'
  BY DEF IInv, SlotsPart, Taken, FifoSlots
<1>3. BuffersPart'
  <2>1. slot \in Live /\ Live' = Live \ {slot}
    BY DEF IInv, Types, TypeOK, SlotsPart, Live, Taken
  <2>2. QED
    BY <2>1 DEF IInv, BuffersPart
<1>4. BitPart'
  BY DEF IInv, BitPart
<1>5. OrderPart'
  BY DEF IInv, OrderPart, Begun, Holds
<1>6. QED
  BY <1>1, <1>2, <1>3, <1>4, <1>5 DEF IInv

\* ... and clears the slot.
LEMMA NullIInv ==
  ASSUME Parameters, IInv, Null
  PROVE  IInv'
<1> USE DEF Null, driverVars
<1>1. Types'
  BY DEF IInv, Types, TypeOK
<1>2. slot \in Slots /\ slot # None
  BY DEF IInv, Types, TypeOK, SlotsPart
<1>3. Taken' = Taken \ {slot} /\ FifoSlots' = FifoSlots
  BY <1>2 DEF IInv, Types, TypeOK, Taken, FifoSlots
<1>4. SlotsPart'
  BY <1>2, <1>3 DEF IInv, SlotsPart
<1>5. Live' = Live /\ \A i \in Live : psdu'[i] = psdu[i]
  BY <1>2, <1>3 DEF IInv, Types, TypeOK, Live, Taken
<1>6. BuffersPart'
  BY <1>5 DEF IInv, BuffersPart
<1>7. BitPart'
  BY DEF IInv, BitPart
<1>8. OrderPart'
  <2>1. \A k \in 1..Len(fifo) : fifo[k] \in Live
    BY <1>2 DEF IInv, Types, TypeOK, SlotsPart, FifoSlots, Live
  <2>2. QED
    BY <1>5, <2>1 DEF IInv, OrderPart, Begun, Holds
<1>9. QED
  BY <1>1, <1>4, <1>6, <1>7, <1>8 DEF IInv

-----------------------------------------------------------------------------
\* Every step keeps the invariant.
LEMMA NextIInv ==
  ASSUME Parameters
  PROVE  IInv /\ [Next]_vars => IInv'
<1> SUFFICES ASSUME IInv, [Next]_vars PROVE IInv'
  OBVIOUS
<1>1. CASE \E bit \in BOOLEAN : TxAckStarted(bit)
  BY <1>1, TxAckStartedIInv
<1>2. CASE AckedReceived \/ \E request \in BOOLEAN : PlainReceived(request)
  BY <1>2, ReceivedIInv
<1>3. CASE ReceiveFailed
  BY <1>3, ReceiveFailedIInv
<1>4. CASE Thread
  BY <1>4, ReceiveIInv, CopyIInv, FreeIInv, NullIInv DEF Thread
<1>5. CASE UNCHANGED vars
  <2> USE <1>5 DEF vars, driverVars, rxVars, threadVars
  <2>1. Types'
    BY DEF IInv, Types, TypeOK
  <2>2. SlotsPart' /\ BuffersPart' /\ BitPart'
    BY DEF IInv, SlotsPart, BuffersPart, BitPart, Taken, FifoSlots, Live
  <2>3. OrderPart'
    BY DEF IInv, OrderPart, Begun, Holds
  <2>4. QED
    BY <2>1, <2>2, <2>3 DEF IInv
<1>6. QED
  BY <1>1, <1>2, <1>3, <1>4, <1>5 DEF Next

\* The invariant holds throughout.
THEOREM RxInv ==
  ASSUME Parameters
  PROVE  Spec => []IInv
<1>1. Init => IInv
  BY InitIInv
<1>2. IInv /\ [Next]_vars => IInv'
  BY NextIInv
<1>3. QED
  BY <1>1, <1>2, PTL DEF Spec

\* What the properties say of a state that has the invariant.
LEMMA IInvMeans ==
  ASSUME Parameters, IInv
  PROVE  SlotsAccounted /\ FramesIntact
<1>1. held # Buffers => FreeSlots # {}
  BY SlotForEveryBuffer DEF IInv, Types
<1>2. Reading \subseteq Live /\ FifoSlots \subseteq Live /\ FifoSlots \cap Reading = {}
  BY DEF IInv, Types, TypeOK, SlotsPart, Reading, Live, Taken
<1>3. refused \subseteq Live
  BY DEF IInv, SlotsPart, Live
<1>4. {i \in Slots : psdu[i] # None} \ (FifoSlots \cup {slot}) = refused
  <2>1. None \notin refused
    <3>1. refused \subseteq Slots
      BY DEF IInv, Types, TypeOK
    <3>2. None \notin Slots
      BY DEF Parameters, Slots
    <3>3. QED
      BY <3>1, <3>2
  <2>2. Taken \ (FifoSlots \cup {slot}) = refused
    BY <2>1 DEF IInv, SlotsPart
  <2>3. QED
    BY <2>2 DEF Taken
<1>5. SlotsAccounted
  BY <1>1, <1>2, <1>3, <1>4 DEF IInv, SlotsPart, BuffersPart, SlotsAccounted
<1>6. FramesIntact
  <2>1. Len(delivered) \in Nat /\ Len(fifo) \in Nat
    BY DEF IInv, Types, TypeOK
  <2>2. Len(delivered) <= Len(queued)
    BY <2>1 DEF IInv, OrderPart, Begun
  <2>3. QED
    BY <2>2 DEF IInv, OrderPart, FramesIntact
<1>7. QED
  BY <1>5, <1>6

\* The driver never has a frame for which there is no slot, no buffer is in two slots or
\* read after it was given back, and none is lost but to a full FIFO
\* (received_timestamp_raw and zb_trans_get_next_packet).
THEOREM SlotsAreAccounted ==
  ASSUME Parameters
  PROVE  Spec => []SlotsAccounted
BY RxInv, IInvMeans, PTL

\* Frames reach ZBOSS unaltered, in order, each once and with the frame-pending bit of its
\* own acknowledgement (zb_trans_get_next_packet).
THEOREM FramesAreIntact ==
  ASSUME Parameters
  PROVE  Spec => []FramesIntact
BY RxInv, IInvMeans, PTL
=============================================================================
