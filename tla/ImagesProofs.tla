----------------------------- MODULE ImagesProofs -----------------------------
(*****************************************************************************)
(* Every invariant of the images, for every value of their constants.        *)
(*                                                                           *)
(* A step is one of a single image (StepsOfAll), so each image has its own   *)
(* part: its inductive invariant, that it holds initially, and that a step   *)
(* of the image keeps it.  AllInv is their conjunction; the theorems at the  *)
(* end read the properties off it.  The invariant of the light bulb is that  *)
(* of ZbLightBulbProofs, and its notions of a signal that promises an        *)
(* attempt (Promised) or cancels none (Calm) serve the light switch too.     *)
(*****************************************************************************)
EXTENDS MCImages, ZbLightBulbProofs, SequenceTheorems, WellFoundedInduction, TLAPS

\* A step is one of each image, or leaves its variables alone.
LEMMA StepsOfAll ==
  ASSUME [ImagesNext]_all
  PROVE  /\ [Next]_vars /\ [Switch!Next]_(Switch!vars) /\ [Find!Next]_(Find!vars)
         /\ [Lamp!Next]_(Lamp!vars) /\ [Coordinator!Next]_(Coordinator!vars)
         /\ [Transport!Next]_(Transport!vars) /\ [Heart!Next]_(Heart!vars)
         /\ [Advertiser!Next]_(Advertiser!vars) /\ [Scanner!Next]_(Scanner!vars)
         /\ [Tag!Next]_(Tag!vars)
         /\ image' = image
<1>1. CASE UNCHANGED all
  BY <1>1 DEF all, swVars, fiVars, laVars, coVars, hcVars, hrVars, adVars, scVars, taVars,
     Switch!vars, Find!vars, Lamp!vars, Coordinator!vars, Transport!vars, Heart!vars,
     Advertiser!vars, Scanner!vars, Tag!vars
<1>2. CASE ImagesNext
  BY <1>2 DEF ImagesNext, Of, swVars, fiVars, laVars, coVars, hcVars, hrVars, adVars,
     scVars, taVars, Switch!vars, Find!vars, Lamp!vars, Coordinator!vars, Transport!vars,
     Heart!vars, Advertiser!vars, Scanner!vars, Tag!vars
<1>3. QED
  BY <1>1, <1>2

-------------------------------------------------------------------------------
(* The heart rate sensor.                                                      *)

\* NimBLE does one thing at a time, and nothing while it is not synced; the handle kept is
\* that of the link.
HeartInv ==
    /\ Heart!TypeOK
    /\ ~(hr_stack.advertising /\ hr_stack.link)
    /\ hr_stack.advertising \/ hr_stack.link => hr_stack.synced
    /\ hr_stack.link => hr_conn_handle = "link"
    /\ Heart!HeartBeats /\ Heart!SubscriberIsThere /\ Heart!Reachable

LEMMA HeartInit == Heart!Init => HeartInv
<1> SUFFICES ASSUME Heart!Init PROVE HeartInv
  OBVIOUS
<1>1. hr_stack.synced = FALSE /\ hr_stack.advertising = FALSE /\ hr_stack.link = FALSE
  BY DEF Heart!Init
<1>2. QED
  BY <1>1 DEF Heart!Init, HeartInv, Heart!TypeOK, Heart!Timers, Heart!HeartBeats,
     Heart!SubscriberIsThere, Heart!Reachable

\* blehr_advertise, in a state in which there is no link.
LEMMA HeartAdvertises ==
  ASSUME NEW s \in [synced : BOOLEAN, advertising : BOOLEAN, link : BOOLEAN],
         ~s.advertising /\ ~s.link, Heart!blehr_advertise(s)
  PROVE  /\ hr_stack' \in [synced : BOOLEAN, advertising : BOOLEAN, link : BOOLEAN]
         /\ ~hr_stack'.link /\ (hr_stack'.advertising => hr_stack'.synced)
         /\ hr_gaveUp' \in BOOLEAN
         /\ hr_stack'.synced => hr_stack'.advertising \/ hr_gaveUp'
<1>1. hr_stack' \in {s, [s EXCEPT !.advertising = TRUE]}
  BY DEF Heart!blehr_advertise, Heart!Advertised
<1>2. hr_stack' # s => s.synced
  BY DEF Heart!blehr_advertise, Heart!Advertised
<1>3. hr_gaveUp' = (hr_stack'.synced /\ ~hr_stack'.advertising /\ ~hr_stack'.link)
  BY DEF Heart!blehr_advertise
<1>4. CASE hr_stack' = s
  BY <1>3, <1>4
<1>5. CASE hr_stack' = [s EXCEPT !.advertising = TRUE] /\ s.synced
  BY <1>3, <1>5
<1>6. QED
  BY <1>1, <1>2, <1>4, <1>5

LEMMA HeartStep ==
  ASSUME HeartInv, [Heart!Next]_(Heart!vars)
  PROVE  HeartInv'
<1> USE DEF HeartInv, Heart!TypeOK, Heart!Timers, Heart!HeartBeats, Heart!SubscriberIsThere,
        Heart!Reachable
<1>1. CASE Heart!ble_host_task
  BY <1>1 DEF Heart!ble_host_task
<1>2. CASE Heart!blehr_on_sync
  <2>1. CASE hr_fault' = TRUE /\ UNCHANGED <<hr_stack, hr_gaveUp>>
    BY <1>2, <2>1 DEF Heart!blehr_on_sync
  <2>2. CASE Heart!blehr_advertise([hr_stack EXCEPT !.synced = TRUE]) /\ UNCHANGED hr_fault
    BY <1>2, <2>2, HeartAdvertises DEF Heart!blehr_on_sync
  <2>3. QED
    BY <1>2, <2>1, <2>2 DEF Heart!blehr_on_sync
<1>3. ASSUME NEW established \in BOOLEAN, Heart!Connect(established)
      PROVE  HeartInv'
  <2>1. CASE established
    BY <1>3, <2>1 DEF Heart!Connect
  <2>2. CASE ~established
    <3>1. Heart!blehr_advertise([hr_stack EXCEPT !.advertising = FALSE])
      BY <1>3, <2>2 DEF Heart!Connect
    <3>2. ~hr_notify_state /\ ~hr_stack.link
      BY <1>3 DEF Heart!Connect
    <3>3. QED
      BY <1>3, <2>2, <3>1, <3>2, HeartAdvertises DEF Heart!Connect
  <2>3. QED
    BY <2>1, <2>2
<1>4. CASE Heart!AdvComplete
  BY <1>4, HeartAdvertises DEF Heart!AdvComplete
<1>5. ASSUME NEW cur_notify \in BOOLEAN, Heart!Subscribe(cur_notify)
      PROVE  HeartInv'
  <2>1. hr_timer' \in {"armed", "both"}
    BY <1>5 DEF Heart!Subscribe, Heart!blehr_tx_hrate_reset
  <2>2. hr_stack.link /\ hr_notify_state' \in BOOLEAN
    BY <1>5 DEF Heart!Subscribe
  <2>3. hr_conn_handle = "link"
    BY <1>5, <2>2 DEF Heart!Subscribe
  <2>4. UNCHANGED <<hr_stack, hr_fault, hr_gaveUp, hr_conn_handle>>
    BY <1>5 DEF Heart!Subscribe
  <2>5. QED
    BY <2>1, <2>2, <2>3, <2>4
<1>6. ASSUME NEW s \in [synced : BOOLEAN, advertising : BOOLEAN, link : BOOLEAN],
             ~s.advertising, Heart!Broken(s), UNCHANGED hr_fault
      PROVE  HeartInv'
  BY <1>6, HeartAdvertises DEF Heart!Broken, Heart!blehr_tx_hrate_reset
<1>7. CASE Heart!Disconnect
  BY <1>6, <1>7 DEF Heart!Disconnect
<1>8. CASE Heart!Reset
  <2> DEFINE down == [hr_stack EXCEPT !.synced = FALSE, !.advertising = FALSE]
  <2>1. CASE hr_stack.link
    BY <1>6, <1>8, <2>1 DEF Heart!Reset
  <2>2. CASE ~hr_stack.link
    BY <1>8, <2>2, HeartAdvertises DEF Heart!Reset
  <2>3. QED
    BY <2>1, <2>2
<1>9. CASE Heart!Expire
  BY <1>9 DEF Heart!Expire
<1>10. CASE Heart!blehr_tx_hrate
  BY <1>10 DEF Heart!blehr_tx_hrate
<1>11. CASE UNCHANGED Heart!vars
  BY <1>11 DEF Heart!vars
<1>12. QED
  BY <1>1, <1>2, <1>3, <1>4, <1>5, <1>7, <1>8, <1>9, <1>10, <1>11
     DEF Heart!Next, Heart!GapEvent, Heart!Beat, Heart!Halted

-------------------------------------------------------------------------------
(* The advertising samples.                                                    *)

AdvertiserInv == Advertiser!TypeOK /\ Advertiser!Reachable

LEMMA AdvertiserInit == Advertiser!Init => AdvertiserInv
<1> SUFFICES ASSUME Advertiser!Init PROVE AdvertiserInv
  OBVIOUS
<1>1. ad_stack.synced = FALSE
  BY DEF Advertiser!Init
<1>2. QED
  BY <1>1 DEF Advertiser!Init, AdvertiserInv, Advertiser!TypeOK, Advertiser!Reachable

\* What NimBLE makes of a request to advertise.
LEMMA AdvertiserStarted ==
  ASSUME NEW s \in [synced : BOOLEAN, advertising : BOOLEAN, link : BOOLEAN]
  PROVE  Advertiser!Started(s) \subseteq [synced : BOOLEAN, advertising : BOOLEAN, link : BOOLEAN]
BY DEF Advertiser!Started

LEMMA AdvertiserStep ==
  ASSUME AdvertiserInv, [Advertiser!Next]_(Advertiser!vars)
  PROVE  AdvertiserInv'
<1> DEFINE Stacks == [synced : BOOLEAN, advertising : BOOLEAN, link : BOOLEAN]
<1> USE DEF AdvertiserInv, Advertiser!TypeOK, Advertiser!Reachable, Advertiser!Runs
<1>1. ASSUME NEW s \in Stacks, Advertiser!advertise(s)
      PROVE  /\ ad_stack' \in Stacks /\ ad_gaveUp' \in BOOLEAN /\ ad_fault' = ad_fault
             /\ ad_stack'.synced => ad_stack'.advertising \/ ad_gaveUp'
  <2>1. ad_stack' \in Stacks
    BY <1>1, AdvertiserStarted DEF Advertiser!advertise
  <2>2. QED
    BY <1>1, <2>1 DEF Advertiser!advertise
<1>2. ASSUME NEW established \in BOOLEAN, Advertiser!Connect(established)
      PROVE  AdvertiserInv'
  BY <1>2 DEF Advertiser!Connect, Advertiser!PeripheralConnect, Advertiser!PairConnect
<1>3. CASE Advertiser!Disconnect
  BY <1>1, <1>3 DEF Advertiser!Disconnect, Advertiser!PeripheralDisconnect
<1>4. CASE Advertiser!AdvEnds
  BY <1>1, <1>4 DEF Advertiser!AdvEnds, Advertiser!AdvComplete
<1>5. ASSUME NEW action \in Advertiser!Actions, Advertiser!Passkey(action)
      PROVE  AdvertiserInv'
  BY <1>5 DEF Advertiser!Passkey
<1>6. CASE Advertiser!PairingEnds
  BY <1>6 DEF Advertiser!PairingEnds
<1>7. CASE Advertiser!on_sync
  <2> DEFINE up == [ad_stack EXCEPT !.synced = TRUE]
  <2>1. up \in Stacks
    OBVIOUS
  <2>2. CASE Advertiser!broadcast(up) /\ ad_sample = "ble_adv"
    <3>1. ad_stack' \in Stacks
      BY <2>1, <2>2, AdvertiserStarted DEF Advertiser!broadcast
    <3>2. QED
      BY <1>7, <2>2, <3>1 DEF Advertiser!on_sync, Advertiser!broadcast
  <2>3. CASE Advertiser!advertise(up)
    BY <1>1, <1>7, <2>1, <2>3 DEF Advertiser!on_sync
  <2>4. CASE ad_fault' = TRUE /\ UNCHANGED <<ad_stack, ad_gaveUp>>
    BY <1>7, <2>4 DEF Advertiser!on_sync
  <2>5. QED
    BY <1>7, <2>2, <2>3, <2>4 DEF Advertiser!on_sync
<1>8. CASE Advertiser!Reset
  <2> DEFINE down == [synced |-> FALSE, advertising |-> FALSE, link |-> FALSE]
  <2>0. down \in Stacks /\ down.synced = FALSE
    OBVIOUS
  <2>1. CASE ad_stack.link
    BY <1>1, <1>8, <2>0, <2>1 DEF Advertiser!Reset, Advertiser!PeripheralDisconnect
  <2>2. CASE ~ad_stack.link /\ ad_stack.advertising
    BY <1>1, <1>8, <2>0, <2>2 DEF Advertiser!Reset, Advertiser!AdvComplete
  <2>3. CASE ~ad_stack.link /\ ~ad_stack.advertising
    BY <1>8, <2>0, <2>3 DEF Advertiser!Reset
  <2>4. QED
    BY <2>1, <2>2, <2>3
<1>9. CASE Advertiser!ble_host_task
  BY <1>9 DEF Advertiser!ble_host_task
<1>10. CASE UNCHANGED Advertiser!vars
  BY <1>10 DEF Advertiser!vars
<1>11. QED
  BY <1>2, <1>3, <1>4, <1>5, <1>6, <1>7, <1>8, <1>9, <1>10
     DEF Advertiser!Next, Advertiser!Halted

-------------------------------------------------------------------------------
(* The tag samples.                                                            *)

ClockInv ==
    /\ Tag!ActivatedOnlyOnClock
    /\ ta_started => ta_clock = "running"

LEMMA ClockInit == Tag!Init => ClockInv
BY DEF Tag!Init, ClockInv, Tag!ActivatedOnlyOnClock

LEMMA ClockStep ==
  ASSUME ClockInv, [Tag!Next]_(Tag!vars)
  PROVE  ClockInv'
<1> USE DEF ClockInv, Tag!ActivatedOnlyOnClock
<1>1. CASE UNCHANGED <<ta_clock, ta_started, ta_nfct>>
  BY <1>1
<1>2. Tag!nfc_platform_setup \/ Tag!welcome_msg_encode \/ Tag!SetPayload
      => UNCHANGED <<ta_clock, ta_started, ta_nfct>>
  BY DEF Tag!nfc_platform_setup, Tag!welcome_msg_encode, Tag!AddRecord, Tag!EncodeRecord,
     Tag!EncodeFile, Tag!SetPayload, Tag!Hardware
<1>3. CASE Tag!StartEmulation
  BY <1>3 DEF Tag!StartEmulation
<1>4. CASE Tag!nfc_platform_event_handler
  BY <1>4 DEF Tag!nfc_platform_event_handler, Tag!FieldDetected, Tag!FieldLost
<1>5. CASE Tag!ClockRuns
  BY <1>5 DEF Tag!ClockRuns
<1>6. CASE Tag!clock_handler
  BY <1>6 DEF Tag!clock_handler
<1>7. Tag!Reader \/ UNCHANGED Tag!vars => UNCHANGED <<ta_clock, ta_started, ta_nfct>>
  BY DEF Tag!Reader, Tag!vars
<1>8. QED
  BY <1>1, <1>2, <1>3, <1>4, <1>5, <1>6, <1>7 DEF Tag!Next

\* How far into the buffer the records encoded so far reach.
Reached == IF ta_message.flags = <<>> THEN 0 ELSE Tag!Front + ta_message.len

Flagged ==
    \A i \in 1..Len(ta_message.flags) :
        ta_message.flags[i] = Tag!record_location_get(i - 1, Len(ta_records))

\* Where each step of welcome_msg_encode finds the message.
Encoding ==
    /\ ta_step = "add" => Len(ta_records) < Len(Texts)
    /\ ta_step \in {"setup", "add"} => ta_message.flags = <<>> /\ ta_message.len = 0
    /\ ta_step \in {"setup", "add", "encode", "file"} =>
          ~ta_message.ok /\ ta_message.written = Reached
    /\ ta_step = "setup" => ta_records = <<>>
    /\ ta_step = "encode" => Len(ta_message.flags) < Len(ta_records)
    /\ ta_step = "file" =>
          ta_type = "t4t" /\ Len(ta_message.flags) = Len(ta_records) /\ ta_records # <<>>
    /\ ta_step \in {"encode", "file"} =>
          /\ Len(ta_records) = Len(Texts)
          /\ Tag!Front + ta_message.len <= ta_size

MainTypes ==
    /\ ta_type \in {"t2t", "t4t"} /\ ta_step \in Tag!Steps /\ ta_size \in BufferSizes
    /\ ta_records \in Seq(Tag!RecordType) /\ Len(ta_records) <= Tag!MAX_REC_COUNT
    /\ ta_message \in [ok : BOOLEAN, flags : Seq(Tag!Flags), len : Nat, written : Nat]
    /\ Len(ta_message.flags) <= Len(ta_records)

\* What main keeps.
MainInv ==
    /\ MainTypes /\ Flagged /\ Encoding
    /\ ta_message.written <= ta_size
    /\ ta_message.ok =>
          /\ ta_message.len = ta_message.written
          /\ Len(ta_message.flags) = Len(Texts) /\ Len(ta_records) = Len(Texts)

\* What the interrupts keep.
HardwareTypes ==
    /\ ta_field \in BOOLEAN /\ ta_seen \in BOOLEAN
    /\ ta_started \in BOOLEAN /\ ta_field_led \in BOOLEAN
    /\ ta_clock \in {"off", "starting", "running"}
    /\ ta_nfct \in {"off", "sense", "activated"}

LEMMA TagTypes == Tag!TypeOK <=> MainTypes /\ HardwareTypes
BY DEF Tag!TypeOK, MainTypes, HardwareTypes

\* A record is encoded whole, or not to its end, and never past the room it is given.
LEMMA RecordFits ==
  ASSUME NEW rec \in Tag!RecordType, NEW room \in Nat, room < Wrap, Wrap \in Nat
  PROVE  LET one == Tag!nfc_ndef_record_encode(rec, TRUE, room)
         IN  /\ one.ok \in BOOLEAN /\ one.len \in Nat /\ one.written \in Nat
             /\ one.written <= room
             /\ one.ok => one.len = one.written /\ one.len > 0
             /\ ~one.ok => one.len = 0
<1> DEFINE header == Tag!record_header_size_calc(rec)
           payload == Tag!nfc_ndef_text_rec_payload_encode(rec, TRUE, Tag!Minus(room, header))
           one == Tag!nfc_ndef_record_encode(rec, TRUE, room)
<1>1. header \in Nat /\ header > 0
  BY DEF Tag!record_header_size_calc, Tag!RecordType
<1>2. one = IF header > room THEN Tag!Failed(0)
            ELSE IF ~payload.ok THEN Tag!Failed(header)
            ELSE Tag!Done(header + payload.len, header + payload.written)
  BY DEF Tag!nfc_ndef_record_encode
<1>3. /\ Tag!Minus(room, header) = room - header \/ header > room
      /\ header <= room => room - header \in Nat
  BY <1>1 DEF Tag!Minus
<1>4. PICK size \in Nat : size = 1 + rec.lang + rec.data
  BY DEF Tag!RecordType
<1>5. payload = IF rec.lang \notin 1..63 \/ rec.data = 0 THEN Tag!Failed(0)
                ELSE IF size > Tag!Minus(room, header) THEN Tag!Failed(0)
                ELSE Tag!Done(size, size)
  BY <1>4 DEF Tag!nfc_ndef_text_rec_payload_encode
<1> DEFINE Good == /\ one.ok \in BOOLEAN /\ one.len \in Nat /\ one.written \in Nat
                   /\ one.written <= room
                   /\ one.ok => one.len = one.written /\ one.len > 0
                   /\ ~one.ok => one.len = 0
<1> SUFFICES Good
  OBVIOUS
<1> HIDE DEF header, payload, one
<1>6. ASSUME NEW far \in 0..room, one = Tag!Failed(far)
      PROVE  Good
  BY <1>6 DEF Tag!Failed
<1>7. CASE header > room
  BY <1>2, <1>6, <1>7
<1>8. CASE header <= room /\ payload = Tag!Failed(0)
  <2>1. payload.ok = FALSE
    BY <1>8 DEF Tag!Failed
  <2>2. one = Tag!Failed(header)
    BY <1>1, <1>2, <1>8, <2>1
  <2>3. QED
    BY <1>1, <1>6, <1>8, <2>2
<1>9. CASE header <= room /\ payload = Tag!Done(size, size) /\ size <= room - header
  <2>0. PICK total \in Nat : total = header + size /\ total > 0 /\ total <= room
    BY <1>1, <1>9
  <2>1. payload.ok = TRUE /\ payload.len = size /\ payload.written = size
    BY <1>9 DEF Tag!Done
  <2>2. one = Tag!Done(total, total)
    BY <1>1, <1>2, <1>9, <2>0, <2>1
  <2>3. one.ok = TRUE /\ one.len = total /\ one.written = total
    BY <2>2 DEF Tag!Done
  <2>4. QED
    BY <2>0, <2>3
<1>10. \/ header > room
       \/ header <= room /\ payload = Tag!Failed(0)
       \/ header <= room /\ payload = Tag!Done(size, size) /\ size <= room - header
  BY <1>1, <1>3, <1>5
<1>11. QED
  BY <1>7, <1>8, <1>9, <1>10

LEMMA TagInit == Tag!Init => MainInv /\ HardwareTypes
<1> SUFFICES ASSUME Tag!Init PROVE MainInv /\ HardwareTypes
  OBVIOUS
<1>1. /\ ta_message.ok = FALSE /\ ta_message.flags = <<>>
      /\ ta_message.len = 0 /\ ta_message.written = 0
  BY DEF Tag!Init
<1>2. MainTypes
  <2>1. ta_message \in [ok : BOOLEAN, flags : Seq(Tag!Flags), len : Nat, written : Nat]
    BY DEF Tag!Init
  <2>2. ta_records \in Seq(Tag!RecordType) /\ Len(ta_records) = 0
    BY DEF Tag!Init
  <2>3. Len(ta_message.flags) = 0
    BY <1>1
  <2>4. ta_type \in {"t2t", "t4t"} /\ ta_step \in Tag!Steps /\ ta_size \in BufferSizes
    BY DEF Tag!Init, Tag!Steps
  <2>5. QED
    BY <2>1, <2>2, <2>3, <2>4 DEF MainTypes, Tag!MAX_REC_COUNT
<1>3. ta_size \in Nat
  BY ImagesAssumption DEF Tag!Init
<1>4. HardwareTypes
  BY DEF Tag!Init, HardwareTypes
<1>5. QED
  BY <1>1, <1>2, <1>3, <1>4 DEF Tag!Init, MainInv, Flagged, Encoding, Reached

LEMMA HardwareStep ==
  ASSUME HardwareTypes, [Tag!Next]_(Tag!vars)
  PROVE  HardwareTypes'
<1> USE DEF HardwareTypes
<1>1. Tag!nfc_platform_setup \/ Tag!welcome_msg_encode \/ Tag!SetPayload
      => UNCHANGED Tag!Hardware
  BY DEF Tag!nfc_platform_setup, Tag!welcome_msg_encode, Tag!AddRecord, Tag!EncodeRecord,
     Tag!EncodeFile, Tag!SetPayload
<1>2. CASE UNCHANGED Tag!Hardware
  BY <1>2 DEF Tag!Hardware
<1>3. CASE Tag!StartEmulation
  BY <1>3 DEF Tag!StartEmulation
<1>4. CASE Tag!Reader
  BY <1>4 DEF Tag!Reader
<1>5. CASE Tag!nfc_platform_event_handler
  BY <1>5 DEF Tag!nfc_platform_event_handler, Tag!nfc_callback, Tag!FieldDetected,
     Tag!FieldLost
<1>6. CASE Tag!ClockRuns
  BY <1>6 DEF Tag!ClockRuns
<1>7. CASE Tag!clock_handler
  BY <1>7 DEF Tag!clock_handler
<1>8. UNCHANGED Tag!vars => UNCHANGED Tag!Hardware
  BY DEF Tag!vars, Tag!Hardware
<1>9. QED
  BY <1>1, <1>2, <1>3, <1>4, <1>5, <1>6, <1>7, <1>8 DEF Tag!Next

LEMMA AddStep ==
  ASSUME MainInv, Tag!AddRecord
  PROVE  MainInv'
<1> DEFINE n == Len(ta_records) + 1
           rec == Tag!Record(Texts[n])
<1>1. ta_records \in Seq(Tag!RecordType) /\ n \in 1..Len(Texts) /\ Texts \in Seq(Nat \X Nat)
  BY ImagesAssumption DEF MainInv, MainTypes, Encoding, Tag!AddRecord
<1>2. rec \in Tag!RecordType
  <2>1. Texts[n] \in Nat \X Nat
    BY <1>1
  <2>2. QED
    BY <2>1 DEF Tag!Record, Tag!RecordType
<1>3. UNCHANGED <<ta_type, ta_size, ta_message>> /\ ta_step = "add"
  BY DEF Tag!AddRecord
<1>4. ta_message.flags = <<>> /\ ta_message.len = 0
  BY <1>3 DEF MainInv, Encoding
<1>5. Flagged'
  BY <1>3, <1>4 DEF Flagged
<1>6. Reached' = Reached
  BY <1>3 DEF Reached, Tag!Front
<1>7. CASE Len(ta_records) >= Tag!MAX_REC_COUNT
  <2>1. ta_records' = ta_records /\ ta_step' = "fail"
    BY <1>7 DEF Tag!AddRecord, Tag!nfc_ndef_msg_record_add
  <2>2. MainTypes' /\ Encoding'
    BY <1>3, <2>1 DEF MainInv, MainTypes, Encoding, Tag!Steps
  <2>3. QED
    BY <1>3, <1>5, <2>1, <2>2 DEF MainInv
<1>8. CASE ~(Len(ta_records) >= Tag!MAX_REC_COUNT)
  <2>1. /\ ta_records' = Append(ta_records, rec)
        /\ ta_step' = IF n = Len(Texts) THEN "encode" ELSE "add"
    BY <1>8 DEF Tag!AddRecord, Tag!nfc_ndef_msg_record_add
  <2>2. ta_records' \in Seq(Tag!RecordType) /\ Len(ta_records') = n
    BY <1>1, <1>2, <2>1
  <2>3. MainTypes'
    BY <1>3, <1>4, <1>8, <2>1, <2>2 DEF MainInv, MainTypes, Tag!Steps, Tag!MAX_REC_COUNT
  <2>4. ~ta_message.ok /\ ta_message.written = Reached
    BY <1>3 DEF MainInv, Encoding
  <2>5. Tag!Front' + ta_message'.len <= ta_size'
    BY <1>3, <1>4, ImagesAssumption
       DEF MainInv, MainTypes, Tag!Front, Tag!NFC_NDEF_FILE_NLEN_FIELD_SIZE
  <2>6. Encoding'
    BY <1>1, <1>3, <1>4, <1>6, <2>1, <2>2, <2>4, <2>5 DEF Encoding
  <2>7. QED
    BY <1>3, <1>5, <2>3, <2>4, <2>6 DEF MainInv
<1>9. QED
  BY <1>7, <1>8

LEMMA EncodeStep ==
  ASSUME MainInv, Tag!EncodeRecord
  PROVE  MainInv'
<1> DEFINE n == Len(ta_message.flags) + 1
           last == n = Len(ta_records)
           left == Tag!Minus(Tag!Room, ta_message.len)
           one == Tag!nfc_ndef_record_encode(ta_records[n], TRUE, left)
           flag == Tag!record_location_get(n - 1, Len(ta_records))
<1>1. UNCHANGED <<ta_type, ta_size, ta_records>> /\ ta_step = "encode"
  BY DEF Tag!EncodeRecord
<1>2. /\ ta_message' = [ok      |-> one.ok /\ last /\ ta_type = "t2t",
                        flags   |-> Append(ta_message.flags, flag),
                        len     |-> ta_message.len + one.len,
                        written |-> IF one.written = 0 THEN ta_message.written
                                    ELSE Tag!Front + ta_message.len + one.written]
      /\ ta_step' = IF ~one.ok THEN "fail" ELSE IF ~last THEN "encode"
                    ELSE IF ta_type = "t2t" THEN "payload" ELSE "file"
  BY DEF Tag!EncodeRecord, Tag!nfc_ndef_msg_encode
<1>3. /\ ta_message.flags \in Seq(Tag!Flags) /\ ta_message.len \in Nat
      /\ ta_message.written \in Nat /\ ta_message.written <= ta_size
      /\ ta_type \in {"t2t", "t4t"} /\ ta_size \in BufferSizes
      /\ ta_records \in Seq(Tag!RecordType) /\ Len(ta_records) <= Tag!MAX_REC_COUNT
  BY DEF MainInv, MainTypes
<1>4. /\ n \in 1..Len(ta_records) /\ Len(ta_records) = Len(Texts)
      /\ Tag!Front + ta_message.len <= ta_size
  BY <1>1, <1>3 DEF MainInv, Encoding
<1>5. ta_records[n] \in Tag!RecordType /\ flag \in Tag!Flags
  BY <1>3, <1>4 DEF Tag!record_location_get, Tag!Flags
<1>6. PICK front \in Nat : front = Tag!Front /\ (ta_type = "t2t" => front = 0) /\ front <= 2
  BY DEF Tag!Front, Tag!NFC_NDEF_FILE_NLEN_FIELD_SIZE
<1>7. /\ ta_size \in Nat /\ ta_size < Wrap /\ Wrap \in Nat
  BY <1>3, ImagesAssumption
<1>8. PICK room \in Nat : left = room /\ room < Wrap /\ front + ta_message.len + room = ta_size
  <2>1. Tag!Room = ta_size - front /\ ta_size - front \in Nat
    BY <1>3, <1>4, <1>6, <1>7 DEF Tag!Room, Tag!Minus
  <2>2. left = ta_size - front - ta_message.len /\ left \in Nat
    BY <1>3, <1>4, <1>6, <1>7, <2>1 DEF Tag!Minus
  <2> HIDE DEF left
  <2>3. left < Wrap /\ front + ta_message.len + left = ta_size
    BY <1>3, <1>6, <1>7, <2>2
  <2>4. QED
    BY <2>2, <2>3
<1>9. /\ one.ok \in BOOLEAN /\ one.len \in Nat /\ one.written \in Nat
      /\ one.written <= room
      /\ one.ok => one.len = one.written /\ one.len > 0
      /\ ~one.ok => one.len = 0
  BY <1>5, <1>7, <1>8, RecordFits
<1> HIDE DEF one, left
<1>10. PICK len \in Nat, written \in Nat :
         /\ len = ta_message.len + one.len
         /\ written = IF one.written = 0 THEN ta_message.written
                      ELSE front + ta_message.len + one.written
         /\ written <= ta_size
         /\ one.ok => written = front + len /\ front + len <= ta_size
  <2>1. CASE one.written = 0
    BY <1>3, <1>6, <1>7, <1>8, <1>9, <2>1
  <2>2. CASE one.written # 0
    <3>1. ta_message.len + one.len \in Nat /\ front + ta_message.len + one.written \in Nat
      BY <1>3, <1>6, <1>9
    <3>2. front + ta_message.len + one.written <= ta_size
      BY <1>3, <1>6, <1>7, <1>8, <1>9
    <3>3. one.ok => front + ta_message.len + one.written = front + (ta_message.len + one.len)
      BY <1>3, <1>6, <1>9
    <3>4. QED
      BY <2>2, <3>1, <3>2, <3>3
  <2>3. QED
    BY <2>1, <2>2
<1> DEFINE flags == Append(ta_message.flags, flag)
<1>11. /\ flags \in Seq(Tag!Flags) /\ Len(flags) = n /\ flags[n] = flag
       /\ \A i \in 1..(n - 1) : flags[i] = ta_message.flags[i]
  BY <1>3, <1>5
<1>12. /\ ta_message'.ok = (one.ok /\ last /\ ta_type = "t2t") /\ ta_message'.flags = flags
       /\ ta_message'.len = len /\ ta_message'.written = written
  BY <1>2, <1>6, <1>10
<1>13. MainTypes'
  <2>1. ta_message' \in [ok : BOOLEAN, flags : Seq(Tag!Flags), len : Nat, written : Nat]
    BY <1>2, <1>6, <1>9, <1>10, <1>11
  <2>2. ta_step' \in Tag!Steps
    BY <1>2 DEF Tag!Steps
  <2>3. QED
    BY <1>1, <1>3, <1>4, <1>11, <1>12, <2>1, <2>2 DEF MainTypes
<1>14. Flagged'
  <2>1. \A i \in 1..(n - 1) : flags[i] = Tag!record_location_get(i - 1, Len(ta_records))
    BY <1>11 DEF MainInv, Flagged
  <2>2. \A i \in 1..n : flags[i] = Tag!record_location_get(i - 1, Len(ta_records))
    BY <1>4, <1>11, <2>1
  <2>3. QED
    BY <1>1, <1>11, <1>12, <2>2 DEF Flagged
<1>15. Tag!Front' = front /\ (one.ok => Reached' = written)
  BY <1>1, <1>6, <1>10, <1>11, <1>12 DEF Reached, Tag!Front
<1>16. Encoding'
  <2>1. CASE ~one.ok
    BY <1>2, <2>1 DEF Encoding
  <2>2. CASE one.ok
    <3>1. /\ Len(ta_records') = Len(Texts) /\ Len(ta_message'.flags) = n
          /\ Tag!Front' + ta_message'.len <= ta_size' /\ ta_message'.written = Reached'
      BY <1>1, <1>4, <1>10, <1>11, <1>12, <1>15, <2>2
    <3>2. /\ ta_step' \in {"encode", "file"} => ~ta_message'.ok
          /\ ta_step' = "encode" => ~last
          /\ ta_step' = "file" => last /\ ta_type' = "t4t"
          /\ ta_step' \notin {"setup", "add"}
      BY <1>1, <1>2, <1>3, <1>12, <2>2
    <3>3. n \in 1..Len(ta_records') /\ ta_records' # <<>>
      BY <1>1, <1>3, <1>4
    <3>4. ta_step' = "encode" => Len(ta_message'.flags) < Len(ta_records')
      BY <1>1, <1>3, <3>1, <3>2, <3>3
    <3>5. QED
      BY <1>1, <3>1, <3>2, <3>3, <3>4 DEF Encoding
  <2>3. QED
    BY <2>1, <2>2
<1>17. ta_message'.ok => /\ ta_message'.len = ta_message'.written
                        /\ Len(ta_message'.flags) = Len(Texts) /\ Len(ta_records') = Len(Texts)
  <2> SUFFICES ASSUME one.ok, last, ta_type = "t2t"
               PROVE  /\ len = written /\ n = Len(Texts) /\ Len(ta_records') = Len(Texts)
    BY <1>11, <1>12
  <2>1. QED
    BY <1>1, <1>4, <1>6, <1>10
<1>18. QED
  BY <1>1, <1>10, <1>12, <1>13, <1>14, <1>16, <1>17 DEF MainInv

LEMMA FileStep ==
  ASSUME MainInv, Tag!EncodeFile
  PROVE  MainInv'
<1> DEFINE file == Tag!nfc_t4t_ndef_file_encode(ta_message.len)
<1>1. UNCHANGED <<ta_type, ta_size, ta_records>> /\ ta_step = "file"
  BY DEF Tag!EncodeFile
<1>2. /\ ta_message' = [ta_message EXCEPT !.ok = file.ok, !.len = IF file.ok THEN file.len ELSE @]
      /\ ta_step' = IF file.ok THEN "payload" ELSE "fail"
  BY DEF Tag!EncodeFile
<1>3. /\ ta_message \in [ok : BOOLEAN, flags : Seq(Tag!Flags), len : Nat, written : Nat]
      /\ ta_type = "t4t" /\ Len(ta_message.flags) = Len(ta_records) /\ ta_records # <<>>
      /\ ta_records \in Seq(Tag!RecordType) /\ Len(ta_records) = Len(Texts)
      /\ ta_message.written = Reached /\ ta_message.written <= ta_size
  BY <1>1 DEF MainInv, MainTypes, Encoding
<1>4. ta_message.written = ta_message.len + 2
  <2>1. ta_message.flags # <<>>
    <3>1. Len(ta_records) # 0
      BY <1>3
    <3>2. QED
      BY <1>3, <3>1
  <2>2. QED
    BY <1>3, <2>1 DEF Reached, Tag!Front, Tag!NFC_NDEF_FILE_NLEN_FIELD_SIZE
<1>5. file.ok \in BOOLEAN /\ (file.ok => file.len = ta_message.len + 2)
  BY <1>3 DEF Tag!nfc_t4t_ndef_file_encode, Tag!Failed, Tag!Done,
     Tag!NFC_NDEF_FILE_NLEN_FIELD_SIZE
<1> HIDE DEF file
<1>6. /\ ta_message' \in [ok : BOOLEAN, flags : Seq(Tag!Flags), len : Nat, written : Nat]
      /\ ta_message'.flags = ta_message.flags /\ ta_message'.written = ta_message.written
      /\ ta_message'.ok = file.ok
      /\ ta_message'.ok => ta_message'.len = ta_message'.written
  BY <1>2, <1>3, <1>4, <1>5
<1>7. MainTypes'
  BY <1>1, <1>2, <1>6 DEF MainInv, MainTypes, Tag!Steps
<1>8. Flagged'
  BY <1>1, <1>6 DEF MainInv, Flagged
<1>9. Encoding'
  BY <1>2, <1>5 DEF Encoding
<1>10. QED
  BY <1>1, <1>3, <1>6, <1>7, <1>8, <1>9 DEF MainInv

LEMMA MainStep ==
  ASSUME MainInv, [Tag!Next]_(Tag!vars)
  PROVE  MainInv'
<1>1. ASSUME UNCHANGED <<ta_type, ta_size, ta_records, ta_message>>, ta_step' \in Tag!Steps,
             \/ ta_step' \in {ta_step, "fail", "start", "ready"}
             \/ ta_step = "setup" /\ ta_step' = "add"
      PROVE  MainInv'
  <2>1. MainTypes' /\ Flagged'
    BY <1>1 DEF MainInv, MainTypes, Flagged
  <2>2. Reached' = Reached /\ Tag!Front' = Tag!Front
    BY <1>1 DEF Reached, Tag!Front
  <2>3. ta_step = "setup" => Len(ta_records) < Len(Texts)
    BY ImagesAssumption DEF MainInv, Encoding
  <2>4. Encoding'
    BY <1>1, <2>2, <2>3 DEF MainInv, Encoding
  <2>5. QED
    BY <1>1, <2>1, <2>4 DEF MainInv
<1>2. CASE Tag!nfc_platform_setup
  BY <1>1, <1>2 DEF Tag!nfc_platform_setup, Tag!Steps
<1>3. CASE Tag!SetPayload
  BY <1>1, <1>3 DEF Tag!SetPayload, Tag!Steps
<1>4. CASE Tag!StartEmulation
  BY <1>1, <1>4 DEF Tag!StartEmulation, Tag!Steps
<1>5. Tag!Reader \/ Tag!nfc_platform_event_handler \/ Tag!ClockRuns \/ Tag!clock_handler
      \/ UNCHANGED Tag!vars
      => UNCHANGED <<ta_type, ta_step, ta_size, ta_records, ta_message>>
  BY DEF Tag!Reader, Tag!nfc_platform_event_handler, Tag!ClockRuns, Tag!clock_handler, Tag!vars
<1>6. ta_step \in Tag!Steps
  BY DEF MainInv, MainTypes
<1>7. CASE UNCHANGED <<ta_type, ta_step, ta_size, ta_records, ta_message>>
  BY <1>1, <1>6, <1>7
<1>8. CASE Tag!welcome_msg_encode
  BY <1>8, AddStep, EncodeStep, FileStep DEF Tag!welcome_msg_encode
<1>9. QED
  BY <1>2, <1>3, <1>4, <1>5, <1>7, <1>8 DEF Tag!Next

LEMMA MainKeepsTheBuffer == MainInv => Tag!PayloadInBuffer
<1> SUFFICES ASSUME MainInv, ta_message.ok, NEW i \in 1..Len(Texts)
             PROVE  /\ ta_message.flags[i] \in {"LONE", "FIRST"} <=> i = 1
                    /\ ta_message.flags[i] \in {"LONE", "LAST"} <=> i = Len(Texts)
  BY DEF MainInv, Tag!PayloadInBuffer
<1>1. PICK count \in Nat : count = Len(Texts) /\ i \in 1..count
  BY ImagesAssumption
<1>2. ta_message.flags[i] = Tag!record_location_get(i - 1, count)
  BY <1>1 DEF MainInv, Flagged
<1>3. QED
  BY <1>1, <1>2 DEF Tag!record_location_get

-------------------------------------------------------------------------------
(* The HCI transport: an event is lost when both pools are full, and starved    *)
(* then says what holds the buffers of the reserved one.  No report ever does.  *)

HeldOK == hc_held \in [Transport!Pools -> [Transport!Uses -> Nat]]

ReportInv ==
    /\ HeldOK
    /\ hc_held["reserved"]["report"] = 0
    /\ "report" \notin hc_starved

\* A buffer for an event, or a discardable one for a report, keeps the invariant.
LEMMA HoldKeeps ==
  ASSUME ReportInv, NEW pool \in Transport!Pools, NEW use \in Transport!Uses,
         Transport!Hold(pool, use), use = "report" => pool # "reserved", UNCHANGED hc_starved
  PROVE  ReportInv'
<1>1. hc_held[pool] \in [Transport!Uses -> Nat] /\ hc_held[pool][use] + 1 \in Nat
  BY DEF ReportInv, HeldOK
<1>2. hc_held' = [hc_held EXCEPT ![pool] = [hc_held[pool] EXCEPT ![use] = hc_held[pool][use] + 1]]
  BY DEF Transport!Hold
<1>3. [hc_held[pool] EXCEPT ![use] = hc_held[pool][use] + 1] \in [Transport!Uses -> Nat]
  BY <1>1
<1>4. HeldOK'
  BY <1>2, <1>3 DEF ReportInv, HeldOK
<1>5. hc_held'["reserved"]["report"] = hc_held["reserved"]["report"]
  BY <1>1, <1>2 DEF ReportInv, HeldOK, Transport!Pools, Transport!Uses
<1>6. QED
  BY <1>4, <1>5 DEF ReportInv

\* What ble_transport_alloc_evt hands out.
LEMMA ReportsAreDiscardable ==
  /\ \A d \in BOOLEAN : Transport!ble_transport_alloc_evt(d) \subseteq Transport!Pools
  /\ \A use \in Transport!Uses :
        use = "report" =>
          "reserved" \notin Transport!ble_transport_alloc_evt(Transport!IsDiscardable(use))
BY DEF Transport!ble_transport_alloc_evt, Transport!IsDiscardable, Transport!Pools, Transport!Uses

LEMMA EventStep ==
  ASSUME ReportInv, Transport!DrainEvent
  PROVE  ReportInv'
<1> DEFINE use == Head(hc_inbox)
           pools == Transport!ble_transport_alloc_evt(Transport!IsDiscardable(use))
<1>1. use \in Transport!Uses /\ Transport!IsDiscardable(use) \in BOOLEAN
  BY DEF Transport!DrainEvent, Transport!IsDiscardable
<1>2. pools \subseteq Transport!Pools /\ (use = "report" => "reserved" \notin pools)
  BY <1>1, ReportsAreDiscardable
<1>3. CASE pools = {}
  <2>1. hc_held' = hc_held
    BY <1>3 DEF Transport!DrainEvent
  <2>2. hc_starved' = hc_starved \/ hc_starved' = {u \in Transport!Uses : hc_held["reserved"][u] > 0}
    BY <1>3 DEF Transport!DrainEvent
  <2>3. "report" \notin hc_starved'
    BY <2>2 DEF ReportInv
  <2>4. QED
    BY <2>1, <2>3 DEF ReportInv, HeldOK
<1>4. CASE pools # {}
  <2>1. \/ \E pool \in pools : Transport!Hold(pool, use) /\ UNCHANGED hc_starved
        \/ UNCHANGED <<hc_held, hc_starved>>
    BY <1>4 DEF Transport!DrainEvent
  <2>2. ASSUME NEW pool \in pools, Transport!Hold(pool, use), UNCHANGED hc_starved
        PROVE  ReportInv'
    BY <1>1, <1>2, <2>2, HoldKeeps
  <2>3. CASE UNCHANGED <<hc_held, hc_starved>>
    BY <2>3 DEF ReportInv, HeldOK
  <2>4. QED
    BY <2>1, <2>2, <2>3
<1>5. QED
  BY <1>3, <1>4

\* A NOP, made up in the drain or posted when the link layer is up.
LEMMA NopStep ==
  ASSUME ReportInv, UNCHANGED hc_starved,
         \/ UNCHANGED hc_held
         \/ \E pool \in Transport!ble_transport_alloc_evt(FALSE) : Transport!Hold(pool, "event")
  PROVE  ReportInv'
<1>1. CASE UNCHANGED hc_held
  BY <1>1 DEF ReportInv, HeldOK
<1>2. ASSUME NEW pool \in Transport!ble_transport_alloc_evt(FALSE), Transport!Hold(pool, "event")
      PROVE  ReportInv'
  BY <1>2, ReportsAreDiscardable, HoldKeeps DEF Transport!Uses
<1>3. QED
  BY <1>1, <1>2

LEMMA FreesStep ==
  ASSUME ReportInv, Transport!HostFrees
  PROVE  ReportInv'
<1>1. PICK pool \in Transport!Pools, use \in Transport!Uses :
          /\ hc_held[pool][use] > 0 /\ hc_held' = [hc_held EXCEPT ![pool][use] = @ - 1]
          /\ UNCHANGED hc_starved
  BY DEF Transport!HostFrees
<1>2. hc_held[pool] \in [Transport!Uses -> Nat] /\ hc_held[pool][use] - 1 \in Nat
  BY <1>1 DEF ReportInv, HeldOK
<1>3. hc_held' = [hc_held EXCEPT ![pool] = [hc_held[pool] EXCEPT ![use] = hc_held[pool][use] - 1]]
  BY <1>1
<1>4. [hc_held[pool] EXCEPT ![use] = hc_held[pool][use] - 1] \in [Transport!Uses -> Nat]
  BY <1>2
<1>5. HeldOK'
  BY <1>3, <1>4 DEF ReportInv, HeldOK
<1>6. hc_held'["reserved"]["report"] = hc_held["reserved"]["report"]
  BY <1>1, <1>2, <1>3 DEF ReportInv, HeldOK, Transport!Pools, Transport!Uses
<1>7. QED
  BY <1>1, <1>5, <1>6 DEF ReportInv

LEMMA PoolStep == ReportInv /\ [Transport!Next]_(Transport!vars) => ReportInv'
<1> SUFFICES ASSUME ReportInv, [Transport!Next]_(Transport!vars) PROVE ReportInv'
  OBVIOUS
<1>1. CASE Transport!PostNop
  BY <1>1, NopStep DEF Transport!PostNop
<1>2. CASE Transport!HostFrees
  BY <1>2, FreesStep
<1>3. CASE Transport!sdc_callback_
  <2>1. CASE Transport!DrainEvent
    BY <2>1, EventStep
  <2>2. CASE Transport!DrainNone
    BY <2>2, NopStep DEF Transport!DrainNone
  <2>3. CASE Transport!DrainData
    BY <2>3 DEF Transport!DrainData, ReportInv, HeldOK
  <2>4. QED
    BY <1>3, <2>1, <2>2, <2>3 DEF Transport!sdc_callback_
<1>4. CASE UNCHANGED <<hc_held, hc_starved>>
  BY <1>4 DEF ReportInv, HeldOK
<1>5. Transport!BringUp \/ Transport!Iso \/ (\E cmd \in Commands : Transport!Command(cmd))
      \/ Transport!ble_transport_to_ll_cmd_impl \/ Transport!ble_transport_to_ll_iso_impl
      \/ Transport!ble_transport_to_ll_acl_impl
      => UNCHANGED <<hc_held, hc_starved>>
  BY DEF Transport!BringUp, Transport!Iso, Transport!Command,
     Transport!ble_transport_to_ll_cmd_impl, Transport!ble_transport_to_ll_iso_impl,
     Transport!ble_transport_to_ll_acl_impl
<1>6. Transport!mpsl_lp_task \/ Transport!Drained \/ Transport!SWI03_IRQHandler
      \/ Transport!MpslWork \/ Transport!Halted
      \/ (\E msg \in Transport!Kinds : Transport!Controller(msg)) \/ UNCHANGED Transport!vars
      => UNCHANGED <<hc_held, hc_starved>>
  BY DEF Transport!mpsl_lp_task, Transport!Drained, Transport!SWI03_IRQHandler,
     Transport!MpslWork, Transport!Halted, Transport!Controller, Transport!vars
<1>7. QED
  BY <1>1, <1>2, <1>3, <1>4, <1>5, <1>6
     DEF Transport!Next, Transport!HostTask, Transport!LowPriority

\* The other types.
TransportTypes ==
    /\ hc_phase \in {Transport!Steps[i] : i \in DOMAIN Transport!Steps} \cup {"fault"}
    /\ hc_inbox \in Seq(Transport!Kinds) /\ Len(hc_inbox) <= MaxMessages
    /\ hc_swi \in BOOLEAN /\ hc_notified \in BOOLEAN /\ hc_cut \in BOOLEAN
    /\ hc_lp \in {"none", "waiting", "draining"}
    /\ hc_starved \in SUBSET Transport!Uses
    /\ hc_host \in [at : {"idle", "command", "iso"}, cmd : Commands \cup {"none"}]
    /\ hc_answer \in [cmd : Commands \cup {"none"}, event : {"complete", "status"},
                      length : {"set", "stale"}, called : BOOLEAN]

LEMMA TransportInit == Transport!Init => ReportInv /\ TransportTypes
<1> SUFFICES ASSUME Transport!Init PROVE ReportInv /\ TransportTypes
  OBVIOUS
<1>1. ReportInv
  BY DEF Transport!Init, ReportInv, HeldOK, Transport!Pools, Transport!Uses
<1>2. hc_phase = Transport!Steps[1] /\ 1 \in DOMAIN Transport!Steps
  BY DEF Transport!Init, Transport!Steps
<1>3. hc_inbox \in Seq(Transport!Kinds) /\ Len(hc_inbox) <= MaxMessages
  BY ImagesAssumption DEF Transport!Init
<1>4. hc_host \in [at : {"idle", "command", "iso"}, cmd : Commands \cup {"none"}]
  BY DEF Transport!Init, Transport!Idle
<1>5. hc_answer \in [cmd : Commands \cup {"none"}, event : {"complete", "status"},
                     length : {"set", "stale"}, called : BOOLEAN]
  BY DEF Transport!Init
<1>6. QED
  BY <1>1, <1>2, <1>3, <1>4, <1>5 DEF Transport!Init, TransportTypes

\* The bring-up goes from one of its steps to another.
LEMMA StepFollows ==
  ASSUME NEW s \in {"grtc", "lock", "task", "mpsl", "sdc", "enable"}
  PROVE  Transport!After(s) \in {Transport!Steps[i] : i \in DOMAIN Transport!Steps}
<1>1. DOMAIN Transport!Steps = 1..8 /\ Transport!Steps[8] = "up"
  BY DEF Transport!Steps
<1>2. \E i \in 1..8 : Transport!Steps[i] = s
  <2>1. /\ Transport!Steps[1] = "grtc" /\ Transport!Steps[2] = "lock" /\ Transport!Steps[3] = "task"
        /\ Transport!Steps[4] = "mpsl" /\ Transport!Steps[5] = "sdc" /\ Transport!Steps[6] = "enable"
    BY DEF Transport!Steps
  <2>2. QED
    BY <2>1
<1> DEFINE i == CHOOSE i \in DOMAIN Transport!Steps : Transport!Steps[i] = s
<1>3. i \in 1..8 /\ Transport!Steps[i] = s
  BY <1>1, <1>2
<1> HIDE DEF i
<1>4. i + 1 \in 1..8
  BY <1>1, <1>3
<1>5. QED
  BY <1>1, <1>4 DEF Transport!After, i

LEMMA TransportStep ==
  ASSUME TransportTypes, [Transport!Next]_(Transport!vars)
  PROVE  TransportTypes'
<1> USE DEF TransportTypes
<1>1. CASE Transport!BringUp
  BY <1>1, StepFollows DEF Transport!BringUp
<1>2. CASE Transport!PostNop
  <2>1. "up" = Transport!Steps[8] /\ 8 \in DOMAIN Transport!Steps
    BY DEF Transport!Steps
  <2>2. QED
    BY <1>2, <2>1 DEF Transport!PostNop
<1>3. ASSUME NEW cmd \in Commands, Transport!Command(cmd) PROVE TransportTypes'
  BY <1>3 DEF Transport!Command
<1>4. CASE Transport!ble_transport_to_ll_cmd_impl
  <2>1. hc_host.cmd \in Commands \cup {"none"}
    OBVIOUS
  <2>2. Transport!AnswerTo(hc_host.cmd) \in
            [cmd : Commands \cup {"none"}, event : {"complete", "status"},
             length : {"set", "stale"}, called : BOOLEAN]
    BY <2>1 DEF Transport!AnswerTo
  <2>3. QED
    BY <1>4, <2>2 DEF Transport!ble_transport_to_ll_cmd_impl, Transport!Idle
<1>5. CASE Transport!Iso
  BY <1>5 DEF Transport!Iso
<1>6. CASE Transport!ble_transport_to_ll_iso_impl
  BY <1>6 DEF Transport!ble_transport_to_ll_iso_impl, Transport!Idle
<1>7. CASE Transport!HostFrees
  BY <1>7 DEF Transport!HostFrees
<1>8. ASSUME NEW msg \in Transport!Kinds, Transport!Controller(msg) PROVE TransportTypes'
  BY <1>8, ImagesAssumption DEF Transport!Controller
<1>9. CASE Transport!MpslWork
  BY <1>9 DEF Transport!MpslWork
<1>10. CASE Transport!SWI03_IRQHandler
  BY <1>10 DEF Transport!SWI03_IRQHandler
<1>11. CASE Transport!mpsl_lp_task
  BY <1>11 DEF Transport!mpsl_lp_task
<1>12. CASE Transport!sdc_callback_
  <2>1. hc_inbox' = Tail(hc_inbox) /\ hc_inbox # <<>>
    BY <1>12 DEF Transport!sdc_callback_
  <2>2. hc_inbox' \in Seq(Transport!Kinds) /\ Len(hc_inbox') <= MaxMessages
    BY <2>1, ImagesAssumption
  <2>3. UNCHANGED <<hc_swi, hc_notified, hc_host, hc_answer>>
    BY <1>12 DEF Transport!sdc_callback_
  <2>4. /\ hc_phase' \in {hc_phase, "fault"} /\ hc_lp' \in {hc_lp, "waiting"}
        /\ hc_cut' \in {hc_cut, TRUE} /\ hc_starved' \in SUBSET Transport!Uses
    <3>1. CASE Transport!DrainEvent
      BY <3>1 DEF Transport!DrainEvent
    <3>2. CASE Transport!DrainNone
      BY <3>2 DEF Transport!DrainNone
    <3>3. CASE Transport!DrainData
      BY <3>3 DEF Transport!DrainData
    <3>4. QED
      BY <1>12, <3>1, <3>2, <3>3 DEF Transport!sdc_callback_
  <2>5. hc_phase' \in {Transport!Steps[i] : i \in DOMAIN Transport!Steps} \cup {"fault"}
    BY <2>4
  <2>6. UNCHANGED <<hc_host, hc_answer>>
    BY <2>3
  <2>7. QED
    BY <2>2, <2>3, <2>4, <2>5, <2>6
<1>13. CASE Transport!Drained
  BY <1>13 DEF Transport!Drained
<1>14. CASE UNCHANGED Transport!vars
  BY <1>14 DEF Transport!vars
<1>15. CASE Transport!ble_transport_to_ll_acl_impl
  BY <1>15 DEF Transport!ble_transport_to_ll_acl_impl
<1>16. QED
  BY <1>1, <1>2, <1>3, <1>4, <1>5, <1>6, <1>7, <1>8, <1>9, <1>10, <1>11, <1>12, <1>13, <1>14,
     <1>15
     DEF Transport!Next, Transport!HostTask, Transport!LowPriority, Transport!Halted

-------------------------------------------------------------------------------
(* The scanning sample.                                                        *)

LEMMA ScannerInit == Scanner!Init => Scanner!TypeOK
<1> SUFFICES ASSUME Scanner!Init PROVE Scanner!TypeOK
  OBVIOUS
<1>1. SCAN_Q_DEPTH \in Nat /\ sc_scan_q = 0
  BY ImagesAssumption DEF Scanner!Init
<1>2. sc_scan_q \in 0..SCAN_Q_DEPTH
  BY <1>1
<1>3. QED
  BY <1>2 DEF Scanner!Init, Scanner!TypeOK

LEMMA ScannerStep ==
  ASSUME Scanner!TypeOK, [Scanner!Next]_(Scanner!vars)
  PROVE  Scanner!TypeOK'
<1>0. SCAN_Q_DEPTH \in Nat
  BY ImagesAssumption
<1> USE <1>0 DEF Scanner!TypeOK
<1>1. ASSUME NEW synced \in BOOLEAN, Scanner!scan(synced)
      PROVE  sc_host' \in {"down", "scanning", "stopped"} /\ sc_refused' \in BOOLEAN
  BY <1>1 DEF Scanner!scan
<1>2. CASE Scanner!on_sync
  BY <1>1, <1>2 DEF Scanner!on_sync
<1>3. CASE Scanner!Report
  BY <1>3 DEF Scanner!Report
<1>4. ASSUME NEW synced \in BOOLEAN, Scanner!DiscComplete(synced) PROVE Scanner!TypeOK'
  BY <1>1, <1>4 DEF Scanner!DiscComplete
<1>5. CASE Scanner!on_reset
  BY <1>5 DEF Scanner!on_reset
<1>6. CASE Scanner!scan_print_task
  <2>1. sc_scan_q' \in 0..SCAN_Q_DEPTH
    <3>1. sc_scan_q' = sc_scan_q \/ (sc_scan_q > 0 /\ sc_scan_q' = sc_scan_q - 1)
      BY <1>6 DEF Scanner!scan_print_task, Scanner!Receive, Scanner!Printed
    <3>2. sc_scan_q \in 0..SCAN_Q_DEPTH
      OBVIOUS
    <3>3. QED
      BY <3>1, <3>2
  <2>2. QED
    BY <1>6, <2>1 DEF Scanner!scan_print_task, Scanner!Receive, Scanner!Printed
<1>7. CASE UNCHANGED Scanner!vars
  BY <1>7 DEF Scanner!vars
<1>8. QED
  BY <1>2, <1>3, <1>4, <1>5, <1>6, <1>7 DEF Scanner!Next, Scanner!Halted

-------------------------------------------------------------------------------
(* Identify mode, which three samples have.                                    *)

Mode == INSTANCE ZbIdentify

NoToggle(q) == \A k \in 1..Len(q) : q[k] # "toggle_identify_led"
OneAtMost(q) == \A j, k \in 1..Len(q) :
    q[j] = "toggle_identify_led" /\ q[k] = "toggle_identify_led" => j = k

\* Unless an end has overtaken it, there is at most one toggle, in the queue or in the
\* alarm table, while the endpoint identifies, and none otherwise.
OneToggle(i) ==
    /\ i \in Mode!Identify
    /\ ~i.overtaken =>
          /\ i.alarms \in {0, 1}
          /\ NoToggle(i.queue) \/ (i.alarms = 0 /\ OneAtMost(i.queue))
          /\ ~i.on => NoToggle(i.queue) /\ i.alarms = 0

\* A call put behind the others.
LEMMA CallQueued ==
  ASSUME NEW q \in Seq(Mode!Callbacks), NEW c \in Mode!Callbacks
  PROVE  /\ Append(q, c) \in Seq(Mode!Callbacks)
         /\ NoToggle(q) => OneAtMost(Append(q, c))
         /\ c # "toggle_identify_led" /\ NoToggle(q) => NoToggle(Append(q, c))
         /\ c # "toggle_identify_led" /\ OneAtMost(q) => OneAtMost(Append(q, c))
<1>1. /\ Append(q, c) \in Seq(Mode!Callbacks) /\ Len(Append(q, c)) = Len(q) + 1
      /\ \A k \in 1..Len(q) : Append(q, c)[k] = q[k]
      /\ Append(q, c)[Len(q) + 1] = c
  OBVIOUS
<1>2. \A k \in 1..(Len(q) + 1) : k \in 1..Len(q) \/ k = Len(q) + 1
  OBVIOUS
<1>3. QED
  BY <1>1, <1>2 DEF NoToggle, OneAtMost

\* The call in front taken away.
LEMMA CallTaken ==
  ASSUME NEW q \in Seq(Mode!Callbacks), q # <<>>
  PROVE  /\ Tail(q) \in Seq(Mode!Callbacks)
         /\ NoToggle(q) => NoToggle(Tail(q)) /\ Head(q) # "toggle_identify_led"
         /\ OneAtMost(q) => OneAtMost(Tail(q))
         /\ OneAtMost(q) /\ Head(q) = "toggle_identify_led" => NoToggle(Tail(q))
<1>1. /\ Tail(q) \in Seq(Mode!Callbacks) /\ Len(Tail(q)) = Len(q) - 1 /\ Len(q) \in Nat
      /\ \A k \in 1..(Len(q) - 1) : Tail(q)[k] = q[k + 1]
      /\ Head(q) = q[1] /\ 1 \in 1..Len(q)
  OBVIOUS
<1>2. \A k \in 1..(Len(q) - 1) : k + 1 \in 1..Len(q) /\ k + 1 # 1
  BY <1>1
<1>3. \A j, k \in 1..(Len(q) - 1) : j + 1 = k + 1 => j = k
  OBVIOUS
<1>4. NoToggle(q) => NoToggle(Tail(q)) /\ Head(q) # "toggle_identify_led"
  BY <1>1, <1>2 DEF NoToggle
<1>5. OneAtMost(q) => OneAtMost(Tail(q))
  BY <1>1, <1>2, <1>3 DEF OneAtMost
<1>6. OneAtMost(q) /\ Head(q) = "toggle_identify_led" => NoToggle(Tail(q))
  BY <1>1, <1>2 DEF NoToggle, OneAtMost
<1>7. QED
  BY <1>1, <1>4, <1>5, <1>6

LEMMA OneToggleInitially == OneToggle(Mode!NotIdentifying)
<1>1. /\ Mode!NotIdentifying.on = FALSE /\ Mode!NotIdentifying.queue = <<>>
      /\ Mode!NotIdentifying.alarms = 0
  BY DEF Mode!NotIdentifying
<1>2. Mode!NotIdentifying \in Mode!Identify
  BY DEF Mode!NotIdentifying, Mode!Identify
<1>3. QED
  BY <1>1, <1>2 DEF OneToggle, NoToggle

\* A button's start_identifying is queued.
LEMMA PressKeeps ==
  ASSUME NEW i, OneToggle(i), NEW full \in BOOLEAN
  PROVE  OneToggle(Mode!Schedule(i, "start_identifying", full))
<1>1. CASE full
  BY <1>1 DEF Mode!Schedule
<1>2. CASE ~full
  <2>1. PICK q : q = Append(i.queue, "start_identifying")
    OBVIOUS
  <2>2. i.queue \in Seq(Mode!Callbacks) /\ "start_identifying" \in Mode!Callbacks
    BY DEF OneToggle, Mode!Identify, Mode!Callbacks
  <2>3. /\ q \in Seq(Mode!Callbacks) /\ (NoToggle(i.queue) => NoToggle(q))
        /\ OneAtMost(i.queue) => OneAtMost(q)
    BY <2>1, <2>2, CallQueued
  <2>4. PICK j : j = [i EXCEPT !.queue = q]
    OBVIOUS
  <2>5. j \in Mode!Identify
    BY <2>3, <2>4, Zenon DEF OneToggle, Mode!Identify
  <2>6. j.on = i.on /\ j.queue = q /\ j.alarms = i.alarms /\ j.overtaken = i.overtaken
    BY <2>4 DEF OneToggle, Mode!Identify
  <2>7. OneToggle(j)
    BY <2>3, <2>5, <2>6 DEF OneToggle
  <2>8. Mode!Schedule(i, "start_identifying", full) = j
    BY <1>2, <2>1, <2>4 DEF Mode!Schedule, OneToggle, Mode!Identify
  <2>9. QED
    BY <2>7, <2>8
<1>3. QED
  BY <1>1, <1>2

\* The queued start_identifying is taken to be run.
LEMMA TakenKeeps ==
  ASSUME NEW i, OneToggle(i), i.queue # <<>>
  PROVE  OneToggle(Mode!Taken(i))
<1>1. PICK q : q = Tail(i.queue)
  OBVIOUS
<1>2. i.queue \in Seq(Mode!Callbacks)
  BY DEF OneToggle, Mode!Identify
<1>3. /\ q \in Seq(Mode!Callbacks) /\ (NoToggle(i.queue) => NoToggle(q))
      /\ OneAtMost(i.queue) => OneAtMost(q)
  BY <1>1, <1>2, CallTaken
<1>4. PICK j : j = [i EXCEPT !.queue = q]
  OBVIOUS
<1>5. j \in Mode!Identify
  BY <1>3, <1>4, Zenon DEF OneToggle, Mode!Identify
<1>6. j.on = i.on /\ j.queue = q /\ j.alarms = i.alarms /\ j.overtaken = i.overtaken
  BY <1>4 DEF OneToggle, Mode!Identify
<1>7. OneToggle(j)
  BY <1>3, <1>5, <1>6 DEF OneToggle
<1>8. Mode!Taken(i) = j
  BY <1>1, <1>4 DEF Mode!Taken, OneToggle, Mode!Identify
<1>9. QED
  BY <1>7, <1>8

LEMMA BeginKeeps ==
  ASSUME NEW i, OneToggle(i), ~i.on, NEW full \in BOOLEAN
  PROVE  OneToggle(Mode!Begin(i, full))
<1>1. PICK q : q = IF full THEN i.queue ELSE Append(i.queue, "toggle_identify_led")
  OBVIOUS
<1>2. i.queue \in Seq(Mode!Callbacks) /\ "toggle_identify_led" \in Mode!Callbacks
  BY DEF OneToggle, Mode!Identify, Mode!Callbacks
<1>3. NoToggle(i.queue) => OneAtMost(i.queue)
  BY DEF NoToggle, OneAtMost
<1>4. q \in Seq(Mode!Callbacks) /\ (NoToggle(i.queue) => OneAtMost(q))
  BY <1>1, <1>2, <1>3, CallQueued
<1>5. PICK j : j = [i EXCEPT !.on = TRUE, !.queue = q]
  OBVIOUS
<1>6. j \in Mode!Identify
  BY <1>4, <1>5, Zenon DEF OneToggle, Mode!Identify
<1>7. j.on = TRUE /\ j.queue = q /\ j.alarms = i.alarms /\ j.overtaken = i.overtaken
  BY <1>5 DEF OneToggle, Mode!Identify
<1>8. OneToggle(j)
  BY <1>4, <1>6, <1>7 DEF OneToggle
<1>9. Mode!Begin(i, full) = j
  BY <1>1, <1>5
     DEF Mode!Begin, Mode!identify_cb_start, Mode!Schedule, OneToggle, Mode!Identify
<1>10. QED
  BY <1>8, <1>9

LEMMA EndKeeps ==
  ASSUME NEW i, OneToggle(i), i.on
  PROVE  OneToggle(Mode!End(i))
<1>1. PICK alarms \in Nat : alarms = IF i.alarms > 0 THEN i.alarms - 1 ELSE i.alarms
  BY DEF OneToggle, Mode!Identify
<1>2. PICK overtaken \in BOOLEAN : overtaken = (i.overtaken \/ Mode!Toggling(i))
  BY DEF OneToggle, Mode!Identify
<1>3. PICK j : j = [i EXCEPT !.on = FALSE, !.alarms = alarms, !.overtaken = overtaken]
  OBVIOUS
<1>4. Mode!End(i) = j
  BY <1>1, <1>2, <1>3
     DEF Mode!End, Mode!identify_cb_stop, Mode!Toggling, OneToggle, Mode!Identify
<1>5. j \in Mode!Identify
  BY <1>1, <1>2, <1>3, Zenon DEF OneToggle, Mode!Identify
<1>6. j.on = FALSE /\ j.queue = i.queue /\ j.alarms = alarms /\ j.overtaken = overtaken
  BY <1>3 DEF OneToggle, Mode!Identify
<1>7. ~overtaken => NoToggle(i.queue)
  BY <1>2 DEF Mode!Toggling, NoToggle
<1>8. ~i.overtaken => alarms = 0
  BY <1>1 DEF OneToggle
<1>9. OneToggle(j)
  BY <1>2, <1>5, <1>6, <1>7, <1>8 DEF OneToggle
<1>10. QED
  BY <1>4, <1>9

LEMMA ButtonKeeps ==
  ASSUME NEW i, OneToggle(i), NEW joined \in BOOLEAN, NEW full \in BOOLEAN
  PROVE  OneToggle(Mode!start_identifying(i, joined, full))
<1>1. i.on \in BOOLEAN
  BY DEF OneToggle, Mode!Identify
<1>2. QED
  BY <1>1, BeginKeeps, EndKeeps DEF Mode!start_identifying

LEMMA ToggleKeeps ==
  ASSUME NEW i, OneToggle(i), NEW queue \in BOOLEAN, NEW full \in BOOLEAN,
         Mode!MayToggle(i, queue)
  PROVE  OneToggle(Mode!toggle_identify_led(i, queue, full))
<1>1. i.queue \in Seq(Mode!Callbacks) /\ i.alarms \in Nat
  BY DEF OneToggle, Mode!Identify
<1>2. PICK q : q = IF queue THEN Tail(i.queue) ELSE i.queue
  OBVIOUS
<1>3. PICK left \in Nat : left = IF queue THEN i.alarms ELSE i.alarms - 1
  BY <1>1 DEF Mode!MayToggle
<1>4. PICK alarms \in Nat : alarms = IF full THEN left ELSE left + 1
  BY <1>3
<1>5. PICK j : j = [i EXCEPT !.queue = q, !.alarms = alarms]
  OBVIOUS
<1>6. Mode!toggle_identify_led(i, queue, full) = j
  BY <1>2, <1>3, <1>4, <1>5 DEF Mode!toggle_identify_led, Mode!Taken, OneToggle, Mode!Identify
<1>7. q \in Seq(Mode!Callbacks)
  BY <1>1, <1>2, CallTaken DEF Mode!MayToggle, Mode!IsNext
<1>8. j \in Mode!Identify
  BY <1>4, <1>5, <1>7, Zenon DEF OneToggle, Mode!Identify
<1>9. j.on = i.on /\ j.queue = q /\ j.alarms = alarms /\ j.overtaken = i.overtaken
  BY <1>5 DEF OneToggle, Mode!Identify
<1>10. ~i.overtaken => i.on /\ NoToggle(q) /\ left = 0
  <2> SUFFICES ASSUME ~i.overtaken PROVE i.on /\ NoToggle(q) /\ left = 0
    OBVIOUS
  <2>1. CASE queue
    <3>1. i.queue # <<>> /\ Head(i.queue) = "toggle_identify_led"
      BY <2>1 DEF Mode!MayToggle, Mode!IsNext
    <3>2. ~NoToggle(i.queue)
      BY <1>1, <3>1, CallTaken
    <3>3. i.on /\ i.alarms = 0 /\ OneAtMost(i.queue)
      BY <3>2 DEF OneToggle, Mode!Identify
    <3>4. NoToggle(Tail(i.queue))
      BY <1>1, <3>1, <3>3, CallTaken
    <3>5. QED
      BY <1>2, <1>3, <2>1, <3>3, <3>4
  <2>2. CASE ~queue
    <3>1. i.alarms > 0
      BY <2>2 DEF Mode!MayToggle
    <3>2. i.alarms = 1
      BY <3>1 DEF OneToggle
    <3>3. i.on /\ NoToggle(i.queue)
      BY <3>2 DEF OneToggle, Mode!Identify
    <3>4. QED
      BY <1>2, <1>3, <2>2, <3>2, <3>3
  <2>3. QED
    BY <2>1, <2>2
<1>11. left = 0 => alarms \in {0, 1}
  BY <1>4
<1>12. OneToggle(j)
  BY <1>8, <1>9, <1>10, <1>11 DEF OneToggle
<1>13. QED
  BY <1>6, <1>12

LEMMA OneToggleEnds ==
  ASSUME NEW i, OneToggle(i)
  PROVE  Mode!BlinksOnlyWhileOn(i)
BY DEF Mode!BlinksOnlyWhileOn, Mode!Toggling, OneToggle, NoToggle

\* The three samples have the same mode.
LEMMA SameMode ==
  ASSUME NEW i, NEW joined, NEW full
  PROVE  /\ Find!Identify = Mode!Identify /\ Lamp!Identify = Mode!Identify
         /\ Coordinator!Identify = Mode!Identify
         /\ Find!NotIdentifying = Mode!NotIdentifying
         /\ Lamp!NotIdentifying = Mode!NotIdentifying
         /\ Coordinator!NotIdentifying = Mode!NotIdentifying
         /\ Find!Begin(i, full) = Mode!Begin(i, full)
         /\ Lamp!Begin(i, full) = Mode!Begin(i, full)
         /\ Find!End(i) = Mode!End(i) /\ Lamp!End(i) = Mode!End(i)
         /\ Coordinator!End(i) = Mode!End(i)
         /\ Find!start_identifying(i, joined, full) = Mode!start_identifying(i, joined, full)
         /\ Coordinator!start_identifying(i, joined, full)
               = Mode!start_identifying(i, joined, full)
BY DEF Find!Identify, Lamp!Identify, Coordinator!Identify, Mode!Identify,
   Find!Callbacks, Lamp!Callbacks, Coordinator!Callbacks, Mode!Callbacks,
   Find!NotIdentifying, Lamp!NotIdentifying, Coordinator!NotIdentifying, Mode!NotIdentifying,
   Find!Begin, Lamp!Begin, Mode!Begin, Find!End, Lamp!End, Coordinator!End, Mode!End,
   Find!identify_cb_start, Lamp!identify_cb_start, Mode!identify_cb_start,
   Find!Schedule, Lamp!Schedule, Coordinator!Schedule, Mode!Schedule,
   Find!identify_cb_stop, Lamp!identify_cb_stop, Coordinator!identify_cb_stop,
   Mode!identify_cb_stop, Find!Toggling, Lamp!Toggling, Coordinator!Toggling, Mode!Toggling,
   Find!start_identifying, Coordinator!start_identifying,
   Mode!start_identifying, Coordinator!Begin, Coordinator!identify_cb_start

LEMMA SameQueue ==
  ASSUME NEW i, NEW f, NEW full
  PROVE  /\ Find!Schedule(i, f, full) = Mode!Schedule(i, f, full)
         /\ Coordinator!Schedule(i, f, full) = Mode!Schedule(i, f, full)
         /\ Find!IsNext(i, f) => i.queue # <<>>
         /\ Coordinator!IsNext(i, f) => i.queue # <<>>
         /\ Find!Taken(i) = Mode!Taken(i) /\ Coordinator!Taken(i) = Mode!Taken(i)
BY DEF Find!Schedule, Coordinator!Schedule, Mode!Schedule, Find!IsNext, Coordinator!IsNext,
   Find!Taken, Coordinator!Taken, Mode!Taken

LEMMA SameToggle ==
  ASSUME NEW i, NEW queue, NEW full
  PROVE  /\ Find!MayToggle(i, queue) <=> Mode!MayToggle(i, queue)
         /\ Lamp!MayToggle(i, queue) <=> Mode!MayToggle(i, queue)
         /\ Coordinator!MayToggle(i, queue) <=> Mode!MayToggle(i, queue)
         /\ Find!toggle_identify_led(i, queue, full) = Mode!toggle_identify_led(i, queue, full)
         /\ Lamp!toggle_identify_led(i, queue, full) = Mode!toggle_identify_led(i, queue, full)
         /\ Coordinator!toggle_identify_led(i, queue, full)
               = Mode!toggle_identify_led(i, queue, full)
         /\ Find!BlinksOnlyWhileOn(i) <=> Mode!BlinksOnlyWhileOn(i)
         /\ Lamp!BlinksOnlyWhileOn(i) <=> Mode!BlinksOnlyWhileOn(i)
         /\ Coordinator!BlinksOnlyWhileOn(i) <=> Mode!BlinksOnlyWhileOn(i)
BY DEF Find!IsNext, Lamp!IsNext, Coordinator!IsNext, Mode!IsNext,
   Find!Taken, Lamp!Taken, Coordinator!Taken, Mode!Taken,
   Find!MayToggle, Lamp!MayToggle, Coordinator!MayToggle, Mode!MayToggle,
   Find!toggle_identify_led, Lamp!toggle_identify_led, Coordinator!toggle_identify_led,
   Mode!toggle_identify_led, Find!Toggling, Lamp!Toggling, Coordinator!Toggling,
   Mode!Toggling, Find!BlinksOnlyWhileOn, Lamp!BlinksOnlyWhileOn,
   Coordinator!BlinksOnlyWhileOn, Mode!BlinksOnlyWhileOn

-------------------------------------------------------------------------------
(* The lamp of the light bulb.                                                 *)

LampInv ==
    /\ la_on_off \in BOOLEAN /\ la_lamp \in BOOLEAN /\ la_current_level \in Lamp!Levels
    /\ OneToggle(la_identify)

LEMMA LampTypes == LampInv => Lamp!TypeOK /\ Lamp!BulbBlink
BY SameMode, SameToggle, OneToggleEnds DEF LampInv, Lamp!TypeOK, Lamp!BulbBlink, OneToggle

LEMMA LampInit == Lamp!Init => LampInv
<1> SUFFICES ASSUME Lamp!Init PROVE LampInv
  OBVIOUS
<1>1. MaxLevel \in Lamp!Levels
  BY ImagesAssumption DEF Lamp!Levels
<1>2. OneToggle(la_identify)
  BY SameMode, OneToggleInitially DEF Lamp!Init
<1>3. QED
  BY <1>1, <1>2 DEF Lamp!Init, LampInv, Lamp!light_bulb_set_brightness

LEMMA LampStep ==
  ASSUME LampInv, [Lamp!Next]_(Lamp!vars)
  PROVE  LampInv'
<1> USE DEF LampInv, Lamp!light_bulb_set_brightness
<1>1. CASE Lamp!zcl_device_cb
  BY <1>1 DEF Lamp!zcl_device_cb, Lamp!level_control_set_value, Lamp!on_off_set_value,
     OneToggle, NoToggle, OneAtMost
<1>2. ASSUME NEW full \in BOOLEAN, Lamp!identify_cb(full) PROVE LampInv'
  <2>1. OneToggle(la_identify')
    BY <1>2, SameMode, BeginKeeps, EndKeeps DEF Lamp!identify_cb
  <2>2. UNCHANGED <<la_on_off, la_current_level>> /\ la_lamp' \in BOOLEAN
    BY <1>2 DEF Lamp!identify_cb
  <2>3. QED
    BY <2>1, <2>2
<1>3. ASSUME NEW queue \in BOOLEAN, NEW full \in BOOLEAN, Lamp!Toggle(queue, full)
      PROVE  LampInv'
  <2>1. OneToggle(Mode!toggle_identify_led(la_identify, queue, full))
    BY <1>3, SameToggle, ToggleKeeps DEF Lamp!Toggle
  <2>2. UNCHANGED <<la_on_off, la_current_level>> /\ la_lamp' \in BOOLEAN
    BY <1>3 DEF Lamp!Toggle
  <2>3. la_identify' = Mode!toggle_identify_led(la_identify, queue, full)
    BY <1>3, SameToggle DEF Lamp!Toggle
  <2>4. QED
    BY <2>1, <2>2, <2>3
<1>4. CASE UNCHANGED Lamp!vars
  BY <1>4 DEF Lamp!vars, OneToggle, NoToggle, OneAtMost
<1>5. QED
  BY <1>1, <1>2, <1>3, <1>4 DEF Lamp!Next

-------------------------------------------------------------------------------
(* The light switch: joining.  The signals that wait are looked at in the same *)
(* way as those of the light bulb.                                             *)

SwAlarms == {"steering", "stop", "rejoin"}

SwNode == [joined : BOOLEAN, bdb : {"off", "init", "idle", "steering"},
           initialised : BOOLEAN, started : BOOLEAN, stopRequested : BOOLEAN,
           inProgress : BOOLEAN, attempts : Nat, waitForUser : BOOLEAN,
           startScheduled : BOOLEAN, callbacks : Nat, led : BOOLEAN, fault : BOOLEAN,
           alarms : [SwAlarms -> Nat]]

SwKnown == {"late button", "no timeout", "first start failed"}

\* The timeout is still to come, or has come and lets the user in.
Hopes(n) == n.waitForUser \/ n.alarms["stop"] > 0

\* A stop request waits for the user, unless the user was too early; a procedure that
\* waits for the user is about to stop; the stack is initialised before anything is
\* commissioned or rejoined; and a procedure begun with its timeout has it still.
SwSettled(n, hist) ==
    /\ n.stopRequested => n.started /\ (n.waitForUser \/ "late button" \in hist)
    /\ n.started /\ n.waitForUser => n.stopRequested
    /\ n.bdb # "off" \/ n.started \/ n.alarms["steering"] > 0 => n.initialised
    /\ n.started /\ hist \cap {"late button", "no timeout"} = {} => Hopes(n)

\* Out of the network a signal will begin the procedure, or there is hope.
SwGoesOn(n, q, hist) ==
    ~n.joined /\ n.bdb = "idle" =>
        Promised(q) \/ (Calm(q) /\ (hist = {} => Hopes(n)))

SwInv ==
    /\ sw_node \in SwNode
    /\ sw_signals \in Seq(Switch!Signal)
    /\ sw_known \subseteq SwKnown
    /\ sw_node.fault \/ (SwSettled(sw_node, sw_known) /\ SwGoesOn(sw_node, sw_signals, sw_known))

LEMMA NonePromised == ~Promised(<<>>)
BY DEF Promised

LEMMA SwitchShows == SwInv => Switch!TypeOK /\ Switch!StuckOnlyBy
<1>1. ASSUME SwInv PROVE Switch!TypeOK
  BY <1>1 DEF SwInv, SwNode, SwAlarms, SwKnown, Switch!TypeOK, Switch!Alarms
<1>2. ASSUME SwInv, Switch!Stuck PROVE sw_known # {}
  <2>1. /\ sw_node.bdb = "idle" /\ sw_signals = <<>> /\ ~sw_node.joined
        /\ ~sw_node.waitForUser /\ sw_node.alarms["stop"] = 0
    BY <1>2 DEF Switch!Stuck, Switch!Quiet, Switch!Alarms
  <2>2. ~(sw_node.alarms["stop"] > 0) /\ ~sw_node.fault
    BY <1>2, <2>1 DEF Switch!Stuck, Switch!Runs
  <2>3. ~Hopes(sw_node)
    BY <2>1, <2>2, Zenon DEF Hopes
  <2>4. SwGoesOn(sw_node, sw_signals, sw_known)
    BY <1>2, <2>2 DEF SwInv
  <2>5. QED
    BY <2>1, <2>3, <2>4, NonePromised, Zenon DEF SwGoesOn
<1>3. QED
  BY <1>1, <1>2 DEF Switch!StuckOnlyBy

\* The switch's signals are among the bulb's, and the queues behave alike.
LEMMA SwSignals ==
  ASSUME NEW q \in Seq(Switch!Signal)
  PROVE  /\ q \in Seq(Signal)
         /\ \A e \in Switch!Signal :
               /\ e \in Signal /\ Append(q, e) \in Seq(Switch!Signal)
               /\ Rescue(e) => Promised(Append(q, e))
               /\ ~Stops(e) => /\ Promised(q) => Promised(Append(q, e))
                               /\ Calm(q) => Calm(Append(q, e))
         /\ q # <<>> =>
               /\ Head(q) \in Switch!Signal /\ Tail(q) \in Seq(Switch!Signal)
               /\ Promised(q) => (Rescue(Head(q)) /\ Calm(Tail(q))) \/ Promised(Tail(q))
               /\ Calm(q) => ~Stops(Head(q)) /\ Calm(Tail(q))
<1>1. Switch!Signal \subseteq Signal
  BY DEF Switch!Signal, Signal, Switch!Reports, Reports, Switch!Unhandled, Unhandled
<1>2. q \in Seq(Signal)
  BY <1>1
<1>3. \A e \in Switch!Signal : Append(q, e) \in Seq(Switch!Signal)
  OBVIOUS
<1>4. q # <<>> => Head(q) \in Switch!Signal /\ Tail(q) \in Seq(Switch!Signal)
  OBVIOUS
<1>5. QED
  BY <1>1, <1>2, <1>3, <1>4, AppendRescue, AppendCalm, TailPromised, TailCalm

\* What the rejoin procedure looks at, apart from the alarms.
SwAgree(m, n) ==
    /\ m.joined = n.joined /\ m.bdb = n.bdb /\ m.initialised = n.initialised
    /\ m.started = n.started /\ m.stopRequested = n.stopRequested
    /\ m.waitForUser = n.waitForUser /\ m.fault = n.fault

\* What every part of it leaves alone.
SwSame(m, n) ==
    /\ m \in SwNode
    /\ m.joined = n.joined /\ m.bdb = n.bdb /\ m.initialised = n.initialised
    /\ m.fault = n.fault

\* It may set the timeout, never takes it away.
SwTimeout(m, n) == n.alarms["stop"] > 0 => m.alarms["stop"] > 0

LEMMA SwScheduled ==
  ASSUME NEW n \in SwNode, NEW a \in SwAlarms, NEW places,
         NEW m, m = Switch!ScheduleAlarm(n, a, places)
  PROVE  /\ m \in SwNode /\ SwAgree(m, n) /\ SwTimeout(m, n)
         /\ a # "steering" => m.alarms["steering"] = n.alarms["steering"]
<1>1. n.alarms \in [SwAlarms -> Nat]
  BY DEF SwNode
<1>2. PICK k \in Nat : k = n.alarms[a] + 1 /\ k > 0
  <2>1. n.alarms[a] \in Nat
    BY <1>1
  <2>2. QED
    BY <2>1
<1>3. PICK f \in [SwAlarms -> Nat] : f = [n.alarms EXCEPT ![a] = k]
  BY <1>1, <1>2
<1>4. m = n \/ m = [n EXCEPT !.alarms = f]
  BY <1>2, <1>3 DEF Switch!ScheduleAlarm, SwNode
<1>5. CASE m = n
  BY <1>5 DEF SwAgree, SwTimeout
<1>6. CASE m = [n EXCEPT !.alarms = f]
  <2>1. m \in SwNode
    BY <1>3, <1>6, Zenon DEF SwNode
  <2>2. SwAgree(m, n) /\ m.alarms = f
    BY <1>6 DEF SwNode, SwAgree
  <2>3. f["stop"] = IF a = "stop" THEN k ELSE n.alarms["stop"]
    BY <1>1, <1>3 DEF SwAlarms
  <2>4. a # "steering" => f["steering"] = n.alarms["steering"]
    BY <1>1, <1>3 DEF SwAlarms
  <2>5. QED
    BY <1>2, <2>1, <2>2, <2>3, <2>4 DEF SwTimeout
<1>7. QED
  BY <1>4, <1>5, <1>6

LEMMA SwExpired ==
  ASSUME NEW n \in SwNode, NEW a \in SwAlarms, n.alarms[a] > 0, NEW m, m = Switch!Expire(n, a)
  PROVE  /\ m \in SwNode /\ SwAgree(m, n)
         /\ a # "stop" => m.alarms["stop"] = n.alarms["stop"]
         /\ m.alarms["steering"] > 0 => n.alarms["steering"] > 0
<1>1. n.alarms \in [SwAlarms -> Nat]
  BY DEF SwNode
<1>2. PICK k \in Nat : k = n.alarms[a] - 1
  <2>1. n.alarms[a] \in Nat
    BY <1>1
  <2>2. QED
    BY <2>1
<1>3. PICK f \in [SwAlarms -> Nat] : f = [n.alarms EXCEPT ![a] = k]
  BY <1>1, <1>2
<1>4. m = [n EXCEPT !.alarms = f]
  BY <1>2, <1>3 DEF Switch!Expire, SwNode
<1>5. m \in SwNode
  BY <1>3, <1>4, Zenon DEF SwNode
<1>6. SwAgree(m, n) /\ m.alarms = f
  BY <1>4 DEF SwNode, SwAgree
<1>7. /\ a # "stop" => f["stop"] = n.alarms["stop"]
      /\ a # "steering" => f["steering"] = n.alarms["steering"]
  BY <1>1, <1>3 DEF SwAlarms
<1>8. QED
  BY <1>5, <1>6, <1>7

LEMMA SwRejoined ==
  ASSUME NEW n \in SwNode, NEW places, NEW m, m = Switch!rejoin_the_network(n, places)
  PROVE  /\ SwSame(m, n) /\ SwTimeout(m, n) /\ m.waitForUser = n.waitForUser
         /\ m.alarms["steering"] > 0 => n.alarms["steering"] > 0 \/ n.initialised
         /\ m.started => n.started /\ ~(n.stopRequested /\ n.initialised)
         /\ n.started /\ ~n.stopRequested => m.started
         /\ m.stopRequested => n.stopRequested /\ ~(n.started /\ n.initialised)
<1>1. CASE m = n /\ (~n.initialised \/ ~n.started \/ ~n.stopRequested)
  BY <1>1 DEF SwSame, SwTimeout
<1>2. CASE /\ n.initialised /\ n.started /\ n.stopRequested
           /\ m = [n EXCEPT !.started = FALSE, !.stopRequested = FALSE]
  <2>1. m \in SwNode
    BY <1>2, Zenon DEF SwNode
  <2>2. /\ m.joined = n.joined /\ m.bdb = n.bdb /\ m.initialised = n.initialised
        /\ m.fault = n.fault /\ m.waitForUser = n.waitForUser /\ m.alarms = n.alarms
        /\ ~m.started /\ ~m.stopRequested
    BY <1>2 DEF SwNode
  <2>3. QED
    BY <1>2, <2>1, <2>2, Zenon DEF SwSame, SwTimeout
<1>3. CASE /\ n.initialised /\ n.started /\ ~n.stopRequested
           /\ m = [Switch!ScheduleAlarm(n, "steering", places) EXCEPT
                      !.attempts = Switch!BackOff(@), !.inProgress = TRUE]
  <2>1. PICK u : u = Switch!ScheduleAlarm(n, "steering", places)
    OBVIOUS
  <2>2. u \in SwNode /\ SwAgree(u, n) /\ SwTimeout(u, n)
    BY <2>1, SwScheduled DEF SwAlarms
  <2>3. PICK b \in Nat : b = Switch!BackOff(u.attempts)
    BY <2>2 DEF Switch!BackOff, SwNode
  <2>4. m = [u EXCEPT !.attempts = b, !.inProgress = TRUE]
    BY <1>3, <2>1, <2>2, <2>3 DEF SwNode
  <2>5. m \in SwNode
    BY <2>2, <2>3, <2>4, Zenon DEF SwNode
  <2>6. /\ m.joined = u.joined /\ m.bdb = u.bdb /\ m.initialised = u.initialised
        /\ m.fault = u.fault /\ m.waitForUser = u.waitForUser /\ m.alarms = u.alarms
        /\ m.started = u.started /\ m.stopRequested = u.stopRequested
    BY <2>2, <2>4 DEF SwNode
  <2>7. QED
    BY <1>3, <2>2, <2>5, <2>6, Zenon DEF SwAgree, SwSame, SwTimeout
<1>4. QED
  BY <1>1, <1>2, <1>3 DEF Switch!rejoin_the_network, SwNode

LEMMA SwStarted ==
  ASSUME NEW n \in SwNode, NEW places, NEW m, m = Switch!start_network_rejoin(n, places)
  PROVE  /\ SwSame(m, n) /\ SwTimeout(m, n) /\ m.waitForUser = n.waitForUser
         /\ m.alarms["steering"] = n.alarms["steering"]
         /\ n.started => m.started /\ m.stopRequested = n.stopRequested
         /\ m.started /\ ~n.started => n.initialised /\ ~n.waitForUser /\ ~m.stopRequested
         /\ ~m.started => m.stopRequested = n.stopRequested
         /\ ~n.joined /\ n.initialised /\ ~n.waitForUser => m.started
<1>1. CASE ~Switch!MayStart(n)
  <2>1. m = n
    BY <1>1, Zenon DEF Switch!start_network_rejoin
  <2>2. QED
    BY <1>1, <2>1 DEF Switch!MayStart, SwSame, SwTimeout
<1>2. CASE Switch!MayStart(n) /\ n.started
  <2>1. m = [n EXCEPT !.inProgress = FALSE]
    BY <1>2, Zenon DEF Switch!start_network_rejoin
  <2>2. m \in SwNode
    BY <2>1, Zenon DEF SwNode
  <2>3. /\ m.joined = n.joined /\ m.bdb = n.bdb /\ m.initialised = n.initialised
        /\ m.fault = n.fault /\ m.waitForUser = n.waitForUser /\ m.alarms = n.alarms
        /\ m.started = n.started /\ m.stopRequested = n.stopRequested
    BY <2>1 DEF SwNode
  <2>4. QED
    BY <1>2, <2>2, <2>3, Zenon DEF SwSame, SwTimeout
<1>3. CASE Switch!MayStart(n) /\ ~n.started
  <2>1. PICK u : u = Switch!ScheduleAlarm(n, "stop", places)
    OBVIOUS
  <2>2. /\ u \in SwNode /\ SwAgree(u, n) /\ SwTimeout(u, n)
        /\ u.alarms["steering"] = n.alarms["steering"]
    BY <2>1, SwScheduled DEF SwAlarms
  <2>3. m = [u EXCEPT !.started = TRUE, !.stopRequested = FALSE, !.inProgress = FALSE,
                      !.attempts = 0, !.startScheduled = FALSE]
    BY <1>3, <2>1, Zenon DEF Switch!start_network_rejoin
  <2>4. 0 \in Nat
    OBVIOUS
  <2>5. m \in SwNode
    BY <2>2, <2>3, <2>4, Zenon DEF SwNode
  <2>6. /\ m.joined = u.joined /\ m.bdb = u.bdb /\ m.initialised = u.initialised
        /\ m.fault = u.fault /\ m.waitForUser = u.waitForUser /\ m.alarms = u.alarms
        /\ m.started /\ ~m.stopRequested
    BY <2>2, <2>3 DEF SwNode
  <2>7. QED
    BY <1>3, <2>2, <2>5, <2>6, Zenon DEF SwAgree, Switch!MayStart, SwSame, SwTimeout
<1>4. QED
  BY <1>1, <1>2, <1>3

LEMMA SwStopped ==
  ASSUME NEW n \in SwNode, NEW w \in BOOLEAN, NEW m, m = Switch!stop_network_rejoin(n, w)
  PROVE  /\ SwSame(m, n) /\ SwTimeout(m, n) /\ m.waitForUser = w
         /\ m.started => n.started /\ m.stopRequested
         /\ m.stopRequested => m.started \/ (n.stopRequested /\ ~n.started)
         /\ m.alarms["steering"] > 0 => n.alarms["steering"] > 0
<1>1. PICK u : u = [n EXCEPT !.waitForUser = w]
  OBVIOUS
<1>2. u \in SwNode
  BY <1>1, Zenon DEF SwNode
<1>3. /\ u.joined = n.joined /\ u.bdb = n.bdb /\ u.initialised = n.initialised
      /\ u.fault = n.fault /\ u.waitForUser = w /\ u.alarms = n.alarms
      /\ u.started = n.started /\ u.stopRequested = n.stopRequested
  BY <1>1 DEF SwNode
<1>4. CASE ~n.started
  <2>1. m = u
    BY <1>1, <1>4, Zenon DEF Switch!stop_network_rejoin
  <2>2. QED
    BY <1>2, <1>3, <1>4, <2>1 DEF SwSame, SwTimeout
<1>5. CASE n.started /\ n.alarms["steering"] > 0
  <2>1. PICK v : v = Switch!Expire(u, "steering")
    OBVIOUS
  <2>2. v \in SwNode /\ SwAgree(v, u) /\ v.alarms["stop"] = u.alarms["stop"]
    BY <1>2, <1>3, <1>5, <2>1, SwExpired DEF SwAlarms
  <2>3. m = [v EXCEPT !.started = FALSE, !.stopRequested = FALSE]
    BY <1>1, <1>5, <2>1, Zenon DEF Switch!stop_network_rejoin
  <2>4. m \in SwNode
    BY <2>2, <2>3, Zenon DEF SwNode
  <2>5. /\ m.joined = v.joined /\ m.bdb = v.bdb /\ m.initialised = v.initialised
        /\ m.fault = v.fault /\ m.waitForUser = v.waitForUser /\ m.alarms = v.alarms
        /\ ~m.started /\ ~m.stopRequested
    BY <2>2, <2>3 DEF SwNode
  <2>6. QED
    BY <1>3, <1>5, <2>2, <2>4, <2>5, Zenon DEF SwAgree, SwSame, SwTimeout
<1>6. CASE n.started /\ ~(n.alarms["steering"] > 0)
  <2>1. m = [u EXCEPT !.stopRequested = TRUE]
    BY <1>1, <1>6, Zenon DEF Switch!stop_network_rejoin
  <2>2. m \in SwNode
    BY <1>2, <2>1, Zenon DEF SwNode
  <2>3. /\ m.joined = u.joined /\ m.bdb = u.bdb /\ m.initialised = u.initialised
        /\ m.fault = u.fault /\ m.waitForUser = u.waitForUser /\ m.started = u.started
        /\ m.alarms = u.alarms /\ m.stopRequested
    BY <1>2, <2>1 DEF SwNode
  <2>4. QED
    BY <1>3, <1>6, <2>2, <2>3, Zenon DEF SwSame, SwTimeout
<1>7. QED
  BY <1>4, <1>5, <1>6

LEMMA SwSkipped ==
  ASSUME NEW n \in SwNode, NEW m, m = Switch!SkipStartup(n)
  PROVE  /\ m \in SwNode /\ m.initialised /\ m.bdb \notin {"off", "idle"}
         /\ m.joined = n.joined /\ m.stopRequested = n.stopRequested /\ m.fault = n.fault
         /\ m.started = n.started /\ m.waitForUser = n.waitForUser /\ m.alarms = n.alarms
<1>1. PICK b \in {"init", "steering"} :
          b = IF n.bdb \in {"off", "idle"} THEN "init" ELSE n.bdb
  BY DEF SwNode
<1>2. m = [n EXCEPT !.initialised = TRUE, !.bdb = b]
  BY <1>1 DEF Switch!SkipStartup, Switch!Commission, SwNode
<1>3. m \in SwNode
  BY <1>2, Zenon DEF SwNode
<1>4. QED
  BY <1>2, <1>3 DEF SwNode

\* Only a Stop takes hope away, and a Rescue begins the procedure, unless it runs or waits
\* for the user.
LEMMA SwHandled ==
  ASSUME NEW n \in SwNode, NEW hist, SwSettled(n, hist), NEW s \in Switch!Signal, NEW places,
         NEW m, m = Switch!zigbee_default_signal_handler(n, s, places)
  PROVE  /\ m \in SwNode /\ SwTimeout(m, n)
         /\ m.joined = n.joined /\ m.fault = n.fault
         /\ m.bdb = "idle" => n.bdb = "idle"
         /\ ~m.stopRequested /\ ~(m.started /\ m.waitForUser)
         /\ m.bdb # "off" \/ m.started \/ m.alarms["steering"] > 0 => m.initialised
         /\ Stops(s) => ~m.started
         /\ ~Stops(s) => m.waitForUser = n.waitForUser
         /\ s.sig = "FIRST_START" /\ ~s.ok /\ m.started => n.started
         /\ Rescue(s) /\ ~(s.sig = "FIRST_START" /\ ~s.ok) /\ ~n.joined /\ n.bdb = "idle"
               /\ ~n.waitForUser /\ ~n.started => m.started
<1>1. PICK u :
        /\ m = Switch!rejoin_the_network(u, places)
        /\ \/ u = n /\ ~(Rescue(s) /\ ~(s.sig = "FIRST_START" /\ ~s.ok)) /\ ~Stops(s)
           \/ /\ u = Switch!start_network_rejoin(n, places)
              /\ ~Stops(s) /\ ~(s.sig = "FIRST_START" /\ ~s.ok)
           \/ u = Switch!stop_network_rejoin(n, FALSE) /\ Stops(s)
           \/ u = Switch!SkipStartup(n) /\ ~Rescue(s) /\ ~Stops(s)
  <2> DEFINE v == CASE s.sig = "SKIP_STARTUP" -> Switch!SkipStartup(n)
                    [] s.sig = "FIRST_START" -> Switch!FirstStart(n, s.ok, places)
                    [] s.sig = "REBOOT" -> Switch!Reboot(n, s.ok, places)
                    [] s.sig = "STEERING" -> Switch!Steering(n, s.ok, places)
                    [] s.sig = "LEAVE" -> Switch!Leave(n, s.ok, places)
                    [] OTHER -> n
  <2>1. m = Switch!rejoin_the_network(v, places)
    BY Zenon DEF Switch!zigbee_default_signal_handler
  <2>2. \/ v = n /\ ~(Rescue(s) /\ ~(s.sig = "FIRST_START" /\ ~s.ok)) /\ ~Stops(s)
        \/ /\ v = Switch!start_network_rejoin(n, places)
           /\ ~Stops(s) /\ ~(s.sig = "FIRST_START" /\ ~s.ok)
        \/ v = Switch!stop_network_rejoin(n, FALSE) /\ Stops(s)
        \/ v = Switch!SkipStartup(n) /\ ~Rescue(s) /\ ~Stops(s)
    BY DEF Switch!FirstStart, Switch!Reboot, Switch!Steering, Switch!Leave, Rescue, Stops
  <2>3. QED
    BY <2>1, <2>2
<1>2. /\ n.stopRequested => n.started /\ n.initialised
      /\ n.started => n.initialised
      /\ n.bdb = "idle" => n.initialised
      /\ n.started /\ n.waitForUser => n.stopRequested
      /\ n.bdb # "off" \/ n.alarms["steering"] > 0 => n.initialised
  BY DEF SwSettled
<1>3. ASSUME u \in SwNode
      PROVE  /\ SwSame(m, u) /\ SwTimeout(m, u) /\ m.waitForUser = u.waitForUser
             /\ m.alarms["steering"] > 0 => u.alarms["steering"] > 0 \/ u.initialised
             /\ m.started => u.started /\ ~(u.stopRequested /\ u.initialised)
             /\ u.started /\ ~u.stopRequested => m.started
             /\ m.stopRequested => u.stopRequested /\ ~(u.started /\ u.initialised)
  BY <1>1, <1>3, SwRejoined
<1>4. CASE u = n /\ ~(Rescue(s) /\ ~(s.sig = "FIRST_START" /\ ~s.ok)) /\ ~Stops(s)
  BY <1>2, <1>3, <1>4, Zenon DEF SwSame
<1>5. CASE /\ u = Switch!start_network_rejoin(n, places)
           /\ ~Stops(s) /\ ~(s.sig = "FIRST_START" /\ ~s.ok)
  <2>1. /\ SwSame(u, n) /\ SwTimeout(u, n) /\ u.waitForUser = n.waitForUser
        /\ u.alarms["steering"] = n.alarms["steering"]
        /\ n.started => u.started /\ u.stopRequested = n.stopRequested
        /\ u.started /\ ~n.started => n.initialised /\ ~n.waitForUser /\ ~u.stopRequested
        /\ ~u.started => u.stopRequested = n.stopRequested
        /\ ~n.joined /\ n.initialised /\ ~n.waitForUser => u.started
    BY <1>5, SwStarted
  <2>2. SwTimeout(m, n) /\ SwSame(m, u)
    BY <1>3, <2>1, Zenon DEF SwTimeout, SwSame
  <2>3. /\ m \in SwNode /\ m.joined = n.joined /\ m.fault = n.fault /\ m.bdb = n.bdb
        /\ m.initialised = n.initialised
    BY <2>1, <2>2 DEF SwSame
  <2>4. u.stopRequested => u.started /\ u.initialised
    BY <1>2, <2>1 DEF SwSame
  <2>5. ~m.stopRequested
    BY <1>3, <2>1, <2>4 DEF SwSame
  <2>6. ~(m.started /\ m.waitForUser)
    <3>1. u.started => u.initialised
      BY <1>2, <2>1, Zenon DEF SwSame
    <3>2. u.started /\ u.waitForUser => u.stopRequested
      BY <1>2, <2>1, Zenon
    <3>3. QED
      BY <1>3, <2>1, <3>1, <3>2, Zenon DEF SwSame
  <2>7. m.bdb # "off" \/ m.started \/ m.alarms["steering"] > 0 => m.initialised
    BY <1>2, <1>3, <2>1, <2>3, Zenon DEF SwSame
  <2>8. /\ m.waitForUser = n.waitForUser
        /\ ~n.joined /\ n.bdb = "idle" /\ ~n.waitForUser /\ ~n.started => m.started
    BY <1>2, <1>3, <2>1, Zenon DEF SwSame
  <2>9. QED
    BY <1>5, <2>2, <2>3, <2>5, <2>6, <2>7, <2>8, Zenon
<1>6. CASE u = Switch!stop_network_rejoin(n, FALSE) /\ Stops(s)
  <2>1. /\ SwSame(u, n) /\ SwTimeout(u, n) /\ ~u.waitForUser
        /\ u.started => n.started /\ u.stopRequested
        /\ u.stopRequested => u.started \/ (n.stopRequested /\ ~n.started)
        /\ u.alarms["steering"] > 0 => n.alarms["steering"] > 0
    BY <1>6, SwStopped
  <2>2. SwTimeout(m, n) /\ SwSame(m, u)
    BY <1>3, <2>1, Zenon DEF SwTimeout, SwSame
  <2>3. /\ m \in SwNode /\ m.joined = n.joined /\ m.fault = n.fault /\ m.bdb = n.bdb
        /\ m.initialised = n.initialised
    BY <2>1, <2>2 DEF SwSame
  <2>4. u.stopRequested => u.started /\ u.initialised
    BY <1>2, <2>1 DEF SwSame
  <2>5. ~m.started /\ ~m.stopRequested
    BY <1>3, <2>1, <2>4, Zenon DEF SwSame
  <2>6. m.bdb # "off" \/ m.started \/ m.alarms["steering"] > 0 => m.initialised
    BY <1>2, <1>3, <2>1, <2>3, <2>5, Zenon DEF SwSame
  <2>7. ~Rescue(s)
    BY <1>6 DEF Rescue, Stops
  <2>8. QED
    BY <1>6, <2>2, <2>3, <2>5, <2>6, <2>7, Zenon
<1>7. CASE u = Switch!SkipStartup(n) /\ ~Rescue(s) /\ ~Stops(s)
  <2>1. /\ u \in SwNode /\ u.initialised /\ u.bdb \notin {"off", "idle"}
        /\ u.joined = n.joined /\ u.stopRequested = n.stopRequested /\ u.fault = n.fault
        /\ u.started = n.started /\ u.waitForUser = n.waitForUser /\ u.alarms = n.alarms
    BY <1>7, SwSkipped
  <2>2. /\ m \in SwNode /\ m.joined = n.joined /\ m.fault = n.fault /\ m.bdb # "idle"
        /\ m.initialised /\ SwTimeout(m, n)
    BY <1>3, <2>1, Zenon DEF SwTimeout, SwSame
  <2>3. ~m.stopRequested /\ ~(m.started /\ m.waitForUser) /\ m.waitForUser = n.waitForUser
    BY <1>2, <1>3, <2>1, Zenon
  <2>4. m.started => n.started
    BY <1>3, <2>1
  <2>5. QED
    BY <1>7, <2>2, <2>3, <2>4, Zenon
<1>8. QED
  BY <1>1, <1>4, <1>5, <1>6, <1>7, Zenon

LEMMA SwLed ==
  ASSUME NEW n \in SwNode, NEW s \in Switch!Signal,
         NEW m, m = Switch!zigbee_led_status_update(n, s)
  PROVE  m \in SwNode /\ SwAgree(m, n) /\ m.alarms = n.alarms
<1>1. s.ok \in BOOLEAN
  BY DEF Switch!Signal
<1>2. m = n \/ \E l \in BOOLEAN : m = [n EXCEPT !.led = l]
  BY <1>1 DEF Switch!zigbee_led_status_update
<1>3. CASE m = n
  BY <1>3 DEF SwAgree
<1>4. ASSUME NEW l \in BOOLEAN, m = [n EXCEPT !.led = l]
      PROVE  m \in SwNode /\ SwAgree(m, n) /\ m.alarms = n.alarms
  <2>1. m \in SwNode
    BY <1>4, Zenon DEF SwNode
  <2>2. SwAgree(m, n) /\ m.alarms = n.alarms
    BY <1>4 DEF SwNode, SwAgree
  <2>3. QED
    BY <2>1, <2>2
<1>5. QED
  BY <1>2, <1>3, <1>4

\* What is known after a step that leaves or makes the procedure begun.
LEMMA SwBegun ==
  ASSUME NEW n \in SwNode, NEW m \in SwNode, NEW kn, kn \subseteq SwKnown,
         NEW k
  PROVE  k = Switch!Begun(kn, n, m) =>
            /\ k \subseteq SwKnown
            /\ n.started \/ ~m.started => k = kn
            /\ ~n.started /\ m.started =>
                  k = {"no timeout"} \/ (k = {} /\ m.alarms["stop"] > 0)
<1> SUFFICES ASSUME k = Switch!Begun(kn, n, m)
             PROVE  /\ k \subseteq SwKnown
                    /\ n.started \/ ~m.started => k = kn
                    /\ ~n.started /\ m.started =>
                          k = {"no timeout"} \/ (k = {} /\ m.alarms["stop"] > 0)
  OBVIOUS
<1>1. n.alarms["stop"] \in Nat /\ m.alarms["stop"] \in Nat
  BY DEF SwNode, SwAlarms
<1>2. m.alarms["stop"] > n.alarms["stop"] => m.alarms["stop"] > 0
  BY <1>1
<1>3. CASE n.started \/ ~m.started
  <2>1. k = kn
    BY <1>3, Zenon DEF Switch!Begun
  <2>2. QED
    BY <1>3, <2>1, Zenon
<1>4. CASE ~n.started /\ m.started
  <2>1. k = {"no timeout"} \/ (k = {} /\ m.alarms["stop"] > n.alarms["stop"])
    BY <1>4, Zenon DEF Switch!Begun
  <2>2. k \subseteq SwKnown
    BY <2>1 DEF SwKnown
  <2>3. QED
    BY <1>2, <1>4, <2>1, <2>2, Zenon
<1>5. QED
  BY <1>3, <1>4

LEMMA SwHandlerStep ==
  ASSUME SwInv, NEW places, Switch!zboss_signal_handler(places)
  PROVE  SwInv'
<1> DEFINE s == Head(sw_signals)
           q == Tail(sw_signals)
           First == s.sig = "FIRST_START" /\ ~s.ok
<1>1. /\ sw_node \in SwNode /\ sw_signals \in Seq(Switch!Signal) /\ sw_signals # <<>>
      /\ SwSettled(sw_node, sw_known) /\ SwGoesOn(sw_node, sw_signals, sw_known)
      /\ sw_known \subseteq SwKnown
  BY DEF SwInv, Switch!zboss_signal_handler, Switch!Runs
<1>2. /\ s \in Switch!Signal /\ q \in Seq(Switch!Signal)
      /\ Promised(sw_signals) => (Rescue(s) /\ Calm(q)) \/ Promised(q)
      /\ Calm(sw_signals) => ~Stops(s) /\ Calm(q)
  BY <1>1, SwSignals
<1>3. /\ sw_node' = Switch!zigbee_default_signal_handler(
                        Switch!zigbee_led_status_update(sw_node, s), s, places)
      /\ sw_known' = IF First THEN sw_known \cup {"first start failed"}
                     ELSE Switch!Begun(sw_known, sw_node, sw_node')
      /\ sw_signals' = q
  BY Zenon DEF Switch!zboss_signal_handler
<1>f. First <=> s.sig = "FIRST_START" /\ ~s.ok
  OBVIOUS
<1> HIDE DEF s, q, First
<1>4. PICK u : u = Switch!zigbee_led_status_update(sw_node, s)
  OBVIOUS
<1>5. u \in SwNode /\ SwAgree(u, sw_node) /\ u.alarms = sw_node.alarms
  BY <1>1, <1>2, <1>4, SwLed
<1>6. SwSettled(u, sw_known)
  BY <1>1, <1>5, Zenon DEF SwAgree, SwSettled, Hopes
<1>7. PICK m : m = sw_node'
  OBVIOUS
<1>8. /\ m \in SwNode /\ SwTimeout(m, u)
      /\ m.joined = u.joined /\ m.fault = u.fault
      /\ m.bdb = "idle" => u.bdb = "idle"
      /\ ~m.stopRequested /\ ~(m.started /\ m.waitForUser)
      /\ m.bdb # "off" \/ m.started \/ m.alarms["steering"] > 0 => m.initialised
      /\ Stops(s) => ~m.started
      /\ ~Stops(s) => m.waitForUser = u.waitForUser
      /\ First /\ m.started => u.started
      /\ Rescue(s) /\ ~First /\ ~u.joined /\ u.bdb = "idle"
            /\ ~u.waitForUser /\ ~u.started => m.started
  <2>1. m = Switch!zigbee_default_signal_handler(u, s, places)
    BY <1>3, <1>4, <1>7
  <2>2. QED
    BY <1>2, <1>5, <1>6, <1>f, <2>1, SwHandled
<1>9. PICK k : k = Switch!Begun(sw_known, sw_node, m)
  OBVIOUS
<1>10. /\ k \subseteq SwKnown
       /\ u.started \/ ~m.started => k = sw_known
       /\ ~u.started /\ m.started => k = {"no timeout"} \/ (k = {} /\ m.alarms["stop"] > 0)
  <2>1. u.started = sw_node.started
    BY <1>5 DEF SwAgree
  <2>2. m \in SwNode
    BY <1>8
  <2>3. QED
    <3>1. sw_node \in SwNode /\ sw_known \subseteq SwKnown
      BY <1>1
    <3>2. k = Switch!Begun(sw_known, sw_node, m) =>
             /\ k \subseteq SwKnown
             /\ sw_node.started \/ ~m.started => k = sw_known
             /\ ~sw_node.started /\ m.started =>
                   k = {"no timeout"} \/ (k = {} /\ m.alarms["stop"] > 0)
      BY <2>2, <3>1, SwBegun, Zenon
    <3>3. QED
      BY <1>9, <2>1, <3>2, Zenon
<1>11. sw_known' = IF First THEN sw_known \cup {"first start failed"} ELSE k
  BY <1>3, <1>7, <1>9
<1>12. sw_known' \subseteq SwKnown
  BY <1>1, <1>10, <1>11 DEF SwKnown
<1>13. ~Stops(s) /\ Hopes(u) => Hopes(m)
  BY <1>8 DEF Hopes, SwTimeout
<1>14. SwSettled(m, sw_known')
  <2> SUFFICES ASSUME m.started, sw_known' \cap {"late button", "no timeout"} = {}
               PROVE  Hopes(m)
    BY <1>8 DEF SwSettled
  <2>1. CASE u.started
    <3>1. sw_known \cap {"late button", "no timeout"} = {}
      BY <1>10, <1>11, <2>1
    <3>2. Hopes(u)
      BY <1>6, <2>1, <3>1 DEF SwSettled
    <3>3. QED
      BY <1>8, <1>13, <3>2
  <2>2. CASE ~u.started
    <3>1. ~First
      BY <1>8, <2>2
    <3>2. m.alarms["stop"] > 0
      BY <1>10, <1>11, <2>2, <3>1
    <3>3. QED
      BY <3>2 DEF Hopes
  <2>3. QED
    BY <2>1, <2>2
<1>15. SwGoesOn(m, q, sw_known')
  <2> SUFFICES ASSUME ~m.joined, m.bdb = "idle"
               PROVE  Promised(q) \/ (Calm(q) /\ (sw_known' = {} => Hopes(m)))
    BY DEF SwGoesOn
  <2>1. ~u.joined /\ u.bdb = "idle" /\ ~sw_node.joined /\ sw_node.bdb = "idle"
    BY <1>5, <1>8 DEF SwAgree
  <2>2. Promised(sw_signals) \/ (Calm(sw_signals) /\ (sw_known = {} => Hopes(sw_node)))
    BY <1>1, <2>1 DEF SwGoesOn
  <2>3. Hopes(sw_node) <=> Hopes(u)
    BY <1>5 DEF Hopes, SwAgree
  <2>4. ASSUME sw_known' = {} PROVE ~First /\ (m.started => Hopes(m))
    BY <1>11, <1>14, <2>4 DEF SwSettled
  <2>5. CASE Promised(sw_signals) /\ ~Promised(q)
    <3>1. Rescue(s) /\ Calm(q) /\ ~Stops(s)
      BY <1>2, <2>5 DEF Rescue, Stops
    <3>2. ASSUME sw_known' = {} PROVE Hopes(m)
      <4>1. CASE m.started
        BY <2>4, <3>2, <4>1
      <4>2. CASE m.waitForUser
        BY <4>2 DEF Hopes
      <4>3. CASE ~m.started /\ ~m.waitForUser
        <5>1. u.started /\ ~u.waitForUser
          BY <1>8, <2>1, <2>4, <3>1, <3>2, <4>3
        <5>2. sw_known = {}
          BY <1>10, <1>11, <2>4, <3>2, <5>1
        <5>3. Hopes(u)
          BY <1>6, <5>1, <5>2 DEF SwSettled
        <5>4. QED
          BY <1>13, <3>1, <5>3
      <4>4. QED
        BY <4>1, <4>2, <4>3
    <3>3. QED
      BY <3>1, <3>2
  <2>6. CASE Calm(sw_signals) /\ (sw_known = {} => Hopes(sw_node))
    <3>1. ~Stops(s) /\ Calm(q)
      BY <1>2, <2>6
    <3>2. ASSUME sw_known' = {} PROVE Hopes(m)
      <4>1. CASE m.started
        BY <2>4, <3>2, <4>1
      <4>2. CASE ~m.started
        <5>1. sw_known = {}
          BY <1>10, <1>11, <2>4, <3>2, <4>2
        <5>2. QED
          BY <1>13, <2>3, <2>6, <3>1, <5>1
      <4>3. QED
        BY <4>1, <4>2
    <3>3. QED
      BY <3>1, <3>2
  <2>7. QED
    BY <2>2, <2>5, <2>6
<1>16. QED
  BY <1>2, <1>3, <1>7, <1>8, <1>12, <1>14, <1>15 DEF SwInv

\* A step of an alarm, the callback or the button: the signals wait, and the hope stays.
LEMMA SwThreadStep ==
  ASSUME SwInv, ~sw_node.fault, NEW m \in SwNode, m = sw_node', UNCHANGED sw_signals,
         sw_known' \subseteq SwKnown, SwSettled(m, sw_known'), m.joined = sw_node.joined,
         m.bdb = "idle" => sw_node.bdb = "idle",
         m.bdb = "idle" /\ sw_known' = {} =>
             Hopes(m) \/ (sw_known = {} /\ (Hopes(sw_node) => Hopes(m)))
  PROVE  SwInv'
<1>1. SwGoesOn(m, sw_signals, sw_known')
  <2> SUFFICES ASSUME ~m.joined, m.bdb = "idle"
               PROVE  Promised(sw_signals) \/ (Calm(sw_signals) /\ (sw_known' = {} => Hopes(m)))
    BY DEF SwGoesOn
  <2>1. Promised(sw_signals) \/ (Calm(sw_signals) /\ (sw_known = {} => Hopes(sw_node)))
    BY DEF SwInv, SwGoesOn
  <2>2. QED
    BY <2>1
<1>2. sw_signals' = sw_signals /\ sw_signals \in Seq(Switch!Signal)
  BY DEF SwInv
<1>3. QED
  BY <1>1, <1>2 DEF SwInv

LEMMA SwSteeringStep ==
  ASSUME SwInv, Switch!SteeringAlarm
  PROVE  SwInv'
<1>1. /\ sw_node \in SwNode /\ ~sw_node.fault /\ SwSettled(sw_node, sw_known)
      /\ sw_node.alarms["steering"] > 0
      /\ UNCHANGED <<sw_signals, sw_known>> /\ sw_known \subseteq SwKnown
  BY DEF SwInv, Switch!SteeringAlarm, Switch!Runs
<1>2. PICK u : u = Switch!Expire(sw_node, "steering")
  OBVIOUS
<1>3. u \in SwNode /\ SwAgree(u, sw_node) /\ u.alarms["stop"] = sw_node.alarms["stop"]
  BY <1>1, <1>2, SwExpired DEF SwAlarms
<1>4. PICK b \in {"init", "steering"} :
          b = IF u.bdb \in {"off", "idle"} THEN "steering" ELSE u.bdb
  BY <1>3 DEF SwNode
<1>5. PICK m : m = [u EXCEPT !.bdb = b]
  OBVIOUS
<1>6. m = sw_node'
  <2>1. sw_node' = Switch!Commission(u, "steering")
    BY <1>2 DEF Switch!SteeringAlarm, Switch!start_network_steering
  <2>2. QED
    BY <1>3, <1>4, <1>5, <2>1 DEF Switch!Commission, SwNode
<1>7. m \in SwNode
  BY <1>3, <1>5, Zenon DEF SwNode
<1>8. /\ m.joined = u.joined /\ m.bdb = b /\ m.initialised = u.initialised
      /\ m.started = u.started /\ m.stopRequested = u.stopRequested
      /\ m.waitForUser = u.waitForUser /\ m.alarms = u.alarms
  BY <1>3, <1>5 DEF SwNode
<1>9. Hopes(sw_node) => Hopes(m)
  BY <1>3, <1>8, Zenon DEF SwAgree, Hopes
<1>10. SwSettled(m, sw_known) /\ m.joined = sw_node.joined /\ m.bdb # "idle"
  BY <1>1, <1>3, <1>4, <1>8, <1>9 DEF SwSettled, SwAgree
<1>11. QED
  BY <1>1, <1>6, <1>7, <1>10, SwThreadStep

LEMMA SwStopStep ==
  ASSUME SwInv, Switch!StopAlarm
  PROVE  SwInv'
<1>1. /\ sw_node \in SwNode /\ ~sw_node.fault /\ SwSettled(sw_node, sw_known)
      /\ sw_node.alarms["stop"] > 0
      /\ UNCHANGED <<sw_signals, sw_known>> /\ sw_known \subseteq SwKnown
  BY DEF SwInv, Switch!StopAlarm, Switch!Runs
<1>2. PICK u : u = Switch!Expire(sw_node, "stop")
  OBVIOUS
<1>3. /\ u \in SwNode /\ SwAgree(u, sw_node)
      /\ u.alarms["steering"] > 0 => sw_node.alarms["steering"] > 0
  BY <1>1, <1>2, SwExpired DEF SwAlarms
<1>4. PICK m : m = sw_node' /\ m = Switch!stop_network_rejoin(u, TRUE)
  BY <1>2 DEF Switch!StopAlarm
<1>5. /\ SwSame(m, u) /\ m.waitForUser = TRUE
      /\ m.started => u.started /\ m.stopRequested
      /\ m.stopRequested => m.started \/ (u.stopRequested /\ ~u.started)
      /\ m.alarms["steering"] > 0 => u.alarms["steering"] > 0
  BY <1>3, <1>4, SwStopped
<1>6. Hopes(m)
  BY <1>5 DEF Hopes
<1>7. SwSettled(m, sw_known) /\ m.joined = sw_node.joined /\ m.bdb = sw_node.bdb
  BY <1>1, <1>3, <1>5, <1>6, Zenon DEF SwSettled, SwAgree, SwSame
<1>8. m \in SwNode
  BY <1>5 DEF SwSame
<1>9. QED
  BY <1>1, <1>4, <1>6, <1>7, <1>8, SwThreadStep

LEMMA SwRejoinStep ==
  ASSUME SwInv, NEW places, Switch!RejoinAlarm(places)
  PROVE  SwInv'
<1>1. /\ sw_node \in SwNode /\ ~sw_node.fault /\ SwSettled(sw_node, sw_known)
      /\ sw_node.alarms["rejoin"] > 0
      /\ UNCHANGED <<sw_signals, sw_known>> /\ sw_known \subseteq SwKnown
  BY DEF SwInv, Switch!RejoinAlarm, Switch!Runs
<1>2. PICK u : u = Switch!Expire(sw_node, "rejoin")
  OBVIOUS
<1>3. /\ u \in SwNode /\ SwAgree(u, sw_node)
      /\ u.alarms["stop"] = sw_node.alarms["stop"]
      /\ u.alarms["steering"] > 0 => sw_node.alarms["steering"] > 0
  BY <1>1, <1>2, SwExpired DEF SwAlarms
<1>4. PICK m : m = sw_node' /\ m = Switch!rejoin_the_network(u, places)
  BY <1>2 DEF Switch!RejoinAlarm
<1>5. /\ SwSame(m, u) /\ SwTimeout(m, u) /\ m.waitForUser = u.waitForUser
      /\ m.alarms["steering"] > 0 => u.alarms["steering"] > 0 \/ u.initialised
      /\ m.started => u.started /\ ~(u.stopRequested /\ u.initialised)
      /\ m.stopRequested => u.stopRequested /\ ~(u.started /\ u.initialised)
  BY <1>3, <1>4, SwRejoined
<1>6. Hopes(sw_node) => Hopes(m)
  BY <1>3, <1>5, Zenon DEF SwAgree, SwTimeout, Hopes
<1>7. SwSettled(m, sw_known) /\ m.joined = sw_node.joined /\ m.bdb = sw_node.bdb
  BY <1>1, <1>3, <1>5, <1>6, Zenon DEF SwSettled, SwAgree, SwSame
<1>8. m \in SwNode
  BY <1>5 DEF SwSame
<1>9. QED
  BY <1>1, <1>4, <1>6, <1>7, <1>8, SwThreadStep

\* The callback of a button that is heeded: the procedure begins, or the button was late.
LEMMA SwHeeded ==
  ASSUME SwInv, NEW places, Switch!StartCallback(places),
         ~sw_node.joined, sw_node.waitForUser
  PROVE  SwInv'
<1>1. /\ sw_node \in SwNode /\ ~sw_node.fault /\ SwSettled(sw_node, sw_known)
      /\ sw_node.callbacks > 0
      /\ UNCHANGED sw_signals /\ sw_known \subseteq SwKnown
      /\ sw_known' = IF sw_node.started /\ sw_node.stopRequested
                       THEN sw_known \cup {"late button"} ELSE Switch!Begun(sw_known, sw_node, sw_node')
  BY DEF SwInv, Switch!StartCallback, Switch!Runs
<1>c. sw_node.callbacks \in Nat
  BY <1>1, Zenon DEF SwNode
<1>b. sw_node.callbacks > 0
  BY <1>1, Zenon
<1>d. sw_node.callbacks - 1 \in Nat
  BY <1>b, <1>c
<1>2. PICK c \in Nat : c = sw_node.callbacks - 1
  BY <1>d, Zenon
<1>3. PICK n : n = [sw_node EXCEPT !.callbacks = c, !.waitForUser = FALSE]
  OBVIOUS
<1>4. n \in SwNode
  BY <1>1, <1>3, Zenon DEF SwNode
<1>5. /\ n.joined = sw_node.joined /\ n.bdb = sw_node.bdb /\ ~n.waitForUser
      /\ n.initialised = sw_node.initialised /\ n.started = sw_node.started
      /\ n.stopRequested = sw_node.stopRequested /\ n.alarms = sw_node.alarms
  BY <1>1, <1>3 DEF SwNode
<1>6. PICK u : u = Switch!start_network_rejoin(n, places)
  OBVIOUS
<1>7. /\ SwSame(u, n) /\ SwTimeout(u, n) /\ ~u.waitForUser
      /\ u.alarms["steering"] = n.alarms["steering"]
      /\ n.started => u.started /\ u.stopRequested = n.stopRequested
      /\ u.started /\ ~n.started => n.initialised /\ ~n.waitForUser /\ ~u.stopRequested
      /\ ~u.started => u.stopRequested = n.stopRequested
      /\ ~n.joined /\ n.initialised /\ ~n.waitForUser => u.started
  BY <1>4, <1>5, <1>6, SwStarted
<1>8. PICK v : v = Switch!ScheduleAlarm(u, "rejoin", places)
  OBVIOUS
<1>9. /\ v \in SwNode /\ SwAgree(v, u) /\ SwTimeout(v, u)
      /\ v.alarms["steering"] = u.alarms["steering"]
  BY <1>7, <1>8, SwScheduled DEF SwAlarms, SwSame
<1>10. sw_node' = [v EXCEPT !.startScheduled = FALSE] \/ sw_node' = [u EXCEPT !.fault = TRUE]
  <2>1. PICK r : r = [sw_node EXCEPT !.callbacks = @ - 1]
    OBVIOUS
  <2>2. sw_node' = Switch!start_network_rejoin_ED(r, places)
    BY <2>1 DEF Switch!StartCallback
  <2>3. n = [r EXCEPT !.waitForUser = FALSE] /\ ~r.joined /\ r.waitForUser
    BY <1>1, <1>2, <1>3, <2>1 DEF SwNode
  <2>4. QED
    BY <1>6, <1>8, <2>2, <2>3 DEF Switch!start_network_rejoin_ED
<1>11. PICK m : m = sw_node'
  OBVIOUS
<1>12. m \in SwNode /\ m.started = u.started /\ (m.alarms = u.alarms \/ m.alarms = v.alarms)
  <2>1. CASE m = [v EXCEPT !.startScheduled = FALSE]
    <3>1. m \in SwNode
      BY <1>9, <2>1, Zenon DEF SwNode
    <3>2. m.started = v.started /\ m.alarms = v.alarms
      BY <1>9, <2>1 DEF SwNode
    <3>3. QED
      BY <1>9, <3>1, <3>2 DEF SwAgree
  <2>2. CASE m = [u EXCEPT !.fault = TRUE]
    <3>1. m \in SwNode
      BY <1>7, <2>2, Zenon DEF SwNode, SwSame
    <3>2. m.started = u.started /\ m.alarms = u.alarms
      BY <1>7, <2>2 DEF SwNode, SwSame
    <3>3. QED
      BY <3>1, <3>2
  <2>3. QED
    BY <1>10, <1>11, <2>1, <2>2
<1>13. PICK k : k = Switch!Begun(sw_known, sw_node, m)
  OBVIOUS
<1>14. /\ k \subseteq SwKnown
       /\ sw_node.started \/ ~m.started => k = sw_known
       /\ ~sw_node.started /\ m.started =>
             k = {"no timeout"} \/ (k = {} /\ m.alarms["stop"] > 0)
  <2>1. sw_node \in SwNode /\ m \in SwNode /\ sw_known \subseteq SwKnown
    BY <1>1, <1>12
  <2>2. k = Switch!Begun(sw_known, sw_node, m) =>
           /\ k \subseteq SwKnown
           /\ sw_node.started \/ ~m.started => k = sw_known
           /\ ~sw_node.started /\ m.started =>
                 k = {"no timeout"} \/ (k = {} /\ m.alarms["stop"] > 0)
    BY <2>1, SwBegun, Zenon
  <2>3. k = Switch!Begun(sw_known, sw_node, m)
    BY <1>13
  <2>5. QED
    BY <2>2, <2>3
<1>15. sw_known' = IF sw_node.started /\ sw_node.stopRequested
                     THEN sw_known \cup {"late button"} ELSE k
  BY <1>1, <1>11, <1>13
<1>16. sw_known' \subseteq SwKnown
  BY <1>1, <1>14, <1>15 DEF SwKnown
<1>17. CASE m = [u EXCEPT !.fault = TRUE]
  <2>1. m.fault
    BY <1>7, <1>17 DEF SwNode, SwSame
  <2>2. QED
    BY <1>1, <1>11, <1>12, <1>16, <2>1 DEF SwInv
<1>18. CASE m = [v EXCEPT !.startScheduled = FALSE]
  <2>1. SwAgree(m, v) /\ m.alarms = v.alarms
    BY <1>9, <1>18 DEF SwNode, SwAgree
  <2>2. sw_node.started => sw_node.stopRequested /\ "late button" \in sw_known'
    BY <1>1, <1>15 DEF SwSettled
  <2>3. /\ m.joined = sw_node.joined /\ m.bdb = sw_node.bdb
        /\ m.initialised = sw_node.initialised /\ ~m.waitForUser
    BY <1>5, <1>7, <1>9, <2>1, Zenon DEF SwAgree, SwSame
  <2>4. m.stopRequested => m.started /\ "late button" \in sw_known'
    BY <1>1, <1>5, <1>7, <1>9, <2>1, <2>2, Zenon DEF SwAgree, SwSettled
  <2>5. m.bdb # "off" \/ m.started \/ m.alarms["steering"] > 0 => m.initialised
    BY <1>1, <1>5, <1>7, <1>9, <2>1, <2>3, Zenon DEF SwAgree, SwSettled
  <2>6. m.started /\ sw_known' \cap {"late button", "no timeout"} = {} => Hopes(m)
    <3> SUFFICES ASSUME m.started, sw_known' \cap {"late button", "no timeout"} = {}
                 PROVE  Hopes(m)
      OBVIOUS
    <3>1. ~sw_node.started
      BY <2>2
    <3>2. m.alarms["stop"] > 0
      BY <1>14, <1>15, <3>1
    <3>3. QED
      BY <3>2 DEF Hopes
  <2>7. SwSettled(m, sw_known')
    BY <2>3, <2>4, <2>5, <2>6 DEF SwSettled
  <2>8. m.bdb = "idle" => m.started
    <3>1. sw_node.bdb = "idle" => sw_node.initialised
      BY <1>1 DEF SwSettled
    <3>2. QED
      BY <1>5, <1>7, <1>12, <2>3, <3>1
  <2>9. m.bdb = "idle" /\ sw_known' = {} => Hopes(m)
    BY <2>6, <2>8
  <2>10. QED
    BY <1>1, <1>11, <1>12, <1>16, <2>3, <2>7, <2>9, SwThreadStep
<1>19. QED
  BY <1>10, <1>11, <1>17, <1>18

LEMMA SwCallbackStep ==
  ASSUME SwInv, NEW places, Switch!StartCallback(places)
  PROVE  SwInv'
<1>1. /\ sw_node \in SwNode /\ ~sw_node.fault /\ SwSettled(sw_node, sw_known)
      /\ UNCHANGED sw_signals /\ sw_known \subseteq SwKnown
      /\ sw_node.callbacks > 0
      /\ sw_node' = Switch!start_network_rejoin_ED([sw_node EXCEPT !.callbacks = @ - 1], places)
  BY DEF SwInv, Switch!StartCallback, Switch!Runs
<1>2. CASE ~sw_node.joined /\ sw_node.waitForUser
  BY <1>2, SwHeeded
<1>3. CASE ~(~sw_node.joined /\ sw_node.waitForUser)
  <2>1. PICK c \in Nat : c = sw_node.callbacks - 1
    BY <1>1 DEF SwNode
  <2>2. PICK m : m = [sw_node EXCEPT !.callbacks = c, !.startScheduled = FALSE]
    OBVIOUS
  <2>3. m = sw_node'
    <3>1. PICK r : r = [sw_node EXCEPT !.callbacks = @ - 1]
      OBVIOUS
    <3>2. r.joined = sw_node.joined /\ r.waitForUser = sw_node.waitForUser
      BY <1>1, <3>1 DEF SwNode
    <3>3. sw_node' = [r EXCEPT !.startScheduled = FALSE]
      BY <1>1, <1>3, <3>1, <3>2 DEF Switch!start_network_rejoin_ED
    <3>4. QED
      BY <1>1, <2>1, <2>2, <3>1, <3>3 DEF SwNode
  <2>4. m \in SwNode
    BY <1>1, <2>1, <2>2, Zenon DEF SwNode
  <2>5. SwAgree(m, sw_node) /\ m.alarms = sw_node.alarms
    BY <1>1, <2>2 DEF SwAgree, SwNode
  <2>6. sw_known' = sw_known
    <3>1. sw_known' = Switch!Begun(sw_known, sw_node, m)
      BY <1>3, <2>3 DEF Switch!StartCallback
    <3>2. sw_node.started \/ ~m.started
      BY <2>5 DEF SwAgree, SwNode
    <3>3. sw_node \in SwNode /\ m \in SwNode /\ sw_known \subseteq SwKnown
      BY <1>1, <2>4
    <3>4. QED
      BY <3>1, <3>2, <3>3, SwBegun
  <2>7. SwSettled(m, sw_known') /\ (Hopes(sw_node) => Hopes(m))
    BY <1>1, <2>5, <2>6, Zenon DEF SwSettled, SwAgree, Hopes
  <2>8. m.joined = sw_node.joined /\ m.bdb = sw_node.bdb
    BY <2>5 DEF SwAgree
  <2>9. QED
    BY <1>1, <2>3, <2>4, <2>6, <2>7, <2>8, SwThreadStep
<1>4. QED
  BY <1>2, <1>3

LEMMA SwButtonStep ==
  ASSUME SwInv, NEW queued \in BOOLEAN, Switch!user_input_indicate(queued)
  PROVE  SwInv'
<1>1. /\ sw_node \in SwNode /\ ~sw_node.fault /\ SwSettled(sw_node, sw_known)
      /\ UNCHANGED <<sw_signals, sw_known>> /\ sw_known \subseteq SwKnown
      /\ sw_signals \in Seq(Switch!Signal)
  BY DEF SwInv, Switch!user_input_indicate, Switch!Runs
<1>2. CASE ~queued
  <2>1. PICK m : m = [sw_node EXCEPT !.fault = TRUE]
    OBVIOUS
  <2>2. m = sw_node'
    BY <1>2, <2>1 DEF Switch!user_input_indicate
  <2>3. m \in SwNode
    BY <1>1, <2>1, Zenon DEF SwNode
  <2>4. m.fault
    BY <1>1, <2>1 DEF SwNode
  <2>5. QED
    BY <1>1, <2>2, <2>3, <2>4 DEF SwInv
<1>3. CASE queued
  <2>1. PICK c \in Nat : c = sw_node.callbacks + 1
    BY <1>1 DEF SwNode
  <2>2. PICK m : m = [sw_node EXCEPT !.callbacks = c, !.startScheduled = TRUE]
    OBVIOUS
  <2>3. m = sw_node'
    BY <1>1, <1>3, <2>1, <2>2 DEF Switch!user_input_indicate, SwNode
  <2>4. m \in SwNode
    BY <1>1, <2>2, Zenon DEF SwNode
  <2>5. SwAgree(m, sw_node) /\ m.alarms = sw_node.alarms
    BY <1>1, <2>2 DEF SwAgree, SwNode
  <2>6. SwSettled(m, sw_known) /\ (Hopes(sw_node) => Hopes(m))
    BY <1>1, <2>5, Zenon DEF SwSettled, SwAgree, Hopes
  <2>7. m.joined = sw_node.joined /\ m.bdb = sw_node.bdb
    BY <2>5 DEF SwAgree
  <2>8. QED
    BY <1>1, <2>3, <2>4, <2>6, <2>7, SwThreadStep
<1>4. QED
  BY <1>2, <1>3

\* Commissioning ends, or the network is left: outside it a rescue is queued last.
LEMMA SwNetworkStep ==
  ASSUME SwInv, ~sw_node.fault, NEW j \in BOOLEAN, NEW e \in Switch!Signal, ~j => Rescue(e),
         sw_node.bdb # "off", sw_node' = [sw_node EXCEPT !.bdb = "idle", !.joined = j],
         sw_signals' = Append(sw_signals, e), UNCHANGED sw_known
  PROVE  SwInv'
<1>1. /\ sw_node \in SwNode /\ SwSettled(sw_node, sw_known)
      /\ sw_signals \in Seq(Switch!Signal)
  BY DEF SwInv
<1>2. PICK m : m = [sw_node EXCEPT !.bdb = "idle", !.joined = j] /\ m = sw_node'
  OBVIOUS
<1>3. m \in SwNode
  BY <1>1, <1>2, Zenon DEF SwNode
<1>4. /\ m.joined = j /\ m.initialised = sw_node.initialised /\ m.started = sw_node.started
      /\ m.stopRequested = sw_node.stopRequested /\ m.waitForUser = sw_node.waitForUser
      /\ m.alarms = sw_node.alarms
  BY <1>1, <1>2 DEF SwNode
<1>5. Hopes(m) <=> Hopes(sw_node)
  BY <1>4 DEF Hopes
<1>6. SwSettled(m, sw_known)
  BY <1>1, <1>4, <1>5, Zenon DEF SwSettled
<1>7. sw_signals' \in Seq(Switch!Signal) /\ (~j => Promised(sw_signals'))
  BY <1>1, SwSignals
<1>8. SwGoesOn(m, sw_signals', sw_known)
  BY <1>4, <1>7, Zenon DEF SwGoesOn
<1>9. QED
  BY <1>2, <1>3, <1>6, <1>7, <1>8 DEF SwInv

LEMMA SwReportStep ==
  ASSUME SwInv, Switch!Report
  PROVE  SwInv'
<1>1. sw_signals \in Seq(Switch!Signal) /\ UNCHANGED <<sw_node, sw_known>>
  BY DEF SwInv, Switch!Report
<1>2. PICK s \in Switch!Reports \cup Switch!Unhandled :
        sw_signals' = Append(sw_signals, [sig |-> s, ok |-> TRUE])
  BY DEF Switch!Report, Switch!Queue
<1>3. PICK e : e = [sig |-> s, ok |-> TRUE]
  OBVIOUS
<1>4. e \in Switch!Signal
  BY <1>3, Zenon DEF Switch!Signal
<1>5. ~Stops(e)
  <2>1. e.sig = s
    BY <1>3
  <2>2. s \notin {"REBOOT", "STEERING"}
    BY DEF Switch!Reports, Switch!Unhandled
  <2>3. QED
    BY <2>1, <2>2 DEF Stops
<1>6. /\ sw_signals' \in Seq(Switch!Signal)
      /\ Promised(sw_signals) => Promised(sw_signals')
      /\ Calm(sw_signals) => Calm(sw_signals')
  BY <1>1, <1>2, <1>3, <1>4, <1>5, SwSignals
<1>7. ~sw_node.fault => SwGoesOn(sw_node, sw_signals', sw_known)
  BY <1>6, Zenon DEF SwInv, SwGoesOn
<1>8. QED
  BY <1>1, <1>6, <1>7 DEF SwInv

LEMMA SwStep ==
  ASSUME SwInv, [Switch!Next]_(Switch!vars)
  PROVE  SwInv'
<1>0. sw_node \in SwNode
  BY DEF SwInv
<1>1. CASE Switch!Thread
  BY <1>1, SwHandlerStep, SwSteeringStep, SwStopStep, SwRejoinStep, SwCallbackStep
     DEF Switch!Thread
<1>2. ASSUME NEW queued \in BOOLEAN, Switch!user_input_indicate(queued) PROVE SwInv'
  BY <1>2, SwButtonStep
<1>3. CASE Switch!BdbInitialised
  <2>1. PICK s \in {"FIRST_START", "REBOOT"}, ok \in BOOLEAN :
          /\ sw_node' = [sw_node EXCEPT !.bdb = "idle", !.joined = (s = "REBOOT" /\ ok)]
          /\ sw_signals' = Append(sw_signals, [sig |-> s, ok |-> ok])
    BY <1>3 DEF Switch!BdbInitialised, Switch!Queue
  <2>2. PICK j \in BOOLEAN : j = (s = "REBOOT" /\ ok)
    OBVIOUS
  <2>3. PICK e : e = [sig |-> s, ok |-> ok]
    OBVIOUS
  <2>4. e \in Switch!Signal
    BY <2>3, Zenon DEF Switch!Signal
  <2>5. e.sig = s /\ e.ok = ok
    BY <2>3
  <2>6. ~j => Rescue(e)
    BY <2>2, <2>5, Zenon DEF Rescue
  <2>7. sw_node.bdb # "off" /\ ~sw_node.fault /\ UNCHANGED sw_known
    BY <1>3 DEF Switch!BdbInitialised, Switch!Room, Switch!Runs
  <2>8. QED
    BY <2>1, <2>2, <2>3, <2>4, <2>6, <2>7, SwNetworkStep
<1>4. CASE Switch!SteeringEnds
  <2>1. PICK ok \in BOOLEAN :
          /\ sw_node' = [sw_node EXCEPT !.bdb = "idle", !.joined = ok]
          /\ sw_signals' = Append(sw_signals, [sig |-> "STEERING", ok |-> ok])
    BY <1>4 DEF Switch!SteeringEnds, Switch!Queue
  <2>3. PICK e : e = [sig |-> "STEERING", ok |-> ok]
    OBVIOUS
  <2>4. e \in Switch!Signal
    BY <2>3, Zenon DEF Switch!Signal
  <2>5. e.sig = "STEERING" /\ e.ok = ok
    BY <2>3
  <2>6. ~ok => Rescue(e)
    BY <2>5, Zenon DEF Rescue
  <2>7. sw_node.bdb # "off" /\ ~sw_node.fault /\ UNCHANGED sw_known
    BY <1>4 DEF Switch!SteeringEnds, Switch!Room, Switch!Runs
  <2>8. QED
    BY <2>1, <2>3, <2>4, <2>6, <2>7, SwNetworkStep
<1>5. CASE Switch!LeaveNetwork
  <2>1. PICK ok \in BOOLEAN :
          /\ sw_node' = [sw_node EXCEPT !.joined = ~ok]
          /\ sw_signals' = Append(sw_signals, [sig |-> "LEAVE", ok |-> ok])
    BY <1>5 DEF Switch!LeaveNetwork, Switch!Queue
  <2>2. PICK j \in BOOLEAN : j = (~ok)
    OBVIOUS
  <2>3. PICK e : e = [sig |-> "LEAVE", ok |-> ok]
    OBVIOUS
  <2>4. e \in Switch!Signal
    BY <2>3, Zenon DEF Switch!Signal
  <2>5. e.sig = "LEAVE" /\ e.ok = ok
    BY <2>3
  <2>6. ~j => Rescue(e)
    BY <2>2, <2>5, Zenon DEF Rescue
  <2>7. sw_node.bdb = "idle" /\ ~sw_node.fault /\ UNCHANGED sw_known
    BY <1>5 DEF Switch!LeaveNetwork, Switch!Room, Switch!Runs
  <2>8. sw_node' = [sw_node EXCEPT !.bdb = "idle", !.joined = j]
    BY <1>0, <2>1, <2>2, <2>7 DEF SwNode
  <2>9. QED
    BY <2>1, <2>3, <2>4, <2>6, <2>7, <2>8, SwNetworkStep
<1>6. CASE Switch!Report
  BY <1>6, SwReportStep
<1>7. CASE UNCHANGED Switch!vars \/ Switch!Halted
  <2>1. UNCHANGED <<sw_node, sw_signals, sw_known>>
    BY <1>7 DEF Switch!vars, Switch!Halted
  <2>2. QED
    BY <2>1 DEF SwInv
<1>8. QED
  BY <1>1, <1>2, <1>3, <1>4, <1>5, <1>6, <1>7 DEF Switch!Next, Switch!Network

LEMMA SwInit == Switch!Init => SwInv
<1> SUFFICES ASSUME Switch!Init PROVE SwInv
  OBVIOUS
<1>1. /\ ~sw_node.stopRequested /\ sw_node.bdb = "off" /\ ~sw_node.started
      /\ sw_node.alarms = [a \in SwAlarms |-> 0] /\ sw_known = {}
  BY DEF Switch!Init, Switch!Alarms, SwAlarms
<1>2. sw_node \in SwNode
  BY DEF Switch!Init, Switch!Alarms, SwAlarms, SwNode
<1>3. sw_signals \in Seq(Switch!Signal)
  BY DEF Switch!Init, Switch!Signal
<1>4. SwSettled(sw_node, sw_known)
  <2>1. ~(sw_node.alarms["steering"] > 0)
    BY <1>1 DEF SwAlarms
  <2>2. QED
    BY <1>1, <2>1, Zenon DEF SwSettled
<1>5. SwGoesOn(sw_node, sw_signals, sw_known)
  BY <1>1 DEF SwGoesOn
<1>6. QED
  BY <1>1, <1>2, <1>3, <1>4, <1>5 DEF SwInv

-------------------------------------------------------------------------------
(* The light switch: finding a bulb.                                           *)

FindType == [addr : Bulbs \cup {NoBulb}, timer : BOOLEAN, wanted : Nat, requests : Nat]

FindInv ==
    /\ fi_joined \in BOOLEAN /\ fi_dropped \in BOOLEAN
    /\ fi_sends \subseteq Buttons
    /\ fi_find \in FindType /\ Find!SearchGoesOn
    /\ OneToggle(fi_identify)

LEMMA FindTypes == FindInv => Find!TypeOK /\ Find!SearchGoesOn /\ Find!SwitchBlink
BY SameMode, SameToggle, OneToggleEnds
   DEF FindInv, FindType, Find!TypeOK, Find!SwitchBlink, OneToggle

LEMMA FindInit == Find!Init => FindInv
<1> SUFFICES ASSUME Find!Init PROVE FindInv
  OBVIOUS
<1>1. fi_find \in FindType
  BY DEF Find!Init, FindType
<1>2. OneToggle(fi_identify)
  BY SameMode, OneToggleInitially DEF Find!Init
<1>3. QED
  BY <1>1, <1>2 DEF Find!Init, FindInv, Find!SearchGoesOn

\* A step of the search leaves the rest alone.
LEMMA SearchStep ==
  ASSUME FindInv, fi_joined' \in BOOLEAN, fi_dropped' \in BOOLEAN, fi_find' \in FindType,
         UNCHANGED <<fi_sends, fi_identify>>,
         fi_joined' /\ fi_find'.addr = NoBulb /\ ~fi_dropped' =>
             fi_find'.timer \/ fi_find'.wanted > 0 \/ fi_find'.requests > 0
  PROVE  FindInv'
BY DEF FindInv, Find!SearchGoesOn, OneToggle, FindType

LEMMA FindStep ==
  ASSUME FindInv, [Find!Next]_(Find!vars)
  PROVE  FindInv'
<1>0. /\ fi_find \in FindType /\ Find!SearchGoesOn
      /\ fi_joined \in BOOLEAN /\ fi_dropped \in BOOLEAN
  BY DEF FindInv
<1>1. CASE Find!JoinedSignal
  <2>1. PICK timer \in BOOLEAN : timer = (fi_find.timer \/ fi_find.addr = NoBulb)
    OBVIOUS
  <2>2. fi_find' = [fi_find EXCEPT !.timer = timer]
    BY <1>0, <1>1, <2>1 DEF Find!JoinedSignal, FindType
  <2>3. /\ fi_find' \in FindType /\ fi_find'.timer = timer
        /\ fi_find'.addr = fi_find.addr
    BY <1>0, <2>2 DEF FindType
  <2>4. QED
    BY <1>1, <2>1, <2>3, SearchStep DEF Find!JoinedSignal, FindInv
<1>2. ASSUME NEW reset \in BOOLEAN, Find!LeaveSignal(reset) PROVE FindInv'
  <2>1. fi_find' \in FindType
    BY <1>0, <1>2 DEF Find!LeaveSignal, FindType
  <2>2. QED
    BY <1>2, <2>1, SearchStep DEF Find!LeaveSignal, FindInv
<1>3. ASSUME NEW granted \in BOOLEAN, Find!find_light_bulb_alarm(granted) PROVE FindInv'
  <2>1. PICK wanted \in Nat : wanted = IF granted THEN fi_find.wanted + 1 ELSE fi_find.wanted
    BY <1>0 DEF FindType
  <2>2. fi_find' = [fi_find EXCEPT !.timer = FALSE, !.wanted = wanted]
    BY <1>0, <1>3, <2>1 DEF Find!find_light_bulb_alarm, FindType
  <2>3. fi_find' \in FindType /\ fi_find'.wanted = wanted
    BY <1>0, <2>2 DEF FindType
  <2>4. fi_dropped' = (fi_dropped \/ ~granted) /\ UNCHANGED fi_joined
    BY <1>3 DEF Find!find_light_bulb_alarm
  <2>5. granted => wanted > 0
    BY <1>0, <2>1 DEF FindType
  <2>6. QED
    BY <1>0, <1>3, <2>3, <2>4, <2>5, SearchStep DEF Find!find_light_bulb_alarm
<1>4. ASSUME NEW sent \in BOOLEAN, Find!find_light_bulb(sent) PROVE FindInv'
  <2>1. PICK wanted \in Nat, requests \in Nat :
            /\ wanted = fi_find.wanted - 1
            /\ requests = IF sent THEN fi_find.requests + 1 ELSE fi_find.requests
    BY <1>0, <1>4 DEF FindType, Find!find_light_bulb
  <2>2. fi_find' = [fi_find EXCEPT !.addr = NoBulb, !.wanted = wanted, !.requests = requests]
    BY <1>0, <1>4, <2>1 DEF Find!find_light_bulb, FindType
  <2>3. fi_find' \in FindType /\ fi_find'.requests = requests
    BY <1>0, <2>2 DEF FindType
  <2>4. fi_dropped' = (fi_dropped \/ ~sent) /\ UNCHANGED fi_joined
    BY <1>4 DEF Find!find_light_bulb
  <2>5. sent => requests > 0
    BY <1>0, <2>1 DEF FindType
  <2>6. QED
    BY <1>0, <1>4, <2>3, <2>4, <2>5, SearchStep DEF Find!find_light_bulb
<1>5. ASSUME NEW match \in Bulbs \cup {NoBulb}, NEW last \in BOOLEAN,
             Find!find_light_bulb_cb(match, last)
      PROVE  FindInv'
  <2>1. PICK requests \in Nat : requests = IF last THEN fi_find.requests - 1 ELSE fi_find.requests
    BY <1>0, <1>5 DEF FindType, Find!find_light_bulb_cb
  <2>2. PICK addr \in Bulbs \cup {NoBulb} :
            addr = IF fi_find.addr = NoBulb THEN match ELSE fi_find.addr
    BY <1>0 DEF FindType
  <2>3. PICK timer \in BOOLEAN :
            timer = IF fi_find.addr = NoBulb THEN match = NoBulb ELSE fi_find.timer
    BY <1>0 DEF FindType
  <2>4. fi_find' = [fi_find EXCEPT !.addr = addr, !.timer = timer, !.requests = requests]
    BY <1>0, <1>5, <2>1, <2>2, <2>3 DEF Find!find_light_bulb_cb, FindType
  <2>5. fi_find' \in FindType /\ fi_find'.addr = addr /\ fi_find'.timer = timer
    BY <1>0, <2>4 DEF FindType
  <2>6. addr = NoBulb => timer
    BY <2>2, <2>3
  <2>7. QED
    BY <1>0, <1>5, <2>5, <2>6, SearchStep DEF Find!find_light_bulb_cb
<1>6. ASSUME UNCHANGED <<fi_joined, fi_dropped, fi_find, fi_identify>>,
             fi_sends' \subseteq Buttons
      PROVE  FindInv'
  BY <1>6 DEF FindInv, Find!SearchGoesOn, OneToggle
<1>7. ASSUME NEW cmd \in Buttons,
             Find!CommandButton(cmd) \/ Find!light_switch_send_on_off(cmd)
      PROVE  FindInv'
  BY <1>6, <1>7 DEF FindInv, Find!CommandButton, Find!light_switch_send_on_off
<1>8. ASSUME OneToggle(fi_identify'),
             UNCHANGED <<fi_joined, fi_dropped, fi_find, fi_sends>>
      PROVE  FindInv'
  BY <1>8 DEF FindInv, Find!SearchGoesOn
<1>9. ASSUME NEW full \in BOOLEAN, Find!IdentifyButton(full) PROVE FindInv'
  <2>1. OneToggle(Mode!Schedule(fi_identify, "start_identifying", full))
    BY PressKeeps DEF FindInv
  <2>2. fi_identify' = Mode!Schedule(fi_identify, "start_identifying", full)
    BY <1>9, SameQueue DEF Find!IdentifyButton
  <2>3. QED
    BY <1>8, <1>9, <2>1, <2>2 DEF Find!IdentifyButton
<1>10. ASSUME NEW full \in BOOLEAN, Find!IdentifyCallback(full) PROVE FindInv'
  <2>1. fi_identify.queue # <<>>
    BY <1>10, SameQueue DEF Find!IdentifyCallback
  <2>2. PICK i : i = Mode!Taken(fi_identify)
    OBVIOUS
  <2>3. OneToggle(i)
    BY <2>1, <2>2, TakenKeeps DEF FindInv
  <2>4. OneToggle(Mode!start_identifying(i, fi_joined, full))
    BY <1>0, <2>3, ButtonKeeps
  <2>5. fi_identify' = Mode!start_identifying(i, fi_joined, full)
    BY <1>10, <2>2, SameMode, SameQueue DEF Find!IdentifyCallback
  <2>6. QED
    BY <1>8, <1>10, <2>4, <2>5 DEF Find!IdentifyCallback
<1>11. ASSUME NEW full \in BOOLEAN, Find!IdentifyCommand(full) PROVE FindInv'
  <2>1. CASE fi_identify.on /\ fi_identify' = Find!End(fi_identify)
    <3>1. OneToggle(Mode!End(fi_identify))
      BY <2>1, EndKeeps DEF FindInv
    <3>2. QED
      BY <1>8, <1>11, <2>1, <3>1, SameMode DEF Find!IdentifyCommand
  <2>2. CASE ~fi_identify.on /\ fi_identify' = Find!Begin(fi_identify, full)
    <3>1. OneToggle(Mode!Begin(fi_identify, full))
      BY <2>2, BeginKeeps DEF FindInv
    <3>2. QED
      BY <1>8, <1>11, <2>2, <3>1, SameMode DEF Find!IdentifyCommand
  <2>3. QED
    BY <1>11, <2>1, <2>2 DEF Find!IdentifyCommand
<1>12. ASSUME NEW queue \in BOOLEAN, NEW full \in BOOLEAN, Find!Toggle(queue, full)
       PROVE  FindInv'
  <2>1. Mode!MayToggle(fi_identify, queue)
    BY <1>12, SameToggle DEF Find!Toggle
  <2>2. OneToggle(Mode!toggle_identify_led(fi_identify, queue, full))
    BY <2>1, ToggleKeeps DEF FindInv
  <2>3. QED
    BY <1>8, <1>12, <2>2, SameToggle DEF Find!Toggle
<1>13. CASE UNCHANGED Find!vars
  BY <1>6, <1>13 DEF FindInv, Find!vars
<1>14. QED
  BY <1>1, <1>2, <1>3, <1>4, <1>5, <1>7, <1>9, <1>10, <1>11, <1>12, <1>13
     DEF Find!Next, Find!Identifying

-------------------------------------------------------------------------------
(* The coordinator.                                                            *)

StackType == [joined : BOOLEAN, initialised : BOOLEAN, open : BOOLEAN,
              bdb : {"off", "init", "idle", "formation", "steering"}]

TimerSeq == Seq({"finish", "close"})

\* A signal whose handler wants a network formed, at once or after a delay, or has the
\* stack initialised, which comes before that.
Wish(s) ==
    \/ s.sig \in {"SKIP_STARTUP", "FIRST_START", "LEAVE"}
    \/ s.sig = "FORMATION" /\ ~s.ok

Wished(q) == \E i \in 1..Len(q) : Wish(q[i])

Lone(q) == \A i, j \in 1..Len(q) : Wish(q[i]) /\ Wish(q[j]) => i = j

\* The signal that sets the alarm and lights the LED.
Opens(s) == s.sig = "STEERING" /\ s.ok

Opened(q) == \E i \in 1..Len(q) : Opens(q[i])

\* There is one wish at a time, and none while a network is being formed or is there.
OneWish(s, q, r) ==
    /\ Lone(q)
    /\ Wished(q) => r = 0
    /\ r <= 1
    /\ Wished(q) \/ r > 0 => ~s.joined /\ s.bdb \notin {"init", "formation"}
    /\ s.bdb \in {"init", "formation"} => ~s.joined

Closes(ts) == \E i \in 1..Len(ts) : ts[i] = "close"

OneFinish(ts) == \A i, j \in 1..Len(ts) : ts[i] = "finish" /\ ts[j] = "finish" => i = j

\* The alarm that puts the LED out comes after the end of the joining period.
InTurn(ts) ==
    \E i, j \in 1..Len(ts) : i < j /\ ts[i] = "close" /\ ts[j] = "finish"

\* The LED of an open network is lit, or is going to be.
Lighting(s, ts, q, ext, lit, hist) ==
    /\ s.open => s.joined /\ Closes(ts)
    /\ ext => q # <<>>
    /\ "twice" \notin hist => OneFinish(ts)
    /\ s.open /\ "twice" \notin hist /\ "unshown" \notin hist =>
          \/ s.bdb = "steering" \/ Opened(q) \/ ext
          \/ InTurn(ts) /\ (lit \/ q # <<>>)

CoKnown == {"start failed", "refused", "no retry", "twice", "unshown"}

CoTypes ==
    /\ co_stack \in StackType /\ co_timers \in TimerSeq /\ co_retries \in Nat
    /\ co_signals \in Seq(Coordinator!Signal)
    /\ co_led \in BOOLEAN /\ co_extending \in BOOLEAN
    /\ co_panid \in [preparing : Nat, kept : Nat]
    /\ co_known \subseteq CoKnown
    /\ OneToggle(co_identify)

CoInv ==
    /\ CoTypes
    /\ OneWish(co_stack, co_signals, co_retries)
    /\ Lighting(co_stack, co_timers, co_signals, co_extending, co_led, co_known)

LEMMA CoordinatorShows ==
  CoInv => Coordinator!TypeOK /\ Coordinator!LitWhileOpen /\ Coordinator!CoordinatorBlink
<1> SUFFICES ASSUME CoInv
             PROVE  Coordinator!TypeOK /\ Coordinator!LitWhileOpen /\ Coordinator!CoordinatorBlink
  OBVIOUS
<1>1. Coordinator!TypeOK
  BY SameMode DEF CoInv, CoTypes, CoKnown, StackType, TimerSeq, Coordinator!TypeOK, OneToggle
<1>2. Coordinator!CoordinatorBlink
  BY SameToggle, OneToggleEnds DEF CoInv, CoTypes, Coordinator!CoordinatorBlink
<1>3. Coordinator!LitWhileOpen
  <2> SUFFICES ASSUME co_stack.open, co_signals = <<>>, co_stack.bdb = "idle",
                      "twice" \notin co_known, "unshown" \notin co_known
               PROVE  co_led
    BY DEF Coordinator!LitWhileOpen, Coordinator!LitUnlessFull, Coordinator!Settled
  <2>1. ~Opened(co_signals)
    BY DEF Opened
  <2>2. QED
    BY <2>1 DEF CoInv, Lighting
<1>4. QED
  BY <1>1, <1>2, <1>3

\* The queues: what taking the first element and adding a last one do.
LEMMA FirstTaken ==
  ASSUME NEW S, NEW q \in Seq(S), q # <<>>
  PROVE  /\ Head(q) \in S /\ Tail(q) \in Seq(S)
         /\ Len(q) \in Nat \ {0} /\ Len(Tail(q)) = Len(q) - 1 /\ Head(q) = q[1]
         /\ \A i \in 1..Len(Tail(q)) : Tail(q)[i] = q[i + 1] /\ i + 1 \in 1..Len(q)
         /\ \A i \in 2..Len(q) : i - 1 \in 1..Len(Tail(q)) /\ Tail(q)[i - 1] = q[i]
OBVIOUS

LEMMA LastAdded ==
  ASSUME NEW S, NEW q \in Seq(S), NEW e \in S
  PROVE  /\ Append(q, e) \in Seq(S) /\ Len(q) \in Nat /\ Append(q, e) # <<>>
         /\ Len(Append(q, e)) = Len(q) + 1
         /\ \A i \in 1..Len(q) : Append(q, e)[i] = q[i] /\ i \in 1..Len(Append(q, e))
         /\ Append(q, e)[Len(q) + 1] = e
         /\ \A i \in 1..Len(Append(q, e)) :
               \/ i \in 1..Len(q) /\ Append(q, e)[i] = q[i]
               \/ i = Len(q) + 1 /\ Append(q, e)[i] = e
OBVIOUS

LEMMA SignalTaken ==
  ASSUME NEW q \in Seq(Coordinator!Signal), q # <<>>
  PROVE  /\ Wished(Tail(q)) => Wished(q)
         /\ Wish(Head(q)) => Wished(q)
         /\ Lone(q) => Lone(Tail(q))
         /\ Lone(q) /\ Wish(Head(q)) => ~Wished(Tail(q))
         /\ Opened(q) => Opened(Tail(q)) \/ Opens(Head(q))
<1> DEFINE r == Tail(q)
           h == Head(q)
<1>0. /\ Len(q) \in Nat \ {0} /\ Len(r) = Len(q) - 1 /\ h = q[1]
      /\ \A i \in 1..Len(r) : r[i] = q[i + 1] /\ i + 1 \in 1..Len(q)
      /\ \A i \in 2..Len(q) : i - 1 \in 1..Len(r) /\ r[i - 1] = q[i]
  BY FirstTaken
<1> HIDE DEF r, h
<1>1. Wished(r) => Wished(q)
  BY <1>0 DEF Wished
<1>2. Wish(h) => Wished(q)
  <2>1. 1 \in 1..Len(q)
    BY <1>0
  <2>2. QED
    BY <1>0, <2>1 DEF Wished
<1>3. Lone(q) => Lone(r)
  <2> SUFFICES ASSUME Lone(q), NEW i \in 1..Len(r), NEW j \in 1..Len(r),
                      Wish(r[i]), Wish(r[j])
               PROVE  i = j
    BY DEF Lone
  <2>1. Wish(q[i + 1]) /\ Wish(q[j + 1]) /\ i + 1 \in 1..Len(q) /\ j + 1 \in 1..Len(q)
    BY <1>0
  <2>2. i + 1 = j + 1
    BY <2>1 DEF Lone
  <2>3. QED
    BY <2>2
<1>4. Lone(q) /\ Wish(h) => ~Wished(r)
  <2> SUFFICES ASSUME Lone(q), Wish(h), NEW i \in 1..Len(r), Wish(r[i])
               PROVE  FALSE
    BY DEF Wished
  <2>1. Wish(q[i + 1]) /\ Wish(q[1]) /\ i + 1 \in 1..Len(q) /\ 1 \in 1..Len(q)
    BY <1>0
  <2>2. i + 1 = 1
    BY <2>1 DEF Lone
  <2>3. QED
    BY <2>2
<1>5. Opened(q) => Opened(r) \/ Opens(h)
  <2> SUFFICES ASSUME NEW i \in 1..Len(q), Opens(q[i]), ~Opens(h) PROVE Opened(r)
    BY DEF Opened
  <2>1. i \in 2..Len(q)
    <3>1. i # 1
      BY <1>0
    <3>2. QED
      BY <1>0, <3>1
  <2>2. i - 1 \in 1..Len(r) /\ Opens(r[i - 1])
    BY <1>0, <2>1
  <2>3. QED
    BY <2>2 DEF Opened
<1>6. QED
  BY <1>1, <1>2, <1>3, <1>4, <1>5 DEF r, h

LEMMA SignalAdded ==
  ASSUME NEW q \in Seq(Coordinator!Signal), NEW e \in Coordinator!Signal
  PROVE  /\ Wished(Append(q, e)) <=> Wished(q) \/ Wish(e)
         /\ Lone(q) /\ (Wish(e) => ~Wished(q)) => Lone(Append(q, e))
         /\ Opened(q) \/ Opens(e) => Opened(Append(q, e))
<1> DEFINE r == Append(q, e)
<1>0. /\ Len(q) \in Nat /\ Len(r) = Len(q) + 1
      /\ \A i \in 1..Len(q) : r[i] = q[i] /\ i \in 1..Len(r)
      /\ r[Len(q) + 1] = e /\ Len(q) + 1 \in 1..Len(r)
      /\ \A i \in 1..Len(r) : \/ i \in 1..Len(q) /\ r[i] = q[i]
                              \/ i = Len(q) + 1 /\ r[i] = e
  BY LastAdded
<1> HIDE DEF r
<1>1. Wished(r) <=> Wished(q) \/ Wish(e)
  BY <1>0 DEF Wished
<1>2. Lone(q) /\ (Wish(e) => ~Wished(q)) => Lone(r)
  <2> SUFFICES ASSUME Lone(q), Wish(e) => ~Wished(q),
                      NEW i \in 1..Len(r), NEW j \in 1..Len(r), Wish(r[i]), Wish(r[j])
               PROVE  i = j
    BY DEF Lone
  <2>1. CASE Wish(e)
    <3>1. \A k \in 1..Len(q) : ~Wish(q[k])
      BY <2>1 DEF Wished
    <3>2. QED
      BY <1>0, <3>1
  <2>2. CASE ~Wish(e)
    <3>1. i \in 1..Len(q) /\ j \in 1..Len(q) /\ Wish(q[i]) /\ Wish(q[j])
      BY <1>0, <2>2
    <3>2. QED
      BY <3>1 DEF Lone
  <2>3. QED
    BY <2>1, <2>2
<1>3. Opened(q) \/ Opens(e) => Opened(r)
  BY <1>0 DEF Opened
<1>4. QED
  BY <1>1, <1>2, <1>3 DEF r

\* The alarms.
LEMMA AlarmSet ==
  ASSUME NEW ts \in TimerSeq, NEW e \in {"finish", "close"}
  PROVE  /\ Append(ts, e) \in TimerSeq
         /\ Closes(ts) \/ e = "close" => Closes(Append(ts, e))
         /\ Closes(ts) /\ e = "finish" => InTurn(Append(ts, e))
         /\ InTurn(ts) => InTurn(Append(ts, e))
         /\ OneFinish(ts) /\ e = "close" => OneFinish(Append(ts, e))
         /\ (\A i \in 1..Len(ts) : ts[i] # "finish") => OneFinish(Append(ts, e))
<1> DEFINE us == Append(ts, e)
<1>0. /\ us \in TimerSeq /\ Len(ts) \in Nat /\ Len(us) = Len(ts) + 1
      /\ \A i \in 1..Len(ts) : us[i] = ts[i] /\ i \in 1..Len(us)
      /\ us[Len(ts) + 1] = e /\ Len(ts) + 1 \in 1..Len(us)
      /\ \A i \in 1..Len(us) : \/ i \in 1..Len(ts) /\ us[i] = ts[i]
                               \/ i = Len(ts) + 1 /\ us[i] = e
  BY LastAdded DEF TimerSeq
<1> HIDE DEF us
<1>1. Closes(ts) \/ e = "close" => Closes(us)
  BY <1>0 DEF Closes
<1>2. Closes(ts) /\ e = "finish" => InTurn(us)
  <2> SUFFICES ASSUME NEW i \in 1..Len(ts), ts[i] = "close", e = "finish" PROVE InTurn(us)
    BY DEF Closes
  <2>1. i < Len(ts) + 1 /\ us[i] = "close" /\ us[Len(ts) + 1] = "finish"
    BY <1>0
  <2>2. QED
    BY <1>0, <2>1 DEF InTurn
<1>3. InTurn(ts) => InTurn(us)
  BY <1>0 DEF InTurn
<1>4. OneFinish(ts) /\ e = "close" => OneFinish(us)
  <2> SUFFICES ASSUME OneFinish(ts), e = "close", NEW i \in 1..Len(us), NEW j \in 1..Len(us),
                      us[i] = "finish", us[j] = "finish"
               PROVE  i = j
    BY DEF OneFinish
  <2>1. i \in 1..Len(ts) /\ j \in 1..Len(ts) /\ ts[i] = "finish" /\ ts[j] = "finish"
    BY <1>0
  <2>2. QED
    BY <2>1 DEF OneFinish
<1>5. (\A i \in 1..Len(ts) : ts[i] # "finish") => OneFinish(us)
  BY <1>0 DEF OneFinish
<1>6. QED
  BY <1>0, <1>1, <1>2, <1>3, <1>4, <1>5 DEF us

\* Setting the alarm of the LED, or finding the table full, and what is known of it then.
LEMMA LedAlarmSet ==
  ASSUME NEW ts \in TimerSeq, NEW kn, kn \subseteq CoKnown, NEW full \in BOOLEAN,
         "twice" \notin kn => OneFinish(ts)
  PROVE  LET us == Coordinator!SetFinish(ts, full)
             k == Coordinator!Shown(kn, ts, full)
         IN  /\ us \in TimerSeq /\ k \subseteq CoKnown
             /\ Closes(ts) => Closes(us)
             /\ "twice" \notin k => OneFinish(us)
             /\ "twice" \notin k /\ "unshown" \notin k /\ Closes(ts) => InTurn(us)
<1> DEFINE us == Coordinator!SetFinish(ts, full)
           k == Coordinator!Shown(kn, ts, full)
<1>1. k \subseteq CoKnown
  BY DEF Coordinator!Shown, CoKnown
<1>2. CASE full
  <2>1. us = ts /\ k = kn \cup {"unshown"}
    BY <1>2 DEF Coordinator!SetFinish, Coordinator!Shown
  <2>2. QED
    BY <1>1, <2>1
<1>3. CASE ~full
  <2>1. us = Append(ts, "finish")
    BY <1>3 DEF Coordinator!SetFinish
  <2>2. /\ us \in TimerSeq
        /\ Closes(ts) => Closes(us) /\ InTurn(us)
        /\ (\A i \in 1..Len(ts) : ts[i] # "finish") => OneFinish(us)
    BY <2>1, AlarmSet
  <2>3. "twice" \notin k => \A i \in 1..Len(ts) : ts[i] # "finish"
    BY <1>3 DEF Coordinator!Shown, Coordinator!Contains
  <2>4. QED
    BY <1>1, <2>2, <2>3
<1>4. QED
  BY <1>2, <1>3

LEMMA AlarmExpired ==
  ASSUME NEW ts \in TimerSeq, ts # <<>>
  PROVE  /\ Tail(ts) \in TimerSeq
         /\ OneFinish(ts) => OneFinish(Tail(ts))
         /\ Head(ts) = "finish" /\ Closes(ts) => Closes(Tail(ts))
         /\ Head(ts) = "finish" /\ OneFinish(ts) => ~InTurn(ts)
<1> DEFINE us == Tail(ts)
<1>0. /\ us \in TimerSeq /\ Len(ts) \in Nat \ {0} /\ Len(us) = Len(ts) - 1 /\ Head(ts) = ts[1]
      /\ \A i \in 1..Len(us) : us[i] = ts[i + 1] /\ i + 1 \in 1..Len(ts)
      /\ \A i \in 2..Len(ts) : i - 1 \in 1..Len(us) /\ us[i - 1] = ts[i]
  BY FirstTaken DEF TimerSeq
<1> HIDE DEF us
<1>1. OneFinish(ts) => OneFinish(us)
  <2> SUFFICES ASSUME OneFinish(ts), NEW i \in 1..Len(us), NEW j \in 1..Len(us),
                      us[i] = "finish", us[j] = "finish"
               PROVE  i = j
    BY DEF OneFinish
  <2>1. i + 1 \in 1..Len(ts) /\ j + 1 \in 1..Len(ts) /\ ts[i + 1] = "finish" /\ ts[j + 1] = "finish"
    BY <1>0
  <2>2. i + 1 = j + 1
    BY <2>1 DEF OneFinish
  <2>3. QED
    BY <2>2
<1>2. Head(ts) = "finish" /\ Closes(ts) => Closes(us)
  <2> SUFFICES ASSUME ts[1] = "finish", NEW i \in 1..Len(ts), ts[i] = "close" PROVE Closes(us)
    BY <1>0 DEF Closes
  <2>1. i \in 2..Len(ts)
    <3>1. i # 1
      OBVIOUS
    <3>2. QED
      BY <1>0, <3>1
  <2>2. QED
    BY <1>0, <2>1 DEF Closes
<1>3. Head(ts) = "finish" /\ OneFinish(ts) => ~InTurn(ts)
  <2> SUFFICES ASSUME ts[1] = "finish", OneFinish(ts), NEW i \in 1..Len(ts), NEW j \in 1..Len(ts),
                      i < j, ts[j] = "finish"
               PROVE  FALSE
    BY <1>0 DEF InTurn
  <2>1. 1 \in 1..Len(ts)
    BY <1>0
  <2>2. j = 1
    BY <2>1 DEF OneFinish
  <2>3. QED
    BY <2>2
<1>4. QED
  BY <1>0, <1>1, <1>2, <1>3 DEF us

LEMMA Smallest ==
  ASSUME NEW S \in SUBSET Nat, S # {}
  PROVE  Coordinator!Min(S) \in S
<1>1. PICK i \in S : \A j \in S : <<j, i>> \notin OpToRel(<, Nat)
  BY NatLessThanWellFounded, WFMin
<1>2. \A j \in S : ~(j < i)
  BY <1>1 DEF OpToRel
<1>3. \A j \in S : i <= j
  BY <1>2
<1>4. QED
  BY <1>3 DEF Coordinator!Min

\* What is left of a queue without its k-th element.
LEMMA Without ==
  ASSUME NEW S, NEW q \in Seq(S), NEW k \in 1..Len(q)
  PROVE  /\ Coordinator!RemoveAt(q, k) \in Seq(S)
         /\ Len(Coordinator!RemoveAt(q, k)) = Len(q) - 1
         /\ \A i \in 1..(Len(q) - 1) :
               Coordinator!RemoveAt(q, k)[i] = q[IF i < k THEN i ELSE i + 1]
<1>0. PICK n \in Nat : n = Len(q)
  BY LenProperties
<1>1. n = Len(q) /\ \A i \in 1..n : q[i] \in S
  BY <1>0, LenProperties
<1>2. PICK a \in Nat, b \in Nat : k = a + 1 /\ a + b = n - 1 /\ b = n - k /\ a \in 0..(n - 1)
  <2>1. PICK a \in Nat : k = a + 1 /\ a \in 0..(n - 1)
    BY <1>0
  <2>2. PICK b \in Nat : a + b = n - 1 /\ b = n - k
    BY <2>1
  <2>3. QED
    BY <2>1, <2>2
<1> DEFINE front == SubSeq(q, 1, k - 1)
           back == SubSeq(q, k + 1, n)
<1>3. front \in Seq(S) /\ Len(front) = a /\ \A i \in 1..a : front[i] = q[i]
  BY <1>1, <1>2, SubSeqProperties
<1>4. back \in Seq(S) /\ Len(back) = b /\ \A i \in 1..b : back[i] = q[k + i]
  BY <1>1, <1>2, SubSeqProperties
<1>5. Coordinator!RemoveAt(q, k) = front \o back
  BY <1>1 DEF Coordinator!RemoveAt
<1> HIDE DEF front, back
<1>6. /\ front \o back \in Seq(S) /\ Len(front \o back) = a + b
      /\ \A i \in 1..(a + b) : (front \o back)[i] = IF i <= a THEN front[i] ELSE back[i - a]
  <2>1. /\ front \o back \in Seq(S) /\ Len(front \o back) = Len(front) + Len(back)
        /\ \A i \in 1..(Len(front) + Len(back)) :
             (front \o back)[i] = IF i <= Len(front) THEN front[i] ELSE back[i - Len(front)]
    BY <1>3, <1>4, ConcatProperties
  <2>2. QED
    BY <1>3, <1>4, <2>1
<1>7. ASSUME NEW i \in 1..(n - 1)
      PROVE  (front \o back)[i] = q[IF i < k THEN i ELSE i + 1]
  <2>1. i \in 1..(a + b)
    BY <1>1, <1>2
  <2>2. CASE i <= a
    <3>1. i \in 1..a /\ i < k
      BY <1>2, <2>1, <2>2
    <3>2. QED
      BY <1>3, <1>6, <2>1, <2>2, <3>1
  <2>3. CASE ~(i <= a)
    <3>1. PICK c \in 1..b : c = i - a /\ k + c = i + 1 /\ ~(i < k)
      BY <1>2, <2>1, <2>3
    <3>2. QED
      BY <1>4, <1>6, <2>1, <2>3, <3>1
  <2>4. QED
    BY <2>2, <2>3
<1>8. QED
  BY <1>1, <1>2, <1>5, <1>6, <1>7

\* Cancelling takes one alarm of the kind, or none is there.
LEMMA RemovedOne ==
  ASSUME NEW ts \in TimerSeq, NEW e
  PROVE  LET us == Coordinator!RemoveFirst(ts, e)
         IN  /\ us \in TimerSeq
             /\ \/ us = ts
                \/ \E k \in 1..Len(ts) :
                      /\ ts[k] = e /\ Len(us) = Len(ts) - 1
                      /\ \A i \in 1..Len(us) : us[i] = ts[IF i < k THEN i ELSE i + 1]
<1> DEFINE us == Coordinator!RemoveFirst(ts, e)
           I == {i \in 1..Len(ts) : ts[i] = e}
<1>0. Len(ts) \in Nat
  BY DEF TimerSeq
<1>1. CASE I = {}
  BY <1>1 DEF Coordinator!RemoveFirst
<1>2. CASE I # {}
  <2>1. PICK k \in 1..Len(ts) : k = Coordinator!Min(I) /\ ts[k] = e
    <3>1. I \in SUBSET Nat
      BY <1>0
    <3>2. Coordinator!Min(I) \in I
      BY <1>2, <3>1, Smallest
    <3>3. QED
      BY <3>2
  <2>2. us = Coordinator!RemoveAt(ts, k)
    BY <1>2, <2>1 DEF Coordinator!RemoveFirst, Coordinator!SelectInSeq
  <2> HIDE DEF us, I
  <2>3. /\ us \in TimerSeq /\ Len(us) = Len(ts) - 1
        /\ \A i \in 1..(Len(ts) - 1) : us[i] = ts[IF i < k THEN i ELSE i + 1]
    BY <2>2, Without DEF TimerSeq
  <2>4. QED
    BY <2>1, <2>3 DEF us
<1>3. QED
  BY <1>1, <1>2

LEMMA AlarmCancelled ==
  ASSUME NEW ts \in TimerSeq, NEW e \in {"finish", "close"}
  PROVE  /\ Coordinator!RemoveFirst(ts, e) \in TimerSeq
         /\ OneFinish(ts) => OneFinish(Coordinator!RemoveFirst(ts, e))
         /\ Closes(ts) => Closes(Coordinator!RemoveFirst(ts, "finish"))
<1>1. ASSUME OneFinish(ts), NEW us, us = Coordinator!RemoveFirst(ts, e),
             NEW i \in 1..Len(us), NEW j \in 1..Len(us), us[i] = "finish", us[j] = "finish"
      PROVE  i = j
  <2>0. Len(ts) \in Nat
    BY DEF TimerSeq
  <2>1. CASE us = ts
    BY <1>1, <2>1 DEF OneFinish
  <2>2. ASSUME NEW k \in 1..Len(ts), Len(us) = Len(ts) - 1,
               \A l \in 1..Len(us) : us[l] = ts[IF l < k THEN l ELSE l + 1]
        PROVE  i = j
    <3>0. i \in 1..(Len(ts) - 1) /\ j \in 1..(Len(ts) - 1)
      BY <2>2
    <3>1. PICK a \in 1..Len(ts) : a = (IF i < k THEN i ELSE i + 1) /\ ts[a] = "finish"
      <4>1. (IF i < k THEN i ELSE i + 1) \in 1..Len(ts)
        BY <2>0, <3>0
      <4>2. QED
        BY <1>1, <2>2, <4>1
    <3>2. PICK b \in 1..Len(ts) : b = (IF j < k THEN j ELSE j + 1) /\ ts[b] = "finish"
      <4>1. (IF j < k THEN j ELSE j + 1) \in 1..Len(ts)
        BY <2>0, <3>0
      <4>2. QED
        BY <1>1, <2>2, <4>1
    <3>3. a = b
      BY <1>1, <3>1, <3>2 DEF OneFinish
    <3>4. QED
      BY <2>0, <2>2, <3>0, <3>1, <3>2, <3>3
  <2>3. QED
    BY <1>1, <2>1, <2>2, RemovedOne
<1>2. ASSUME NEW us, us = Coordinator!RemoveFirst(ts, "finish"),
             NEW i \in 1..Len(ts), ts[i] = "close"
      PROVE  Closes(us)
  <2>0. Len(ts) \in Nat
    BY DEF TimerSeq
  <2>1. CASE us = ts
    BY <1>2, <2>1 DEF Closes
  <2>2. ASSUME NEW k \in 1..Len(ts), ts[k] = "finish", Len(us) = Len(ts) - 1,
               \A l \in 1..Len(us) : us[l] = ts[IF l < k THEN l ELSE l + 1]
        PROVE  Closes(us)
    <3>1. i # k
      BY <1>2, <2>2
    <3>2. PICK l \in 1..Len(us) : l = (IF i < k THEN i ELSE i - 1)
      BY <2>0, <2>2, <3>1
    <3>3. us[l] = ts[i]
      BY <2>0, <2>2, <3>1, <3>2
    <3>4. QED
      BY <1>2, <3>3 DEF Closes
  <2>3. QED
    BY <1>2, <2>1, <2>2, RemovedOne
<1>3. Coordinator!RemoveFirst(ts, e) \in TimerSeq
  BY RemovedOne
<1>4. OneFinish(ts) => OneFinish(Coordinator!RemoveFirst(ts, e))
  BY <1>1 DEF OneFinish
<1>5. Closes(ts) => Closes(Coordinator!RemoveFirst(ts, "finish"))
  BY <1>2 DEF Closes
<1>6. QED
  BY <1>3, <1>4, <1>5

\* Commissioning, and the handler of a signal, touch only what the stack is busy with.
LEMMA Commissioned ==
  ASSUME NEW s \in StackType, NEW mode \in {"init", "formation", "steering"},
         NEW t, t = Coordinator!Commission(s, mode)
  PROVE  /\ t \in StackType /\ t.joined = s.joined /\ t.open = s.open
         /\ t.bdb = IF s.bdb \in {"off", "idle"} THEN mode ELSE s.bdb
BY DEF StackType, Coordinator!Commission, Coordinator!Accepts

LEMMA StackHandled ==
  ASSUME NEW s \in StackType, NEW h \in Coordinator!Signal, NEW t,
         t = IF h.sig = "REBOOT" THEN Coordinator!OwnReboot(s, h.ok)
             ELSE Coordinator!zigbee_default_signal_handler(s, h.sig, h.ok)
  PROVE  /\ t \in StackType /\ t.joined = s.joined /\ t.open = s.open
         /\ \/ t.bdb \in {s.bdb, "steering"}
            \/ Wish(h) /\ t.bdb \in {"init", "formation"} /\ s.bdb # "steering"
         /\ s.bdb = "steering" => t.bdb = "steering"
         /\ h.sig = "FORMATION" /\ ~h.ok => t.bdb = s.bdb
<1> USE DEF Coordinator!OwnReboot, Coordinator!zigbee_default_signal_handler,
        Coordinator!FirstStart, Coordinator!Formation, Coordinator!Leave
<1>1. CASE t = s
  BY <1>1
<1>2. CASE t = Coordinator!Commission(s, "steering") /\ (h.sig = "FORMATION" => h.ok)
  BY <1>2, Commissioned
<1>3. CASE t = Coordinator!Commission(s, "formation") /\ h.sig \in {"FIRST_START", "LEAVE"}
  <2>1. Wish(h) /\ h.sig # "FORMATION"
    BY <1>3 DEF Wish
  <2>2. QED
    BY <1>3, <2>1, Commissioned
<1>4. CASE t = Coordinator!SkipStartup(s) /\ h.sig = "SKIP_STARTUP"
  <2>1. PICK u \in StackType : /\ u = [s EXCEPT !.initialised = TRUE] /\ u.joined = s.joined
                               /\ u.open = s.open /\ u.bdb = s.bdb
    <3>1. PICK u : u = [s EXCEPT !.initialised = TRUE]
      OBVIOUS
    <3>2. u \in StackType
      BY <3>1, Zenon DEF StackType
    <3>3. u.joined = s.joined /\ u.open = s.open /\ u.bdb = s.bdb
      BY <3>1 DEF StackType
    <3>4. QED
      BY <3>1, <3>2, <3>3
  <2>2. t = Coordinator!Commission(u, "init")
    BY <1>4, <2>1 DEF Coordinator!SkipStartup
  <2>3. Wish(h) /\ h.sig # "FORMATION"
    BY <1>4 DEF Wish
  <2>4. QED
    BY <2>1, <2>2, <2>3, Commissioned
<1>5. QED
  BY <1>1, <1>2, <1>3, <1>4

LEMMA CoHandle ==
  ASSUME CoInv, Coordinator!Handle
  PROVE  CoInv'
<1> DEFINE h == Head(co_signals)
           q == Tail(co_signals)
<1>0. /\ co_stack \in StackType /\ co_timers \in TimerSeq /\ co_retries \in Nat
      /\ co_signals \in Seq(Coordinator!Signal) /\ co_signals # <<>>
      /\ co_signals' = q /\ UNCHANGED <<co_extending, co_identify>>
      /\ ~co_extending
  BY DEF CoInv, CoTypes, Coordinator!Handle, Coordinator!zboss_signal_handler
<1>f. PICK full \in BOOLEAN : Coordinator!zboss_signal_handler(h, full)
  BY DEF Coordinator!Handle
<1>1. h \in Coordinator!Signal /\ q \in Seq(Coordinator!Signal)
  BY <1>0, FirstTaken
<1>2. /\ Wished(q) => Wished(co_signals)
      /\ Wish(h) => Wished(co_signals)
      /\ Lone(co_signals) => Lone(q)
      /\ Lone(co_signals) /\ Wish(h) => ~Wished(q)
      /\ Opened(co_signals) => Opened(q) \/ Opens(h)
  BY <1>0, SignalTaken
<1> HIDE DEF h, q
<1>3. PICK t : /\ t = co_stack' /\ t \in StackType
               /\ t.joined = co_stack.joined /\ t.open = co_stack.open
               /\ \/ t.bdb \in {co_stack.bdb, "steering"}
                  \/ Wish(h) /\ t.bdb \in {"init", "formation"} /\ co_stack.bdb # "steering"
               /\ co_stack.bdb = "steering" => t.bdb = "steering"
               /\ h.sig = "FORMATION" /\ ~h.ok => t.bdb = co_stack.bdb
  <2>1. co_stack' = IF h.sig = "REBOOT" THEN Coordinator!OwnReboot(co_stack, h.ok)
                    ELSE Coordinator!zigbee_default_signal_handler(co_stack, h.sig, h.ok)
    BY <1>f DEF Coordinator!zboss_signal_handler
  <2>2. QED
    BY <1>0, <1>1, <2>1, StackHandled
<1>4. PICK r \in Nat : r = co_retries' /\ \/ r = co_retries
                                          \/ h.sig = "FORMATION" /\ ~h.ok /\ r = co_retries + 1
  BY <1>0, <1>f DEF Coordinator!zboss_signal_handler, Coordinator!Retry
<1>5. OneWish(t, q, r)
  <2>1. h.sig = "FORMATION" /\ ~h.ok => Wish(h)
    BY DEF Wish
  <2>2. Lone(q)
    BY <1>2 DEF CoInv, OneWish
  <2>3. Wish(h) => ~Wished(q) /\ co_retries = 0 /\ ~co_stack.joined
                   /\ co_stack.bdb \notin {"init", "formation"}
    BY <1>2 DEF CoInv, OneWish
  <2>4. Wished(q) => r = 0
    BY <1>0, <1>2, <1>4, <2>1, <2>3 DEF CoInv, OneWish
  <2>5. r <= 1
    BY <1>0, <1>4, <2>1, <2>3 DEF CoInv, OneWish
  <2>6. Wished(q) => ~Wish(h) /\ ~t.joined /\ t.bdb \notin {"init", "formation"}
    BY <1>2, <1>3, <2>3 DEF CoInv, OneWish
  <2>7. r > 0 => ~t.joined /\ t.bdb \notin {"init", "formation"}
    <3>1. CASE r = co_retries /\ r > 0
      BY <1>0, <1>3, <2>3, <3>1 DEF CoInv, OneWish
    <3>2. CASE h.sig = "FORMATION" /\ ~h.ok
      BY <1>3, <2>1, <2>3, <3>2
    <3>3. QED
      BY <1>4, <3>1, <3>2
  <2>8. t.bdb \in {"init", "formation"} => ~t.joined
    BY <1>3, <2>3 DEF CoInv, OneWish
  <2>9. QED
    BY <2>2, <2>4, <2>5, <2>6, <2>7, <2>8 DEF OneWish
<1>6. PICK k : k \subseteq CoKnown /\ co_known' = Coordinator!Mishaps(co_stack, h, full) \cup k
        /\ \/ co_timers' = co_timers /\ k = co_known /\ ~Opens(h)
           \/ /\ co_timers' = Coordinator!SetFinish(co_timers, full)
              /\ k = Coordinator!Shown(co_known, co_timers, full)
  <2>1. CASE Opens(h)
    <3>1. /\ co_timers' = Coordinator!SetFinish(co_timers, full)
          /\ co_known' = Coordinator!Mishaps(co_stack, h, full)
                           \cup Coordinator!Shown(co_known, co_timers, full)
      BY <1>f, <2>1 DEF Opens, Coordinator!zboss_signal_handler, Coordinator!OwnSteering
    <3>2. Coordinator!Shown(co_known, co_timers, full) \subseteq CoKnown
      BY DEF CoInv, CoTypes, CoKnown, Coordinator!Shown
    <3>3. QED
      BY <3>1, <3>2
  <2>2. CASE ~Opens(h)
    <3>1. /\ co_timers' = co_timers
          /\ co_known' = Coordinator!Mishaps(co_stack, h, full) \cup co_known
      BY <1>f, <2>2 DEF Opens, Coordinator!zboss_signal_handler, Coordinator!OwnSteering
    <3>2. QED
      BY <2>2, <3>1 DEF CoInv, CoTypes
  <2>3. QED
    BY <2>1, <2>2
<1>m. /\ Coordinator!Mishaps(co_stack, h, full) \subseteq {"start failed", "refused", "no retry"}
      /\ co_led' = Coordinator!Lit(t, co_timers')
  <2>1. co_led' = Coordinator!Lit(t, co_timers')
    BY <1>3, <1>f DEF Coordinator!zboss_signal_handler
  <2>2. QED
    BY <2>1 DEF Coordinator!Mishaps
<1>7. /\ co_timers' \in TimerSeq
      /\ Closes(co_timers) => Closes(co_timers')
      /\ "twice" \notin k => OneFinish(co_timers')
      /\ k \cap {"twice", "unshown"} = {} /\ Closes(co_timers) =>
            (~Opens(h) /\ k = co_known /\ co_timers' = co_timers) \/ InTurn(co_timers')
  <2>0. /\ "twice" \notin co_known => OneFinish(co_timers)
        /\ co_known \subseteq CoKnown
    BY DEF CoInv, CoTypes, Lighting
  <2>1. CASE co_timers' = co_timers /\ k = co_known /\ ~Opens(h)
    BY <1>0, <2>0, <2>1
  <2>2. CASE /\ co_timers' = Coordinator!SetFinish(co_timers, full)
             /\ k = Coordinator!Shown(co_known, co_timers, full)
    BY <1>0, <2>0, <2>2, LedAlarmSet
  <2>3. QED
    BY <1>6, <2>1, <2>2
<1>8. /\ "twice" \notin co_known' <=> "twice" \notin k
      /\ "unshown" \notin co_known' <=> "unshown" \notin k
  BY <1>6, <1>m
<1>9. InTurn(co_timers') /\ t.joined => co_led'
  BY <1>m DEF InTurn, Coordinator!Lit, Coordinator!Contains
<1>10. Lighting(t, co_timers', q, co_extending', co_led', co_known')
  <2>1. t.open => t.joined /\ Closes(co_timers) /\ Closes(co_timers')
    BY <1>3, <1>7 DEF CoInv, Lighting
  <2>2. ~co_extending'
    BY <1>0
  <2> SUFFICES ASSUME t.open, k \cap {"twice", "unshown"} = {}
               PROVE  t.bdb = "steering" \/ Opened(q) \/ InTurn(co_timers')
    BY <1>7, <1>8, <1>9, <2>1, <2>2 DEF Lighting
  <2>3. CASE InTurn(co_timers')
    BY <2>3
  <2>4. CASE ~Opens(h) /\ k = co_known /\ co_timers' = co_timers
    <3>1. co_stack.bdb = "steering" \/ Opened(co_signals) \/ InTurn(co_timers)
      BY <1>0, <1>3, <2>4 DEF CoInv, Lighting
    <3>2. QED
      BY <1>2, <1>3, <2>4, <3>1
  <2>5. QED
    BY <1>7, <2>1, <2>3, <2>4
<1>11. CoTypes'
  <2>1. co_panid' \in [preparing : Nat, kept : Nat]
    <3>0. co_panid.preparing \in Nat
      BY DEF CoInv, CoTypes
    <3>1. PICK n \in Nat : n = co_panid.preparing + 1
      BY <3>0
    <3>2. co_panid' \in {co_panid, [co_panid EXCEPT !.preparing = n]}
      <4>1. co_panid \in [preparing : Nat, kept : Nat]
        BY DEF CoInv, CoTypes
      <4>2. QED
        BY <1>f, <3>1, <4>1 DEF Coordinator!zboss_signal_handler, Coordinator!PanIdConflict
    <3>3. QED
      BY <3>2 DEF CoInv, CoTypes
  <2>2. co_led' \in BOOLEAN
    <3>1. t.joined \in BOOLEAN
      BY <1>3 DEF StackType
    <3>2. QED
      BY <1>m, <3>1 DEF Coordinator!Lit
  <2>3. co_known' \subseteq CoKnown
    BY <1>6, <1>m DEF CoKnown
  <2>4. QED
    BY <1>0, <1>1, <1>3, <1>4, <1>7, <2>1, <2>2, <2>3 DEF CoInv, CoTypes, OneToggle
<1>12. QED
  BY <1>0, <1>3, <1>4, <1>5, <1>10, <1>11 DEF CoInv

LEMMA CoAnnce ==
  ASSUME CoInv, Coordinator!DeviceAnnce
  PROVE  CoInv'
<1> DEFINE h == Head(co_signals)
           q == Tail(co_signals)
<1>0. /\ co_stack \in StackType /\ co_timers \in TimerSeq /\ co_retries \in Nat
      /\ co_signals \in Seq(Coordinator!Signal) /\ co_signals # <<>>
      /\ h.sig = "DEVICE_ANNCE" /\ ~co_extending
      /\ UNCHANGED <<co_stack, co_retries, co_panid, co_identify, co_known>>
      /\ co_timers' = Coordinator!RemoveFirst(co_timers, "finish")
  BY DEF CoInv, CoTypes, Coordinator!DeviceAnnce, Coordinator!CancelFinish
<1>1. /\ co_timers' \in TimerSeq
      /\ OneFinish(co_timers) => OneFinish(co_timers')
      /\ Closes(co_timers) => Closes(co_timers')
  BY <1>0, AlarmCancelled
<1>2. CASE \E i \in 1..Len(co_timers) : co_timers[i] = "finish"
  <2>1. co_extending' = TRUE /\ UNCHANGED <<co_signals, co_led>>
    BY <1>2 DEF Coordinator!DeviceAnnce, Coordinator!Contains
  <2>2. CoTypes'
    BY <1>0, <1>1, <2>1 DEF CoInv, CoTypes, OneToggle
  <2>3. OneWish(co_stack', co_signals', co_retries')
    BY <1>0, <2>1 DEF CoInv
  <2>4. Lighting(co_stack', co_timers', co_signals', co_extending', co_led', co_known')
    BY <1>0, <1>1, <2>1 DEF CoInv, Lighting
  <2>5. QED
    BY <2>2, <2>3, <2>4 DEF CoInv
<1>3. CASE ~\E i \in 1..Len(co_timers) : co_timers[i] = "finish"
  <2>1. /\ co_signals' = q /\ co_led' = Coordinator!Lit(co_stack, co_timers)
        /\ UNCHANGED co_extending
    BY <1>3 DEF Coordinator!DeviceAnnce, Coordinator!Contains
  <2>2. /\ Wished(q) => Wished(co_signals)
        /\ Lone(co_signals) => Lone(q)
        /\ Opened(co_signals) => Opened(q) \/ Opens(h)
        /\ q \in Seq(Coordinator!Signal)
    BY <1>0, SignalTaken, FirstTaken
  <2> HIDE DEF h, q
  <2>3. ~Opens(h) /\ ~InTurn(co_timers)
    BY <1>0, <1>3 DEF Opens, InTurn
  <2>4. co_led' \in BOOLEAN
    BY <1>0, <2>1 DEF StackType, Coordinator!Lit
  <2>5. CoTypes'
    BY <1>0, <1>1, <2>1, <2>2, <2>4 DEF CoInv, CoTypes, OneToggle
  <2>6. OneWish(co_stack', co_signals', co_retries')
    BY <1>0, <2>1, <2>2 DEF CoInv, OneWish
  <2>7. Lighting(co_stack', co_timers', co_signals', co_extending', co_led', co_known')
    BY <1>0, <1>1, <2>1, <2>2, <2>3 DEF CoInv, Lighting
  <2>8. QED
    BY <2>5, <2>6, <2>7 DEF CoInv
<1>4. QED
  BY <1>2, <1>3

LEMMA CoExtend ==
  ASSUME CoInv, NEW full \in BOOLEAN, Coordinator!ExtendPeriod(full)
  PROVE  CoInv'
<1> DEFINE q == Tail(co_signals)
<1>0. /\ co_stack \in StackType /\ co_timers \in TimerSeq /\ co_known \subseteq CoKnown
      /\ co_signals \in Seq(Coordinator!Signal) /\ co_signals # <<>>
      /\ co_extending' = FALSE /\ co_signals' = q
      /\ co_timers' = Coordinator!SetFinish(co_timers, full)
      /\ co_led' = Coordinator!Lit(co_stack, co_timers')
      /\ co_known' = Coordinator!Shown(co_known, co_timers, full)
      /\ UNCHANGED <<co_stack, co_retries, co_panid, co_identify>>
  BY DEF CoInv, CoTypes, Lighting, Coordinator!ExtendPeriod
<1>1. /\ Wished(q) => Wished(co_signals)
      /\ Lone(co_signals) => Lone(q)
      /\ q \in Seq(Coordinator!Signal)
  BY <1>0, SignalTaken, FirstTaken
<1> HIDE DEF q
<1>2. /\ co_timers' \in TimerSeq /\ co_known' \subseteq CoKnown
      /\ Closes(co_timers) => Closes(co_timers')
      /\ "twice" \notin co_known' => OneFinish(co_timers')
      /\ "twice" \notin co_known' /\ "unshown" \notin co_known' /\ Closes(co_timers)
            => InTurn(co_timers')
  <2>1. "twice" \notin co_known => OneFinish(co_timers)
    BY DEF CoInv, Lighting
  <2>2. QED
    BY <1>0, <2>1, LedAlarmSet
<1>3. InTurn(co_timers') /\ co_stack.joined => co_led'
  BY <1>0 DEF InTurn, Coordinator!Lit, Coordinator!Contains
<1>4. CoTypes'
  <2>1. co_led' \in BOOLEAN
    BY <1>0 DEF StackType, Coordinator!Lit
  <2>2. QED
    BY <1>0, <1>1, <1>2, <2>1 DEF CoInv, CoTypes, OneToggle
<1>5. OneWish(co_stack', co_signals', co_retries')
  BY <1>0, <1>1 DEF CoInv, OneWish
<1>6. Lighting(co_stack', co_timers', co_signals', co_extending', co_led', co_known')
  <2>1. co_stack.open => co_stack.joined /\ Closes(co_timers)
    BY DEF CoInv, Lighting
  <2>2. QED
    BY <1>0, <1>2, <1>3, <2>1 DEF Lighting
<1>7. QED
  BY <1>4, <1>5, <1>6 DEF CoInv

LEMMA CoFinished ==
  ASSUME CoInv, Coordinator!steering_finished
  PROVE  CoInv'
<1>0. /\ co_timers \in TimerSeq /\ co_timers # <<>> /\ Head(co_timers) = "finish"
      /\ ~co_extending /\ co_timers' = Tail(co_timers) /\ co_led' = FALSE
      /\ UNCHANGED <<co_stack, co_retries, co_signals, co_extending, co_panid, co_identify,
                     co_known>>
  BY DEF CoInv, CoTypes, Coordinator!steering_finished
<1>1. /\ co_timers' \in TimerSeq
      /\ OneFinish(co_timers) => OneFinish(co_timers') /\ ~InTurn(co_timers)
      /\ Closes(co_timers) => Closes(co_timers')
  BY <1>0, AlarmExpired
<1>2. CoTypes'
  BY <1>0, <1>1 DEF CoInv, CoTypes, OneToggle
<1>3. OneWish(co_stack', co_signals', co_retries')
  BY <1>0 DEF CoInv
<1>4. Lighting(co_stack', co_timers', co_signals', co_extending', co_led', co_known')
  BY <1>0, <1>1 DEF CoInv, Lighting
<1>5. QED
  BY <1>2, <1>3, <1>4 DEF CoInv

LEMMA CoFormation ==
  ASSUME CoInv, Coordinator!FormationAlarm
  PROVE  CoInv'
<1>0. /\ co_stack \in StackType /\ co_retries \in Nat /\ co_retries > 0
      /\ UNCHANGED <<co_timers, co_signals, co_led, co_extending, co_panid, co_identify>>
      /\ co_known' \in {co_known, co_known \cup {"refused"}}
  BY DEF CoInv, CoTypes, Coordinator!FormationAlarm
<1>1. PICK r \in Nat : r = co_retries - 1 /\ r = co_retries'
  BY <1>0 DEF Coordinator!FormationAlarm
<1>2. PICK t : /\ t = co_stack' /\ t \in StackType
               /\ t.joined = co_stack.joined /\ t.open = co_stack.open
  BY <1>0, Commissioned DEF Coordinator!FormationAlarm
<1>3. r = 0 /\ ~Wished(co_signals) /\ Lone(co_signals) /\ ~t.joined /\ ~t.open
  BY <1>0, <1>1, <1>2 DEF CoInv, OneWish, Lighting
<1>4. CoTypes'
  BY <1>0, <1>1, <1>2 DEF CoInv, CoTypes, CoKnown, OneToggle
<1>5. OneWish(t, co_signals', r)
  BY <1>0, <1>3 DEF OneWish
<1>6. Lighting(t, co_timers', co_signals', co_extending', co_led', co_known')
  BY <1>0, <1>3 DEF CoInv, Lighting
<1>7. QED
  BY <1>1, <1>2, <1>4, <1>5, <1>6 DEF CoInv

LEMMA CoReopen ==
  ASSUME CoInv, Coordinator!ReopenButton
  PROVE  CoInv'
<1>0. /\ co_stack \in StackType /\ co_timers \in TimerSeq /\ co_stack.bdb # "off"
      /\ co_timers' = Coordinator!RemoveFirst(co_timers, "finish")
      /\ UNCHANGED <<co_retries, co_signals, co_led, co_extending, co_panid, co_identify,
                     co_known>>
  BY DEF CoInv, CoTypes, Coordinator!ReopenButton, Coordinator!CancelFinish
<1>1. PICK t : /\ t = co_stack' /\ t \in StackType
               /\ t.joined = co_stack.joined /\ t.open = co_stack.open
               /\ t.bdb = IF co_stack.bdb \in {"off", "idle"} THEN "steering" ELSE co_stack.bdb
  BY <1>0, Commissioned DEF Coordinator!ReopenButton
<1>2. /\ co_timers' \in TimerSeq
      /\ OneFinish(co_timers) => OneFinish(co_timers')
      /\ Closes(co_timers) => Closes(co_timers')
  BY <1>0, AlarmCancelled
<1>3. t.open => t.bdb = "steering"
  BY <1>0, <1>1 DEF CoInv, OneWish, Lighting, StackType
<1>4. CoTypes'
  BY <1>0, <1>1, <1>2 DEF CoInv, CoTypes, OneToggle
<1>5. OneWish(t, co_signals', co_retries')
  BY <1>0, <1>1 DEF CoInv, OneWish
<1>6. Lighting(t, co_timers', co_signals', co_extending', co_led', co_known')
  BY <1>0, <1>1, <1>2, <1>3 DEF CoInv, Lighting
<1>7. QED
  BY <1>1, <1>4, <1>5, <1>6 DEF CoInv

\* The handlers that leave the network and its LED alone.
CoRest == <<co_stack, co_timers, co_retries, co_signals, co_led, co_extending, co_known>>

LEMMA CoAside ==
  ASSUME CoInv, UNCHANGED CoRest, OneToggle(co_identify'),
         co_panid' \in [preparing : Nat, kept : Nat]
  PROVE  CoInv'
<1>0. UNCHANGED <<co_stack, co_timers, co_retries, co_signals, co_led, co_extending, co_known>>
  BY DEF CoRest
<1>1. CoTypes'
  BY <1>0 DEF CoInv, CoTypes, OneToggle
<1>2. OneWish(co_stack', co_signals', co_retries')
  BY <1>0 DEF CoInv
<1>3. Lighting(co_stack', co_timers', co_signals', co_extending', co_led', co_known')
  BY <1>0 DEF CoInv
<1>4. QED
  BY <1>1, <1>2, <1>3 DEF CoInv

LEMMA CoPanId ==
  ASSUME CoInv, NEW errors \in BOOLEAN, NEW started \in BOOLEAN,
         Coordinator!change_panid_cb(errors, started)
  PROVE  CoInv'
<1>0. co_panid \in [preparing : Nat, kept : Nat] /\ co_panid.preparing > 0
  BY DEF CoInv, CoTypes, Coordinator!change_panid_cb
<1>1. PICK n \in Nat : n = co_panid.preparing - 1
  <2>1. co_panid.preparing \in Nat
    BY <1>0
  <2>2. QED
    BY <1>0, <2>1
<1>2. PICK m \in Nat : m = IF ~errors /\ started THEN co_panid.kept ELSE co_panid.kept + 1
  <2>1. co_panid.kept \in Nat
    BY <1>0
  <2>2. QED
    BY <2>1
<1>3. co_panid' = [preparing |-> n, kept |-> m]
  BY <1>1, <1>2 DEF Coordinator!change_panid_cb
<1>4. UNCHANGED CoRest /\ UNCHANGED co_identify
  BY DEF Coordinator!change_panid_cb, CoRest
<1>5. OneToggle(co_identify')
  BY <1>4 DEF CoInv, CoTypes, OneToggle
<1>6. co_panid' \in [preparing : Nat, kept : Nat]
  BY <1>3, Zenon
<1>7. QED
  BY <1>4, <1>5, <1>6, CoAside

LEMMA CoIdentify ==
  ASSUME CoInv,
         Coordinator!IdentifyEnds \/ \E full \in BOOLEAN : Coordinator!Identifying(full)
  PROVE  CoInv'
<1>0. OneToggle(co_identify) /\ co_stack.joined \in BOOLEAN
  BY DEF CoInv, CoTypes, StackType
<1>1. UNCHANGED CoRest /\ UNCHANGED co_panid
  BY DEF CoRest, Coordinator!Identifying, Coordinator!IdentifyButton,
     Coordinator!IdentifyCallback, Coordinator!IdentifyEnds, Coordinator!Toggle
<1>2. ASSUME NEW full \in BOOLEAN, Coordinator!IdentifyButton(full)
      PROVE  OneToggle(co_identify')
  <2>1. OneToggle(Mode!Schedule(co_identify, "start_identifying", full))
    BY <1>0, PressKeeps
  <2>2. co_identify' = Mode!Schedule(co_identify, "start_identifying", full)
    BY <1>2, SameQueue DEF Coordinator!IdentifyButton
  <2>3. QED
    BY <2>1, <2>2
<1>3. ASSUME NEW full \in BOOLEAN, Coordinator!IdentifyCallback(full)
      PROVE  OneToggle(co_identify')
  <2>1. co_identify.queue # <<>>
    BY <1>3, SameQueue DEF Coordinator!IdentifyCallback
  <2>2. PICK i : i = Mode!Taken(co_identify)
    OBVIOUS
  <2>3. OneToggle(i)
    BY <1>0, <2>1, <2>2, TakenKeeps
  <2>4. OneToggle(Mode!start_identifying(i, co_stack.joined, full))
    BY <1>0, <2>3, ButtonKeeps
  <2>5. co_identify' = Mode!start_identifying(i, co_stack.joined, full)
    BY <1>3, <2>2, SameMode, SameQueue DEF Coordinator!IdentifyCallback
  <2>6. QED
    BY <2>4, <2>5
<1>4. ASSUME Coordinator!IdentifyEnds
      PROVE  OneToggle(co_identify')
  <2>1. OneToggle(Mode!End(co_identify))
    BY <1>0, <1>4, EndKeeps DEF Coordinator!IdentifyEnds
  <2>2. co_identify' = Mode!End(co_identify)
    BY <1>4, SameMode DEF Coordinator!IdentifyEnds
  <2>3. QED
    BY <2>1, <2>2
<1>5. ASSUME NEW queue \in BOOLEAN, NEW full \in BOOLEAN, Coordinator!Toggle(queue, full)
      PROVE  OneToggle(co_identify')
  <2>1. Mode!MayToggle(co_identify, queue)
    BY <1>5, SameToggle DEF Coordinator!Toggle
  <2>2. OneToggle(Mode!toggle_identify_led(co_identify, queue, full))
    BY <1>0, <2>1, ToggleKeeps
  <2>3. co_identify' = Mode!toggle_identify_led(co_identify, queue, full)
    BY <1>5, SameToggle DEF Coordinator!Toggle
  <2>4. QED
    BY <2>2, <2>3
<1>6. ASSUME NEW full \in BOOLEAN, Coordinator!Identifying(full)
      PROVE  OneToggle(co_identify')
  BY <1>2, <1>3, <1>5, <1>6, Zenon DEF Coordinator!Identifying
<1>7. QED
  BY <1>1, <1>4, <1>6, CoAside DEF CoInv, CoTypes

\* The stack starts the first time or again, when its initialisation ends.
LEMMA CoInitialised ==
  ASSUME CoInv, Coordinator!BdbInitialised
  PROVE  CoInv'
<1>0. /\ co_stack \in StackType /\ co_stack.bdb = "init" /\ ~co_extending
      /\ co_signals \in Seq(Coordinator!Signal) /\ co_retries \in Nat
      /\ UNCHANGED <<co_timers, co_retries, co_led, co_extending, co_panid, co_identify,
                     co_known>>
  BY DEF CoInv, CoTypes, Coordinator!BdbInitialised, Coordinator!Room
<1>1. PICK s \in {"FIRST_START", "REBOOT"}, ok \in BOOLEAN :
        /\ co_stack' = [co_stack EXCEPT !.bdb = "idle", !.joined = (s = "REBOOT" /\ ok)]
        /\ co_signals' = Append(co_signals, [sig |-> s, ok |-> ok])
  BY DEF Coordinator!BdbInitialised, Coordinator!Queue
<1>2. PICK e \in Coordinator!Signal : e = [sig |-> s, ok |-> ok] /\ (s = "REBOOT" => ~Wish(e))
  <2>1. PICK e : e = [sig |-> s, ok |-> ok]
    OBVIOUS
  <2>2. e \in Coordinator!Signal
    BY <2>1, Zenon DEF Coordinator!Signal
  <2>3. e.sig = s /\ e.ok = ok
    BY <2>1
  <2>4. QED
    BY <2>1, <2>2, <2>3 DEF Wish
<1>3. PICK t \in StackType : /\ t = co_stack' /\ t.bdb = "idle" /\ t.open = co_stack.open
                             /\ (t.joined => s = "REBOOT")
  <2>1. PICK j \in BOOLEAN : j = (s = "REBOOT" /\ ok)
    OBVIOUS
  <2>2. PICK t : t = [co_stack EXCEPT !.bdb = "idle", !.joined = j]
    OBVIOUS
  <2>3. t \in StackType
    BY <1>0, <2>2, Zenon DEF StackType
  <2>4. t.bdb = "idle" /\ t.open = co_stack.open /\ t.joined = j
    BY <1>0, <2>2 DEF StackType
  <2>5. t = co_stack'
    BY <1>1, <2>1, <2>2
  <2>6. QED
    BY <2>1, <2>3, <2>4, <2>5
<1>4. /\ co_signals' = Append(co_signals, e) /\ co_signals' \in Seq(Coordinator!Signal)
      /\ Wished(co_signals') <=> Wished(co_signals) \/ Wish(e)
      /\ Lone(co_signals) /\ (Wish(e) => ~Wished(co_signals)) => Lone(co_signals')
  BY <1>0, <1>1, <1>2, SignalAdded, LastAdded
<1>5. ~co_stack.joined /\ ~co_stack.open /\ ~Wished(co_signals) /\ co_retries = 0
  BY <1>0 DEF CoInv, OneWish, Lighting
<1>6. CoTypes'
  BY <1>0, <1>3, <1>4 DEF CoInv, CoTypes, OneToggle
<1>7. OneWish(t, co_signals', co_retries')
  BY <1>0, <1>2, <1>3, <1>4, <1>5 DEF CoInv, OneWish
<1>8. Lighting(t, co_timers', co_signals', co_extending', co_led', co_known')
  BY <1>0, <1>3, <1>5 DEF CoInv, Lighting
<1>9. QED
  BY <1>3, <1>6, <1>7, <1>8 DEF CoInv

LEMMA CoFormed ==
  ASSUME CoInv, Coordinator!FormationEnds
  PROVE  CoInv'
<1>0. /\ co_stack \in StackType /\ co_stack.bdb = "formation" /\ ~co_extending
      /\ co_signals \in Seq(Coordinator!Signal) /\ co_retries \in Nat
      /\ UNCHANGED <<co_timers, co_retries, co_led, co_extending, co_panid, co_identify,
                     co_known>>
  BY DEF CoInv, CoTypes, Coordinator!FormationEnds, Coordinator!Room
<1>1. PICK ok \in BOOLEAN :
        /\ co_stack' = [co_stack EXCEPT !.bdb = "idle", !.joined = ok]
        /\ co_signals' = Append(co_signals, [sig |-> "FORMATION", ok |-> ok])
  BY DEF Coordinator!FormationEnds, Coordinator!Queue
<1>2. PICK e \in Coordinator!Signal : e = [sig |-> "FORMATION", ok |-> ok] /\ (Wish(e) <=> ~ok)
  <2>1. PICK e : e = [sig |-> "FORMATION", ok |-> ok]
    OBVIOUS
  <2>2. e \in Coordinator!Signal
    BY <2>1, Zenon DEF Coordinator!Signal
  <2>3. e.sig = "FORMATION" /\ e.ok = ok
    BY <2>1
  <2>4. QED
    BY <2>1, <2>2, <2>3 DEF Wish
<1>3. PICK t \in StackType : /\ t = co_stack' /\ t.bdb = "idle" /\ t.open = co_stack.open
                             /\ t.joined = ok
  <2>1. PICK t : t = [co_stack EXCEPT !.bdb = "idle", !.joined = ok]
    OBVIOUS
  <2>2. t \in StackType
    BY <1>0, <2>1, Zenon DEF StackType
  <2>3. t.bdb = "idle" /\ t.open = co_stack.open /\ t.joined = ok
    BY <1>0, <2>1 DEF StackType
  <2>4. QED
    BY <1>1, <2>1, <2>2, <2>3
<1>4. /\ co_signals' = Append(co_signals, e) /\ co_signals' \in Seq(Coordinator!Signal)
      /\ Wished(co_signals') <=> Wished(co_signals) \/ Wish(e)
      /\ Lone(co_signals) /\ (Wish(e) => ~Wished(co_signals)) => Lone(co_signals')
  BY <1>0, <1>1, <1>2, SignalAdded, LastAdded
<1>5. ~co_stack.joined /\ ~co_stack.open /\ ~Wished(co_signals) /\ co_retries = 0
  BY <1>0 DEF CoInv, OneWish, Lighting
<1>6. CoTypes'
  BY <1>0, <1>3, <1>4 DEF CoInv, CoTypes, OneToggle
<1>7. OneWish(t, co_signals', co_retries')
  BY <1>0, <1>2, <1>3, <1>4, <1>5 DEF CoInv, OneWish
<1>8. Lighting(t, co_timers', co_signals', co_extending', co_led', co_known')
  BY <1>0, <1>3, <1>5 DEF CoInv, Lighting
<1>9. QED
  BY <1>3, <1>6, <1>7, <1>8 DEF CoInv

LEMMA CoSteered ==
  ASSUME CoInv, Coordinator!SteeringEnds
  PROVE  CoInv'
<1>0. /\ co_stack \in StackType /\ co_stack.bdb = "steering" /\ ~co_extending
      /\ co_signals \in Seq(Coordinator!Signal) /\ co_retries \in Nat /\ co_timers \in TimerSeq
      /\ UNCHANGED <<co_retries, co_led, co_extending, co_panid, co_identify,
                     co_known>>
  BY DEF CoInv, CoTypes, Coordinator!SteeringEnds, Coordinator!Room
<1>1. PICK joined \in BOOLEAN : joined = co_stack.joined
  BY <1>0 DEF StackType
<1>2. PICK e \in Coordinator!Signal : /\ e = [sig |-> "STEERING", ok |-> joined]
                                      /\ ~Wish(e) /\ (joined => Opens(e))
  <2>1. PICK e : e = [sig |-> "STEERING", ok |-> joined]
    OBVIOUS
  <2>2. e \in Coordinator!Signal
    BY <2>1, Zenon DEF Coordinator!Signal
  <2>3. e.sig = "STEERING" /\ e.ok = joined
    BY <2>1
  <2>4. QED
    BY <2>1, <2>2, <2>3 DEF Wish, Opens
<1>3. /\ co_signals' = Append(co_signals, e) /\ co_signals' \in Seq(Coordinator!Signal)
      /\ Wished(co_signals') <=> Wished(co_signals)
      /\ Lone(co_signals) => Lone(co_signals')
      /\ joined => Opened(co_signals')
  <2>1. co_signals' = Append(co_signals, e)
    BY <1>1, <1>2 DEF Coordinator!SteeringEnds, Coordinator!Queue
  <2>2. QED
    BY <1>0, <1>2, <2>1, SignalAdded, LastAdded
<1>4. PICK t \in StackType : /\ t = co_stack' /\ t.bdb = "idle" /\ t.joined = joined
                             /\ (~joined => ~t.open)
  <2>1. PICK t : t = IF joined THEN [co_stack EXCEPT !.bdb = "idle", !.open = TRUE]
                               ELSE [co_stack EXCEPT !.bdb = "idle"]
    OBVIOUS
  <2>2. t \in StackType
    BY <1>0, <2>1, Zenon DEF StackType
  <2>3. t.bdb = "idle" /\ t.joined = joined /\ (~joined => t.open = co_stack.open)
    BY <1>0, <1>1, <2>1 DEF StackType
  <2>4. t = co_stack'
    BY <1>1, <2>1 DEF Coordinator!SteeringEnds
  <2>5. ~joined => ~co_stack.open
    BY <1>1 DEF CoInv, Lighting
  <2>6. QED
    BY <2>2, <2>3, <2>4, <2>5
<1>5. /\ co_timers' \in TimerSeq
      /\ OneFinish(co_timers) => OneFinish(co_timers')
      /\ joined => Closes(co_timers')
  <2>1. CASE joined
    <3>1. PICK us \in TimerSeq : /\ us = Coordinator!RemoveFirst(co_timers, "close")
                                 /\ OneFinish(co_timers) => OneFinish(us)
      BY <1>0, AlarmCancelled
    <3>2. co_timers' = Append(us, "close")
      BY <1>1, <2>1, <3>1 DEF Coordinator!SteeringEnds, Coordinator!ForgetClose
    <3>3. QED
      BY <3>1, <3>2, AlarmSet
  <2>2. CASE ~joined
    BY <1>0, <1>1, <2>2 DEF Coordinator!SteeringEnds
  <2>3. QED
    BY <2>1, <2>2
<1>6. CoTypes'
  BY <1>0, <1>3, <1>4, <1>5 DEF CoInv, CoTypes, OneToggle
<1>7. OneWish(t, co_signals', co_retries')
  BY <1>0, <1>1, <1>3, <1>4 DEF CoInv, OneWish
<1>8. Lighting(t, co_timers', co_signals', co_extending', co_led', co_known')
  BY <1>0, <1>3, <1>4, <1>5 DEF CoInv, Lighting
<1>9. QED
  BY <1>4, <1>6, <1>7, <1>8 DEF CoInv

LEMMA CoPeriodEnds ==
  ASSUME CoInv, Coordinator!PeriodEnds
  PROVE  CoInv'
<1>0. /\ co_stack \in StackType /\ co_timers \in TimerSeq /\ co_timers # <<>>
      /\ ~co_extending /\ co_timers' = Tail(co_timers)
      /\ UNCHANGED <<co_retries, co_signals, co_led, co_extending, co_panid, co_identify,
                     co_known>>
  BY DEF CoInv, CoTypes, Coordinator!PeriodEnds
<1>1. PICK t \in StackType : /\ t = co_stack' /\ t.bdb = co_stack.bdb
                             /\ t.joined = co_stack.joined /\ ~t.open
  <2>1. PICK t : t = [co_stack EXCEPT !.open = FALSE]
    OBVIOUS
  <2>2. t \in StackType
    BY <1>0, <2>1, Zenon DEF StackType
  <2>3. t.bdb = co_stack.bdb /\ t.joined = co_stack.joined /\ ~t.open
    BY <1>0, <2>1 DEF StackType
  <2>4. QED
    BY <2>1, <2>2, <2>3 DEF Coordinator!PeriodEnds
<1>2. /\ co_timers' \in TimerSeq
      /\ OneFinish(co_timers) => OneFinish(co_timers')
  BY <1>0, AlarmExpired
<1>3. CoTypes'
  BY <1>0, <1>1, <1>2 DEF CoInv, CoTypes, OneToggle
<1>4. OneWish(t, co_signals', co_retries')
  BY <1>0, <1>1 DEF CoInv, OneWish
<1>5. Lighting(t, co_timers', co_signals', co_extending', co_led', co_known')
  BY <1>0, <1>1, <1>2 DEF CoInv, Lighting
<1>6. QED
  BY <1>1, <1>3, <1>4, <1>5 DEF CoInv

LEMMA CoLeaves ==
  ASSUME CoInv, Coordinator!LeaveNetwork
  PROVE  CoInv'
<1>0. /\ co_stack \in StackType /\ co_stack.joined /\ ~co_extending
      /\ co_signals \in Seq(Coordinator!Signal) /\ co_retries \in Nat /\ co_timers \in TimerSeq
      /\ co_timers' = Coordinator!RemoveFirst(co_timers, "close")
      /\ UNCHANGED <<co_retries, co_led, co_extending, co_panid, co_identify,
                     co_known>>
  BY DEF CoInv, CoTypes, Coordinator!LeaveNetwork, Coordinator!Room, Coordinator!ForgetClose
<1>1. PICK t \in StackType : t = co_stack' /\ t.bdb = co_stack.bdb /\ ~t.joined /\ ~t.open
  <2>1. PICK t : t = [co_stack EXCEPT !.joined = FALSE, !.open = FALSE]
    OBVIOUS
  <2>2. t \in StackType
    BY <1>0, <2>1, Zenon DEF StackType
  <2>3. t.bdb = co_stack.bdb /\ ~t.joined /\ ~t.open
    BY <1>0, <2>1 DEF StackType
  <2>4. QED
    BY <2>1, <2>2, <2>3 DEF Coordinator!LeaveNetwork
<1>2. PICK e \in Coordinator!Signal : e = [sig |-> "LEAVE", ok |-> TRUE]
  BY DEF Coordinator!Signal
<1>3. /\ co_signals' \in Seq(Coordinator!Signal)
      /\ Lone(co_signals) /\ ~Wished(co_signals) => Lone(co_signals')
  BY <1>0, <1>2, SignalAdded, LastAdded DEF Coordinator!LeaveNetwork, Coordinator!Queue
<1>4. ~Wished(co_signals) /\ co_retries = 0 /\ t.bdb \notin {"init", "formation"}
  BY <1>0, <1>1 DEF CoInv, OneWish
<1>5. /\ co_timers' \in TimerSeq
      /\ OneFinish(co_timers) => OneFinish(co_timers')
  BY <1>0, AlarmCancelled
<1>6. CoTypes'
  BY <1>0, <1>1, <1>3, <1>5 DEF CoInv, CoTypes, OneToggle
<1>7. OneWish(t, co_signals', co_retries')
  BY <1>0, <1>1, <1>3, <1>4 DEF CoInv, OneWish
<1>8. Lighting(t, co_timers', co_signals', co_extending', co_led', co_known')
  BY <1>0, <1>1, <1>5 DEF CoInv, Lighting
<1>9. QED
  BY <1>1, <1>6, <1>7, <1>8 DEF CoInv

LEMMA CoReport ==
  ASSUME CoInv, Coordinator!Report
  PROVE  CoInv'
<1>0. /\ co_stack \in StackType /\ co_signals \in Seq(Coordinator!Signal)
      /\ UNCHANGED <<co_stack, co_timers, co_retries, co_led, co_extending, co_panid,
                     co_identify, co_known>>
  BY DEF CoInv, CoTypes, Coordinator!Report
<1>1. PICK s \in {"DEVICE_ANNCE", "PANID_CONFLICT", "LEAVE_INDICATION", "CAN_SLEEP",
                  "DEVICE_UPDATE", "DEVICE_AUTHORIZED", "F_B_TARGET_FINISHED"} :
        co_signals' = Append(co_signals, [sig |-> s, ok |-> TRUE])
  BY DEF Coordinator!Report, Coordinator!Queue, Coordinator!Reports, Coordinator!Authorized,
     Coordinator!Unhandled
<1>2. PICK e \in Coordinator!Signal : e = [sig |-> s, ok |-> TRUE] /\ ~Wish(e)
  <2>1. PICK e : e = [sig |-> s, ok |-> TRUE]
    OBVIOUS
  <2>2. e \in Coordinator!Signal
    BY <2>1, Zenon DEF Coordinator!Signal, Coordinator!Reports, Coordinator!Authorized,
       Coordinator!Unhandled
  <2>3. e.sig = s
    BY <2>1
  <2>4. ~Wish(e)
    BY <2>3 DEF Wish
  <2>5. QED
    BY <2>1, <2>2, <2>4
<1>3. /\ co_signals' \in Seq(Coordinator!Signal) /\ co_signals' # <<>>
      /\ Wished(co_signals') <=> Wished(co_signals)
      /\ Lone(co_signals) => Lone(co_signals')
      /\ Opened(co_signals) => Opened(co_signals')
  BY <1>0, <1>1, <1>2, SignalAdded, LastAdded
<1>4. CoTypes'
  BY <1>0, <1>3 DEF CoInv, CoTypes, OneToggle
<1>5. OneWish(co_stack', co_signals', co_retries')
  BY <1>0, <1>3 DEF CoInv, OneWish
<1>6. Lighting(co_stack', co_timers', co_signals', co_extending', co_led', co_known')
  BY <1>0, <1>3 DEF CoInv, Lighting
<1>7. QED
  BY <1>4, <1>5, <1>6 DEF CoInv

LEMMA CoInit == Coordinator!Init => CoInv
<1> SUFFICES ASSUME Coordinator!Init PROVE CoInv
  OBVIOUS
<1>1. /\ co_timers = <<>> /\ co_retries = 0 /\ co_led = FALSE /\ co_extending = FALSE
      /\ co_known = {}
  BY DEF Coordinator!Init
<1>2. co_stack \in StackType /\ ~co_stack.joined /\ ~co_stack.open /\ co_stack.bdb = "off"
  BY DEF Coordinator!Init, StackType
<1>3. co_panid \in [preparing : Nat, kept : Nat]
  BY DEF Coordinator!Init
<1>4. OneToggle(co_identify)
  BY SameMode, OneToggleInitially DEF Coordinator!Init
<1>5. PICK a \in Coordinator!Signal, b \in Coordinator!Signal :
        /\ a = [sig |-> "PRODUCTION_CONFIG_READY", ok |-> FALSE]
        /\ b = [sig |-> "SKIP_STARTUP", ok |-> TRUE]
        /\ a.sig = "PRODUCTION_CONFIG_READY"
  <2>1. PICK a : a = [sig |-> "PRODUCTION_CONFIG_READY", ok |-> FALSE]
    OBVIOUS
  <2>2. PICK b : b = [sig |-> "SKIP_STARTUP", ok |-> TRUE]
    OBVIOUS
  <2>3. a \in Coordinator!Signal /\ b \in Coordinator!Signal
    BY <2>1, <2>2, Zenon DEF Coordinator!Signal
  <2>4. a.sig = "PRODUCTION_CONFIG_READY"
    BY <2>1
  <2>5. QED
    BY <2>1, <2>2, <2>3, <2>4
<1>6. co_signals = <<a, b>>
  BY <1>5 DEF Coordinator!Init
<1>7. co_signals \in Seq(Coordinator!Signal) /\ Lone(co_signals)
  <2>1. ~Wish(a)
    BY <1>5 DEF Wish
  <2>2. /\ Len(co_signals) = 2 /\ co_signals[1] = a /\ co_signals[2] = b
        /\ co_signals \in Seq(Coordinator!Signal)
    BY <1>6
  <2>3. QED
    BY <2>1, <2>2 DEF Lone
<1>8. CoTypes
  <2>1. co_timers \in TimerSeq
    BY <1>1 DEF TimerSeq
  <2>2. QED
    BY <1>1, <1>2, <1>3, <1>4, <1>7, <2>1 DEF CoTypes
<1>9. OneWish(co_stack, co_signals, co_retries)
  <2>1. ~(co_retries > 0) /\ co_retries <= 1
    BY <1>1
  <2>2. QED
    BY <1>1, <1>2, <1>7, <2>1 DEF OneWish
<1>10. Lighting(co_stack, co_timers, co_signals, co_extending, co_led, co_known)
  BY <1>1, <1>2 DEF Lighting, OneFinish
<1>11. QED
  BY <1>8, <1>9, <1>10 DEF CoInv

LEMMA CoStep ==
  ASSUME CoInv, [Coordinator!Next]_(Coordinator!vars)
  PROVE  CoInv'
<1>1. CASE Coordinator!Signals
  BY <1>1, CoHandle, CoAnnce, CoExtend DEF Coordinator!Signals
<1>2. CASE Coordinator!FormationAlarm
  BY <1>2, CoFormation
<1>3. CASE Coordinator!Stack
  BY <1>3, CoInitialised, CoFormed, CoSteered DEF Coordinator!Stack
<1>4. CASE Coordinator!steering_finished
  BY <1>4, CoFinished
<1>5. CASE Coordinator!ReopenButton
  BY <1>5, CoReopen
<1>6. CASE Coordinator!ChangeRefused
  BY <1>6, CoPanId DEF Coordinator!ChangeRefused
<1>7. CASE Coordinator!IdentifyEnds \/ \E full \in BOOLEAN : Coordinator!Identifying(full)
  BY <1>7, CoIdentify
<1>8. CASE \E e, s \in BOOLEAN : Coordinator!change_panid_cb(e, s)
  BY <1>8, CoPanId
<1>9. CASE Coordinator!PeriodEnds \/ Coordinator!LeaveNetwork \/ Coordinator!Report
  BY <1>9, CoPeriodEnds, CoLeaves, CoReport
<1>10. CASE UNCHANGED Coordinator!vars
  <2>1. UNCHANGED CoRest /\ UNCHANGED <<co_panid, co_identify>>
    BY <1>10 DEF Coordinator!vars, CoRest
  <2>2. QED
    BY <2>1, CoAside DEF CoInv, CoTypes, OneToggle
<1>11. QED
  BY <1>1, <1>2, <1>3, <1>4, <1>5, <1>6, <1>7, <1>8, <1>9, <1>10 DEF Coordinator!Next

-------------------------------------------------------------------------------
(* All images.                                                                 *)

AllInv ==
    /\ image \in Images
    /\ IInv /\ SwInv /\ FindInv /\ LampInv /\ CoInv
    /\ ReportInv /\ TransportTypes
    /\ HeartInv /\ AdvertiserInv /\ Scanner!TypeOK
    /\ ClockInv /\ MainInv /\ HardwareTypes

LEMMA AllInit == ImagesInit => AllInv
BY Initially, SwInit, FindInit, LampInit, CoInit, TransportInit, HeartInit, AdvertiserInit,
   ScannerInit, ClockInit, TagInit
   DEF ImagesInit, AllInv

LEMMA AllStep == AllInv /\ [ImagesNext]_all => AllInv'
<1> SUFFICES ASSUME AllInv, [ImagesNext]_all PROVE AllInv'
  OBVIOUS
<1>1. /\ [Next]_vars /\ [Switch!Next]_(Switch!vars) /\ [Find!Next]_(Find!vars)
      /\ [Lamp!Next]_(Lamp!vars) /\ [Coordinator!Next]_(Coordinator!vars)
      /\ [Transport!Next]_(Transport!vars) /\ [Heart!Next]_(Heart!vars)
      /\ [Advertiser!Next]_(Advertiser!vars) /\ [Scanner!Next]_(Scanner!vars)
      /\ [Tag!Next]_(Tag!vars)
      /\ image' = image
  BY StepsOfAll
<1>2. IInv' /\ SwInv' /\ FindInv' /\ LampInv' /\ CoInv'
  BY <1>1, InvStep, SwStep, FindStep, LampStep, CoStep DEF AllInv
<1>3. ReportInv' /\ TransportTypes'
  BY <1>1, PoolStep, TransportStep DEF AllInv
<1>4. HeartInv' /\ AdvertiserInv' /\ Scanner!TypeOK'
  BY <1>1, HeartStep, AdvertiserStep, ScannerStep DEF AllInv
<1>5. ClockInv' /\ MainInv' /\ HardwareTypes'
  BY <1>1, ClockStep, MainStep, HardwareStep DEF AllInv
<1>6. QED
  BY <1>1, <1>2, <1>3, <1>4, <1>5 DEF AllInv

LEMMA AllHolds == ImagesSpec => []AllInv
BY AllInit, AllStep, PTL DEF ImagesSpec

\* Every image's state has its type, whatever the sizes of buffers, pools and queues.
THEOREM TypesCorrect == ImagesSpec => []TypesOK
<1>1. ASSUME AllInv PROVE TypesOK
  <2>1. TypeOK /\ Switch!TypeOK /\ Find!TypeOK /\ Lamp!TypeOK /\ Coordinator!TypeOK
    BY <1>1, SwitchShows, FindTypes, LampTypes, CoordinatorShows DEF AllInv, IInv
  <2>2. Transport!TypeOK
    BY <1>1 DEF AllInv, ReportInv, HeldOK, TransportTypes, Transport!TypeOK
  <2>3. Heart!TypeOK /\ Advertiser!TypeOK /\ Scanner!TypeOK /\ Tag!TypeOK
    BY <1>1, TagTypes DEF AllInv, HeartInv, AdvertiserInv, MainInv
  <2>4. QED
    BY <1>1, <2>1, <2>2, <2>3 DEF AllInv, TypesOK
<1>2. QED
  BY <1>1, AllHolds, PTL

\* rejoin_the_network to user_input_indicate and find_light_bulb* of the light switch
\* (light_switch/main.c:714-866, 1387-1481): out of the network it has an attempt
\* scheduled, an attempt promised by a signal, or a user who may start one, however few
\* places each handler finds in the alarm table, unless the procedure began without its
\* timeout, a button came too late or the first start failed; in it, without a bulb, it
\* goes on searching unless a buffer was missing or a request could not be sent.
THEOREM SwitchesGoOn == ImagesSpec => []SwitchGoesOn
<1>1. AllInv => SwitchGoesOn
  BY SwitchShows, FindTypes DEF AllInv, SwitchGoesOn
<1>2. QED
  BY <1>1, AllHolds, PTL

\* coordinator/main.c: whatever comes between the steps of commissioning, buttons and
\* alarms, the LED is lit while the network is open, unless the alarm that puts it out
\* found no place in the table or was set beside another.
THEOREM LitWhileItIsOpen == ImagesSpec => []LitWhileOpen
<1>1. AllInv => LitWhileOpen
  BY CoordinatorShows DEF AllInv, LitWhileOpen
<1>2. QED
  BY <1>1, AllHolds, PTL

\* identify_cb of the three Zigbee samples: however calls from buttons, from the network
\* and from the queue of callbacks interleave, and whichever of them cannot be scheduled,
\* no toggle is left when identify mode has ended, unless the notification of the end
\* overtook a toggle that was still in the queue.
THEOREM BlinkingEnds == ImagesSpec => []BlinkEnds
<1>1. AllInv => BlinkEnds
  BY FindTypes, LampTypes, CoordinatorShows DEF AllInv, BlinkEnds
<1>2. QED
  BY <1>1, AllHolds, PTL

\* hci.c: advertising reports never take a buffer of the pool kept for the other events,
\* so no event is lost for them, whatever the sizes of the two pools.
THEOREM NeverStarvedByReports == ImagesSpec => []ReportsNeverStarve
<1>1. AllInv => ReportsNeverStarve
  BY DEF AllInv, ReportInv, ReportsNeverStarve, Transport!ReportsNeverStarve
<1>2. QED
  BY <1>1, AllHolds, PTL

\* The heart rate sensor: a subscription is one of a connected peer, and the timer that
\* sends its next beat runs.
THEOREM BeatsForSubscribers == ImagesSpec => []HeartBeats
<1>1. AllInv => HeartBeats
  BY DEF AllInv, HeartInv, HeartBeats
<1>2. QED
  BY <1>1, AllHolds, PTL

\* The peripherals of the Bluetooth samples: synced, they advertise or are connected,
\* unless NimBLE refused.
THEOREM StaysReachable == ImagesSpec => []Reachable
<1>1. AllInv => Reachable
  BY DEF AllInv, HeartInv, AdvertiserInv, Reachable
<1>2. QED
  BY <1>1, AllHolds, PTL

\* platform.c of NFC: whatever fields come and go while the HFXO starts, the tag is
\* activated on a running one.
THEOREM ActivatedOnClock == ImagesSpec => []ActivatedOnlyOnClock
<1>1. AllInv => ActivatedOnlyOnClock
  BY DEF AllInv, ClockInv, ActivatedOnlyOnClock
<1>2. QED
  BY <1>1, AllHolds, PTL

\* The encoders of NFC: for texts of any length and buffers of any size, an encoding that
\* succeeds has written its message inside the buffer and marked its first and last record.
THEOREM MessageInBuffer == ImagesSpec => []PayloadInBuffer
<1>1. AllInv => PayloadInBuffer
  BY MainKeepsTheBuffer DEF AllInv, PayloadInBuffer
<1>2. QED
  BY <1>1, AllHolds, PTL

===============================================================================
