-------------------------------- MODULE NfcTag --------------------------------
(***************************************************************************)
(* The tag samples (samples/nfc) over the NFC platform layer               *)
(* (lib/modules/nfc/platform.c): the message is encoded, emulation starts, *)
(* and from then on the interrupts of the NFCT and of the clock run it.    *)
(*                                                                         *)
(* The NFC library, nrfx_nfct and nrfx_clock are external.  What is taken  *)
(* from them: the two interrupts have one priority, a stop of the clock    *)
(* cancels a start that has not been reported, and a lost field brings the *)
(* NFCT back to SENSE.                                                     *)
(***************************************************************************)
EXTENDS Ndef

CONSTANTS Texts,        \* the texts, as <<length of the language code, of the text>>
          BufferSizes   \* NDEF_MSG_BUF_SIZE

VARIABLES
    type,      \* "t2t" or "t4t": which sample this is
    step,      \* how far main has come
    size,      \* NDEF_MSG_BUF_SIZE of the image
    records,   \* the message description welcome_msg_encode fills
    message,   \* what it has encoded of it: the flags of each record, the length,
               \* and how far into the buffer it has written
    field,     \* a reader's field is there
    seen,      \* what the NFCT interrupt last reported of it
    clock,     \* the HFXO: "off", "starting", "running"
    started,   \* its event is to be handled
    nfct,      \* "off", "sense", "activated"
    field_led

vars == <<type, step, size, records, message, field, seen, clock, started, nfct, field_led>>

Steps == {"setup", "add", "encode", "file", "payload", "start", "ready", "fail"}

MAX_REC_COUNT == 3
RecordType == [type : Nat, id : Nat, lang : Nat, data : Nat]
Record(text) == [type |-> 1, id |-> 0, lang |-> text[1], data |-> text[2]]

Flags == {"LONE", "FIRST", "MIDDLE", "LAST"}

TypeOK ==
    /\ type \in {"t2t", "t4t"} /\ step \in Steps /\ size \in BufferSizes
    /\ records \in Seq(RecordType) /\ Len(records) <= MAX_REC_COUNT
    /\ message \in [ok : BOOLEAN, flags : Seq(Flags), len : Nat, written : Nat]
    /\ Len(message.flags) <= Len(records)
    /\ field \in BOOLEAN /\ seen \in BOOLEAN /\ started \in BOOLEAN /\ field_led \in BOOLEAN
    /\ clock \in {"off", "starting", "running"}
    /\ nfct \in {"off", "sense", "activated"}

Init ==
    /\ type \in {"t2t", "t4t"} /\ size \in BufferSizes
    /\ step = "setup" /\ records = <<>>
    /\ message = [ok |-> FALSE, flags |-> <<>>, len |-> 0, written |-> 0]
    /\ field = FALSE /\ seen = FALSE /\ started = FALSE /\ field_led = FALSE
    /\ clock = "off" /\ nfct = "off"

Hardware == <<field, seen, clock, started, nfct, field_led>>

-------------------------------------------------------------------------------
\* main

\* The message of the Type 4 sample comes behind the length field of its file.
Front == IF type = "t4t" THEN NFC_NDEF_FILE_NLEN_FIELD_SIZE ELSE 0

RoomWhole == size  \* mutant: the message is given the room of its length field too
Room == Minus(size, Front)

\* nfc_platform_setup takes the clock and lets its events through; a failure of
\* it, or of the library around it, ends main in the endless loop.
nfc_platform_setup ==
    /\ step = "setup" /\ step' \in {"add", "fail"}
    /\ UNCHANGED <<type, size, records, message, Hardware>>

\* welcome_msg_encode, first: the texts, in the order the samples add them.
AddRecord ==
    /\ step = "add"
    /\ LET n == Len(records) + 1
           added == nfc_ndef_msg_record_add(records, Record(Texts[n]), MAX_REC_COUNT)
       IN  /\ records' = added.records
           /\ step' = IF ~added.ok THEN "fail" ELSE IF n = Len(Texts) THEN "encode" ELSE "add"
    /\ UNCHANGED <<type, size, message, Hardware>>

\* Then nfc_ndef_msg_encode, record by record; the first that fails ends it.
EncodeRecord ==
    /\ step = "encode"
    /\ LET n == Len(message.flags) + 1
           one == nfc_ndef_msg_encode(records, n, message.len, Room)
           last == n = Len(records)
       IN  /\ message' = [ok      |-> one.ok /\ last /\ type = "t2t",
                          flags   |-> Append(message.flags, record_location_get(n - 1, Len(records))),
                          len     |-> message.len + one.len,
                          written |-> IF one.written = 0 THEN message.written
                                      ELSE Front + message.len + one.written]
           /\ step' = IF ~one.ok THEN "fail" ELSE IF ~last THEN "encode"
                      ELSE IF type = "t2t" THEN "payload" ELSE "file"
    /\ UNCHANGED <<type, size, records, Hardware>>

\* The Type 4 sample puts the length in front, which makes a file of the message.
EncodeFile ==
    /\ step = "file"
    /\ LET file == nfc_t4t_ndef_file_encode(message.len)
       IN  /\ message' = [message EXCEPT !.ok = file.ok, !.len = IF file.ok THEN file.len ELSE @]
           /\ step' = IF file.ok THEN "payload" ELSE "fail"
    /\ UNCHANGED <<type, size, records, Hardware>>

welcome_msg_encode == AddRecord \/ EncodeRecord \/ EncodeFile

SetPayload ==
    /\ step = "payload" /\ step' \in {"start", "fail"}
    /\ UNCHANGED <<type, size, records, message, Hardware>>

StartEmulation ==
    /\ step = "start"
    /\ \/ step' = "ready" /\ nfct' = "sense"
       \/ step' = "fail" /\ UNCHANGED nfct
    /\ UNCHANGED <<type, size, records, message, field, seen, clock, started, field_led>>

-------------------------------------------------------------------------------
\* The interrupts

\* A reader comes near or leaves.
Reader ==
    /\ field' = ~field
    /\ UNCHANGED <<type, step, size, records, message, seen, clock, started, nfct, field_led>>

FieldDetectedAtOnce ==  \* mutant: the NFCT is activated without waiting for the clock
    /\ clock' = IF clock = "off" THEN "starting" ELSE clock
    /\ nfct' = "activated" /\ UNCHANGED started

\* nfc_platform_event_handler on NRFX_NFCT_EVT_FIELD_DETECTED starts the clock;
\* the NFCT is not activated before it runs.
FieldDetected ==
    /\ clock' = IF clock = "off" THEN "starting" ELSE clock
    /\ UNCHANGED <<started, nfct>>

\* On NRFX_NFCT_EVT_FIELD_LOST the clock is stopped.
FieldLost == clock' = "off" /\ started' = FALSE /\ nfct' = "sense"

\* The callback of the sample shows the field with an LED, in the same interrupt.
nfc_callback == field_led' = field

nfc_platform_event_handler ==
    /\ nfct # "off" /\ seen # field
    /\ seen' = field /\ nfc_callback
    /\ IF field THEN FieldDetected ELSE FieldLost
    /\ UNCHANGED <<type, step, size, records, message, field>>

ClockRuns ==
    /\ clock = "starting" /\ clock' = "running" /\ started' = TRUE
    /\ UNCHANGED <<type, step, size, records, message, field, seen, nfct, field_led>>

clock_handler ==
    /\ started /\ started' = FALSE /\ nfct' = "activated"
    /\ UNCHANGED <<type, step, size, records, message, field, seen, clock, field_led>>

Next ==
    \/ nfc_platform_setup \/ welcome_msg_encode \/ SetPayload \/ StartEmulation
    \/ Reader \/ nfc_platform_event_handler \/ ClockRuns \/ clock_handler

Spec == Init /\ [][Next]_vars

-------------------------------------------------------------------------------
\* The NFCT is never ACTIVATED while the HFXO does not run, however readers
\* come and go while it starts (the comment on clock_handler).
ActivatedOnlyOnClock == nfct = "activated" => clock = "running"

\* Whatever the size of the buffer, encoding the welcome message, even one that
\* does not fit, writes within it; what it reports is what it wrote, and the
\* first record and the last, and no other, are flagged as such.
PayloadInBuffer ==
    /\ message.written <= size
    /\ message.ok =>
          /\ message.len = message.written
          /\ Len(message.flags) = Len(Texts)
          /\ \A i \in 1..Len(Texts) :
                /\ message.flags[i] \in {"LONE", "FIRST"} <=> i = 1
                /\ message.flags[i] \in {"LONE", "LAST"} <=> i = Len(Texts)

===============================================================================
