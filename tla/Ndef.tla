--------------------------------- MODULE Ndef ---------------------------------
(***************************************************************************)
(* The NDEF encoders (lib/modules/nfc): how long what they write is, and   *)
(* how far into the buffer they write.  A record is the lengths of its     *)
(* fields; the bytes themselves do not matter here.                        *)
(***************************************************************************)
EXTENDS Naturals, Sequences

CONSTANT Wrap   \* lengths are unsigned: one more than the largest

Minus(a, b) == IF b <= a THEN a - b ELSE a + Wrap - b

Failed(written) == [ok |-> FALSE, len |-> 0, written |-> written]
Done(len, written) == [ok |-> TRUE, len |-> len, written |-> written]

\* nfc_ndef_text_rec_payload_encode: status byte, language code and text, into
\* len bytes; without a buffer only the length is computed.
nfc_ndef_text_rec_payload_encode(rec, buff, len) ==
    LET size == 1 + rec.lang + rec.data IN
    IF rec.lang \notin 1..63 \/ rec.data = 0 THEN Failed(0)
    ELSE IF ~buff THEN Done(size, 0)
    ELSE IF size > len THEN Failed(0) ELSE Done(size, size)

\* Flags, type length and a long payload length, then the optional fields.
record_header_size_calc(rec) ==
    6 + rec.id + rec.type + (IF rec.id > 0 THEN 1 ELSE 0)

\* nfc_ndef_record_encode: the header is checked against the room and written,
\* the payload is given the room that is left.
nfc_ndef_record_encode(rec, buff, room) ==
    LET header == record_header_size_calc(rec)
        payload == nfc_ndef_text_rec_payload_encode(rec, buff, Minus(room, header))
    IN  IF buff /\ header > room THEN Failed(0)
        ELSE IF ~payload.ok THEN Failed(IF buff THEN header ELSE 0)
        ELSE Done(header + payload.len, IF buff THEN header + payload.written ELSE 0)

record_location_get(index, record_count) ==
    IF index = 0 THEN IF record_count = 1 THEN "LONE" ELSE "FIRST"
    ELSE IF record_count = index + 1 THEN "LAST" ELSE "MIDDLE"

\* One turn of the loop of nfc_ndef_msg_encode: the next record of `records', into the
\* room that the `len' bytes before it have left of `room'.
nfc_ndef_msg_encode(records, next, len, room) ==
    nfc_ndef_record_encode(records[next], TRUE, Minus(room, len))

\* nfc_ndef_msg_record_add: refused at the capacity of the description.
nfc_ndef_msg_record_add(records, rec, max_record_count) ==
    IF Len(records) >= max_record_count THEN [ok |-> FALSE, records |-> records]
    ELSE [ok |-> TRUE, records |-> Append(records, rec)]

\* nfc_t4t_ndef_file_encode puts the length in front of the message.
NFC_NDEF_FILE_NLEN_FIELD_SIZE == 2
UINT16_MAX == 65535
nfc_t4t_ndef_file_encode(size) ==
    IF size < 1 \/ size > UINT16_MAX THEN Failed(0)
    ELSE Done(size + NFC_NDEF_FILE_NLEN_FIELD_SIZE, NFC_NDEF_FILE_NLEN_FIELD_SIZE)

===============================================================================
