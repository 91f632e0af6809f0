------------------------------ MODULE ModbusFrame ------------------------------
(***************************************************************************)
(* The pure half of modlure/core.py: what parse_frame makes of a buffer,   *)
(* how classify_event grades the frame and what build_response answers.    *)
(*                                                                         *)
(* A buffer is a record of the fields struct.unpack would find in it:      *)
(*   size   its length in bytes                                            *)
(*   tid, pid, length, uid                  the four MBAP header fields    *)
(*   fc     the first PDU byte                                             *)
(*   addr, word     the first two 16-bit words of the PDU body             *)
(*   count          the byte that follows them                             *)
(* A field that lies beyond the buffer's last byte carries no meaning, and *)
(* no operator reads it.  None is Python's None.                           *)
(***************************************************************************)
EXTENDS Integers

None == -1

MBAP_LEN == 7

READ_CODES == {1, 2, 3, 4}
WRITE_CODES == {5, 6, 15, 16, 22}
SUSPICIOUS_CODES == {8, 17, 43, 22}
\* The codes of FUNCTION_NAMES that are in neither of the first two sets.
CONTROL_CODES == {23, 43, 8, 17}

Least(a, b) == IF a <= b THEN a ELSE b

-----------------------------------------------------------------------------
(* parse_frame *)

\* The three checks that raise ParseError.  The fourth one of the code, an
\* empty PDU, cannot fail once these have passed.
Malformed(buf) == \/ buf.size < MBAP_LEN + 1
                  \/ buf.pid # 0
                  \/ buf.length < 2

\* Bytes of the PDU after the function code: the PDU is buf[7 : 7 + length - 1].
BodyLen(buf) == Least(buf.size - MBAP_LEN, buf.length - 1) - 1

\* How many body bytes _decode_pdu unpacks.  A code it has no case for is
\* never decoded, whatever its body.
BodyNeeded(fc) == CASE fc \in {1, 2, 3, 4, 5, 6} -> 4
                    [] fc \in {15, 16}            -> 5
                    [] fc = 22                    -> 6

Decodable(buf) == /\ buf.fc \in READ_CODES \cup WRITE_CODES
                  /\ BodyLen(buf) >= BodyNeeded(buf.fc)

\* Number of coil bits or registers _decode_pdu keeps of a multiple write:
\* what the byte count announces, clipped to the bytes that are there.
NumValues(buf) ==
  LET present == Least(buf.count, BodyLen(buf) - 5)
  IN  CASE buf.fc = 15 -> Least(buf.word, 8 * present)
        [] buf.fc = 16 -> present \div 2
        [] buf.fc = 22 -> 2
        [] OTHER       -> 0

\* The ModbusFrame that parse_frame returns for a buffer that is not Malformed.
\* A body that cannot be unpacked leaves every decoded field at its default.
parse_frame(buf) ==
  LET ok == Decodable(buf)
  IN  [ transaction_id |-> buf.tid,
        length         |-> buf.length,
        unit_id        |-> buf.uid,
        function_code  |-> buf.fc,
        address        |-> IF ok THEN buf.addr ELSE None,
        quantity       |-> IF ok /\ buf.fc \in READ_CODES \cup {15, 16}
                             THEN buf.word ELSE None,
        value          |-> IF ok /\ buf.fc \in {5, 6} THEN buf.word ELSE None,
        nvalues        |-> IF ok THEN NumValues(buf) ELSE 0,
        decoded        |-> ok ]

-----------------------------------------------------------------------------
(* classify_event and frame_to_event *)

Category(frame) ==
  CASE frame.function_code \in WRITE_CODES    -> "write"
    [] frame.function_code \in READ_CODES     -> "read"
    [] frame.function_code \in CONTROL_CODES  -> "control"
    [] OTHER                                  -> "unknown"

Oversized(frame) == frame.function_code \in READ_CODES /\ frame.quantity > 125

\* Severity before the check of frame.decoded.
BaseSeverity(frame) ==
  CASE \/ frame.function_code \in WRITE_CODES
       \/ frame.function_code \in SUSPICIOUS_CODES -> "high"
    [] Oversized(frame)                            -> "medium"
    [] Category(frame) = "unknown"                 -> "medium"
    [] Category(frame) = "read" /\ ~Oversized(frame) -> "low"
    [] OTHER                                       -> "info"

Severity(frame) ==
  IF ~frame.decoded /\ BaseSeverity(frame) \in {"info", "low"}
    THEN "medium" ELSE BaseSeverity(frame)

\* The event of one parsed frame, and the event the callers write themselves
\* for a buffer that parse_frame refuses.
frame_to_event(frame, src) ==
  [ src |-> src, category |-> Category(frame), severity |-> Severity(frame),
    function_code |-> frame.function_code, address |-> frame.address,
    transaction_id |-> frame.transaction_id ]

unparseable_event(src) ==
  [ src |-> src, category |-> "unknown", severity |-> "medium",
    function_code |-> None, address |-> None, transaction_id |-> None ]

EventOf(buf, src) == IF Malformed(buf) THEN unparseable_event(src)
                     ELSE frame_to_event(parse_frame(buf), src)

-----------------------------------------------------------------------------
(* build_response *)

\* The byte count of a read answer; `frame.quantity or 0` in the code.
DataBytes(frame) ==
  LET qty == IF frame.quantity = None THEN 0 ELSE frame.quantity
  IN  IF frame.function_code \in {1, 2} THEN (qty + 7) \div 8 ELSE qty * 2

\* bytes([fc, nbytes]) raises ValueError when nbytes does not fit in a byte.
\* parse_frame's callers catch ParseError only, so this one escapes them.
Unanswerable(frame) == /\ frame.function_code \in READ_CODES
                       /\ DataBytes(frame) > 255

PduLen(frame) ==
  CASE frame.function_code \in READ_CODES     -> 2 + DataBytes(frame)
    [] frame.function_code \in {5, 6, 15, 16} -> 5
    [] OTHER                                  -> 2

\* The answer to a frame that is not Unanswerable: MBAP header and function
\* code, the high bit of which marks an exception answer.
build_response(frame) ==
  LET fc == frame.function_code
  IN  [ tid |-> frame.transaction_id, pid |-> 0, length |-> PduLen(frame) + 1,
        uid |-> frame.unit_id,
        fc  |-> IF fc \in READ_CODES \cup {5, 6, 15, 16} \/ fc >= 128
                  THEN fc ELSE fc + 128 ]
=============================================================================
