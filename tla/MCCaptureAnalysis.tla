--------------------------- MODULE MCCaptureAnalysis ---------------------------
(***************************************************************************)
(* Small instances of CaptureAnalysis.                                     *)
(***************************************************************************)
EXTENDS CaptureAnalysis

V4(port) == [host |-> "a", port |-> port, family |-> "v4"]
V6       == [host |-> "b", port |-> 1, family |-> "v6"]

\* A line whose buffer has the given fields; `digits` as many as it has.
Line(src, digits, fc, addr, word) ==
  [ comment |-> FALSE, digits |-> digits, src |-> src,
    buf |-> [ size |-> 0, tid |-> 1, pid |-> 0, length |-> 6, uid |-> 1,
              fc |-> fc, addr |-> addr, word |-> word, count |-> 0 ] ]

MCLines ==
  { Line(V4(1), 24, 3, 0, 1),       \* a read, low
    Line(V4(1), 25, 3, 7, 1),       \* another address, a stray digit
    Line(V4(2), 23, 3, 0, 1),       \* cut: undecodable, medium
    Line(Blank, 24, 6, 0, 1),       \* a write, high, no source
    Line(V6, 24, 23, 0, 0),         \* a control code, medium
    Line(V6, 8, 3, 0, 0),           \* too short: unparseable
    [Line(Blank, 24, 3, 0, 1) EXCEPT !.comment = TRUE],
    Line(Blank, 1, 0, 0, 0) }       \* less than a byte

MCCaptures == UNION {[1..m -> MCLines] : m \in 0..3}

Ioc(addr, type) == [addr |-> addr, ioc_type |-> type]

MCFeedBodies == { {}, {Ioc(V4(9), "ip:port")}, {Ioc(V4(9), "url"), Ioc(Blank, "ip:port")} }

MCFloors == {"any", "medium", "high"}
=============================================================================
