--------------------------- MODULE MCHoneypotServer ---------------------------
(***************************************************************************)
(* Small instances of HoneypotServer.                                      *)
(***************************************************************************)
EXTENDS HoneypotServer

CONSTANTS p1, p2

\* A frame of a given length field, before it is laid out in a stream.
Frame(tid, pid, length, fc, word) ==
  [ at |-> 0, size |-> MBAP_LEN + (IF length >= 1 THEN length - 1 ELSE 0), tid |-> tid, pid |-> pid,
    length |-> length, uid |-> 1, fc |-> fc, addr |-> 0, word |-> word,
    count |-> 0 ]

At(u, n) == [u EXCEPT !.at = n]
Then(u, v) == <<u, At(v, u.size)>>

Read(tid)      == Frame(tid, 0, 6, 3, 2)      \* answered, low
Write(tid)     == Frame(tid, 0, 6, 6, 1)      \* answered, high
Huge(tid)      == Frame(tid, 0, 6, 3, 128)    \* build_response raises
CutWrite(tid)  == Frame(tid, 0, 2, 16, 0)     \* no body: high, undecoded
Foreign(tid)   == Frame(tid, 9, 3, 3, 0)      \* not protocol 0
Empty(tid)     == Frame(tid, 0, 0, 0, 0)      \* a bare header

\* What probe_target sends: read_holding_request, report_server_id_request,
\* device_identification_request.
ServerId(tid)  == Frame(tid, 0, 2, 17, 0)
DeviceId(tid)  == Frame(tid, 0, 5, 43, 3584)
Probing        == << Read(1), At(ServerId(2), 12), At(DeviceId(3), 20) >>

MCPeers   == {p1, p2}
MCProbes  == { Probing }
MCStreams == { Probing, Then(Foreign(1), CutWrite(2)),
               Append(Then(Empty(1), Huge(2)), At(Write(3), 19)) }
MCChunks  == {5}
=============================================================================
