----------------------------- MODULE MCActiveProbe -----------------------------
(***************************************************************************)
(* Small instances of ActiveProbe.                                         *)
(***************************************************************************)
EXTENDS ActiveProbe

CONSTANTS plc, rtu, stranger

MCTargets == {plc, rtu, stranger}
MCScope   == {plc, rtu}
MCBatches == {<<plc, rtu>>, <<stranger, plc>>}
MCQuantities == {1, 126}
MCRates   == {-1, 2}
MCBoots   == {1}
=============================================================================
