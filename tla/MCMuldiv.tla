------------------------------ MODULE MCMuldiv ------------------------------
(***************************************************************************)
(* All pairs of 8-bit dwords of two 4-bit halves; clz and ctz of all       *)
(* 16-bit numbers; mul and div with bytes of two bits, at the edges of the *)
(* three widths.                                                           *)
(***************************************************************************)
EXTENDS Muldiv

MCWord64 == 0..(DW - 1)
MCWord32 == 0..65535
MCGpr == {0, 1, 3, 6, 9, 15, 16, 127, 128, 200, 255}
MCRm  == {0, 1, 2, 3, 7, 10, 15, 127, 128, 254, 255}
=============================================================================
