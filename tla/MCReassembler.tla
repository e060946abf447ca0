---------------------------- MODULE MCReassembler ----------------------------
(***************************************************************************)
(* Reassembler under every sequence of PDUs with up to two bytes each.     *)
(* The longest transfer has four bytes, so a frame may end it exactly,     *)
(* overshoot it, or carry nothing.                                         *)
(***************************************************************************)
EXTENDS Reassembler

MCChunks == UNION {[1 .. n -> Bytes] : n \in 0 .. 2}
MCTotals == 0 .. 4
=============================================================================
