----------------------------- MODULE MCSegmenter -----------------------------
(***************************************************************************)
(* Segmenter and the encoding of what it returns, for every payload length *)
(* up to three frames past the wrap of the sequence number at the smallest *)
(* capacity, two lengths with a high nibble in the announced total, and    *)
(* the capacities around the smallest usable one and of a classic frame.   *)
(***************************************************************************)
EXTENDS PduEncoding

MCLengths == (0 .. 36) \cup {300, 705}
MCCapacities == {2, 3, 4, 7, 8}
=============================================================================
