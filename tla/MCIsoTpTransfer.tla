--------------------------- MODULE MCIsoTpTransfer ---------------------------
(***************************************************************************)
(* Transfers at the smallest usable capacity, where every byte after the   *)
(* first frame is a frame of its own: the sequence number comes round      *)
(* within one message of 18 bytes.  A message in one frame stands between  *)
(* two segmented ones, so that it may interrupt a transfer that is stuck.  *)
(***************************************************************************)
EXTENDS IsoTpTransfer

WrapLengths == <<18, 1, 3>>
=============================================================================
