----------------------------- MODULE NativeFrame -----------------------------
(***************************************************************************)
(* cantools-socketcan: a frame on its way through the kernel.  `send`      *)
(* writes a struct can_frame or canfd_frame, `recv_native` reads either    *)
(* into the larger of the two and tells them apart by the bytes received.  *)
(*                                                                         *)
(* The identifier word keeps its value and its three flag bits apart: the  *)
(* flags are bits 29 to 31, and no identifier reaches them.                *)
(***************************************************************************)
EXTENDS CanFrame

-----------------------------------------------------------------------------
\* `can_id_from_frame`: the value and the flag bits that are set.
CanIdFromFrame(f) ==
  [value |-> f.id.raw,
   flags |-> (IF f.id.extended THEN {"EFF"} ELSE {})
               \cup (IF f.class = "remote" THEN {"RTR"} ELSE {})
               \cup (IF f.class = "error" THEN {"ERR"} ELSE {})]

\* Mutant: the FD flags are put into the struct of the wrong frame kind.
NativeOfFlagged(f) ==
  [size |-> IF f.fd THEN "fd" ELSE "classic", can_id |-> CanIdFromFrame(f),
   len |-> f.dlc, flags |-> IF f.fd THEN {} ELSE f.fd_flags]

\* What `send` writes.  A classic struct has no room for FD flags.
NativeOf(f) ==
  [size |-> IF f.fd THEN "fd" ELSE "classic", can_id |-> CanIdFromFrame(f),
   len |-> f.dlc, flags |-> IF f.fd THEN f.fd_flags ELSE {}]

\* raw_id & CAN_EFF_MASK, or raw_id & 0x7ff
IdOf(can_id) ==
  IF "EFF" \in can_id.flags
  THEN Extended(can_id.value % (MaxExtended + 1))
  ELSE Standard(can_id.value % (MaxStandard + 1))

ClassOf(can_id) ==
  IF "ERR" \in can_id.flags THEN "error"
  ELSE IF "RTR" \in can_id.flags THEN "remote"
  ELSE "data"

\* What `recv_native` returns: the length is clamped to what the struct holds.
FrameOfNative(n) ==
  LET fd == n.size = "fd"
      held == MaxPayload(fd)
  IN  NewFrame(IdOf(n.can_id), ClassOf(n.can_id), IF n.len <= held THEN n.len ELSE held,
               fd, IF fd THEN n.flags ELSE {})
=============================================================================
