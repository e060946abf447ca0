-------------------------------- MODULE IsoTp --------------------------------
(***************************************************************************)
(* The arithmetic and the protocol data units of cantools-isotp that the   *)
(* sender (Segmenter), the receiver (Reassembler) and the transfer that    *)
(* composes them (IsoTpTransfer) share.                                    *)
(*                                                                         *)
(* A payload is a sequence of bytes.  `segment` never looks at a byte: it  *)
(* only cuts the payload at offsets, so everything about WHERE it cuts is  *)
(* stated here over lengths.  Offsets are 0-based and slices half-open, as *)
(* in the code: payload[from..to].                                         *)
(***************************************************************************)
EXTENDS Integers, Sequences

MinOf(a, b) == IF a <= b THEN a ELSE b

\* usize::saturating_sub
SatSub(a, b) == IF a >= b THEN a - b ELSE 0

\* Sequence numbers are four bits wide: `(seq + 1) & 0x0f`.
SequenceNumbers == 0 .. 15
NextSeqUnwrapped(sn) == sn + 1  \* mutant: the mask is forgotten
NextSeq(sn) == (sn + 1) % 16

-----------------------------------------------------------------------------
(* How `segment` cuts a payload of len bytes for frames of cap bytes.       *)

FirstCapacityOneByte(cap) == SatSub(cap, 1)  \* mutant: one byte of PCI, not two
FirstCapacity(cap) == SatSub(cap, 2)
ConsecutiveCapacityTwoBytes(cap) == SatSub(cap, 2)  \* mutant: the PCI of a first frame
ConsecutiveCapacity(cap) == SatSub(cap, 1)

FitsSingleFrame(len, cap) == len <= SatSub(cap, 1)

FirstEnd(len, cap) == MinOf(len, FirstCapacity(cap))
ConsecutiveEnd(offset, len, cap) == MinOf(offset + ConsecutiveCapacity(cap), len)

(***************************************************************************)
(* The cuts in closed form: frame k of a multi-frame transfer carries      *)
(* payload[FrameStart .. FrameEnd] and, for k > 1, sequence number         *)
(* FrameSn(k).  Segmenter shows that the loop of the code makes these      *)
(* frames and no others; IsoTpTransfer sends them.                         *)
(***************************************************************************)
FrameStart(len, cap, k) ==
  IF k = 1 THEN 0
           ELSE FirstEnd(len, cap) + (k - 2) * ConsecutiveCapacity(cap)

FrameEnd(len, cap, k) ==
  IF k = 1 THEN FirstEnd(len, cap)
           ELSE ConsecutiveEnd(FrameStart(len, cap, k), len, cap)

FrameSn(k) == (k - 1) % 16

-----------------------------------------------------------------------------
(* ProtocolDataUnit, one constructor per variant.                           *)

SingleFrame(payload) == [type |-> "SF", payload |-> payload]

FirstFrame(total_len, payload) ==
  [type |-> "FF", total_len |-> total_len, payload |-> payload]

ConsecutiveFrame(sn, payload) ==
  [type |-> "CF", sequence_number |-> sn, payload |-> payload]

FlowControl == [type |-> "FC"]
=============================================================================
