----------------------------- MODULE PduEncoding -----------------------------
(***************************************************************************)
(* cantools-isotp, `ProtocolDataUnit::encode`: the bytes a PDU becomes in  *)
(* a CAN frame.  The protocol control information in front is modelled bit *)
(* for bit; of the payload, which is copied, only the length counts.       *)
(*                                                                         *)
(* A sender encodes what `segment` returned, with the capacity it cut the  *)
(* payload for as the frame size, and a receiver answers with flow         *)
(* control.  There is no decoder in the code: `Read` below inverts the     *)
(* layout `encode` writes, high nibble first.                              *)
(***************************************************************************)
EXTENDS Segmenter

SingleFrameTooLarge == [type |-> "too large"]
Encoded(pci, payload) == [type |-> "ok", pci |-> pci, payload |-> payload]

\* FlowStatus, as the low nibble that stands for it.
FlowStatuses == {0, 1, 2}
FlowControls ==
  [type : {"FC"}, status : FlowStatuses, block_size : {0, 255}, separation_time_ms : {0, 255}]

-----------------------------------------------------------------------------
\* x as u8
AsByte(x) == x % 256

\* x & 0x0f, and high | low for a high nibble and a low one.
LowNibble(x) == x % 16
Nibbles(high, low) == 16 * high + low

EncodeSingle(n, size) ==
  IF n > SatSub(size, 1) THEN SingleFrameTooLarge ELSE Encoded(<<AsByte(n)>>, n)

\* Mutant: the bytes of the total are swapped.
EncodeFirstSwapped(total, n) ==
  Encoded(<<Nibbles(1, LowNibble(total % 256)), AsByte(total \div 256)>>, n)

EncodeFirst(total, n) ==
  Encoded(<<Nibbles(1, LowNibble(total \div 256)), total % 256>>, n)

EncodeConsecutive(sn, n) == Encoded(<<Nibbles(2, LowNibble(sn))>>, n)

EncodeFlowControl(p) ==
  Encoded(<<Nibbles(3, p.status), p.block_size, p.separation_time_ms>>, 0)

PayloadLength(p) == p.payload.to - p.payload.from

Encode(p, size) ==
  CASE p.type = "SF" -> EncodeSingle(PayloadLength(p), size)
    [] p.type = "FF" -> EncodeFirst(p.total_len, PayloadLength(p))
    [] p.type = "CF" -> EncodeConsecutive(p.sequence_number, PayloadLength(p))
    [] p.type = "FC" -> EncodeFlowControl(p)

-----------------------------------------------------------------------------
(* What the control information says: type and announced quantity.          *)
Read(pci) ==
  CASE pci[1] \div 16 = 0 -> [type |-> "SF", len |-> pci[1]]
    [] pci[1] \div 16 = 1 /\ Len(pci) = 2 -> [type |-> "FF", len |-> 256 * LowNibble(pci[1]) + pci[2]]
    [] pci[1] \div 16 = 2 -> [type |-> "CF", sn |-> LowNibble(pci[1])]
    [] pci[1] \div 16 = 3 -> [type |-> "FC", status |-> LowNibble(pci[1])]
    [] OTHER -> [type |-> "unknown"]

Meant(p) ==
  CASE p.type = "SF" -> [type |-> "SF", len |-> PayloadLength(p)]
    [] p.type = "FF" -> [type |-> "FF", len |-> p.total_len]
    [] p.type = "CF" -> [type |-> "CF", sn |-> p.sequence_number]
    [] p.type = "FC" -> [type |-> "FC", status |-> p.status]

(***************************************************************************)
(* Whatever `segment` returns, and every flow control frame, encodes       *)
(* without an error and reads back as the PDU it was: no length, total or  *)
(* sequence number leaks into the bits that tell the four types apart, and *)
(* none is cut short.  The lengths are those of the configuration: a total *)
(* has twelve bits, and from 16 bytes on (CAN FD) the length of a single   *)
(* frame runs into the type, see the README.                               *)
(***************************************************************************)
Recoverable ==
  \A p \in {pdus[k] : k \in 1 .. Len(pdus)} \cup FlowControls :
    LET out == Encode(p, cap)
    IN  out.type = "ok" /\ Read(out.pci) = Meant(p)
=============================================================================
