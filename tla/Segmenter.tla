------------------------------ MODULE Segmenter ------------------------------
(***************************************************************************)
(* cantools-isotp, `segment`: split a payload into single, first and       *)
(* consecutive frames.  One action per step of the function; the payload   *)
(* of a PDU is the slice of the caller's payload that it copies.           *)
(***************************************************************************)
EXTENDS IsoTp

CONSTANTS
  Lengths,     \* the payload lengths a caller may pass
  Capacities   \* the frame payload capacities a caller may pass

ASSUME LengthsAssumption == Lengths \subseteq Nat
ASSUME CapacitiesAssumption == Capacities \subseteq Nat

VARIABLES
  len,     \* payload.len()
  cap,     \* frame_payload_capacity
  pdus,    \* the frames made so far
  offset,  \* the first byte that no frame carries yet
  seq,     \* the sequence number of the next consecutive frame
  pc       \* "start", "loop" or "done"

vars == <<len, cap, pdus, offset, seq, pc>>

-----------------------------------------------------------------------------
Slice(from, to) == [from |-> from, to |-> to]

Init ==
  /\ len \in Lengths
  /\ cap \in Capacities
  /\ pdus = << >>
  /\ offset = 0
  /\ seq = 1
  /\ pc = "start"

\* The early return: everything fits one frame.
SegmentSingle ==
  /\ pc = "start"
  /\ FitsSingleFrame(len, cap)
  /\ pdus' = <<SingleFrame(Slice(0, len))>>
  /\ offset' = len
  /\ pc' = "done"
  /\ UNCHANGED <<len, cap, seq>>

SegmentFirst ==
  /\ pc = "start"
  /\ ~FitsSingleFrame(len, cap)
  /\ pdus' = <<FirstFrame(len, Slice(0, FirstEnd(len, cap)))>>
  /\ offset' = FirstEnd(len, cap)
  /\ seq' = 1
  /\ pc' = "loop"
  /\ UNCHANGED <<len, cap>>

\* Mutant: the slice is clamped to the payload and the offset is not.
EmitConsecutiveUnclamped ==
  /\ pc = "loop"
  /\ offset < len
  /\ pdus' = Append(pdus, ConsecutiveFrame(seq,
               Slice(offset, ConsecutiveEnd(offset, len, cap))))
  /\ offset' = offset + ConsecutiveCapacity(cap)
  /\ seq' = NextSeq(seq)
  /\ UNCHANGED <<len, cap, pc>>

\* One turn of `while offset < payload.len()`.
EmitConsecutive ==
  /\ pc = "loop"
  /\ offset < len
  /\ LET end == ConsecutiveEnd(offset, len, cap)
     IN  /\ pdus' = Append(pdus, ConsecutiveFrame(seq, Slice(offset, end)))
         /\ offset' = end
  /\ seq' = NextSeq(seq)
  /\ UNCHANGED <<len, cap, pc>>

Return ==
  /\ pc = "loop"
  /\ offset >= len
  /\ pc' = "done"
  /\ UNCHANGED <<len, cap, pdus, offset, seq>>

Next == SegmentSingle \/ SegmentFirst \/ EmitConsecutive \/ Return

Spec == Init /\ [][Next]_vars
-----------------------------------------------------------------------------
Slices == [from : Nat, to : Nat]

PDUs ==
  [type : {"SF"}, payload : Slices]
    \cup [type : {"FF"}, total_len : Nat, payload : Slices]
    \cup [type : {"CF"}, sequence_number : SequenceNumbers, payload : Slices]

TypeOK ==
  /\ len \in Lengths
  /\ cap \in Capacities
  /\ pdus \in Seq(PDUs)
  /\ offset \in 0 .. len
  /\ seq \in SequenceNumbers
  /\ pc \in {"start", "loop", "done"}

(***************************************************************************)
(* The slices tile the payload: they start at byte 0, each begins where    *)
(* the one before it ends, and the last ends at offset, which is the end   *)
(* of the payload once the function returns.  Nothing is sent twice and    *)
(* nothing is left out, whatever the length modulo the capacity.           *)
(***************************************************************************)
Tiling ==
  /\ pdus # << >> => /\ pdus[1].payload.from = 0
                     /\ pdus[Len(pdus)].payload.to = offset
  /\ \A k \in 1 .. Len(pdus) - 1 :
       pdus[k + 1].payload.from = pdus[k].payload.to
  /\ pc = "done" => pdus # << >> /\ offset = len

(***************************************************************************)
(* With its protocol control information (one byte, two in a first frame)  *)
(* no PDU is larger than a frame, so `encode` with the same frame size     *)
(* never builds a frame the driver would refuse.                           *)
(***************************************************************************)
PciLength(pdu) == IF pdu.type = "FF" THEN 2 ELSE 1

FitsFrame ==
  \A k \in 1 .. Len(pdus) :
    PciLength(pdus[k]) + (pdus[k].payload.to - pdus[k].payload.from) <= cap

(***************************************************************************)
(* The frames are exactly the ones of the closed form: frame k carries     *)
(* FrameStart..FrameEnd, consecutive frames are numbered 1, 2, .. modulo   *)
(* 16 from the first on, and the loop stops exactly at the first k whose   *)
(* slice would be empty.                                                   *)
(***************************************************************************)
FrameOf(k) ==
  LET slice == Slice(FrameStart(len, cap, k), FrameEnd(len, cap, k))
  IN  IF k = 1 THEN FirstFrame(len, slice)
               ELSE ConsecutiveFrame(FrameSn(k), slice)

ClosedForm ==
  ~FitsSingleFrame(len, cap) =>
    /\ \A k \in 1 .. Len(pdus) : pdus[k] = FrameOf(k)
    /\ \A k \in 1 .. Len(pdus) : k > 1 => FrameStart(len, cap, k) < len
    /\ pc = "done" => FrameStart(len, cap, Len(pdus) + 1) >= len

(***************************************************************************)
(* Every turn of the loop consumes a byte.  len - offset is then a ranking *)
(* of the loop, so the call returns; a capacity of 0 or 1 breaks it.       *)
(***************************************************************************)
Progress == [][pc = "loop" /\ pdus' # pdus => offset' > offset]_vars

\* The capacities for which the above is meant to hold.
UsableCapacities == \A c \in Capacities : c >= 2
=============================================================================
