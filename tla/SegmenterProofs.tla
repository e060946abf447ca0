--------------------------- MODULE SegmenterProofs ---------------------------
(***************************************************************************)
(* Segmenter, and PduEncoding that encodes what it cuts, for every set of  *)
(* payload lengths and capacities; encoding asks that the numbers fit the  *)
(* fields `encode` gives them.                                             *)
(***************************************************************************)
EXTENDS PduEncoding, SequenceTheorems, TLAPS

-----------------------------------------------------------------------------
(* Where the code cuts.                                                     *)

\* A frame ends inside the payload, not before it starts, and has room.
LEMMA CutBounds ==
  ASSUME NEW n \in Nat, NEW c \in Nat, NEW o \in 0 .. n
  PROVE  /\ FirstEnd(n, c) \in 0 .. n
         /\ FirstEnd(n, c) <= FirstCapacity(c)
         /\ FirstCapacity(c) \in Nat
         /\ ConsecutiveCapacity(c) \in Nat
         /\ ConsecutiveEnd(o, n, c) \in o .. n
         /\ ConsecutiveEnd(o, n, c) - o <= ConsecutiveCapacity(c)
BY DEF FirstEnd, FirstCapacity, ConsecutiveEnd, ConsecutiveCapacity, MinOf, SatSub

\* With room for a byte, a consecutive frame moves the offset.
LEMMA CutMoves ==
  ASSUME NEW n \in Nat, NEW c \in Nat, NEW o \in 0 .. n, c >= 2, o < n
  PROVE  ConsecutiveEnd(o, n, c) > o
BY DEF ConsecutiveEnd, ConsecutiveCapacity, MinOf, SatSub

\* The four-bit counter stays four bits wide.
LEMMA NextSeqType == ASSUME NEW sn \in SequenceNumbers PROVE NextSeq(sn) \in SequenceNumbers
BY DEF NextSeq, SequenceNumbers

-----------------------------------------------------------------------------
(***************************************************************************)
(* The variables of `segment` keep their types: the offset never runs past *)
(* the payload and the sequence number never leaves four bits.             *)
(***************************************************************************)
THEOREM TypeCorrect == Spec => []TypeOK
<1>1. Init => TypeOK
  BY LengthsAssumption, CapacitiesAssumption DEF Init, TypeOK, SequenceNumbers
<1>2. TypeOK /\ [Next]_vars => TypeOK'
  <2> SUFFICES ASSUME TypeOK, [Next]_vars PROVE TypeOK'
    OBVIOUS
  <2> USE LengthsAssumption, CapacitiesAssumption
  <2>0. len \in Nat /\ cap \in Nat /\ offset \in 0 .. len
    BY DEF TypeOK
  <2>1. CASE SegmentSingle
    BY <2>0, <2>1 DEF TypeOK, SegmentSingle, SingleFrame, Slice, PDUs, Slices
  <2>2. CASE SegmentFirst
    <3>1. FirstEnd(len, cap) \in 0 .. len
      BY <2>0, CutBounds
    <3>2. FirstFrame(len, Slice(0, FirstEnd(len, cap))) \in PDUs
      BY <2>0, <3>1 DEF FirstFrame, Slice, PDUs, Slices
    <3> QED
      BY <2>2, <3>1, <3>2 DEF TypeOK, SegmentFirst, SequenceNumbers
  <2>3. CASE EmitConsecutive
    <3> DEFINE end == ConsecutiveEnd(offset, len, cap)
    <3>1. end \in 0 .. len
      BY <2>0, CutBounds
    <3>2. ConsecutiveFrame(seq, Slice(offset, end)) \in PDUs
      BY <2>0, <3>1 DEF TypeOK, ConsecutiveFrame, Slice, PDUs, Slices
    <3> QED
      BY <2>3, <3>1, <3>2, NextSeqType DEF TypeOK, EmitConsecutive
  <2>4. CASE Return
    BY <2>4 DEF TypeOK, Return
  <2>5. CASE UNCHANGED vars
    BY <2>5 DEF TypeOK, vars
  <2> QED
    BY <2>1, <2>2, <2>3, <2>4, <2>5 DEF Next
<1> QED
  BY <1>1, <1>2, PTL DEF Spec

(***************************************************************************)
(* Whatever the payload and the capacity, the slices tile the payload and  *)
(* a call that returns has cut all of it.                                  *)
(***************************************************************************)
TilingInv == Tiling /\ (pc = "loop" => pdus # << >>)

THEOREM TilesPayload == Spec => []Tiling
<1>1. Init => TilingInv
  BY DEF Init, TilingInv, Tiling
<1>2. TypeOK /\ TilingInv /\ [Next]_vars => TilingInv'
  <2> SUFFICES ASSUME TypeOK, TilingInv, [Next]_vars PROVE TilingInv'
    OBVIOUS
  <2>0. len \in Nat /\ cap \in Nat /\ offset \in 0 .. len
    BY LengthsAssumption, CapacitiesAssumption DEF TypeOK
  <2>1. CASE SegmentSingle
    BY <2>0, <2>1 DEF TilingInv, Tiling, SegmentSingle, SingleFrame, Slice
  <2>2. CASE SegmentFirst
    BY <2>0, <2>2 DEF TilingInv, Tiling, SegmentFirst, FirstFrame, Slice
  <2>3. CASE EmitConsecutive
    <3> DEFINE end == ConsecutiveEnd(offset, len, cap)
               pdu == ConsecutiveFrame(seq, Slice(offset, end))
    <3>1. pdus # << >> /\ pdus \in Seq(PDUs)
      BY <2>3 DEF TypeOK, TilingInv, EmitConsecutive
    <3>2. pdu.payload.from = offset /\ pdu.payload.to = end
      BY DEF ConsecutiveFrame, Slice
    <3>3. pdus' = Append(pdus, pdu) /\ offset' = end /\ pc' = "loop"
      BY <2>3 DEF EmitConsecutive
    <3> HIDE DEF pdu, end
    <3>4. /\ Len(pdus') = Len(pdus) + 1
          /\ pdus'[Len(pdus')] = pdu
          /\ \A k \in 1 .. Len(pdus) : pdus'[k] = pdus[k]
          /\ Len(pdus) \in Nat \ {0}
      BY <3>1, <3>3
    <3> QED
      BY <3>1, <3>2, <3>3, <3>4 DEF TilingInv, Tiling
  <2>4. CASE Return
    BY <2>0, <2>4 DEF TilingInv, Tiling, Return
  <2>5. CASE UNCHANGED vars
    BY <2>5 DEF TilingInv, Tiling, vars
  <2> QED
    BY <2>1, <2>2, <2>3, <2>4, <2>5 DEF Next
<1>3. TilingInv => Tiling
  BY DEF TilingInv
<1> QED
  BY <1>1, <1>2, <1>3, TypeCorrect, PTL DEF Spec

(***************************************************************************)
(* With room for at least one byte after two bytes of protocol control     *)
(* information, or with a capacity of exactly two, no frame of `segment`   *)
(* is larger than the frame payload capacity it was given.                 *)
(***************************************************************************)
THEOREM FramesFit ==
  ASSUME UsableCapacities
  PROVE  Spec => []FitsFrame
<1>1. Init => FitsFrame
  BY DEF Init, FitsFrame
<1>2. TypeOK /\ FitsFrame /\ [Next]_vars => FitsFrame'
  <2> SUFFICES ASSUME TypeOK, FitsFrame, [Next]_vars PROVE FitsFrame'
    OBVIOUS
  <2>0. len \in Nat /\ cap \in Nat /\ cap >= 2 /\ offset \in 0 .. len
    BY LengthsAssumption, CapacitiesAssumption, UsableCapacities
    DEF TypeOK, UsableCapacities
  <2>1. CASE SegmentSingle
    BY <2>0, <2>1
    DEF FitsFrame, SegmentSingle, SingleFrame, Slice, PciLength, FitsSingleFrame, SatSub
  <2>2. CASE SegmentFirst
    <3>1. /\ FirstEnd(len, cap) \in 0 .. len
          /\ FirstEnd(len, cap) <= cap - 2
      BY <2>0, CutBounds DEF FirstCapacity, SatSub
    <3> QED
      BY <2>0, <2>2, <3>1 DEF FitsFrame, SegmentFirst, FirstFrame, Slice, PciLength
  <2>3. CASE EmitConsecutive
    <3> DEFINE end == ConsecutiveEnd(offset, len, cap)
               pdu == ConsecutiveFrame(seq, Slice(offset, end))
    <3>1. PciLength(pdu) + (pdu.payload.to - pdu.payload.from) <= cap
      <4>1. end \in offset .. len /\ end - offset <= cap - 1
        BY <2>0, CutBounds DEF ConsecutiveCapacity, SatSub
      <4> QED
        BY <2>0, <4>1 DEF ConsecutiveFrame, Slice, PciLength
    <3>2. pdus' = Append(pdus, pdu) /\ pdus \in Seq(PDUs) /\ cap' = cap
      BY <2>3 DEF EmitConsecutive, TypeOK
    <3> HIDE DEF pdu, end
    <3>3. /\ Len(pdus') = Len(pdus) + 1
          /\ pdus'[Len(pdus) + 1] = pdu
          /\ \A k \in 1 .. Len(pdus) : pdus'[k] = pdus[k]
          /\ Len(pdus) \in Nat
      BY <3>2
    <3> QED
      BY <3>1, <3>2, <3>3 DEF FitsFrame
  <2>4. CASE Return
    BY <2>4 DEF FitsFrame, Return
  <2>5. CASE UNCHANGED vars
    BY <2>5 DEF FitsFrame, vars
  <2> QED
    BY <2>1, <2>2, <2>3, <2>4, <2>5 DEF Next
<1> QED
  BY <1>1, <1>2, TypeCorrect, PTL DEF Spec

(***************************************************************************)
(* The loop of `segment` moves at every turn, so a call that was given a   *)
(* usable capacity returns after at most len turns.                        *)
(***************************************************************************)
THEOREM LoopProgresses ==
  ASSUME UsableCapacities
  PROVE  Spec => Progress
<1>1. TypeOK /\ [Next]_vars => [pc = "loop" /\ pdus' # pdus => offset' > offset]_vars
  <2> SUFFICES ASSUME TypeOK, Next, pc = "loop", pdus' # pdus
               PROVE  offset' > offset
    BY DEF vars
  <2>1. len \in Nat /\ cap \in Nat /\ cap >= 2 /\ offset \in 0 .. len
    BY LengthsAssumption, CapacitiesAssumption, UsableCapacities
    DEF TypeOK, UsableCapacities
  <2>2. EmitConsecutive
    BY DEF Next, SegmentSingle, SegmentFirst, Return
  <2> QED
    BY <2>1, <2>2, CutMoves DEF EmitConsecutive
<1> QED
  BY <1>1, TypeCorrect, PTL DEF Spec, Progress

-----------------------------------------------------------------------------
(* The frames in closed form.                                               *)

\* The offset the loop has reached after k - 1 frames.
ClosedFormInv ==
  /\ ClosedForm
  /\ pc = "loop" =>
       /\ pdus # << >>
       /\ ~FitsSingleFrame(len, cap)
       /\ offset = MinOf(FrameStart(len, cap, Len(pdus) + 1), len)
       /\ seq = FrameSn(Len(pdus) + 1)

\* Frame k + 1 starts one consecutive frame after frame k, for k > 1.
LEMMA FrameStartStep ==
  ASSUME NEW n \in Nat, NEW c \in Nat, NEW k \in Nat \ {0, 1}
  PROVE  /\ FrameStart(n, c, k) \in Nat
         /\ FrameStart(n, c, k + 1) = FrameStart(n, c, k) + ConsecutiveCapacity(c)
<1> DEFINE w == ConsecutiveCapacity(c)
           f == FirstEnd(n, c)
<1>1. w \in Nat /\ f \in Nat
  BY CutBounds
<1>2. /\ FrameStart(n, c, k) = f + (k - 2) * w
      /\ FrameStart(n, c, k + 1) = f + ((k + 1) - 2) * w
  BY DEF FrameStart
<1> HIDE DEF w, f
<1>3. (k - 2) * w \in Nat
  BY <1>1
<1>4. ((k + 1) - 2) * w = (k - 2) * w + w
  BY <1>1
<1> QED
  BY <1>1, <1>2, <1>3, <1>4 DEF w

\* The next number in four bits is the number of the next frame.
LEMMA FrameSnStep ==
  ASSUME NEW k \in Nat \ {0}
  PROVE  NextSeq(FrameSn(k)) = FrameSn(k + 1)
BY DEF NextSeq, FrameSn

(***************************************************************************)
(* A transfer that does not fit one frame is cut into exactly the frames   *)
(* FrameStart .. FrameEnd describe, numbered modulo 16, and into no more   *)
(* of them than the payload needs.                                         *)
(***************************************************************************)
THEOREM FramesInClosedForm == Spec => []ClosedForm
<1>1. Init => ClosedFormInv
  BY DEF Init, ClosedFormInv, ClosedForm
<1>2. TypeOK /\ ClosedFormInv /\ [Next]_vars => ClosedFormInv'
  <2> SUFFICES ASSUME TypeOK, ClosedFormInv, [Next]_vars PROVE ClosedFormInv'
    OBVIOUS
  <2>0. len \in Nat /\ cap \in Nat /\ offset \in 0 .. len
    BY LengthsAssumption, CapacitiesAssumption DEF TypeOK
  <2>1. CASE SegmentSingle
    BY <2>1 DEF ClosedFormInv, ClosedForm, SegmentSingle
  <2>2. CASE SegmentFirst
    <3>1. /\ pdus' = <<FirstFrame(len, Slice(0, FirstEnd(len, cap)))>>
          /\ len' = len /\ cap' = cap /\ seq' = 1 /\ pc' = "loop"
          /\ ~FitsSingleFrame(len, cap)
          /\ offset' = FirstEnd(len, cap)
      BY <2>2 DEF SegmentFirst
    <3>2. FirstEnd(len, cap) \in 0 .. len
      BY <2>0, CutBounds
    <3>3. FrameStart(len, cap, 2) = FirstEnd(len, cap)
      BY <2>0, <3>2, CutBounds DEF FrameStart
    <3>4. Len(pdus') = 1 /\ pdus'[1] = FirstFrame(len, Slice(0, FirstEnd(len, cap)))
      BY <3>1
    <3>5. FrameSn(2) = 1
      BY DEF FrameSn
    <3>6. FrameOf(1)' = FirstFrame(len, Slice(0, FirstEnd(len, cap)))
      BY <3>1 DEF FrameOf, FrameStart, FrameEnd
    <3>7. ClosedForm'
      BY <3>1, <3>4, <3>6 DEF ClosedForm
    <3>8. offset' = MinOf(FrameStart(len', cap', Len(pdus') + 1), len')
      BY <2>0, <3>1, <3>2, <3>3, <3>4 DEF MinOf
    <3> QED
      BY <3>1, <3>4, <3>5, <3>7, <3>8 DEF ClosedFormInv
  <2>3. CASE EmitConsecutive
    <3> DEFINE n == Len(pdus)
               end == ConsecutiveEnd(offset, len, cap)
               pdu == ConsecutiveFrame(seq, Slice(offset, end))
               start == FrameStart(len, cap, n + 1)
    <3>1. /\ pdus' = Append(pdus, pdu) /\ offset' = end /\ pc' = "loop" /\ pc = "loop"
          /\ len' = len /\ cap' = cap /\ offset < len /\ seq' = NextSeq(seq)
          /\ pdus \in Seq(PDUs)
      BY <2>3 DEF EmitConsecutive, TypeOK
    <3>2. /\ pdus # << >> /\ ~FitsSingleFrame(len, cap)
          /\ offset = MinOf(start, len) /\ seq = FrameSn(n + 1)
      BY <3>1 DEF ClosedFormInv
    <3>3. n \in Nat \ {0}
      BY <3>1, <3>2
    <3>4. /\ start \in Nat
          /\ FrameStart(len, cap, n + 2) = start + ConsecutiveCapacity(cap)
      <4>1. n + 1 \in Nat \ {0, 1} /\ (n + 1) + 1 = n + 2
        BY <3>3
      <4> HIDE DEF n
      <4>2. /\ FrameStart(len, cap, n + 1) \in Nat
            /\ FrameStart(len, cap, (n + 1) + 1)
                 = FrameStart(len, cap, n + 1) + ConsecutiveCapacity(cap)
        BY <2>0, <4>1, FrameStartStep
      <4> QED
        BY <4>1, <4>2
    <3> HIDE DEF start
    <3>5. offset = start
      BY <2>0, <3>1, <3>2, <3>4 DEF MinOf
    <3>6. pdu = FrameOf(n + 1)
      <4>1. n + 1 # 1
        BY <3>3
      <4>2. FrameEnd(len, cap, n + 1) = end
        BY <3>5, <4>1 DEF FrameEnd, start
      <4> QED
        BY <3>2, <3>5, <4>1, <4>2 DEF FrameOf, start
    <3> HIDE DEF pdu
    <3>7. /\ Len(pdus') = n + 1
          /\ pdus'[n + 1] = pdu
          /\ \A k \in 1 .. n : pdus'[k] = pdus[k]
      BY <3>1
    <3>8. \A k : FrameOf(k)' = FrameOf(k)
      BY <3>1 DEF FrameOf
    <3> HIDE DEF n
    <3>9. ClosedForm'
      <4>1. /\ \A k \in 1 .. n : pdus[k] = FrameOf(k)
            /\ \A k \in 1 .. n : k > 1 => FrameStart(len, cap, k) < len
        BY <3>2 DEF ClosedFormInv, ClosedForm, n
      <4>2. \A k \in 1 .. n + 1 : k \in 1 .. n \/ k = n + 1
        BY <3>3
      <4>3. start < len
        BY <3>1, <3>5
      <4>4. \A k \in 1 .. n + 1 : pdus'[k] = FrameOf(k)'
        BY <3>6, <3>7, <3>8, <4>1, <4>2
      <4>5. \A k \in 1 .. n + 1 : k > 1 => FrameStart(len', cap', k) < len'
        BY <3>1, <4>1, <4>2, <4>3 DEF start
      <4> QED
        BY <3>1, <3>7, <4>4, <4>5 DEF ClosedForm
    <3>10. offset' = MinOf(FrameStart(len', cap', Len(pdus') + 1), len')
      <4>1. end = MinOf(start + ConsecutiveCapacity(cap), len)
        BY <3>5 DEF ConsecutiveEnd
      <4>2. Len(pdus') + 1 = n + 2
        BY <3>3, <3>7
      <4> QED
        BY <3>1, <3>4, <4>1, <4>2
    <3>11. seq' = FrameSn(Len(pdus') + 1)
      BY <3>1, <3>2, <3>3, <3>7, FrameSnStep
    <3>12. pdus' # << >>
      BY <3>3, <3>7
    <3> QED
      BY <3>1, <3>2, <3>9, <3>10, <3>11, <3>12 DEF ClosedFormInv, FitsSingleFrame
  <2>4. CASE Return
    <3>1. offset = MinOf(FrameStart(len, cap, Len(pdus) + 1), len) /\ pdus # << >>
      BY <2>4 DEF Return, ClosedFormInv
    <3>2. FrameStart(len, cap, Len(pdus) + 1) \in Nat
      BY <2>0, <3>1, FrameStartStep DEF TypeOK
    <3>3. FrameStart(len, cap, Len(pdus) + 1) >= len
      BY <2>0, <2>4, <3>1, <3>2 DEF Return, MinOf
    <3> QED
      BY <2>4, <3>3 DEF ClosedFormInv, ClosedForm, Return, FrameOf
  <2>5. CASE UNCHANGED vars
    BY <2>5 DEF ClosedFormInv, ClosedForm, FrameOf, vars
  <2> QED
    BY <2>1, <2>2, <2>3, <2>4, <2>5 DEF Next
<1>3. ClosedFormInv => ClosedForm
  BY DEF ClosedFormInv
<1> QED
  BY <1>1, <1>2, <1>3, TypeCorrect, PTL DEF Spec

-----------------------------------------------------------------------------
(* What is encoded reads back.                                              *)

\* A length of a single frame has four bits, an announced total twelve.
NibbleCapacities == \A c \in Capacities : c <= 16
TwelveBitLengths == \A n \in Lengths : n < 4096

ReadsBack(p, size) ==
  Encode(p, size).type = "ok" /\ Read(Encode(p, size).pci) = Meant(p)

LEMMA SingleReads ==
  ASSUME NEW p, p.type = "SF", PayloadLength(p) \in Nat, PayloadLength(p) <= 15,
         NEW size \in Nat \ {0}, PayloadLength(p) <= size - 1
  PROVE  ReadsBack(p, size)
<1> DEFINE n == PayloadLength(p)
<1>1. n \in 0 .. 15 /\ AsByte(n) = n /\ n \div 16 = 0
  BY DEF AsByte
<1>2. Encode(p, size) = Encoded(<<n>>, n)
  <2>1. Encode(p, size) = EncodeSingle(n, size)
    BY DEF Encode
  <2> HIDE DEF n
  <2>2. ~(n > SatSub(size, 1))
    BY <1>1 DEF SatSub, n
  <2> QED
    BY <1>1, <2>1, <2>2 DEF EncodeSingle
<1>3. Read(<<n>>) = [type |-> "SF", len |-> n]
  <2> HIDE DEF n
  <2> QED
    BY <1>1 DEF Read
<1> QED
  BY <1>2, <1>3 DEF ReadsBack, Encoded, Meant

\* The two bytes a total is written in.
LEMMA FirstByte ==
  ASSUME NEW high \in 0 .. 15
  PROVE  /\ LowNibble(high) = high /\ Nibbles(1, high) = 16 + high
         /\ (16 + high) \div 16 = 1 /\ LowNibble(16 + high) = high
BY DEF LowNibble, Nibbles

LEMMA ReadsFirst ==
  ASSUME NEW high \in 0 .. 15, NEW low
  PROVE  Read(<<16 + high, low>>) = [type |-> "FF", len |-> 256 * high + low]
<1> DEFINE byte == 16 + high
<1>1. byte \in Int /\ byte \div 16 = 1 /\ LowNibble(byte) = high
  BY FirstByte
<1> HIDE DEF byte
<1>2. Read(<<byte, low>>) = [type |-> "FF", len |-> 256 * LowNibble(byte) + low]
  BY <1>1 DEF Read
<1> QED
  BY <1>1, <1>2 DEF byte

LEMMA FirstReads ==
  ASSUME NEW p, p.type = "FF", p.total_len \in Nat, p.total_len < 4096, NEW size
  PROVE  ReadsBack(p, size)
<1>0. PICK t \in Nat : t = p.total_len /\ t < 4096
  OBVIOUS
<1>1. PICK high \in Int : high = t \div 256
  OBVIOUS
<1>2. PICK low \in Int : low = t % 256
  OBVIOUS
<1>3. high \in 0 .. 15 /\ low \in 0 .. 255 /\ 256 * high + low = t
  BY <1>0, <1>1, <1>2, SMTT(30)
<1>4. Encode(p, size) = Encoded(<<Nibbles(1, LowNibble(high)), low>>, PayloadLength(p))
  BY <1>0, <1>1, <1>2 DEF Encode, EncodeFirst
<1>5. Encode(p, size) = Encoded(<<16 + high, low>>, PayloadLength(p))
  BY <1>3, <1>4, FirstByte
<1>6. Read(<<16 + high, low>>) = [type |-> "FF", len |-> 256 * high + low]
  BY <1>3, ReadsFirst
<1>7. Read(<<16 + high, low>>) = [type |-> "FF", len |-> t]
  BY <1>3, <1>6
<1> QED
  BY <1>0, <1>5, <1>7 DEF ReadsBack, Encoded, Meant

LEMMA ConsecutiveReads ==
  ASSUME NEW p, p.type = "CF", p.sequence_number \in SequenceNumbers, NEW size
  PROVE  ReadsBack(p, size)
<1> DEFINE sn == p.sequence_number
<1>1. sn \in 0 .. 15 /\ LowNibble(sn) = sn /\ Nibbles(2, sn) = 32 + sn
  BY DEF SequenceNumbers, LowNibble, Nibbles
<1>2. Encode(p, size) = Encoded(<<32 + sn>>, PayloadLength(p))
  BY <1>1 DEF Encode, EncodeConsecutive
<1>3. (32 + sn) \div 16 = 2 /\ LowNibble(32 + sn) = sn
  BY <1>1 DEF LowNibble
<1>4. Read(<<32 + sn>>) = [type |-> "CF", sn |-> sn]
  <2> HIDE DEF sn
  <2> QED
    BY <1>1, <1>3 DEF Read
<1> QED
  BY <1>2, <1>4 DEF ReadsBack, Encoded, Meant

LEMMA FlowControlReads ==
  ASSUME NEW p \in FlowControls, NEW size
  PROVE  ReadsBack(p, size)
<1> DEFINE st == p.status
<1>1. p.type = "FC" /\ st \in 0 .. 2 /\ Nibbles(3, st) = 48 + st
  BY DEF FlowControls, FlowStatuses, Nibbles
<1>2. Encode(p, size) = Encoded(<<48 + st, p.block_size, p.separation_time_ms>>, 0)
  BY <1>1 DEF Encode, EncodeFlowControl
<1>3. (48 + st) \div 16 = 3 /\ LowNibble(48 + st) = st
  BY <1>1 DEF LowNibble
<1>4. Read(<<48 + st, p.block_size, p.separation_time_ms>>) = [type |-> "FC", status |-> st]
  <2> HIDE DEF st
  <2> QED
    BY <1>1, <1>3 DEF Read
<1> QED
  BY <1>1, <1>2, <1>4 DEF ReadsBack, Encoded, Meant

\* What segment puts into the fields of the frames: the length of the payload.
Announced ==
  \A k \in 1 .. Len(pdus) :
    /\ pdus[k].type = "SF" => PayloadLength(pdus[k]) = len
    /\ pdus[k].type = "FF" => pdus[k].total_len = len

LEMMA Announcing == Spec => []Announced
<1>1. Init => Announced
  BY DEF Init, Announced
<1>2. TypeOK /\ Announced /\ [Next]_vars => Announced'
  <2> SUFFICES ASSUME TypeOK, Announced, [Next]_vars PROVE Announced'
    OBVIOUS
  <2>0. len \in Nat /\ pdus \in Seq(PDUs)
    BY LengthsAssumption DEF TypeOK
  <2>1. CASE SegmentSingle
    <3>1. Len(pdus') = 1 /\ pdus'[1] = SingleFrame(Slice(0, len)) /\ len' = len
      BY <2>1 DEF SegmentSingle
    <3> QED
      BY <2>0, <3>1 DEF Announced, SingleFrame, Slice, PayloadLength
  <2>2. CASE SegmentFirst
    <3>1. /\ Len(pdus') = 1 /\ len' = len
          /\ pdus'[1] = FirstFrame(len, Slice(0, FirstEnd(len, cap)))
      BY <2>2 DEF SegmentFirst
    <3> QED
      BY <2>0, <3>1 DEF Announced, FirstFrame
  <2>3. CASE EmitConsecutive
    <3> DEFINE new == ConsecutiveFrame(seq, Slice(offset, ConsecutiveEnd(offset, len, cap)))
    <3>1. pdus' = Append(pdus, new) /\ len' = len
      BY <2>3 DEF EmitConsecutive
    <3>2. new.type = "CF"
      BY DEF ConsecutiveFrame
    <3> HIDE DEF new
    <3>3. /\ Len(pdus') = Len(pdus) + 1 /\ pdus'[Len(pdus) + 1] = new
          /\ \A k \in 1 .. Len(pdus) : pdus'[k] = pdus[k]
      BY <2>0, <3>1
    <3> QED
      BY <2>0, <3>1, <3>2, <3>3 DEF Announced, PayloadLength
  <2>4. CASE Return
    BY <2>4 DEF Return, Announced, PayloadLength
  <2>5. CASE UNCHANGED vars
    BY <2>5 DEF vars, Announced, PayloadLength
  <2> QED
    BY <2>1, <2>2, <2>3, <2>4, <2>5 DEF Next
<1> QED
  BY <1>1, <1>2, TypeCorrect, PTL DEF Spec

\* Every frame that segment returns reads back.
LEMMA ReturnedReads ==
  ASSUME UsableCapacities, NibbleCapacities, TwelveBitLengths,
         TypeOK, FitsFrame, Announced, NEW k \in 1 .. Len(pdus)
  PROVE  ReadsBack(pdus[k], cap)
<1> DEFINE p == pdus[k]
<1>1. len \in Nat /\ len < 4096 /\ cap \in Nat /\ cap >= 2 /\ cap <= 16
  BY LengthsAssumption, CapacitiesAssumption
     DEF TypeOK, UsableCapacities, NibbleCapacities, TwelveBitLengths
<1>2. p \in PDUs
  BY ElementOfSeq DEF TypeOK
<1>3. CASE p.type = "SF"
  <2>1. PayloadLength(p) = len
    BY <1>3 DEF Announced
  <2>2. PayloadLength(p) <= cap - 1
    BY <1>1, <1>3, <2>1 DEF FitsFrame, PciLength, PayloadLength
  <2>3. PayloadLength(p) \in Nat
    BY <1>1, <2>1
  <2> HIDE DEF p
  <2>4. PayloadLength(p) <= 15 /\ cap \in Nat \ {0}
    BY <1>1, <2>2, <2>3
  <2>5. ReadsBack(p, cap)
    BY <1>3, <2>2, <2>3, <2>4, SingleReads
  <2> QED
    BY <2>5 DEF p
<1>4. CASE p.type = "FF"
  <2>1. p.total_len = len
    BY <1>4 DEF Announced
  <2> HIDE DEF p
  <2>2. p.total_len \in Nat /\ p.total_len < 4096
    BY <1>1, <2>1
  <2>3. ReadsBack(p, cap)
    BY <1>4, <2>2, FirstReads
  <2> QED
    BY <2>3 DEF p
<1>5. CASE p.type = "CF"
  <2>1. p.sequence_number \in SequenceNumbers
    BY <1>2, <1>5 DEF PDUs
  <2> QED
    BY <1>5, <2>1, ConsecutiveReads
<1> QED
  BY <1>2, <1>3, <1>4, <1>5 DEF PDUs

(***************************************************************************)
(* For capacities of up to 16 bytes and payloads of less than 4096, what   *)
(* `segment` returns and every flow control frame is encoded without an    *)
(* error to control bytes that tell it again (isotp 94-135, 139-167).      *)
(***************************************************************************)
THEOREM EncodesRecoverably ==
  ASSUME UsableCapacities, NibbleCapacities, TwelveBitLengths
  PROVE  Spec => []Recoverable
<1>1. TypeOK /\ FitsFrame /\ Announced => Recoverable
  BY ReturnedReads, FlowControlReads DEF Recoverable, ReadsBack
<1> QED
  BY <1>1, TypeCorrect, FramesFit, Announcing, PTL
=============================================================================
