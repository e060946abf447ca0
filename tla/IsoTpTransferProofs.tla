------------------------- MODULE IsoTpTransferProofs -------------------------
(***************************************************************************)
(* IsoTpTransfer implements MessageChannel for all messages, all frame     *)
(* capacities that can be used and any number of lost or repeated frames,  *)
(* and delivers everything in time if none is lost.                        *)
(***************************************************************************)
EXTENDS IsoTpTransfer, SequenceTheorems, TLAPS

Positive == Nat \ {0}

-----------------------------------------------------------------------------
(* The frames of one message.                                               *)

Width == Capacity - 1   \* data bytes of a full consecutive frame
Start(m, k) == FrameStart(Lengths[m], Capacity, k)
End(m, k) == FrameEnd(Lengths[m], Capacity, k)

\* The constants are the numbers the proofs compute with.
LEMMA Sizes ==
  /\ Width \in Nat \ {0}
  /\ Len(Lengths) \in Nat
  /\ \A m \in Messages : Lengths[m] \in Nat
BY LengthsAssumption, CapacityAssumption DEF Width, Messages

\* The payload of a message is a sequence of its length.
LEMMA Payload ==
  ASSUME NEW m \in Messages
  PROVE  Payloads[m] \in Seq(Bytes) /\ Len(Payloads[m]) = Lengths[m]
<1>1. Lengths[m] \in Nat /\ m \in Nat
  BY Sizes DEF Messages
<1>2. Payloads[m] = [i \in 1 .. Lengths[m] |-> <<m, i>>]
  BY DEF Payloads
<1> QED
  BY <1>1, <1>2 DEF Bytes

\* The cuts of a message that needs several frames, as multiples of Width.
LEMMA Cuts ==
  ASSUME NEW m \in Messages, ~InOneFrame(m), NEW k \in Positive
  PROVE  /\ Lengths[m] > Width
         /\ Start(m, k) = IF k = 1 THEN 0 ELSE (k - 1) * Width - 1
         /\ HasFrame(m, k) => /\ Start(m, k) \in 0 .. Lengths[m] - 1
                              /\ End(m, k) = MinOf(k * Width - 1, Lengths[m])
<1> DEFINE len == Lengths[m]
<1>1. len \in Nat /\ Width \in Nat \ {0} /\ Capacity = Width + 1
  BY Sizes, CapacityAssumption DEF Width
<1>2. len > Width
  BY <1>1 DEF InOneFrame, FitsSingleFrame, SatSub
<1>3. FirstEnd(len, Capacity) = Width - 1
  BY <1>1, <1>2 DEF FirstEnd, FirstCapacity, SatSub, MinOf
<1>4. ConsecutiveCapacity(Capacity) = Width
  BY <1>1 DEF ConsecutiveCapacity, SatSub
<1>5. k # 1 => Width - 1 + (k - 2) * Width = (k - 1) * Width - 1
  BY <1>1 DEF Positive
<1>6. Start(m, k) = IF k = 1 THEN 0 ELSE (k - 1) * Width - 1
  BY <1>3, <1>4, <1>5 DEF Start, FrameStart
<1>7. k # 1 => (k - 1) * Width \in Nat \ {0}
  BY <1>1 DEF Positive
<1>8. Start(m, k) \in Nat
  BY <1>6, <1>7
<1>9. (k - 1) * Width - 1 + Width = k * Width - 1
  BY <1>1 DEF Positive
<1>10. HasFrame(m, k) => End(m, k) = MinOf(k * Width - 1, len)
  <2>1. CASE k = 1
    BY <2>1, <1>1, <1>2, <1>3 DEF End, FrameEnd, MinOf
  <2>2. CASE k # 1
    BY <2>2, <1>4, <1>6, <1>9 DEF End, FrameEnd, ConsecutiveEnd, Start
  <2> QED
    BY <2>1, <2>2
<1>11. HasFrame(m, k) => Start(m, k) < len
  BY <1>1, <1>2, <1>6 DEF HasFrame, Start
<1> QED
  BY <1>1, <1>2, <1>6, <1>8, <1>10, <1>11

\* What frame k carries.
Slice(m, k) == SubSeq(Payloads[m], Start(m, k) + 1, End(m, k))

\* A slice is bytes of the message, no more than a frame takes.
LEMMA Slices ==
  ASSUME NEW m \in Messages, ~InOneFrame(m), NEW k \in Positive, HasFrame(m, k)
  PROVE  /\ Slice(m, k) \in Seq(Bytes)
         /\ Len(Slice(m, k)) = End(m, k) - Start(m, k)
         /\ Len(Slice(m, k)) <= Width
         /\ Start(m, k) \in Nat /\ End(m, k) \in Start(m, k) .. Lengths[m]
<1> DEFINE s == Start(m, k)
           e == End(m, k)
<1>1. s \in 0 .. Lengths[m] - 1 /\ e = MinOf(k * Width - 1, Lengths[m])
  BY Cuts
<1>2. s = (IF k = 1 THEN 0 ELSE (k - 1) * Width - 1) /\ Lengths[m] > Width
  BY Cuts
<1>3. Width \in Nat \ {0} /\ Lengths[m] \in Nat
  BY Sizes
<1>4. k * Width \in Nat /\ k * Width = (k - 1) * Width + Width
  BY <1>3 DEF Positive
<1>5. (k - 1) * Width \in Nat
  BY <1>3 DEF Positive
<1>6. e \in s .. Lengths[m] /\ e - s <= Width
  <2>1. CASE k = 1
    BY <2>1, <1>1, <1>2, <1>3 DEF MinOf
  <2>2. CASE k # 1
    BY <2>2, <1>1, <1>2, <1>3, <1>4, <1>5 DEF MinOf
  <2> QED
    BY <2>1, <2>2
<1>7. \A i \in s + 1 .. e : Payloads[m][i] \in Bytes
  BY <1>1, <1>6, <1>3, Payload, ElementOfSeq
<1>8. Slice(m, k) \in Seq(Bytes) /\ Len(Slice(m, k)) = IF s + 1 <= e THEN e - (s + 1) + 1 ELSE 0
  <2>1. s + 1 \in Int /\ e \in Int
    BY <1>1, <1>6, <1>3
  <2> HIDE DEF s, e
  <2>2. SubSeq(Payloads[m], s + 1, e) \in Seq(Bytes)
    BY <2>1, <1>7, SubSeqProperties
  <2>3. Len(SubSeq(Payloads[m], s + 1, e)) = IF s + 1 <= e THEN e - (s + 1) + 1 ELSE 0
    BY <2>1, <1>7, SubSeqProperties
  <2> QED
    BY <2>2, <2>3 DEF Slice, s, e
<1> QED
  BY <1>1, <1>3, <1>6, <1>8

-----------------------------------------------------------------------------
(* What the receiver makes of a frame.                                      *)

(***************************************************************************)
(* The transfer in progress is of message c: n frames have been accepted,  *)
(* the last of them was frame l.  As long as these are the same the buffer *)
(* is the beginning of the message.  If frames were lost whose number is a *)
(* multiple of sixteen, the next one is accepted too, and then the buffer  *)
(* is shorter than frame l ends, for ever.                                 *)
(***************************************************************************)
InProgress(c, n, l) ==
  /\ ~InOneFrame(c)
  /\ total_len = Lengths[c]
  /\ next_seq = n % 16
  /\ n <= l /\ (l - n) % 16 = 0
  /\ buffer \in Seq(Bytes) /\ Len(buffer) <= n * Width - 1
  /\ n = l => buffer = SubSeq(Payloads[c], 1, End(c, n))

\* What `ingest` may change of the receiver.
received == <<total_len, next_seq, buffer>>

\* The frames of a message, by their kind.
LEMMA Pdus ==
  ASSUME NEW m \in Messages, NEW k \in Positive
  PROVE  /\ InOneFrame(m) => Pdu(m, k) = SingleFrame(Payloads[m])
         /\ ~InOneFrame(m) /\ k = 1 => Pdu(m, k) = FirstFrame(Lengths[m], Slice(m, k))
         /\ ~InOneFrame(m) /\ k # 1 => Pdu(m, k) = ConsecutiveFrame(FrameSn(k), Slice(m, k))
BY DEF Pdu, Slice, Start, End

\* The branch of `ingest` that a frame takes.
LEMMA Branches ==
  ASSUME NEW pdu, Rx!Ingest(pdu)
  PROVE  /\ pdu.type = "SF" => Rx!IngestSingle(pdu.payload)
         /\ pdu.type = "FF" => Rx!IngestFirst(pdu.total_len, pdu.payload)
         /\ pdu.type = "CF" => Rx!IngestConsecutive(pdu.sequence_number, pdu.payload)
BY Zenon DEF Rx!Ingest

\* A single frame delivers the message and leaves the transfer alone.
LEMMA IngestsSingle ==
  ASSUME NEW m \in Messages, NEW k \in Positive, InOneFrame(m), Rx!Ingest(Pdu(m, k))
  PROVE  result' = Rx!Whole(Payloads[m]) /\ UNCHANGED received
<1>1. Rx!IngestSingle(Payloads[m])
  <2>1. Pdu(m, k).type = "SF" /\ Pdu(m, k).payload = Payloads[m]
    BY Pdus DEF SingleFrame
  <2> QED
    BY <2>1, Branches
<1> QED
  BY <1>1 DEF Rx!IngestSingle, Rx!state, received

\* A first frame starts the transfer of its message afresh.
LEMMA IngestsFirst ==
  ASSUME NEW m \in Messages, ~InOneFrame(m), Rx!Ingest(Pdu(m, 1))
  PROVE  result'.type # "some" /\ InProgress(m, 1, 1)'
<1> DEFINE slice == Slice(m, 1)
<1>0. 1 \in Positive /\ HasFrame(m, 1)
  BY DEF Positive, HasFrame
<1>1. Rx!IngestFirst(Lengths[m], slice)
  <2> DEFINE pdu == Pdu(m, 1)
  <2>1. pdu.type = "FF" /\ pdu.total_len = Lengths[m] /\ pdu.payload = slice
    BY <1>0, Pdus DEF FirstFrame
  <2>2. pdu.type = "FF" => Rx!IngestFirst(pdu.total_len, pdu.payload)
    BY Branches
  <2> HIDE DEF pdu
  <2> QED
    BY <2>1, <2>2
<1>2. slice \in Seq(Bytes) /\ Len(slice) = Width - 1 /\ Width - 1 < Lengths[m]
  <2>1. Start(m, 1) = 0 /\ End(m, 1) = MinOf(1 * Width - 1, Lengths[m]) /\ Lengths[m] > Width
    BY <1>0, Cuts
  <2>2. End(m, 1) = Width - 1
    BY <2>1, Sizes DEF MinOf
  <2> QED
    BY <1>0, <2>1, <2>2, Slices, Sizes
<1>3. slice = SubSeq(Payloads[m], 1, End(m, 1))
  <2>1. Start(m, 1) + 1 = 1
    BY <1>0, Cuts
  <2> QED
    BY <2>1, Zenon DEF Slice
<1> HIDE DEF slice
<1>4. /\ buffer' = slice /\ total_len' = Lengths[m] /\ next_seq' = 1
      /\ result' = Rx!Ok
  BY <1>1, <1>2 DEF Rx!IngestFirst, Rx!TakeIfComplete
<1>5. 1 * Width - 1 = Width - 1
  BY Sizes
<1> QED
  BY <1>2, <1>3, <1>4, <1>5, Sizes DEF InProgress, Rx!Ok

\* Which frame a receiver that has accepted n frames, the last of them frame l,
\* takes for the next one: that one, or one sixteen frames or more later.
LEMMA Numbers ==
  ASSUME NEW n \in Positive, NEW l \in Positive, NEW k \in Positive,
         n <= l, l <= k, (l - n) % 16 = 0, FrameSn(k) = n % 16
  PROVE  /\ (k - (n + 1)) % 16 = 0
         /\ n + 1 <= k
         /\ n + 1 = k => n = l
         /\ n + 1 # k => n + 17 <= k
         /\ NextSeq(n % 16) = (n + 1) % 16
BY DEF FrameSn, NextSeq, Positive

\* The next frame continues the beginning of the message.
LEMMA Continues ==
  ASSUME NEW m \in Messages, ~InOneFrame(m), NEW n \in Positive, HasFrame(m, n + 1)
  PROVE  SubSeq(Payloads[m], 1, End(m, n)) \o Slice(m, n + 1)
           = SubSeq(Payloads[m], 1, End(m, n + 1))
<1> DEFINE k == n + 1
           len == Lengths[m]
<1>1. Width \in Nat \ {0} /\ len \in Nat /\ n * Width \in Nat \ {0}
  BY Sizes DEF Positive
<1>2. k \in Positive /\ k - 1 = n /\ k # 1
  BY DEF Positive
<1>3. Start(m, k) = n * Width - 1 /\ Start(m, k) < len
  <2>1. HasFrame(m, k)
    OBVIOUS
  <2> HIDE DEF k, len
  <2>2. Start(m, k) = (k - 1) * Width - 1 /\ Start(m, k) \in 0 .. Lengths[m] - 1
    BY <1>2, <2>1, Cuts
  <2> QED
    BY <1>1, <1>2, <2>2 DEF len
<1>4. HasFrame(m, n)
  <2>1. CASE n = 1
    BY <2>1 DEF HasFrame
  <2>2. CASE n # 1
    <3>1. Start(m, n) = (n - 1) * Width - 1
      BY <2>2, Cuts
    <3>2. (n - 1) * Width <= n * Width
      BY <1>1 DEF Positive
    <3>3. (n - 1) * Width \in Int
      BY <1>1 DEF Positive
    <3>4. Start(m, n) < len
      BY <3>1, <3>2, <3>3, <1>1, <1>3
    <3> QED
      BY <3>4 DEF HasFrame, Start
  <2> QED
    BY <2>1, <2>2
<1>5. End(m, n) = MinOf(n * Width - 1, len)
  BY <1>4, Cuts
<1>6. End(m, n) = Start(m, k) /\ End(m, n) \in 0 .. len
  BY <1>1, <1>3, <1>5 DEF MinOf
<1>7. End(m, k) \in Start(m, k) .. len
  BY <1>2, Slices
<1>8. Payloads[m] \in Seq(Bytes) /\ Len(Payloads[m]) = len
  BY Payload
<1> HIDE DEF k, len
<1>9. SubSeq(Payloads[m], 1, End(m, n)) \o SubSeq(Payloads[m], End(m, n) + 1, End(m, k))
        = SubSeq(Payloads[m], 1, End(m, k))
  <2>1. /\ 1 \in 1 .. Len(Payloads[m]) + 1
        /\ End(m, n) \in 1 - 1 .. Len(Payloads[m])
        /\ End(m, k) \in End(m, n) .. Len(Payloads[m])
    BY <1>1, <1>6, <1>7, <1>8
  <2> QED
    BY <2>1, <1>8, ConcatAdjacentSubSeq
<1> QED
  BY <1>6, <1>9, Zenon DEF Slice, k

(***************************************************************************)
(* A consecutive frame is refused, or ends the transfer with the whole     *)
(* message, or is one more frame of it.                                    *)
(***************************************************************************)
LEMMA IngestsConsecutive ==
  ASSUME NEW m \in Messages, ~InOneFrame(m),
         NEW k \in Positive, k # 1, HasFrame(m, k), Rx!Ingest(Pdu(m, k)),
         NEW n \in Positive, NEW l \in Positive,
         Rx!Active => InProgress(m, n, l) /\ l <= k
  PROVE  \/ result'.type # "some" /\ UNCHANGED received
         \/ result' = Rx!Whole(Payloads[m]) /\ Rx!Active /\ ~Rx!Active'
         \/ result'.type # "some" /\ Rx!Active /\ InProgress(m, n + 1, k)'
<1> DEFINE slice == Slice(m, k)
           sn == FrameSn(k)
           bytes == buffer \o slice
           len == Lengths[m]
<1>1. Rx!IngestConsecutive(sn, slice)
  <2> DEFINE pdu == Pdu(m, k)
  <2>1. pdu.type = "CF" /\ pdu.sequence_number = sn /\ pdu.payload = slice
    BY Pdus DEF ConsecutiveFrame
  <2>2. pdu.type = "CF" => Rx!IngestConsecutive(pdu.sequence_number, pdu.payload)
    BY Branches
  <2> HIDE DEF pdu, sn, slice
  <2> QED
    BY <2>1, <2>2
<1>2. CASE Rx!RejectUnexpected
  BY <1>2 DEF Rx!RejectUnexpected, Rx!UnexpectedConsecutiveFrame, Rx!state, received
<1>3. CASE Rx!RejectMismatch(sn)
  BY <1>3 DEF Rx!RejectMismatch, Rx!SequenceNumberMismatch, Rx!state, received
<1>4. CASE Rx!AcceptConsecutive(sn, slice)
  <2> HIDE DEF slice, sn, bytes, len
  <2>1. Rx!Active /\ sn = next_seq /\ next_seq' = NextSeq(next_seq)
    BY <1>4 DEF Rx!AcceptConsecutive, Rx!NextSeq, NextSeq
  <2>2. Rx!TakeIfComplete(bytes, total_len)
    BY <1>4 DEF Rx!AcceptConsecutive, bytes
  <2>3. /\ total_len = len /\ next_seq = n % 16
        /\ n <= l /\ l <= k /\ (l - n) % 16 = 0
        /\ buffer \in Seq(Bytes) /\ Len(buffer) <= n * Width - 1
        /\ n = l => buffer = SubSeq(Payloads[m], 1, End(m, n))
    BY <2>1 DEF InProgress, len
  <2>4. /\ (k - (n + 1)) % 16 = 0
        /\ n + 1 <= k
        /\ n + 1 = k => n = l
        /\ n + 1 # k => n + 17 <= k
        /\ next_seq' = (n + 1) % 16
    BY <2>1, <2>3, Numbers DEF sn
  <2>5. slice \in Seq(Bytes) /\ Len(slice) <= Width /\ Len(slice) \in Nat
    BY Slices, LenProperties DEF slice
  <2>6. Width \in Nat \ {0} /\ len \in Nat /\ Width < len /\ n * Width \in Nat \ {0}
    BY Sizes, Cuts DEF len, Positive
  <2>7. bytes \in Seq(Bytes) /\ Len(bytes) = Len(buffer) + Len(slice) /\ Len(buffer) \in Nat
    BY <2>3, <2>5, ConcatProperties, LenProperties DEF bytes
  <2>8. (n + 1) * Width = n * Width + Width
    BY <2>6 DEF Positive
  <2>9. Len(bytes) <= (n + 1) * Width - 1
    BY <2>3, <2>5, <2>6, <2>7, <2>8
  <2>10. n + 1 = k => bytes = SubSeq(Payloads[m], 1, End(m, k))
    BY <2>3, <2>4, Continues DEF bytes, slice
  <2>11. CASE Len(bytes) < len
    <3>1. buffer' = bytes /\ total_len' = len /\ result' = Rx!Ok
      BY <2>2, <2>3, <2>11 DEF Rx!TakeIfComplete
    <3> QED
      BY <2>1, <2>4, <2>7, <2>9, <2>10, <3>1 DEF InProgress, Rx!Ok, len
  <2>12. CASE ~(Len(bytes) < len)
    <3>1. n + 1 = k
      <4>1. Start(m, k) = (k - 1) * Width - 1 /\ Start(m, k) < len
        BY Cuts, Sizes DEF len
      <4>2. n + 17 <= k => (n + 1) * Width <= (k - 1) * Width
        BY <2>6 DEF Positive
      <4>3. (n + 1) * Width \in Int /\ (k - 1) * Width \in Int
        BY <2>6 DEF Positive
      <4>4. ~(n + 17 <= k)
        BY <2>6, <2>7, <2>9, <2>12, <4>1, <4>2, <4>3
      <4> QED
        BY <2>4, <4>4
    <3>2. bytes = SubSeq(Payloads[m], 1, End(m, k)) /\ End(m, k) \in 0 .. len
      BY <2>10, <3>1, Slices DEF len
    <3>3. Payloads[m] \in Seq(Bytes) /\ Len(Payloads[m]) = len
      BY Payload DEF len
    <3>4. Len(bytes) = End(m, k)
      <4>1. \A i \in 1 .. End(m, k) : Payloads[m][i] \in Bytes
        BY <3>2, <3>3, <2>6, ElementOfSeq
      <4>2. 1 \in Int /\ End(m, k) \in Int
        BY <3>2
      <4>3. Len(SubSeq(Payloads[m], 1, End(m, k)))
              = IF 1 <= End(m, k) THEN End(m, k) - 1 + 1 ELSE 0
        BY <4>1, <4>2, SubSeqProperties
      <4> QED
        BY <3>2, <4>3
    <3>5. End(m, k) = len
      BY <2>6, <2>12, <3>2, <3>4
    <3>6. bytes = Payloads[m]
      BY <3>2, <3>3, <3>5, SubSeqFull
    <3>7. total_len' = Rx!None /\ result' = Rx!Whole(SubSeq(Payloads[m], 1, len))
      BY <2>2, <2>3, <2>12, <3>6 DEF Rx!TakeIfComplete
    <3>8. SubSeq(Payloads[m], 1, len) = Payloads[m]
      BY <3>3, SubSeqFull
    <3> QED
      BY <2>1, <3>7, <3>8 DEF Rx!Active
  <2> QED
    BY <2>11, <2>12
<1> QED
  BY <1>1, <1>2, <1>3, <1>4 DEF Rx!IngestConsecutive

-----------------------------------------------------------------------------
(* The frames under way, the one sent next behind them, are consecutive     *)
(* frames of the messages.                                                  *)

FrameAt(i) == IF i <= Len(wire) THEN wire[i] ELSE <<msg, frame>>

Successor(f) ==
  IF HasFrame(f[1], f[2] + 1) THEN <<f[1], f[2] + 1>> ELSE <<f[1] + 1, 1>>

Offered == IF frame > 1 THEN msg ELSE msg - 1

Line ==
  /\ msg \in 1 .. Len(Lengths) + 1
  /\ frame \in Positive
  /\ IF msg \in Messages THEN HasFrame(msg, frame) ELSE frame = 1
  /\ wire \in Seq(Messages \X Positive)
  /\ \A i \in 1 .. Len(wire) : /\ HasFrame(wire[i][1], wire[i][2])
                               /\ wire[i][1] <= Offered
                               /\ FrameAt(i + 1) = Successor(wire[i])

\* The frame at the head of the wire is a frame of a message offered.
LEMMA HeadOfLine ==
  ASSUME Line, wire # << >>
  PROVE  \E m \in Messages, k \in Positive :
           /\ Head(wire) = <<m, k>> /\ FrameAt(1) = <<m, k>>
           /\ HasFrame(m, k) /\ m <= Offered
<1>1. wire \in Seq(Messages \X Positive) /\ Len(wire) \in Nat \ {0}
  BY EmptySeq DEF Line
<1>2. Head(wire) = wire[1] /\ 1 \in 1 .. Len(wire)
  BY <1>1
<1>3. wire[1] \in Messages \X Positive
  BY <1>1, <1>2, ElementOfSeq
<1>4. PICK m \in Messages, k \in Positive : wire[1] = <<m, k>>
  BY <1>3
<1>5. HasFrame(wire[1][1], wire[1][2]) /\ wire[1][1] <= Offered
  BY <1>2 DEF Line
<1>6. HasFrame(m, k) /\ m <= Offered
  BY <1>4, <1>5
<1>7. FrameAt(1) = wire[1]
  BY <1>2 DEF FrameAt
<1> QED
  BY <1>2, <1>4, <1>6, <1>7

\* A frame that is sent takes the last place of the line.
LEMMA SendKeepsLine ==
  ASSUME Line, Send
  PROVE  Line' /\ FrameAt(1)' = FrameAt(1)
<1> DEFINE new == <<msg, frame>>
           S == Messages \X Positive
<1>1. /\ msg \in Messages /\ frame \in Positive /\ HasFrame(msg, frame)
      /\ wire' = Append(wire, new) /\ wire \in Seq(S)
  BY DEF Line, Send
<1>2. /\ wire' \in Seq(S) /\ Len(wire') = Len(wire) + 1 /\ Len(wire) \in Nat
      /\ \A i \in 1 .. Len(wire) : wire'[i] = wire[i]
      /\ wire'[Len(wire) + 1] = new
  <2>1. new \in S
    BY <1>1
  <2> HIDE DEF new, S
  <2> QED
    BY <1>1, <2>1, AppendProperties, LenProperties
<1>3. /\ <<msg', frame'>> = Successor(new)
      /\ msg' \in 1 .. Len(Lengths) + 1 /\ frame' \in Positive
      /\ IF msg' \in Messages THEN HasFrame(msg', frame') ELSE frame' = 1
  <2>1. Len(Lengths) \in Nat
    BY Sizes
  <2>2. CASE HasFrame(msg, frame + 1)
    BY <1>1, <2>1, <2>2 DEF Send, Successor, Messages, Positive
  <2>3. CASE ~HasFrame(msg, frame + 1)
    BY <1>1, <2>1, <2>3 DEF Send, Successor, Messages, Positive, HasFrame
  <2> QED
    BY <2>2, <2>3
<1>4. msg <= Offered' /\ Offered <= Offered' /\ Offered \in Int /\ Offered' \in Int
  <2>1. msg \in Nat /\ frame \in Nat \ {0}
    BY <1>1 DEF Messages, Positive
  <2> QED
    BY <2>1 DEF Send, Offered
<1>5. ASSUME NEW i \in 1 .. Len(wire')
      PROVE  /\ HasFrame(wire'[i][1], wire'[i][2])
             /\ wire'[i][1] <= Offered'
             /\ FrameAt(i + 1)' = Successor(wire'[i])
  <2>1. CASE i \in 1 .. Len(wire)
    <3>1. /\ HasFrame(wire[i][1], wire[i][2]) /\ wire[i][1] <= Offered
          /\ FrameAt(i + 1) = Successor(wire[i])
      BY <2>1 DEF Line
    <3>2. wire[i][1] \in Int
      BY <1>1, <2>1, ElementOfSeq DEF Messages
    <3>3. FrameAt(i + 1)' = FrameAt(i + 1)
      BY <1>2, <2>1 DEF FrameAt
    <3> QED
      BY <1>2, <1>4, <2>1, <3>1, <3>2, <3>3
  <2>2. CASE i = Len(wire) + 1
    <3>1. FrameAt(i + 1)' = <<msg', frame'>>
      BY <1>2, <2>2 DEF FrameAt
    <3>2. wire'[i] = new /\ new[1] = msg /\ new[2] = frame
      BY <1>2, <2>2
    <3> HIDE DEF new
    <3> QED
      BY <1>1, <1>3, <1>4, <3>1, <3>2
  <2> QED
    BY <1>2, <2>1, <2>2
<1>6. FrameAt(1)' = FrameAt(1)
  BY <1>2 DEF FrameAt
<1> QED
  BY <1>2, <1>3, <1>5, <1>6 DEF Line

\* Without its head the line begins with the frame after it.
LEMMA HeadLeavesLine ==
  ASSUME Line, wire # << >>, wire' = Tail(wire), UNCHANGED <<msg, frame>>
  PROVE  Line' /\ FrameAt(1)' = Successor(FrameAt(1))
<1> DEFINE S == Messages \X Positive
<1>1. wire \in Seq(S) /\ Len(wire) \in Nat \ {0}
  BY EmptySeq DEF Line
<1>2. /\ wire' \in Seq(S) /\ Len(wire') = Len(wire) - 1
      /\ \A i \in 1 .. Len(wire') : wire'[i] = wire[i + 1]
  <2> HIDE DEF S
  <2> QED
    BY <1>1, HeadTailProperties
<1>3. Offered' = Offered
  BY DEF Offered
<1>4. \A i \in 1 .. Len(wire) : FrameAt(i)' = FrameAt(i + 1)
  BY <1>1, <1>2 DEF FrameAt
<1>5. ASSUME NEW i \in 1 .. Len(wire')
      PROVE  /\ HasFrame(wire'[i][1], wire'[i][2])
             /\ wire'[i][1] <= Offered'
             /\ FrameAt(i + 1)' = Successor(wire'[i])
  <2>1. i + 1 \in 1 .. Len(wire) /\ wire'[i] = wire[i + 1]
    BY <1>1, <1>2
  <2>2. /\ HasFrame(wire[i + 1][1], wire[i + 1][2]) /\ wire[i + 1][1] <= Offered
        /\ FrameAt((i + 1) + 1) = Successor(wire[i + 1])
    BY <2>1 DEF Line
  <2>3. FrameAt(i + 1)' = FrameAt((i + 1) + 1)
    BY <1>4, <2>1
  <2> QED
    BY <1>3, <2>1, <2>2, <2>3
<1>6. FrameAt(1)' = Successor(FrameAt(1))
  <2>1. 1 \in 1 .. Len(wire) /\ FrameAt(1) = wire[1]
    BY <1>1 DEF FrameAt
  <2>2. FrameAt(1 + 1) = Successor(wire[1])
    BY <2>1 DEF Line
  <2> QED
    BY <1>4, <2>1, <2>2
<1> QED
  BY <1>2, <1>5, <1>6 DEF Line

-----------------------------------------------------------------------------
(* The receiver and the frame it gets next.                                 *)

\* If frame f continues a message, a transfer in progress is of that message.
Expecting(f) ==
  Rx!Active =>
    \E c \in Messages, n, l \in Positive :
      InProgress(c, n, l) /\ (f[2] > 1 => c = f[1] /\ l <= f[2])

\* What has been delivered precedes frame f, or is the message that f repeats.
DeliveredBefore(f) ==
  /\ last <= f[1]
  /\ last = f[1] => InOneFrame(f[1]) \/ (f[2] > 1 /\ ~Rx!Active)

\* The inductive invariant.
IInv ==
  /\ Line
  /\ last \in Nat
  /\ ~headless => Expecting(FrameAt(1)) /\ DeliveredBefore(FrameAt(1))

(***************************************************************************)
(* Frame k of message m is ingested, and f is the frame after it, or the   *)
(* same once more.                                                         *)
(***************************************************************************)
LEMMA Ingests ==
  ASSUME NEW m \in Messages, NEW k \in Positive, HasFrame(m, k),
         Rx!Ingest(Pdu(m, k)), last \in Nat,
         Expecting(<<m, k>>), DeliveredBefore(<<m, k>>),
         last' = IF result'.type = "some" THEN m ELSE last,
         NEW f,
         f = <<m, k>> \/ f = <<m + 1, 1>> \/ (f = <<m, k + 1>> /\ ~InOneFrame(m))
  PROVE  /\ Expecting(f)' /\ DeliveredBefore(f)'
         /\ result'.type = "some" =>
              result' = Rx!Whole(Payloads[m]) /\ (m > last \/ (m = last /\ InOneFrame(m)))
<1>1. m \in Nat /\ k \in Nat \ {0}
  BY DEF Messages, Positive
<1>2. last <= m /\ (last = m => InOneFrame(m) \/ (k > 1 /\ ~Rx!Active))
  BY DEF DeliveredBefore
<1>3. f[1] \in {m, m + 1} /\ (f[2] > 1 => f[1] = m /\ k <= f[2] /\ ~InOneFrame(m))
  BY <1>1 DEF HasFrame
<1>4. CASE InOneFrame(m)
  <2>1. result' = Rx!Whole(Payloads[m]) /\ UNCHANGED received
    BY <1>4, IngestsSingle
  <2>2. last' = m
    BY <2>1 DEF Rx!Whole
  <2>3. ~(f[2] > 1)
    BY <1>3, <1>4
  <2>4. Expecting(f)'
    <3>1. SUFFICES ASSUME Rx!Active'
                   PROVE  \E c \in Messages, n, l \in Positive : InProgress(c, n, l)'
      BY <2>3 DEF Expecting
    <3>2. Rx!Active
      BY <2>1, <3>1 DEF Rx!Active, received
    <3>3. PICK c \in Messages, n \in Positive, l \in Positive : InProgress(c, n, l)
      BY <3>2 DEF Expecting
    <3>4. InProgress(c, n, l)'
      BY <2>1, <3>3 DEF InProgress, received
    <3> QED
      BY <3>4
  <2> QED
    BY <1>1, <1>2, <1>3, <1>4, <2>1, <2>2, <2>4 DEF DeliveredBefore
<1>5. CASE ~InOneFrame(m) /\ k = 1
  <2>1. result'.type # "some" /\ InProgress(m, 1, 1)'
    BY <1>5, IngestsFirst
  <2>2. last' = last /\ last < m
    BY <1>1, <1>2, <1>5, <2>1
  <2>3. Expecting(f)'
    BY <1>1, <1>3, <1>5, <2>1 DEF Expecting, Positive
  <2> QED
    BY <1>1, <1>3, <2>1, <2>2, <2>3 DEF DeliveredBefore
<1>6. CASE ~InOneFrame(m) /\ k # 1
  <2>1. k > 1
    BY <1>1, <1>6
  <2>2. PICK n \in Positive, l \in Positive : Rx!Active => InProgress(m, n, l) /\ l <= k
    <3>1. CASE Rx!Active
      BY <2>1, <3>1 DEF Expecting
    <3>2. CASE ~Rx!Active
      BY <3>2 DEF Positive
    <3> QED
      BY <3>1, <3>2
  <2>3. CASE result'.type # "some" /\ UNCHANGED received
    <3>1. last' = last /\ Rx!Active' = Rx!Active
      BY <2>3 DEF received, Rx!Active
    <3>2. Rx!Active' => InProgress(m, n, l)' /\ l <= k
      BY <2>2, <2>3, <3>1 DEF received, InProgress
    <3>3. Expecting(f)'
      BY <1>1, <1>3, <3>2 DEF Expecting, Positive
    <3>4. last = m => f[1] = m + 1 \/ (f[2] > 1 /\ ~Rx!Active)
      BY <1>1, <1>2, <1>6, <2>1
    <3> QED
      BY <1>1, <1>2, <1>3, <2>3, <3>1, <3>3, <3>4 DEF DeliveredBefore
  <2>4. CASE result' = Rx!Whole(Payloads[m]) /\ Rx!Active /\ ~Rx!Active'
    <3>1. last' = m
      BY <2>4 DEF Rx!Whole
    <3>2. last < m
      BY <1>1, <1>2, <1>6, <2>4
    <3>3. f[1] = m => f[2] > 1
      BY <1>1, <2>1
    <3> QED
      BY <1>1, <1>3, <2>4, <3>1, <3>2, <3>3 DEF Expecting, DeliveredBefore
  <2>5. CASE result'.type # "some" /\ Rx!Active /\ InProgress(m, n + 1, k)'
    <3>1. last' = last /\ last < m
      BY <1>1, <1>2, <1>6, <2>5
    <3>2. n + 1 \in Positive
      BY DEF Positive
    <3>3. Expecting(f)'
      BY <1>3, <2>5, <3>2 DEF Expecting
    <3> QED
      BY <1>1, <1>3, <2>5, <3>1, <3>3 DEF DeliveredBefore
  <2> QED
    BY <1>6, <2>2, <2>3, <2>4, <2>5, IngestsConsecutive
<1> QED
  BY <1>4, <1>5, <1>6

-----------------------------------------------------------------------------
(* The steps.                                                               *)

\* Nothing has been sent, received or delivered.
LEMMA InitIInv == Init => IInv
<1> SUFFICES ASSUME Init PROVE IInv
  OBVIOUS
<1>1. Line
  <2>1. 1 \in Messages => HasFrame(1, 1)
    BY DEF HasFrame
  <2>2. Len(wire) = 0 /\ wire \in Seq(Messages \X Positive)
    BY EmptySeq DEF Init
  <2> QED
    BY <2>1, <2>2, Sizes DEF Init, Line, Positive
<1>2. FrameAt(1) = <<1, 1>>
  BY EmptySeq DEF Init, FrameAt
<1>3. Expecting(<<1, 1>>) /\ DeliveredBefore(<<1, 1>>)
  BY DEF Init, Rx!Init, Rx!Active, Expecting, DeliveredBefore
<1> QED
  BY <1>1, <1>2, <1>3 DEF Init, IInv

\* What follows when frame f is at the head of the line after a step.
LEMMA NextAtHead ==
  ASSUME Line', last' \in Nat, NEW f, FrameAt(1)' = f,
         ~headless' => Expecting(f)' /\ DeliveredBefore(f)'
  PROVE  IInv'
BY DEF IInv, Expecting, DeliveredBefore

\* Sending a frame offers its message, if it is the first, and nothing else.
LEMMA SendKeeps ==
  ASSUME IInv, Send
  PROVE  IInv' /\ [Channel!Next]_Channel!vars
<1>1. Line' /\ FrameAt(1)' = FrameAt(1)
  BY SendKeepsLine DEF IInv
<1>2. UNCHANGED <<received, result, last, delivered, headless>>
  BY DEF Send, receiver, received
<1>3. IInv'
  BY <1>1, <1>2 DEF IInv, Expecting, DeliveredBefore, InProgress, received, Rx!Active
<1>4. [Channel!Next]_Channel!vars
  <2>1. msg \in Messages /\ frame \in Nat \ {0} /\ msg \in Nat
    BY DEF Send, IInv, Line, Positive, Messages
  <2>2. Channel!Messages = Messages
    BY Sizes DEF Channel!Messages, Messages, Payloads
  <2>3. CASE frame = 1
    <3>1. Offered = msg - 1 /\ Offered' = msg
      BY <2>1, <2>3 DEF Send, Offered
    <3>2. Channel!Offer
      BY <1>2, <2>1, <2>2, <3>1 DEF Channel!Offer, Offered
    <3> QED
      BY <3>2 DEF Channel!Next
  <2>4. CASE frame # 1
    <3>1. Offered' = Offered
      BY <2>1, <2>4 DEF Send, Offered
    <3> QED
      BY <1>2, <3>1 DEF Channel!vars, Offered
  <2> QED
    BY <2>3, <2>4
<1> QED
  BY <1>3, <1>4

\* The frame at the head is ingested and leaves the wire, or stays.
LEMMA IngestKeeps ==
  ASSUME IInv, IngestHead, wire' = Tail(wire) \/ wire' = wire
  PROVE  IInv' /\ [Channel!Next]_Channel!vars
<1>0. PICK m \in Messages, k \in Positive :
        /\ Head(wire) = <<m, k>> /\ FrameAt(1) = <<m, k>>
        /\ HasFrame(m, k) /\ m <= Offered
  BY HeadOfLine DEF IInv, IngestHead
<1>1. /\ wire # << >> /\ Rx!Ingest(Pdu(m, k))
      /\ UNCHANGED <<msg, frame, headless>>
      /\ ~headless => last' = IF result'.type = "some" THEN m ELSE last
      /\ headless \/ result'.type # "some" => UNCHANGED <<last, delivered>>
      /\ ~headless /\ result'.type = "some" => delivered' = Append(delivered, result'.payload)
  BY <1>0 DEF IngestHead
<1>2. Line /\ last \in Nat /\ m \in Nat
  BY DEF IInv, Messages
<1> PICK f : f = IF wire' = wire THEN <<m, k>> ELSE Successor(<<m, k>>)
  OBVIOUS
<1>3. Line' /\ FrameAt(1)' = f
  <2>1. CASE wire' = wire
    BY <1>0, <1>1, <1>2, <2>1 DEF Line, FrameAt, Offered
  <2>2. CASE wire' # wire
    BY <1>0, <1>1, <1>2, <2>2, HeadLeavesLine
  <2> QED
    BY <2>1, <2>2
<1>4. f = <<m, k>> \/ f = <<m + 1, 1>> \/ (f = <<m, k + 1>> /\ ~InOneFrame(m))
  BY <1>0, <1>2 DEF Successor, HasFrame, Positive
<1>5. Offered' = Offered
  BY <1>1 DEF Offered
<1>6. CASE headless
  <2>1. IInv'
    BY <1>0, <1>1, <1>2, <1>3, <1>6 DEF IInv
  <2>2. UNCHANGED Channel!vars
    BY <1>1, <1>5, <1>6 DEF Channel!vars, Offered
  <2> QED
    BY <2>1, <2>2
<1>7. CASE ~headless
  <2>1. Expecting(<<m, k>>) /\ DeliveredBefore(<<m, k>>)
    BY <1>0, <1>2, <1>7 DEF IInv
  <2>2. /\ Expecting(f)' /\ DeliveredBefore(f)'
        /\ result'.type = "some" =>
             result' = Rx!Whole(Payloads[m]) /\ (m > last \/ (m = last /\ InOneFrame(m)))
    BY <1>0, <1>1, <1>2, <1>4, <1>7, <2>1, Ingests
  <2>3. last' \in Nat
    BY <1>0, <1>1, <1>2, <1>7
  <2>4. IInv'
    BY <1>3, <2>2, <2>3, NextAtHead
  <2>5. CASE result'.type = "some"
    <3>1. m \in Channel!Messages
      BY <1>0, <1>2, Sizes DEF Channel!Messages, Messages, Payloads
    <3>2. last' = m /\ delivered' = Append(delivered, Payloads[m])
      BY <1>1, <1>7, <2>2, <2>5 DEF Rx!Whole
    <3>3. m > last \/ (m = last /\ m \in {n \in Messages : InOneFrame(n)})
      BY <1>0, <1>2, <2>2, <2>5
    <3>4. Channel!Deliver(m)
      BY <1>0, <1>2, <1>5, <3>2, <3>3 DEF Channel!Deliver, Offered
    <3> QED
      BY <2>4, <3>1, <3>4 DEF Channel!Next
  <2>6. CASE result'.type # "some"
    <3>1. UNCHANGED Channel!vars
      BY <1>1, <1>5, <2>6 DEF Channel!vars, Offered
    <3> QED
      BY <2>4, <3>1
  <2> QED
    BY <2>5, <2>6
<1> QED
  BY <1>6, <1>7

\* A lost frame delivers nothing, and what follows it still fits.
LEMMA LoseKeeps ==
  ASSUME IInv, Lose
  PROVE  IInv' /\ [Channel!Next]_Channel!vars
<1>0. PICK m \in Messages, k \in Positive :
        Head(wire) = <<m, k>> /\ FrameAt(1) = <<m, k>> /\ HasFrame(m, k)
  BY HeadOfLine DEF IInv, Lose
<1>1. /\ wire # << >> /\ wire' = Tail(wire)
      /\ headless' = (headless \/ (k = 1 /\ ~InOneFrame(m)))
      /\ UNCHANGED <<msg, frame, received, last, delivered>>
  BY <1>0 DEF Lose, receiver, received
<1>2. Line /\ last \in Nat /\ m \in Nat /\ k \in Nat \ {0}
  BY DEF IInv, Messages, Positive
<1> PICK f : f = Successor(<<m, k>>)
  OBVIOUS
<1>3. Line' /\ FrameAt(1)' = f
  BY <1>0, <1>1, <1>2, HeadLeavesLine
<1>4. UNCHANGED Channel!vars
  BY <1>1 DEF Channel!vars
<1>5. ASSUME ~headless'
      PROVE  Expecting(f)' /\ DeliveredBefore(f)'
  <2>1. Expecting(<<m, k>>) /\ DeliveredBefore(<<m, k>>)
    BY <1>0, <1>1, <1>2, <1>5 DEF IInv
  <2>2. f = <<m + 1, 1>> \/ (f = <<m, k + 1>> /\ k > 1)
    <3>1. k = 1 => InOneFrame(m)
      BY <1>1, <1>5
    <3>2. k = 1 => ~HasFrame(m, k + 1)
      BY <1>0, <1>2, <3>1 DEF HasFrame
    <3> QED
      BY <1>0, <1>2, <3>2 DEF Successor
  <2>3. last <= m /\ (last = m => InOneFrame(m) \/ (k > 1 /\ ~Rx!Active))
    BY <2>1 DEF DeliveredBefore
  <2>4. Rx!Active' = Rx!Active
    BY <1>1 DEF received, Rx!Active
  <2>5. DeliveredBefore(f)'
    BY <1>0, <1>1, <1>2, <2>2, <2>3, <2>4 DEF DeliveredBefore
  <2>6. Expecting(f)'
    <3>1. SUFFICES ASSUME Rx!Active'
                   PROVE  \E c \in Messages, n, l \in Positive :
                            InProgress(c, n, l)' /\ (f[2] > 1 => c = f[1] /\ l <= f[2])
      BY DEF Expecting
    <3>2. PICK c \in Messages, n \in Positive, l \in Positive :
            InProgress(c, n, l) /\ (k > 1 => c = m /\ l <= k)
      BY <2>1, <2>4, <3>1 DEF Expecting
    <3>3. InProgress(c, n, l)'
      BY <1>1, <3>2 DEF received, InProgress
    <3>4. f[2] > 1 => c = f[1] /\ l <= f[2]
      BY <1>0, <1>2, <2>2, <3>2 DEF Positive
    <3> QED
      BY <3>3, <3>4
  <2> QED
    BY <2>5, <2>6
<1>6. last' \in Nat
  BY <1>0, <1>1, <1>2
<1>7. IInv'
  BY <1>3, <1>5, <1>6, NextAtHead
<1> QED
  BY <1>4, <1>7

\* Nothing happens.
LEMMA StutterKeeps ==
  ASSUME IInv, UNCHANGED <<msg, frame, wire, received, last, headless>>
  PROVE  IInv'
<1>1. Line'
  BY DEF IInv, Line, FrameAt, Offered
<1>2. FrameAt(1)' = FrameAt(1)
  BY DEF FrameAt
<1>3. /\ Expecting(FrameAt(1))' = Expecting(FrameAt(1))
      /\ DeliveredBefore(FrameAt(1))' = DeliveredBefore(FrameAt(1))
  BY <1>2, SMTT(30) DEF Expecting, DeliveredBefore, InProgress, received, Rx!Active
<1> QED
  BY <1>1, <1>2, <1>3 DEF IInv

(***************************************************************************)
(* Segmentation, a bus that loses and repeats frames and the Reassembler   *)
(* of the code implement the channel of whole messages, for any messages,  *)
(* any capacity of two bytes or more and any number of faults.  (What is   *)
(* delivered is recorded until a first frame is lost; isotp 139-221.)      *)
(***************************************************************************)
THEOREM TransferIsChannel == Spec => IsMessageChannel
<1>1. Init => IInv
  BY InitIInv
<1>2. IInv /\ [Next]_vars => IInv' /\ [Channel!Next]_Channel!vars
  <2> SUFFICES ASSUME IInv, [Next]_vars
               PROVE  IInv' /\ [Channel!Next]_Channel!vars
    OBVIOUS
  <2>1. CASE Send
    BY <2>1, SendKeeps
  <2>2. CASE Receive
    BY <2>2, IngestKeeps DEF Receive
  <2>3. CASE Repeat
    BY <2>3, IngestKeeps DEF Repeat
  <2>4. CASE Lose
    BY <2>4, LoseKeeps
  <2>5. CASE UNCHANGED vars
    <3>1. UNCHANGED <<msg, frame, wire, received, last, delivered, headless>>
      BY <2>5 DEF vars, receiver, received
    <3>2. IInv'
      BY <3>1, StutterKeeps
    <3>3. UNCHANGED Channel!vars
      BY <3>1 DEF Channel!vars
    <3> QED
      BY <3>2, <3>3
  <2> QED
    BY <2>1, <2>2, <2>3, <2>4, <2>5 DEF Next
<1>3. Init => Channel!Init
  BY DEF Init, Channel!Init
<1> QED
  BY <1>1, <1>2, <1>3, PTL DEF Spec, IsMessageChannel, Channel!Spec

-----------------------------------------------------------------------------
(* What is delivered when nothing is lost.                                  *)

\* What the properties compare are payloads: no two messages may be empty.
TellApart == \A m, n \in Messages : Lengths[m] = 0 /\ Lengths[n] = 0 => m = n

LEMMA PayloadsDiffer ==
  ASSUME TellApart, NEW m \in Messages, NEW n \in Messages, Payloads[m] = Payloads[n]
  PROVE  m = n
<1>1. /\ Lengths[m] \in Nat /\ Lengths[n] \in Nat
      /\ Payloads[m] = [i \in 1 .. Lengths[m] |-> <<m, i>>]
      /\ Payloads[n] = [i \in 1 .. Lengths[n] |-> <<n, i>>]
  BY Sizes DEF Payloads
<1>2. Lengths[m] = Lengths[n]
  BY Payload
<1>3. CASE Lengths[m] = 0
  BY <1>2, <1>3 DEF TellApart
<1>4. CASE Lengths[m] # 0
  <2>1. 1 \in 1 .. Lengths[m] /\ 1 \in 1 .. Lengths[n]
    BY <1>1, <1>2, <1>4
  <2>2. Payloads[m][1] = <<m, 1>> /\ Payloads[n][1] = <<n, 1>>
    BY <1>1, <2>1
  <2> QED
    BY <2>2
<1> QED
  BY <1>3, <1>4

Got(m) == \E i \in 1 .. Len(delivered) : delivered[i] = Payloads[m]

\* The receiver has what was sent before frame f, and perhaps f itself, which
\* may have been handed over before.
CaughtUp(f) ==
  /\ \A j \in Messages : j < f[1] => Got(j)
  /\ f[2] > 1 => \/ Rx!Active /\ InProgress(f[1], f[2] - 1, f[2] - 1)
                 \/ InProgress(f[1], f[2], f[2])
                 \/ ~Rx!Active /\ Got(f[1])

\* From these messages it was delivered, in their order; only those of one
\* frame come twice.
Origin(from) ==
  /\ from \in Seq(Messages) /\ Len(from) = Len(delivered)
  /\ \A i \in 1 .. Len(from) : delivered[i] = Payloads[from[i]] /\ from[i] <= last
  /\ \A i, j \in 1 .. Len(from) :
       i < j => from[i] < from[j] \/ (from[i] = from[j] /\ InOneFrame(from[i]))

\* A transfer in progress lacks a byte.
Short == Rx!Active => Len(buffer) < total_len

(***************************************************************************)
(* What must be added to the invariant: the receiver is not behind the     *)
(* wire if nothing was lost, and what it got stands in order.              *)
(***************************************************************************)
CInv ==
  /\ IInv
  /\ Short
  /\ losses \in Nat
  /\ delivered \in Seq(Seq(Bytes))
  /\ losses = 0 => ~headless /\ CaughtUp(FrameAt(1))
  /\ \E from : Origin(from)

\* The last frame ends the message.
LEMMA LastEnds ==
  ASSUME NEW m \in Messages, NEW k \in Positive, ~InOneFrame(m), ~HasFrame(m, k + 1), HasFrame(m, k)
  PROVE  Len(SubSeq(Payloads[m], 1, End(m, k))) = Lengths[m]
<1>1. k + 1 \in Positive /\ k + 1 # 1 /\ (k + 1) - 1 = k
  BY DEF Positive
<1>2. Start(m, k + 1) = k * Width - 1 /\ End(m, k) = MinOf(k * Width - 1, Lengths[m])
  BY <1>1, Cuts
<1>3. Payloads[m] \in Seq(Bytes) /\ Len(Payloads[m]) = Lengths[m] /\ Lengths[m] \in Nat
  BY Payload, Sizes
<1>4. Width \in Nat \ {0} /\ k * Width \in Nat \ {0}
  BY Sizes DEF Positive
<1>5. ~(k * Width - 1 < Lengths[m])
  BY <1>1, <1>2 DEF HasFrame, Start
<1>6. End(m, k) = Lengths[m]
  BY <1>2, <1>3, <1>4, <1>5 DEF MinOf
<1> QED
  BY <1>3, <1>6, SubSeqFull

LEMMA StaysShort ==
  ASSUME NEW m \in Messages, NEW k \in Positive, Rx!Ingest(Pdu(m, k)), Short
  PROVE  Short'
<1>1. ASSUME NEW bytes, NEW total, Rx!TakeIfComplete(bytes, total)
      PROVE  Short'
  BY <1>1 DEF Rx!TakeIfComplete, Rx!Active, Short
<1>2. ASSUME UNCHANGED Rx!state PROVE Short'
  BY <1>2 DEF Rx!state, Short, Rx!Active
<1>3. ASSUME NEW payload, Rx!IngestSingle(payload) PROVE Short'
  BY <1>2, <1>3 DEF Rx!IngestSingle
<1>4. ASSUME NEW total, NEW payload, Rx!IngestFirst(total, payload) PROVE Short'
  BY <1>1, <1>4 DEF Rx!IngestFirst
<1>5. ASSUME NEW sn, NEW payload, Rx!IngestConsecutive(sn, payload) PROVE Short'
  BY <1>1, <1>2, <1>5 DEF Rx!IngestConsecutive, Rx!RejectUnexpected, Rx!RejectMismatch,
                          Rx!AcceptConsecutive
<1>6. Pdu(m, k).type \in {"SF", "FF", "CF"}
  BY Pdus DEF SingleFrame, FirstFrame, ConsecutiveFrame
<1> HIDE DEF Short
<1> QED
  BY <1>3, <1>4, <1>5, <1>6, Branches

\* The frame whose turn it is is not refused.
LEMMA TakesInTurn ==
  ASSUME NEW m \in Messages, ~InOneFrame(m), NEW k \in Positive, k # 1, Rx!Ingest(Pdu(m, k)),
         Rx!Active, InProgress(m, k - 1, k - 1)
  PROVE  ~UNCHANGED received
<1> DEFINE slice == Slice(m, k)
           pdu == Pdu(m, k)
<1>1. pdu.type = "CF" /\ pdu.sequence_number = FrameSn(k) /\ pdu.payload = slice
  BY Pdus DEF ConsecutiveFrame
<1>2. pdu.type = "CF" => Rx!IngestConsecutive(pdu.sequence_number, pdu.payload)
  BY Branches
<1>3. next_seq = (k - 1) % 16
  BY DEF InProgress
<1>4. k \in Nat \ {0} /\ FrameSn(k) = (k - 1) % 16
  BY DEF Positive, FrameSn
<1> HIDE DEF pdu, slice
<1>5. Rx!IngestConsecutive(FrameSn(k), slice)
  BY <1>1, <1>2
<1>6. next_seq' = Rx!NextSeq(next_seq)
  BY <1>3, <1>4, <1>5 DEF Rx!IngestConsecutive, Rx!RejectUnexpected, Rx!RejectMismatch, Rx!AcceptConsecutive
<1>7. next_seq \in 0 .. 15
  BY <1>3, <1>4
<1>8. next_seq' # next_seq
  BY <1>6, <1>7 DEF Rx!NextSeq
<1> QED
  BY <1>8 DEF received

(***************************************************************************)
(* Frame k of message m is ingested by a receiver that has what was sent   *)
(* before it; f is the frame after it, or the same once more.              *)
(***************************************************************************)
LEMMA IngestCatchesUp ==
  ASSUME NEW m \in Messages, NEW k \in Positive, HasFrame(m, k),
         Rx!Ingest(Pdu(m, k)), Short, CaughtUp(<<m, k>>),
         delivered \in Seq(Seq(Bytes)),
         result'.type # "some" => UNCHANGED delivered,
         result'.type = "some" => delivered' = Append(delivered, Payloads[m]),
         NEW f, f = <<m, k>> \/ f = Successor(<<m, k>>)
  PROVE  CaughtUp(f)'
<1>1. m \in Nat /\ k \in Nat \ {0} /\ Payloads[m] \in Seq(Bytes)
  BY Payload DEF Messages, Positive
<1>2. \A j : Got(j) => Got(j)'
  <2>1. \A i \in 1 .. Len(delivered) : i \in 1 .. Len(delivered') /\ delivered'[i] = delivered[i]
    <3>1. CASE UNCHANGED delivered
      BY <3>1
    <3>2. CASE delivered' = Append(delivered, Payloads[m])
      BY <1>1, <3>2, AppendProperties, LenProperties
    <3> QED
      BY <3>1, <3>2
  <2> QED
    BY <2>1 DEF Got
<1>3. result'.type = "some" => Got(m)'
  <2>1. ASSUME result'.type = "some"
        PROVE  Len(delivered) + 1 \in 1 .. Len(delivered') /\ delivered'[Len(delivered) + 1] = Payloads[m]
    BY <1>1, <2>1, AppendProperties, LenProperties
  <2> QED
    BY <2>1 DEF Got
<1>4. \A j \in Messages : j < m => Got(j)'
  BY <1>2 DEF CaughtUp
<1> HIDE DEF Got
<1>5. CASE InOneFrame(m)
  <2>1. k = 1 /\ Successor(<<m, k>>) = <<m + 1, 1>>
    BY <1>1, <1>5 DEF HasFrame, Successor
  <2>2. result' = Rx!Whole(Payloads[m])
    BY <1>5, IngestsSingle
  <2>3. Got(m)'
    BY <1>3, <2>2 DEF Rx!Whole
  <2> QED
    BY <1>1, <1>4, <2>1, <2>3 DEF CaughtUp, Messages
<1>6. CASE ~InOneFrame(m)
  <2>1. InProgress(m, k, k)' \/ (~Rx!Active' /\ Got(m)')
    <3>1. CASE k = 1
      BY <1>6, <3>1, IngestsFirst
    <3>2. CASE k # 1
      <4>1. k > 1
        BY <1>1, <3>2
      <4>2. \/ Rx!Active /\ InProgress(m, k - 1, k - 1)
            \/ InProgress(m, k, k)
            \/ ~Rx!Active /\ Got(m)
        BY <4>1 DEF CaughtUp
      <4>3. CASE Rx!Active /\ InProgress(m, k - 1, k - 1)
        <5>1. ~UNCHANGED received
          BY <1>6, <3>2, <4>3, TakesInTurn
        <5>2. k - 1 \in Positive /\ k - 1 <= k /\ (k - 1) + 1 = k
          BY <1>1, <3>2 DEF Positive
        <5>3. \/ result' = Rx!Whole(Payloads[m]) /\ ~Rx!Active'
              \/ InProgress(m, k, k)'
          BY <1>6, <3>2, <4>3, <5>1, <5>2, IngestsConsecutive
        <5> QED
          BY <1>3, <5>3 DEF Rx!Whole
      <4>4. CASE InProgress(m, k, k)
        <5>1. k <= k
          BY <1>1
        <5>2. \/ UNCHANGED received
              \/ result' = Rx!Whole(Payloads[m]) /\ ~Rx!Active'
              \/ InProgress(m, k + 1, k)'
          BY <1>6, <3>2, <4>4, <5>1, IngestsConsecutive
        <5>3. ~InProgress(m, k + 1, k)'
          BY <1>1 DEF InProgress
        <5>4. UNCHANGED received => InProgress(m, k, k)'
          BY <4>4 DEF InProgress, received
        <5> QED
          BY <1>3, <5>2, <5>3, <5>4 DEF Rx!Whole
      <4>5. CASE ~Rx!Active /\ Got(m)
        <5>1. 1 \in Positive
          BY DEF Positive
        <5>2. UNCHANGED received
          BY <1>6, <3>2, <4>5, <5>1, IngestsConsecutive
        <5>3. ~Rx!Active'
          BY <4>5, <5>2 DEF received, Rx!Active
        <5> QED
          BY <1>2, <4>5, <5>3
      <4> QED
        BY <4>2, <4>3, <4>4, <4>5
    <3> QED
      BY <3>1, <3>2
  <2>2. CASE f = <<m, k>>
    BY <1>4, <2>1, <2>2 DEF CaughtUp
  <2>3. CASE f = Successor(<<m, k>>) /\ HasFrame(m, k + 1)
    <3>1. f = <<m, k + 1>> /\ (k + 1) - 1 = k
      BY <1>1, <2>3 DEF Successor
    <3>2. InProgress(m, k, k)' => Rx!Active'
      BY Sizes DEF InProgress, Rx!Active, Rx!None
    <3> QED
      BY <1>4, <2>1, <3>1, <3>2 DEF CaughtUp
  <2>4. CASE f = Successor(<<m, k>>) /\ ~HasFrame(m, k + 1)
    <3>1. f = <<m + 1, 1>>
      BY <2>4 DEF Successor
    <3>2. Short'
      BY StaysShort
    <3>3. Got(m)'
      <4>1. SUFFICES ASSUME InProgress(m, k, k)' PROVE FALSE
        BY <2>1
      <4>2. Len(buffer)' < Lengths[m]
        BY <3>2, <4>1, Sizes DEF InProgress, Short, Rx!Active, Rx!None
      <4>3. buffer' = SubSeq(Payloads[m], 1, End(m, k))
        BY <4>1 DEF InProgress
      <4>4. Len(buffer') = Lengths[m]
        BY <1>6, <2>4, <4>3, LastEnds
      <4> QED
        BY <4>2, <4>4, Sizes
    <3> QED
      BY <1>1, <1>4, <3>1, <3>3 DEF CaughtUp, Messages
  <2> QED
    BY <2>2, <2>3, <2>4
<1> QED
  BY <1>5, <1>6

\* A message is delivered after those before it.
LEMMA OriginGrows ==
  ASSUME NEW m \in Messages, NEW from, Origin(from), last \in Nat,
         m > last \/ (m = last /\ InOneFrame(m)),
         delivered \in Seq(Seq(Bytes)), delivered' = Append(delivered, Payloads[m]), last' = m
  PROVE  Origin(Append(from, m))'
<1> DEFINE n == Len(delivered)
           more == Append(from, m)
<1>1. /\ from \in Seq(Messages) /\ Len(from) = n /\ n \in Nat /\ m \in Nat
      /\ \A i \in 1 .. n : from[i] \in Messages /\ from[i] \in Nat
  BY LenProperties, ElementOfSeq, SMTT(30) DEF Origin, Messages
<1>2. /\ more \in Seq(Messages) /\ Len(more) = n + 1 /\ more[n + 1] = m
      /\ \A i \in 1 .. n : more[i] = from[i]
  BY <1>1, AppendProperties
<1>3. Payloads[m] \in Seq(Bytes)
  BY Payload
<1>4. /\ Len(delivered') = n + 1 /\ delivered'[n + 1] = Payloads[m]
      /\ \A i \in 1 .. n : delivered'[i] = delivered[i]
  BY <1>1, <1>3, AppendProperties
<1>5. /\ \A i \in 1 .. n : delivered[i] = Payloads[from[i]] /\ from[i] <= last
      /\ \A i, j \in 1 .. n : i < j => from[i] < from[j] \/ (from[i] = from[j] /\ InOneFrame(from[i]))
  BY <1>1 DEF Origin
<1>6. \A i \in 1 .. n + 1 : i \in 1 .. n \/ i = n + 1
  BY <1>1
<1> HIDE DEF more, n
<1>7. \A i \in 1 .. n + 1 : delivered'[i] = Payloads[more[i]] /\ more[i] <= m
  BY <1>1, <1>2, <1>4, <1>5, <1>6
<1>8. ASSUME NEW i \in 1 .. n + 1, NEW j \in 1 .. n + 1, i < j
      PROVE  more[i] < more[j] \/ (more[i] = more[j] /\ InOneFrame(more[i]))
  <2>1. i \in 1 .. n
    BY <1>1, <1>8
  <2>2. CASE j \in 1 .. n
    BY <1>2, <1>5, <1>8, <2>1, <2>2
  <2>3. CASE j = n + 1
    BY <1>1, <1>2, <1>5, <2>1, <2>3
  <2> QED
    BY <1>6, <2>2, <2>3
<1> QED
  BY <1>2, <1>4, <1>7, <1>8 DEF Origin, more

LEMMA SendCatchesUp ==
  ASSUME CInv, Send
  PROVE  CInv'
<1>1. IInv' /\ FrameAt(1)' = FrameAt(1)
  BY SendKeeps, SendKeepsLine DEF CInv, IInv
<1>2. UNCHANGED <<received, last, delivered, losses, headless>>
  BY DEF Send, receiver, received
<1>3. \A f : CaughtUp(f)' = CaughtUp(f)
  BY <1>2 DEF CaughtUp, Got, InProgress, received, Rx!Active
<1>4. Short' = Short /\ \A from : Origin(from)' = Origin(from)
  BY <1>2 DEF Short, Origin, received, Rx!Active
<1> QED
  BY <1>1, <1>2, <1>3, <1>4 DEF CInv

LEMMA IngestHeadCatchesUp ==
  ASSUME CInv, IngestHead, wire' = Tail(wire) \/ wire' = wire
  PROVE  CInv'
<1>0. PICK m \in Messages, k \in Positive :
        /\ Head(wire) = <<m, k>> /\ FrameAt(1) = <<m, k>> /\ HasFrame(m, k)
  BY HeadOfLine DEF CInv, IInv, IngestHead
<1>1. /\ wire # << >> /\ Rx!Ingest(Pdu(m, k))
      /\ UNCHANGED <<msg, frame, headless, losses>>
      /\ ~headless => last' = IF result'.type = "some" THEN m ELSE last
      /\ headless \/ result'.type # "some" => UNCHANGED <<last, delivered>>
      /\ ~headless /\ result'.type = "some" => delivered' = Append(delivered, result'.payload)
  BY <1>0 DEF IngestHead
<1>2. IInv' /\ Short'
  BY <1>0, <1>1, IngestKeeps, StaysShort DEF CInv
<1>3. ASSUME ~headless, result'.type = "some"
      PROVE  /\ last' = m /\ delivered' = Append(delivered, Payloads[m])
             /\ m > last \/ (m = last /\ InOneFrame(m))
  <2>1. Expecting(<<m, k>>) /\ DeliveredBefore(<<m, k>>) /\ last \in Nat
    BY <1>0, <1>3 DEF CInv, IInv
  <2>2. last' = IF result'.type = "some" THEN m ELSE last
    BY <1>1, <1>3
  <2>3. result' = Rx!Whole(Payloads[m]) /\ (m > last \/ (m = last /\ InOneFrame(m)))
    BY <1>0, <1>1, <1>3, <2>1, <2>2, Ingests
  <2> QED
    BY <1>1, <1>3, <2>3 DEF Rx!Whole
<1>4. (\E from : Origin(from))' /\ delivered' \in Seq(Seq(Bytes))
  <2>1. CASE ~headless /\ result'.type = "some"
    <3>1. PICK from : Origin(from)
      BY DEF CInv
    <3>2. last \in Nat /\ delivered \in Seq(Seq(Bytes)) /\ Payloads[m] \in Seq(Bytes)
      BY Payload DEF CInv, IInv
    <3>3. Origin(Append(from, m))'
      BY <1>3, <2>1, <3>1, <3>2, OriginGrows
    <3> QED
      BY <1>3, <2>1, <3>2, <3>3, AppendProperties
  <2>2. CASE headless \/ result'.type # "some"
    BY <1>1, <2>2 DEF CInv, Origin
  <2> QED
    BY <2>1, <2>2
<1>5. ASSUME losses = 0 PROVE ~headless' /\ CaughtUp(FrameAt(1))'
  <2>1. ~headless /\ CaughtUp(<<m, k>>)
    BY <1>0, <1>5 DEF CInv
  <2> PICK f : f = IF wire' = wire THEN <<m, k>> ELSE Successor(<<m, k>>)
    OBVIOUS
  <2>2. FrameAt(1)' = f
    <3>1. CASE wire' = wire
      BY <1>0, <1>1, <3>1 DEF FrameAt
    <3>2. CASE wire' # wire
      BY <1>0, <1>1, <3>2, HeadLeavesLine DEF CInv, IInv
    <3> QED
      BY <3>1, <3>2
  <2>3. CaughtUp(f)'
    BY <1>0, <1>1, <1>3, <2>1, IngestCatchesUp DEF CInv
  <2>4. CaughtUp(FrameAt(1))'
    BY <2>2, <2>3 DEF CaughtUp
  <2> QED
    BY <1>1, <2>1, <2>4
<1> QED
  BY <1>1, <1>2, <1>4, <1>5 DEF CInv

LEMMA CInvHolds == Spec => []CInv
<1>1. Init => CInv
  <2> SUFFICES ASSUME Init PROVE CInv
    OBVIOUS
  <2>1. IInv /\ FrameAt(1) = <<1, 1>> /\ ~Rx!Active
    BY InitIInv, EmptySeq DEF Init, FrameAt, Rx!Init, Rx!Active
  <2>2. Origin(<< >>) /\ delivered \in Seq(Seq(Bytes))
    BY EmptySeq DEF Init, Origin
  <2>3. CaughtUp(<<1, 1>>)
    BY DEF CaughtUp, Messages
  <2> QED
    BY <2>1, <2>2, <2>3 DEF Init, CInv, Short
<1>2. CInv /\ [Next]_vars => CInv'
  <2> SUFFICES ASSUME CInv, [Next]_vars PROVE CInv'
    OBVIOUS
  <2>1. CASE Send
    BY <2>1, SendCatchesUp
  <2>2. CASE Receive
    BY <2>2, IngestHeadCatchesUp DEF Receive
  <2>3. CASE Repeat
    BY <2>3, IngestHeadCatchesUp DEF Repeat
  <2>4. CASE Lose
    <3>1. IInv'
      BY <2>4, LoseKeeps DEF CInv
    <3>2. UNCHANGED <<received, last, delivered>> /\ losses' = losses + 1
      BY <2>4 DEF Lose, receiver, received
    <3>3. Short' /\ (\E from : Origin(from))'
      BY <3>2 DEF CInv, Short, Origin, received, Rx!Active
    <3> QED
      BY <3>1, <3>2, <3>3 DEF CInv
  <2>5. CASE UNCHANGED vars
    <3>1. UNCHANGED <<msg, frame, wire, received, last, delivered, headless, losses>>
      BY <2>5 DEF vars, receiver, received
    <3>2. IInv'
      BY <3>1, StutterKeeps DEF CInv
    <3>3. Short' /\ (\E from : Origin(from))'
      BY <3>1 DEF CInv, Short, Origin, received, Rx!Active
    <3>4. CaughtUp(FrameAt(1))' = CaughtUp(FrameAt(1))
      BY <3>1 DEF CaughtUp, Got, FrameAt, InProgress, received, Rx!Active
    <3> QED
      BY <3>1, <3>2, <3>3, <3>4 DEF CInv
  <2> QED
    BY <2>1, <2>2, <2>3, <2>4, <2>5 DEF Next
<1> QED
  BY <1>1, <1>2, PTL DEF Spec

LEMMA CompleteHolds ==
  ASSUME TellApart, CInv
  PROVE  Complete
<1> SUFFICES ASSUME losses = 0, NEW m \in Messages
             PROVE  LET copies == {i \in 1 .. Len(delivered) : delivered[i] = Payloads[m]}
                    IN  /\ m < OldestUnderWay => copies # {}
                        /\ m > OldestUnderWay => copies = {}
                        /\ ~InOneFrame(m) => \A i, j \in copies : i = j
                        /\ \A i \in copies, j \in 1 .. Len(delivered) :
                             j > i => delivered[j] \in {Payloads[n] : n \in m .. Len(Lengths)}
  BY DEF Complete
<1> DEFINE copies == {i \in 1 .. Len(delivered) : delivered[i] = Payloads[m]}
<1>1. PICK from : Origin(from)
  BY DEF CInv
<1>2. /\ Len(delivered) \in Nat /\ Len(Lengths) \in Nat /\ m \in Nat /\ last \in Nat
      /\ \A i \in 1 .. Len(delivered) : from[i] \in Messages /\ from[i] \in 1 .. Len(Lengths)
  BY <1>1, LenProperties, ElementOfSeq, Sizes, SMTT(30) DEF CInv, IInv, Origin, Messages
<1>3. \A i \in 1 .. Len(delivered) : delivered[i] = Payloads[from[i]] /\ from[i] <= last
  BY <1>1 DEF Origin
<1>4. \A i, j \in 1 .. Len(delivered) :
        i < j => from[i] < from[j] \/ (from[i] = from[j] /\ InOneFrame(from[i]))
  BY <1>1 DEF Origin
<1>5. \A i \in copies : from[i] = m
  BY <1>2, <1>3, PayloadsDiffer
<1>6. OldestUnderWay = FrameAt(1)[1]
  <2>1. CASE wire = << >>
    BY <2>1, EmptySeq DEF OldestUnderWay, FrameAt
  <2>2. CASE wire # << >>
    <3>1. Head(wire) = FrameAt(1)
      BY <2>2, HeadOfLine DEF CInv, IInv
    <3> QED
      BY <2>2, <3>1 DEF OldestUnderWay
  <2> QED
    BY <2>1, <2>2
<1>7. ~headless /\ CaughtUp(FrameAt(1)) /\ DeliveredBefore(FrameAt(1))
  BY DEF CInv, IInv
<1>8. m < OldestUnderWay => copies # {}
  BY <1>6, <1>7 DEF CaughtUp, Got
<1>9. m > OldestUnderWay => copies = {}
  <2> SUFFICES ASSUME m > OldestUnderWay, NEW i \in copies PROVE FALSE
    OBVIOUS
  <2>1. m <= last /\ last <= OldestUnderWay
    BY <1>3, <1>5, <1>6, <1>7 DEF DeliveredBefore
  <2>2. OldestUnderWay \in Int
    <3>1. msg \in Int /\ (wire # << >> => Head(wire)[1] \in Int)
      BY <1>2, HeadOfLine DEF CInv, IInv, Line, Messages
    <3> QED
      BY <3>1 DEF OldestUnderWay
  <2> QED
    BY <1>2, <2>1, <2>2
<1>10. ASSUME ~InOneFrame(m), NEW i \in copies, NEW j \in copies PROVE i = j
  <2>1. i \in 1 .. Len(delivered) /\ j \in 1 .. Len(delivered) /\ from[i] = m /\ from[j] = m
    BY <1>5
  <2>2. ~(i < j) /\ ~(j < i)
    BY <1>2, <1>4, <1>10, <2>1
  <2> QED
    BY <1>2, <2>1, <2>2
<1>11. ASSUME NEW i \in copies, NEW j \in 1 .. Len(delivered), j > i
       PROVE  delivered[j] \in {Payloads[n] : n \in m .. Len(Lengths)}
  <2>1. i \in 1 .. Len(delivered) /\ from[i] = m /\ i < j
    BY <1>2, <1>5, <1>11
  <2>2. from[i] < from[j] \/ from[i] = from[j]
    BY <1>4, <2>1
  <2>3. from[j] \in m .. Len(Lengths)
    BY <1>2, <2>1, <2>2
  <2> QED
    BY <1>3, <2>3
<1> QED
  BY <1>8, <1>9, <1>10, <1>11

(***************************************************************************)
(* If nothing is lost the receiver never falls behind the wire: messages   *)
(* of which no frame is under way any more have been delivered, those of   *)
(* several frames once, and all in their order; for any messages of which  *)
(* at most one is empty, any capacity of two bytes or more and any number  *)
(* of repeated frames.                                                     *)
(***************************************************************************)
THEOREM TransfersComplete ==
  ASSUME TellApart
  PROVE  Spec => []Complete
<1>1. CInv => Complete
  BY CompleteHolds
<1> QED
  BY <1>1, CInvHolds, PTL
=============================================================================
