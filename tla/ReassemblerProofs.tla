-------------------------- MODULE ReassemblerProofs --------------------------
(***************************************************************************)
(* Proofs about Reassembler for every alphabet, every set of PDUs and      *)
(* every order in which a caller ingests them.                             *)
(***************************************************************************)
EXTENDS Reassembler, SequenceTheorems, TLAPS

-----------------------------------------------------------------------------
\* `take_if_complete` keeps the types, and keeps collecting only what is short.
LEMMA TakeIfCompleteType ==
  ASSUME NEW bytes \in Seq(Bytes), NEW total \in Nat, TakeIfComplete(bytes, total)
  PROVE  /\ total_len' \in Nat \cup {None}
         /\ buffer' \in Seq(Bytes)
         /\ result' \in Results
         /\ Active' => buffer' = bytes /\ total_len' = total /\ Len(bytes) < total
<1>1. Len(bytes) \in Nat
  OBVIOUS
<1>2. CASE Len(bytes) < total
  BY <1>2 DEF TakeIfComplete, Results, Active
<1>3. CASE ~(Len(bytes) < total)
  <2>1. SubSeq(bytes, 1, total) \in Seq(Bytes)
    BY <1>1, <1>3, SubSeqProperties
  <2>2. SubSeq(bytes, total + 1, Len(bytes)) \in Seq(Bytes)
    BY <1>1, <1>3, SubSeqProperties
  <2>3. /\ buffer' = SubSeq(bytes, total + 1, Len(bytes))
        /\ total_len' = None
        /\ result' = Whole(SubSeq(bytes, 1, total))
    BY <1>3 DEF TakeIfComplete
  <2>4. Whole(SubSeq(bytes, 1, total)) \in Results
    BY <2>1 DEF Whole, Results
  <2>5. ~Active'
    BY <2>3 DEF Active
  <2> QED
    BY <2>2, <2>3, <2>4, <2>5
<1> QED
  BY <1>2, <1>3

(***************************************************************************)
(* The fields of the Reassembler and the results of `ingest` keep their    *)
(* types.                                                                  *)
(***************************************************************************)
THEOREM TypeCorrect == Spec => []TypeOK
<1> USE ChunksAssumption, TotalsAssumption
<1>1. Init => TypeOK
  BY EmptySeq DEF Init, TypeOK, Results, SequenceNumbers
<1>2. TypeOK /\ [Next]_vars => TypeOK'
  <2> SUFFICES ASSUME TypeOK, [Next]_vars PROVE TypeOK'
    OBVIOUS
  <2>1. ASSUME NEW c \in Chunks, IngestSingle(c) PROVE TypeOK'
    <3>1. c \in Seq(Bytes)
      OBVIOUS
    <3> QED
      BY <2>1, <3>1 DEF TypeOK, IngestSingle, state, history, Whole, Results
  <2>2. ASSUME NEW t \in Totals, NEW c \in Chunks, IngestFirst(t, c) PROVE TypeOK'
    <3>1. c \in Seq(Bytes) /\ t \in Nat
      OBVIOUS
    <3>2. TakeIfComplete(c, t)
      BY <2>2 DEF IngestFirst
    <3> QED
      BY <2>2, <3>1, <3>2, TakeIfCompleteType DEF TypeOK, IngestFirst, SequenceNumbers
  <2>3. ASSUME NEW sn \in SequenceNumbers, NEW c \in Chunks, IngestConsecutive(sn, c)
        PROVE  TypeOK'
    <3>1. CASE RejectUnexpected
      BY <3>1 DEF TypeOK, RejectUnexpected, state, history, Results
    <3>2. CASE RejectMismatch(sn)
      BY <3>2 DEF TypeOK, RejectMismatch, state, history, Results
    <3>3. CASE AcceptConsecutive(sn, c)
      <4>1. /\ c \in Seq(Bytes)
            /\ buffer \o c \in Seq(Bytes)
            /\ accepted \o c \in Seq(Bytes)
        BY ConcatProperties DEF TypeOK
      <4>2. total_len \in Nat
        BY <3>3 DEF TypeOK, AcceptConsecutive, Active
      <4>3. TakeIfComplete(buffer \o c, total_len)
        BY <3>3 DEF AcceptConsecutive
      <4>4. NextSeq(next_seq) \in SequenceNumbers
        BY DEF TypeOK, NextSeq, SequenceNumbers
      <4> QED
        BY <3>3, <4>1, <4>2, <4>3, <4>4, TakeIfCompleteType DEF TypeOK, AcceptConsecutive
    <3> QED
      BY <2>3, <3>1, <3>2, <3>3 DEF IngestConsecutive
  <2>4. CASE IngestFlowControl
    BY <2>4 DEF TypeOK, IngestFlowControl, state, history, Results
  <2>5. CASE UNCHANGED vars
    BY <2>5 DEF TypeOK, vars
  <2> QED
    BY <2>1, <2>2, <2>3, <2>4, <2>5 DEF Next
<1> QED
  BY <1>1, <1>2, PTL DEF Spec

(***************************************************************************)
(* Between a first frame and the end of its transfer the buffer is what    *)
(* was accepted since that first frame, and it is short of the total.      *)
(***************************************************************************)
THEOREM BufferIsAccepted == Spec => []Collecting
<1> USE ChunksAssumption, TotalsAssumption
<1>1. Init => Collecting
  BY DEF Init, Collecting, Active
<1>2. TypeOK /\ Collecting /\ [Next]_vars => Collecting'
  <2> SUFFICES ASSUME TypeOK, Collecting, [Next]_vars PROVE Collecting'
    OBVIOUS
  <2>1. ASSUME NEW c \in Chunks, IngestSingle(c) PROVE Collecting'
    BY <2>1 DEF Collecting, IngestSingle, state, history, Active
  <2>2. ASSUME NEW t \in Totals, NEW c \in Chunks, IngestFirst(t, c) PROVE Collecting'
    <3>1. c \in Seq(Bytes) /\ t \in Nat /\ TakeIfComplete(c, t)
      BY <2>2 DEF IngestFirst
    <3> QED
      BY <2>2, <3>1, TakeIfCompleteType DEF Collecting, IngestFirst
  <2>3. ASSUME NEW sn \in SequenceNumbers, NEW c \in Chunks, IngestConsecutive(sn, c)
        PROVE  Collecting'
    <3>1. CASE RejectUnexpected
      BY <3>1 DEF Collecting, RejectUnexpected, state, history, Active
    <3>2. CASE RejectMismatch(sn)
      BY <3>2 DEF Collecting, RejectMismatch, state, history, Active
    <3>3. CASE AcceptConsecutive(sn, c)
      <4>1. buffer \o c \in Seq(Bytes)
        BY ConcatProperties DEF TypeOK
      <4>2. total_len \in Nat /\ Active /\ TakeIfComplete(buffer \o c, total_len)
        BY <3>3 DEF TypeOK, AcceptConsecutive, Active
      <4> QED
        BY <3>3, <4>1, <4>2, TakeIfCompleteType DEF Collecting, AcceptConsecutive
    <3> QED
      BY <2>3, <3>1, <3>2, <3>3 DEF IngestConsecutive
  <2>4. CASE IngestFlowControl
    BY <2>4 DEF Collecting, IngestFlowControl, state, history, Active
  <2>5. CASE UNCHANGED vars
    BY <2>5 DEF Collecting, vars, Active
  <2> QED
    BY <2>1, <2>2, <2>3, <2>4, <2>5 DEF Next
<1> QED
  BY <1>1, <1>2, TypeCorrect, PTL DEF Spec

(***************************************************************************)
(* A frame that is taken returns a payload exactly when it ends its        *)
(* transfer, and that payload is the first `announced` bytes accepted      *)
(* since the first frame.                                                  *)
(***************************************************************************)
THEOREM DeliversAccepted == Spec => Delivery
<1> DEFINE Delivers ==
      /\ result'.type = "some" <=> ~Active'
      /\ ~Active' => /\ result' = Whole(SubSeq(accepted', 1, announced'))
                     /\ Len(accepted') >= announced'
<1>1. ASSUME TypeOK, Collecting, Next, <<announced, accepted>>' # <<announced, accepted>>
      PROVE  Delivers
  <2> USE ChunksAssumption, TotalsAssumption
  <2>1. ASSUME NEW bytes \in Seq(Bytes), NEW total \in Nat,
               TakeIfComplete(bytes, total), accepted' = bytes, announced' = total
        PROVE  Delivers
    <3>1. Len(bytes) \in Nat
      OBVIOUS
    <3>2. CASE Len(bytes) < total
      BY <2>1, <3>2 DEF TakeIfComplete, Active, None, Ok
    <3>3. CASE ~(Len(bytes) < total)
      BY <2>1, <3>1, <3>3 DEF TakeIfComplete, Active, Whole
    <3> QED
      BY <3>2, <3>3
  <2>2. CASE \E t \in Totals, c \in Chunks : IngestFirst(t, c)
    <3>1. PICK t \in Totals, c \in Chunks : IngestFirst(t, c)
      BY <2>2
    <3>2. c \in Seq(Bytes) /\ t \in Nat
      OBVIOUS
    <3> QED
      BY <2>1, <3>1, <3>2 DEF IngestFirst
  <2>3. CASE \E sn \in SequenceNumbers, c \in Chunks : AcceptConsecutive(sn, c)
    <3>1. PICK sn \in SequenceNumbers, c \in Chunks : AcceptConsecutive(sn, c)
      BY <2>3
    <3>2. /\ buffer = accepted /\ total_len = announced /\ total_len \in Nat
          /\ accepted \o c \in Seq(Bytes)
      BY <1>1, <3>1, ConcatProperties DEF AcceptConsecutive, Collecting, TypeOK, Active
    <3> QED
      BY <2>1, <3>1, <3>2 DEF AcceptConsecutive
  <2> QED
    BY <1>1, <2>2, <2>3
    DEF Next, IngestSingle, IngestConsecutive, RejectUnexpected, RejectMismatch,
        IngestFlowControl, history
<1>2. TypeOK /\ Collecting /\ [Next]_vars
        => [<<announced, accepted>>' # <<announced, accepted>> => Delivers]_vars
  BY <1>1
<1> QED
  BY <1>2, TypeCorrect, BufferIsAccepted, PTL DEF Spec, Delivery
=============================================================================
