----------------------------- MODULE Reassembler -----------------------------
(***************************************************************************)
(* cantools-isotp, `Reassembler`: collects first and consecutive frames    *)
(* into a payload.  `ingest` is called with any PDU in any state, so each  *)
(* of its branches is an action with the PDU as its parameter.             *)
(***************************************************************************)
EXTENDS IsoTp

CONSTANTS
  Bytes,    \* what a payload is made of
  Chunks,   \* the payloads a PDU may carry
  Totals    \* the lengths a first frame may announce

ASSUME ChunksAssumption == \A c \in Chunks : c \in Seq(Bytes)
ASSUME TotalsAssumption == Totals \subseteq Nat

VARIABLES
  total_len,  \* Option<usize>: the announced length, or None between transfers
  next_seq,   \* the sequence number the next consecutive frame must have
  buffer,     \* the bytes collected so far
  result,     \* what the last call returned
  \* History of the transfer, read by the properties alone:
  announced,  \* the length in the last first frame
  accepted    \* the bytes taken from it and from the frames after it

state == <<total_len, next_seq, buffer>>
history == <<announced, accepted>>
vars == <<total_len, next_seq, buffer, result, announced, accepted>>

None == -1
Active == total_len # None

-----------------------------------------------------------------------------
(* Results of `ingest`: Ok(None), Ok(Some(payload)) and the two errors.     *)
Ok == [type |-> "none"]
Whole(payload) == [type |-> "some", payload |-> payload]
UnexpectedConsecutiveFrame == [type |-> "unexpected"]
SequenceNumberMismatch == [type |-> "mismatch"]

Init ==
  /\ total_len = None
  /\ next_seq = 0
  /\ buffer = << >>
  /\ result = Ok
  /\ announced = 0
  /\ accepted = << >>

\* Mutant: the whole buffer is handed out, leftover bytes included.
TakeIfCompleteUntrimmed(bytes, total) ==
  IF Len(bytes) < total
  THEN /\ buffer' = bytes
       /\ total_len' = total
       /\ result' = Ok
  ELSE /\ buffer' = << >>
       /\ total_len' = None
       /\ result' = Whole(bytes)

\* Mutant: the last byte is waited for once more.
TakeIfCompleteLate(bytes, total) ==
  IF Len(bytes) <= total
  THEN /\ buffer' = bytes
       /\ total_len' = total
       /\ result' = Ok
  ELSE /\ buffer' = SubSeq(bytes, total + 1, Len(bytes))
       /\ total_len' = None
       /\ result' = Whole(SubSeq(bytes, 1, total))

(***************************************************************************)
(* `take_if_complete`, with the buffer and the total as the frame left     *)
(* them: once enough bytes are there the payload is the first total of     *)
(* them, the rest stays in the buffer and the transfer is over.            *)
(***************************************************************************)
TakeIfComplete(bytes, total) ==
  IF Len(bytes) < total
  THEN /\ buffer' = bytes
       /\ total_len' = total
       /\ result' = Ok
  ELSE /\ buffer' = SubSeq(bytes, total + 1, Len(bytes))
       /\ total_len' = None
       /\ result' = Whole(SubSeq(bytes, 1, total))

\* A single frame is a payload of its own; a transfer in progress stays.
IngestSingle(payload) ==
  /\ result' = Whole(payload)
  /\ UNCHANGED <<state, history>>

\* Mutant: the buffer is not cleared.
IngestFirstUncleared(total, payload) ==
  /\ next_seq' = 1
  /\ TakeIfComplete(buffer \o payload, total)
  /\ announced' = total
  /\ accepted' = payload

\* A first frame starts afresh, whatever was in progress.
IngestFirst(total, payload) ==
  /\ next_seq' = 1
  /\ TakeIfComplete(payload, total)
  /\ announced' = total
  /\ accepted' = payload

RejectUnexpected ==
  /\ ~Active
  /\ result' = UnexpectedConsecutiveFrame
  /\ UNCHANGED <<state, history>>

\* The transfer is neither aborted nor advanced.
RejectMismatch(sn) ==
  /\ Active
  /\ sn # next_seq
  /\ result' = SequenceNumberMismatch
  /\ UNCHANGED <<state, history>>

AcceptConsecutive(sn, payload) ==
  /\ Active
  /\ sn = next_seq
  /\ next_seq' = NextSeq(next_seq)
  /\ TakeIfComplete(buffer \o payload, total_len)
  /\ accepted' = accepted \o payload
  /\ UNCHANGED announced

IngestConsecutive(sn, payload) ==
  \/ RejectUnexpected
  \/ RejectMismatch(sn)
  \/ AcceptConsecutive(sn, payload)

IngestFlowControl ==
  /\ result' = Ok
  /\ UNCHANGED <<state, history>>

\* `ingest`
Ingest(pdu) ==
  CASE pdu.type = "SF" -> IngestSingle(pdu.payload)
    [] pdu.type = "FF" -> IngestFirst(pdu.total_len, pdu.payload)
    [] pdu.type = "CF" -> IngestConsecutive(pdu.sequence_number, pdu.payload)
    [] pdu.type = "FC" -> IngestFlowControl

-----------------------------------------------------------------------------
(* Any caller: PDUs in any order, as a bus with several senders has them.   *)
Next ==
  \/ \E c \in Chunks : IngestSingle(c)
  \/ \E t \in Totals, c \in Chunks : IngestFirst(t, c)
  \/ \E sn \in SequenceNumbers, c \in Chunks : IngestConsecutive(sn, c)
  \/ IngestFlowControl

Spec == Init /\ [][Next]_vars
-----------------------------------------------------------------------------
Results == {Ok, UnexpectedConsecutiveFrame, SequenceNumberMismatch}
             \cup [type : {"some"}, payload : Seq(Bytes)]

TypeOK ==
  /\ total_len \in Nat \cup {None}
  /\ next_seq \in SequenceNumbers
  /\ buffer \in Seq(Bytes)
  /\ result \in Results
  /\ announced \in Nat
  /\ accepted \in Seq(Bytes)

(***************************************************************************)
(* While a transfer is in progress the buffer holds every byte accepted    *)
(* since its first frame and nothing from an earlier transfer, whatever    *)
(* was refused, delivered as a single frame or left over in between; and a *)
(* transfer that has all its bytes is never still in progress.             *)
(***************************************************************************)
Collecting ==
  Active => /\ buffer = accepted
            /\ total_len = announced
            /\ Len(buffer) < total_len

(***************************************************************************)
(* A first or consecutive frame that is taken returns a payload exactly    *)
(* when it ends the transfer, and the payload is then the first announced  *)
(* bytes of those accepted since the first frame.                          *)
(***************************************************************************)
Delivery ==
  [][<<announced, accepted>>' # <<announced, accepted>> =>
       /\ result'.type = "some" <=> ~Active'
       /\ ~Active' => /\ result' = Whole(SubSeq(accepted', 1, announced'))
                      /\ Len(accepted') >= announced']_vars
=============================================================================
