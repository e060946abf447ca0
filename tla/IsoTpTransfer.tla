---------------------------- MODULE IsoTpTransfer ----------------------------
(***************************************************************************)
(* A sender that cuts its messages with `segment`, a CAN bus, and one      *)
(* Reassembler at the other end.  The bus keeps frames in order but may    *)
(* lose one (a full receive queue drops it) or hand one over twice (a      *)
(* sender retransmits a frame whose acknowledgement it missed).            *)
(*                                                                         *)
(* The sender is the closed form Segmenter is shown to compute; the        *)
(* receiver is Reassembler itself.                                         *)
(***************************************************************************)
EXTENDS IsoTp

CONSTANTS
  Lengths,          \* Lengths[m] is the number of bytes of message m
  Capacity,         \* frame payload capacity of the sender
  WireRoom,         \* how many frames the bus and its queues hold
  MaxLosses,        \* how often the bus may lose a frame
  MaxRepeats        \* how often the bus may hand a frame over twice

ASSUME LengthsAssumption == Lengths \in Seq(Nat)
ASSUME CapacityAssumption == Capacity \in Nat /\ Capacity >= 2
ASSUME BoundsAssumption ==
  /\ WireRoom \in Nat \ {0}
  /\ MaxLosses \in Nat
  /\ MaxRepeats \in Nat

VARIABLES
  msg, frame,       \* the frame the sender sends next
  wire,             \* the frames under way, each as <<message, frame>>
  total_len, next_seq, buffer, result, announced, accepted,  \* Reassembler
  losses, repeats,  \* faults so far
  headless,         \* whether a first frame has been lost
  \* History, kept until a first frame is lost:
  delivered,        \* the payloads the receiver's caller got
  last              \* the message whose frame completed the last of them

receiver == <<total_len, next_seq, buffer, result, announced, accepted>>
vars == <<msg, frame, wire, receiver, delivered, last, losses, repeats, headless>>

-----------------------------------------------------------------------------
Messages == 1 .. Len(Lengths)

\* Byte i of message m is <<m, i>>: a byte knows where it belongs.
Payloads == [m \in Messages |-> [i \in 1 .. Lengths[m] |-> <<m, i>>]]
Bytes == Nat \X Nat

Rx == INSTANCE Reassembler WITH Chunks <- {}, Totals <- {}

InOneFrame(m) == FitsSingleFrame(Lengths[m], Capacity)

HasFrame(m, k) ==
  k = 1 \/ (~InOneFrame(m) /\ FrameStart(Lengths[m], Capacity, k) < Lengths[m])

\* Frame k of the frames `segment` makes of message m.
Pdu(m, k) ==
  LET slice == SubSeq(Payloads[m], FrameStart(Lengths[m], Capacity, k) + 1,
                                   FrameEnd(Lengths[m], Capacity, k))
  IN  IF InOneFrame(m) THEN SingleFrame(Payloads[m])
      ELSE IF k = 1 THEN FirstFrame(Lengths[m], slice)
      ELSE ConsecutiveFrame(FrameSn(k), slice)

-----------------------------------------------------------------------------
Init ==
  /\ msg = 1
  /\ frame = 1
  /\ wire = << >>
  /\ Rx!Init
  /\ delivered = << >>
  /\ last = 0
  /\ losses = 0
  /\ repeats = 0
  /\ headless = FALSE

Send ==
  /\ msg \in Messages
  /\ Len(wire) < WireRoom
  /\ wire' = Append(wire, <<msg, frame>>)
  /\ IF HasFrame(msg, frame + 1)
     THEN frame' = frame + 1 /\ msg' = msg
     ELSE frame' = 1 /\ msg' = msg + 1
  /\ UNCHANGED <<receiver, delivered, last, losses, repeats, headless>>

\* The caller ingests the frame at the head of the wire and keeps a payload.
IngestHead ==
  LET m == Head(wire)[1]
      k == Head(wire)[2]
  IN  /\ wire # << >>
      /\ Rx!Ingest(Pdu(m, k))
      /\ IF result'.type = "some" /\ ~headless
         THEN delivered' = Append(delivered, result'.payload) /\ last' = m
         ELSE UNCHANGED <<delivered, last>>
      /\ UNCHANGED <<msg, frame, losses, headless>>

Receive ==
  /\ IngestHead
  /\ wire' = Tail(wire)
  /\ UNCHANGED repeats

\* The frame at the head is handed over and will be handed over again.
Repeat ==
  /\ repeats < MaxRepeats
  /\ IngestHead
  /\ repeats' = repeats + 1
  /\ UNCHANGED wire

Lose ==
  /\ losses < MaxLosses
  /\ wire # << >>
  /\ headless' = (headless \/ (Head(wire)[2] = 1 /\ ~InOneFrame(Head(wire)[1])))
  /\ wire' = Tail(wire)
  /\ losses' = losses + 1
  /\ UNCHANGED <<msg, frame, receiver, delivered, last, repeats>>

Next == Send \/ Receive \/ Repeat \/ Lose

Spec == Init /\ [][Next]_vars

\* The sender's loop and the receiver's loop both keep running.
FairSpec == Spec /\ WF_vars(Send) /\ WF_vars(Receive)

-----------------------------------------------------------------------------
OldestUnderWay == IF wire = << >> THEN msg ELSE Head(wire)[1]

(***************************************************************************)
(* If nothing is lost then the receiver never falls behind the wire: every *)
(* message all of whose frames have been received has been delivered, and  *)
(* a message sent in several frames has been delivered once, in its place. *)
(***************************************************************************)
Complete ==
  losses = 0 =>
    \A m \in Messages :
      LET copies == {i \in 1 .. Len(delivered) : delivered[i] = Payloads[m]}
      IN  /\ m < OldestUnderWay => copies # {}
          /\ m > OldestUnderWay => copies = {}
          /\ ~InOneFrame(m) => \A i, j \in copies : i = j
          /\ \A i \in copies, j \in 1 .. Len(delivered) :
               j > i => delivered[j] \in {Payloads[n] : n \in m .. Len(Lengths)}

Channel ==
  INSTANCE MessageChannel
    WITH offered <- IF frame > 1 THEN msg ELSE msg - 1,
         Repeatable <- {m \in Messages : InOneFrame(m)}

(***************************************************************************)
(* Segmentation, bus and reassembly implement the channel: as long as no   *)
(* first frame is lost, what is delivered is what was sent, byte for byte  *)
(* and in order, whichever other frames are lost or come twice, although   *)
(* sequence numbers come round every 16 frames and a wrong one does not    *)
(* abort a transfer.  (Without its first frame a message may end up in the *)
(* buffer of the one before it; nothing in the code prevents that.)        *)
(***************************************************************************)
IsMessageChannel == Channel!Spec

\* If the bus loses nothing, every message is delivered.
AllDelivered ==
  [](losses = 0) =>
    \A m \in Messages : <>(\E i \in 1 .. Len(delivered) : delivered[i] = Payloads[m])
=============================================================================
