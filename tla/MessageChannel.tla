---------------------------- MODULE MessageChannel ----------------------------
(***************************************************************************)
(* What segmentation and reassembly promise together: messages are offered *)
(* in order and each is delivered whole, in order, or not at all.  Only a  *)
(* message that travels in one frame may be delivered more than once, when *)
(* the wire repeats that frame.                                            *)
(***************************************************************************)
EXTENDS Naturals, Sequences

CONSTANTS
  Payloads,   \* Payloads[m] is the payload of message m
  Repeatable  \* the messages that travel in one frame

VARIABLES
  offered,    \* messages 1 .. offered have been offered to the channel
  last,       \* the message delivered last, 0 before the first
  delivered   \* the payloads delivered, in order

vars == <<offered, last, delivered>>

Messages == 1 .. Len(Payloads)

Init ==
  /\ offered = 0
  /\ last = 0
  /\ delivered = << >>

Offer ==
  /\ offered + 1 \in Messages
  /\ offered' = offered + 1
  /\ UNCHANGED <<last, delivered>>

Deliver(m) ==
  /\ m <= offered
  /\ m > last \/ (m = last /\ m \in Repeatable)
  /\ last' = m
  /\ delivered' = Append(delivered, Payloads[m])
  /\ UNCHANGED offered

Next == Offer \/ \E m \in Messages : Deliver(m)

Spec == Init /\ [][Next]_vars
=============================================================================
