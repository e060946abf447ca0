----------------------------- MODULE AddressClaim -----------------------------
(***************************************************************************)
(* cantools-j1939: nodes of a bus claim source addresses.  The crate has   *)
(* the two decisions, `J1939Id::from_can_id` (is this frame a claim, and   *)
(* of which address) and `resolve_address_claim` (who keeps it).  The      *)
(* nodes around them are those of SAE J1939-81: one that meets a claim of  *)
(* its address claims it again if it keeps it, and else moves on.          *)
(***************************************************************************)
EXTENDS Naturals, Sequences

CONSTANTS
  Node,
  Name,        \* Name[n]: the NAME of node n
  Wanted,      \* Wanted[n]: the addresses n tries, in this order
  Chatter,     \* frames of other traffic, but for their source: [id, data]
  MaxChatter   \* bound: how much of it

\* Assumed of the constants, by the module that instantiates this one.
Assumptions ==
  /\ \A m, n \in Node : Name[n] \in Nat /\ (m # n => Name[m] # Name[n])
  /\ \A n \in Node : Wanted[n] \in Seq(0 .. 253)
  /\ \A f \in Chatter : /\ f.id \in Nat /\ f.id % 2 ^ 8 = 0
                        /\ (f.id \div 2 ^ 16) % 2 ^ 8 # 238   \* the PF of a claim
                        /\ f.data \in Nat
  /\ MaxChatter \in Nat

VARIABLES
  tries,    \* tries[n]: where n is in Wanted[n]; 0 before it is on the bus
  heard,    \* heard[n]: frames n has not looked at: [id, name], where `name` is
            \* what it would take for a NAME: the data
  chatter   \* how much other traffic there has been

vars == <<tries, heard, chatter>>

-----------------------------------------------------------------------------
(* `J1939Id::from_can_id`, of the number of an extended identifier.         *)

PduFormat(raw) == (raw \div 2 ^ 16) % 2 ^ 8
PduSpecific(raw) == (raw \div 2 ^ 8) % 2 ^ 8

\* Mutant: the destination of a PDU1 message is taken for a part of its PGN.
PgnWhole(raw) == (raw \div 2 ^ 8) % 2 ^ 18

Pgn(raw) ==
  LET low == (raw \div 2 ^ 8) % 2 ^ 18
  IN  IF PduFormat(raw) < 240 THEN low - PduSpecific(raw) ELSE low

SourceAddress(raw) == raw % 2 ^ 8

\* `resolve_address_claim`
KeepsAddress(local, challenger) == local <= challenger

-----------------------------------------------------------------------------
AddressClaimed == 60928   \* PGN 0xEE00
Everybody == 255

\* Priority 6, PGN 0xEE00, to everybody.
ClaimId(address) == 6 * 2 ^ 26 + AddressClaimed * 2 ^ 8 + Everybody * 2 ^ 8 + address

OnBus(n) == tries[n] > 0 /\ tries[n] <= Len(Wanted[n])
Address(n) == Wanted[n][tries[n]]

\* Frame f reaches the other nodes that are on the bus, queue by queue.
Broadcast(n, queues, f) ==
  [m \in Node |-> IF m # n /\ tries[m] > 0 THEN Append(queues[m], f) ELSE queues[m]]

Claim(n, queues, try) ==
  IF try <= Len(Wanted[n])
  THEN Broadcast(n, queues, [id |-> ClaimId(Wanted[n][try]), name |-> Name[n]])
  ELSE queues

Init ==
  /\ tries = [n \in Node |-> 0]
  /\ heard = [n \in Node |-> << >>]
  /\ chatter = 0

\* A node that comes onto the bus claims its first address.
Join(n) ==
  /\ tries[n] = 0
  /\ tries' = [tries EXCEPT ![n] = 1]
  /\ heard' = Claim(n, heard, 1)
  /\ UNCHANGED chatter

Conflicts(n, f) ==
  OnBus(n) /\ Pgn(f.id) = AddressClaimed /\ SourceAddress(f.id) = Address(n)

\* The node looks at the next frame, and defends its address or moves on.
Look(n) ==
  /\ heard[n] # << >>
  /\ LET f == Head(heard[n])
         rest == [heard EXCEPT ![n] = Tail(@)]
     IN  \/ ~Conflicts(n, f) /\ heard' = rest /\ UNCHANGED tries
         \/ /\ Conflicts(n, f) /\ KeepsAddress(Name[n], f.name)
            /\ heard' = Claim(n, rest, tries[n])
            /\ UNCHANGED tries
         \/ /\ Conflicts(n, f) /\ ~KeepsAddress(Name[n], f.name)
            /\ tries' = [tries EXCEPT ![n] = @ + 1]
            /\ heard' = Claim(n, rest, tries[n] + 1)
  /\ UNCHANGED chatter

\* Traffic of another kind, from an address somebody may have.
Talk(n) ==
  /\ OnBus(n) /\ chatter < MaxChatter
  /\ \E f \in Chatter :
       heard' = Broadcast(n, heard, [id |-> f.id + Address(n), name |-> f.data])
  /\ chatter' = chatter + 1
  /\ UNCHANGED tries

Next == \E n \in Node : Join(n) \/ Look(n) \/ Talk(n)

\* Nodes look at what they receive.
Fairness == \A n \in Node : WF_vars(Look(n))

Spec == Init /\ [][Next]_vars /\ Fairness

-----------------------------------------------------------------------------
Quiet == \A n \in Node : heard[n] = << >>

Distinct ==
  \A m, n \in Node : m # n /\ OnBus(m) /\ OnBus(n) => Address(m) # Address(n)

\* An address that n gave up has an owner with a lower NAME, then and later.
YieldedToLower ==
  \A n \in Node : \A i \in 1 .. Len(Wanted[n]) :
    i < tries[n] => \E m \in Node : /\ OnBus(m) /\ Address(m) = Wanted[n][i]
                                    /\ Name[m] < Name[n]

(***************************************************************************)
(* The claims come to an end, with no address claimed twice.  On the way   *)
(* nobody gives an address up but to a lower NAME: not for other traffic,  *)
(* and not so that in the end it is nobody's.                              *)
(***************************************************************************)
AddressesSettle == []YieldedToLower /\ <>[](Quiet /\ Distinct)
=============================================================================
