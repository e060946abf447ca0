----------------------------- MODULE MCDecoders -----------------------------
(***************************************************************************)
(* A database with a message of a single signal, for each start bit in two *)
(* bytes, each size up to ten bits, each byte order and signedness; and a  *)
(* collection of databases whose messages are hard to tell apart, or whose *)
(* signals depend on one another.  Diagnosis by requests of an ECU that    *)
(* refuses with a code the client knows or one it does not.  And three     *)
(* nodes, two of which want the same address first and one of which then   *)
(* meets the third.                                                        *)
(***************************************************************************)
EXTENDS Decoders, DbcFile, Sequences, TLC

StandardId == [extended |-> FALSE, raw |-> 291]
ExtendedId == [extended |-> TRUE, raw |-> 291]

Payload(len, ones) == [len |-> len, ones |-> ones]
Frame(id, payload) == [id |-> id, payload |-> payload]

OneSignal ==
  {Database("one", <<Message(StandardId, <<Signal("s", start, size, order, signed, Plain)>>, None)>>) :
     start \in 0 .. 15, size \in 1 .. 10, order \in {"little", "big"}, signed \in BOOLEAN}

Patterns == {{0, 9, 18}, {7, 15, 23}, 0 .. 23, {1, 2, 4, 7, 11, 13, 14, 16, 19, 20}}

PlainFrames ==
  {Frame(StandardId, Payload(len, {b \in ones : b < 8 * len})) : len \in 0 .. 3, ones \in Patterns}

-----------------------------------------------------------------------------
Mux == Signal("mux", 0, 2, "little", FALSE, Multiplexor)
LateMux == Signal("late", 14, 2, "little", FALSE, Multiplexor)

Multiplex(switch) ==
  <<switch,
    Signal("zero", 2, 3, "little", TRUE, Multiplexed(0)),
    Signal("one", 2, 3, "little", FALSE, Multiplexed(1)),
    Signal("two", 7, 10, "big", FALSE, Multiplexed(2)),
    Signal("nested", 5, 2, "little", FALSE, Nested(1)),
    Signal("plain", 7, 12, "big", TRUE, Plain)>>

SharedIds ==
  {Database("early", <<Message(StandardId, Multiplex(Mux), Mux)>>),
   Database("late", <<Message(ExtendedId, Multiplex(LateMux), LateMux)>>),
   Database("twice", <<Message(ExtendedId, <<Signal("s", 0, 8, "little", FALSE, Plain)>>, None),
                       Message(ExtendedId, <<Signal("s", 0, 8, "little", FALSE, Plain)>>, None)>>),
   Database("other", <<Message([extended |-> FALSE, raw |-> 7], << >>, None)>>)}

SharedFrames ==
  {Frame(id, Payload(len, {b \in ones : b < 8 * len})) :
     id \in {StandardId, ExtendedId, [extended |-> TRUE, raw |-> 7]},
     len \in 0 .. 2,
     ones \in {{}, {0, 15}, {1, 6, 14}, {0, 1, 4, 14, 15}}}

MCCollections == {{db} : db \in OneSignal} \cup {SharedIds, {}}
MCFrames == PlainFrames \cup SharedFrames

-----------------------------------------------------------------------------
CONSTANTS n1, n2, n3

MCRequests ==
  {[service |-> 62, data |-> << >>], [service |-> 34, data |-> <<241, 144>>], [service |-> 16, data |-> <<1>>]}
MCData == {<< >>, <<34>>, <<127, 34, 17>>}
MCName == n1 :> 5 @@ n2 :> 7 @@ n3 :> 3
MCWanted == n1 :> <<128, 129>> @@ n2 :> <<128, 129, 130>> @@ n3 :> <<129>>

\* Engine data for everybody and a request, with data lower than any NAME.
MCChatter ==
  {[id |-> 6 * 2 ^ 26 + 61444 * 2 ^ 8, data |-> 0],
   [id |-> 6 * 2 ^ 26 + 59904 * 2 ^ 8 + 255 * 2 ^ 8, data |-> 0]}
=============================================================================
