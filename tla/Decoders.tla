------------------------------- MODULE Decoders -------------------------------
(***************************************************************************)
(* The decoding crates: DBC, UDS and J1939.  They are libraries that share *)
(* nothing, so a program that uses several is looked at with one of them   *)
(* at a time: the subject.                                                 *)
(***************************************************************************)
EXTENDS Naturals

CONSTANTS
  Collections, Frames, MaxDatabases,           \* of DbcDecode
  Requests, Data, Codes, MaxCalls,             \* of UdsClient
  Node, Name, Wanted, Chatter, MaxChatter      \* of AddressClaim

ASSUME CollectionsAssumption == {} \in Collections

VARIABLES
  subject,   \* "dbc", "uds" or "j1939"
  files, databases, frame, outcome,
  calls, request, result, inbox, asked, meant, clean,
  tries, heard, chatter

dbcs == <<files, databases, frame, outcome>>
udss == <<calls, request, result, inbox, asked, meant, clean>>
j1939s == <<tries, heard, chatter>>
vars == <<subject, dbcs, udss, j1939s>>

Dbc == INSTANCE DbcDecode
Uds == INSTANCE UdsClient
J1939 == INSTANCE AddressClaim

ASSUME PartsAssumption == Dbc!Assumptions /\ Uds!Assumptions /\ J1939!Assumptions

-----------------------------------------------------------------------------
\* Programs that do not decode with databases have none.
Init ==
  /\ subject \in {"dbc", "uds", "j1939"}
  /\ Dbc!Init /\ (subject # "dbc" => files = {})
  /\ Uds!Init
  /\ J1939!Init

Next ==
  \/ subject = "dbc" /\ Dbc!Next /\ UNCHANGED <<subject, udss, j1939s>>
  \/ subject = "uds" /\ Uds!Next /\ UNCHANGED <<subject, dbcs, j1939s>>
  \/ subject = "j1939" /\ J1939!Next /\ UNCHANGED <<subject, dbcs, udss>>

Spec == Init /\ [][Next]_vars /\ J1939!Fairness

-----------------------------------------------------------------------------
\* The promises of the crates, stated in their modules.
ReferenceValues == Dbc!ReferenceValues
CutExactly == Dbc!CutExactly
ModesMatch == Dbc!ModesMatch
OneSource == Dbc!OneSource
RightAnswer == Uds!RightAnswer
AddressesSettle == J1939!AddressesSettle
=============================================================================
