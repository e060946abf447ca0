------------------------------ MODULE UdsClient ------------------------------
(***************************************************************************)
(* cantools-uds: a client sends a request through a transport and decodes  *)
(* the first payload the transport has for it.  Behind the transport is an *)
(* ECU that may be slow, may ask for patience (code 0x78) before it        *)
(* answers, and of whose answers any part may be missing at the end.       *)
(*                                                                         *)
(* The transport is a queue that gives up after a while.  It may hear the  *)
(* client's own request, as a socket with loopback does.                   *)
(***************************************************************************)
EXTENDS Naturals, Sequences

CONSTANTS
  Requests,  \* the requests there are to send: [service, data]
  Data,      \* what follows the service in a positive response
  Codes,     \* the codes of this ECU's negative responses
  MaxCalls   \* bound: how many requests are sent

VARIABLES
  calls,     \* how many requests have been sent
  request,   \* the request sent last
  result,    \* "none", "waiting", or what `Client::send` returned
  inbox,     \* what the transport has for the client: [bytes, meant]
  asked,     \* the requests the ECU has still to answer
  \* History, read by the properties alone:
  meant,     \* what the payload decoded last meant
  clean      \* whether nothing was under way when the request was sent

vars == <<calls, request, result, inbox, asked, meant, clean>>

-----------------------------------------------------------------------------
DiagnosticSessionControl == 16
EcuReset == 17
ReadDataByIdentifier == 34
TesterPresent == 62
Services == {DiagnosticSessionControl, EcuReset, ReadDataByIdentifier, TesterPresent}

\* ServiceNotSupported, SubFunctionNotSupported, ConditionsNotCorrect
NegativeResponseCodes == {17, 18, 34}

\* Assumed of the constants, by the module that instantiates this one.
Assumptions ==
  /\ Requests \subseteq [service : Services, data : Seq(0 .. 255)]
  /\ Data \subseteq Seq(0 .. 255)
  /\ Codes \subseteq 0 .. 255
  /\ MaxCalls \in Nat

Positive(service, data) == [type |-> "positive", service |-> service, data |-> data]
Negative(service, code) == [type |-> "negative", service |-> service, code |-> code]
Error(kind) == [type |-> "error", kind |-> kind]
Returned == result.type \notin {"none", "waiting"}

EncodeRequest(r) == <<r.service>> \o r.data

\* Mutant: the bit that marks an answer is masked out, not subtracted.
RequestedMasked(sid) == sid % 64

\* `saturating_sub(0x40)`
Requested(sid) == IF sid >= 64 THEN sid - 64 ELSE 0

DecodeNegative(bytes) ==
  IF Len(bytes) < 3 THEN Error("PayloadTooShort")
  ELSE IF bytes[2] \notin Services THEN Error("UnknownService")
  ELSE IF bytes[3] \notin NegativeResponseCodes THEN Error("UnknownNegativeResponseCode")
  ELSE Negative(bytes[2], bytes[3])

DecodePositive(bytes) ==
  IF Requested(bytes[1]) \notin Services THEN Error("UnknownService")
  ELSE Positive(Requested(bytes[1]), Tail(bytes))

\* `decode_response`
DecodeResponse(bytes) ==
  IF bytes = << >> THEN Error("PayloadTooShort")
  ELSE IF bytes[1] = 127 THEN DecodeNegative(bytes) ELSE DecodePositive(bytes)

-----------------------------------------------------------------------------
(* The ECU: answers as ISO 14229 writes them.                               *)

AnswerBytes(a) ==
  IF a.type = "positive" THEN <<a.service + 64>> \o a.data ELSE <<127, a.service, a.code>>

ResponsePending == 120

\* What a payload means: an answer, the start of an answer, or no answer at all.
Cut(a, n) == [type |-> "cut", service |-> a.service, whole |-> a, kept |-> n]
Garbled == [type |-> "garbled"]

Hear(bytes, what) == inbox' = Append(inbox, [bytes |-> bytes, meant |-> what])

\* The answer arrives, or its first bytes do.
Answers(a) ==
  LET bytes == AnswerBytes(a)
  IN  \/ Hear(bytes, a)
      \/ \E n \in 0 .. Len(bytes) - 1 : Hear(SubSeq(bytes, 1, n), Cut(a, n))

-----------------------------------------------------------------------------
Init ==
  /\ calls = 0
  /\ request = [service |-> 0, data |-> << >>]
  /\ result = [type |-> "none"]
  /\ inbox = << >>
  /\ asked = << >>
  /\ meant = Garbled
  /\ clean = TRUE

\* `transport.call(&request.encode())`; the client hears itself or does not.
Send(r) ==
  /\ result.type # "waiting" /\ calls < MaxCalls
  /\ calls' = calls + 1
  /\ request' = r
  /\ result' = [type |-> "waiting"]
  /\ asked' = Append(asked, r)
  /\ \/ Hear(EncodeRequest(r), Garbled)
     \/ UNCHANGED inbox
  /\ clean' = (inbox = << >> /\ asked = << >>)
  /\ UNCHANGED meant

\* The transport has an answer, and it is decoded.
Receive ==
  /\ result.type = "waiting" /\ inbox # << >>
  /\ result' = DecodeResponse(Head(inbox).bytes)
  /\ meant' = Head(inbox).meant
  /\ inbox' = Tail(inbox)
  /\ UNCHANGED <<calls, request, asked, clean>>

\* `transport.call` fails: there was no answer in time.
TransportFails ==
  /\ result.type = "waiting" /\ inbox = << >>
  /\ result' = Error("transport")
  /\ meant' = Garbled
  /\ UNCHANGED <<calls, request, inbox, asked, clean>>

Answer ==
  /\ asked # << >>
  /\ LET service == Head(asked).service
     IN  \E a \in {Positive(service, d) : d \in Data} \cup {Negative(service, c) : c \in Codes} :
           Answers(a)
  /\ asked' = Tail(asked)
  /\ UNCHANGED <<calls, request, result, meant, clean>>

\* The answer is still to come.
AskForPatience ==
  /\ asked # << >> /\ inbox = << >>
  /\ Answers(Negative(Head(asked).service, ResponsePending))
  /\ UNCHANGED <<calls, request, result, asked, meant, clean>>

Next ==
  \/ \E r \in Requests : Send(r)
  \/ Receive \/ TransportFails \/ Answer \/ AskForPatience

Spec == Init /\ [][Next]_vars

-----------------------------------------------------------------------------
\* What may become of a payload.  UDS has no length of its own: the start of a
\* positive answer is a shorter positive answer.
RightReading(r, what) ==
  IF r.type = "error"
  THEN \/ what = Garbled
       \/ what.type = "negative" /\ what.code \notin NegativeResponseCodes
       \/ what.type = "cut" /\ (what.whole.type = "negative" \/ what.kept = 0)
  ELSE \/ r = what
       \/ /\ what.type = "cut" /\ what.whole.type = "positive" /\ what.kept > 0
          /\ r = [what.whole EXCEPT !.data = SubSeq(@, 1, what.kept - 1)]

(***************************************************************************)
(* What the client returns is what the ECU said, or the start of the data  *)
(* of a positive answer that was cut short, which nothing tells from a     *)
(* shorter one: never a reading of its own request, of a refusal cut short *)
(* or of nothing.  It is of this very request if nothing of an earlier one *)
(* was under way when it was sent.  And it gives no answer up but refusals *)
(* with a code it does not know and those of which no more is left.        *)
(***************************************************************************)
RightAnswer ==
  Returned => /\ RightReading(result, meant)
              /\ clean /\ result.type # "error" => result.service = request.service
=============================================================================
