---------------------------- MODULE DecodersProofs ----------------------------
(***************************************************************************)
(* The decoding crates, for all databases and frames, requests and answers *)
(* and any number of nodes: what a response is read as, what is decoded of *)
(* a frame, and who keeps an address.                                      *)
(***************************************************************************)
EXTENDS Decoders, Integers, Sequences, SequenceTheorems, FiniteSetTheorems,
        WellFoundedInduction, NaturalsInduction, TLAPS

-----------------------------------------------------------------------------
(* A program that uses one of the crates uses it as its module says.        *)

LEMMA DbcRuns == Spec => Dbc!Init /\ [][Dbc!Next]_Dbc!vars
<1>1. Init => Dbc!Init
  BY DEF Init
<1>2. [Next]_vars => [Dbc!Next]_Dbc!vars
  BY DEF Next, vars, dbcs, Dbc!vars
<1> QED
  BY <1>1, <1>2, PTL DEF Spec

LEMMA UdsRuns == Spec => Uds!Spec
<1>1. Init => Uds!Init
  BY DEF Init
<1>2. [Next]_vars => [Uds!Next]_Uds!vars
  BY DEF Next, vars, udss, Uds!vars
<1> QED
  BY <1>1, <1>2, PTL DEF Spec, Uds!Spec

-----------------------------------------------------------------------------
(* UDS: what there is to read in the inbox.                                 *)

Byte == 0 .. 255

LEMMA RequestsTyped == Requests \subseteq [service : Uds!Services, data : Seq(Byte)]
BY PartsAssumption DEF Uds!Assumptions, Byte

LEMMA AnswersTyped == Data \subseteq Seq(Byte) /\ Codes \subseteq Byte
BY PartsAssumption DEF Uds!Assumptions, Byte

\* What an answer says of a request for this service, and what its start does.
Positives(service) == {Uds!Positive(service, d) : d \in Data}
Negatives(service) == {Uds!Negative(service, c) : c \in Codes \cup {Uds!ResponsePending}}
Answers(service) == Positives(service) \cup Negatives(service)
Cuts(service) == {Uds!Cut(a, n) : a \in Answers(service), n \in Nat}

Meanings == {Uds!Garbled} \cup UNION {Answers(service) \cup Cuts(service) : service \in Uds!Services}

Rightly(item) == Uds!RightReading(Uds!DecodeResponse(item.bytes), item.meant)

Readable == {item \in [bytes : Seq(Byte), meant : Meanings] : Rightly(item)}

LEMMA ServiceBytes ==
  ASSUME NEW service \in Uds!Services
  PROVE  /\ service \in Byte /\ service < 64 /\ service + 64 \in Byte
         /\ service + 64 # 127 /\ Uds!Requested(service + 64) = service
         /\ Uds!Requested(service) \notin Uds!Services
BY DEF Uds!Services, Uds!DiagnosticSessionControl, Uds!EcuReset, Uds!ReadDataByIdentifier,
       Uds!TesterPresent, Uds!Requested, Byte

LEMMA PendingByte == Uds!ResponsePending \in Byte
BY DEF Uds!ResponsePending, Byte

\* A payload that begins with a byte: the byte, and the rest.
LEMMA Headed ==
  ASSUME NEW first \in Byte, NEW rest \in Seq(Byte)
  PROVE  /\ <<first>> \o rest \in Seq(Byte) /\ <<first>> \o rest # << >>
         /\ (<<first>> \o rest)[1] = first /\ Tail(<<first>> \o rest) = rest
<1> DEFINE whole == <<first>> \o rest
<1>1. <<first>> \in Seq(Byte) /\ Len(<<first>>) = 1 /\ <<first>>[1] = first
  OBVIOUS
<1>2. /\ whole \in Seq(Byte) /\ Len(whole) = 1 + Len(rest) /\ whole[1] = first
      /\ \A i \in 1 .. Len(rest) : whole[i + 1] = rest[i]
  BY <1>1, ConcatProperties, LenProperties
<1>3. whole # << >>
  BY <1>2, LenProperties
<1>4. Tail(whole) \in Seq(Byte) /\ Len(Tail(whole)) = Len(rest)
      /\ \A i \in 1 .. Len(rest) : Tail(whole)[i] = rest[i]
  BY <1>2, <1>3, HeadTailProperties, LenProperties
<1>5. Tail(whole) = rest
  BY <1>4, SeqEqual
<1> QED
  BY <1>2, <1>3, <1>5

(***************************************************************************)
(* Every answer of the ECU is read as it was meant.                        *)
(***************************************************************************)
LEMMA AnswersReadable ==
  ASSUME NEW service \in Uds!Services, NEW a \in Answers(service)
  PROVE  [bytes |-> Uds!AnswerBytes(a), meant |-> a] \in Readable
<1> DEFINE item == [bytes |-> Uds!AnswerBytes(a), meant |-> a]
<1>0. a \in Meanings
  BY DEF Meanings
<1>1. CASE a \in Positives(service)
  <2>1. PICK d \in Data : a = Uds!Positive(service, d)
    BY <1>1 DEF Positives
  <2>2. d \in Seq(Byte) /\ service + 64 \in Byte
    BY AnswersTyped, ServiceBytes
  <2>3. Uds!AnswerBytes(a) = <<service + 64>> \o d
    BY <2>1 DEF Uds!AnswerBytes, Uds!Positive
  <2>4. Uds!DecodeResponse(item.bytes) = a
    <3>1. /\ item.bytes # << >> /\ item.bytes[1] = service + 64 /\ Tail(item.bytes) = d
      BY <2>2, <2>3, Headed
    <3>2. Uds!Requested(item.bytes[1]) = service /\ item.bytes[1] # 127
      BY <3>1, ServiceBytes
    <3> HIDE DEF item
    <3> QED
      BY <2>1, <3>1, <3>2 DEF Uds!DecodeResponse, Uds!DecodePositive
  <2>5. item.bytes \in Seq(Byte)
    BY <2>2, <2>3, Headed
  <2>6. a.type # "error"
    BY <2>1 DEF Uds!Positive
  <2> QED
    BY <1>0, <2>4, <2>5, <2>6 DEF Readable, Rightly, Uds!RightReading
<1>2. CASE a \in Negatives(service)
  <2>1. PICK c \in Codes \cup {Uds!ResponsePending} : a = Uds!Negative(service, c)
    BY <1>2 DEF Negatives
  <2>2. c \in Byte /\ service \in Byte
    BY AnswersTyped, PendingByte, ServiceBytes
  <2>3. Uds!AnswerBytes(a) = <<127, service, c>>
    BY <2>1 DEF Uds!AnswerBytes, Uds!Negative
  <2>4. item.bytes \in Seq(Byte)
    BY <2>2, <2>3 DEF Byte
  <2>5. Uds!DecodeResponse(item.bytes) =
          IF c \notin Uds!NegativeResponseCodes
          THEN Uds!Error("UnknownNegativeResponseCode") ELSE Uds!Negative(service, c)
    BY <2>3 DEF Uds!DecodeResponse, Uds!DecodeNegative
  <2>6. a.type = "negative" /\ a.code = c
    BY <2>1 DEF Uds!Negative
  <2>7. Rightly(item)
    <3>1. CASE c \notin Uds!NegativeResponseCodes
      <4>1. Uds!DecodeResponse(item.bytes).type = "error"
        BY <2>5, <3>1 DEF Uds!Error
      <4> QED
        BY <2>6, <3>1, <4>1 DEF Rightly, Uds!RightReading
    <3>2. CASE c \in Uds!NegativeResponseCodes
      <4>1. Uds!DecodeResponse(item.bytes) = a
        BY <2>1, <2>5, <3>2
      <4> QED
        BY <2>6, <4>1 DEF Rightly, Uds!RightReading
    <3> QED
      BY <3>1, <3>2
  <2> QED
    BY <1>0, <2>4, <2>7 DEF Readable
<1> QED
  BY <1>1, <1>2 DEF Answers

(***************************************************************************)
(* The start of a positive answer is read as a positive answer with the    *)
(* start of its data, that of a negative one not at all.                   *)
(***************************************************************************)
LEMMA CutPositive ==
  ASSUME NEW service \in Uds!Services, NEW d \in Seq(Byte), NEW n \in 1 .. Len(d)
  PROVE  /\ SubSeq(<<service + 64>> \o d, 1, n) \in Seq(Byte)
         /\ Uds!DecodeResponse(SubSeq(<<service + 64>> \o d, 1, n)) =
              Uds!Positive(service, SubSeq(d, 1, n - 1))
<1> DEFINE whole == <<service + 64>> \o d
           bytes == SubSeq(whole, 1, n)
           start == SubSeq(d, 1, n - 1)
<1>0. n \in Nat /\ 1 <= n /\ n <= Len(d) /\ Len(d) \in Nat /\ service + 64 \in Byte
  BY LenProperties, ServiceBytes
<1>1. /\ Len(whole) = 1 + Len(d) /\ whole \in Seq(Byte) /\ whole[1] = service + 64
      /\ \A i \in 1 .. Len(d) : whole[i + 1] = d[i]
  <2>1. <<service + 64>> \in Seq(Byte) /\ Len(<<service + 64>>) = 1
        /\ <<service + 64>>[1] = service + 64
    BY <1>0
  <2> QED
    BY <1>0, <2>1, ConcatProperties, LenProperties
<1> HIDE DEF whole
<1>2. /\ bytes \in Seq(Byte) /\ Len(bytes) = n
      /\ \A i \in 1 .. n : bytes[i] = whole[i]
  BY <1>0, <1>1, SubSeqProperties, ElementOfSeq
<1>3. /\ start \in Seq(Byte) /\ Len(start) = n - 1
      /\ \A i \in 1 .. n - 1 : start[i] = d[i]
  <2>1. \A i \in 1 .. n - 1 : d[i] \in Byte
    BY <1>0, ElementOfSeq
  <2> QED
    BY <1>0, <2>1, SubSeqProperties
<1> HIDE DEF bytes, start
<1>4. bytes # << >> /\ bytes[1] = service + 64
  BY <1>0, <1>1, <1>2, EmptySeq
<1>5. Tail(bytes) = start
  <2>1. /\ Tail(bytes) \in Seq(Byte) /\ Len(Tail(bytes)) = n - 1
        /\ \A i \in 1 .. n - 1 : Tail(bytes)[i] = bytes[i + 1]
    BY <1>2, <1>4, HeadTailProperties
  <2>2. \A i \in 1 .. n - 1 : Tail(bytes)[i] = start[i]
    <3> SUFFICES ASSUME NEW i \in 1 .. n - 1 PROVE Tail(bytes)[i] = start[i]
      OBVIOUS
    <3>1. i + 1 \in 1 .. n /\ i \in 1 .. Len(d)
      BY <1>0
    <3> QED
      BY <1>1, <1>2, <1>3, <2>1, <3>1
  <2> QED
    BY <1>3, <2>1, <2>2, SeqEqual
<1>6. Uds!DecodeResponse(bytes) = Uds!Positive(service, start)
  <2>1. bytes[1] # 127 /\ Uds!Requested(bytes[1]) = service
    BY <1>4, ServiceBytes
  <2> QED
    BY <1>4, <1>5, <2>1 DEF Uds!DecodeResponse, Uds!DecodePositive
<1> QED
  BY <1>2, <1>6 DEF bytes, start, whole

LEMMA CutNegative ==
  ASSUME NEW service \in Byte, NEW c \in Byte, NEW n \in 0 .. 2
  PROVE  /\ SubSeq(<<127, service, c>>, 1, n) \in Seq(Byte)
         /\ Uds!DecodeResponse(SubSeq(<<127, service, c>>, 1, n)) = Uds!Error("PayloadTooShort")
<1> DEFINE bytes == SubSeq(<<127, service, c>>, 1, n)
<1>1. <<127, service, c>> \in Seq(Byte) /\ Len(<<127, service, c>>) = 3 /\ <<127, service, c>>[1] = 127
  BY DEF Byte
<1>2. bytes \in Seq(Byte) /\ Len(bytes) = n /\ (n >= 1 => bytes[1] = 127)
  BY <1>1, SubSeqProperties
<1> HIDE DEF bytes
<1>3. CASE n = 0
  <2>1. bytes = << >>
    BY <1>2, <1>3, EmptySeq
  <2> QED
    BY <1>2, <2>1 DEF Uds!DecodeResponse, bytes
<1>4. CASE n # 0
  <2>1. bytes # << >> /\ bytes[1] = 127 /\ Len(bytes) < 3
    BY <1>2, <1>4, EmptySeq
  <2> QED
    BY <1>2, <2>1 DEF Uds!DecodeResponse, Uds!DecodeNegative, bytes
<1> QED
  BY <1>3, <1>4

LEMMA IsReadable ==
  ASSUME NEW bytes \in Seq(Byte), NEW what \in Meanings,
         Uds!RightReading(Uds!DecodeResponse(bytes), what)
  PROVE  [bytes |-> bytes, meant |-> what] \in Readable
BY DEF Readable, Rightly

LEMMA WithData ==
  ASSUME NEW service, NEW d, NEW e
  PROVE  [Uds!Positive(service, d) EXCEPT !.data = e] = Uds!Positive(service, e)
BY DEF Uds!Positive

LEMMA CutsReadable ==
  ASSUME NEW service \in Uds!Services, NEW a \in Answers(service),
         NEW n \in 0 .. Len(Uds!AnswerBytes(a)) - 1
  PROVE  [bytes |-> SubSeq(Uds!AnswerBytes(a), 1, n), meant |-> Uds!Cut(a, n)] \in Readable
<1> DEFINE bytes == SubSeq(Uds!AnswerBytes(a), 1, n)
<1>0. n \in Nat
  OBVIOUS
<1>1. Uds!Cut(a, n) \in Meanings
  BY <1>0 DEF Meanings, Cuts
<1>2. /\ Uds!Cut(a, n).type = "cut" /\ Uds!Cut(a, n).whole = a /\ Uds!Cut(a, n).kept = n
  BY DEF Uds!Cut
<1>3. CASE a \in Positives(service)
  <2>1. PICK d \in Data : a = Uds!Positive(service, d)
    BY <1>3 DEF Positives
  <2>2. d \in Seq(Byte) /\ service + 64 \in Byte
    BY AnswersTyped, ServiceBytes
  <2>3. Uds!AnswerBytes(a) = <<service + 64>> \o d
    BY <2>1 DEF Uds!AnswerBytes, Uds!Positive
  <2>4. Len(<<service + 64>> \o d) = 1 + Len(d) /\ Len(d) \in Nat
    BY <2>2, ConcatProperties, LenProperties
  <2>5. CASE n = 0
    <3>1. bytes = << >>
      BY <2>5, SubSeqEmpty
    <3>2. Uds!DecodeResponse(bytes).type = "error" /\ bytes \in Seq(Byte)
      BY <3>1 DEF Uds!DecodeResponse, Uds!Error
    <3> HIDE DEF bytes
    <3>3. Uds!RightReading(Uds!DecodeResponse(bytes), Uds!Cut(a, n))
      BY <1>2, <2>5, <3>2 DEF Uds!RightReading
    <3> QED
      BY <1>1, <3>2, <3>3, IsReadable DEF bytes
  <2>6. CASE n # 0
    <3>1. n \in 1 .. Len(d) /\ n > 0 /\ n # 0
      BY <1>0, <2>3, <2>4, <2>6
    <3>2. /\ bytes \in Seq(Byte)
          /\ Uds!DecodeResponse(bytes) = Uds!Positive(service, SubSeq(d, 1, n - 1))
      BY <2>2, <2>3, <3>1, CutPositive
    <3> HIDE DEF bytes
    <3>3. a.type = "positive" /\ a.data = d
      BY <2>1 DEF Uds!Positive
    <3>4. [a EXCEPT !.data = SubSeq(d, 1, n - 1)] = Uds!Positive(service, SubSeq(d, 1, n - 1))
      BY <2>1, WithData
    <3>5. Uds!DecodeResponse(bytes).type # "error"
      BY <3>2 DEF Uds!Positive
    <3>6. Uds!RightReading(Uds!DecodeResponse(bytes), Uds!Cut(a, n))
      BY <1>2, <3>1, <3>2, <3>3, <3>4, <3>5 DEF Uds!RightReading
    <3> QED
      BY <1>1, <3>2, <3>6, IsReadable DEF bytes
  <2> QED
    BY <2>5, <2>6
<1>4. CASE a \in Negatives(service)
  <2>1. PICK c \in Codes \cup {Uds!ResponsePending} : a = Uds!Negative(service, c)
    BY <1>4 DEF Negatives
  <2>2. c \in Byte /\ service \in Byte
    BY AnswersTyped, PendingByte, ServiceBytes
  <2>3. Uds!AnswerBytes(a) = <<127, service, c>> /\ a.type = "negative"
    BY <2>1 DEF Uds!AnswerBytes, Uds!Negative
  <2>4. n \in 0 .. 2
    BY <2>3
  <2>5. bytes \in Seq(Byte) /\ Uds!DecodeResponse(bytes) = Uds!Error("PayloadTooShort")
    BY <2>2, <2>3, <2>4, CutNegative
  <2> HIDE DEF bytes
  <2>6. Uds!RightReading(Uds!DecodeResponse(bytes), Uds!Cut(a, n))
    BY <1>2, <2>3, <2>5 DEF Uds!RightReading, Uds!Error
  <2> QED
    BY <1>1, <2>5, <2>6, IsReadable DEF bytes
<1> QED
  BY <1>3, <1>4 DEF Answers

\* Nor is the client's own request read as a response.
LEMMA OwnRequestUnreadable ==
  ASSUME NEW r \in Requests
  PROVE  [bytes |-> Uds!EncodeRequest(r), meant |-> Uds!Garbled] \in Readable
<1>1. r.service \in Uds!Services /\ r.data \in Seq(Byte)
  BY RequestsTyped
<1>2. r.service \in Byte /\ r.service < 64 /\ Uds!Requested(r.service) \notin Uds!Services
  BY <1>1, ServiceBytes
<1>3. /\ Uds!EncodeRequest(r) \in Seq(Byte) /\ Uds!EncodeRequest(r) # << >>
      /\ Uds!EncodeRequest(r)[1] = r.service
  BY <1>1, <1>2, Headed DEF Uds!EncodeRequest
<1>4. Uds!DecodeResponse(Uds!EncodeRequest(r)) = Uds!Error("UnknownService")
  <2>1. r.service # 127
    BY <1>2 DEF Byte
  <2> QED
    BY <1>2, <1>3, <2>1 DEF Uds!DecodeResponse, Uds!DecodePositive
<1> QED
  BY <1>3, <1>4 DEF Readable, Rightly, Uds!RightReading, Meanings, Uds!Error

\* What a response is read as has a service, and a payload is not garbled.
LEMMA ResponseKinds ==
  ASSUME NEW bytes
  PROVE  Uds!DecodeResponse(bytes).type \in {"positive", "negative", "error"}
BY DEF Uds!DecodeResponse, Uds!DecodeNegative, Uds!DecodePositive, Uds!Error, Uds!Negative,
       Uds!Positive

\* What is returned of an answer, or of its start, is of the service it is of.
LEMMA ReadingsOfAnswers ==
  ASSUME NEW bytes, NEW what \in Meanings, Uds!RightReading(Uds!DecodeResponse(bytes), what),
         Uds!DecodeResponse(bytes).type # "error"
  PROVE  what # Uds!Garbled /\ Uds!DecodeResponse(bytes).service = what.service
<1> DEFINE r == Uds!DecodeResponse(bytes)
<1>1. r.type \in {"positive", "negative", "error"}
  BY ResponseKinds
<1> HIDE DEF r
<1>2. CASE r = what
  BY <1>1, <1>2 DEF Uds!Garbled, r
<1>3. CASE /\ what.type = "cut" /\ what.whole.type = "positive"
           /\ r = [what.whole EXCEPT !.data = SubSeq(@, 1, what.kept - 1)]
  <2>1. PICK service \in Uds!Services : what \in Answers(service) \cup Cuts(service)
    BY <1>3 DEF Meanings, Uds!Garbled
  <2>2. what \notin Answers(service)
    BY <1>3 DEF Answers, Positives, Negatives, Uds!Positive, Uds!Negative
  <2>3. PICK a \in Answers(service), n \in Nat : what = Uds!Cut(a, n)
    BY <2>1, <2>2 DEF Cuts
  <2>4. a.type = "positive" /\ what.whole = a /\ what.service = a.service
    BY <1>3, <2>3 DEF Uds!Cut
  <2>5. PICK d \in Data : a = Uds!Positive(service, d)
    BY <2>4 DEF Answers, Positives, Negatives, Uds!Negative
  <2>6. r.service = a.service
    BY <1>3, <2>4, <2>5 DEF Uds!Positive
  <2> QED
    BY <1>3, <2>4, <2>6 DEF Uds!Garbled, r
<1> QED
  BY <1>2, <1>3 DEF Uds!RightReading, r

(***************************************************************************)
(* The inductive invariant: whatever waits in the inbox will be read for   *)
(* what it is; and if nothing was under way when the request was sent then *)
(* all that waits, and all the ECU has still to answer, is of its service. *)
(***************************************************************************)
Waiting == asked \in Seq(Requests) /\ inbox \in Seq(Readable)

OfThisRequest ==
  clean =>
    /\ \A k \in 1 .. Len(inbox) :
         inbox[k].meant = Uds!Garbled \/ inbox[k].meant.service = request.service
    /\ \A k \in 1 .. Len(asked) : asked[k].service = request.service

UdsInv == Waiting /\ OfThisRequest /\ Uds!RightAnswer

LEMMA UdsStarts == Uds!Init => UdsInv
<1> SUFFICES ASSUME Uds!Init PROVE UdsInv
  OBVIOUS
<1>1. Waiting /\ OfThisRequest
  BY EmptySeq DEF Uds!Init, Waiting, OfThisRequest
<1>2. Uds!RightAnswer
  BY DEF Uds!Init, Uds!RightAnswer, Uds!Returned
<1> QED
  BY <1>1, <1>2 DEF UdsInv

\* A request for which nothing was under way, and one for which something was.
LEMMA SendKeeps ==
  ASSUME UdsInv, NEW r \in Requests, Uds!Send(r)
  PROVE  UdsInv'
<1> DEFINE echo == [bytes |-> Uds!EncodeRequest(r), meant |-> Uds!Garbled]
<1> USE DEF UdsInv
<1>1. asked \in Seq(Requests) /\ inbox \in Seq(Readable) /\ echo \in Readable
  BY OwnRequestUnreadable DEF Waiting
<1>2. /\ asked' = Append(asked, r) /\ request' = r /\ result' = [type |-> "waiting"]
      /\ inbox' = Append(inbox, echo) \/ inbox' = inbox
      /\ clean' <=> (inbox = << >> /\ asked = << >>)
  BY DEF Uds!Send, Uds!Hear
<1> HIDE DEF echo
<1>3. asked' \in Seq(Requests) /\ inbox' \in Seq(Readable)
  <2>1. asked' \in Seq(Requests)
    BY <1>1, <1>2, AppendProperties
  <2>2. Append(inbox, echo) \in Seq(Readable)
    BY <1>1, AppendProperties
  <2> QED
    BY <1>1, <1>2, <2>1, <2>2
<1>4. ASSUME clean'
      PROVE  /\ \A k \in 1 .. Len(inbox') : inbox'[k].meant = Uds!Garbled
             /\ \A k \in 1 .. Len(asked') : asked'[k] = r
  <2>1. inbox = << >> /\ asked = << >>
    BY <1>2, <1>4
  <2>2. asked' = <<r>> /\ (inbox' = <<echo>> \/ inbox' = << >>)
    BY <1>2, <2>1
  <2> QED
    BY <2>2 DEF echo
<1>5. Uds!RightAnswer'
  BY <1>2 DEF Uds!RightAnswer, Uds!Returned
<1> QED
  BY <1>2, <1>3, <1>4, <1>5 DEF Waiting, OfThisRequest

LEMMA ReceiveKeeps ==
  ASSUME UdsInv, Uds!Receive
  PROVE  UdsInv'
<1> USE DEF UdsInv
<1> DEFINE item == Head(inbox)
<1>1. asked \in Seq(Requests) /\ inbox \in Seq(Readable) /\ inbox # << >>
  BY DEF Waiting, Uds!Receive
<1>2. /\ inbox' = Tail(inbox) /\ asked' = asked /\ request' = request /\ clean' = clean
      /\ result' = Uds!DecodeResponse(item.bytes) /\ meant' = item.meant
  BY DEF Uds!Receive
<1>3. /\ item \in Readable /\ Len(inbox) \in Nat /\ Len(inbox) >= 1
      /\ Tail(inbox) \in Seq(Readable) /\ Len(Tail(inbox)) = Len(inbox) - 1
      /\ \A k \in 1 .. Len(Tail(inbox)) : Tail(inbox)[k] = inbox[k + 1]
      /\ item = inbox[1]
  BY <1>1, HeadTailProperties, LenProperties, EmptySeq
<1> HIDE DEF item
<1>4. Waiting'
  BY <1>1, <1>2, <1>3 DEF Waiting
<1>5. OfThisRequest'
  <2> SUFFICES ASSUME clean, NEW k \in 1 .. Len(inbox')
               PROVE  inbox'[k].meant = Uds!Garbled \/ inbox'[k].meant.service = request.service
    BY <1>2 DEF OfThisRequest
  <2>1. k + 1 \in 1 .. Len(inbox) /\ inbox'[k] = inbox[k + 1]
    BY <1>2, <1>3
  <2> QED
    BY <2>1 DEF OfThisRequest
<1>6. Uds!RightAnswer'
  <2>1. Uds!RightReading(result', meant')
    BY <1>2, <1>3 DEF Readable, Rightly
  <2>2. ASSUME clean', result'.type # "error"
        PROVE  result'.service = request'.service
    <3>1. meant' # Uds!Garbled /\ result'.service = meant'.service
      BY <1>2, <1>3, <2>1, <2>2, ReadingsOfAnswers DEF Readable
    <3> QED
      BY <1>2, <1>3, <2>2, <3>1 DEF OfThisRequest
  <2> QED
    BY <2>1, <2>2 DEF Uds!RightAnswer
<1> QED
  BY <1>4, <1>5, <1>6

\* The ECU says something of the request it looks at, and may be done with it.
LEMMA HearKeeps ==
  ASSUME UdsInv, asked # << >>, NEW bytes, NEW what, [bytes |-> bytes, meant |-> what] \in Readable,
         what = Uds!Garbled \/ what.service = Head(asked).service,
         Uds!Hear(bytes, what), asked' = asked \/ asked' = Tail(asked),
         request' = request, result' = result, meant' = meant, clean' = clean
  PROVE  UdsInv'
<1> USE DEF UdsInv
<1> DEFINE item == [bytes |-> bytes, meant |-> what]
<1>1. asked \in Seq(Requests) /\ inbox \in Seq(Readable) /\ item \in Readable
  BY DEF Waiting
<1>2. inbox' = Append(inbox, item) /\ item.meant = what
  BY DEF Uds!Hear
<1> HIDE DEF item
<1>3. /\ inbox' \in Seq(Readable) /\ Len(inbox) \in Nat /\ Len(inbox') = Len(inbox) + 1
      /\ \A k \in 1 .. Len(inbox') : (k \in 1 .. Len(inbox) /\ inbox'[k] = inbox[k]) \/ inbox'[k] = item
  BY <1>1, <1>2, AppendProperties, LenProperties
<1>4. /\ Head(asked) = asked[1] /\ Len(asked) \in Nat /\ Len(asked) >= 1
      /\ Tail(asked) \in Seq(Requests) /\ Len(Tail(asked)) = Len(asked) - 1
      /\ \A k \in 1 .. Len(Tail(asked)) : Tail(asked)[k] = asked[k + 1]
  BY <1>1, HeadTailProperties, LenProperties, EmptySeq
<1>5. /\ asked' \in Seq(Requests)
      /\ \A k \in 1 .. Len(asked') : \E l \in 1 .. Len(asked) : asked'[k] = asked[l]
  <2>1. CASE asked' = asked
    BY <1>1, <2>1
  <2>2. CASE asked' = Tail(asked)
    <3>1. \A k \in 1 .. Len(asked') : k + 1 \in 1 .. Len(asked) /\ asked'[k] = asked[k + 1]
      BY <1>4, <2>2
    <3> QED
      BY <1>4, <2>2, <3>1
  <2> QED
    BY <2>1, <2>2
<1>6. OfThisRequest'
  <2> SUFFICES ASSUME clean
               PROVE  /\ \A k \in 1 .. Len(inbox') :
                           inbox'[k].meant = Uds!Garbled \/ inbox'[k].meant.service = request.service
                      /\ \A k \in 1 .. Len(asked') : asked'[k].service = request.service
    BY DEF OfThisRequest
  <2>1. what = Uds!Garbled \/ what.service = request.service
    <3>1. 1 \in 1 .. Len(asked)
      BY <1>4
    <3> QED
      BY <1>4, <3>1 DEF OfThisRequest
  <2>2. \A k \in 1 .. Len(inbox') :
          inbox'[k].meant = Uds!Garbled \/ inbox'[k].meant.service = request.service
    BY <1>2, <1>3, <2>1 DEF OfThisRequest
  <2>3. \A k \in 1 .. Len(asked') : asked'[k].service = request.service
    BY <1>5 DEF OfThisRequest
  <2> QED
    BY <2>2, <2>3
<1>7. Uds!RightAnswer'
  BY DEF Uds!RightAnswer, Uds!Returned
<1> QED
  BY <1>3, <1>5, <1>6, <1>7 DEF Waiting

\* An answer is heard whole, or its first bytes are.
LEMMA AnswersKeep ==
  ASSUME UdsInv, asked # << >>, NEW a \in Answers(Head(asked).service), Uds!Answers(a),
         asked' = asked \/ asked' = Tail(asked),
         request' = request, result' = result, meant' = meant, clean' = clean
  PROVE  UdsInv'
<1> DEFINE service == Head(asked).service
           bytes == Uds!AnswerBytes(a)
<1>1. service \in Uds!Services
  <2>1. Head(asked) \in Requests
    BY HeadTailProperties DEF UdsInv, Waiting
  <2> QED
    BY <2>1, RequestsTyped
<1>2. a.service = service
  BY DEF Answers, Positives, Negatives, Uds!Positive, Uds!Negative
<1>3. CASE Uds!Hear(bytes, a)
  <2>1. [bytes |-> bytes, meant |-> a] \in Readable
    BY <1>1, AnswersReadable
  <2> HIDE DEF bytes
  <2> QED
    BY <1>2, <1>3, <2>1, HearKeeps
<1>4. ASSUME NEW n \in 0 .. Len(bytes) - 1, Uds!Hear(SubSeq(bytes, 1, n), Uds!Cut(a, n))
      PROVE  UdsInv'
  <2> DEFINE start == SubSeq(bytes, 1, n)
             what == Uds!Cut(a, n)
  <2>1. [bytes |-> start, meant |-> what] \in Readable
    BY <1>1, CutsReadable
  <2>2. what.service = service
    BY <1>2 DEF Uds!Cut
  <2>3. Uds!Hear(start, what)
    BY <1>4
  <2> HIDE DEF start, what
  <2> QED
    BY <2>1, <2>2, <2>3, HearKeeps
<1> QED
  BY <1>3, <1>4 DEF Uds!Answers

LEMMA AnswerKeeps ==
  ASSUME UdsInv, Uds!Answer
  PROVE  UdsInv'
<1>1. /\ asked # << >> /\ asked' = Tail(asked)
      /\ request' = request /\ result' = result /\ meant' = meant /\ clean' = clean
  BY DEF Uds!Answer
<1>2. PICK a \in Answers(Head(asked).service) : Uds!Answers(a)
  BY DEF Uds!Answer, Answers, Positives, Negatives
<1> QED
  BY <1>1, <1>2, AnswersKeep

LEMMA PatienceKeeps ==
  ASSUME UdsInv, Uds!AskForPatience
  PROVE  UdsInv'
<1> DEFINE a == Uds!Negative(Head(asked).service, Uds!ResponsePending)
<1>1. /\ asked # << >> /\ asked' = asked /\ Uds!Answers(a)
      /\ request' = request /\ result' = result /\ meant' = meant /\ clean' = clean
  BY DEF Uds!AskForPatience
<1>2. a \in Answers(Head(asked).service)
  BY DEF Answers, Negatives
<1> HIDE DEF a
<1> QED
  BY <1>1, <1>2, AnswersKeep

LEMMA UdsInductive == UdsInv /\ [Uds!Next]_Uds!vars => UdsInv'
<1> SUFFICES ASSUME UdsInv, [Uds!Next]_Uds!vars PROVE UdsInv'
  OBVIOUS
<1>1. ASSUME NEW r \in Requests, Uds!Send(r) PROVE UdsInv'
  BY <1>1, SendKeeps
<1>2. CASE Uds!Receive
  BY <1>2, ReceiveKeeps
<1>3. CASE Uds!TransportFails
  BY <1>3 DEF UdsInv, Waiting, OfThisRequest, Uds!TransportFails, Uds!RightAnswer,
              Uds!RightReading, Uds!Error
<1>4. CASE Uds!Answer
  BY <1>4, AnswerKeeps
<1>5. CASE Uds!AskForPatience
  BY <1>5, PatienceKeeps
<1>6. CASE UNCHANGED Uds!vars
  BY <1>6 DEF UdsInv, Waiting, OfThisRequest, Uds!vars, Uds!RightAnswer, Uds!Returned
<1> QED
  BY <1>1, <1>2, <1>3, <1>4, <1>5, <1>6 DEF Uds!Next

(***************************************************************************)
(* Responses: what the client returns is what the ECU said, or of a        *)
(* positive answer cut short the start; and it is of this very request if  *)
(* nothing of an earlier one was under way.  For any requests and any      *)
(* answers of which any part may be missing.                               *)
(***************************************************************************)
THEOREM AnswersAreRight == Spec => []RightAnswer
<1>1. UdsInv => RightAnswer
  BY DEF UdsInv, RightAnswer
<1> QED
  BY <1>1, UdsStarts, UdsInductive, UdsRuns, PTL DEF Uds!Spec

-----------------------------------------------------------------------------
(* Recursion over the bits of a signal.  TLA+ defines a recursive function  *)
(* as one that satisfies an equation: that there is one is proved here.     *)

LEMMA InductionOnNat ==
  ASSUME NEW S \in SUBSET Nat, 0 \in S, \A n \in S : n + 1 \in S
  PROVE  S = Nat
<1> SUFFICES ASSUME Nat \ S # {} PROVE FALSE
  OBVIOUS
<1>1. PICK m \in Nat \ S : \A n \in Nat \ S : <<n, m>> \notin OpToRel(<, Nat)
  <2>1. Nat \ S \subseteq Nat
    OBVIOUS
  <2> QED
    BY <2>1, WFMin, NatLessThanWellFounded, Zenon
<1>2. \A n \in Nat \ S : ~(n < m)
  BY <1>1, Zenon DEF OpToRel
<1>3. m \in Nat /\ m # 0
  OBVIOUS
<1>4. m - 1 \in Nat /\ m - 1 < m /\ m - 1 + 1 = m
  BY <1>3
<1>5. m - 1 \in S
  BY <1>2, <1>4
<1> QED
  BY <1>4, <1>5

\* g begins with v and goes on by `step`, as far as n.
GoesOn(g, v, step, n) == g[0] = v /\ \A k \in 1 .. n : g[k] = step[k][g[k - 1]]

\* For any values V there is such a function.
LEMMA Recursion ==
  ASSUME NEW V, NEW v \in V, NEW step \in [Nat -> [V -> V]], NEW n \in Nat
  PROVE  \E g \in [0 .. n -> V] : GoesOn(g, v, step, n)
<1> DEFINE Defined(m) == \E g \in [0 .. m -> V] : GoesOn(g, v, step, m)
           S == {m \in Nat : Defined(m)}
<1>1. 0 \in S
  <2> DEFINE g == [k \in 0 .. 0 |-> v]
  <2>1. g \in [0 .. 0 -> V] /\ g[0] = v /\ \A k \in 1 .. 0 : FALSE
    OBVIOUS
  <2> HIDE DEF g
  <2> QED
    BY <2>1 DEF GoesOn
<1>2. ASSUME NEW m \in S PROVE m + 1 \in S
  <2>1. PICK g \in [0 .. m -> V] : g[0] = v /\ \A k \in 1 .. m : g[k] = step[k][g[k - 1]]
    BY <1>2 DEF GoesOn
  <2>2. m \in Nat
    OBVIOUS
  <2>3. m \in 0 .. m /\ 0 \in 0 .. m
    BY <2>2
  <2>4. g[m] \in V
    BY <2>1, <2>3
  <2>5. step[m + 1][g[m]] \in V
    BY <2>2, <2>4
  <2> DEFINE h == [k \in 0 .. m + 1 |-> IF k = m + 1 THEN step[m + 1][g[m]] ELSE g[k]]
  <2>6. ASSUME NEW k \in 0 .. m + 1, k # m + 1 PROVE k \in 0 .. m
    BY <2>2, <2>6
  <2>7. h \in [0 .. m + 1 -> V]
    BY <2>1, <2>5, <2>6
  <2>8. \A k \in 0 .. m : k \in 0 .. m + 1 /\ k # m + 1 /\ h[k] = g[k]
    BY <2>2
  <2>9. m + 1 \in 0 .. m + 1 /\ h[m + 1] = step[m + 1][g[m]]
    BY <2>2
  <2> HIDE DEF h
  <2>10. h[0] = v
    BY <2>1, <2>3, <2>8
  <2>11. ASSUME NEW k \in 1 .. m + 1 PROVE h[k] = step[k][h[k - 1]]
    <3>1. CASE k = m + 1
      <4>1. k - 1 = m
        BY <2>2, <3>1
      <4> QED
        BY <2>3, <2>8, <2>9, <3>1, <4>1
    <3>2. CASE k # m + 1
      <4>1. k \in 1 .. m /\ k \in 0 .. m /\ k - 1 \in 0 .. m
        BY <2>2, <3>2
      <4> QED
        BY <2>1, <2>8, <4>1
    <3> QED
      BY <3>1, <3>2
  <2>12. Defined(m + 1)
    BY <2>7, <2>10, <2>11 DEF GoesOn
  <2> HIDE DEF Defined
  <2> QED
    BY <2>2, <2>12
<1>3. S = Nat
  <2>1. S \in SUBSET Nat
    OBVIOUS
  <2> HIDE DEF S
  <2> QED
    BY <1>1, <1>2, <2>1, InductionOnNat
<1> QED
  BY <1>3

-----------------------------------------------------------------------------
(* Powers of two.                                                           *)

\* The function TwoTo(n) is a value of.
Power(n, p) == p = [k \in 0 .. n |-> IF k = 0 THEN 1 ELSE 2 * p[k - 1]]

LEMMA PowerDefined ==
  ASSUME NEW n \in Nat
  PROVE  \E p : Power(n, p) /\ Dbc!TwoTo(n) = p[n]
<1> DEFINE step == [k \in Nat |-> [w \in Nat |-> 2 * w]]
<1>1. step \in [Nat -> [Nat -> Nat]]
  OBVIOUS
<1>2. \A k, w \in Nat : step[k][w] = 2 * w
  OBVIOUS
<1> HIDE DEF step
<1>3. PICK g \in [0 .. n -> Nat] : g[0] = 1 /\ \A k \in 1 .. n : g[k] = step[k][g[k - 1]]
  <2>1. 1 \in Nat
    OBVIOUS
  <2>2. PICK g \in [0 .. n -> Nat] : GoesOn(g, 1, step, n)
    BY <1>1, <2>1, Recursion
  <2> QED
    BY <2>2 DEF GoesOn
<1>4. g = [k \in 0 .. n |-> g[k]]
  OBVIOUS
<1>5. ASSUME NEW k \in 0 .. n PROVE g[k] = IF k = 0 THEN 1 ELSE 2 * g[k - 1]
  <2>1. CASE k # 0
    <3>1. k \in 1 .. n /\ k - 1 \in 0 .. n /\ k \in Nat
      BY <2>1
    <3>2. g[k - 1] \in Nat
      BY <3>1
    <3> QED
      BY <1>2, <1>3, <2>1, <3>1, <3>2
  <2> QED
    BY <1>3, <2>1
<1>6. [k \in 0 .. n |-> g[k]] = [k \in 0 .. n |-> IF k = 0 THEN 1 ELSE 2 * g[k - 1]]
  BY <1>5
<1>7. Power(n, g)
  BY <1>4, <1>6 DEF Power
<1> DEFINE power == CHOOSE p : Power(n, p)
<1>8. Power(n, power)
  BY <1>7
<1>9. Dbc!TwoTo(n) = power[n]
  BY DEF Dbc!TwoTo, Power
<1> HIDE DEF power
<1> QED
  BY <1>8, <1>9

LEMMA PowerValues ==
  ASSUME NEW n \in Nat, NEW p, Power(n, p)
  PROVE  /\ p[0] = 1
         /\ \A k \in 1 .. n : p[k] = 2 * p[k - 1]
         /\ \A k \in 0 .. n : p[k] \in Nat \ {0}
<1>1. DOMAIN p = 0 .. n /\ \A k \in 0 .. n : p[k] = IF k = 0 THEN 1 ELSE 2 * p[k - 1]
  BY DEF Power
<1>2. p[0] = 1 /\ \A k \in 1 .. n : p[k] = 2 * p[k - 1]
  <2>1. 0 \in 0 .. n /\ \A k \in 1 .. n : k \in 0 .. n /\ k # 0
    OBVIOUS
  <2> QED
    BY <1>1, <2>1
<1> DEFINE S == {k \in Nat : k <= n => p[k] \in Nat \ {0}}
<1>3. 0 \in S
  BY <1>2
<1>4. ASSUME NEW k \in S PROVE k + 1 \in S
  <2>1. k \in Nat /\ k + 1 \in Nat /\ (k + 1) - 1 = k /\ (k + 1 <= n => k <= n /\ k + 1 \in 1 .. n)
    OBVIOUS
  <2> QED
    BY <1>2, <2>1
<1>5. S = Nat
  <2>1. S \in SUBSET Nat
    OBVIOUS
  <2> HIDE DEF S
  <2> QED
    BY <1>3, <1>4, <2>1, InductionOnNat
<1> QED
  BY <1>2, <1>5

LEMMA PowersOfTwo ==
  /\ Dbc!TwoTo(0) = 1
  /\ \A n \in Nat : Dbc!TwoTo(n) \in Nat \ {0} /\ Dbc!TwoTo(n + 1) = 2 * Dbc!TwoTo(n)
<1>1. Dbc!TwoTo(0) = 1
  BY PowerDefined, PowerValues
<1>2. ASSUME NEW n \in Nat
      PROVE  Dbc!TwoTo(n) \in Nat \ {0} /\ Dbc!TwoTo(n + 1) = 2 * Dbc!TwoTo(n)
  <2>1. PICK p : Power(n, p) /\ Dbc!TwoTo(n) = p[n]
    BY PowerDefined
  <2>2. n + 1 \in Nat
    OBVIOUS
  <2>3. PICK q : Power(n + 1, q) /\ Dbc!TwoTo(n + 1) = q[n + 1]
    BY <2>2, PowerDefined
  <2>4. /\ p[0] = 1 /\ q[0] = 1
        /\ \A k \in 1 .. n : p[k] = 2 * p[k - 1]
        /\ \A k \in 1 .. n + 1 : q[k] = 2 * q[k - 1]
        /\ \A k \in 0 .. n : p[k] \in Nat \ {0}
    BY <2>1, <2>2, <2>3, PowerValues
  <2> DEFINE S == {k \in Nat : k <= n => p[k] = q[k]}
  <2>5. 0 \in S
    BY <2>4
  <2>6. ASSUME NEW k \in S PROVE k + 1 \in S
    <3>1. /\ k \in Nat /\ k + 1 \in Nat /\ (k + 1) - 1 = k
          /\ (k + 1 <= n => k <= n /\ k + 1 \in 1 .. n /\ k + 1 \in 1 .. n + 1)
      OBVIOUS
    <3> QED
      BY <2>4, <3>1
  <2>7. S = Nat
    <3>1. S \in SUBSET Nat
      OBVIOUS
    <3> HIDE DEF S
    <3> QED
      BY <2>5, <2>6, <3>1, InductionOnNat
  <2>8. p[n] = q[n] /\ n \in 0 .. n
    BY <2>7
  <2>9. n + 1 \in 1 .. n + 1 /\ (n + 1) - 1 = n
    OBVIOUS
  <2> QED
    BY <2>1, <2>3, <2>4, <2>8, <2>9
<1> QED
  BY <1>1, <1>2

\* Powers multiply: 2 ^ (i + j) = 2 ^ i * 2 ^ j.
LEMMA PowersMultiply ==
  ASSUME NEW i \in Nat, NEW j \in Nat
  PROVE  Dbc!TwoTo(i + j) = Dbc!TwoTo(i) * Dbc!TwoTo(j)
<1> DEFINE S == {k \in Nat : Dbc!TwoTo(i + k) = Dbc!TwoTo(i) * Dbc!TwoTo(k)}
<1>1. 0 \in S
  BY PowersOfTwo
<1>2. ASSUME NEW k \in S PROVE k + 1 \in S
  <2>1. /\ k \in Nat /\ i + k \in Nat /\ i + (k + 1) = (i + k) + 1
        /\ Dbc!TwoTo(i + k) = Dbc!TwoTo(i) * Dbc!TwoTo(k)
    OBVIOUS
  <2>2. Dbc!TwoTo(i + (k + 1)) = 2 * Dbc!TwoTo(i + k) /\ Dbc!TwoTo(k + 1) = 2 * Dbc!TwoTo(k)
    BY <2>1, PowersOfTwo
  <2>3. \A x, y \in Nat : 2 * (x * y) = x * (2 * y)
    OBVIOUS
  <2>4. Dbc!TwoTo(i) \in Nat /\ Dbc!TwoTo(k) \in Nat
    BY PowersOfTwo
  <2> QED
    BY <2>1, <2>2, <2>3, <2>4
<1>3. S = Nat
  <2>1. S \in SUBSET Nat
    OBVIOUS
  <2> HIDE DEF S
  <2> QED
    BY <1>1, <1>2, <2>1, InductionOnNat
<1> QED
  BY <1>3

-----------------------------------------------------------------------------
(* Bits of numbers.                                                         *)

LEMMA QuotientIs ==
  ASSUME NEW a \in Nat, NEW d \in Nat \ {0}, NEW q \in Nat, q * d <= a, a < q * d + d
  PROVE  a \div d = q
<1> DEFINE p == a \div d
<1>1. p \in Nat /\ p * d <= a /\ a < p * d + d
  BY SMT
<1> HIDE DEF p
<1>2. ~(p < q)
  <2> SUFFICES ASSUME p < q PROVE FALSE
    OBVIOUS
  <2>1. p + 1 <= q
    BY <1>1
  <2>2. (p + 1) * d <= q * d
    BY <1>1, <2>1
  <2>3. (p + 1) * d = p * d + d
    BY <1>1
  <2> QED
    BY <1>1, <2>2, <2>3
<1>3. ~(q < p)
  <2> SUFFICES ASSUME q < p PROVE FALSE
    OBVIOUS
  <2>1. q + 1 <= p
    BY <1>1
  <2>2. (q + 1) * d <= p * d
    BY <1>1, <2>1
  <2>3. (q + 1) * d = q * d + d
    BY <1>1
  <2> QED
    BY <1>1, <2>2, <2>3
<1>4. p = q
  BY <1>1, <1>2, <1>3
<1> QED
  BY <1>4 DEF p

LEMMA QuotientBounds ==
  ASSUME NEW a \in Nat, NEW d \in Nat \ {0}
  PROVE  a \div d \in Nat /\ (a \div d) * d <= a /\ a < (a \div d) * d + d
BY SMT

\* A bit above the others: the bits below it stay.
LEMMA HighBit ==
  ASSUME NEW k \in Nat, NEW v \in 0 .. Dbc!TwoTo(k) - 1, NEW b \in {0, 1}
  PROVE  LET w == v + b * Dbc!TwoTo(k)
         IN  /\ w \in 0 .. Dbc!TwoTo(k + 1) - 1
             /\ (w \div Dbc!TwoTo(k)) % 2 = b
             /\ \A i \in 0 .. k - 1 : (w \div Dbc!TwoTo(i)) % 2 = (v \div Dbc!TwoTo(i)) % 2
<1> DEFINE w == v + b * Dbc!TwoTo(k)
<1>1. Dbc!TwoTo(k) \in Nat \ {0} /\ Dbc!TwoTo(k + 1) = 2 * Dbc!TwoTo(k)
  BY PowersOfTwo
<1>2. v \in Nat /\ v < Dbc!TwoTo(k)
  BY <1>1
<1>3. w \in Nat /\ w < Dbc!TwoTo(k + 1)
  BY <1>1, <1>2
<1>4. w \div Dbc!TwoTo(k) = b
  <2>1. b * Dbc!TwoTo(k) <= w /\ w < b * Dbc!TwoTo(k) + Dbc!TwoTo(k)
    BY <1>1, <1>2
  <2>2. b \in Nat
    OBVIOUS
  <2> HIDE DEF w
  <2> QED
    BY <1>1, <1>3, <2>1, <2>2, QuotientIs
<1>5. ASSUME NEW i \in 0 .. k - 1
      PROVE  (w \div Dbc!TwoTo(i)) % 2 = (v \div Dbc!TwoTo(i)) % 2
  <2> DEFINE j == k - 1 - i
             u == Dbc!TwoTo(i)
             q == v \div u
             r == b * Dbc!TwoTo(j)
  <2>1. i \in Nat /\ j \in Nat /\ k = i + (j + 1)
    OBVIOUS
  <2>2. u \in Nat \ {0} /\ Dbc!TwoTo(j) \in Nat /\ Dbc!TwoTo(j + 1) = 2 * Dbc!TwoTo(j)
    BY <2>1, PowersOfTwo
  <2>3. Dbc!TwoTo(k) = u * (2 * Dbc!TwoTo(j))
    BY <2>1, <2>2, PowersMultiply
  <2>4. q \in Nat /\ q * u <= v /\ v < q * u + u
    BY <1>2, <2>2, QuotientBounds
  <2>5. r \in Nat /\ r = b * Dbc!TwoTo(j)
    BY <2>2
  <2> DEFINE t == Dbc!TwoTo(j)
             h == Dbc!TwoTo(k)
  <2>6. t \in Nat /\ h = u * (2 * t) /\ w = v + b * h /\ r = b * t
    BY <2>2, <2>3
  <2> HIDE DEF j, u, q, r, t, h, w
  <2>7. (q + 2 * r) * u = q * u + b * h
    <3>1. CASE b = 0
      BY <2>2, <2>4, <2>5, <2>6, <3>1
    <3>2. CASE b = 1
      <4>1. r = t /\ b * h = u * (2 * t)
        BY <2>2, <2>6, <3>2
      <4>2. (q + 2 * t) * u = q * u + u * (2 * t)
        BY <2>2, <2>4, <2>6
      <4> QED
        BY <4>1, <4>2
    <3> QED
      BY <3>1, <3>2
  <2>8. q + 2 * r \in Nat /\ (q + 2 * r) * u <= w /\ w < (q + 2 * r) * u + u
    <3>1. q + 2 * r \in Nat
      BY <2>4, <2>5
    <3>2. PICK below \in Int : below = q * u
      BY <2>2, <2>4
    <3>3. PICK above \in Int : above = b * h
      BY <2>2, <2>6
    <3>4. below + above <= w /\ w < below + above + u
      BY <1>2, <2>2, <2>4, <2>6, <3>2, <3>3
    <3> QED
      BY <2>7, <3>1, <3>2, <3>3, <3>4
  <2>9. w \div u = q + 2 * r
    BY <1>3, <2>2, <2>8, QuotientIs
  <2>10. (q + 2 * r) % 2 = q % 2
    BY <2>4, <2>5
  <2> QED
    BY <2>9, <2>10 DEF u, q
<1> HIDE DEF w
<1>6. b % 2 = b
  OBVIOUS
<1>7. w \in 0 .. Dbc!TwoTo(k + 1) - 1
  BY <1>1, <1>3
<1> QED
  BY <1>4, <1>5, <1>6, <1>7 DEF w

\* A bit below the others: they move up by one.
LEMMA LowBit ==
  ASSUME NEW k \in Nat, NEW v \in 0 .. Dbc!TwoTo(k) - 1, NEW b \in {0, 1}
  PROVE  LET w == 2 * v + b
         IN  /\ w \in 0 .. Dbc!TwoTo(k + 1) - 1
             /\ (w \div Dbc!TwoTo(0)) % 2 = b
             /\ \A i \in Nat : w \div Dbc!TwoTo(i + 1) = v \div Dbc!TwoTo(i)
<1> DEFINE w == 2 * v + b
<1>1. Dbc!TwoTo(k) \in Nat \ {0} /\ Dbc!TwoTo(k + 1) = 2 * Dbc!TwoTo(k)
  BY PowersOfTwo
<1>2. v \in Nat /\ v < Dbc!TwoTo(k) /\ w \in Nat
  BY <1>1
<1>3. w \in 0 .. Dbc!TwoTo(k + 1) - 1
  BY <1>1, <1>2
<1>4. (w \div Dbc!TwoTo(0)) % 2 = b
  <2>1. Dbc!TwoTo(0) = 1
    BY PowersOfTwo
  <2>2. w \div 1 = w /\ w % 2 = b
    BY <1>2
  <2> QED
    BY <2>1, <2>2
<1>5. ASSUME NEW i \in Nat PROVE w \div Dbc!TwoTo(i + 1) = v \div Dbc!TwoTo(i)
  <2> DEFINE u == Dbc!TwoTo(i)
             q == v \div u
  <2>1. u \in Nat \ {0} /\ Dbc!TwoTo(i + 1) = 2 * u
    BY PowersOfTwo
  <2>2. q \in Nat /\ q * u <= v /\ v < q * u + u
    BY <1>2, <2>1, QuotientBounds
  <2>3. w = 2 * v + b
    OBVIOUS
  <2> HIDE DEF u, q, w
  <2>4. q * (2 * u) = 2 * (q * u) /\ q * u \in Int
    BY <2>1, <2>2
  <2>5. q * (2 * u) <= w /\ w < q * (2 * u) + 2 * u
    BY <1>2, <2>1, <2>2, <2>3, <2>4
  <2>6. 2 * u \in Nat \ {0}
    BY <2>1
  <2>7. w \div (2 * u) = q
    BY <1>2, <2>2, <2>5, <2>6, QuotientIs
  <2> QED
    BY <2>1, <2>7 DEF u, q
<1> HIDE DEF w
<1> QED
  BY <1>3, <1>4, <1>5 DEF w

-----------------------------------------------------------------------------
(* The walk of a big-endian signal, and the two extractions.                *)

\* Bit s of byte p.
LEMMA FromTopOf ==
  ASSUME NEW p \in Nat, NEW s \in 0 .. 7, NEW bit, bit = 8 * p + s
  PROVE  /\ bit \div 8 = p /\ bit % 8 = s
         /\ Dbc!FromTop(bit) = 8 * p + (7 - s)
<1>1. bit \div 8 = p /\ bit % 8 = s
  OBVIOUS
<1> QED
  BY <1>1 DEF Dbc!FromTop

LEMMA TopNumbering ==
  ASSUME NEW bit \in Nat
  PROVE  /\ Dbc!FromTop(bit) \in Nat
         /\ Dbc!FromTop(Dbc!FromTop(bit)) = bit
         /\ Dbc!StepDown(bit) \in Nat
         /\ Dbc!StepDown(bit) = Dbc!FromTop(Dbc!FromTop(bit) + 1)
<1>1. PICK q \in Nat, r \in 0 .. 7 : bit = 8 * q + r
  <2>1. PICK byte \in Int, place \in Int : byte = bit \div 8 /\ place = bit % 8
    OBVIOUS
  <2>2. byte \in Nat /\ place \in 0 .. 7 /\ bit = 8 * byte + place
    BY <2>1
  <2> QED
    BY <2>2
<1>2. 7 - r \in 0 .. 7 /\ Dbc!FromTop(bit) = 8 * q + (7 - r)
  <2>1. Dbc!FromTop(bit) = 8 * q + (7 - r)
    BY <1>1, FromTopOf
  <2> QED
    BY <1>1, <2>1
<1>3. Dbc!FromTop(Dbc!FromTop(bit)) = bit
  <2>1. Dbc!FromTop(Dbc!FromTop(bit)) = 8 * q + (7 - (7 - r))
    BY <1>2, FromTopOf
  <2> QED
    BY <1>1, <2>1
<1>4. bit % 8 = r
  BY <1>1, FromTopOf
<1>5. CASE r = 0
  <2>1. Dbc!StepDown(bit) = 8 * (q + 1) + 7
    BY <1>1, <1>4, <1>5 DEF Dbc!StepDown
  <2>2. Dbc!FromTop(bit) + 1 = 8 * (q + 1) + 0 /\ q + 1 \in Nat
    BY <1>2, <1>5
  <2>3. Dbc!FromTop(Dbc!FromTop(bit) + 1) = 8 * (q + 1) + (7 - 0)
    <3>1. 0 \in 0 .. 7
      OBVIOUS
    <3> HIDE DEF Dbc!FromTop
    <3> QED
      BY <2>2, <3>1, FromTopOf, Zenon
  <2> QED
    BY <1>2, <1>3, <2>1, <2>3
<1>6. CASE r # 0
  <2>1. Dbc!StepDown(bit) = 8 * q + (r - 1)
    BY <1>1, <1>4, <1>6 DEF Dbc!StepDown
  <2>2. Dbc!FromTop(bit) + 1 = 8 * q + (8 - r) /\ 8 - r \in 0 .. 7
    BY <1>2, <1>6
  <2>3. Dbc!FromTop(Dbc!FromTop(bit) + 1) = 8 * q + (7 - (8 - r))
    BY <2>2, FromTopOf
  <2> QED
    BY <1>2, <1>3, <1>6, <2>1, <2>3
<1> QED
  BY <1>5, <1>6

(***************************************************************************)
(* Counted from the top of byte 0, a walk goes up one by one.              *)
(***************************************************************************)
LEMMA WalkIs ==
  ASSUME NEW start \in Nat, NEW n \in Nat
  PROVE  Dbc!Walk(start, n) = Dbc!FromTop(Dbc!FromTop(start) + n) /\ Dbc!Walk(start, n) \in Nat
<1> DEFINE There(k) == Dbc!FromTop(Dbc!FromTop(start) + k)
           Is(at) == at = [k \in 0 .. n |-> IF k = 0 THEN start ELSE Dbc!StepDown(at[k - 1])]
           closed == [k \in 0 .. n |-> There(k)]
<1>1. There(0) = start /\ \A k \in Nat : There(k) \in Nat /\ There(k + 1) = Dbc!StepDown(There(k))
  <2>1. Dbc!FromTop(start) \in Nat /\ Dbc!FromTop(start) + 0 = Dbc!FromTop(start)
    BY TopNumbering
  <2>2. ASSUME NEW k \in Nat PROVE There(k) \in Nat /\ There(k + 1) = Dbc!StepDown(There(k))
    <3>1. PICK m \in Nat : m = Dbc!FromTop(start) + k
      BY <2>1
    <3>2. Dbc!FromTop(start) + (k + 1) = m + 1
      BY <2>1, <3>1
    <3>3. /\ Dbc!FromTop(m) \in Nat /\ Dbc!FromTop(Dbc!FromTop(m)) = m
          /\ Dbc!StepDown(Dbc!FromTop(m)) = Dbc!FromTop(Dbc!FromTop(Dbc!FromTop(m)) + 1)
      BY TopNumbering
    <3> QED
      BY <3>1, <3>2, <3>3
  <2> QED
    BY <2>1, <2>2, TopNumbering
<1> HIDE DEF There
<1>2. Is(closed)
  <2>1. ASSUME NEW k \in 0 .. n
        PROVE  There(k) = IF k = 0 THEN start ELSE Dbc!StepDown(closed[k - 1])
    <3>1. CASE k # 0
      <4>1. k - 1 \in 0 .. n /\ k - 1 \in Nat /\ (k - 1) + 1 = k
        BY <3>1
      <4>2. closed[k - 1] = There(k - 1)
        BY <4>1
      <4>3. There(k) = Dbc!StepDown(There(k - 1))
        BY <1>1, <4>1
      <4> QED
        BY <3>1, <4>2, <4>3
    <3> QED
      BY <1>1, <3>1
  <2> QED
    BY <2>1, Zenon
<1> HIDE DEF closed
<1> DEFINE at == CHOOSE a : Is(a)
<1>3. Is(at)
  BY <1>2
<1>4. Dbc!Walk(start, n) = at[n]
  BY DEF Dbc!Walk
<1> HIDE DEF at
<1>5. at[0] = start /\ \A k \in 1 .. n : at[k] = Dbc!StepDown(at[k - 1])
  <2>1. 0 \in 0 .. n /\ \A k \in 1 .. n : k \in 0 .. n /\ k # 0
    OBVIOUS
  <2>2. \A k \in 0 .. n : at[k] = IF k = 0 THEN start ELSE Dbc!StepDown(at[k - 1])
    BY <1>3
  <2> QED
    BY <2>1, <2>2
<1> DEFINE S == {k \in Nat : k <= n => at[k] = There(k)}
<1>6. 0 \in S
  BY <1>1, <1>5
<1>7. ASSUME NEW k \in S PROVE k + 1 \in S
  <2>1. /\ k \in Nat /\ k + 1 \in Nat /\ (k + 1) - 1 = k
        /\ (k + 1 <= n => k <= n /\ k + 1 \in 1 .. n)
    OBVIOUS
  <2> QED
    BY <1>1, <1>5, <2>1
<1>8. S = Nat
  <2>1. S \in SUBSET Nat
    OBVIOUS
  <2> HIDE DEF S
  <2> QED
    BY <1>6, <1>7, <2>1, InductionOnNat
<1>9. at[n] = There(n)
  BY <1>8
<1> QED
  BY <1>1, <1>4, <1>9 DEF There

LEMMA BitIsBit ==
  ASSUME NEW payload, NEW bit
  PROVE  Dbc!BitAt(payload, bit) \in {0, 1}
BY DEF Dbc!BitAt

\* Each bit above those before it.
LEMMA UpwardValue ==
  ASSUME NEW bit \in [Nat -> {0, 1}], NEW n \in Nat, NEW v,
         v[0] = 0, \A k \in 1 .. n : v[k] = v[k - 1] + bit[k] * Dbc!TwoTo(k - 1)
  PROVE  /\ v[n] \in 0 .. Dbc!TwoTo(n) - 1
         /\ \A i \in 0 .. n - 1 : (v[n] \div Dbc!TwoTo(i)) % 2 = bit[i + 1]
<1> DEFINE Good(k) == /\ v[k] \in 0 .. Dbc!TwoTo(k) - 1
                      /\ \A i \in 0 .. k - 1 : (v[k] \div Dbc!TwoTo(i)) % 2 = bit[i + 1]
           S == {k \in Nat : k <= n => Good(k)}
<1>1. 0 \in S
  BY PowersOfTwo
<1>2. ASSUME NEW k \in S, k + 1 <= n PROVE Good(k + 1)
  <2>1. k \in Nat /\ k + 1 \in 1 .. n /\ (k + 1) - 1 = k /\ k <= n
    BY <1>2
  <2>2. v[k + 1] = v[k] + bit[k + 1] * Dbc!TwoTo(k)
    BY <2>1
  <2>3. v[k] \in 0 .. Dbc!TwoTo(k) - 1 /\ bit[k + 1] \in {0, 1}
    BY <1>2, <2>1
  <2>4. /\ v[k + 1] \in 0 .. Dbc!TwoTo(k + 1) - 1
        /\ (v[k + 1] \div Dbc!TwoTo(k)) % 2 = bit[k + 1]
        /\ \A i \in 0 .. k - 1 : (v[k + 1] \div Dbc!TwoTo(i)) % 2 = (v[k] \div Dbc!TwoTo(i)) % 2
    BY <2>1, <2>2, <2>3, HighBit
  <2>5. \A i \in 0 .. (k + 1) - 1 : i = k \/ i \in 0 .. k - 1
    BY <2>1
  <2>6. \A i \in 0 .. k - 1 : (v[k] \div Dbc!TwoTo(i)) % 2 = bit[i + 1]
    BY <1>2, <2>1
  <2> QED
    BY <2>4, <2>5, <2>6
<1>3. S = Nat
  <2>1. S \in SUBSET Nat
    OBVIOUS
  <2>2. \A k \in S : k + 1 \in S
    <3> HIDE DEF Good
    <3> QED
      BY <1>2
  <2> HIDE DEF S
  <2> QED
    BY <1>1, <2>1, <2>2, InductionOnNat
<1>4. n \in S
  BY <1>3
<1> QED
  BY <1>4

\* The bits before it move up for each bit.
LEMMA DownwardValue ==
  ASSUME NEW bit \in [Nat -> {0, 1}], NEW n \in Nat, NEW v,
         v[0] = 0, \A k \in 1 .. n : v[k] = 2 * v[k - 1] + bit[k]
  PROVE  /\ v[n] \in 0 .. Dbc!TwoTo(n) - 1
         /\ \A i \in 0 .. n - 1 : (v[n] \div Dbc!TwoTo(i)) % 2 = bit[n - i]
<1> DEFINE Good(k) == /\ v[k] \in 0 .. Dbc!TwoTo(k) - 1
                      /\ \A i \in 0 .. k - 1 : (v[k] \div Dbc!TwoTo(i)) % 2 = bit[k - i]
           S == {k \in Nat : k <= n => Good(k)}
<1>1. 0 \in S
  BY PowersOfTwo
<1>2. ASSUME NEW k \in S, k + 1 <= n PROVE Good(k + 1)
  <2>1. k \in Nat /\ k + 1 \in 1 .. n /\ (k + 1) - 1 = k /\ k <= n
    BY <1>2
  <2>2. v[k + 1] = 2 * v[k] + bit[k + 1]
    BY <2>1
  <2>3. v[k] \in 0 .. Dbc!TwoTo(k) - 1 /\ bit[k + 1] \in {0, 1}
    BY <1>2, <2>1
  <2>4. /\ v[k + 1] \in 0 .. Dbc!TwoTo(k + 1) - 1
        /\ (v[k + 1] \div Dbc!TwoTo(0)) % 2 = bit[k + 1]
        /\ \A i \in Nat : v[k + 1] \div Dbc!TwoTo(i + 1) = v[k] \div Dbc!TwoTo(i)
    <3>1. PICK u \in 0 .. Dbc!TwoTo(k) - 1 : u = v[k]
      BY <2>3
    <3>2. PICK b \in {0, 1} : b = bit[k + 1]
      BY <2>3
    <3>3. /\ 2 * u + b \in 0 .. Dbc!TwoTo(k + 1) - 1
          /\ ((2 * u + b) \div Dbc!TwoTo(0)) % 2 = b
          /\ \A i \in Nat : (2 * u + b) \div Dbc!TwoTo(i + 1) = u \div Dbc!TwoTo(i)
      BY <2>1, LowBit
    <3> QED
      BY <2>2, <3>1, <3>2, <3>3
  <2>5. ASSUME NEW i \in 0 .. (k + 1) - 1
        PROVE  (v[k + 1] \div Dbc!TwoTo(i)) % 2 = bit[(k + 1) - i]
    <3>1. CASE i = 0
      <4>1. (k + 1) - i = k + 1
        BY <2>1, <3>1
      <4> QED
        BY <2>4, <3>1, <4>1
    <3>2. CASE i # 0
      <4>1. i - 1 \in 0 .. k - 1 /\ i - 1 \in Nat /\ (i - 1) + 1 = i /\ k - (i - 1) = (k + 1) - i
        BY <2>1, <3>2
      <4>2. v[k + 1] \div Dbc!TwoTo(i) = v[k] \div Dbc!TwoTo(i - 1)
        BY <2>4, <4>1
      <4>3. (v[k] \div Dbc!TwoTo(i - 1)) % 2 = bit[k - (i - 1)]
        BY <1>2, <2>1, <4>1
      <4> QED
        BY <4>1, <4>2, <4>3
    <3> QED
      BY <3>1, <3>2
  <2> QED
    BY <2>4, <2>5
<1>3. S = Nat
  <2>1. S \in SUBSET Nat
    OBVIOUS
  <2>2. \A k \in S : k + 1 \in S
    <3> HIDE DEF Good
    <3> QED
      BY <1>2
  <2> HIDE DEF S
  <2> QED
    BY <1>1, <2>1, <2>2, InductionOnNat
<1>4. n \in S
  BY <1>3
<1> QED
  BY <1>4

(***************************************************************************)
(* Extraction: bit i of the number is the bit that stands at place i.      *)
(***************************************************************************)
LEMMA LittleEndianIs ==
  ASSUME NEW payload, NEW start \in Nat, NEW n \in Nat
  PROVE  LET v == Dbc!ExtractLittleEndian(payload, start, n)
         IN  /\ v \in 0 .. Dbc!TwoTo(n) - 1
             /\ \A i \in 0 .. n - 1 : (v \div Dbc!TwoTo(i)) % 2 = Dbc!BitAt(payload, start + i)
<1> DEFINE bit == [k \in Nat |-> Dbc!BitAt(payload, start + k - 1)]
           Is(v) == v = [m \in 0 .. n |->
                           IF m = 0 THEN 0
                           ELSE v[m - 1] + Dbc!BitAt(payload, start + m - 1) * Dbc!TwoTo(m - 1)]
           step == [k \in Nat |-> [w \in Nat |-> IF k = 0 THEN w ELSE w + bit[k] * Dbc!TwoTo(k - 1)]]
<1>1. bit \in [Nat -> {0, 1}] /\ \A k \in Nat : bit[k] = Dbc!BitAt(payload, start + k - 1)
  BY BitIsBit
<1>2. step \in [Nat -> [Nat -> Nat]]
  <2> HIDE DEF bit
  <2>1. ASSUME NEW k \in Nat, NEW w \in Nat
        PROVE  (IF k = 0 THEN w ELSE w + bit[k] * Dbc!TwoTo(k - 1)) \in Nat
    <3>1. CASE k # 0
      <4>1. k - 1 \in Nat /\ bit[k] \in {0, 1}
        BY <1>1, <3>1
      <4>2. Dbc!TwoTo(k - 1) \in Nat
        BY <4>1, PowersOfTwo
      <4> QED
        BY <4>1, <4>2
    <3> QED
      BY <3>1
  <2> QED
    BY <2>1
<1>3. \A k, w \in Nat : k # 0 => step[k][w] = w + bit[k] * Dbc!TwoTo(k - 1)
  OBVIOUS
<1> HIDE DEF bit, step
<1>4. PICK g \in [0 .. n -> Nat] : GoesOn(g, 0, step, n)
  <2>1. 0 \in Nat
    OBVIOUS
  <2> QED
    BY <1>2, <2>1, Recursion
<1>5. Is(g)
  <2>1. ASSUME NEW m \in 0 .. n
        PROVE  g[m] = IF m = 0 THEN 0
                      ELSE g[m - 1] + Dbc!BitAt(payload, start + m - 1) * Dbc!TwoTo(m - 1)
    <3>1. CASE m # 0
      <4>1. m \in 1 .. n /\ m \in Nat /\ m - 1 \in 0 .. n
        BY <3>1
      <4>2. g[m - 1] \in Nat /\ g[m] = step[m][g[m - 1]]
        BY <1>4, <4>1 DEF GoesOn
      <4>3. g[m] = g[m - 1] + bit[m] * Dbc!TwoTo(m - 1)
        BY <1>3, <3>1, <4>1, <4>2
      <4> QED
        BY <1>1, <3>1, <4>1, <4>3
    <3>2. CASE m = 0
      BY <1>4, <3>2 DEF GoesOn
    <3> QED
      BY <3>1, <3>2
  <2>2. g = [m \in 0 .. n |-> g[m]]
    OBVIOUS
  <2> QED
    BY <2>1, <2>2
<1> DEFINE value == CHOOSE v : Is(v)
<1>6. Is(value)
  BY <1>5
<1>7. Dbc!ExtractLittleEndian(payload, start, n) = value[n]
  BY DEF Dbc!ExtractLittleEndian
<1> HIDE DEF value
<1>8. value[0] = 0 /\ \A k \in 1 .. n : value[k] = value[k - 1] + bit[k] * Dbc!TwoTo(k - 1)
  <2>1. 0 \in 0 .. n /\ \A k \in 1 .. n : k \in 0 .. n /\ k # 0 /\ k \in Nat
    OBVIOUS
  <2>2. \A m \in 0 .. n : value[m] =
          IF m = 0 THEN 0
          ELSE value[m - 1] + Dbc!BitAt(payload, start + m - 1) * Dbc!TwoTo(m - 1)
    BY <1>6
  <2> QED
    BY <1>1, <2>1, <2>2
<1>9. /\ value[n] \in 0 .. Dbc!TwoTo(n) - 1
      /\ \A i \in 0 .. n - 1 : (value[n] \div Dbc!TwoTo(i)) % 2 = bit[i + 1]
  BY <1>1, <1>8, UpwardValue
<1>10. \A i \in 0 .. n - 1 : bit[i + 1] = Dbc!BitAt(payload, start + i)
  <2> TAKE i \in 0 .. n - 1
  <2>1. i + 1 \in Nat /\ start + (i + 1) - 1 = start + i
    OBVIOUS
  <2> QED
    BY <1>1, <2>1
<1> QED
  BY <1>7, <1>9, <1>10

LEMMA BigEndianIs ==
  ASSUME NEW payload, NEW start \in Nat, NEW n \in Nat
  PROVE  LET v == Dbc!ExtractBigEndian(payload, start, n)
         IN  /\ v \in 0 .. Dbc!TwoTo(n) - 1
             /\ \A i \in 0 .. n - 1 :
                  (v \div Dbc!TwoTo(i)) % 2 = Dbc!BitAt(payload, Dbc!Walk(start, n - 1 - i))
<1> DEFINE bit == [k \in Nat |-> Dbc!BitAt(payload, Dbc!Walk(start, k - 1))]
           Is(v) == v = [m \in 0 .. n |->
                           IF m = 0 THEN 0
                           ELSE 2 * v[m - 1] + Dbc!BitAt(payload, Dbc!Walk(start, m - 1))]
           step == [k \in Nat |-> [w \in Nat |-> 2 * w + bit[k]]]
<1>1. bit \in [Nat -> {0, 1}] /\ \A k \in Nat : bit[k] = Dbc!BitAt(payload, Dbc!Walk(start, k - 1))
  BY BitIsBit
<1>2. step \in [Nat -> [Nat -> Nat]]
  <2> HIDE DEF bit
  <2> QED
    BY <1>1
<1>3. \A k, w \in Nat : step[k][w] = 2 * w + bit[k]
  OBVIOUS
<1> HIDE DEF bit, step
<1>4. PICK g \in [0 .. n -> Nat] : GoesOn(g, 0, step, n)
  <2>1. 0 \in Nat
    OBVIOUS
  <2> QED
    BY <1>2, <2>1, Recursion
<1>5. Is(g)
  <2>1. ASSUME NEW m \in 0 .. n
        PROVE  g[m] = IF m = 0 THEN 0
                      ELSE 2 * g[m - 1] + Dbc!BitAt(payload, Dbc!Walk(start, m - 1))
    <3>1. CASE m # 0
      <4>1. m \in 1 .. n /\ m \in Nat /\ m - 1 \in 0 .. n
        BY <3>1
      <4>2. g[m - 1] \in Nat /\ g[m] = step[m][g[m - 1]]
        BY <1>4, <4>1 DEF GoesOn
      <4> QED
        BY <1>1, <1>3, <3>1, <4>1, <4>2
    <3>2. CASE m = 0
      BY <1>4, <3>2 DEF GoesOn
    <3> QED
      BY <3>1, <3>2
  <2>2. g = [m \in 0 .. n |-> g[m]]
    OBVIOUS
  <2> QED
    BY <2>1, <2>2
<1> DEFINE value == CHOOSE v : Is(v)
<1>6. Is(value)
  BY <1>5
<1>7. Dbc!ExtractBigEndian(payload, start, n) = value[n]
  BY DEF Dbc!ExtractBigEndian
<1> HIDE DEF value
<1>8. value[0] = 0 /\ \A k \in 1 .. n : value[k] = 2 * value[k - 1] + bit[k]
  <2>1. 0 \in 0 .. n /\ \A k \in 1 .. n : k \in 0 .. n /\ k # 0 /\ k \in Nat
    OBVIOUS
  <2>2. \A m \in 0 .. n : value[m] =
          IF m = 0 THEN 0 ELSE 2 * value[m - 1] + Dbc!BitAt(payload, Dbc!Walk(start, m - 1))
    BY <1>6
  <2> QED
    BY <1>1, <2>1, <2>2
<1>9. /\ value[n] \in 0 .. Dbc!TwoTo(n) - 1
      /\ \A i \in 0 .. n - 1 : (value[n] \div Dbc!TwoTo(i)) % 2 = bit[n - i]
  BY <1>1, <1>8, DownwardValue
<1>10. \A i \in 0 .. n - 1 : bit[n - i] = Dbc!BitAt(payload, Dbc!Walk(start, n - 1 - i))
  <2> TAKE i \in 0 .. n - 1
  <2>1. n - i \in Nat /\ (n - i) - 1 = n - 1 - i
    OBVIOUS
  <2> QED
    BY <1>1, <2>1
<1> QED
  BY <1>7, <1>9, <1>10

-----------------------------------------------------------------------------
(* A signal in a payload.                                                   *)

\* The numbering from the top stays within the bytes.
LEMMA TopStaysInside ==
  ASSUME NEW x \in Nat, NEW bytes \in Nat
  PROVE  Dbc!FromTop(x) < bytes * 8 <=> x < bytes * 8
<1>1. PICK q \in Int, r \in Int : q = x \div 8 /\ r = x % 8
  OBVIOUS
<1>2. q \in Nat /\ r \in 0 .. 7 /\ x = 8 * q + r /\ Dbc!FromTop(x) = 8 * q + (7 - r)
  BY <1>1 DEF Dbc!FromTop
<1> QED
  BY <1>2

LEMMA SignalFields ==
  ASSUME NEW s \in Dbc!Signals
  PROVE  /\ s.start \in Nat /\ s.size \in 1 .. 64 /\ s.size \in Nat \ {0}
         /\ s.order \in {"little", "big"} /\ s.signed \in BOOLEAN
         /\ s # Dbc!None
<1>1. s # Dbc!None
  BY DEF Dbc!Signals, Dbc!None
<1> QED
  BY <1>1 DEF Dbc!Signals

LEMMA PlacesAre ==
  ASSUME NEW s \in Dbc!Signals, NEW i \in 0 .. s.size - 1
  PROVE  /\ s.order = "little" => Dbc!PlaceOf(s, i) = s.start + i
         /\ s.order = "big" =>
              /\ Dbc!PlaceOf(s, i) = Dbc!FromTop(Dbc!FromTop(s.start) + (s.size - 1 - i))
              /\ Dbc!PlaceOf(s, i) = Dbc!Walk(s.start, s.size - 1 - i)
<1>1. s.start \in Nat /\ s.size \in Nat \ {0} /\ i \in Nat /\ s.size - 1 - i \in Nat
  BY SignalFields
<1>2. Dbc!FromTop(s.start) \in Nat
  BY <1>1, TopNumbering
<1>3. Dbc!FromTop(s.start) + s.size - 1 - i = Dbc!FromTop(s.start) + (s.size - 1 - i)
  BY <1>1, <1>2
<1>4. Dbc!Walk(s.start, s.size - 1 - i) = Dbc!FromTop(Dbc!FromTop(s.start) + (s.size - 1 - i))
  BY <1>1, WalkIs
<1> QED
  BY <1>3, <1>4 DEF Dbc!PlaceOf

(***************************************************************************)
(* A signal fits if and only if all its bits are in the payload.           *)
(***************************************************************************)
LEMMA FitsIsHeld ==
  ASSUME NEW s \in Dbc!Signals, NEW payload, payload.len \in Nat
  PROVE  Dbc!Fits(s, payload) <=> Dbc!Held(s, payload)
<1> DEFINE bits == payload.len * 8
<1>1. s.start \in Nat /\ s.size \in Nat \ {0} /\ bits \in Nat /\ s.size - 1 \in 0 .. s.size - 1
      /\ 0 \in 0 .. s.size - 1
  BY SignalFields
<1>2. Dbc!Held(s, payload) <=> \A i \in 0 .. s.size - 1 : Dbc!PlaceOf(s, i) < bits
  BY DEF Dbc!Held, Dbc!Places
<1>3. Dbc!Fits(s, payload) <=> Dbc!MaxSignalBit(s) < bits
  BY DEF Dbc!Fits
<1>4. CASE s.order = "little"
  <2>1. Dbc!MaxSignalBit(s) = s.start + (s.size - 1)
    BY <1>1, <1>4 DEF Dbc!MaxSignalBit
  <2>2. \A i \in 0 .. s.size - 1 : Dbc!PlaceOf(s, i) = s.start + i
    BY <1>4, PlacesAre
  <2> HIDE DEF bits
  <2>3. (\A i \in 0 .. s.size - 1 : Dbc!PlaceOf(s, i) < bits) <=> s.start + (s.size - 1) < bits
    BY <1>1, <2>2
  <2> QED
    BY <1>2, <1>3, <2>1, <2>3
<1>5. CASE s.order = "big"
  <2> DEFINE top == Dbc!FromTop(s.start)
  <2>1. top \in Nat
    BY <1>1, TopNumbering
  <2> HIDE DEF top
  <2>2. Dbc!MaxSignalBit(s) = Dbc!FromTop(top + (s.size - 1))
    <3>1. Dbc!MaxSignalBit(s) = Dbc!Walk(s.start, s.size - 1)
      BY <1>1, <1>5 DEF Dbc!MaxSignalBit
    <3>2. s.size - 1 \in Nat
      BY <1>1
    <3> QED
      BY <1>1, <3>1, <3>2, WalkIs DEF top
  <2>3. \A i \in 0 .. s.size - 1 : Dbc!PlaceOf(s, i) = Dbc!FromTop(top + (s.size - 1 - i))
    BY <1>5, PlacesAre DEF top
  <2>4. \A j \in 0 .. s.size - 1 : Dbc!FromTop(top + j) < bits <=> top + j < bits
    <3> TAKE j \in 0 .. s.size - 1
    <3>1. top + j \in Nat
      BY <1>1, <2>1
    <3> QED
      BY <3>1, TopStaysInside
  <2> HIDE DEF bits
  <2>5. (\A i \in 0 .. s.size - 1 : Dbc!PlaceOf(s, i) < bits) <=> top + (s.size - 1) < bits
    <3>1. ASSUME \A i \in 0 .. s.size - 1 : Dbc!PlaceOf(s, i) < bits PROVE top + (s.size - 1) < bits
      <4>1. s.size - 1 - 0 = s.size - 1
        BY <1>1
      <4>2. Dbc!PlaceOf(s, 0) = Dbc!FromTop(top + (s.size - 1))
        BY <1>1, <2>3, <4>1
      <4> QED
        BY <1>1, <2>4, <3>1, <4>2
    <3>2. ASSUME top + (s.size - 1) < bits, NEW i \in 0 .. s.size - 1
          PROVE  Dbc!PlaceOf(s, i) < bits
      <4>1. s.size - 1 - i \in 0 .. s.size - 1 /\ top + (s.size - 1 - i) < bits
        BY <1>1, <2>1, <3>2
      <4> QED
        BY <2>3, <2>4, <4>1
    <3> QED
      BY <3>1, <3>2
  <2>6. Dbc!MaxSignalBit(s) < bits <=> top + (s.size - 1) < bits
    BY <1>1, <2>2, <2>4
  <2> QED
    BY <1>2, <1>3, <2>5, <2>6
<1> QED
  BY <1>4, <1>5, SignalFields

(***************************************************************************)
(* The raw value is the number in the places of the signal, and the sign   *)
(* makes it the same in two's complement.                                  *)
(***************************************************************************)
LEMMA RawIs ==
  ASSUME NEW s \in Dbc!Signals, NEW payload
  PROVE  Dbc!IsNumberIn(Dbc!ExtractRaw(payload, s), s, payload)
<1>1. s.start \in Nat /\ s.size \in Nat
  BY SignalFields
<1>2. CASE s.order = "little"
  <2>1. Dbc!ExtractRaw(payload, s) = Dbc!ExtractLittleEndian(payload, s.start, s.size)
    BY <1>2 DEF Dbc!ExtractRaw
  <2>2. \A i \in 0 .. s.size - 1 : Dbc!PlaceOf(s, i) = s.start + i
    BY <1>2, PlacesAre
  <2> QED
    BY <1>1, <2>1, <2>2, LittleEndianIs DEF Dbc!IsNumberIn
<1>3. CASE s.order = "big"
  <2>1. Dbc!ExtractRaw(payload, s) = Dbc!ExtractBigEndian(payload, s.start, s.size)
    BY <1>3 DEF Dbc!ExtractRaw
  <2>2. \A i \in 0 .. s.size - 1 : Dbc!PlaceOf(s, i) = Dbc!Walk(s.start, s.size - 1 - i)
    BY <1>3, PlacesAre
  <2> QED
    BY <1>1, <2>1, <2>2, BigEndianIs DEF Dbc!IsNumberIn
<1> QED
  BY <1>2, <1>3, SignalFields

LEMMA SignedIs ==
  ASSUME NEW s \in Dbc!Signals, NEW payload, NEW raw, Dbc!IsNumberIn(raw, s, payload)
  PROVE  Dbc!IsSignedIn(Dbc!SignExtend(raw, s.size), s, payload)
<1>1. PICK m \in Nat : s.size = m + 1
  <2>1. s.size \in Nat \ {0}
    BY SignalFields
  <2>2. s.size - 1 \in Nat /\ s.size = (s.size - 1) + 1
    BY <2>1
  <2> QED
    BY <2>2
<1>2. PICK half \in Nat \ {0} : half = Dbc!TwoTo(m) /\ Dbc!TwoTo(s.size) = 2 * half
  BY <1>1, PowersOfTwo
<1>3. s.size - 1 = m
  BY <1>1
<1>4. raw \in 0 .. 2 * half - 1
  BY <1>2 DEF Dbc!IsNumberIn
<1>5. Dbc!SignExtend(raw, s.size) = IF raw >= half THEN raw - 2 * half ELSE raw
  BY <1>2, <1>3 DEF Dbc!SignExtend
<1> DEFINE v == Dbc!SignExtend(raw, s.size)
<1>6. v \in Int /\ 2 * v \in -(2 * half) .. 2 * half - 1 /\ (IF v < 0 THEN v + 2 * half ELSE v) = raw
  <2>1. CASE raw >= half
    BY <1>4, <1>5, <2>1
  <2>2. CASE ~(raw >= half)
    BY <1>4, <1>5, <2>2
  <2> QED
    BY <2>1, <2>2
<1> HIDE DEF v
<1>7. Dbc!IsSignedIn(v, s, payload)
  BY <1>2, <1>6 DEF Dbc!IsSignedIn
<1> QED
  BY <1>7 DEF v

-----------------------------------------------------------------------------
(* Which message a frame is decoded with.                                   *)

LEMMA DatabasesTyped == UNION Collections \subseteq Dbc!Databases
BY PartsAssumption DEF Dbc!Assumptions

LEMMA FramesTyped ==
  Frames \subseteq [id : Dbc!Identifiers, payload : [len : Nat, ones : SUBSET Nat]]
BY PartsAssumption DEF Dbc!Assumptions

LEMMA Least ==
  ASSUME NEW S \in SUBSET Nat, S # {}
  PROVE  /\ Dbc!Min(S) \in S
         /\ \A n \in S : Dbc!Min(S) <= n
<1>1. PICK m \in S : \A n \in S : <<n, m>> \notin OpToRel(<, Nat)
  <2>1. S \subseteq Nat
    OBVIOUS
  <2> QED
    BY <2>1, WFMin, NatLessThanWellFounded, Zenon
<1>2. m \in Nat /\ \A n \in S : n \in Nat /\ ~(n < m)
  BY <1>1, Zenon DEF OpToRel
<1>3. \A n \in S : m <= n
  BY <1>2
<1> QED
  BY <1>3 DEF Dbc!Min

\* A finite set with no more than one element.
LEMMA AtMostOne ==
  ASSUME NEW S, IsFiniteSet(S), S # {}, ~(Cardinality(S) > 1)
  PROVE  \E x : S = {x}
<1>1. Cardinality(S) \in Nat /\ Cardinality(S) # 0
  BY FS_CardinalityType, FS_EmptySet
<1>2. Cardinality(S) = 1
  BY <1>1
<1> QED
  BY <1>2, FS_Singleton

LEMMA CardinalityOne ==
  ASSUME NEW x
  PROVE  Cardinality({x}) = 1
BY FS_Singleton

\* The database at place i has a message for the frame.
Knows(dbs, f, i) == \E j \in 1 .. Len(dbs[i].messages) : dbs[i].messages[j].id = f.id

LEMMA DatabaseFields ==
  ASSUME NEW db \in Dbc!Databases
  PROVE  /\ db.messages \in Seq(Dbc!Messages)
         /\ Len(db.messages) \in Nat /\ DOMAIN db.messages = 1 .. Len(db.messages)
         /\ \A j \in 1 .. Len(db.messages) :
              db.messages[j].signals \in Seq(Dbc!Signals) /\ db.messages[j] \in Dbc!Messages
<1>1. db.messages \in Seq(Dbc!Messages)
  BY DEF Dbc!Databases
<1>2. /\ Len(db.messages) \in Nat /\ DOMAIN db.messages = 1 .. Len(db.messages)
      /\ \A j \in 1 .. Len(db.messages) : db.messages[j] \in Dbc!Messages
  BY <1>1, LenProperties, ElementOfSeq
<1>3. \A m \in Dbc!Messages : m.signals \in Seq(Dbc!Signals)
  BY DEF Dbc!Messages
<1> QED
  BY <1>1, <1>2, <1>3

LEMMA FrameId ==
  ASSUME NEW f \in Frames
  PROVE  Dbc!FrameMessageId(f.id) = f.id
<1>1. f.id \in Dbc!Identifiers
  BY FramesTyped
<1> QED
  BY <1>1 DEF Dbc!Identifiers, Dbc!FrameMessageId

LEMMA CandidatesAre ==
  ASSUME NEW db \in Dbc!Databases, NEW f \in Frames
  PROVE  Dbc!Candidates(db, f) = {j \in 1 .. Len(db.messages) : db.messages[j].id = f.id}
BY DatabaseFields, FrameId DEF Dbc!Candidates

LEMMA MatchesAre ==
  ASSUME NEW dbs \in Seq(Dbc!Databases), NEW f \in Frames
  PROVE  /\ Dbc!Matches(dbs, f) = {i \in 1 .. Len(dbs) : Knows(dbs, f, i)}
         /\ IsFiniteSet(Dbc!Matches(dbs, f)) /\ Dbc!Matches(dbs, f) \in SUBSET Nat
<1>1. Len(dbs) \in Nat /\ DOMAIN dbs = 1 .. Len(dbs) /\ \A i \in 1 .. Len(dbs) : dbs[i] \in Dbc!Databases
  BY LenProperties, ElementOfSeq
<1>2. \A i \in 1 .. Len(dbs) : Dbc!Candidates(dbs[i], f) # {} <=> Knows(dbs, f, i)
  BY <1>1, CandidatesAre DEF Knows
<1>3. Dbc!Matches(dbs, f) = {i \in 1 .. Len(dbs) : Knows(dbs, f, i)}
  BY <1>1, <1>2 DEF Dbc!Matches
<1>4. IsFiniteSet(1 .. Len(dbs))
  BY <1>1, FS_Interval
<1> QED
  BY <1>1, <1>3, <1>4, FS_Subset

(***************************************************************************)
(* decode_frame finds a message if exactly one database knows the frame.   *)
(***************************************************************************)
LEMMA DecodeCases ==
  ASSUME NEW dbs \in Seq(Dbc!Databases), NEW f \in Frames
  PROVE  /\ (\A i \in 1 .. Len(dbs) : ~Knows(dbs, f, i)) =>
              /\ Dbc!Matches(dbs, f) = {}
              /\ Dbc!Decode(dbs, f).message = Dbc!None
         /\ \A i, j \in 1 .. Len(dbs) :
              i # j /\ Knows(dbs, f, i) /\ Knows(dbs, f, j) =>
                /\ Cardinality(Dbc!Matches(dbs, f)) > 1
                /\ Dbc!Decode(dbs, f).message = Dbc!None
         /\ \A i \in 1 .. Len(dbs) :
              Knows(dbs, f, i) /\ (\A j \in 1 .. Len(dbs) : Knows(dbs, f, j) => j = i) =>
                /\ Dbc!Matches(dbs, f) = {i}
                /\ Dbc!Decode(dbs, f) = Dbc!Decoded(dbs[i], f)
<1> DEFINE matches == Dbc!Matches(dbs, f)
<1>1. /\ matches = {i \in 1 .. Len(dbs) : Knows(dbs, f, i)}
      /\ IsFiniteSet(matches) /\ matches \in SUBSET Nat
  BY MatchesAre
<1>2. Dbc!Cardinality(matches) = Cardinality(matches)
  BY DEF Dbc!Cardinality, Cardinality
<1> HIDE DEF matches
<1>3. Dbc!Decode(dbs, f) =
        IF matches = {} THEN Dbc!NoMessage(Dbc!NoMatch(f))
        ELSE IF Cardinality(matches) > 1
        THEN Dbc!NoMessage(Dbc!AmbiguousMessage(f, [i \in matches |-> dbs[i].name]))
        ELSE Dbc!Decoded(dbs[Dbc!Min(matches)], f)
  BY <1>2 DEF Dbc!Decode, matches
<1>4. \A d : Dbc!NoMessage(d).message = Dbc!None
  BY DEF Dbc!NoMessage
<1>5. ASSUME \A i \in 1 .. Len(dbs) : ~Knows(dbs, f, i)
      PROVE  matches = {} /\ Dbc!Decode(dbs, f).message = Dbc!None
  BY <1>1, <1>3, <1>4, <1>5
<1>6. ASSUME NEW i \in 1 .. Len(dbs), NEW j \in 1 .. Len(dbs), i # j, Knows(dbs, f, i), Knows(dbs, f, j)
      PROVE  Cardinality(matches) > 1 /\ Dbc!Decode(dbs, f).message = Dbc!None
  <2>1. i \in matches /\ j \in matches
    BY <1>1, <1>6
  <2>2. Cardinality(matches) > 1
    BY <1>1, <1>6, <2>1, AtMostOne
  <2> QED
    BY <1>3, <1>4, <2>1, <2>2
<1>7. ASSUME NEW i \in 1 .. Len(dbs), Knows(dbs, f, i), \A j \in 1 .. Len(dbs) : Knows(dbs, f, j) => j = i
      PROVE  matches = {i} /\ Dbc!Decode(dbs, f) = Dbc!Decoded(dbs[i], f)
  <2>1. matches = {i}
    BY <1>1, <1>7
  <2>2. Cardinality(matches) = 1
    BY <2>1, CardinalityOne
  <2>3. Dbc!Min(matches) = i
    BY <1>1, <2>1, Least
  <2> QED
    BY <1>3, <2>1, <2>2, <2>3
<1> QED
  BY <1>5, <1>6, <1>7 DEF matches

-----------------------------------------------------------------------------
(***************************************************************************)
(* The inductive invariant: what is shown of a frame is what decode_frame  *)
(* makes of it with the databases that are loaded.                         *)
(***************************************************************************)
DbcInv ==
  /\ files \subseteq Dbc!Databases
  /\ databases \in Seq(Dbc!Databases)
  /\ frame # Dbc!NoFrame => frame \in Frames /\ outcome = Dbc!Decode(databases, frame)

LEMMA DbcInductive == Dbc!Init /\ [][Dbc!Next]_Dbc!vars => []DbcInv
<1>1. Dbc!Init => DbcInv
  BY DatabasesTyped, EmptySeq DEF Dbc!Init, DbcInv
<1>2. DbcInv /\ [Dbc!Next]_Dbc!vars => DbcInv'
  <2> SUFFICES ASSUME DbcInv, [Dbc!Next]_Dbc!vars PROVE DbcInv'
    OBVIOUS
  <2> USE DEF DbcInv
  <2>1. ASSUME NEW db \in files, Dbc!PushNamed(db) PROVE DbcInv'
    <3>1. Append(databases, db) \in Seq(Dbc!Databases)
      BY AppendProperties
    <3> QED
      BY <2>1, <3>1 DEF Dbc!PushNamed
  <2>2. ASSUME NEW f \in Frames, Dbc!DecodeFrame(f) PROVE DbcInv'
    BY <2>2 DEF Dbc!DecodeFrame
  <2>3. CASE UNCHANGED Dbc!vars
    BY <2>3 DEF Dbc!vars
  <2> QED
    BY <2>1, <2>2, <2>3 DEF Dbc!Next
<1> QED
  BY <1>1, <1>2, PTL

\* Databases the frame is known to, as the properties say it.
LEMMA KnowingAre ==
  ASSUME DbcInv, frame # Dbc!NoFrame
  PROVE  /\ Dbc!Knowing = {i \in 1 .. Len(databases) : Knows(databases, frame, i)}
         /\ Dbc!Knowing = Dbc!Matches(databases, frame)
         /\ IsFiniteSet(Dbc!Knowing)
<1>1. databases \in Seq(Dbc!Databases) /\ frame \in Frames
  BY DEF DbcInv
<1>2. /\ DOMAIN databases = 1 .. Len(databases)
      /\ \A i \in 1 .. Len(databases) : databases[i] \in Dbc!Databases
  BY <1>1, LenProperties, ElementOfSeq
<1>3. \A i \in 1 .. Len(databases) :
        Knows(databases, frame, i) <=> \E m \in Dbc!Range(databases[i].messages) : m.id = frame.id
  BY <1>2, DatabaseFields DEF Knows, Dbc!Range
<1>4. Dbc!Knowing = {i \in 1 .. Len(databases) : Knows(databases, frame, i)}
  BY <1>2, <1>3 DEF Dbc!Knowing
<1> QED
  BY <1>1, <1>4, MatchesAre

LEMMA DecodedIsMessage ==
  ASSUME NEW db, NEW f
  PROVE  Dbc!Decoded(db, f).message # Dbc!None /\ Dbc!Decoded(db, f).message.database = db.name
BY DEF Dbc!Decoded, Dbc!None

\* Exactly one database knows the frame, several do, or none.
LEMMA Known ==
  ASSUME DbcInv, frame # Dbc!NoFrame
  PROVE  \/ /\ Dbc!Knowing = {} /\ outcome.message = Dbc!None
            /\ \A i \in 1 .. Len(databases) : ~Knows(databases, frame, i)
         \/ /\ Cardinality(Dbc!Knowing) > 1 /\ outcome.message = Dbc!None
            /\ \E i, j \in 1 .. Len(databases) :
                 i # j /\ Knows(databases, frame, i) /\ Knows(databases, frame, j)
         \/ \E i \in 1 .. Len(databases) :
              /\ Dbc!Knowing = {i} /\ outcome = Dbc!Decoded(databases[i], frame)
              /\ Knows(databases, frame, i)
              /\ \A j \in 1 .. Len(databases) : Knows(databases, frame, j) => j = i
<1>1. databases \in Seq(Dbc!Databases) /\ frame \in Frames /\ outcome = Dbc!Decode(databases, frame)
  BY DEF DbcInv
<1> DEFINE K(i) == Knows(databases, frame, i)
<1> HIDE DEF K
<1>2. \/ \A i \in 1 .. Len(databases) : ~K(i)
      \/ \E i, j \in 1 .. Len(databases) : i # j /\ K(i) /\ K(j)
      \/ \E i \in 1 .. Len(databases) : K(i) /\ \A j \in 1 .. Len(databases) : K(j) => j = i
  OBVIOUS
<1>3. CASE \A i \in 1 .. Len(databases) : ~K(i)
  BY <1>1, <1>3, DecodeCases, KnowingAre DEF K
<1>4. CASE \E i, j \in 1 .. Len(databases) : i # j /\ K(i) /\ K(j)
  BY <1>1, <1>4, DecodeCases, KnowingAre DEF K
<1>5. CASE \E i \in 1 .. Len(databases) : K(i) /\ \A j \in 1 .. Len(databases) : K(j) => j = i
  <2>1. PICK i \in 1 .. Len(databases) : K(i) /\ \A j \in 1 .. Len(databases) : K(j) => j = i
    BY <1>5
  <2>2. Dbc!Matches(databases, frame) = {i} /\ Dbc!Decode(databases, frame) = Dbc!Decoded(databases[i], frame)
    BY <1>1, <2>1, DecodeCases DEF K
  <2> QED
    BY <1>1, <2>1, <2>2, KnowingAre DEF K
<1> QED
  BY <1>2, <1>3, <1>4, <1>5


-----------------------------------------------------------------------------
(* The message a frame was decoded with.                                    *)

\* m is the message with the frame's identifier that comes first.
FirstIn(m, messages) ==
  \E j \in 1 .. Len(messages) :
    /\ m = messages[j] /\ m.id = frame.id
    /\ \A k \in 1 .. j - 1 : messages[k].id # frame.id

LEMMA FoundIsFirst ==
  ASSUME DbcInv, frame # Dbc!NoFrame, NEW i \in 1 .. Len(databases), Knows(databases, frame, i)
  PROVE  /\ Dbc!Found(databases[i], frame) \in Dbc!Messages
         /\ \A m : FirstIn(m, databases[i].messages) <=> m = Dbc!Found(databases[i], frame)
<1> DEFINE messages == databases[i].messages
           first == Dbc!Min(Dbc!Candidates(databases[i], frame))
<1>1. databases[i] \in Dbc!Databases /\ frame \in Frames
  BY LenProperties, ElementOfSeq DEF DbcInv
<1>2. Len(messages) \in Nat /\ \A j \in 1 .. Len(messages) : messages[j] \in Dbc!Messages
  BY <1>1, DatabaseFields
<1>3. Dbc!Candidates(databases[i], frame) = {j \in 1 .. Len(messages) : messages[j].id = frame.id}
  BY <1>1, CandidatesAre
<1>4. Dbc!Found(databases[i], frame) = messages[first]
  BY DEF Dbc!Found
<1>5. \E j \in 1 .. Len(messages) : messages[j].id = frame.id
  BY DEF Knows
<1>6. /\ first \in 1 .. Len(messages) /\ messages[first].id = frame.id
      /\ \A j \in 1 .. Len(messages) : messages[j].id = frame.id => first <= j
  <2> DEFINE S == {j \in 1 .. Len(messages) : messages[j].id = frame.id}
  <2>1. S \in SUBSET Nat /\ S # {}
    BY <1>2, <1>5
  <2>2. first = Dbc!Min(S)
    BY <1>3
  <2>3. Dbc!Min(S) \in S /\ \A j \in S : Dbc!Min(S) <= j
    BY <2>1, Least
  <2> QED
    BY <2>2, <2>3
<1> HIDE DEF first, messages
<1>7. \A k \in 1 .. first - 1 : messages[k].id # frame.id
  BY <1>2, <1>6
<1>8. ASSUME NEW j \in 1 .. Len(messages), messages[j].id = frame.id,
             \A k \in 1 .. j - 1 : messages[k].id # frame.id
      PROVE  j = first
  <2>1. first <= j
    BY <1>6, <1>8
  <2>2. ~(first < j)
    BY <1>2, <1>6, <1>8
  <2> QED
    BY <1>2, <1>6, <2>1, <2>2
<1>9. \A m : FirstIn(m, messages) <=> m = messages[first]
  BY <1>6, <1>7, <1>8 DEF FirstIn
<1> QED
  BY <1>2, <1>4, <1>6, <1>9 DEF messages

LEMMA SourceIs ==
  ASSUME DbcInv, Dbc!IsMessage
  PROVE  \E i \in 1 .. Len(databases) :
           /\ outcome = Dbc!Decoded(databases[i], frame)
           /\ Dbc!Source = Dbc!Found(databases[i], frame) /\ Dbc!Source \in Dbc!Messages
<1>1. frame # Dbc!NoFrame /\ outcome.message # Dbc!None
  BY DEF Dbc!IsMessage
<1>2. PICK i \in 1 .. Len(databases) :
        /\ Dbc!Knowing = {i} /\ outcome = Dbc!Decoded(databases[i], frame)
        /\ Knows(databases, frame, i)
  BY <1>1, Known
<1> DEFINE found == Dbc!Found(databases[i], frame)
           messages == databases[i].messages
<1>3. found \in Dbc!Messages /\ \A m : FirstIn(m, messages) <=> m = found
  BY <1>1, <1>2, FoundIsFirst
<1>4. databases[i] \in Dbc!Databases
  BY LenProperties, ElementOfSeq DEF DbcInv
<1>5. DOMAIN messages = 1 .. Len(messages)
  BY <1>4, DatabaseFields
<1>6. \A m : Dbc!IsSource(m) <=> FirstIn(m, messages)
  BY <1>2, <1>5 DEF Dbc!IsSource, FirstIn
<1>7. UNION {Dbc!Range(databases[k].messages) : k \in Dbc!Knowing} = Dbc!Range(messages)
  BY <1>2
<1> HIDE DEF found, messages
<1>8. found \in Dbc!Range(messages)
  <2>1. FirstIn(found, messages)
    BY <1>3
  <2> QED
    BY <1>5, <2>1 DEF FirstIn, Dbc!Range
<1>9. Dbc!Source = CHOOSE m \in Dbc!Range(messages) : Dbc!IsSource(m)
  BY <1>7 DEF Dbc!Source
<1>10. Dbc!Source = found
  BY <1>3, <1>6, <1>8, <1>9
<1> QED
  BY <1>2, <1>3, <1>10 DEF found

\* What is in an outcome, of the message it was made from.
LEMMA OutcomeIs ==
  ASSUME DbcInv, Dbc!IsMessage
  PROVE  LET m == Dbc!Source
             mux == Dbc!MuxValue(m, frame.payload)
             active == {i \in 1 .. Len(m.signals) : Dbc!SignalActive(m.signals[i], mux)}
             fitting == {i \in active : Dbc!Held(m.signals[i], frame.payload)}
         IN  /\ frame.payload.len \in Nat
             /\ m.switch \in Dbc!Signals \cup {Dbc!None}
             /\ DOMAIN m.signals = 1 .. Len(m.signals)
             /\ \A i \in 1 .. Len(m.signals) : m.signals[i] \in Dbc!Signals
             /\ DOMAIN outcome.message.signals = fitting
             /\ DOMAIN outcome.diagnostics = active \ fitting
             /\ \A i \in fitting :
                  outcome.message.signals[i] = Dbc!ExtractSignal(frame.payload, m.signals[i])
<1> DEFINE m == Dbc!Source
           mux == Dbc!MuxValue(m, frame.payload)
           active == {i \in 1 .. Len(m.signals) : Dbc!SignalActive(m.signals[i], mux)}
           fitting == {i \in active : Dbc!Held(m.signals[i], frame.payload)}
<1>1. PICK d \in 1 .. Len(databases) :
        /\ outcome = Dbc!Decoded(databases[d], frame)
        /\ m = Dbc!Found(databases[d], frame) /\ m \in Dbc!Messages
  BY SourceIs
<1>2. frame \in Frames
  BY DEF DbcInv, Dbc!IsMessage
<1>3. frame.payload.len \in Nat
  BY <1>2, FramesTyped
<1>4. m.signals \in Seq(Dbc!Signals) /\ m.switch \in Dbc!Signals \cup {Dbc!None}
  BY <1>1 DEF Dbc!Messages
<1>5. DOMAIN m.signals = 1 .. Len(m.signals) /\ \A i \in 1 .. Len(m.signals) : m.signals[i] \in Dbc!Signals
  BY <1>4, LenProperties, ElementOfSeq
<1> HIDE DEF m
<1>6. fitting = {i \in active : Dbc!Fits(m.signals[i], frame.payload)}
  BY <1>3, <1>5, FitsIsHeld
<1> HIDE DEF mux
<1>7. outcome =
        [message |-> [database |-> databases[d].name,
                      signals |-> [i \in fitting |-> Dbc!ExtractSignal(frame.payload, m.signals[i])]],
         diagnostics |-> [i \in active \ fitting |-> Dbc!PayloadTooShort(m.signals[i], frame.payload)]]
  BY <1>1, <1>5, <1>6 DEF Dbc!Decoded, mux
<1> HIDE DEF fitting, active
<1>8. /\ DOMAIN outcome.message.signals = fitting /\ DOMAIN outcome.diagnostics = active \ fitting
      /\ \A i \in fitting : outcome.message.signals[i] = Dbc!ExtractSignal(frame.payload, m.signals[i])
  BY <1>7
<1> QED
  BY <1>3, <1>4, <1>5, <1>8 DEF fitting, active, mux, m

-----------------------------------------------------------------------------
(* What the invariant says of a decoded frame.                              *)

LEMMA ReferenceValuesHold == DbcInv => ReferenceValues
<1> SUFFICES ASSUME DbcInv, Dbc!IsMessage, NEW i \in DOMAIN outcome.message.signals
             PROVE  LET s == Dbc!Source.signals[i]
                        v == outcome.message.signals[i]
                    IN  /\ v.name = s.name
                        /\ IF s.signed \/ s.size = 64
                           THEN Dbc!IsSignedIn(v.raw, s, frame.payload)
                           ELSE Dbc!IsNumberIn(v.raw, s, frame.payload)
  BY DEF ReferenceValues, Dbc!ReferenceValues
<1> DEFINE s == Dbc!Source.signals[i]
           raw == Dbc!ExtractRaw(frame.payload, s)
<1>1. s \in Dbc!Signals /\ outcome.message.signals[i] = Dbc!ExtractSignal(frame.payload, s)
  BY OutcomeIs
<1>2. Dbc!IsNumberIn(raw, s, frame.payload)
  BY <1>1, RawIs
<1>3. Dbc!IsSignedIn(Dbc!SignExtend(raw, s.size), s, frame.payload)
  BY <1>1, <1>2, SignedIs
<1> HIDE DEF raw, s
<1>4. /\ outcome.message.signals[i].name = s.name
      /\ outcome.message.signals[i].raw = IF Dbc!ReadSigned(s) THEN Dbc!SignExtend(raw, s.size) ELSE raw
  BY <1>1 DEF Dbc!ExtractSignal, raw
<1> QED
  BY <1>2, <1>3, <1>4 DEF Dbc!ReadSigned, s

LEMMA CutExactlyHolds == DbcInv => CutExactly
<1> SUFFICES ASSUME DbcInv, Dbc!IsMessage PROVE CutExactly
  BY DEF CutExactly, Dbc!CutExactly
<1> DEFINE m == Dbc!Source
           mux == Dbc!MuxValue(m, frame.payload)
<1>1. /\ DOMAIN m.signals = 1 .. Len(m.signals)
      /\ \A i \in DOMAIN m.signals :
           /\ i \in DOMAIN outcome.message.signals <=>
                Dbc!SignalActive(m.signals[i], mux) /\ Dbc!Held(m.signals[i], frame.payload)
           /\ i \in DOMAIN outcome.diagnostics <=>
                Dbc!SignalActive(m.signals[i], mux) /\ ~Dbc!Held(m.signals[i], frame.payload)
      /\ DOMAIN outcome.message.signals \subseteq DOMAIN m.signals
      /\ DOMAIN outcome.diagnostics \subseteq DOMAIN m.signals
  BY OutcomeIs
<1>2. \A i \in DOMAIN m.signals :
        m.signals[i].mode.type \in {"plain", "multiplexor"} => Dbc!SignalActive(m.signals[i], mux)
  BY DEF Dbc!SignalActive
<1> HIDE DEF m, mux
<1> QED
  BY <1>1, <1>2 DEF CutExactly, Dbc!CutExactly, m

LEMMA ModesMatchHold == DbcInv => ModesMatch
<1> DEFINE m == Dbc!Source
           switch == m.switch
           mux == Dbc!MuxValue(m, frame.payload)
           known == switch # Dbc!None /\ Dbc!Held(switch, frame.payload)
<1> SUFFICES ASSUME DbcInv, Dbc!IsMessage, NEW i \in DOMAIN outcome.message.signals,
                    LET mode == m.signals[i].mode
                    IN  mode.type = "multiplexed" \/ (mode.type = "nested" /\ known)
             PROVE  known /\ Dbc!IsNumberIn(m.signals[i].mode.value, switch, frame.payload)
  BY DEF ModesMatch, Dbc!ModesMatch
<1> DEFINE mode == m.signals[i].mode
<1>1. /\ frame.payload.len \in Nat /\ switch \in Dbc!Signals \cup {Dbc!None}
      /\ m.signals[i] \in Dbc!Signals /\ Dbc!SignalActive(m.signals[i], mux)
  BY OutcomeIs
<1>2. mode.type \in {"multiplexed", "nested"} /\ mode.value \in Nat
  <2>1. mode \in Dbc!Modes
    BY <1>1 DEF Dbc!Signals
  <2> QED
    BY <2>1 DEF Dbc!Modes
<1>3. \/ mode.type = "multiplexed" /\ mux = mode.value
      \/ mode.type = "nested" /\ mux \in {Dbc!NoValue, mode.value}
  BY <1>1, <1>2 DEF Dbc!SignalActive
<1>4. CASE known
  <2>1. mux = Dbc!ExtractRaw(frame.payload, switch) /\ switch \in Dbc!Signals
    BY <1>1, <1>4, FitsIsHeld DEF Dbc!MuxValue
  <2>2. Dbc!IsNumberIn(mux, switch, frame.payload)
    BY <2>1, RawIs
  <2>3. mux # Dbc!NoValue
    <3>1. Dbc!TwoTo(switch.size) \in Int
      BY <2>1, SignalFields, PowersOfTwo
    <3> HIDE DEF mux, switch
    <3>2. mux \in 0 .. Dbc!TwoTo(switch.size) - 1
      BY <2>2 DEF Dbc!IsNumberIn
    <3> QED
      BY <3>1, <3>2 DEF Dbc!NoValue
  <2> QED
    BY <1>3, <1>4, <2>2, <2>3
<1>5. CASE ~known
  <2>1. mux = Dbc!NoValue
    BY <1>1, <1>5, FitsIsHeld DEF Dbc!MuxValue
  <2>2. mode.value # Dbc!NoValue
    BY <1>2 DEF Dbc!NoValue
  <2> QED
    BY <1>3, <1>5, <2>1, <2>2
<1> QED
  BY <1>4, <1>5

\* Loaded in the opposite order, the same databases know the frame.
LEMMA Reversed ==
  ASSUME NEW dbs \in Seq(Dbc!Databases)
  PROVE  /\ Dbc!Reverse(dbs) \in Seq(Dbc!Databases) /\ Len(Dbc!Reverse(dbs)) = Len(dbs)
         /\ \A i \in 1 .. Len(dbs) :
              Len(dbs) - i + 1 \in 1 .. Len(dbs) /\ Dbc!Reverse(dbs)[i] = dbs[Len(dbs) - i + 1]
<1>1. Len(dbs) \in Nat /\ \A i \in 1 .. Len(dbs) : dbs[i] \in Dbc!Databases
  BY LenProperties, ElementOfSeq
<1>2. \A i \in 1 .. Len(dbs) : Len(dbs) - i + 1 \in 1 .. Len(dbs)
  BY <1>1
<1>3. Dbc!Reverse(dbs) = [i \in 1 .. Len(dbs) |-> dbs[Len(dbs) - i + 1]]
  BY DEF Dbc!Reverse
<1>4. Dbc!Reverse(dbs) \in [1 .. Len(dbs) -> Dbc!Databases]
  BY <1>1, <1>2, <1>3
<1>5. Dbc!Reverse(dbs) \in Seq(Dbc!Databases)
  BY <1>1, <1>4, SeqDef
<1>6. Len(Dbc!Reverse(dbs)) = Len(dbs)
  BY <1>1, <1>3, <1>5
<1> QED
  BY <1>2, <1>3, <1>5, <1>6

LEMMA OrderDoesNotMatter ==
  ASSUME NEW dbs \in Seq(Dbc!Databases), NEW f \in Frames
  PROVE  Dbc!Decode(Dbc!Reverse(dbs), f).message = Dbc!Decode(dbs, f).message
<1> DEFINE n == Len(dbs)
           opposite == Dbc!Reverse(dbs)
           K(i) == Knows(dbs, f, i)
           R(i) == Knows(opposite, f, i)
<1>1. /\ n \in Nat /\ opposite \in Seq(Dbc!Databases) /\ Len(opposite) = n
      /\ \A i \in 1 .. n : n - i + 1 \in 1 .. n /\ opposite[i] = dbs[n - i + 1]
  BY Reversed, LenProperties
<1>2. \A i \in 1 .. n : R(i) <=> K(n - i + 1)
  BY <1>1 DEF Knows
<1>3. \A i \in 1 .. n : K(i) <=> R(n - i + 1)
  BY <1>1, <1>2
<1> HIDE DEF K, R, opposite, n
<1>4. CASE \A i \in 1 .. n : ~K(i)
  <2>1. \A i \in 1 .. n : ~R(i)
    BY <1>1, <1>2, <1>4
  <2> QED
    BY <1>1, <1>4, <2>1, DecodeCases DEF K, R, opposite, n
<1>5. CASE \E i, j \in 1 .. n : i # j /\ K(i) /\ K(j)
  <2>1. PICK i \in 1 .. n, j \in 1 .. n : i # j /\ K(i) /\ K(j)
    BY <1>5
  <2>2. /\ n - i + 1 \in 1 .. n /\ n - j + 1 \in 1 .. n /\ n - i + 1 # n - j + 1
        /\ R(n - i + 1) /\ R(n - j + 1)
    BY <1>1, <1>3, <2>1
  <2>3. Dbc!Decode(opposite, f).message = Dbc!None
    BY <1>1, <2>2, DecodeCases DEF R
  <2>4. Dbc!Decode(dbs, f).message = Dbc!None
    BY <2>1, DecodeCases DEF K, n
  <2> QED
    BY <2>3, <2>4 DEF opposite
<1>6. CASE \E i \in 1 .. n : K(i) /\ \A j \in 1 .. n : K(j) => j = i
  <2>1. PICK i \in 1 .. n : K(i) /\ \A j \in 1 .. n : K(j) => j = i
    BY <1>6
  <2>2. n - i + 1 \in 1 .. n /\ R(n - i + 1)
    BY <1>1, <1>3, <2>1
  <2>3. \A j \in 1 .. n : R(j) => j = n - i + 1
    BY <1>1, <1>2, <2>1
  <2>4. opposite[n - i + 1] = dbs[i]
    BY <1>1, <2>1, <2>2
  <2>5. Dbc!Decode(opposite, f) = Dbc!Decoded(dbs[i], f)
    BY <1>1, <2>2, <2>3, <2>4, DecodeCases DEF R
  <2>6. Dbc!Decode(dbs, f) = Dbc!Decoded(dbs[i], f)
    BY <2>1, DecodeCases DEF K, n
  <2> QED
    BY <2>5, <2>6 DEF opposite
<1>7. \/ \A i \in 1 .. n : ~K(i)
      \/ \E i, j \in 1 .. n : i # j /\ K(i) /\ K(j)
      \/ \E i \in 1 .. n : K(i) /\ \A j \in 1 .. n : K(j) => j = i
  OBVIOUS
<1> QED
  BY <1>4, <1>5, <1>6, <1>7

LEMMA OneSourceHolds == DbcInv => OneSource
<1> SUFFICES ASSUME DbcInv, frame # Dbc!NoFrame
             PROVE  /\ outcome.message # Dbc!None <=> Dbc!Cardinality(Dbc!Knowing) = 1
                    /\ outcome.message # Dbc!None =>
                         \A i \in Dbc!Knowing : outcome.message.database = databases[i].name
                    /\ outcome.message = Dbc!Decode(Dbc!Reverse(databases), frame).message
  BY DEF OneSource, Dbc!OneSource
<1>1. Dbc!Cardinality(Dbc!Knowing) = Cardinality(Dbc!Knowing)
  BY DEF Dbc!Cardinality, Cardinality
<1>2. Dbc!Decode(Dbc!Reverse(databases), frame).message = outcome.message
  BY OrderDoesNotMatter DEF DbcInv
<1>3. CASE Dbc!Knowing = {} /\ outcome.message = Dbc!None
  <2>1. Cardinality(Dbc!Knowing) = 0
    BY <1>3, FS_EmptySet
  <2> QED
    BY <1>1, <1>2, <1>3, <2>1
<1>4. CASE Cardinality(Dbc!Knowing) > 1 /\ outcome.message = Dbc!None
  <2>1. Cardinality(Dbc!Knowing) # 1
    BY <1>4
  <2> QED
    BY <1>1, <1>2, <1>4, <2>1
<1>5. CASE \E i \in 1 .. Len(databases) :
             Dbc!Knowing = {i} /\ outcome = Dbc!Decoded(databases[i], frame)
  <2>1. PICK i \in 1 .. Len(databases) :
          Dbc!Knowing = {i} /\ outcome = Dbc!Decoded(databases[i], frame)
    BY <1>5
  <2>2. Cardinality(Dbc!Knowing) = 1
    BY <2>1, CardinalityOne
  <2>3. outcome.message # Dbc!None /\ outcome.message.database = databases[i].name
    BY <2>1, DecodedIsMessage
  <2> QED
    BY <1>1, <1>2, <2>1, <2>2, <2>3
<1> QED
  BY <1>3, <1>4, <1>5, Known

(***************************************************************************)
(* Signal values: every decoded integer is the one the format assigns to   *)
(* the signal's bits, for both byte orders, signed or not, for signals of  *)
(* 1 to 64 bits wherever they lie, any databases and any frame.            *)
(***************************************************************************)
THEOREM ValuesAreReferences == Spec => []ReferenceValues
BY DbcRuns, DbcInductive, ReferenceValuesHold, PTL

(***************************************************************************)
(* A signal is decoded exactly if all its bits are in the payload and is   *)
(* reported as too long otherwise; those that are not multiplexed always.  *)
(***************************************************************************)
THEOREM SignalsAreCutExactly == Spec => []CutExactly
BY DbcRuns, DbcInductive, CutExactlyHolds, PTL

(***************************************************************************)
(* Multiplexed signals are decoded only for their multiplexor's value.     *)
(***************************************************************************)
THEOREM MultiplexedByValue == Spec => []ModesMatch
BY DbcRuns, DbcInductive, ModesMatchHold, PTL

(***************************************************************************)
(* A frame is decoded exactly if one database has a message of its         *)
(* identifier, with that database, whatever the order of loading.          *)
(***************************************************************************)
THEOREM FramesHaveOneSource == Spec => []OneSource
BY DbcRuns, DbcInductive, OneSourceHolds, PTL

-----------------------------------------------------------------------------
(* J1939: who has the addresses that are claimed.                           *)

LEMMA ClaimsRun == Spec => J1939!Init /\ [][J1939!Next]_J1939!vars
<1>1. Init => J1939!Init
  BY DEF Init
<1>2. [Next]_vars => [J1939!Next]_J1939!vars
  BY DEF Next, vars, j1939s, J1939!vars
<1> QED
  BY <1>1, <1>2, PTL DEF Spec

LEMMA NodesTyped ==
  ASSUME NEW n \in Node
  PROVE  /\ Name[n] \in Nat /\ Len(Wanted[n]) \in Nat
         /\ \A i \in 1 .. Len(Wanted[n]) : Wanted[n][i] \in 0 .. 253
         /\ \A m \in Node : m # n => Name[m] # Name[n]
<1>1. /\ Wanted[n] \in Seq(0 .. 253) /\ Name[n] \in Nat
      /\ \A m \in Node : m # n => Name[m] # Name[n]
  BY PartsAssumption DEF J1939!Assumptions
<1> QED
  BY <1>1, LenProperties, ElementOfSeq

\* A claim says which address it is of; other traffic is no claim.
LEMMA ClaimsAreRead ==
  ASSUME NEW a \in 0 .. 253
  PROVE  J1939!SourceAddress(J1939!ClaimId(a)) = a /\ J1939!ClaimId(a) \in Nat
BY DEF J1939!SourceAddress, J1939!ClaimId, J1939!AddressClaimed, J1939!Everybody

LEMMA TrafficIsNoClaim ==
  ASSUME NEW f \in Chatter, NEW a \in 0 .. 253
  PROVE  f.id + a \in Nat /\ f.data \in Nat /\ J1939!Pgn(f.id + a) # J1939!AddressClaimed
<1>1. f.id \in Nat /\ f.data \in Nat /\ f.id % 2 ^ 8 = 0 /\ (f.id \div 2 ^ 16) % 2 ^ 8 # 238
  BY PartsAssumption DEF J1939!Assumptions
<1>2. f.id + a \in Nat /\ (f.id + a) \div 2 ^ 16 = f.id \div 2 ^ 16
  BY <1>1
<1>3. \A raw \in Nat : J1939!Pgn(raw) = J1939!AddressClaimed => (raw \div 2 ^ 16) % 2 ^ 8 = 238
  BY DEF J1939!Pgn, J1939!PduFormat, J1939!PduSpecific, J1939!AddressClaimed
<1> QED
  BY <1>1, <1>2, <1>3

-----------------------------------------------------------------------------
\* Some node with a NAME below this bound has the address.
Owned(address, bound) ==
  \E m \in Node : J1939!OnBus(m) /\ J1939!Address(m) = address /\ Name[m] < bound

\* The frames that are truthful: what a claim says, its sender has, or by now
\* another node with a lower NAME.
Truthful ==
  {f \in [id : Nat, name : Nat] :
     J1939!Pgn(f.id) = J1939!AddressClaimed => Owned(J1939!SourceAddress(f.id), f.name + 1)}

(***************************************************************************)
(* The inductive invariant: frames in the queues are truthful, and who     *)
(* gave an address up was told the truth.                                  *)
(***************************************************************************)
ClaimsInv ==
  /\ tries \in [Node -> Nat]
  /\ heard \in [Node -> Seq(Truthful)]
  /\ \A n \in Node : \A i \in 1 .. Len(Wanted[n]) : i < tries[n] => Owned(Wanted[n][i], Name[n])

LEMMA BroadcastTyped ==
  ASSUME NEW S, NEW queues \in [Node -> Seq(S)], NEW f \in S, NEW n \in Node
  PROVE  J1939!Broadcast(n, queues, f) \in [Node -> Seq(S)]
<1>1. \A m \in Node : queues[m] \in Seq(S) /\ Append(queues[m], f) \in Seq(S)
  BY AppendProperties
<1> QED
  BY <1>1 DEF J1939!Broadcast

LEMMA ClaimTyped ==
  ASSUME NEW S, NEW queues \in [Node -> Seq(S)], NEW n \in Node, NEW try,
         try <= Len(Wanted[n]) => [id |-> J1939!ClaimId(Wanted[n][try]), name |-> Name[n]] \in S
  PROVE  J1939!Claim(n, queues, try) \in [Node -> Seq(S)]
BY BroadcastTyped DEF J1939!Claim

(***************************************************************************)
(* Nobody leaves an address but to a node with a lower NAME, so whatever   *)
(* is owned stays so, and what was truthful.                               *)
(***************************************************************************)
LEMMA OwnersStay ==
  ASSUME ClaimsInv, NEW n \in Node, NEW try \in Nat, tries' = [tries EXCEPT ![n] = try],
         J1939!OnBus(n) => try = tries[n] \/ Owned(J1939!Address(n), Name[n])
  PROVE  /\ \A address, bound \in Int : Owned(address, bound) => Owned(address, bound)'
         /\ Truthful \subseteq Truthful'
<1>1. ASSUME NEW address \in Int, NEW bound \in Int, Owned(address, bound) PROVE Owned(address, bound)'
  <2>1. PICK m \in Node : J1939!OnBus(m) /\ J1939!Address(m) = address /\ Name[m] < bound
    BY <1>1 DEF Owned
  <2>2. PICK k \in Node : /\ J1939!OnBus(k) /\ J1939!Address(k) = address /\ Name[k] < bound
                          /\ k = n => try = tries[n]
    <3>1. CASE m = n /\ try # tries[n]
      <4>1. PICK k \in Node : J1939!OnBus(k) /\ J1939!Address(k) = address /\ Name[k] < Name[n]
        BY <2>1, <3>1 DEF Owned
      <4>2. Name[k] \in Nat /\ Name[n] \in Nat
        BY NodesTyped
      <4>3. k # n /\ Name[k] < bound
        BY <2>1, <3>1, <4>1, <4>2
      <4> QED
        BY <4>1, <4>3
    <3> QED
      BY <2>1, <3>1
  <2>3. tries'[k] = tries[k]
    BY <2>2 DEF ClaimsInv
  <2>4. J1939!OnBus(k)' /\ J1939!Address(k)' = address
    BY <2>2, <2>3 DEF J1939!OnBus, J1939!Address
  <2> QED
    BY <2>2, <2>4 DEF Owned
<1>2. \A f \in [id : Nat, name : Nat] : J1939!SourceAddress(f.id) \in Int /\ f.name + 1 \in Int
  BY DEF J1939!SourceAddress
<1>3. Truthful \subseteq Truthful'
  BY <1>1, <1>2 DEF Truthful
<1> QED
  BY <1>1, <1>3

\* A node that is on the bus with its n-th address may claim it.
LEMMA MayClaim ==
  ASSUME NEW n \in Node, NEW try \in Nat \ {0}, tries'[n] = try, try <= Len(Wanted[n])
  PROVE  [id |-> J1939!ClaimId(Wanted[n][try]), name |-> Name[n]] \in Truthful'
<1> DEFINE address == Wanted[n][try]
           claim == [id |-> J1939!ClaimId(address), name |-> Name[n]]
<1>1. Name[n] \in Nat /\ address \in 0 .. 253
  BY NodesTyped
<1>2. claim \in [id : Nat, name : Nat] /\ J1939!SourceAddress(claim.id) = address
  BY <1>1, ClaimsAreRead
<1>3. J1939!OnBus(n)' /\ J1939!Address(n)' = address
  BY DEF J1939!OnBus, J1939!Address
<1>4. Owned(address, Name[n] + 1)'
  BY <1>1, <1>3 DEF Owned
<1> QED
  BY <1>2, <1>4 DEF Truthful

\* The queues and what was given up, when node n goes on to its address `try`.
LEMMA GoesOnTo ==
  ASSUME ClaimsInv, NEW n \in Node, NEW try \in Nat \ {0},
         NEW queues \in [Node -> Seq(Truthful)],
         tries' = [tries EXCEPT ![n] = try], heard' = J1939!Claim(n, queues, try),
         J1939!OnBus(n) => try = tries[n] \/ Owned(J1939!Address(n), Name[n]),
         try \in {1, tries[n]} \/ (J1939!OnBus(n) /\ try = tries[n] + 1)
  PROVE  ClaimsInv'
<1>1. /\ \A address, bound \in Int : Owned(address, bound) => Owned(address, bound)'
      /\ Truthful \subseteq Truthful'
  BY OwnersStay
<1>2. tries' \in [Node -> Nat] /\ tries'[n] = try /\ \A m \in Node : m # n => tries'[m] = tries[m]
  BY DEF ClaimsInv
<1>3. heard' \in [Node -> Seq(Truthful')]
  <2>1. \A m \in Node : queues[m] \in Seq(Truthful')
    BY <1>1, SeqMonotonic
  <2>2. queues \in [Node -> Seq(Truthful')]
    BY <2>1
  <2>3. try <= Len(Wanted[n]) =>
          [id |-> J1939!ClaimId(Wanted[n][try]), name |-> Name[n]] \in Truthful'
    BY <1>2, MayClaim
  <2> QED
    BY <2>2, <2>3, ClaimTyped
<1>4. ASSUME NEW m \in Node, NEW i \in 1 .. Len(Wanted[m]), i < tries'[m]
      PROVE  Owned(Wanted[m][i], Name[m])'
  <2>1. Wanted[m][i] \in Int /\ Name[m] \in Int /\ tries[m] \in Nat /\ i \in Nat \ {0}
    <3>1. /\ Len(Wanted[m]) \in Nat /\ Name[m] \in Nat
          /\ \A j \in 1 .. Len(Wanted[m]) : Wanted[m][j] \in 0 .. 253
      BY NodesTyped
    <3>2. tries[m] \in Nat
      BY DEF ClaimsInv
    <3>3. Wanted[m][i] \in 0 .. 253
      BY <3>1, Zenon
    <3>4. \A a \in 0 .. 253 : a \in Int
      OBVIOUS
    <3>5. i \in Nat \ {0} /\ Name[m] \in Int
      BY <3>1
    <3> QED
      BY <3>2, <3>3, <3>4, <3>5, Zenon
  <2>2. Owned(Wanted[m][i], Name[m])
    <3>1. CASE i < tries[m]
      BY <3>1 DEF ClaimsInv
    <3>2. CASE ~(i < tries[m])
      <4>1. m = n /\ i = tries[n] /\ J1939!OnBus(n) /\ try = tries[n] + 1
        BY <1>2, <1>4, <2>1, <3>2
      <4>2. Owned(J1939!Address(n), Name[n])
        BY <2>1, <4>1
      <4> QED
        BY <4>1, <4>2 DEF J1939!Address
    <3> QED
      BY <3>1, <3>2
  <2> QED
    BY <1>1, <2>1, <2>2
<1> QED
  BY <1>2, <1>3, <1>4 DEF ClaimsInv

LEMMA LookKeeps ==
  ASSUME ClaimsInv, NEW n \in Node, J1939!Look(n)
  PROVE  ClaimsInv'
<1> DEFINE f == Head(heard[n])
           rest == [heard EXCEPT ![n] = Tail(@)]
<1>1. /\ tries \in [Node -> Nat] /\ heard \in [Node -> Seq(Truthful)]
      /\ heard[n] \in Seq(Truthful) /\ heard[n] # << >>
  BY DEF ClaimsInv, J1939!Look
<1>2. f \in Truthful /\ Tail(heard[n]) \in Seq(Truthful)
  BY <1>1, HeadTailProperties
<1>3. rest \in [Node -> Seq(Truthful)]
  BY <1>1, <1>2
<1>4. /\ f.id \in Nat /\ f.name \in Nat
      /\ J1939!Pgn(f.id) = J1939!AddressClaimed => Owned(J1939!SourceAddress(f.id), f.name + 1)
  BY <1>2 DEF Truthful
<1>5. \/ heard' = rest /\ UNCHANGED tries
      \/ J1939!Conflicts(n, f) /\ heard' = J1939!Claim(n, rest, tries[n]) /\ UNCHANGED tries
      \/ /\ J1939!Conflicts(n, f) /\ ~J1939!KeepsAddress(Name[n], f.name)
         /\ tries' = [tries EXCEPT ![n] = @ + 1] /\ heard' = J1939!Claim(n, rest, tries[n] + 1)
  BY DEF J1939!Look
<1> HIDE DEF rest, f
<1>6. J1939!Conflicts(n, f) =>
        /\ J1939!OnBus(n) /\ tries[n] \in Nat \ {0}
        /\ Owned(J1939!Address(n), f.name + 1)
  BY <1>1, <1>4 DEF J1939!Conflicts, J1939!OnBus
<1>7. CASE heard' = rest /\ UNCHANGED tries
  BY <1>3, <1>7 DEF ClaimsInv, Truthful, Owned, J1939!OnBus, J1939!Address
<1>8. CASE J1939!Conflicts(n, f) /\ heard' = J1939!Claim(n, rest, tries[n]) /\ UNCHANGED tries
  <2>1. tries' = [tries EXCEPT ![n] = tries[n]]
    BY <1>1, <1>8
  <2> QED
    BY <1>3, <1>6, <1>8, <2>1, GoesOnTo
<1>9. CASE /\ J1939!Conflicts(n, f) /\ ~J1939!KeepsAddress(Name[n], f.name)
           /\ tries' = [tries EXCEPT ![n] = @ + 1] /\ heard' = J1939!Claim(n, rest, tries[n] + 1)
  <2>1. PICK m \in Node :
          J1939!OnBus(m) /\ J1939!Address(m) = J1939!Address(n) /\ Name[m] < f.name + 1
    BY <1>6, <1>9 DEF Owned
  <2>2. Name[m] \in Nat /\ Name[n] \in Nat
    BY NodesTyped
  <2>3. Name[m] < Name[n]
    BY <1>4, <1>9, <2>1, <2>2 DEF J1939!KeepsAddress
  <2>4. Owned(J1939!Address(n), Name[n])
    BY <2>1, <2>3 DEF Owned
  <2>5. tries[n] + 1 \in Nat \ {0}
    BY <1>1
  <2> QED
    BY <1>3, <1>6, <1>9, <2>4, <2>5, GoesOnTo
<1> QED
  BY <1>5, <1>7, <1>8, <1>9

LEMMA TalkKeeps ==
  ASSUME ClaimsInv, NEW n \in Node, J1939!Talk(n)
  PROVE  ClaimsInv'
<1>1. PICK f \in Chatter :
        heard' = J1939!Broadcast(n, heard, [id |-> f.id + J1939!Address(n), name |-> f.data])
  BY DEF J1939!Talk
<1> DEFINE said == [id |-> f.id + J1939!Address(n), name |-> f.data]
<1>2. J1939!Address(n) \in 0 .. 253
  <2>1. tries[n] \in Nat /\ tries[n] > 0 /\ tries[n] <= Len(Wanted[n])
    BY DEF ClaimsInv, J1939!Talk, J1939!OnBus
  <2>2. Len(Wanted[n]) \in Nat /\ \A i \in 1 .. Len(Wanted[n]) : Wanted[n][i] \in 0 .. 253
    BY NodesTyped
  <2>3. tries[n] \in 1 .. Len(Wanted[n])
    BY <2>1, <2>2
  <2> QED
    BY <2>2, <2>3, Zenon DEF J1939!Address
<1>3. said \in Truthful
  BY <1>2, TrafficIsNoClaim DEF Truthful
<1>4. heard \in [Node -> Seq(Truthful)] /\ UNCHANGED tries
  BY DEF ClaimsInv, J1939!Talk
<1> HIDE DEF said
<1>5. heard' \in [Node -> Seq(Truthful)]
  BY <1>1, <1>3, <1>4, BroadcastTyped DEF said
<1> QED
  BY <1>4, <1>5 DEF ClaimsInv, Truthful, Owned, J1939!OnBus, J1939!Address

LEMMA ClaimsInductive == J1939!Init /\ [][J1939!Next]_J1939!vars => []ClaimsInv
<1>1. J1939!Init => ClaimsInv
  <2> SUFFICES ASSUME J1939!Init PROVE ClaimsInv
    OBVIOUS
  <2>1. heard \in [Node -> Seq(Truthful)] /\ tries \in [Node -> Nat]
    BY EmptySeq DEF J1939!Init
  <2>2. \A n \in Node : \A i \in 1 .. Len(Wanted[n]) : ~(i < tries[n])
    BY NodesTyped DEF J1939!Init
  <2> QED
    BY <2>1, <2>2 DEF ClaimsInv
<1>2. ClaimsInv /\ [J1939!Next]_J1939!vars => ClaimsInv'
  <2> SUFFICES ASSUME ClaimsInv, [J1939!Next]_J1939!vars PROVE ClaimsInv'
    OBVIOUS
  <2>1. ASSUME NEW n \in Node, J1939!Join(n) PROVE ClaimsInv'
    <3>1. heard \in [Node -> Seq(Truthful)] /\ ~J1939!OnBus(n)
      BY <2>1 DEF ClaimsInv, J1939!Join, J1939!OnBus
    <3>2. 1 \in Nat \ {0} /\ tries' = [tries EXCEPT ![n] = 1] /\ heard' = J1939!Claim(n, heard, 1)
      BY <2>1 DEF J1939!Join
    <3> QED
      BY <3>1, <3>2, GoesOnTo
  <2>2. ASSUME NEW n \in Node, J1939!Look(n) PROVE ClaimsInv'
    BY <2>2, LookKeeps
  <2>3. ASSUME NEW n \in Node, J1939!Talk(n) PROVE ClaimsInv'
    BY <2>3, TalkKeeps
  <2>4. CASE UNCHANGED J1939!vars
    BY <2>4 DEF J1939!vars, ClaimsInv, Truthful, Owned, J1939!OnBus, J1939!Address
  <2> QED
    BY <2>1, <2>2, <2>3, <2>4 DEF J1939!Next
<1> QED
  BY <1>1, <1>2, PTL

(***************************************************************************)
(* Address claims: with any number of nodes and whatever the order of      *)
(* their claims, an address that a node gave up belongs to a node with a   *)
(* lower NAME from then on; other traffic makes nobody give one up.        *)
(***************************************************************************)
THEOREM YieldsToLower == Spec => []J1939!YieldedToLower
<1>1. ClaimsInv => J1939!YieldedToLower
  BY DEF ClaimsInv, J1939!YieldedToLower, Owned
<1> QED
  BY <1>1, ClaimsRun, ClaimsInductive, PTL
=============================================================================
