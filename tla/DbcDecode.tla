------------------------------ MODULE DbcDecode ------------------------------
(***************************************************************************)
(* cantools-dbc: databases are loaded one after another and frames decoded *)
(* against all of them.                                                    *)
(*                                                                         *)
(* A payload is its length in bytes and the set of its bits that are one;  *)
(* bit n is bit n % 8 of byte n \div 8.  Scaling, units and texts are left *)
(* out: they are looked up once the integer is known.  The signals and the *)
(* diagnostics of an outcome stand at the positions of their signals in    *)
(* the message; the vectors of the code list them in that order.           *)
(***************************************************************************)
EXTENDS DbcFile, Integers, FiniteSets, SequencesExt

CONSTANTS
  Collections,  \* the sets of databases a caller may load from
  Frames,       \* the frames there are to decode
  MaxDatabases  \* bound: how many are loaded

\* Assumed of the constants, by the module that instantiates this one.
Assumptions ==
  /\ UNION Collections \subseteq Databases
  /\ Frames \subseteq [id : Identifiers, payload : [len : Nat, ones : SUBSET Nat]]
  /\ MaxDatabases \in Nat

VARIABLES
  files,      \* the collection this caller has
  databases,  \* Decoder.databases
  frame,      \* the frame decoded last with these databases, or NoFrame
  outcome     \* its DecodeOutcome

vars == <<files, databases, frame, outcome>>

NoFrame == [none |-> "frame"]
NoValue == -1   \* the None of a multiplexor's value, else a natural number

-----------------------------------------------------------------------------
(* Where a signal lies, and its bits.                                       *)

\* Big-endian signals run down a byte and go on at the top of the next.
StepDown(bit) == IF bit % 8 = 0 THEN bit + 15 ELSE bit - 1

\* The bit reached after n steps.
Walk(start, n) ==
  LET at[k \in 0 .. n] == IF k = 0 THEN start ELSE StepDown(at[k - 1])
  IN  at[n]

\* Mutant: one past the last bit.
MaxSignalBitPast(s) ==
  IF s.order = "little"
  THEN s.start + s.size
  ELSE Walk(s.start, IF s.size = 0 THEN 0 ELSE s.size - 1)

\* `max_signal_bit`: of a big-endian signal, the last bit of the walk.
MaxSignalBit(s) ==
  LET steps == IF s.size = 0 THEN 0 ELSE s.size - 1
  IN  IF s.order = "little" THEN s.start + steps ELSE Walk(s.start, steps)

BitAt(payload, bit) == IF bit \in payload.ones THEN 1 ELSE 0

\* `1 << n`
TwoTo(n) ==
  LET power[k \in 0 .. n] == IF k = 0 THEN 1 ELSE 2 * power[k - 1]
  IN  power[n]

ExtractLittleEndian(payload, start, length) ==
  LET value[n \in 0 .. length] ==
        IF n = 0 THEN 0 ELSE value[n - 1] + BitAt(payload, start + n - 1) * TwoTo(n - 1)
  IN  value[length]

ExtractBigEndian(payload, start, length) ==
  LET value[n \in 0 .. length] ==
        IF n = 0 THEN 0 ELSE 2 * value[n - 1] + BitAt(payload, Walk(start, n - 1))
  IN  value[length]

\* Mutant: the sign bit is looked for one place too high.
SignExtendHigh(raw, width) == IF raw >= TwoTo(width) THEN raw - TwoTo(width) ELSE raw

\* `sign_extend`, for a width of at least one.
SignExtend(raw, width) == IF raw >= TwoTo(width - 1) THEN raw - TwoTo(width) ELSE raw

PayloadTooShort(s, payload) ==
  [type |-> "PayloadTooShort", signal |-> s.name,
   expected_bits |-> MaxSignalBit(s) + 1, actual_bytes |-> payload.len]

Fits(s, payload) == MaxSignalBit(s) < payload.len * 8

ExtractRaw(payload, s) ==
  IF s.order = "little"
  THEN ExtractLittleEndian(payload, s.start, s.size)
  ELSE ExtractBigEndian(payload, s.start, s.size)

\* `raw as i64` makes a value of 64 bits a signed one.
ReadSigned(s) == s.signed \/ s.size = 64

ExtractSignal(payload, s) ==
  LET raw == ExtractRaw(payload, s)
  IN  [name |-> s.name, raw |-> IF ReadSigned(s) THEN SignExtend(raw, s.size) ELSE raw]

-----------------------------------------------------------------------------
(* `decode_frame`                                                           *)

\* The value of the multiplexor, if the message has one and it fits.
MuxValue(message, payload) ==
  IF message.switch # None /\ Fits(message.switch, payload)
  THEN ExtractRaw(payload, message.switch)
  ELSE NoValue

\* Mutant: without a multiplexor's value every signal is active.
SignalActiveByDefault(s, mux) ==
  s.mode.type \in {"multiplexed", "nested"} => mux = NoValue \/ mux = s.mode.value

SignalActive(s, mux) ==
  \/ s.mode.type \in {"plain", "multiplexor"}
  \/ s.mode.type = "multiplexed" /\ mux = s.mode.value
  \/ s.mode.type = "nested" /\ mux \in {NoValue, s.mode.value}

\* `frame_message_id`: bit 31 marks an extended identifier, of 29 bits.
FrameMessageId(id) == [extended |-> id.extended, raw |-> id.raw]

\* The messages of a database with the frame's identifier; the first is taken.
Candidates(db, f) == {i \in DOMAIN db.messages : db.messages[i].id = FrameMessageId(f.id)}
Found(db, f) == db.messages[Min(Candidates(db, f))]

Matches(dbs, f) == {i \in DOMAIN dbs : Candidates(dbs[i], f) # {}}

Decoded(db, f) ==
  LET signals == Found(db, f).signals
      mux == MuxValue(Found(db, f), f.payload)
      active == {i \in DOMAIN signals : SignalActive(signals[i], mux)}
      fitting == {i \in active : Fits(signals[i], f.payload)}
  IN  [message |-> [database |-> db.name,
                    signals |-> [i \in fitting |-> ExtractSignal(f.payload, signals[i])]],
       diagnostics |-> [i \in active \ fitting |-> PayloadTooShort(signals[i], f.payload)]]

NoMatch(f) == [type |-> "NoMatch", id |-> f.id.raw]

AmbiguousMessage(f, names) ==
  [type |-> "AmbiguousMessage", id |-> f.id.raw, databases |-> names]

NoMessage(diagnostic) == [message |-> None, diagnostics |-> <<diagnostic>>]

\* Mutant: the database loaded first wins.
DecodeFirst(dbs, f) ==
  LET matches == Matches(dbs, f)
  IN  IF matches = {} THEN NoMessage(NoMatch(f)) ELSE Decoded(dbs[Min(matches)], f)

Decode(dbs, f) ==
  LET matches == Matches(dbs, f)
  IN  IF matches = {} THEN NoMessage(NoMatch(f))
      ELSE IF Cardinality(matches) > 1
      THEN NoMessage(AmbiguousMessage(f, [i \in matches |-> dbs[i].name]))
      ELSE Decoded(dbs[Min(matches)], f)

-----------------------------------------------------------------------------
Init ==
  /\ files \in Collections
  /\ databases = << >>
  /\ frame = NoFrame
  /\ outcome = None

\* A file that can_dbc refuses leaves the decoder as it was.
PushNamed(db) ==
  /\ Len(databases) < MaxDatabases
  /\ databases' = Append(databases, db)
  /\ frame' = NoFrame
  /\ outcome' = None
  /\ UNCHANGED files

DecodeFrame(f) ==
  /\ frame' = f
  /\ outcome' = Decode(databases, f)
  /\ UNCHANGED <<files, databases>>

Next ==
  \/ \E db \in files : PushNamed(db)
  \/ \E f \in Frames : DecodeFrame(f)

Spec == Init /\ [][Next]_vars

-----------------------------------------------------------------------------
(***************************************************************************)
(* What the DBC format means by a signal, without any walk: number the     *)
(* bits from the top of byte 0 on; a big-endian signal is `size` bits in a *)
(* row in that numbering, most significant first.                          *)
(***************************************************************************)
FromTop(bit) == 8 * (bit \div 8) + (7 - (bit % 8))

\* The place of bit i of the value (0 is the least significant).
PlaceOf(s, i) ==
  IF s.order = "little" THEN s.start + i ELSE FromTop(FromTop(s.start) + s.size - 1 - i)

Places(s) == {PlaceOf(s, i) : i \in 0 .. s.size - 1}

Held(s, payload) == \A p \in Places(s) : p < payload.len * 8

\* v is the number whose bits stand in those places.
IsNumberIn(v, s, payload) ==
  /\ v \in 0 .. TwoTo(s.size) - 1
  /\ \A i \in 0 .. s.size - 1 : (v \div TwoTo(i)) % 2 = BitAt(payload, PlaceOf(s, i))

\* The same in two's complement.
IsSignedIn(v, s, payload) ==
  /\ 2 * v \in -TwoTo(s.size) .. TwoTo(s.size) - 1
  /\ IsNumberIn(IF v < 0 THEN v + TwoTo(s.size) ELSE v, s, payload)

IsMessage == frame # NoFrame /\ outcome.message # None

\* The databases with a message of the frame's identifier.
Knowing ==
  {i \in DOMAIN databases : \E m \in Range(databases[i].messages) : m.id = frame.id}

\* The message `outcome` was made from: the first of this identifier.
IsSource(m) ==
  \E i \in Knowing : \E j \in DOMAIN databases[i].messages :
    /\ m = databases[i].messages[j] /\ m.id = frame.id
    /\ \A k \in 1 .. j - 1 : databases[i].messages[k].id # frame.id

Source == CHOOSE m \in UNION {Range(databases[i].messages) : i \in Knowing} : IsSource(m)

(***************************************************************************)
(* Signal values: every decoded integer is the one the format assigns, for *)
(* each byte order and across byte boundaries, signed or not.  (Unsigned   *)
(* signals of 64 bits are the exception: `raw as i64` makes them signed.)  *)
(***************************************************************************)
ReferenceValues ==
  IsMessage =>
    \A i \in DOMAIN outcome.message.signals :
      LET s == Source.signals[i]
          v == outcome.message.signals[i]
      IN  /\ v.name = s.name
          /\ IF s.signed \/ s.size = 64
             THEN IsSignedIn(v.raw, s, frame.payload)
             ELSE IsNumberIn(v.raw, s, frame.payload)

(***************************************************************************)
(* A signal is decoded only if every one of its bits is in the payload, so *)
(* no bit outside is read (which would panic), and is reported as too long *)
(* only if some bit is not.  A signal that is not multiplexed is always    *)
(* one or the other.                                                       *)
(***************************************************************************)
CutExactly ==
  IsMessage =>
    LET decoded == DOMAIN outcome.message.signals
        reported == DOMAIN outcome.diagnostics
    IN  /\ \A i \in decoded : Held(Source.signals[i], frame.payload)
        /\ \A i \in reported : ~Held(Source.signals[i], frame.payload)
        /\ \A i \in DOMAIN Source.signals :
             Source.signals[i].mode.type \in {"plain", "multiplexor"} => i \in decoded \cup reported

(***************************************************************************)
(* Signals of different multiplexor values are never decoded from the same *)
(* frame, and those that are decoded are of the value in this frame, with  *)
(* one exception the code makes: a nested multiplexor is decoded whatever  *)
(* its value if there is no multiplexor or it is cut off.                  *)
(***************************************************************************)
ModesMatch ==
  IsMessage =>
    LET switch == Source.switch
        known == switch # None /\ Held(switch, frame.payload)
    IN  \A i \in DOMAIN outcome.message.signals :
          LET mode == Source.signals[i].mode
          IN  mode.type = "multiplexed" \/ (mode.type = "nested" /\ known) =>
                known /\ IsNumberIn(mode.value, switch, frame.payload)

(***************************************************************************)
(* Deterministic with any number of databases: a frame is decoded exactly  *)
(* if one database has a message of its identifier, of the same width; it  *)
(* is decoded with that database; and the order in which the databases     *)
(* were loaded does not matter.                                            *)
(***************************************************************************)
OneSource ==
  frame # NoFrame =>
    /\ outcome.message # None <=> Cardinality(Knowing) = 1
    /\ outcome.message # None =>
         \A i \in Knowing : outcome.message.database = databases[i].name
    /\ outcome.message = Decode(Reverse(databases), frame).message
=============================================================================
