----------------------------- MODULE CaptureCodec -----------------------------
(***************************************************************************)
(* cantools-codec: the file formats.  Each is a pair of operators, from    *)
(* event to record and from record to event, and the notes its writer      *)
(* leaves.  CapturePath writes and reads captures with them.               *)
(*                                                                         *)
(* Timestamps are nanoseconds from some whole second of the present era.   *)
(* A payload is its length, since every codec copies a prefix of it.       *)
(***************************************************************************)
EXTENDS CanFrame, Selection, Integers

CONSTANTS
  Names,        \* interface names
  LongNames,    \* those of more than 32 bytes
  Cut(_),       \* the first 32 bytes of one
  TornLengths,  \* bound: how many data bytes may be left of a torn line
  SecondsUlp,   \* distance of two f64 that count seconds, in nanoseconds
  NanosUlp      \* distance of two f64 that count nanoseconds

ASSUME CutAssumption == \A name \in LongNames : Cut(name) \in Names \ LongNames
ASSUME TornLengthsAssumption == TornLengths \subseteq Nat
ASSUME UlpAssumption == SecondsUlp \in Nat \ {0} /\ NanosUlp \in Nat \ {0}

\* The three roundings of a reader do not add up to half a microsecond.  It
\* is so until the year 2038, when f64 of seconds are 477 ns apart.
ASSUME PrecisionAssumption == 2 * SecondsUlp + NanosUlp < 1000

NoName == "unnamed"
NoIndex == -1

ASSUME NamesAssumption == {NoName, "can0"} \cup LongNames \subseteq Names

(***************************************************************************)
(* CaptureEvent.  `serial` says which event of the original it stems from; *)
(* it is not in the code and no codec looks at it.                         *)
(***************************************************************************)
Event(serial, time, name, index, direction, frame, annotated) ==
  [serial |-> serial, time |-> time, name |-> name, index |-> index,
   direction |-> direction, frame |-> frame, annotated |-> annotated]

Events == [serial : Nat, time : Int, name : Names, index : Nat \cup {NoIndex},
           direction : {"Rx", "Tx"}, frame : CanFrames, annotated : BOOLEAN]

-----------------------------------------------------------------------------
(* ASC: one text line an event.                                             *)

AtMost(n, limit) == IF n <= limit THEN n ELSE limit

Second == 1000000000
Microsecond == 1000

Nearest(t, unit) == ((t + unit \div 2) \div unit) * unit

\* Mutant: the fraction is rounded without a carry into the seconds.
AscTimeNoCarry(t) == t - (t % Second) + (Nearest(t % Second, Microsecond) % Second)

\* An f64 of seconds is printed with six decimals; the reader parses it and
\* multiplies by 10^9 before it rounds.
AscTime(t) ==
  LET printed == Nearest(Nearest(t, SecondsUlp), Microsecond)
  IN  Nearest(Nearest(printed, SecondsUlp), NanosUlp)

\* Mutant: remote frames, too, become comments.
AscKeepsNoRemote(e) == e.frame.class = "data"

\* An error frame becomes a comment line, which the reader skips.
AscKeeps(e) == e.frame.class # "error"

AscLine(e) ==
  [time |-> AscTime(e.time),
   name |-> IF e.name = NoName THEN "can0" ELSE e.name,
   id |-> e.frame.id,
   direction |-> e.direction,
   kind |-> IF e.frame.class = "remote" THEN "r"
            ELSE IF e.frame.class = "data" /\ e.frame.fd THEN "FD" ELSE "d",
   dlc |-> e.frame.dlc,
   bytes |-> e.frame.dlc]

\* `read_asc`: a remote frame has no data, no line has FD flags, and a line
\* with fewer bytes than it declares is a frame with fewer bytes.
AscEvent(serial, line) ==
  Event(serial, line.time, line.name, NoIndex, line.direction,
        NewFrame(line.id,
                 IF line.kind = "r" THEN "remote" ELSE "data",
                 IF line.kind = "r" THEN 0 ELSE AtMost(line.bytes, line.dlc),
                 line.kind = "FD", {}),
        FALSE)

\* What is read of a line at whose end, or within which, the file ends:
\* nothing if fewer than six parts of it are left.
AscTornEvents(e) ==
  IF AscKeeps(e)
  THEN {<< >>} \cup {<<AscEvent(e.serial, [AscLine(e) EXCEPT !.bytes = n])>> :
                         n \in TornLengths \cap 0 .. e.frame.dlc}
  ELSE {<< >>}

AscNotes(e) ==
  (IF e.annotated THEN {"annotations"} ELSE {})
    \cup (IF e.index # NoIndex THEN {"interface_index"} ELSE {})
    \cup (IF e.frame.class = "error" THEN {"frame_class"} ELSE {})

-----------------------------------------------------------------------------
(* BLF: one CAN message object with eight data bytes an event.              *)

\* Mutant: channels are counted from one on the way out only.
BlfChannelShifted(index) == IF index = NoIndex THEN 1 ELSE (index + 1) % 65536

BlfChannel(index) == IF index = NoIndex THEN 1 ELSE index % 65536

BlfMessage(e) ==
  [time |-> e.time,
   channel |-> BlfChannel(e.index),
   id |-> e.frame.id,
   class |-> e.frame.class,
   direction |-> e.direction,
   dlc |-> AtMost(e.frame.dlc, 64),
   bit_count |-> (AtMost(e.frame.dlc, 64) * 8) % 256]

\* `read_blf`: a classic frame of at most eight bytes on a numbered channel.
BlfEvent(serial, m) ==
  LET bytes == IF m.dlc >= m.bit_count \div 8 THEN m.dlc ELSE m.bit_count \div 8
  IN  Event(serial, m.time, NoName, m.channel, m.direction,
            NewFrame(m.id, m.class, AtMost(bytes, 8), FALSE, {}), FALSE)

\* Mutant: only what is visibly too long is noted.
BlfNotesLong(e) == IF e.frame.dlc > 8 THEN {"payload"} ELSE {}

BlfNotes(e) == {"payload"} \cup (IF e.annotated THEN {"annotations"} ELSE {})

-----------------------------------------------------------------------------
(* MF4: one record of fixed layout an event.                                *)

\* Mutant: an FD frame is told by its length.
Mf4RecordByLength(e) ==
  [time |-> e.time, id |-> e.frame.id, class |-> e.frame.class,
   direction |-> e.direction, fd |-> e.frame.dlc > 8, fd_flags |-> e.frame.fd_flags,
   ifindex |-> IF e.index = NoIndex THEN 0 ELSE e.index,
   data_len |-> AtMost(e.frame.dlc, 64),
   name |-> IF e.name \in LongNames THEN Cut(e.name) ELSE e.name]

Mf4Record(e) ==
  [time |-> e.time, id |-> e.frame.id, class |-> e.frame.class,
   direction |-> e.direction, fd |-> e.frame.fd, fd_flags |-> e.frame.fd_flags,
   ifindex |-> IF e.index = NoIndex THEN 0 ELSE e.index,
   data_len |-> AtMost(e.frame.dlc, 64),
   name |-> IF e.name \in LongNames THEN Cut(e.name) ELSE e.name]

\* `decode_record`: an index is always there, an empty name is none.
Mf4Event(serial, r) ==
  Event(serial, r.time, r.name, r.ifindex, r.direction,
        NewFrame(r.id, r.class, r.data_len, r.fd, r.fd_flags), FALSE)

Mf4Notes(e) ==
  (IF e.name \in LongNames THEN {"interface_name"} ELSE {})
    \cup (IF e.annotated THEN {"annotations"} ELSE {})

-----------------------------------------------------------------------------
(* `write_path` and `read_path` on whole captures.                          *)

AscKept(events) == {i \in DOMAIN events : AscKeeps(events[i])}

WrittenEvents(format, events) ==
  IF format = "asc" THEN At(events, AscKept(events)) ELSE events

ReadBack(format, e) ==
  IF format = "asc" THEN AscEvent(e.serial, AscLine(e))
  ELSE IF format = "blf" THEN BlfEvent(e.serial, BlfMessage(e))
  ELSE Mf4Event(e.serial, Mf4Record(e))

NotesOf(format, e) ==
  IF format = "asc" THEN AscNotes(e)
  ELSE IF format = "blf" THEN BlfNotes(e)
  ELSE Mf4Notes(e)
=============================================================================
