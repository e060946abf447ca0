----------------------------- MODULE CapturePath -----------------------------
(***************************************************************************)
(* What becomes of a capture: it is written to a file and read back, in    *)
(* one format after another (cantools-codec), and now and then replayed    *)
(* onto a bus where another socket records it anew (`play` of              *)
(* cantools-cli, `send` and `recv_event` of cantools-socketcan).           *)
(***************************************************************************)
EXTENDS CaptureCodec, NativeFrame, SequencesExt

CONSTANTS
  Captures,     \* the captures to start from: sequences of events
  Formats,      \* the formats used, subset of {"asc", "blf", "mf4"}
  MaxSteps,     \* bound: how often a capture is rewritten or replayed
  RecvTime(_),  \* the recorder's clock when it receives the i-th frame
  Recorder      \* its interface, as <<name, index>>

ASSUME FormatsAssumption == Formats \subseteq {"asc", "blf", "mf4"}
ASSUME StepsAssumption == MaxSteps \in Nat

\* A serial number is the place in the original capture.
ASSUME CapturesAssumption ==
  \A c \in Captures : c \in Seq(Events) /\ \A i \in DOMAIN c : c[i].serial = i

\* The recorder has a name and an index, and its clock is not set back.
ASSUME RecorderAssumption == Recorder[1] \in Names /\ Recorder[2] \in Nat
ASSUME ClockAssumption ==
  \A c \in Captures : \A i, j \in DOMAIN c :
    RecvTime(i) \in Int /\ (i <= j => RecvTime(i) <= RecvTime(j))

VARIABLES
  original,  \* the capture before any file was written
  capture,   \* the events read from the last file
  notes,     \* notes[i]: fields noted for event i of the last capture written
  path       \* the formats gone through, "bus" for a replay

vars == <<original, capture, notes, path>>

Init ==
  /\ original \in Captures
  /\ capture = original
  /\ notes = << >>
  /\ path = << >>

\* `write_path`, then `read_path`.
Rewrite(format) ==
  /\ Len(path) < MaxSteps
  /\ LET written == WrittenEvents(format, capture)
     IN  capture' = [i \in DOMAIN written |-> ReadBack(format, written[i])]
  /\ notes' = [i \in DOMAIN capture |-> NotesOf(format, capture[i])]
  /\ path' = Append(path, format)
  /\ UNCHANGED original

(***************************************************************************)
(* `write_asc` truncates the file it is to replace and then writes line by *)
(* line.  It is cut off by an error or a crash, and what it leaves is read *)
(* all the same, since every beginning of an ASC file is one.              *)
(***************************************************************************)
TornRewrite ==
  /\ "asc" \in Formats
  /\ Len(path) < MaxSteps
  /\ \E n \in DOMAIN capture :
       LET whole == At(capture, AscKept(capture) \cap 1 .. n - 1)
       IN  \E last \in AscTornEvents(capture[n]) :
             capture' = [i \in DOMAIN whole |-> ReadBack("asc", whole[i])] \o last
  /\ notes' = << >>
  /\ path' = Append(path, "torn")
  /\ UNCHANGED original

\* `recv_event`, for the frame of an event that `send` wrote.
Received(i, e) ==
  Event(e.serial, RecvTime(i), Recorder[1], Recorder[2], "Rx",
        FrameOfNative(NativeOf(e.frame)), FALSE)

\* The events are sent in the order of the capture.  The kernel hands error
\* frames only to sockets that ask for them.
ReplayOntoBus ==
  /\ Len(path) < MaxSteps
  /\ \E arriving \in {capture, At(capture, {i \in DOMAIN capture : capture[i].frame.class # "error"})} :
       capture' = [i \in DOMAIN arriving |-> Received(i, arriving[i])]
  /\ notes' = << >>
  /\ path' = Append(path, "bus")
  /\ UNCHANGED original

Next == ReplayOntoBus \/ TornRewrite \/ \E format \in Formats : Rewrite(format)

Spec == Init /\ [][Next]_vars

-----------------------------------------------------------------------------
TextOrBus == {"asc", "torn", "bus"}

(***************************************************************************)
(* Along any path the capture keeps its events, their order, and of each   *)
(* its identifier and its class, and no more data than there was.  Only    *)
(* error frames disappear, and only in ASC or on the bus, and after a file *)
(* was torn events at the end: none from between two that are left.  No    *)
(* event is refused by a reader, and no frame by the receiving socket.     *)
(***************************************************************************)
Survivors ==
  /\ \A i, j \in DOMAIN capture : i < j => capture[i].serial < capture[j].serial
  /\ \A i \in DOMAIN capture :
       LET e == original[capture[i].serial]
       IN  /\ capture[i].frame # Invalid
           /\ capture[i].frame.id = e.frame.id
           /\ capture[i].frame.class = e.frame.class
           /\ capture[i].frame.dlc <= e.frame.dlc
           /\ "bus" \notin Range(path) => capture[i].direction = e.direction
  /\ \A n \in DOMAIN original :
       \/ \E i \in DOMAIN capture : capture[i].serial = n
       \/ original[n].frame.class = "error" /\ Range(path) \cap TextOrBus # {}
       \/ "torn" \in Range(path) /\ \A i \in DOMAIN capture : capture[i].serial < n

(***************************************************************************)
(* Timestamps do not change places: events in the order of their time stay *)
(* in that order, so replaying a converted capture never has to go back.   *)
(***************************************************************************)
TimeOrder ==
  \A i, j \in DOMAIN capture :
    i < j /\ original[capture[i].serial].time <= original[capture[j].serial].time
      => capture[i].time <= capture[j].time

(***************************************************************************)
(* A replayed frame arrives as the file had it: small extended identifiers *)
(* stay extended, remote frames keep their class, and a full FD frame is   *)
(* never taken for a classic one.  Only the FD flags of a classic frame,   *)
(* which mean nothing there, are cleared.                                  *)
(***************************************************************************)
RoundTrip ==
  [][path' = Append(path, "bus") =>
       \A i \in DOMAIN capture, j \in DOMAIN capture' :
         capture'[j].serial = capture[i].serial =>
           LET f == capture[i].frame
           IN  capture'[j].frame = [f EXCEPT !.fd_flags = IF f.fd THEN @ ELSE {}]]_vars

FromSocket(e) == e.name \notin LongNames \cup {NoName} /\ e.index # NoIndex /\ ~e.annotated

(***************************************************************************)
(* MF4 is the format of record: what a socket captured (a name, an index,  *)
(* no annotations) comes back from it without any difference.              *)
(***************************************************************************)
Mf4Exact ==
  (\A i \in DOMAIN path : path[i] = "mf4") =>
    /\ DOMAIN capture = DOMAIN original
    /\ \A i \in DOMAIN capture : FromSocket(original[i]) => capture[i] = original[i]

(***************************************************************************)
(* Losses do not add up: writing a capture to the format it was just read  *)
(* from changes nothing more.                                              *)
(***************************************************************************)
Stable ==
  [][path # << >> /\ Last(path') = Last(path) /\ Last(path') \in Formats
       => capture' = capture]_vars

\* The parts of an event whose loss a note announces.
Covers ==
  [annotations |-> {"annotated"}, interface_index |-> {"index"}, interface_name |-> {"name"},
   frame_class |-> {"event"}, payload |-> {"dlc", "fd", "fd_flags"}]

FrameFields == {"id", "class", "dlc", "fd", "fd_flags"}

Difference(e, f) ==
  {x \in {"time", "name", "index", "direction", "annotated"} : e[x] # f[x]}
    \cup {x \in FrameFields : e.frame[x] # f.frame[x]}

Lost(e, events) ==
  LET copies == {i \in DOMAIN events : events[i].serial = e.serial}
  IN  IF copies = {} THEN {"event"} ELSE UNION {Difference(e, events[i]) : i \in copies}

Noted(i) == UNION {Covers[field] : field \in notes'[i]}

(***************************************************************************)
(* No silent loss: whatever differs between an event and what is read back *)
(* is covered by a note on that event.                                     *)
(***************************************************************************)
NoSilentLoss ==
  [][Last(path') \in Formats =>
       \A i \in DOMAIN capture : Lost(capture[i], capture') \subseteq Noted(i)]_vars

(***************************************************************************)
(* BLF and MF4 keep to this as far as the frame, its annotations and the   *)
(* event itself go.                                                        *)
(***************************************************************************)
FrameLossNoted ==
  [][Last(path') \in {"blf", "mf4"} =>
       \A i \in DOMAIN capture :
         Lost(capture[i], capture') \cap (FrameFields \cup {"annotated", "event"})
           \subseteq Noted(i)]_vars
=============================================================================
