# A verification of cantools-rs

TLA+ specifications of the parts of cantools-rs that keep state, convert data
or wait for something, the configurations TLC checks them with, and theorems
about them that TLAPS proves. Paths are relative to `src/`; a reference such as
*isotp 156* means line 156 of the `lib.rs` (or `main.rs`) of that crate. Which
lines each definition stands for is listed in `PROJECT.json` under `map`.

## The system

cantools-rs is a workspace of small crates around one event model.

| Part | State it keeps | Operations | Talks to |
| --- | --- | --- | --- |
| `cantools-core` | none; values: `CanId`, `CanFrame`, `CaptureEvent`, `ReplayMode` | validated construction | everybody |
| `cantools-isotp` | `Reassembler { total_len, next_seq, buffer }`; `segment` has a local offset and sequence number | `segment`, `encode`, `ingest` | a caller that owns the bus |
| `cantools-socketcan` | a descriptor per socket, the name and index of its interface | `open`, `Drop`, `send`, `recv`, `recv_event`, `set_nonblocking`, `interfaces` | kernel: interface table, descriptors, receive queues |
| `cantools-codec` | files | `write_path`, `read_path` for ASC, BLF, MF4 | captures of core |
| `cantools-dbc` | `Decoder.databases` | `push_named`, `push_file`, `decode_frame` | `can_dbc` |
| `cantools-cli` | the position in a capture or a sequence file | `send`, `dump`, `play`, `sequence`, `gen`, `monitor` | all of the above, the clock |
| `cantools-tui` | the window of events, the mode of the terminal | `run_monitor` | raw socket, crossterm, ratatui |
| `cantools-uds` | none of its own; `Client` holds its transport | `Client::send`, `decode_response` | a `Transport`, of which the repository has none |
| `cantools-j1939` | none | `from_can_id`, `resolve_address_claim` | the node that uses it |
| `cantools-obd` | none | four formulas, a text | |
| `xtask`, hooks | the files of the repository, the settings of git, two processes | `codegen`, `check-placeholders`, the hosted and the Linux CI with its smoke test, `install-hooks`; the pre-push hook | cargo, OrbStack, git, the built `cantools` |

There are no threads and no callbacks. What is concurrent is the environment:
the kernel adds and removes interfaces between two system calls, frames arrive
in a receive queue while the program computes, draws or sleeps, time passes,
keys are pressed, a bus loses or repeats frames, an ECU answers late, other
nodes claim addresses, and the processes that the smoke test starts run at
their own pace. What can fail is every system call, every terminal call and
every external command.

What makes each part correct, and what is hard about it:

- **Segmentation and reassembly.** Every payload arrives whole or not at all.
  Hard: lengths at the edges of frames, a sequence number that wraps every 16
  frames, a receiver that goes on after a wrong number, transfers that
  interrupt one another.
- **Sockets.** A descriptor has one owner at a time, on every error path, and
  a handle is bound. Hard: an interface that goes between two steps of `open`.
- **Codecs.** A conversion keeps events, order, identifiers and class, and notes
  what it loses. Hard: floating-point times, error and remote frames, FD flags,
  chains of conversions.
- **Sequence.** An expect finds the first right frame, does not give up too
  early or too late and ends at all. Hard: frames queued before it began, a
  deadline racing a late answer, a bus that never falls silent.
- **Play.** Never faster than the recording. Hard: timestamps that go back,
  overruns that add up.
- **Monitor.** The window is the latest frames; the terminal is put back. Hard:
  errors on the way in and out.
- **DBC.** The integer is the one the format defines. Hard: big-endian walks,
  signs, signals that are cut off, multiplexing, several databases.
- **UDS.** What the client returns is what the ECU said. Hard: an answer to an
  earlier request, the client's own request heard back, an answer that is cut
  short anywhere, a code the client does not know.
- **J1939.** Nodes that use the two decisions of the crate end up with
  different addresses. Hard: claims that cross, a third node that is met later.
- **Maintenance.** A verdict is right, nothing is left running, data that is
  refused changes no generated table, and with the hook installed main is not
  pushed before the CI has passed on the working tree. Hard: a race between two
  processes with only a pause between them, receivers of earlier tests that
  still run, a crash between two writes, a tree that changes while it is walked.

`PROJECT.json` lists the hazards one by one, each at its line with the
properties that would catch it.

## The modules

| Module | Models | Composes |
| --- | --- | --- |
| `IsoTp` | the arithmetic of `segment`, the closed form of its frames, the PDUs | |
| `Segmenter` | `segment`, a turn of its loop a step (isotp 139-167) | `IsoTp` |
| `PduEncoding` | `ProtocolDataUnit::encode` (isotp 94-135) | `Segmenter` |
| `Reassembler` | `Reassembler::ingest`, a branch an action (isotp 179-221) | `IsoTp` |
| `MessageChannel` | abstract specification: messages delivered whole and in order | |
| `IsoTpTransfer` | sender, faulty bus, receiver | `Reassembler`; implements `MessageChannel` |
| `SocketOpen` | `open` and `Drop` of the three sockets (socketcan 223-274, 347-382, 463-589) | |
| `CanFrame` | identifiers and frames (core 45-149) | |
| `NativeFrame` | `send` and `recv_native` (socketcan 210-221, 296-345, 389-441) | `CanFrame` |
| `Selection` | what a filter keeps of a sequence, without recursion | |
| `CaptureCodec` | the three formats as pairs of operators | `CanFrame`, `Selection` |
| `CapturePath` | a capture on its way through files and busses | `CaptureCodec`, `NativeFrame` |
| `SequenceRunner` | `cantools sequence` (cli 308-351) | |
| `Replay` | `cantools play` (cli 229-254) | |
| `Monitor` | `run_monitor`, `run_loop` (tui 44-85) | |
| `Commands` | a process of `cantools` that runs one of these three (cli, `main`) | `SequenceRunner`, `Replay`, `Monitor` |
| `DbcFile` | the records `can_dbc` parses a file to | |
| `DbcDecode` | loading and `decode_frame` (dbc 82-325) | `DbcFile` |
| `UdsClient` | `Client::send`, `decode_response`, a transport and an ECU (uds 14-190) | |
| `AddressClaim` | `from_can_id`, `resolve_address_claim` and the nodes that call them (j1939 45-87) | |
| `Decoders` | a program that uses one of these three libraries | `DbcDecode`, `UdsClient`, `AddressClaim` |
| `SmokeTest` | `run_socketcan_smoke_test` (xtask 180-230) with its processes, `dump` and `send` (cli 265-295) | |
| `Codegen` | `codegen`, `write_if_changed` (xtask 60-66, 294-412) | |
| `Placeholders` | `check_placeholders`, the walk over the tree (xtask 414-467) | |
| `Xtask` | `main`, the CI commands, `install-hooks` and the pre-push hook | `SmokeTest`, `Codegen`, `Placeholders` |

`MC*` modules give the constants of their module values. `SocketOpen` needs
only what a configuration can say and has none. `Commands`, `Xtask` and
`Decoders` put parts side by side that share no state, with `INSTANCE`: a
property of a part is stated in the part and named again in the whole.
`*Proofs` modules hold the theorems. Operators with a comment "Mutant" are
variants with a plausible bug; no specification uses them, they only serve to
show that each property notices such a bug.

How the state corresponds to the code:

- `Segmenter`: `offset`, `seq`, `pdus` are the locals of `segment`, `len` and
  `cap` its arguments. A payload is its length and a PDU carries the slice
  `[from, to)` it copies, because `segment` never reads a byte.
- `Reassembler`: the three fields of the struct, `None` as -1, and the result
  of the last call. `announced` and `accepted` are history for the properties.
  `take_if_complete` is part of the two actions that call it.
- `IsoTpTransfer`: `Pdu(m, k)` is the k-th frame `segment` returns for message
  m, by the closed form that `Segmenter` is checked and proved to compute;
  the receiver is the module `Reassembler` itself, action by action. Each byte
  knows its message and place. The bus and the loops at its ends are external.
- `SocketOpen`: `call` is the call of `open` in progress, one action a system
  call; `handles` are the values returned to the caller. Closing is part of the
  action that fails. The kernel's interface table is `ifindex` (0 when the name
  is unknown); its two actions may come between any two steps.
- `CapturePath`: `capture` is what the last reader returned, `original` what
  the first writer was given; an event carries a serial number for the
  properties. `Rewrite` is `write_path` followed by `read_path`. In
  `TornRewrite` the writer of an ASC file is cut off within a line, and what
  it leaves is read like any other file. `ReplayOntoBus` sends every frame and
  receives it with another socket.
- `SequenceRunner`: `phase` is the place in the loop, `left` is the deadline
  minus now, which is all the code compares; `nap` is what remains of a sleep.
- `Replay`: `capture` is what is played and `stage` the call made next for the
  event at `position`; `clock` and the times `sent`; a sleep may overrun by up
  to `MaxLate`, a send take up to `MaxSend`.
- `Monitor`: `pc` names the next call; `term` is what has been changed of the
  terminal and not put back; `socket` is the kernel's receive queue, `received`
  a history; a frame is known by its number.
- `Commands`: `command` is the command the process was started with; it never
  changes, and the variables of the other two stay as they are.
- `DbcDecode`: a payload is its length and the set of its one bits. What
  `can_dbc` parses is a record of the fields the decoder reads. A signal is
  where it stands in its message, a message where it stands in its file.
  `TwoTo(n)` is what shifting 1 by n bits gives; a value of 64 unsigned bits
  becomes the signed one the code casts it to.
- `UdsClient`: `inbox` is what the transport has not handed over yet; every
  payload in it carries what the ECU meant by it, for the property. The ECU
  answers in order, may be late by any number of calls and may say "response
  pending" (0x78) any number of times. Of every answer any number of bytes may
  be missing at the end (`Answers`, `Cut`).
- `AddressClaim`: identifiers are the 29-bit numbers of the code, a claim is
  the frame with PGN 0xEE00. What the crate decides is `Pgn`, `SourceAddress`
  and `KeepsAddress`; the node around them (`Wanted`, `tries`, the queues
  `heard`) is external and does what SAE J1939-81 says. Other traffic comes
  from any address with any data, also data that would be a low NAME.
- `Decoders`: `subject` picks at the start which library is used.
- `SmokeTest`: `test` is where the test is, `receiver` and `sender` are its
  child processes. The receiver is spawned through `orb` and a shell before its
  `timeout` counts, binds when it gets to it, reports the first frame it
  receives or is killed. A receiver that still runs when the next test begins
  (`Renew`) becomes one of the `orphans`. `PrintsInjected` is the search in the
  printed line, by what it can tell apart.
- `Codegen`: the contents of a file of data is a version, a generated file the
  version it was made of, or `Torn`. Reading, then writing, one table a step;
  somebody may edit the data between any two of them.
- `Placeholders`: `stack` and `files` are those of the walk, `present` the
  tree, from which a build may delete. Names are only told apart as skipped
  or not, contents as text with or without a marker.
- `Xtask`: `command` is the command being run and `rest` the stages it has
  still to run; a stage is an external command that succeeds or fails, or one
  of the three parts. Each command is a new xtask: `Begin` starts the part anew,
  and a smoke test above all (`tested`, a history, says that the command has
  started its own). `session` is what a developer does in turn. A push is a
  sequence of refs; `Push` is git running the hook or not, and `GateMain` the
  loop of the hook that looks for main among them.

## What is checked

| Run | Shows | Bounds |
| --- | --- | --- |
| `Segmenter` | `Tiling`: the slices cover the payload once. `FitsFrame`: no PDU exceeds the frame. `ClosedForm`: frame k is the k-th of the closed form. `Recoverable`: the encoded control bytes tell type, length and number again. `Progress`: every turn consumes a byte | lengths 0-36, 300, 705; capacities 2, 3, 4, 7, 8: two wraps of the sequence number at capacity 2, both bytes of the announced length |
| `Reassembler` | `Collecting`, `Delivery`: for PDUs in any order | two byte values, PDUs of 0-2 bytes, totals 0-4: frames that end a transfer exactly, overshoot it or carry nothing; all 16 numbers |
| `Transfer` | `Complete`, `IsMessageChannel` (refinement), `AllDelivered` (liveness) | messages of 18, 1 and 3 bytes at capacity 2: 18 consecutive frames, hence a wrap, and up to 17 losses, so that a whole round of numbers can vanish; 2 repetitions, 2 frames under way |
| `SocketOpen` | `Exclusive`, `HandlesAreBound`, `OnlyLookupsLeak` | three descriptors, three kinds of socket, the interface re-created twice |
| `SocketLeak` | violates `NoLeak` | as above, without raw sockets and re-creation |
| `CapturePath` | `Survivors`, `TimeOrder`, `Mf4Exact`, `RoundTrip`, `Stable`, `FrameLossNoted` | captures of two events, three conversions or replays in a row; lengths around 8, 32 and 64, times around a microsecond and a second boundary; single frames from other programs with all flag bits and lengths beyond the limits |
| `CaptureSilentLoss` | violates `NoSilentLoss` | ASC only |
| `Commands` | of `sequence` `NothingTimelyMissed`, `GivesUpInTime`, `Greedy`, `Terminates` (liveness); of `monitor` `Window`, `Restored`, `QuitWorks`, `FrameShown` (both liveness); of `play` `NeverFaster`, `NeverFasterScaled` | send, expect, sleep, expect, expect; four frames told apart in every order and an endless stream of others, a queue of 3; poll interval 2 ticks, timeouts 3, 1 and 2, on both sides of it. A window of 2, two keys. Captures of up to three events at times 0, 2 and 5 in every order and two of four with falling times; seven modes, two of them below the floor |
| `Decoders` | of DBC `ReferenceValues`, `CutExactly`, `ModesMatch`, `OneSource`; of UDS `RightAnswer`; of J1939 `AddressesSettle` (safety and liveness) | every signal of 1-10 bits at every start bit of two bytes, both byte orders, signed or not, against payloads of 0-3 bytes; four databases with shared numbers, nested multiplexing and a multiplexor that is cut off, loaded in every order. Three requests, any two of them in turn, the second with an answer to the first still to come, codes known and unknown, every answer whole or cut at any byte. Three nodes of which two want one address and one then meets the third, with frames of other kinds from the disputed address |
| `Xtask` | `Verdict`, `NothingLeftRunning` (liveness) of the smoke test; `AllOrNothing` of codegen; `VerdictHolds` of the search; `MainIsGated` of the hook | a pause of one second and a timeout of four; a stranger's frame that prints alike and one that does not; two smoke tests in turn, the second while receivers of the first may still run; two edits around two runs of codegen, with errors and crashes at every write; two searches of a tree with a marker in each kind of file; sessions that install the hook twice and then push main, another ref and both, or push without it |

The type invariants are proved, those of `Segmenter`, `Reassembler`,
`SocketOpen`, `Replay` and `SequenceRunner` as theorems and the others as parts
of the inductive invariants below, so the runs spend their time on other
properties.

### The two violations

- `NoLeak`: opening an ISO-TP or J1939 socket on an interface that does not
  exist leaks a descriptor (socketcan 476, 535). A raw socket can leak one too,
  if the interface goes away between bind and the second lookup (381).
  `OnlyLookupsLeak` shows that there is no other leak: each is in a step of
  `open` that looks the name up and finds no interface.
- `NoSilentLoss`: `docs/ARCHITECTURE.md` promises a fidelity note for everything
  a format cannot represent. ASC rounds times, invents the name `can0` and drops
  FD flags and the data of remote frames without one. What does hold of BLF and
  MF4 is `FrameLossNoted`.

### Disagreements met that no run states

- `segment` does not return for capacities 0 and 1. `encode` writes the length
  of a single frame of 16 bytes or more into the type nibble and announces
  totals modulo 4096. If a first frame is lost, the rest of its message may be
  appended to the transfer before it (isotp 193).
- The index a raw socket records may belong to a later interface of the same
  name than the one it is bound to; `HandlesAreBound` says that it is never
  that of one that went before. `send` panics on a frame whose public payload
  was made too long (socketcan 399). After a failed bind `errno` is read only
  when the descriptor has been closed (494).
- MF4 turns an absent index into 0 without a note.
- `ReplayMode::Preserve` is documented as preserving deltas exactly (core 242),
  but each send and each overrun of a sleep delays everything after it.
- `sequence` takes identifiers up to 0x7ff for standard ones (cli 172), and
  adds the timeout of an expect to the clock unchecked (335).
- After a failed setup call the monitor leaves the terminal in raw mode, and
  with a limit of 0 its window grows for ever. A bus that is never silent keeps
  it from reading keys.
- A DBC signal of size 0 or of more than 64 bits overflows a shift (dbc 315).
- The UDS client does not compare the service of an answer with that of its
  request, so it takes a late one for the right one, and "response pending" is
  an error to it (uds 190). A positive answer that was cut short is taken for a
  shorter one (151-156); a refusal that was cut short is an error.
- Two J1939 nodes of equal NAME both keep the address (j1939 81-87).
- The smoke test passes on a stranger's frame that prints alike, and fails if
  the receiver needs more than its second to bind (xtask 194).
- The search for placeholders asks for a word boundary after `todo!`, which
  `todo!(` does not have (xtask 416).
- The hook runs the CI on the working tree, which need not be the commits that
  are pushed (pre-push 17-21), and `git push --no-verify` passes it by.
- Tables of two versions of the data can come from an edit between two reads of
  codegen (xtask 295-300).

Each is in the list of hazards or told by the comment of a property.

### Fairness

- `Transfer`: weak fairness of `Send` and `Receive`. The sending and receiving
  loops are ordinary loops of running processes; nothing is assumed of
  `Lose` and `Repeat`, and `AllDelivered` is claimed only if nothing is lost.
- `Commands`, `sequence`: weak fairness of the runner (the process is scheduled)
  and of `Tick` (time passes). None of arriving frames. `Terminates` is about runs in
  which time also passes while frames are looked at; the variable `prompt`
  picks instead the runs of an infinitely fast process, of which the bounds on
  waiting are stated, since for a process that may be suspended for any time
  nothing could be said.
- `Commands`, `monitor`: weak fairness of the program. That `poll` returns is part of it: it
  has a timeout of 100 ms. The number of frames is bounded, which stands for a
  bus that is quiet now and then; without it `QuitWorks` fails. Nothing is assumed of a replay.
- `Xtask`: weak fairness of the smoke test's process, of its sender, of the
  clock, of the `timeout` that begins to count and of a receiver that has a
  frame to report or is to be killed; of the receivers of earlier tests only
  that their `timeout` begins to count and kills them. None of binding: a
  receiver need not get that far. None of the other commands, which may take for
  ever.
- `Decoders`: weak fairness of the nodes of the bus (`Look`), which process
  what they have received. None of joining or talking.

Everything else is safety and needs none.

### Bounds and abstractions

Bounds on the environment: `MaxLosses`, `MaxRepeats`, `WireRoom` (`Transfer`),
`MaxIndex` (`SocketOpen`), `MaxSteps` and `TornLengths` (`CapturePath`: three
conversions, and files cut off inside the header, inside a line and later),
`MaxFrames`, `Room`, `MaxKeys`, `MaxLate`, `MaxSend` (`Commands`),
`MaxDatabases`, `MaxCalls`, `MaxChatter` (`Decoders`), `MaxForeign`,
`MaxEdits`, `Sessions`, `Pushes` (`Xtask`). None bounds something the program
counts, except the captures and files themselves. `Pause` is the one second of
the code; `Timeout` is 4 and not its 20 seconds. All that matters of the two is
that the pause is shorter, and that a second test can begin while receivers of
the first still count; the theorem is for every such pair.

Two calls of the client are enough for a late answer to meet the wrong request;
more of them, or an answer late by two calls, is left to the theorem. Three nodes are enough for one that yields
an address to take another and be met there.

Floating point: `CaptureCodec` rounds to multiples of `SecondsUlp` and
`NanosUlp`, the distance of neighbouring `f64` at the present size of a Unix
time in seconds (238 ns) and in nanoseconds (256 ns). It rounds halves up where
IEEE rounds to even; no property depends on the difference. `Replay`
uses exact fractions for scales, and integers for the time between two events:
the cast of the clamped difference to `u64` (cli 241) changes it only beyond 584
years.

## What is proved

Every invariant and every safety property of a step that a run checks is a
theorem, for every value of the constants; TLC has checked the same statements
first on the instances above. Each property follows from the inductive
invariant named here.

**`SegmenterProofs`.** `TypeCorrect` is inductive as it stands once it says
`offset <= len`; `CutBounds` gives that of every cut. `TilesPayload` needs more
than `Tiling`: that the last slice ends at `offset` is what makes the next one
start where it must, and that "loop" is only reached with a frame made.
`FramesFit` and `LoopProgresses` assume `UsableCapacities` (every capacity is at
least 2), the condition under which the code is meant to be used, and bound the
length of each cut. `FramesInClosedForm` carries `offset` and `seq` along: in
the loop they are `FrameStart` and `FrameSn` of the next frame; the lemmas
`FrameStartStep` and `FrameSnStep` are the two recurrences.

`EncodesRecoverably`, of `PduEncoding`, needs the loop only for what it
announces (`Announcing`: single and first frames carry the length of the
payload, which `FramesFit` bounds by the capacity). The rest is arithmetic of
bytes: one lemma for each kind of PDU writes the control bytes down and reads
them again. `NibbleCapacities` and `TwelveBitLengths` are the limits under
which the fields hold the numbers; the code does not check them.

**`ReassemblerProofs`.** `BufferIsAccepted` is inductive with `TypeOK`: each of
the branches either leaves everything alone or runs `take_if_complete`, which
ends the transfer or leaves fewer bytes than announced. `DeliversAccepted` is an
action property and follows, with `BufferIsAccepted`, from the two branches
that take a frame.

**`IsoTpTransferProofs`.** `TransferIsChannel` is the refinement for all
messages, all usable capacities and any number of losses and repetitions. Two
invariants carry it. `Line` says that the frames under way, with those the
sender has not sent yet, are consecutive frames of consecutive messages.
`InProgress(c, n, l)` says of a transfer of message c in which n frames were
accepted, the last of them frame l, that its buffer is the beginning of the
message if n = l; if frames were lost in between, by whole rounds of sixteen
numbers, the buffer is shorter than l frames would have made it and stays so:
it is not completed at all, rather than with the wrong bytes.
Once a first frame is lost nothing is claimed any more, as in the run.

`TransfersComplete` adds what the receiver has achieved when nothing is lost.
`CaughtUp(p)` relates it to the oldest frame under way, at place p of the line:
everything before p has been taken in, so that a message that ends before p is
delivered and one that p continues is in progress with every byte up to p. A
frame that comes twice is either refused for its number or, when it is a first
or single frame, begins the message again. `Short` says that a transfer in
progress lacks a byte, so that it is not delivered by a repetition, and `Origin`
which messages the payloads delivered are those of, in their order and only
those of one frame twice. The property compares payloads, so its theorem assumes
that no two messages are empty (`TellApart`); all others differ by their bytes.

**`SocketOpenProofs`.** The invariant says who owns what, handle by handle: the
descriptor of a handle is open and bound, no other handle has it, and the call
of `open` in progress does not have it either. `HandlesAreBound` needs in
addition what the steps before have achieved: `bind` is reached with an index
that is not 0 and `record` with a raw socket already bound. `LookupsAloneLeak`
goes through the steps with one lemma for each way to end one: going on, closing
and handing the descriptor over leak nothing, and `Fail`, which only the two
lookups reach, loses exactly one, the descriptor of the call. That the step is a
lookup of that kind, and that it found no interface, is part of what is shown.

**`CapturePathProofs`.** `PathInv` is inductive: three of the properties,
`Survivors`, `TimeOrder` and `Mf4Exact`, with the types and `Settled` (what was
read from a file reads back unchanged when it is written to that format again).
The steps differ in what they do to an event and agree in how they treat a
capture: `Inherits(pos)` says that each event of the new capture stems from one
of the old, in the same order, with the same identifier and class, and which
events may be missing. One lemma for each step gives it; `HeirsKeep` concludes
for all of them. Which events a reader keeps is a filter, and the lemmas on
`Selection` (what stands at each rank, and that ranks are kept in order) take
the place of an induction over the capture. `TimesKeepOrder` needs that every
rounding is monotone, `RewritesSettle` that rounding twice is rounding once:
exact arithmetic for MF4 and BLF, and for ASC the assumption
`PrecisionAssumption` (`2 * SecondsUlp + NanosUlp < 1000` nanoseconds, which
holds until 2038), so that the three roundings of a reader do not add up to
half a microsecond. `ReplaysRoundTrip` and the identity of frames on the bus
rest on lemmas about `CanFrame` and `NativeFrame` alone: pack and unpack an
identifier with its flag bits, for every identifier, length and payload.
Assumed are captures of well-formed events, a recorder whose clock is not set
back, and names that a format's cut keeps among the names.

**`CommandsProofs`.** A command leaves the variables of the others alone, so
each theorem is one about its part.

*Monitor.* `WindowIsLatest` rests on `Aligned`, which says element by element
that the window is the end of what was received; `PushAligns` is the induction
step. `TerminalIsRestored` carries, in `Remaining`, what each call of the
epilogue still has to put back.

*Replay.* `ReplaysNoFaster` is about any two events and a replay only looks at
neighbours: the lemma `GapsAdd` adds the gap of the last pair to what is known
of the pairs before, using that a clamped delta is at least the difference even
when time goes back. The invariant carries in addition that the clock is not
behind the last send. `ReplaysNoFasterScaled` is the same sum at a scale,
without dividing: `CutQuotient` bounds what the truncation to whole nanoseconds
may take away, and `ScaledGapsAdd` adds one such loss a sleep.

*Sequence.* `SequenceTypes` also counts the frames that came. For waiting,
`Naps` says that a nap is at most one poll interval and begins before the
deadline, `Alert` that a prompt process does not let time pass otherwise;
`GivesUpSoon` and `MissesOnlyLateFrames` follow. `TakesFirstFrames` needs to
know where the queue stands in the log: `Lined` says that the queue is the end
of the log, `Taken` and `Caught` that everything before it has been taken by a
finished expect or passed over by the one that runs.

**`DecodersProofs`.** *UDS.* `UdsInv` says of everything that waits in the inbox
that its bytes read as what the ECU meant by them (`Waiting`; of an answer that
was cut short anywhere, `CutPositive` and `CutNegative` say that a positive one
reads as its beginning and a negative one as an error), and that nothing but answers to the present
request waits if nothing was left over when it was sent (`OfThisRequest`).

*DBC.* `DbcInv` is short: the outcome is `Decode(databases, frame)`. The four
theorems are therefore about `Decode`, for any databases and any frame. What
the code computes in a loop is a recursive function here, and the provers know
nothing of one until it is shown to exist: the lemmas do that for `TwoTo`, the
walk and the two loops over bits, with an induction over the natural numbers
that is stated with sets (`InductionOnNat`), as the theorems of the library
that take a predicate cannot be used. From it follow the powers of two, the closed form of
the Motorola walk (`FromTop`: the k-th bit it visits), and, bit by bit, that the
value read is the number with these bits; a signed one is that number less
`TwoTo(size)` when the sign bit is set. `ValuesAreReferences` is for sizes from
1 to 64; 64 unsigned bits come out as the signed number of the same bits, as the
property says.

*J1939.* `YieldsToLower` is the safety half of `AddressesSettle`. Its invariant
says that every frame in a queue that is an address claim is truthful: the
address is owned by a node of that NAME or, by now, by one of a lower NAME
(`Owned`). Other
traffic never looks like a claim, whatever data it carries (`TrafficIsNoClaim`,
the arithmetic of the PDU format for every identifier). Owners stay, since only
a lower NAME takes an address from them, and then that node is the owner.

**`XtaskProofs`.** *Smoke test.* `Evidence` says that what is in the queue, and
what was printed, was sent by our sender or is a stranger's; `Smooth` says where
the two processes are as long as nothing has gone wrong, which rules out every
failure without a cause. It uses that the pause is shorter than the timeout.

*Codegen.* `Reading` and `Writing` say for each table whether it has been read
and written; an error found in reading comes before the first write, and success
after the last.

*Search.* The verdict must hold for whatever is left of the tree when the walk
is over. `Walking` is the invariant of a search: there is a set of directories
that have been read, closed but for what waits on the stack. When the stack is
empty that set holds every directory the tree still has below its root, since
`Rooted` says that a deletion takes everything below with it. Assumed is that
the tree is one: directories do not share entries and all lie below the root.

*Hook.* `InTurn` says that the stages passed, followed by those to run, are the
stages of the command, so that success means all of them; `Effects` what passing
them has done, `Own` that a smoke test that is under way or over was started
by this very command, and `Guarded` that a push
waits for `ci-all-local` and that the settings of the hook stay once
`install-hooks` has made them.

The assumptions are the `ASSUME`s of the modules (lengths and capacities are
natural numbers, chunks are sequences of bytes, scales have positive
denominators, steps have the fields of their kind), which TLC evaluates in every
run. The modules that `Commands`, `Xtask` and `Decoders` instantiate state theirs
as an operator `Assumptions`, and the whole assumes it of each.

Only model-checked is liveness, which is out of the prover's reach:
`AllDelivered`, `Terminates`, `QuitWorks`, `FrameShown`, `NothingLeftRunning`
and the end of `AddressesSettle`. Left out of the theorems, as of the run, are
DBC signals of size 0 and of more than 64 bits, for which the code overflows.

## What is not modelled

- OBD values: four linear formulas and a text. The priority of a J1939
  identifier and the names of PGNs: a field and a table.
- `cantools gen`, the parsing of arguments, and rendering: text. `dump` and
  `send` are modelled as the processes of the smoke test.
- `interfaces`: a copy of a table of libc.
- The layout of BLF and MF4 files, text formatting and parsing, and `can_dbc`,
  `ablf`, `mf4-rs`, `toml`, `crossterm`, `ratatui`: external.
- The ISO-TP and J1939 of the kernel behind the sockets of `cantools-socketcan`.
- The text that `codegen` makes of a table, the pattern of the search for
  placeholders, and what the stages of the CI do: a version, a set, and success
  or failure. The generated tables and `spec-data` are constants.

## Plan

Done, in this order: ISO-TP (`Segmenter`, `Reassembler`, `IsoTpTransfer`),
descriptors (`SocketOpen`), captures (`NativeFrame`, `CaptureCodec`,
`CapturePath`), the waiting commands (`SequenceRunner`, `Replay`, `Monitor`),
decoding (`DbcDecode`, `UdsClient`, `AddressClaim`), maintenance (`SmokeTest`,
`Codegen`, `Placeholders`, `Xtask`), and the proofs above.

What is left:

1. A `Transport` over the ISO-TP of the crate, once the repository has one:
   `UdsClient` on top of `IsoTpTransfer`, with timeouts.
2. The block structure of BLF and MF4 files, if the repository comes to write
   it itself; now it is in `ablf` and `mf4-rs`.
3. The formulas of `cantools-obd`, if they come to keep state or to be composed.
