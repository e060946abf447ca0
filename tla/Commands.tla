------------------------------- MODULE Commands -------------------------------
(***************************************************************************)
(* cantools-cli, `main`: a process of `cantools` runs the one command it   *)
(* was called with.  These three wait for something: `sequence`, `monitor` *)
(* and `play`.  They share nothing but the kernel and the clock, so a      *)
(* process is looked at with one of them.                                  *)
(***************************************************************************)
EXTENDS Naturals

CONSTANTS
  Steps, Ids, Noise, PollTicks, Flood,  \* of SequenceRunner
  Limit, MaxKeys,                       \* of Monitor
  Room, MaxFrames,                      \* of both
  Captures, Modes, MaxLate, MaxSend     \* of Replay

VARIABLES
  command,  \* "sequence", "monitor" or "play"
  prompt, step, phase, left, nap, queue, log, napped, matched,
  pc, result, term, events, shown, socket, keys, arrived, pressed, received,
  capture, mode, position, stage, clock, sent

sequences == <<prompt, step, phase, left, nap, queue, log, napped, matched>>
monitors == <<pc, result, term, events, shown, socket, keys, arrived, pressed, received>>
plays == <<capture, mode, position, stage, clock, sent>>
vars == <<command, sequences, monitors, plays>>

Sequence == INSTANCE SequenceRunner
Mon == INSTANCE Monitor
Play == INSTANCE Replay

ASSUME PartsAssumption == Sequence!Assumptions /\ Mon!Assumptions /\ Play!Assumptions
ASSUME NothingToPlay == << >> \in Captures /\ Play!Immediate \in Modes

-----------------------------------------------------------------------------
\* A command that does not play has nothing to play.
Init ==
  /\ command \in {"sequence", "monitor", "play"}
  /\ Sequence!Init /\ (command # "sequence" => prompt)
  /\ Mon!Init
  /\ Play!Init /\ (command # "play" => capture = << >> /\ mode = Play!Immediate)

Next ==
  \/ command = "sequence" /\ Sequence!Next /\ UNCHANGED <<command, monitors, plays>>
  \/ command = "monitor" /\ Mon!Next /\ UNCHANGED <<command, sequences, plays>>
  \/ command = "play" /\ Play!Next /\ UNCHANGED <<command, sequences, monitors>>

\* A command that waits is scheduled, and time passes; nothing is assumed of
\* a replay, of the bus and of the operator.
Fairness ==
  /\ WF_sequences(command = "sequence" /\ Sequence!Runner)
  /\ WF_sequences(command = "sequence" /\ Sequence!Tick)
  /\ WF_monitors(command = "monitor" /\ Mon!RunMonitor)

Spec == Init /\ [][Next]_vars /\ Fairness

-----------------------------------------------------------------------------
\* The promises of the commands, stated in their modules.
Greedy == Sequence!Greedy
NothingTimelyMissed == Sequence!NothingTimelyMissed
GivesUpInTime == Sequence!GivesUpInTime
Terminates == command = "sequence" => Sequence!Terminates
Window == Mon!Window
Restored == Mon!Restored
QuitWorks == Mon!QuitWorks
FrameShown == Mon!FrameShown
NeverFaster == Play!NeverFaster
NeverFasterScaled == Play!NeverFasterScaled
=============================================================================
