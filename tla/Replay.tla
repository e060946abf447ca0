-------------------------------- MODULE Replay --------------------------------
(***************************************************************************)
(* `cantools play`: the frames of a capture are sent one after another,    *)
(* with a sleep for the time that lay between two of them.  The sleep      *)
(* starts only when the send before it has returned.                       *)
(*                                                                         *)
(* Times are nanoseconds; a scale is a fraction <<numerator, denominator>>.*)
(***************************************************************************)
EXTENDS Integers, Sequences

CONSTANTS
  Captures,  \* the captures there are to play: sequences of timestamps
  Modes,     \* the modes asked for
  MaxLate,   \* bound: how much longer than asked a sleep takes
  MaxSend    \* bound: how long a send takes

Immediate == [type |-> "immediate"]
Preserve == [type |-> "preserve"]
Scale(num, den) == [type |-> "scale", num |-> num, den |-> den]

\* Assumed of the constants, by the module that instantiates this one.
Assumptions ==
  /\ Captures \subseteq Seq(Int)
  /\ Modes \subseteq {Immediate, Preserve}
                        \cup [type : {"scale"}, num : Int, den : Nat \ {0}]
  /\ MaxLate \in Nat /\ MaxSend \in Nat

VARIABLES
  capture,   \* the timestamps of the capture being played
  mode,
  position,  \* the event to be sent next
  stage,     \* "top", "send", "done", or "failed" when a send was refused
  clock,
  sent       \* sent[i]: when the send of event i began

vars == <<capture, mode, position, stage, clock, sent>>

-----------------------------------------------------------------------------
(* `scale.max(0.000_1)`; a scale below that, even a negative one, is that.  *)
Floored(scale) ==
  IF scale.num * 10000 >= scale.den THEN scale ELSE Scale(1, 10000)

\* Mutant: multiplied by the scale, not divided by it.
DelayMultiplied(delta, m) ==
  CASE m.type = "immediate" -> 0
    [] m.type = "preserve" -> delta
    [] m.type = "scale" -> (delta * Floored(m).num) \div Floored(m).den

Delay(delta, m) ==
  CASE m.type = "immediate" -> 0
    [] m.type = "preserve" -> delta
    [] m.type = "scale" -> (delta * Floored(m).den) \div Floored(m).num

\* A timestamp before the one of the event sent last counts as the same.
Delta(from, to) == IF to >= from THEN to - from ELSE 0

Init ==
  /\ capture \in Captures
  /\ mode \in Modes
  /\ position = 1
  /\ stage = "top"
  /\ clock = 0
  /\ sent = << >>

Finish ==
  /\ stage = "top"
  /\ position > Len(capture)
  /\ stage' = "done"
  /\ UNCHANGED <<capture, mode, position, clock, sent>>

\* Nothing is waited for before the first event.
SendFirst ==
  /\ stage = "top"
  /\ position = 1
  /\ position <= Len(capture)
  /\ stage' = "send"
  /\ sent' = Append(sent, clock)
  /\ UNCHANGED <<capture, mode, position, clock>>

\* Mutant: events are sent on a schedule that began with the first.
SleepUntilSchedule ==
  /\ stage = "top"
  /\ position > 1
  /\ position <= Len(capture)
  /\ \E late \in 0 .. MaxLate :
       LET due == sent[1] + Delay(Delta(capture[1], capture[position]), mode)
       IN  clock' = (IF due >= clock THEN due ELSE clock) + late
  /\ stage' = "send"
  /\ sent' = Append(sent, clock')
  /\ UNCHANGED <<capture, mode, position>>

\* `thread::sleep`, which may take longer; then the send begins.
SleepThenSend ==
  /\ stage = "top"
  /\ position > 1
  /\ position <= Len(capture)
  /\ \E late \in 0 .. MaxLate :
       clock' = clock + Delay(Delta(capture[position - 1], capture[position]), mode) + late
  /\ stage' = "send"
  /\ sent' = Append(sent, clock')
  /\ UNCHANGED <<capture, mode, position>>

Sent ==
  /\ stage = "send"
  /\ \E took \in 0 .. MaxSend : clock' = clock + took
  /\ stage' = "top"
  /\ position' = position + 1
  /\ UNCHANGED <<capture, mode, sent>>

\* The socket refuses the frame: the rest of the capture is not played.
SendFails ==
  /\ stage = "send"
  /\ stage' = "failed"
  /\ UNCHANGED <<capture, mode, position, clock, sent>>

Next == Finish \/ SendFirst \/ SleepThenSend \/ Sent \/ SendFails

Spec == Init /\ [][Next]_vars

-----------------------------------------------------------------------------
TypeOK ==
  /\ capture \in Seq(Int)
  /\ mode \in Modes
  /\ position \in 1 .. Len(capture) + 1
  /\ stage \in {"send", "failed"} => position <= Len(capture)
  /\ stage \in {"top", "send", "done", "failed"}
  /\ clock \in Nat
  /\ sent \in Seq(Nat)
  /\ Len(sent) = IF stage \in {"send", "failed"} THEN position ELSE position - 1

(***************************************************************************)
(* A replay is never faster than the capture: between any two events lies  *)
(* at least the time between their timestamps, whatever was captured in    *)
(* between and even where timestamps jump back.                            *)
(***************************************************************************)
NeverFaster ==
  mode = Preserve =>
    \A i, j \in 1 .. Len(sent) : i < j => sent[j] - sent[i] >= capture[j] - capture[i]

(***************************************************************************)
(* The same at another speed, where each sleep is cut to a whole           *)
(* nanosecond and so may be up to one short.                               *)
(***************************************************************************)
NeverFasterScaled ==
  mode.type = "scale" =>
    LET scale == Floored(mode)
    IN  \A i, j \in 1 .. Len(sent) :
          i < j => (sent[j] - sent[i] + (j - i)) * scale.num
                      >= (capture[j] - capture[i]) * scale.den
=============================================================================
