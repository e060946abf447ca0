---------------------------- MODULE CommandsProofs ----------------------------
(***************************************************************************)
(* The commands that wait, for every file of steps, every traffic, every   *)
(* capture and every mode.  `sequence`: which frames satisfy the expects,  *)
(* and when one gives up.  `monitor`: what the window shows, and that the  *)
(* terminal is put back.  `play`: it is never faster than was asked for.   *)
(***************************************************************************)
EXTENDS Commands, Integers, Sequences, SequenceTheorems, TLAPS

-----------------------------------------------------------------------------
(* A process that runs one of the commands behaves as that command, and as  *)
(* the others before they begin.                                            *)

LEMMA SequenceRuns == Spec => Sequence!Spec
<1>1. Init => Sequence!Init
  BY DEF Init
<1>2. [Next]_vars => [Sequence!Next]_Sequence!vars
  BY DEF Next, vars, sequences, Sequence!vars, Sequence!history
<1> QED
  BY <1>1, <1>2, PTL DEF Spec, Sequence!Spec

LEMMA MonitorRuns == Spec => Mon!Spec
<1>1. Init => Mon!Init
  BY DEF Init
<1>2. [Next]_vars => [Mon!Next]_Mon!vars
  BY DEF Next, vars, monitors, Mon!vars
<1> QED
  BY <1>1, <1>2, PTL DEF Spec, Mon!Spec

LEMMA PlayRuns == Spec => Play!Spec
<1>1. Init => Play!Init
  BY DEF Init
<1>2. [Next]_vars => [Play!Next]_Play!vars
  BY DEF Next, vars, plays, Play!vars
<1> QED
  BY <1>1, <1>2, PTL DEF Spec, Play!Spec

\* The assumptions of the parts, one by one.
LEMMA StepsTyped ==
  Steps \in Seq([type : {"send"}] \cup [type : {"sleep"}, ticks : Nat]
                  \cup [type : {"expect"}, id : Ids, timeout : Nat])
BY PartsAssumption DEF Sequence!Assumptions

LEMMA NoiseApart == Noise \notin Ids
BY PartsAssumption DEF Sequence!Assumptions

LEMMA SequenceBounds ==
  /\ PollTicks \in Nat \ {0} /\ Room \in Nat \ {0} /\ MaxFrames \in Nat
  /\ Flood \in BOOLEAN
BY PartsAssumption DEF Sequence!Assumptions

LEMMA LimitNat == Limit \in Nat
BY PartsAssumption DEF Mon!Assumptions

LEMMA CapturesTyped == Captures \subseteq Seq(Int)
BY PartsAssumption DEF Play!Assumptions

LEMMA ModesTyped ==
  Modes \subseteq {Play!Immediate, Play!Preserve}
                    \cup [type : {"scale"}, num : Int, den : Nat \ {0}]
BY PartsAssumption DEF Play!Assumptions

LEMMA ReplayBounds == MaxLate \in Nat /\ MaxSend \in Nat
BY PartsAssumption DEF Play!Assumptions

-----------------------------------------------------------------------------
(* `cantools sequence`                                                      *)

\* What a step of each kind carries.
LEMMA StepFields ==
  ASSUME NEW s \in 1 .. Len(Steps)
  PROVE  /\ Steps[s].type = "sleep" => Steps[s].ticks \in Nat
         /\ Steps[s].type = "expect" => Steps[s].id \in Ids /\ Steps[s].timeout \in Nat
<1> DEFINE Kinds == [type : {"send"}] \cup [type : {"sleep"}, ticks : Nat]
                      \cup [type : {"expect"}, id : Ids, timeout : Nat]
<1>1. Steps[s] \in Kinds
  <2> HIDE DEF Kinds
  <2>1. Steps \in Seq(Kinds)
    BY StepsTyped DEF Kinds
  <2> QED
    BY <2>1, ElementOfSeq
<1> QED
  BY <1>1

Frames == [id : Ids \cup {Noise}, pos : 0 .. MaxFrames]
Matches == [step : 1 .. Len(Steps), pos : 1 .. Len(log)]

(***************************************************************************)
(* Type correctness: the queue keeps to its room, and what was matched are *)
(* frames of the log.  (For a frame beyond the log there is no place in    *)
(* it: that it is never matched is part of what Greedy rests on.)          *)
(***************************************************************************)
Unnumbered == \A i \in 1 .. Len(queue) : queue[i].pos \notin 1 .. Len(log) => queue[i].id = Noise

\* The expect that runs, in the phases in which one does.
Expecting ==
  /\ phase \in {"check", "recv", "napping", "expired"} =>
       step \in 1 .. Len(Steps) /\ Sequence!Step.type = "expect"
  /\ phase = "sleeping" => step \in 1 .. Len(Steps) /\ Sequence!Step.type = "sleep"

TInv == Sequence!TypeOK /\ Unnumbered /\ Expecting

LEMMA Numbers ==
  /\ Len(Steps) \in Nat /\ PollTicks \in Nat \ {0} /\ Room \in Nat \ {0} /\ MaxFrames \in Nat
  /\ Sequence!Saturated = -(PollTicks + 1) /\ Sequence!Saturated \in Int
<1>1. Len(Steps) \in Nat
  BY StepsTyped, LenProperties
<1> QED
  BY <1>1, SequenceBounds DEF Sequence!Saturated

\* A frame joins the queue, at place pos of the log or after its end.
Arrived(id, pos) ==
  /\ Len(queue) < Room
  /\ queue' = Append(queue, [id |-> id, pos |-> pos])
  /\ \/ pos = Len(log) + 1 /\ pos <= MaxFrames /\ log' = Append(log, id)
     \/ pos = 0 /\ Len(log) >= MaxFrames /\ log' = log /\ id = Noise
  /\ UNCHANGED <<prompt, step, phase, left, nap, napped, matched>>

LEMMA Arrivals ==
  ASSUME Len(log) \in Nat, NEW id, Sequence!Arrive(id)
  PROVE  \E pos \in 0 .. MaxFrames : Arrived(id, pos)
<1>1. CASE Len(log) < MaxFrames
  <2>1. Arrived(id, Len(log) + 1)
    BY <1>1, Numbers DEF Sequence!Arrive, Arrived
  <2> QED
    BY <1>1, <2>1, Numbers
<1>2. CASE ~(Len(log) < MaxFrames)
  <2>1. Arrived(id, 0)
    BY <1>2, Numbers DEF Sequence!Arrive, Arrived
  <2> QED
    BY <2>1, Numbers
<1> QED
  BY <1>1, <1>2

\* A step of the program that leaves queue and log alone.
LEMMA OwnStep ==
  ASSUME TInv, UNCHANGED <<prompt, queue, log, napped, matched>>,
         step' \in 1 .. Len(Steps) + 1,
         phase' \in Sequence!Stopped \cup {"ready", "sleeping", "check", "recv", "napping"},
         left' \in Int, left' >= Sequence!Saturated, nap' \in Nat, Expecting'
  PROVE  TInv'
BY DEF TInv, Sequence!TypeOK, Unnumbered

LEMMA TypeInductive == Sequence!Spec => []TInv
<1>1. Sequence!Init => TInv
  <2> SUFFICES ASSUME Sequence!Init PROVE TInv
    OBVIOUS
  <2>1. Sequence!TypeOK
    BY Numbers, EmptySeq DEF Sequence!Init, Sequence!TypeOK, Sequence!Stopped
  <2> QED
    BY <2>1 DEF Sequence!Init, TInv, Unnumbered, Expecting
<1>2. TInv /\ [Sequence!Next]_Sequence!vars => TInv'
  <2> SUFFICES ASSUME TInv, [Sequence!Next]_Sequence!vars PROVE TInv'
    OBVIOUS
  <2> USE Numbers
  <2>0. /\ step \in 1 .. Len(Steps) + 1 /\ nap \in Nat /\ left \in Int /\ left >= Sequence!Saturated
        /\ phase \in Sequence!Stopped \cup {"ready", "sleeping", "check", "recv", "napping"}
        /\ queue \in Seq(Frames) /\ Len(queue) <= Room /\ Len(queue) \in Nat
        /\ log \in Seq(Ids \cup {Noise}) /\ Len(log) <= MaxFrames /\ Len(log) \in Nat
        /\ napped \in 0 .. Len(log) /\ matched \in Seq(Matches)
    BY LenProperties DEF TInv, Sequence!TypeOK, Frames, Matches
  <2>1. CASE Sequence!Finish
    BY <2>0, <2>1, OwnStep DEF Sequence!Finish, Sequence!history, Sequence!Stopped, Expecting
  <2>2. CASE Sequence!Send
    <3>1. /\ UNCHANGED <<prompt, left, nap, queue, log, napped, matched>>
          /\ step' \in 1 .. Len(Steps) + 1 /\ phase' \in {"ready", "failed"}
      BY <2>0, <2>2 DEF Sequence!Send, Sequence!NextStep, Sequence!history
    <3>2. Expecting'
      BY <3>1 DEF Expecting
    <3> QED
      BY <2>0, <3>1, <3>2, OwnStep DEF Sequence!Stopped
  <2>3. CASE Sequence!Sleep
    <3>1. step \in 1 .. Len(Steps)
      BY <2>0, <2>3 DEF Sequence!Sleep
    <3>2. nap' \in Nat
      BY <2>3, <3>1, StepFields DEF Sequence!Sleep, Sequence!Step
    <3>3. Expecting'
      BY <2>3, <3>1 DEF Sequence!Sleep, Expecting, Sequence!Step
    <3> QED
      BY <2>0, <2>3, <3>2, <3>3, OwnStep DEF Sequence!Sleep, Sequence!history
  <2>4. CASE Sequence!EndSleep
    <3>1. step \in 1 .. Len(Steps)
      BY <2>4 DEF Sequence!EndSleep, TInv, Expecting
    <3> QED
      BY <2>0, <2>4, <3>1, OwnStep DEF Sequence!EndSleep, Sequence!NextStep, Sequence!history,
                                       Expecting
  <2>5. CASE Sequence!Expect
    <3>1. step \in 1 .. Len(Steps)
      BY <2>0, <2>5 DEF Sequence!Expect
    <3>2. left' \in Int /\ left' >= Sequence!Saturated
      BY <2>0, <2>5, <3>1, StepFields, SMTT(30) DEF Sequence!Expect, Sequence!Step
    <3>3. Expecting'
      BY <2>5, <3>1 DEF Sequence!Expect, Expecting, Sequence!Step
    <3> QED
      BY <2>0, <2>5, <3>2, <3>3, OwnStep DEF Sequence!Expect, Sequence!history, Sequence!Stopped
  <2>6. CASE Sequence!CheckDeadline
    <3>1. Expecting'
      BY <2>6 DEF Sequence!CheckDeadline, TInv, Expecting, Sequence!Step
    <3> QED
      BY <2>0, <2>6, <3>1, OwnStep DEF Sequence!CheckDeadline, Sequence!history, Sequence!Stopped
  <2>7. CASE Sequence!RecvFrame
    <3>1. /\ step \in 1 .. Len(Steps) /\ Sequence!Step.type = "expect" /\ queue # << >>
          /\ queue' = Tail(queue) /\ UNCHANGED <<prompt, left, nap, log, napped>>
      BY <2>7 DEF Sequence!RecvFrame, TInv, Expecting
    <3>2. /\ queue' \in Seq(Frames) /\ Len(queue') = Len(queue) - 1
          /\ \A i \in 1 .. Len(queue') : queue'[i] = queue[i + 1]
      BY <2>0, <3>1, HeadTailProperties
    <3>3. Unnumbered'
      BY <2>0, <3>1, <3>2 DEF TInv, Unnumbered
    <3>4. CASE Head(queue).id = Sequence!Step.id
      <4> DEFINE new == [step |-> step, pos |-> Head(queue).pos]
      <4>1. Sequence!Step.id # Noise
        BY <3>1, StepFields, NoiseApart DEF Sequence!Step
      <4>2. 1 \in 1 .. Len(queue) /\ Head(queue) = queue[1]
        BY <2>0, <3>1, EmptySeq
      <4>3. Head(queue).pos \in 1 .. Len(log)
        BY <3>4, <4>1, <4>2 DEF TInv, Unnumbered
      <4>4. new \in Matches
        BY <3>1, <4>3 DEF Matches
      <4>5. matched' = Append(matched, new) /\ step' = step + 1 /\ phase' = "ready"
        BY <2>7, <3>4 DEF Sequence!RecvFrame, Sequence!Match, Sequence!NextStep
      <4> HIDE DEF new
      <4>6. matched' \in Seq(Matches)
        BY <2>0, <4>4, <4>5, AppendProperties
      <4>7. Sequence!TypeOK'
        BY <2>0, <3>1, <3>2, <4>5, <4>6 DEF TInv, Sequence!TypeOK, Frames, Matches
      <4> QED
        BY <3>3, <4>5, <4>7 DEF TInv, Expecting
    <3>5. CASE Head(queue).id # Sequence!Step.id
      <4>1. phase' = "check" /\ UNCHANGED <<step, matched>>
        BY <2>7, <3>5 DEF Sequence!RecvFrame
      <4>2. Sequence!TypeOK'
        BY <2>0, <3>1, <3>2, <4>1 DEF TInv, Sequence!TypeOK, Frames, Matches
      <4> QED
        BY <3>1, <3>3, <4>1, <4>2 DEF TInv, Expecting, Sequence!Step
    <3> QED
      BY <3>4, <3>5
  <2>8. CASE Sequence!RecvNothing
    <3>1. Sequence!TypeOK'
      BY <2>0, <2>8 DEF Sequence!RecvNothing, TInv, Sequence!TypeOK
    <3> QED
      BY <2>8, <3>1 DEF Sequence!RecvNothing, TInv, Unnumbered, Expecting, Sequence!Step
  <2>9. CASE Sequence!RecvFails
    BY <2>0, <2>9, OwnStep DEF Sequence!RecvFails, Sequence!history, Sequence!Stopped, Expecting
  <2>10. CASE Sequence!EndNap
    <3>1. Expecting'
      BY <2>10 DEF Sequence!EndNap, TInv, Expecting, Sequence!Step
    <3> QED
      BY <2>0, <2>10, <3>1, OwnStep DEF Sequence!EndNap, Sequence!history
  <2>11. CASE Sequence!Tick
    <3>1. Expecting'
      BY <2>11 DEF Sequence!Tick, TInv, Expecting, Sequence!Step
    <3>2. left' \in Int /\ left' >= Sequence!Saturated /\ nap' \in Nat
      BY <2>0, <2>11 DEF Sequence!Tick
    <3> QED
      BY <2>0, <2>11, <3>1, <3>2, OwnStep DEF Sequence!Tick, Sequence!history
  <2>12. ASSUME NEW id \in Ids \cup {Noise}, Sequence!Arrive(id)
         PROVE  TInv'
    <3>1. PICK pos \in 0 .. MaxFrames : Arrived(id, pos)
      BY <2>0, <2>12, Arrivals
    <3> DEFINE new == [id |-> id, pos |-> pos]
    <3>2. new \in Frames
      BY DEF Frames
    <3> HIDE DEF new
    <3>3. /\ queue' \in Seq(Frames) /\ Len(queue') = Len(queue) + 1
          /\ \A i \in 1 .. Len(queue) : queue'[i] = queue[i]
          /\ queue'[Len(queue) + 1] = new
      BY <2>0, <3>1, <3>2, AppendProperties DEF new, Arrived
    <3>4. /\ log' \in Seq(Ids \cup {Noise}) /\ Len(log') <= MaxFrames
          /\ Len(log') = IF pos = 0 THEN Len(log) ELSE Len(log) + 1
          /\ pos # 0 => pos = Len(log) + 1
      <4>1. CASE pos = Len(log) + 1 /\ pos <= MaxFrames /\ log' = Append(log, id)
        <5>1. log' \in Seq(Ids \cup {Noise}) /\ Len(log') = Len(log) + 1
          BY <2>0, <4>1, AppendProperties
        <5> QED
          BY <2>0, <4>1, <5>1
      <4>2. CASE pos = 0 /\ log' = log
        BY <2>0, <4>2
      <4> QED
        BY <3>1, <4>1, <4>2 DEF Arrived
    <3>5. matched' \in Seq(Matches')
      <4>1. Matches \subseteq Matches'
        BY <2>0, <3>4 DEF Matches
      <4>2. matched' = matched
        BY <3>1 DEF Arrived
      <4> QED
        BY <2>0, <4>1, <4>2, SeqMonotonic
    <3>6. Sequence!TypeOK'
      BY <2>0, <3>1, <3>3, <3>4, <3>5 DEF TInv, Sequence!TypeOK, Frames, Matches, Arrived
    <3>7. Unnumbered'
      <4> SUFFICES ASSUME NEW i \in 1 .. Len(queue'), queue'[i].pos \notin 1 .. Len(log')
                   PROVE  queue'[i].id = Noise
        BY DEF Unnumbered
      <4>1. CASE i \in 1 .. Len(queue)
        <5>1. queue'[i] = queue[i] /\ queue[i].pos \notin 1 .. Len(log)
          BY <2>0, <3>3, <3>4, <4>1, SMTT(30)
        <5> QED
          BY <4>1, <5>1 DEF TInv, Unnumbered
      <4>2. CASE i = Len(queue) + 1
        <5>1. queue'[i].pos = pos /\ queue'[i].id = id
          BY <3>3, <4>2 DEF new
        <5>2. pos = 0
          BY <2>0, <3>4, <5>1
        <5> QED
          BY <2>0, <3>1, <5>1, <5>2 DEF Arrived
      <4> QED
        BY <2>0, <3>3, <4>1, <4>2
    <3> QED
      BY <3>1, <3>6, <3>7 DEF TInv, Expecting, Sequence!Step, Arrived
  <2>13. CASE UNCHANGED Sequence!vars
    BY <2>13 DEF Sequence!vars, TInv, Sequence!TypeOK, Unnumbered, Expecting, Sequence!Step
  <2> QED
    BY <2>1, <2>2, <2>3, <2>4, <2>5, <2>6, <2>7, <2>8, <2>9, <2>10, <2>11, <2>12, <2>13
       DEF Sequence!Next, Sequence!Runner
<1> QED
  BY <1>1, <1>2, PTL DEF Sequence!Spec

\* The variables keep their types: no step is run past the end of the file,
\* the queue keeps to its room and what was matched are frames of the log.
THEOREM SequenceTypes == Spec => []Sequence!TypeOK
<1>1. TInv => Sequence!TypeOK
  BY DEF TInv
<1> QED
  BY <1>1, TypeInductive, SequenceRuns, PTL

-----------------------------------------------------------------------------
(***************************************************************************)
(* Waiting.  A nap ends where it began, with the queue as it was found     *)
(* then, empty, and what has come since.  A process that is never          *)
(* suspended (Alert) looks at the socket only in time: its deadline can    *)
(* pass only in a nap, and by no more than what of the nap is over, and so *)
(* all that is in the queue by then came during the nap.                   *)
(***************************************************************************)
QueuedSince == \A i \in 1 .. Len(queue) : queue[i].pos = 0 \/ queue[i].pos > napped

Naps ==
  /\ phase \notin {"sleeping", "napping"} => nap = 0
  /\ phase = "napping" => QueuedSince
  /\ phase = "expired" => left < 0

Alert ==
  /\ left >= -PollTicks
  /\ phase = "recv" => left >= 0
  /\ phase = "napping" => left >= nap - PollTicks
  /\ phase \in {"check", "expired"} /\ left < 0 => QueuedSince

LEMMA Waiting == Sequence!Spec => [](Naps /\ (prompt => Alert))
<1>1. Sequence!Init => Naps /\ Alert
  BY Numbers DEF Sequence!Init, Naps, Alert, QueuedSince
<1>2. TInv /\ Naps /\ (prompt => Alert) /\ [Sequence!Next]_Sequence!vars => Naps' /\ (prompt' => Alert')
  <2> SUFFICES ASSUME TInv, Naps, prompt => Alert, [Sequence!Next]_Sequence!vars
               PROVE  Naps' /\ (prompt' => Alert')
    OBVIOUS
  <2> USE Numbers
  <2>0. nap \in Nat /\ left \in Int /\ Len(log) \in Nat /\ napped \in 0 .. Len(log)
    BY LenProperties DEF TInv, Sequence!TypeOK
  <2> DEFINE Goal == prompt' = prompt /\ Naps' /\ (Alert => Alert')
  <2>1. CASE Sequence!Finish
    <3>1. Naps' /\ (Alert => Alert')
      BY <2>1 DEF Sequence!Finish, Sequence!history, Naps, Alert
    <3> QED
      BY <2>1, <3>1 DEF Sequence!Finish
  <2>2. CASE Sequence!Send
    <3>1. Naps' /\ (Alert => Alert')
      BY <2>2 DEF Sequence!Send, Sequence!NextStep, Sequence!history, Naps, Alert
    <3> QED
      BY <2>2, <3>1 DEF Sequence!Send
  <2>3. CASE Sequence!Sleep
    <3>1. Naps' /\ (Alert => Alert')
      BY <2>3 DEF Sequence!Sleep, Sequence!history, Naps, Alert
    <3> QED
      BY <2>3, <3>1 DEF Sequence!Sleep
  <2>4. CASE Sequence!EndSleep
    <3>1. Naps' /\ (Alert => Alert')
      BY <2>4 DEF Sequence!EndSleep, Sequence!NextStep, Sequence!history, Naps, Alert
    <3> QED
      BY <2>4, <3>1 DEF Sequence!EndSleep
  <2>5. CASE Sequence!Expect
    <3>1. (phase' = "failed" /\ left' = left) \/ (phase' = "check" /\ left' \in Nat)
      BY <2>5, StepFields DEF Sequence!Expect, Sequence!Step, TInv, Sequence!TypeOK
    <3>2. nap' = 0 /\ prompt' = prompt
      BY <2>5 DEF Sequence!Expect, Naps
    <3>3. Naps' /\ (Alert => Alert')
      BY <2>0, <3>1, <3>2 DEF Naps, Alert
    <3> QED
      BY <3>2, <3>3
  <2>6. CASE Sequence!CheckDeadline
    <3>1. Naps' /\ (Alert => Alert')
      BY <2>0, <2>6 DEF Sequence!CheckDeadline, Sequence!history, Naps, Alert, QueuedSince
    <3> QED
      BY <2>6, <3>1 DEF Sequence!CheckDeadline
  <2>7. CASE Sequence!RecvFrame
    <3>1. phase = "recv" /\ phase' \in {"ready", "check"} /\ left' = left /\ nap' = nap
      BY <2>7 DEF Sequence!RecvFrame, Sequence!NextStep
    <3>2. Naps' /\ (Alert => Alert')
      BY <2>0, <3>1 DEF Naps, Alert
    <3> QED
      BY <2>7, <3>2 DEF Sequence!RecvFrame
  <2>8. CASE Sequence!RecvNothing
    <3>1. QueuedSince'
      BY <2>8 DEF Sequence!RecvNothing, QueuedSince
    <3>2. Naps' /\ (Alert => Alert')
      BY <2>0, <2>8, <3>1 DEF Sequence!RecvNothing, Naps, Alert
    <3> QED
      BY <2>8, <3>2 DEF Sequence!RecvNothing
  <2>9. CASE Sequence!RecvFails
    <3>1. Naps' /\ (Alert => Alert')
      BY <2>9 DEF Sequence!RecvFails, Sequence!history, Naps, Alert
    <3> QED
      BY <2>9, <3>1 DEF Sequence!RecvFails
  <2>10. CASE Sequence!EndNap
    <3>1. Naps' /\ (Alert => Alert')
      BY <2>0, <2>10 DEF Sequence!EndNap, Sequence!history, Naps, Alert, QueuedSince
    <3> QED
      BY <2>10, <3>1 DEF Sequence!EndNap
  <2>11. CASE Sequence!Tick
    <3>1. QueuedSince' <=> QueuedSince
      BY <2>11 DEF Sequence!Tick, Sequence!history, QueuedSince
    <3>2. Naps'
      BY <2>0, <2>11, <3>1 DEF Sequence!Tick, Naps
    <3>3. ASSUME prompt, Alert PROVE Alert'
      <4>1. nap > 0
        BY <2>11, <3>3 DEF Sequence!Tick
      <4>2. /\ nap' = nap - 1 /\ phase' = phase /\ phase \in {"sleeping", "napping"}
            /\ left' = left \/ (phase = "napping" /\ left' = left - 1)
        BY <2>0, <2>11, <4>1 DEF Sequence!Tick, Naps
      <4> QED
        BY <2>0, <3>3, <4>1, <4>2 DEF Alert
    <3> QED
      BY <2>11, <3>2, <3>3 DEF Sequence!Tick
  <2>12. ASSUME NEW id \in Ids \cup {Noise}, Sequence!Arrive(id)
         PROVE  Goal
    <3>1. PICK pos \in 0 .. MaxFrames : Arrived(id, pos)
      BY <2>0, <2>12, Arrivals
    <3>2. pos = 0 \/ pos > napped
      BY <2>0, <3>1 DEF Arrived
    <3> DEFINE new == [id |-> id, pos |-> pos]
    <3>3. new \in Frames /\ queue \in Seq(Frames)
      BY <2>12 DEF Frames, TInv, Sequence!TypeOK
    <3>4. new.pos = pos
      OBVIOUS
    <3> HIDE DEF new
    <3>5. /\ Len(queue') = Len(queue) + 1 /\ Len(queue) \in Nat
          /\ \A i \in 1 .. Len(queue) : queue'[i] = queue[i]
          /\ queue'[Len(queue) + 1] = new
      BY <3>1, <3>3, AppendProperties, LenProperties DEF new, Arrived
    <3>6. QueuedSince => QueuedSince'
      BY <3>1, <3>2, <3>4, <3>5 DEF QueuedSince, Arrived
    <3>7. Naps' /\ (Alert => Alert')
      BY <3>1, <3>6 DEF Naps, Alert, Arrived
    <3> QED
      BY <3>1, <3>7 DEF Arrived
  <2>13. CASE UNCHANGED Sequence!vars
    <3>1. Naps' /\ (Alert => Alert')
      BY <2>13 DEF Sequence!vars, Naps, Alert, QueuedSince
    <3> QED
      BY <2>13, <3>1 DEF Sequence!vars
  <2> QED
    BY <2>1, <2>2, <2>3, <2>4, <2>5, <2>6, <2>7, <2>8, <2>9, <2>10, <2>11, <2>12, <2>13
       DEF Sequence!Next, Sequence!Runner
<1> QED
  BY <1>1, <1>2, TypeInductive, PTL DEF Sequence!Spec

\* An expect gives up within one poll interval of its deadline, for any file,
\* traffic and interval.
THEOREM GivesUpSoon == Spec => []GivesUpInTime
<1>1. (prompt => Alert) => GivesUpInTime
  BY DEF Alert, GivesUpInTime, Sequence!GivesUpInTime
<1> QED
  BY <1>1, Waiting, SequenceRuns, PTL

\* What an expect that times out has missed came during its last nap.
THEOREM MissesOnlyLateFrames == Spec => []NothingTimelyMissed
<1>1. TInv /\ Naps /\ (prompt => Alert) => NothingTimelyMissed
  <2> SUFFICES ASSUME TInv, Naps, Alert, phase = "expired",
                      NEW i \in 1 .. Len(queue), queue[i].id = Sequence!Step.id
               PROVE  queue[i].pos > napped
    BY DEF NothingTimelyMissed, Sequence!NothingTimelyMissed
  <2>1. Sequence!Step.id # Noise
    BY StepFields, NoiseApart DEF TInv, Expecting, Sequence!Step
  <2>2. queue[i].pos # 0
    <3>1. queue[i].pos \in 1 .. Len(log)
      BY <2>1 DEF TInv, Unnumbered
    <3>2. Len(log) \in Nat
      BY LenProperties DEF TInv, Sequence!TypeOK
    <3> QED
      BY <3>1, <3>2
  <2>3. QueuedSince
    BY DEF Naps, Alert
  <2> QED
    BY <2>2, <2>3 DEF QueuedSince
<1> QED
  BY <1>1, TypeInductive, Waiting, SequenceRuns, PTL

-----------------------------------------------------------------------------
(***************************************************************************)
(* The receive queue is the rest of the log: its frames stand one after    *)
(* another up to the end of the log, then those that are not told apart.   *)
(* So the frames taken from it so far are the first Taken of the log.      *)
(***************************************************************************)
Follows(p, end) == IF p \in {0, end} THEN 0 ELSE p + 1
Lined ==
  /\ \A i \in 1 .. Len(queue) :
       IF queue[i].pos = 0 THEN queue[i].id = Noise /\ Len(log) >= MaxFrames
       ELSE queue[i].pos \in 1 .. Len(log) /\ log[queue[i].pos] = queue[i].id
  /\ \A i \in 1 .. Len(queue) - 1 : queue[i + 1].pos = Follows(queue[i].pos, Len(log))
  /\ queue # << >> => Follows(queue[Len(queue)].pos, Len(log)) = 0

Taken == IF queue # << >> /\ queue[1].pos # 0 THEN queue[1].pos - 1 ELSE Len(log)

\* The lists of the state and their lengths.
LEMMA Lists ==
  ASSUME TInv
  PROVE  /\ queue \in Seq(Frames) /\ Len(queue) \in Nat
         /\ log \in Seq(Ids \cup {Noise}) /\ Len(log) \in Nat /\ Len(log) <= MaxFrames
         /\ matched \in Seq(Matches) /\ Len(matched) \in Nat
         /\ (queue = << >> <=> Len(queue) = 0)
         /\ step \in 1 .. Len(Steps) + 1
BY LenProperties, EmptySeq DEF TInv, Sequence!TypeOK, Frames, Matches

\* Taking a frame from the queue takes the next of the log, if it is one.
LEMMA Taking ==
  ASSUME TInv, Lined, queue # << >>, queue' = Tail(queue), log' = log
  PROVE  /\ Lined'
         /\ queue[1].pos = 0 => queue[1].id = Noise /\ Taken' = Taken
         /\ queue[1].pos # 0 => /\ queue[1].pos = Taken + 1 /\ Taken' = Taken + 1
                                /\ queue[1].pos \in 1 .. Len(log)
                                /\ log[queue[1].pos] = queue[1].id
<1> USE Numbers, Lists
<1>1. /\ Len(queue') = Len(queue) - 1 /\ queue' \in Seq(Frames)
      /\ \A i \in 1 .. Len(queue') : queue'[i] = queue[i + 1]
  BY HeadTailProperties
<1>2. Len(queue) >= 1 /\ (queue' # << >> <=> Len(queue) > 1)
  <2>1. Len(queue) >= 1
    OBVIOUS
  <2>2. queue' = << >> <=> Len(queue') = 0
    BY <1>1, EmptySeq
  <2> QED
    BY <1>1, <2>1, <2>2
<1>3. Lined'
  <2>1. \A i \in 1 .. Len(queue') :
          IF queue'[i].pos = 0 THEN queue'[i].id = Noise /\ Len(log') >= MaxFrames
          ELSE queue'[i].pos \in 1 .. Len(log') /\ log'[queue'[i].pos] = queue'[i].id
    <3> SUFFICES ASSUME NEW i \in 1 .. Len(queue')
                 PROVE  IF queue'[i].pos = 0
                        THEN queue'[i].id = Noise /\ Len(log') >= MaxFrames
                        ELSE queue'[i].pos \in 1 .. Len(log') /\ log'[queue'[i].pos] = queue'[i].id
      OBVIOUS
    <3>1. i + 1 \in 1 .. Len(queue) /\ queue'[i] = queue[i + 1]
      BY <1>1
    <3> QED
      BY <3>1 DEF Lined
  <2>2. \A i \in 1 .. Len(queue') - 1 :
          queue'[i + 1].pos = Follows(queue'[i].pos, Len(log'))
    <3> SUFFICES ASSUME NEW i \in 1 .. Len(queue') - 1
                 PROVE  queue'[i + 1].pos = Follows(queue'[i].pos, Len(log'))
      OBVIOUS
    <3>1. i + 1 \in 1 .. Len(queue) - 1 /\ queue'[i] = queue[i + 1] /\ queue'[i + 1] = queue[i + 2]
      BY <1>1
    <3> QED
      BY <3>1 DEF Lined
  <2>3. queue' # << >> => Follows(queue'[Len(queue')].pos, Len(log')) = 0
    BY <1>1, <1>2 DEF Lined
  <2> QED
    BY <2>1, <2>2, <2>3 DEF Lined
<1>4. IF queue[1].pos = 0 THEN queue[1].id = Noise /\ Taken = Len(log)
      ELSE /\ queue[1].pos \in 1 .. Len(log) /\ log[queue[1].pos] = queue[1].id
           /\ queue[1].pos = Taken + 1
  <2>1. 1 \in 1 .. Len(queue)
    OBVIOUS
  <2> QED
    BY <2>1 DEF Lined, Taken
<1>5. Taken' = IF queue[1].pos = 0 THEN Len(log) ELSE queue[1].pos
  <2>1. CASE Len(queue) = 1
    <3>1. Taken' = Len(log) /\ Follows(queue[1].pos, Len(log)) = 0
      BY <1>2, <2>1 DEF Taken, Lined
    <3> QED
      BY <1>4, <3>1 DEF Follows
  <2>2. CASE Len(queue) # 1
    <3>1. 1 \in 1 .. Len(queue) - 1 /\ queue'[1] = queue[2] /\ queue' # << >>
      BY <1>1, <1>2, <2>2
    <3>2. queue'[1].pos = Follows(queue[1].pos, Len(log))
      BY <3>1 DEF Lined
    <3>3. CASE queue'[1].pos = 0
      BY <1>4, <3>1, <3>2, <3>3, SMTT(30) DEF Taken, Follows
    <3>4. CASE queue'[1].pos # 0
      BY <1>4, <3>1, <3>2, <3>4, SMTT(30) DEF Taken, Follows
    <3> QED
      BY <3>3, <3>4
  <2> QED
    BY <2>1, <2>2
<1> QED
  BY <1>3, <1>4, <1>5

\* A frame that joins the queue joins the end of that line.
LEMMA Joining ==
  ASSUME TInv, Lined, NEW id \in Ids \cup {Noise}, NEW pos \in 0 .. MaxFrames,
         Arrived(id, pos)
  PROVE  /\ Lined' /\ Taken' = Taken
         /\ Len(log') \in Nat /\ Len(log') >= Len(log)
         /\ \A j \in 1 .. Len(log) : log'[j] = log[j]
<1> USE Numbers, Lists
<1> DEFINE new == [id |-> id, pos |-> pos]
<1>1. new \in Frames /\ new.pos = pos /\ new.id = id
  BY DEF Frames
<1> HIDE DEF new
<1>2. /\ Len(queue') = Len(queue) + 1 /\ queue' # << >>
      /\ \A i \in 1 .. Len(queue) : queue'[i] = queue[i]
      /\ queue'[Len(queue) + 1] = new
  BY <1>1, AppendProperties, SMTT(30) DEF new, Arrived
<1>3. CASE pos = 0
  <2>1. log' = log /\ Len(log) >= MaxFrames /\ id = Noise
    BY <1>3 DEF Arrived
  <2>2. \A i \in 1 .. Len(queue') :
          IF queue'[i].pos = 0 THEN queue'[i].id = Noise /\ Len(log') >= MaxFrames
          ELSE queue'[i].pos \in 1 .. Len(log') /\ log'[queue'[i].pos] = queue'[i].id
    <3> SUFFICES ASSUME NEW i \in 1 .. Len(queue')
                 PROVE  IF queue'[i].pos = 0
                        THEN queue'[i].id = Noise /\ Len(log') >= MaxFrames
                        ELSE queue'[i].pos \in 1 .. Len(log') /\ log'[queue'[i].pos] = queue'[i].id
      OBVIOUS
    <3>1. CASE i \in 1 .. Len(queue)
      BY <1>2, <2>1, <3>1 DEF Lined
    <3>2. CASE i = Len(queue) + 1
      BY <1>1, <1>2, <1>3, <2>1, <3>2
    <3> QED
      BY <1>2, <3>1, <3>2
  <2>3. \A i \in 1 .. Len(queue') - 1 :
          queue'[i + 1].pos = Follows(queue'[i].pos, Len(log'))
    <3> SUFFICES ASSUME NEW i \in 1 .. Len(queue') - 1
                 PROVE  queue'[i + 1].pos = Follows(queue'[i].pos, Len(log'))
      OBVIOUS
    <3>1. CASE i = Len(queue)
      <4>1. queue # << >> /\ queue'[i] = queue[Len(queue)] /\ queue'[i + 1] = new
        BY <1>2, <3>1
      <4> QED
        BY <1>1, <1>3, <2>1, <4>1 DEF Lined
    <3>2. CASE i < Len(queue)
      <4>1. i \in 1 .. Len(queue) - 1 /\ queue'[i] = queue[i] /\ queue'[i + 1] = queue[i + 1]
        BY <1>2, <3>2
      <4> QED
        BY <2>1, <4>1 DEF Lined
    <3> QED
      BY <1>2, <3>1, <3>2
  <2>4. Follows(queue'[Len(queue')].pos, Len(log')) = 0
    BY <1>1, <1>2, <1>3, <2>1 DEF Follows
  <2>5. Lined'
    BY <2>2, <2>3, <2>4 DEF Lined
  <2>6. Taken' = Taken
    <3>1. CASE queue = << >>
      BY <1>1, <1>2, <1>3, <2>1, <3>1 DEF Taken
    <3>2. CASE queue # << >>
      BY <1>2, <2>1, <3>2 DEF Taken
    <3> QED
      BY <3>1, <3>2
  <2> QED
    BY <2>1, <2>5, <2>6
<1>4. CASE pos # 0
  <2>1. pos = Len(log) + 1 /\ pos <= MaxFrames /\ log' = Append(log, id)
    BY <1>4 DEF Arrived
  <2>2. /\ Len(log') = Len(log) + 1 /\ log'[Len(log) + 1] = id
        /\ \A j \in 1 .. Len(log) : log'[j] = log[j]
    BY <2>1, AppendProperties
  <2>3. \A i \in 1 .. Len(queue) :
          queue[i].pos \in 1 .. Len(log) /\ log[queue[i].pos] = queue[i].id
    BY <2>1 DEF Lined
  <2>4. \A i \in 1 .. Len(queue) - 1 : queue[i + 1].pos = queue[i].pos + 1
    <3> SUFFICES ASSUME NEW i \in 1 .. Len(queue) - 1
                 PROVE  queue[i + 1].pos = queue[i].pos + 1
      OBVIOUS
    <3>1. i + 1 \in 1 .. Len(queue) /\ queue[i + 1].pos = Follows(queue[i].pos, Len(log))
      BY SMTT(30) DEF Lined
    <3> QED
      BY <2>3, <3>1, SMTT(30) DEF Follows
  <2>5. queue # << >> => queue[Len(queue)].pos = Len(log)
    BY <2>3 DEF Lined, Follows
  <2>6. Lined'
    <3>1. \A i \in 1 .. Len(queue') :
            queue'[i].pos \in 1 .. Len(log') /\ log'[queue'[i].pos] = queue'[i].id
      <4> SUFFICES ASSUME NEW i \in 1 .. Len(queue')
                   PROVE  queue'[i].pos \in 1 .. Len(log') /\ log'[queue'[i].pos] = queue'[i].id
        OBVIOUS
      <4>1. CASE i \in 1 .. Len(queue)
        <5>1. queue'[i] = queue[i] /\ queue[i].pos \in 1 .. Len(log) /\ log[queue[i].pos] = queue[i].id
          BY <1>2, <2>3, <4>1
        <5>2. log'[queue[i].pos] = log[queue[i].pos] /\ queue[i].pos \in 1 .. Len(log')
          BY <2>2, <5>1, SMTT(30)
        <5> QED
          BY <5>1, <5>2
      <4>2. CASE i = Len(queue) + 1
        BY <1>1, <1>2, <2>1, <2>2, <4>2
      <4>3. i \in 1 .. Len(queue) + 1 /\ Len(queue) \in Nat
        BY <1>2, LenProperties
      <4> QED
        BY <4>1, <4>2, <4>3
    <3>2. \A i \in 1 .. Len(queue') - 1 : queue'[i + 1].pos = Follows(queue'[i].pos, Len(log'))
      <4> SUFFICES ASSUME NEW i \in 1 .. Len(queue') - 1
                   PROVE  queue'[i + 1].pos = Follows(queue'[i].pos, Len(log'))
        OBVIOUS
      <4>1. CASE i = Len(queue)
        BY <1>1, <1>2, <2>1, <2>2, <2>3, <2>5, <4>1 DEF Follows
      <4>2. CASE i < Len(queue)
        <5>1. i \in 1 .. Len(queue) - 1 /\ queue'[i] = queue[i] /\ queue'[i + 1] = queue[i + 1]
          BY <1>2, <4>2
        <5>2. queue[i + 1].pos = queue[i].pos + 1 /\ i \in 1 .. Len(queue) /\ i + 1 \in 1 .. Len(queue)
          BY <2>4, <5>1, SMTT(30)
        <5>3. queue[i].pos \in 1 .. Len(log) /\ queue[i + 1].pos \in 1 .. Len(log)
          BY <2>3, <5>2
        <5>4. queue[i].pos # 0 /\ queue[i].pos # Len(log')
          <6>1. queue[i].pos \in Int /\ queue[i].pos >= 1 /\ queue[i].pos <= Len(log)
            BY <5>3
          <6>2. Len(log) \in Int /\ Len(log') = Len(log) + 1
            BY <2>2
          <6> QED
            BY <6>1, <6>2
        <5> QED
          BY <5>1, <5>2, <5>4 DEF Follows
      <4> QED
        BY <1>2, <4>1, <4>2
    <3>3. Follows(queue'[Len(queue')].pos, Len(log')) = 0
      BY <1>1, <1>2, <2>1, <2>2 DEF Follows
    <3> QED
      BY <3>1, <3>2, <3>3 DEF Lined
  <2>7. Taken' = Taken
    <3>1. CASE queue = << >>
      BY <1>1, <1>2, <2>1, <3>1 DEF Taken
    <3>2. CASE queue # << >>
      BY <1>2, <2>3, <3>2 DEF Taken
    <3> QED
      BY <3>1, <3>2
  <2> QED
    BY <2>2, <2>6, <2>7
<1> QED
  BY <1>3, <1>4

(***************************************************************************)
(* Between two matches the expects in between are over, nothing after the  *)
(* last match has been taken while no expect runs, and while one runs,     *)
(* nothing that it waits for.                                              *)
(***************************************************************************)
Latest == Sequence!MatchedBefore(Len(matched) + 1)
Caught ==
  /\ Latest.step < step
  /\ \A r \in Latest.step + 1 .. step - 1 : Steps[r].type # "expect"
  /\ phase \in {"ready", "sleeping"} => Taken = Latest.pos
  /\ phase \in {"check", "recv", "napping"} =>
       /\ Latest.pos <= Taken
       /\ \A j \in Latest.pos + 1 .. Taken : log[j] # Sequence!Step.id

\* Places before a match, as MatchedBefore gives them.
LEMMA Before ==
  ASSUME TInv, NEW n \in 1 .. Len(matched) + 1
  PROVE  Sequence!MatchedBefore(n).step \in Nat /\ Sequence!MatchedBefore(n).pos \in 0 .. Len(log)
<1>1. CASE n = 1
  BY <1>1, Lists DEF Sequence!MatchedBefore, Sequence!Unmatched
<1>2. CASE n # 1
  <2>1. n - 1 \in 1 .. Len(matched)
    BY <1>2, Lists
  <2>2. matched[n - 1] \in Matches
    BY <2>1, Lists, ElementOfSeq
  <2> QED
    BY <1>2, <2>2, Lists, Numbers, SMTT(30) DEF Sequence!MatchedBefore, Matches
<1> QED
  BY <1>1, <1>2

\* A step that leaves the queue, the log and the matches alone.
LEMMA Unmoved ==
  ASSUME UNCHANGED <<queue, log, matched>>
  PROVE  /\ Taken' = Taken /\ Latest' = Latest
         /\ (Lined <=> Lined') /\ (Sequence!Greedy <=> Sequence!Greedy')
BY DEF Taken, Latest, Sequence!MatchedBefore, Sequence!Unmatched, Lined, Sequence!Greedy,
       Sequence!IsNextExpect, Sequence!IsFirstAfter

\* One that stays in the same expect, or in none.
LEMMA StaysCaught ==
  ASSUME Caught, UNCHANGED <<queue, log, matched>>, step' = step,
         phase' \in {"ready", "sleeping"} => phase \in {"ready", "sleeping"},
         phase' \in {"check", "recv", "napping"} => phase \in {"check", "recv", "napping"}
  PROVE  Caught'
BY Unmoved DEF Caught, Sequence!Step

\* One that ends a step other than an expect.
LEMMA PassesOver ==
  ASSUME TInv, Caught, UNCHANGED <<queue, log, matched>>, phase \in {"ready", "sleeping"},
         step \in 1 .. Len(Steps), Sequence!Step.type # "expect", Sequence!NextStep
  PROVE  Caught'
<1>1. Latest.step \in Nat
  BY Lists, Before DEF Latest
<1>2. \A r \in Latest.step + 1 .. step' - 1 : Steps[r].type # "expect"
  BY <1>1, Numbers DEF Caught, Sequence!NextStep, Sequence!Step
<1>3. Latest.step < step' /\ phase' = "ready" /\ Taken = Latest.pos
  BY <1>1, Numbers DEF Caught, Sequence!NextStep
<1> QED
  BY <1>2, <1>3, Unmoved DEF Caught

\* The expect that runs takes a frame: the next of the log, or one beyond it.
LEMMA Receives ==
  ASSUME TInv, Lined, Caught, Sequence!Greedy, Sequence!RecvFrame
  PROVE  Lined' /\ Caught' /\ Sequence!Greedy'
<1> USE Numbers, Lists
<1> DEFINE head == queue[1]
<1>0. /\ step \in 1 .. Len(Steps) /\ Sequence!Step.type = "expect" /\ phase = "recv"
      /\ queue # << >> /\ queue' = Tail(queue) /\ log' = log
      /\ Head(queue) = head
  BY DEF Sequence!RecvFrame, TInv, Expecting
<1>1. /\ Lined'
      /\ head.pos = 0 => head.id = Noise /\ Taken' = Taken
      /\ head.pos # 0 => /\ head.pos = Taken + 1 /\ Taken' = Taken + 1
                         /\ head.pos \in 1 .. Len(log) /\ log[head.pos] = head.id
  BY <1>0, Taking
<1> HIDE DEF head
<1>2. Latest.step \in Nat /\ Latest.pos \in 0 .. Len(log)
  BY Before DEF Latest
<1>3. Taken \in Nat /\ Latest.pos <= Taken /\ Latest.step < step
  BY <1>0, <1>1, <1>2, SMTT(30) DEF Caught, Taken
<1>4. \A j \in Latest.pos + 1 .. Taken : log[j] # Sequence!Step.id
  BY <1>0 DEF Caught
<1>5. CASE head.id = Sequence!Step.id
  <2>1. Sequence!Step.id # Noise
    BY <1>0, StepFields, NoiseApart DEF Sequence!Step
  <2>2. head.pos = Taken + 1 /\ Taken' = Taken + 1 /\ log[head.pos] = Sequence!Step.id
    BY <1>1, <1>5, <2>1
  <2> DEFINE new == [step |-> step, pos |-> head.pos]
  <2>3. new \in Matches /\ new.step = step /\ new.pos = head.pos
    BY <1>0, <1>1, <2>2 DEF Matches
  <2>4. matched' = Append(matched, new) /\ step' = step + 1 /\ phase' = "ready"
    BY <1>0, <1>5 DEF Sequence!RecvFrame, Sequence!Match, Sequence!NextStep
  <2> HIDE DEF new
  <2>5. /\ Len(matched') = Len(matched) + 1 /\ matched'[Len(matched) + 1] = new
        /\ \A n \in 1 .. Len(matched) : matched'[n] = matched[n]
    BY <2>3, <2>4, AppendProperties
  <2>6. Latest' = new
    BY <2>5 DEF Latest, Sequence!MatchedBefore
  <2>7. \A n \in 1 .. Len(matched) + 1 : Sequence!MatchedBefore(n)' = Sequence!MatchedBefore(n)
    <3> SUFFICES ASSUME NEW n \in 1 .. Len(matched) + 1
                 PROVE  Sequence!MatchedBefore(n)' = Sequence!MatchedBefore(n)
      OBVIOUS
    <3>1. n = 1 \/ n - 1 \in 1 .. Len(matched)
      OBVIOUS
    <3> QED
      BY <2>5, <3>1 DEF Sequence!MatchedBefore, Sequence!Unmatched
  <2>8. Caught'
    <3>1. Latest'.step < step' /\ \A r \in Latest'.step + 1 .. step' - 1 : FALSE
      BY <1>0, <2>3, <2>4, <2>6
    <3>2. Taken' = Latest'.pos
      BY <2>2, <2>3, <2>6
    <3> QED
      BY <2>4, <3>1, <3>2 DEF Caught
  <2>9. Sequence!Greedy'
    <3> SUFFICES ASSUME NEW n \in 1 .. Len(matched')
                 PROVE  /\ Sequence!IsNextExpect(matched'[n].step, Sequence!MatchedBefore(n)'.step)
                        /\ Sequence!IsFirstAfter(matched'[n].pos, Sequence!MatchedBefore(n)'.pos,
                                        Steps[matched'[n].step].id)
      BY <1>0 DEF Sequence!Greedy, Sequence!IsFirstAfter, Sequence!IsNextExpect
    <3>1. CASE n \in 1 .. Len(matched)
      BY <2>5, <2>7, <3>1 DEF Sequence!Greedy
    <3>2. CASE n = Len(matched) + 1
      <4>1. matched'[n] = new /\ Sequence!MatchedBefore(n)' = Latest
        BY <2>5, <2>7, <3>2 DEF Latest
      <4>2. Sequence!IsNextExpect(step, Latest.step)
        BY <1>0, <1>3 DEF Caught, Sequence!IsNextExpect, Sequence!Step
      <4>3. Sequence!IsFirstAfter(head.pos, Latest.pos, Sequence!Step.id)
        BY <1>2, <1>3, <1>4, <2>2 DEF Sequence!IsFirstAfter
      <4> QED
        BY <2>3, <4>1, <4>2, <4>3 DEF Sequence!Step
    <3> QED
      BY <2>5, <3>1, <3>2
  <2> QED
    BY <1>1, <2>8, <2>9
<1>6. CASE head.id # Sequence!Step.id
  <2>1. phase' = "check" /\ step' = step /\ matched' = matched
    BY <1>0, <1>6 DEF Sequence!RecvFrame
  <2>2. Latest' = Latest /\ (Sequence!Greedy <=> Sequence!Greedy')
    BY <1>0, <2>1 DEF Latest, Sequence!MatchedBefore, Sequence!Unmatched, Sequence!Greedy,
                      Sequence!IsNextExpect, Sequence!IsFirstAfter
  <2>3. Latest.pos <= Taken' /\ \A j \in Latest.pos + 1 .. Taken' : log[j] # Sequence!Step.id
    <3>1. CASE head.pos = 0
      BY <1>1, <1>3, <1>4, <3>1
    <3>2. CASE head.pos # 0
      BY <1>1, <1>2, <1>3, <1>4, <1>6, <3>2, SMTT(30)
    <3> QED
      BY <3>1, <3>2
  <2> QED
    BY <1>0, <1>1, <2>1, <2>2, <2>3 DEF Caught, Sequence!Step
<1> QED
  BY <1>5, <1>6

LEMMA FirstFrames == Sequence!Spec => [](Lined /\ Caught /\ Sequence!Greedy)
<1>1. Sequence!Init => Lined /\ Caught /\ Sequence!Greedy
  <2> SUFFICES ASSUME Sequence!Init PROVE Lined /\ Caught /\ Sequence!Greedy
    OBVIOUS
  <2>1. Len(queue) = 0 /\ Len(log) = 0 /\ Len(matched) = 0 /\ queue = << >>
    BY DEF Sequence!Init
  <2>2. Latest = Sequence!Unmatched /\ Taken = 0
    BY <2>1 DEF Latest, Sequence!MatchedBefore, Taken
  <2> QED
    BY <2>1, <2>2 DEF Sequence!Init, Lined, Caught, Sequence!Greedy, Sequence!Unmatched
<1>2. TInv /\ Lined /\ Caught /\ Sequence!Greedy /\ [Sequence!Next]_Sequence!vars => Lined' /\ Caught' /\ Sequence!Greedy'
  <2> SUFFICES ASSUME TInv, Lined, Caught, Sequence!Greedy, [Sequence!Next]_Sequence!vars
               PROVE  Lined' /\ Caught' /\ Sequence!Greedy'
    OBVIOUS
  <2>1. ASSUME UNCHANGED <<queue, log, matched>>, Caught'
        PROVE  Lined' /\ Caught' /\ Sequence!Greedy'
    BY <2>1, Unmoved
  <2>2. CASE Sequence!Finish
    BY <2>1, <2>2, StaysCaught DEF Sequence!Finish, Sequence!history
  <2>3. CASE Sequence!Send
    <3>1. step \in 1 .. Len(Steps) /\ UNCHANGED <<queue, log, matched>>
      BY <2>3, Lists, Numbers DEF Sequence!Send, Sequence!history
    <3>2. CASE Sequence!NextStep
      BY <2>1, <2>3, <3>1, <3>2, PassesOver DEF Sequence!Send
    <3>3. CASE phase' = "failed" /\ UNCHANGED step
      BY <2>1, <3>1, <3>3, StaysCaught
    <3> QED
      BY <2>3, <3>2, <3>3 DEF Sequence!Send
  <2>4. CASE Sequence!Sleep
    BY <2>1, <2>4, StaysCaught DEF Sequence!Sleep, Sequence!history
  <2>5. CASE Sequence!EndSleep
    BY <2>1, <2>5, PassesOver DEF Sequence!EndSleep, Sequence!history, TInv, Expecting
  <2>6. CASE Sequence!Expect
    <3>1. UNCHANGED <<queue, log, matched>> /\ step' = step
      BY <2>6 DEF Sequence!Expect, Sequence!history
    <3>2. Latest.pos \in Nat /\ Taken = Latest.pos
      BY <2>6, Lists, Before DEF Sequence!Expect, Caught, Latest
    <3>3. \A j \in Latest.pos + 1 .. Taken : FALSE
      BY <3>2
    <3>4. phase' \in {"check", "failed"}
      BY <2>6 DEF Sequence!Expect
    <3>5. Caught'
      BY <3>1, <3>2, <3>3, <3>4, Unmoved DEF Caught
    <3> QED
      BY <2>1, <3>1, <3>5
  <2>7. CASE Sequence!CheckDeadline
    BY <2>1, <2>7, StaysCaught DEF Sequence!CheckDeadline, Sequence!history
  <2>8. CASE Sequence!RecvFrame
    BY <2>8, Receives
  <2>9. CASE Sequence!RecvNothing
    BY <2>1, <2>9, StaysCaught DEF Sequence!RecvNothing
  <2>10. CASE Sequence!RecvFails
    BY <2>1, <2>10, StaysCaught DEF Sequence!RecvFails, Sequence!history
  <2>11. CASE Sequence!EndNap
    BY <2>1, <2>11, StaysCaught DEF Sequence!EndNap, Sequence!history
  <2>12. CASE Sequence!Tick
    BY <2>1, <2>12, StaysCaught DEF Sequence!Tick, Sequence!history
  <2>13. ASSUME NEW id \in Ids \cup {Noise}, Sequence!Arrive(id)
         PROVE  Lined' /\ Caught' /\ Sequence!Greedy'
    <3>1. PICK pos \in 0 .. MaxFrames : Arrived(id, pos)
      BY <2>13, Lists, Arrivals
    <3>2. /\ Lined' /\ Taken' = Taken
          /\ Len(log') \in Nat /\ Len(log') >= Len(log)
          /\ \A j \in 1 .. Len(log) : log'[j] = log[j]
      BY <3>1, Joining
    <3>3. matched' = matched /\ step' = step /\ phase' = phase
      BY <3>1 DEF Arrived
    <3>4. \A n \in 1 .. Len(matched) + 1 : Sequence!MatchedBefore(n)' = Sequence!MatchedBefore(n)
      BY <3>3 DEF Sequence!MatchedBefore, Sequence!Unmatched
    <3>5. Latest' = Latest /\ Latest.pos \in 0 .. Len(log)
      BY <3>3, <3>4, Lists, Before DEF Latest
    <3>6. Taken \in 0 .. Len(log) \/ phase \notin {"check", "recv", "napping"}
      BY Lists, Numbers, SMTT(30) DEF Taken, Lined
    <3>7. Caught'
      BY <3>2, <3>3, <3>5, <3>6, Lists DEF Caught, Sequence!Step
    <3>8. Sequence!Greedy'
      <4> SUFFICES ASSUME NEW n \in 1 .. Len(matched)
                   PROVE  /\ Sequence!IsNextExpect(matched[n].step, Sequence!MatchedBefore(n).step)
                          /\ LET last == matched[n].pos
                                 from == Sequence!MatchedBefore(n).pos
                                 wanted == Steps[matched[n].step].id
                             IN  /\ last > from /\ log'[last] = wanted
                                 /\ \A j \in from + 1 .. last - 1 : log'[j] # wanted
        BY <3>3, <3>4, Lists DEF Sequence!Greedy, Sequence!IsNextExpect, Sequence!IsFirstAfter
      <4>1. matched[n] \in Matches /\ n \in 1 .. Len(matched) + 1
        BY Lists, ElementOfSeq
      <4>2. matched[n].pos \in 1 .. Len(log) /\ Sequence!MatchedBefore(n).pos \in 0 .. Len(log)
        BY <4>1, Before DEF Matches
      <4>3. \A j \in Sequence!MatchedBefore(n).pos + 1 .. matched[n].pos : log'[j] = log[j]
        BY <3>2, <4>2, Lists, SMTT(30)
      <4>4. /\ Sequence!IsNextExpect(matched[n].step, Sequence!MatchedBefore(n).step)
            /\ Sequence!IsFirstAfter(matched[n].pos, Sequence!MatchedBefore(n).pos, Steps[matched[n].step].id)
        BY DEF Sequence!Greedy
      <4>5. /\ matched[n].pos \in Sequence!MatchedBefore(n).pos + 1 .. matched[n].pos
            /\ \A j \in Sequence!MatchedBefore(n).pos + 1 .. matched[n].pos - 1 :
                 j \in Sequence!MatchedBefore(n).pos + 1 .. matched[n].pos
        BY <4>2, <4>4, Lists, SMTT(30) DEF Sequence!IsFirstAfter
      <4> QED
        BY <4>3, <4>4, <4>5 DEF Sequence!IsFirstAfter
    <3> QED
      BY <3>2, <3>7, <3>8
  <2>14. CASE UNCHANGED Sequence!vars
    BY <2>1, <2>14, StaysCaught DEF Sequence!vars
  <2> QED
    BY <2>2, <2>3, <2>4, <2>5, <2>6, <2>7, <2>8, <2>9, <2>10, <2>11, <2>12, <2>13, <2>14
       DEF Sequence!Next, Sequence!Runner
<1> QED
  BY <1>1, <1>2, TypeInductive, PTL DEF Sequence!Spec

\* The expects are satisfied by the frames a reader of the log would pick, for
\* any file and any traffic.
THEOREM TakesFirstFrames == Spec => []Greedy
BY FirstFrames, SequenceRuns, PTL DEF Greedy

-----------------------------------------------------------------------------
(* `cantools monitor`                                                       *)

\* The window, element by element: as long as it can be, and aligned at its end.
Aligned ==
  /\ Len(events) = IF Len(received) <= Limit THEN Len(received) ELSE Limit
  /\ \A i \in 1 .. Len(events) : events[i] = received[Len(received) - Len(events) + i]

WindowInv ==
  /\ events \in Seq(Nat) /\ received \in Seq(Nat) /\ socket \in Seq(Nat)
  /\ arrived \in Nat
  /\ Limit >= 1 => Aligned

-----------------------------------------------------------------------------
\* One turn of the drain keeps the window aligned with what was received.
LEMMA PushAligns ==
  ASSUME WindowInv, Limit >= 1, NEW e \in Nat,
         events' = Mon!Push(events, e), received' = Append(received, e)
  PROVE  events' \in Seq(Nat) /\ received' \in Seq(Nat) /\ Aligned'
<1> USE LimitNat
<1>1. /\ events \in Seq(Nat) /\ received \in Seq(Nat) /\ Aligned
      /\ Len(events) \in Nat /\ Len(received) \in Nat
  BY DEF WindowInv
<1>2. received' \in Seq(Nat) /\ Len(received') = Len(received) + 1 /\ received'[Len(received) + 1] = e
      /\ \A i \in 1 .. Len(received) : received'[i] = received[i]
  BY <1>1
<1>3. CASE Len(events) = Limit
  <2>1. events # << >>
    BY <1>1, <1>3
  <2>2. events' = Append(Tail(events), e)
    BY <1>3, <2>1 DEF Mon!Push
  <2>3. /\ Tail(events) \in Seq(Nat) /\ Len(Tail(events)) = Limit - 1
        /\ \A i \in 1 .. Limit - 1 : Tail(events)[i] = events[i + 1]
    BY <1>1, <1>3, <2>1
  <2>4. /\ events' \in Seq(Nat) /\ Len(events') = Limit /\ events'[Limit] = e
        /\ \A i \in 1 .. Limit - 1 : events'[i] = events[i + 1]
    BY <2>2, <2>3
  <2>5. Len(received) >= Limit
    BY <1>1, <1>3 DEF Aligned
  <2>6. ASSUME NEW i \in 1 .. Limit
        PROVE  events'[i] = received'[Len(received') - Len(events') + i]
    <3>1. CASE i = Limit
      BY <1>1, <1>2, <2>4, <2>5, <3>1
    <3>2. CASE i # Limit
      <4>1. i \in 1 .. Limit - 1 /\ i + 1 \in 1 .. Len(events)
        BY <1>3, <3>2
      <4>2. events'[i] = received[Len(received) - Limit + (i + 1)]
        BY <1>1, <1>3, <2>4, <4>1 DEF Aligned
      <4>3. /\ Len(received) - Limit + (i + 1) \in 1 .. Len(received)
            /\ Len(received') - Len(events') + i = Len(received) - Limit + (i + 1)
        BY <1>1, <1>2, <2>4, <2>5, <4>1
      <4> QED
        BY <1>2, <4>2, <4>3
    <3> QED
      BY <3>1, <3>2
  <2>7. Len(events') = IF Len(received') <= Limit THEN Len(received') ELSE Limit
    BY <1>1, <1>2, <2>4, <2>5
  <2>8. \A i \in 1 .. Len(events') : events'[i] = received'[Len(received') - Len(events') + i]
    BY <2>4, <2>6
  <2> QED
    BY <1>2, <2>4, <2>7, <2>8 DEF Aligned
<1>4. CASE Len(events) # Limit
  <2>1. Len(received) < Limit /\ Len(events) = Len(received)
    BY <1>1, <1>4 DEF Aligned
  <2>2. events' = Append(events, e)
    BY <1>4 DEF Mon!Push
  <2>3. /\ events' \in Seq(Nat) /\ Len(events') = Len(received) + 1
        /\ events'[Len(received) + 1] = e
        /\ \A i \in 1 .. Len(received) : events'[i] = events[i]
    BY <1>1, <2>1, <2>2
  <2>4. ASSUME NEW i \in 1 .. Len(received) PROVE events[i] = received[i]
    <3>1. Len(received) - Len(events) + i = i /\ i \in 1 .. Len(events)
      BY <1>1, <2>1
    <3>2. events[i] = received[Len(received) - Len(events) + i]
      BY <1>1, <3>1 DEF Aligned
    <3> QED
      BY <3>1, <3>2
  <2>5. Len(received') <= Limit /\ Len(events') = Len(received')
    BY <1>1, <1>2, <2>1, <2>3
  <2>6. ASSUME NEW i \in 1 .. Len(events')
        PROVE  events'[i] = received'[Len(received') - Len(events') + i]
    <3>1. Len(received') - Len(events') + i = i
      BY <1>1, <1>2, <2>5
    <3>2. i \in 1 .. Len(received) \/ i = Len(received) + 1
      BY <1>1, <2>3
    <3> QED
      BY <1>2, <2>3, <2>4, <3>1, <3>2
  <2> QED
    BY <1>2, <2>3, <2>5, <2>6 DEF Aligned
<1> QED
  BY <1>3, <1>4

(***************************************************************************)
(* Whatever the limit (but 0) and however long the monitor runs, the       *)
(* window is the last Limit frames received, in order.                     *)
(***************************************************************************)
THEOREM WindowIsLatest == Spec => []Window
<1> USE LimitNat
<1>1. Mon!Init => WindowInv
  BY EmptySeq DEF Mon!Init, WindowInv, Aligned
<1>2. WindowInv /\ [Mon!Next]_Mon!vars => WindowInv'
  <2> SUFFICES ASSUME WindowInv, [Mon!Next]_Mon!vars PROVE WindowInv'
    OBVIOUS
  <2>1. CASE Mon!Drain
    <3>1. /\ socket # << >> /\ socket \in Seq(Nat)
          /\ events' = Mon!Push(events, Head(socket)) /\ received' = Append(received, Head(socket))
          /\ socket' = Tail(socket) /\ arrived' = arrived
      BY <2>1 DEF Mon!Drain, WindowInv
    <3>2. Head(socket) \in Nat /\ socket' \in Seq(Nat)
      BY <3>1
    <3>3. CASE Limit >= 1
      BY <3>1, <3>2, <3>3, PushAligns DEF WindowInv
    <3>4. CASE ~(Limit >= 1)
      <4>1. Mon!Push(events, Head(socket)) \in Seq(Nat) /\ Append(received, Head(socket)) \in Seq(Nat)
        BY <3>2 DEF WindowInv, Mon!Push
      <4> QED
        BY <3>1, <3>2, <3>4, <4>1 DEF WindowInv
    <3> QED
      BY <3>3, <3>4
  <2>2. CASE Mon!Arrive
    <3>1. /\ socket' \in Seq(Nat) /\ arrived' \in Nat
      BY <2>2 DEF Mon!Arrive, WindowInv
    <3> QED
      BY <2>2, <3>1 DEF Mon!Arrive, WindowInv, Aligned
  <2>3. CASE UNCHANGED <<events, received, socket, arrived>>
    BY <2>3 DEF WindowInv, Aligned
  <2>4. Mon!Drain \/ Mon!Arrive \/ UNCHANGED <<events, received, socket, arrived>>
    BY DEF Mon!Next, Mon!RunMonitor, Mon!OpenSocket, Mon!SetNonblocking, Mon!EnableRawMode,
           Mon!EnterScreen,
           Mon!NewTerminal, Mon!Setup, Mon!Drained, Mon!Draw, Mon!PollNothing, Mon!ReadKey,
           Mon!LoopFails,
           Mon!DisableRawMode, Mon!LeaveScreen, Mon!ShowCursor, Mon!Restore, Mon!PressKey,
           Mon!vars, Mon!env
  <2> QED
    BY <2>1, <2>2, <2>3, <2>4
<1>3. WindowInv => Window
  <2> SUFFICES ASSUME WindowInv, Limit >= 1 PROVE events = Mon!LastOf(received, Limit)
    BY DEF Window, Mon!Window
  <2>1. /\ events \in Seq(Nat) /\ received \in Seq(Nat) /\ Aligned
        /\ Len(events) \in Nat /\ Len(received) \in Nat
    BY DEF WindowInv
  <2> DEFINE from == IF Len(received) > Limit THEN Len(received) - Limit + 1 ELSE 1
  <2>2. Mon!LastOf(received, Limit) = SubSeq(received, from, Len(received))
    BY DEF Mon!LastOf
  <2>3. Len(events) = IF Len(received) <= Limit THEN Len(received) ELSE Limit
    BY <2>1 DEF Aligned
  <2>4. /\ from \in 1 .. Len(received) + 1
        /\ Len(events) = Len(received) - from + 1
    <3>1. CASE Len(received) > Limit
      <4>1. from = Len(received) - Limit + 1 /\ Len(events) = Limit
        BY <2>1, <2>3, <3>1
      <4> HIDE DEF from
      <4> QED
        BY <2>1, <3>1, <4>1
    <3>2. CASE Len(received) <= Limit
      BY <2>1, <2>3, <3>2
    <3> QED
      BY <2>1, <3>1, <3>2
  <2>5. \A i \in 1 .. Len(events) : events[i] = received[Len(received) - Len(events) + i]
    BY <2>1 DEF Aligned
  <2> HIDE DEF from
  <2>6. /\ SubSeq(received, from, Len(received)) \in Seq(Nat)
        /\ Len(SubSeq(received, from, Len(received))) = Len(received) - from + 1
        /\ \A i \in 1 .. Len(received) - from + 1 : SubSeq(received, from, Len(received))[i] = received[from + i - 1]
    <3>1. /\ from \in Int /\ Len(received) \in Int
          /\ \A i \in from .. Len(received) : received[i] \in Nat
      BY <2>1, <2>4
    <3>2. (IF from <= Len(received) THEN Len(received) - from + 1 ELSE 0) = Len(received) - from + 1
      BY <2>1, <2>4
    <3> QED
      BY <3>1, <3>2, SubSeqProperties
  <2>7. \A i \in 1 .. Len(events) : from + i - 1 = Len(received) - Len(events) + i
    BY <2>1, <2>4
  <2>8. \A i \in 1 .. Len(events) : events[i] = SubSeq(received, from, Len(received))[i]
    BY <2>4, <2>5, <2>6, <2>7
  <2>9. events = SubSeq(received, from, Len(received))
    BY <2>1, <2>4, <2>6, <2>8, SeqEqual
  <2> QED
    BY <2>2, <2>9
<1> QED
  BY <1>1, <1>2, <1>3, MonitorRuns, PTL DEF Mon!Spec

-----------------------------------------------------------------------------
\* What is left to be put back when each call of the epilogue is made.
Remaining ==
  /\ term \subseteq Mon!Changes
  /\ pc = "leave screen" => term \subseteq {"alternate screen", "hidden cursor"}
  /\ pc = "show cursor" => term \subseteq {"hidden cursor"}
  /\ Mon!Restored

(***************************************************************************)
(* However the loop ended, the terminal is as it was if nothing failed but *)
(* the loop itself.                                                        *)
(***************************************************************************)
THEOREM TerminalIsRestored == Spec => []Restored
<1>1. Mon!Init => Remaining
  BY DEF Mon!Init, Remaining, Mon!Restored
<1>2. Remaining /\ [Mon!Next]_Mon!vars => Remaining'
  <2> SUFFICES ASSUME Remaining, [Mon!Next]_Mon!vars PROVE Remaining'
    OBVIOUS
  <2> USE DEF Remaining, Mon!Restored, Mon!Changes
  <2>1. CASE Mon!OpenSocket \/ Mon!SetNonblocking \/ Mon!EnableRawMode \/ Mon!EnterScreen \/ Mon!NewTerminal
    BY <2>1 DEF Mon!OpenSocket, Mon!SetNonblocking, Mon!EnableRawMode, Mon!EnterScreen,
                Mon!NewTerminal, Mon!Setup
  <2>2. CASE Mon!Drain \/ Mon!Drained \/ Mon!Draw \/ Mon!PollNothing \/ Mon!ReadKey \/ Mon!LoopFails
    BY <2>2 DEF Mon!Drain, Mon!Drained, Mon!Draw, Mon!PollNothing, Mon!ReadKey, Mon!LoopFails
  <2>3. CASE Mon!DisableRawMode
    BY <2>3 DEF Mon!DisableRawMode, Mon!Restore
  <2>4. CASE Mon!LeaveScreen
    BY <2>4 DEF Mon!LeaveScreen, Mon!Restore
  <2>5. CASE Mon!ShowCursor
    BY <2>5 DEF Mon!ShowCursor, Mon!Restore
  <2>6. CASE Mon!Arrive \/ Mon!PressKey \/ UNCHANGED Mon!vars
    BY <2>6 DEF Mon!Arrive, Mon!PressKey, Mon!vars
  <2> QED
    BY <2>1, <2>2, <2>3, <2>4, <2>5, <2>6 DEF Mon!Next, Mon!RunMonitor
<1>3. Remaining => Restored
  BY DEF Remaining, Restored
<1> QED
  BY <1>1, <1>2, <1>3, MonitorRuns, PTL DEF Mon!Spec

-----------------------------------------------------------------------------
(* `cantools play`                                                          *)

(***************************************************************************)
(* A sleep is never asked for a negative time.                             *)
(***************************************************************************)
LEMMA QuotientNat ==
  ASSUME NEW a \in Nat, NEW b \in Nat \ {0}
  PROVE  a \div b \in Nat
BY SMT

LEMMA DelayNat ==
  ASSUME NEW delta \in Nat, NEW m \in Modes
  PROVE  Play!Delay(delta, m) \in Nat
<1>1. CASE m = Play!Immediate
  BY <1>1 DEF Play!Delay, Play!Immediate
<1>2. CASE m = Play!Preserve
  BY <1>2 DEF Play!Delay, Play!Preserve
<1>3. CASE m \in [type : {"scale"}, num : Int, den : Nat \ {0}]
  <2> DEFINE f == Play!Floored(m)
  <2>1. f.num \in Nat \ {0} /\ f.den \in Nat \ {0}
    BY <1>3 DEF Play!Floored, Play!Scale
  <2>2. delta * f.den \in Nat
    BY <2>1
  <2>3. (delta * f.den) \div f.num \in Nat
    BY <2>1, <2>2, QuotientNat
  <2> QED
    BY <1>3, <2>3 DEF Play!Delay
<1> QED
  BY <1>1, <1>2, <1>3, ModesTyped

LEMMA DeltaNat ==
  ASSUME NEW from \in Int, NEW to \in Int
  PROVE  Play!Delta(from, to) \in Nat /\ Play!Delta(from, to) >= to - from
BY DEF Play!Delta

LEMMA PlayInductive == Play!Spec => []Play!TypeOK
<1>1. Play!Init => Play!TypeOK
  BY CapturesTyped DEF Play!Init, Play!TypeOK
<1>2. Play!TypeOK /\ [Play!Next]_Play!vars => Play!TypeOK'
  <2> SUFFICES ASSUME Play!TypeOK, [Play!Next]_Play!vars PROVE Play!TypeOK'
    OBVIOUS
  <2> USE DEF Play!TypeOK
  <2>1. CASE Play!Finish
    BY <2>1 DEF Play!Finish
  <2>2. CASE Play!SendFirst
    BY <2>2 DEF Play!SendFirst
  <2>3. CASE Play!SleepThenSend
    <3>1. capture[position - 1] \in Int /\ capture[position] \in Int
      BY <2>3 DEF Play!SleepThenSend
    <3>2. Play!Delay(Play!Delta(capture[position - 1], capture[position]), mode) \in Nat
      BY <3>1, DelayNat, DeltaNat
    <3>3. clock' \in Nat
      BY <2>3, <3>2, ReplayBounds, SMTT(30) DEF Play!SleepThenSend
    <3> QED
      BY <2>3, <3>3 DEF Play!SleepThenSend
  <2>4. CASE Play!Sent
    BY <2>4, ReplayBounds DEF Play!Sent
  <2>5. CASE Play!SendFails
    BY <2>5 DEF Play!SendFails
  <2>6. CASE UNCHANGED Play!vars
    BY <2>6 DEF Play!vars
  <2> QED
    BY <2>1, <2>2, <2>3, <2>4, <2>5, <2>6 DEF Play!Next
<1> QED
  BY <1>1, <1>2, PTL DEF Play!Spec

(***************************************************************************)
(* Type correctness of a replay: every sleep is of a natural length, and   *)
(* exactly the events before `position`, with the one being sent, have a   *)
(* send time.                                                              *)
(***************************************************************************)
THEOREM ReplayTypes == Spec => []Play!TypeOK
BY PlayInductive, PlayRuns, PTL

-----------------------------------------------------------------------------
(***************************************************************************)
(* What makes NeverFaster inductive: no send lies in the future, so the    *)
(* next sleep adds at least its delta to all the distances before it.      *)
(***************************************************************************)
NoneAhead == \A i \in 1 .. Len(sent) : sent[i] <= clock

IInv == Play!TypeOK /\ NoneAhead /\ Play!NeverFaster /\ Play!NeverFasterScaled

(***************************************************************************)
(* From one send to the next, gap on gap: t0 and t1 are the times of two   *)
(* sends of events at e0 and e1, and t2 the clock a sleep later.           *)
(***************************************************************************)
LEMMA GapsAdd ==
  ASSUME NEW t0 \in Int, NEW t1 \in Int, NEW t2 \in Int, NEW t3 \in Int, NEW gap \in Int,
         NEW e0 \in Int, NEW e1 \in Int, NEW e2 \in Int,
         t1 - t0 >= e1 - e0, t2 >= t1, t3 >= t2 + gap, gap >= e2 - e1
  PROVE  t3 - t0 >= e2 - e0
OBVIOUS

\* A quotient that is cut to a whole number is less than one short.
LEMMA CutQuotient ==
  ASSUME NEW a \in Nat, NEW b \in Nat \ {0}
  PROVE  (a \div b + 1) * b >= a
BY SMT

\* A delta is slept for at that scale, up to one nanosecond.
LEMMA ScaledDelay ==
  ASSUME NEW m \in Modes, m.type = "scale", NEW from \in Int, NEW to \in Int,
         NEW num, num = Play!Floored(m).num, NEW den, den = Play!Floored(m).den
  PROVE  /\ num \in Nat \ {0} /\ den \in Nat \ {0}
         /\ (Play!Delay(Play!Delta(from, to), m) + 1) * num >= (to - from) * den
<1>1. m \in [type : {"scale"}, num : Int, den : Nat \ {0}]
  BY ModesTyped DEF Play!Immediate, Play!Preserve
<1>2. num \in Nat \ {0} /\ den \in Nat \ {0}
  BY <1>1 DEF Play!Floored, Play!Scale
<1> DEFINE delta == Play!Delta(from, to)
<1>3. delta \in Nat /\ delta >= to - from
  BY DeltaNat
<1>4. Play!Delay(delta, m) = (delta * den) \div num
  BY DEF Play!Delay
<1> HIDE DEF delta
<1>5. delta * den \in Nat /\ delta * den >= (to - from) * den /\ (to - from) * den \in Int
  BY <1>2, <1>3
<1>6. (Play!Delay(delta, m) + 1) * num >= delta * den
  BY <1>2, <1>4, <1>5, CutQuotient
<1>7. Play!Delay(delta, m) \in Nat
  BY <1>3, DelayNat
<1>8. (Play!Delay(delta, m) + 1) * num \in Int
  BY <1>2, <1>7
<1> QED
  BY <1>2, <1>5, <1>6, <1>8 DEF delta

\* As GapsAdd, for distances d and a gap at a scale.
LEMMA ScaledGapsAdd ==
  ASSUME NEW d \in Int, NEW gap \in Int, NEW d2 \in Int, d2 >= d + (gap + 1),
         NEW e0 \in Int, NEW e1 \in Int, NEW e2 \in Int,
         NEW num \in Nat \ {0}, NEW den \in Nat \ {0},
         d * num >= (e1 - e0) * den, (gap + 1) * num >= (e2 - e1) * den
  PROVE  d2 * num >= (e2 - e0) * den
<1>1. d2 * num >= (d + (gap + 1)) * num
  OBVIOUS
<1>2. (d + (gap + 1)) * num = d * num + (gap + 1) * num
  OBVIOUS
<1>3. (e2 - e0) * den = (e1 - e0) * den + (e2 - e1) * den
  OBVIOUS
<1>4. /\ d * num \in Int /\ (gap + 1) * num \in Int /\ d2 * num \in Int
      /\ (e1 - e0) * den \in Int /\ (e2 - e1) * den \in Int
  OBVIOUS
<1> QED
  BY <1>1, <1>2, <1>3, <1>4

\* What a sleep does, in the words the next proof needs.
LEMMA SleepSteps ==
  ASSUME Play!TypeOK, NoneAhead, Play!SleepThenSend,
         NEW n, n = position,
         NEW gap, gap = Play!Delay(Play!Delta(capture[n - 1], capture[n]), mode)
  PROVE  /\ n \in Nat /\ n > 1 /\ n <= Len(capture) /\ gap \in Nat
         /\ \A k \in 1 .. n : capture[k] \in Int
         /\ Len(sent) = n - 1
         /\ \A k \in 1 .. n - 1 : sent[k] \in Nat /\ sent[k] <= clock
         /\ clock \in Nat /\ clock' \in Nat /\ clock' >= clock + gap
         /\ Len(sent') = n /\ sent'[n] = clock'
         /\ \A k \in 1 .. n - 1 : sent'[k] = sent[k]
         /\ capture' = capture /\ mode' = mode
<1>1. /\ stage = "top" /\ n \in Nat /\ n > 1 /\ n <= Len(capture) /\ Len(capture) \in Nat
      /\ capture' = capture /\ mode' = mode
  BY DEF Play!TypeOK, Play!SleepThenSend
<1>2. Len(sent) = n - 1 /\ sent \in Seq(Nat)
  BY <1>1 DEF Play!TypeOK
<1>3. \A k \in 1 .. n : capture[k] \in Int
  <2>1. capture \in Seq(Int)
    BY DEF Play!TypeOK
  <2> QED
    BY <1>1, <2>1
<1>4. \A k \in 1 .. n - 1 : sent[k] \in Nat /\ sent[k] <= clock
  BY <1>1, <1>2 DEF NoneAhead
<1>5. gap \in Nat
  <2>1. n - 1 \in 1 .. n /\ n \in 1 .. n /\ mode \in Modes
    BY <1>1 DEF Play!TypeOK
  <2> QED
    BY <1>3, <2>1, DelayNat, DeltaNat
<1>6. clock \in Nat /\ clock' \in Nat /\ clock' >= clock + gap
  <2>1. clock \in Nat
    BY DEF Play!TypeOK
  <2>2. PICK late \in 0 .. MaxLate : clock' = clock + gap + late
    BY DEF Play!SleepThenSend
  <2> QED
    BY <1>5, <2>1, <2>2, ReplayBounds
<1>7. sent' = Append(sent, clock')
  BY DEF Play!SleepThenSend
<1>8. Len(sent') = n /\ sent'[n] = clock' /\ \A k \in 1 .. n - 1 : sent'[k] = sent[k]
  BY <1>1, <1>2, <1>6, <1>7
<1> QED
  BY <1>1, <1>2, <1>3, <1>4, <1>5, <1>6, <1>8

LEMMA SleepKeeps ==
  ASSUME IInv, Play!SleepThenSend
  PROVE  NoneAhead' /\ Play!NeverFaster' /\ Play!NeverFasterScaled'
<1>1. PICK n, gap : n = position /\ gap = Play!Delay(Play!Delta(capture[n - 1], capture[n]), mode)
  OBVIOUS
<1>2. /\ n \in Nat /\ n > 1 /\ n <= Len(capture) /\ gap \in Nat
      /\ \A k \in 1 .. n : capture[k] \in Int
      /\ Len(sent) = n - 1
      /\ \A k \in 1 .. n - 1 : sent[k] \in Nat /\ sent[k] <= clock
      /\ clock \in Nat /\ clock' \in Nat /\ clock' >= clock + gap
      /\ Len(sent') = n /\ sent'[n] = clock'
      /\ \A k \in 1 .. n - 1 : sent'[k] = sent[k]
      /\ capture' = capture /\ mode' = mode
  BY <1>1, SleepSteps DEF IInv
<1>3. NoneAhead'
  <2> SUFFICES ASSUME NEW i \in 1 .. n PROVE sent'[i] <= clock'
    BY <1>2 DEF NoneAhead
  <2>1. CASE i = n
    BY <1>2, <2>1
  <2>2. CASE i \in 1 .. n - 1
    <3>1. sent'[i] = sent[i] /\ sent[i] <= clock /\ sent[i] \in Nat
      BY <1>2, <2>2
    <3> QED
      BY <1>2, <3>1
  <2> QED
    BY <1>2, <2>1, <2>2
<1>4. Play!NeverFaster'
  <2> SUFFICES ASSUME mode = Play!Preserve, NEW i \in 1 .. n, NEW j \in 1 .. n, i < j
               PROVE  sent'[j] - sent'[i] >= capture[j] - capture[i]
    BY <1>2 DEF Play!NeverFaster
  <2>1. \A k, m \in 1 .. n - 1 : k < m => sent[m] - sent[k] >= capture[m] - capture[k]
    BY <1>2 DEF IInv, Play!NeverFaster
  <2>2. i \in 1 .. n - 1 /\ n - 1 \in 1 .. n - 1 /\ n - 1 \in 1 .. n /\ n \in 1 .. n
    BY <1>2
  <2>3. CASE j \in 1 .. n - 1
    BY <1>2, <2>1, <2>2, <2>3
  <2>4. CASE j = n
    <3>1. capture[i] \in Int /\ capture[n - 1] \in Int /\ capture[n] \in Int
      BY <1>2, <2>2
    <3>2. gap >= capture[n] - capture[n - 1]
      BY <1>1, <3>1, DeltaNat DEF Play!Delay, Play!Preserve
    <3>3. /\ sent[i] \in Nat /\ sent[n - 1] \in Nat /\ sent[n - 1] <= clock
          /\ sent'[i] = sent[i] /\ sent'[n] = clock'
      BY <1>2, <2>2
    <3>4. sent[n - 1] - sent[i] >= capture[n - 1] - capture[i]
      BY <1>2, <2>1, <2>2, <3>1, <3>3, SMTT(30)
    <3>5. clock' - sent[i] >= capture[n] - capture[i]
      <4>1. /\ sent[i] \in Int /\ sent[n - 1] \in Int /\ clock \in Int /\ clock' \in Int
            /\ gap \in Int /\ clock >= sent[n - 1] /\ clock' >= clock + gap
        BY <1>2, <3>3
      <4> QED
        BY <3>1, <3>2, <3>4, <4>1, GapsAdd
    <3> QED
      BY <2>4, <3>3, <3>5
  <2> QED
    BY <1>2, <2>3, <2>4
<1>5. Play!NeverFasterScaled'
  <2> DEFINE num == Play!Floored(mode).num
             den == Play!Floored(mode).den
  <2> SUFFICES ASSUME mode.type = "scale", NEW i \in 1 .. n, NEW j \in 1 .. n, i < j
               PROVE  (sent'[j] - sent'[i] + (j - i)) * num >= (capture[j] - capture[i]) * den
    BY <1>2 DEF Play!NeverFasterScaled
  <2>1. \A k, m \in 1 .. n - 1 :
          k < m => (sent[m] - sent[k] + (m - k)) * num >= (capture[m] - capture[k]) * den
    BY <1>2 DEF IInv, Play!NeverFasterScaled
  <2>2. i \in 1 .. n - 1 /\ n - 1 \in 1 .. n - 1 /\ n - 1 \in 1 .. n /\ n \in 1 .. n
    BY <1>2
  <2>3. capture[i] \in Int /\ capture[n - 1] \in Int /\ capture[n] \in Int
    BY <1>2, <2>2
  <2>4. /\ num \in Nat \ {0} /\ den \in Nat \ {0}
        /\ (gap + 1) * num >= (capture[n] - capture[n - 1]) * den
    BY <1>1, <2>3, ScaledDelay DEF IInv, Play!TypeOK
  <2> HIDE DEF num, den
  <2>5. CASE j \in 1 .. n - 1
    BY <1>2, <2>1, <2>2, <2>5
  <2>6. CASE j = n
    <3> DEFINE d == sent[n - 1] - sent[i] + ((n - 1) - i)
               d2 == sent'[n] - sent'[i] + (n - i)
    <3>1. /\ sent[i] \in Nat /\ sent[n - 1] \in Nat /\ sent[n - 1] <= clock
          /\ sent'[i] = sent[i] /\ sent'[n] = clock'
      BY <1>2, <2>2
    <3>2. d \in Int /\ d2 \in Int /\ d2 >= d + (gap + 1) /\ gap \in Int
      <4>1. /\ n \in Int /\ i \in Int /\ gap \in Int
            /\ clock \in Int /\ clock' \in Int /\ clock' >= clock + gap
        BY <1>2
      <4>2. d2 = clock' - sent[i] + (n - i)
        BY <3>1
      <4> QED
        BY <3>1, <4>1, <4>2
    <3>3. d * num >= (capture[n - 1] - capture[i]) * den
      <4>1. CASE i < n - 1
        BY <2>1, <2>2, <4>1
      <4>2. CASE i = n - 1
        <5>1. d = 0 /\ capture[n - 1] - capture[i] = 0
          BY <1>2, <2>3, <3>1, <4>2
        <5> HIDE DEF d
        <5> QED
          BY <2>4, <5>1
      <4> QED
        BY <1>2, <2>2, <4>1, <4>2
    <3> HIDE DEF d, d2
    <3>4. d2 * num >= (capture[n] - capture[i]) * den
      BY <2>3, <2>4, <3>2, <3>3, ScaledGapsAdd
    <3> QED
      BY <2>6, <3>4 DEF d2
  <2> QED
    BY <1>2, <2>5, <2>6
<1> QED
  BY <1>3, <1>4, <1>5

\* The invariant is inductive.
LEMMA Inductive == Play!Spec => []IInv
<1>1. Play!Init => NoneAhead /\ Play!NeverFaster /\ Play!NeverFasterScaled
  BY DEF Play!Init, NoneAhead, Play!NeverFaster, Play!NeverFasterScaled
<1>2. IInv /\ [Play!Next]_Play!vars => NoneAhead' /\ Play!NeverFaster' /\ Play!NeverFasterScaled'
  <2> SUFFICES ASSUME IInv, [Play!Next]_Play!vars
               PROVE  NoneAhead' /\ Play!NeverFaster' /\ Play!NeverFasterScaled'
    OBVIOUS
  <2> USE DEF IInv
  <2>1. CASE Play!Finish
    BY <2>1 DEF Play!Finish, NoneAhead, Play!NeverFaster, Play!NeverFasterScaled
  <2>2. CASE Play!SendFirst
    <3>1. sent = << >> /\ clock \in Nat /\ sent' = <<clock>> /\ clock' = clock
      BY <2>2 DEF Play!SendFirst, Play!TypeOK
    <3> QED
      BY <3>1 DEF NoneAhead, Play!NeverFaster, Play!NeverFasterScaled
  <2>3. CASE Play!SleepThenSend
    BY <2>3, SleepKeeps
  <2>4. CASE Play!Sent
    <3>1. /\ clock \in Nat /\ clock' \in Nat /\ clock' >= clock
          /\ sent \in Seq(Nat) /\ sent' = sent /\ capture' = capture /\ mode' = mode
      BY <2>4, ReplayBounds DEF Play!Sent, Play!TypeOK
    <3>2. \A i \in 1 .. Len(sent) : sent[i] \in Nat /\ sent[i] <= clock
      BY <3>1 DEF NoneAhead
    <3>3. NoneAhead'
      BY <3>1, <3>2 DEF NoneAhead
    <3>4. Play!NeverFaster' /\ Play!NeverFasterScaled'
      BY <3>1 DEF Play!NeverFaster, Play!NeverFasterScaled
    <3> QED
      BY <3>3, <3>4
  <2>5. CASE Play!SendFails
    BY <2>5 DEF Play!SendFails, NoneAhead, Play!NeverFaster, Play!NeverFasterScaled
  <2>6. CASE UNCHANGED Play!vars
    BY <2>6 DEF Play!vars, NoneAhead, Play!NeverFaster, Play!NeverFasterScaled
  <2> QED
    BY <2>1, <2>2, <2>3, <2>4, <2>5, <2>6 DEF Play!Next
<1> QED
  BY <1>1, <1>2, PlayInductive, PTL DEF Play!Spec, IInv

(***************************************************************************)
(* Never faster: in a replay that preserves the timing, any two frames are *)
(* at least as far apart as they were captured.                            *)
(***************************************************************************)
THEOREM ReplaysNoFaster == Spec => []NeverFaster
<1>1. IInv => NeverFaster
  BY DEF IInv, NeverFaster
<1> QED
  BY <1>1, Inductive, PlayRuns, PTL

(***************************************************************************)
(* At another speed, too, but for a nanosecond a sleep: at any scale, with *)
(* timestamps in any order and the floor under scales that are too small.  *)
(***************************************************************************)
THEOREM ReplaysNoFasterScaled == Spec => []NeverFasterScaled
<1>1. IInv => NeverFasterScaled
  BY DEF IInv, NeverFasterScaled
<1> QED
  BY <1>1, Inductive, PlayRuns, PTL
=============================================================================
