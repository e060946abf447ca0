---------------------------- MODULE SequenceRunner ----------------------------
(***************************************************************************)
(* cantools-cli, `cantools sequence`: the steps of a file run one after    *)
(* another against a nonblocking raw socket, while frames arrive in the    *)
(* kernel's receive queue at any moment and time passes.                   *)
(*                                                                         *)
(* Time is counted in ticks.  Instead of a clock and a deadline the model  *)
(* keeps what is left of the timeout, which is all the code compares.      *)
(***************************************************************************)
EXTENDS Integers, Sequences

CONSTANTS
  Steps,      \* the file: [type |-> "send"], [type |-> "sleep", ticks |-> n]
              \* or [type |-> "expect", id |-> i, timeout |-> n]
  Ids,        \* identifiers of the frames on the bus
  Noise,      \* an identifier no step expects
  PollTicks,  \* how long an empty receive queue makes the loop sleep
  Room,       \* frames the receive queue of the socket holds
  MaxFrames,  \* bound: frames that are told apart
  Flood       \* whether frames with Noise keep arriving after those

\* Assumed of the constants, by the module that instantiates this one.
Assumptions ==
  /\ Steps \in Seq([type : {"send"}] \cup [type : {"sleep"}, ticks : Nat]
                     \cup [type : {"expect"}, id : Ids, timeout : Nat])
  /\ Noise \notin Ids
  /\ PollTicks \in Nat \ {0} /\ Room \in Nat \ {0} /\ MaxFrames \in Nat
  /\ Flood \in BOOLEAN

VARIABLES
  prompt,   \* whether the process runs whenever it can, so that time passes
            \* only while it sleeps; fixed for the whole run
  step,     \* the step that runs
  phase,    \* where it is
  left,     \* deadline - now while an expect runs
  nap,      \* ticks the process still sleeps
  queue,    \* the kernel's receive queue: [id, pos]
  \* History, read by the properties alone:
  log,      \* identifiers of the frames queued; pos is an index into it, or 0
  napped,   \* Len(log) when an expect last began to nap
  matched   \* what each expect so far was satisfied with: [step, pos]

history == <<log, napped, matched>>
vars == <<prompt, step, phase, left, nap, queue, log, napped, matched>>

Step == Steps[step]
Saturated == -(PollTicks + 1)
Stopped == {"done", "expired", "failed"}

-----------------------------------------------------------------------------
Init ==
  /\ prompt \in BOOLEAN
  /\ step = 1
  /\ phase = "ready"
  /\ left = 0
  /\ nap = 0
  /\ queue = << >>
  /\ log = << >>
  /\ napped = 0
  /\ matched = << >>

NextStep == step' = step + 1 /\ phase' = "ready"

\* The frame at the head of the queue satisfies the expect.
Match == matched' = Append(matched, [step |-> step, pos |-> Head(queue).pos])

Finish ==
  /\ phase = "ready"
  /\ step > Len(Steps)
  /\ phase' = "done"
  /\ UNCHANGED <<prompt, step, left, nap, queue, history>>

\* The frame goes out, or an error (in its text or of the socket) ends the run.
Send ==
  /\ phase = "ready" /\ step <= Len(Steps)
  /\ Step.type = "send"
  /\ NextStep \/ (phase' = "failed" /\ UNCHANGED step)
  /\ UNCHANGED <<prompt, left, nap, queue, history>>

Sleep ==
  /\ phase = "ready" /\ step <= Len(Steps)
  /\ Step.type = "sleep"
  /\ phase' = "sleeping"
  /\ nap' = Step.ticks
  /\ UNCHANGED <<prompt, step, left, queue, history>>

EndSleep ==
  /\ phase = "sleeping" /\ nap = 0
  /\ NextStep
  /\ UNCHANGED <<prompt, left, nap, queue, history>>

\* The clock starts; an identifier `parse_id` refuses ends the run only here.
Expect ==
  /\ phase = "ready" /\ step <= Len(Steps)
  /\ Step.type = "expect"
  /\ \/ phase' = "check" /\ left' = Step.timeout
     \/ phase' = "failed" /\ UNCHANGED left
  /\ UNCHANGED <<prompt, step, nap, queue, history>>

\* `if Instant::now() > deadline`
CheckDeadline ==
  /\ phase = "check"
  /\ phase' = IF left < 0 THEN "expired" ELSE "recv"
  /\ UNCHANGED <<prompt, step, left, nap, queue, history>>

\* Mutant: a frame of another identifier goes back to the queue.
RecvFrameRequeued ==
  /\ phase = "recv"
  /\ queue # << >>
  /\ IF Head(queue).id = Step.id
     THEN /\ NextStep
          /\ queue' = Tail(queue)
          /\ Match
     ELSE /\ phase' = "check"
          /\ queue' = Append(Tail(queue), Head(queue))
          /\ UNCHANGED <<step, matched>>
  /\ UNCHANGED <<prompt, left, nap, log, napped>>

\* Mutant: the deadline is looked at only when the queue is empty.
RecvFrameUntimed ==
  /\ phase = "recv"
  /\ queue # << >>
  /\ queue' = Tail(queue)
  /\ IF Head(queue).id = Step.id
     THEN NextStep /\ Match
     ELSE UNCHANGED <<step, phase, matched>>
  /\ UNCHANGED <<prompt, left, nap, log, napped>>

\* Mutant: a frame of another identifier, too, makes the loop sleep.
RecvFrameNapping ==
  /\ phase = "recv"
  /\ queue # << >>
  /\ queue' = Tail(queue)
  /\ IF Head(queue).id = Step.id
     THEN NextStep /\ Match /\ UNCHANGED <<nap, napped>>
     ELSE phase' = "napping" /\ nap' = PollTicks /\ napped' = Len(log)
          /\ UNCHANGED <<step, matched>>
  /\ UNCHANGED <<prompt, left, log>>

\* A frame of the expected identifier ends the step, another is dropped.
RecvFrame ==
  /\ phase = "recv"
  /\ queue # << >>
  /\ queue' = Tail(queue)
  /\ IF Head(queue).id = Step.id
     THEN NextStep /\ Match
     ELSE phase' = "check" /\ UNCHANGED <<step, matched>>
  /\ UNCHANGED <<prompt, left, nap, log, napped>>

\* Mutant: the nap grows.
RecvNothingBackoff ==
  /\ phase = "recv"
  /\ queue = << >>
  /\ phase' = "napping"
  /\ nap' = 2 * PollTicks
  /\ napped' = Len(log)
  /\ UNCHANGED <<prompt, step, left, queue, log, matched>>

\* Nothing there: sleep for a poll interval and look at the deadline again.
RecvNothing ==
  /\ phase = "recv"
  /\ queue = << >>
  /\ phase' = "napping"
  /\ nap' = PollTicks
  /\ napped' = Len(log)
  /\ UNCHANGED <<prompt, step, left, queue, log, matched>>

RecvFails ==
  /\ phase = "recv"
  /\ phase' = "failed"
  /\ UNCHANGED <<prompt, step, left, nap, queue, history>>

EndNap ==
  /\ phase = "napping" /\ nap = 0
  /\ phase' = "check"
  /\ UNCHANGED <<prompt, step, left, nap, queue, history>>

Runner ==
  \/ Finish \/ Send \/ Sleep \/ EndSleep \/ Expect
  \/ CheckDeadline \/ RecvFrame \/ RecvNothing \/ RecvFails \/ EndNap

-----------------------------------------------------------------------------
\* The kernel queues a frame; one that finds the queue full is gone.
Arrive(id) ==
  /\ phase \notin Stopped
  /\ Len(queue) < Room
  /\ IF Len(log) < MaxFrames
     THEN /\ log' = Append(log, id)
          /\ queue' = Append(queue, [id |-> id, pos |-> Len(log) + 1])
     ELSE /\ Flood /\ id = Noise
          /\ queue' = Append(queue, [id |-> id, pos |-> 0])
          /\ UNCHANGED log
  /\ UNCHANGED <<prompt, step, phase, left, nap, napped, matched>>

\* Both clocks of the process move together.
Tick ==
  /\ phase \in {"sleeping", "napping", "check", "recv"}
  /\ nap > 0 \/ (~prompt /\ left > Saturated)
  /\ nap' = IF nap > 0 THEN nap - 1 ELSE 0
  /\ left' = IF phase # "sleeping" /\ left > Saturated THEN left - 1 ELSE left
  /\ UNCHANGED <<prompt, step, phase, queue, history>>

Next == Runner \/ Tick \/ \E id \in Ids \cup {Noise} : Arrive(id)

Spec == Init /\ [][Next]_vars

-----------------------------------------------------------------------------
TypeOK ==
  /\ prompt \in BOOLEAN
  /\ step \in 1 .. Len(Steps) + 1
  /\ phase \in Stopped \cup {"ready", "sleeping", "check", "recv", "napping"}
  /\ left \in Int /\ left >= Saturated
  /\ nap \in Nat
  /\ queue \in Seq([id : Ids \cup {Noise}, pos : 0 .. MaxFrames])
  /\ Len(queue) <= Room
  /\ log \in Seq(Ids \cup {Noise}) /\ Len(log) <= MaxFrames
  /\ napped \in 0 .. Len(log)
  /\ matched \in Seq([step : 1 .. Len(Steps), pos : 1 .. Len(log)])

\* Frame i of the log is the first with that identifier after frame `from`.
IsFirstAfter(i, from, id) ==
  /\ i > from /\ log[i] = id
  /\ \A j \in from + 1 .. i - 1 : log[j] # id

\* Step s is the first expect after step `from`.
IsNextExpect(s, from) ==
  /\ s > from /\ Steps[s].type = "expect"
  /\ \A r \in from + 1 .. s - 1 : Steps[r].type # "expect"

Unmatched == [step |-> 0, pos |-> 0]
MatchedBefore(n) == IF n = 1 THEN Unmatched ELSE matched[n - 1]

(***************************************************************************)
(* The expects are satisfied by what a reader of the bus log would pick:   *)
(* for each expect in turn the first frame with its identifier after the   *)
(* one the expect before it took.  No frame answers two expects, none is   *)
(* answered by a frame that came before an earlier answer, and no answer   *)
(* is passed over, whatever sleeps and timeouts lie in between.            *)
(***************************************************************************)
Greedy ==
  \A n \in 1 .. Len(matched) :
    /\ IsNextExpect(matched[n].step, MatchedBefore(n).step)
    /\ IsFirstAfter(matched[n].pos, MatchedBefore(n).pos, Steps[matched[n].step].id)

(***************************************************************************)
(* If the process is scheduled promptly then an expect that times out has  *)
(* missed at most what arrived during its last nap: every frame that was   *)
(* in the queue when that nap began has been looked at.                    *)
(***************************************************************************)
NothingTimelyMissed ==
  prompt /\ phase = "expired" =>
    \A i \in 1 .. Len(queue) : queue[i].id = Step.id => queue[i].pos > napped

(***************************************************************************)
(* Its waiting is bounded too: it gives up within one poll interval of the *)
(* deadline.                                                               *)
(***************************************************************************)
GivesUpInTime == prompt => left >= -PollTicks

(***************************************************************************)
(* The run ends, even when the bus never falls silent: as time passes also *)
(* while frames are looked at, no stream of other frames keeps an expect   *)
(* from its deadline.                                                      *)
(***************************************************************************)
Terminates == ~prompt => <>(phase \in Stopped)
=============================================================================
