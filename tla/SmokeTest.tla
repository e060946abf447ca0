------------------------------ MODULE SmokeTest ------------------------------
(***************************************************************************)
(* xtask, `run_socketcan_smoke_test`: three processes and a virtual bus.   *)
(* The test starts a receiver, `cantools dump --count 1` under             *)
(* `timeout 20s`, pauses for a second so that it can bind, runs            *)
(* `cantools send` and then waits for the receiver and looks at what it    *)
(* printed.  Nothing but the pause orders the bind before the send, other  *)
(* programs may talk on the bus too, and every command may fail.           *)
(*                                                                         *)
(* Time is counted in seconds.                                             *)
(***************************************************************************)
EXTENDS Integers, Sequences, SequencesExt

CONSTANTS
  Pause,       \* seconds the test sleeps before it sends
  Timeout,     \* seconds `timeout` gives the receiver
  Foreign,     \* frames other programs send: [extended, tail, data, fd]
  MaxForeign   \* bound: how many of them

\* Assumed of the constants, by the module that instantiates this one.
Assumptions ==
  /\ Pause \in Nat \ {0} /\ Timeout \in Nat /\ Pause < Timeout
  /\ MaxForeign \in Nat

VARIABLES
  test,      \* where the test is
  nap,       \* seconds it still sleeps
  receiver,  \* "none", "spawned", "starting" once `timeout` counts, "bound",
             \* and how it ended: "reported", "failed", "killed"
  age,       \* seconds since `timeout` began to count
  queue,     \* the receive queue of its socket: [frame, injected]
  printed,   \* what it printed
  sender,    \* "none", "running", "sent", "failed"
  foreign,   \* how many frames others have sent during this test
  orphans,   \* the receivers of earlier tests that still run, each by its age
  \* History, read by the properties alone:
  faulted,   \* whether a command or a call on a socket failed
  ready,     \* whether the receiver was bound before the pause was over
  late,      \* whether the frame left only when the receiver's time was up
  alike      \* whether somebody else's frame prints like the injected one

processes == <<receiver, age, queue, printed, sender, foreign>>
history == <<faulted, ready, late, alike>>
vars == <<test, nap, processes, orphans, history>>

Listening == receiver \in {"spawned", "starting", "bound"}
Over == test \in {"passed", "failed"}
Nothing == << >>
NotBegun == -1  \* the age of a receiver whose `timeout` does not count yet

\* `--id 123 --data 01020304`.  Of an identifier only its last three digits
\* and whether it is printed with eight of them are told apart.
Injected == [extended |-> FALSE, tail |-> "123", data |-> "01 02 03 04", fd |-> FALSE]

\* Mutant: "[4]" is looked for, but `render_frame` pads the length.
PrintsInjectedUnpadded(frame) == FALSE

\* `receiver_stdout.contains("123 [ 4] 01 02 03 04")`, of a line `render_frame`
\* made: more digits before, or the suffix of an FD frame, are not noticed.
PrintsInjected(frame) == frame.tail = Injected.tail /\ frame.data = Injected.data

-----------------------------------------------------------------------------
Init ==
  /\ test = "idle" /\ nap = 0
  /\ receiver = "none" /\ age = 0
  /\ queue = << >> /\ printed = Nothing
  /\ sender = "none" /\ foreign = 0
  /\ orphans = << >>
  /\ faulted = FALSE /\ ready = FALSE /\ late = FALSE /\ alike = FALSE

\* Another xtask will run the test anew.  The sender of the last one was waited
\* for; its receiver need not have been.
Renew ==
  /\ Over
  /\ test' = "idle" /\ nap' = 0
  /\ receiver' = "none" /\ age' = 0
  /\ queue' = << >> /\ printed' = Nothing
  /\ sender' = "none" /\ foreign' = 0
  /\ orphans' = IF ~Listening THEN orphans
                ELSE Append(orphans, IF receiver = "spawned" THEN NotBegun ELSE age)
  /\ faulted' = FALSE /\ ready' = FALSE /\ late' = FALSE /\ alike' = FALSE

Fault == faulted' = TRUE /\ UNCHANGED <<ready, late, alike>>

\* `bail!` or `?`.  The Child is dropped, which neither stops nor awaits it.
Bail == test' = "failed" /\ Fault

Start ==
  /\ test = "idle"
  /\ \/ /\ test' = "pause"
        /\ nap' = Pause
        /\ receiver' = "spawned"
        /\ UNCHANGED history
     \/ Bail /\ UNCHANGED <<nap, receiver>>
  /\ UNCHANGED <<age, queue, printed, sender, foreign, orphans>>

StartSender ==
  /\ test = "pause" /\ nap = 0
  /\ \/ test' = "send" /\ sender' = "running" /\ UNCHANGED history
     \/ Bail /\ UNCHANGED sender
  /\ UNCHANGED <<nap, receiver, age, queue, printed, foreign, orphans>>

\* The sender has ended; its status is looked at.
CheckSender ==
  /\ test = "send"
  /\ sender \in {"sent", "failed"}
  /\ test' = IF sender = "sent" THEN "wait" ELSE "failed"
  /\ UNCHANGED <<nap, processes, orphans, history>>

\* `wait_with_output`, then the status and the output.
Collect ==
  /\ test = "wait"
  /\ receiver \in {"reported", "failed", "killed"}
  /\ test' = IF receiver = "reported" /\ PrintsInjected(printed.frame) THEN "passed" ELSE "failed"
  /\ UNCHANGED <<nap, processes, orphans, history>>

Test == StartSender \/ CheckSender \/ Collect

-----------------------------------------------------------------------------
(* The receiver.                                                            *)

TimeoutBegins ==
  /\ receiver = "spawned"
  /\ receiver' = "starting"
  /\ UNCHANGED <<test, nap, age, queue, printed, sender, foreign, orphans, history>>

\* The error ends the receiver; the test learns of it only when it waits.
ReceiverFails ==
  /\ receiver \in {"starting", "bound"}
  /\ receiver' = "failed"
  /\ Fault
  /\ UNCHANGED <<test, nap, age, queue, printed, sender, foreign, orphans>>

\* `RawSocket::open`
ReceiverBinds ==
  /\ receiver = "starting"
  /\ receiver' = "bound"
  /\ ready' = (test = "pause" /\ nap > 0)
  /\ UNCHANGED <<test, nap, age, queue, printed, sender, foreign, orphans, faulted, late, alike>>

\* `recv` returns the first frame, which is printed; that is all.
Reports ==
  /\ receiver = "bound"
  /\ queue # << >>
  /\ printed' = Head(queue)
  /\ receiver' = "reported"
  /\ UNCHANGED <<test, nap, age, queue, sender, foreign, orphans, history>>

\* Mutant: `dump` runs without `timeout`.
KilledNever == FALSE /\ UNCHANGED vars

Killed ==
  /\ receiver \in {"starting", "bound"}
  /\ age = Timeout
  /\ receiver' = "killed"
  /\ UNCHANGED <<test, nap, age, queue, printed, sender, foreign, orphans, history>>

Receiver == TimeoutBegins \/ ReceiverFails \/ ReceiverBinds \/ Reports \/ Killed

-----------------------------------------------------------------------------
(* The sender, the bus and the clock.                                       *)

OnBus(frame, injected) ==
  queue' = IF receiver = "bound"
           THEN Append(queue, [frame |-> frame, injected |-> injected]) ELSE queue

SenderSends ==
  /\ sender = "running"
  /\ sender' = "sent"
  /\ OnBus(Injected, TRUE)
  /\ late' = (age = Timeout)
  /\ UNCHANGED <<test, nap, receiver, age, printed, foreign, orphans, faulted, ready, alike>>

SenderFails ==
  /\ sender = "running"
  /\ sender' = "failed"
  /\ Fault
  /\ UNCHANGED <<test, nap, receiver, age, queue, printed, foreign, orphans>>

Sender == SenderSends \/ SenderFails

SomebodySends(frame) ==
  /\ foreign < MaxForeign
  /\ OnBus(frame, FALSE)
  /\ foreign' = foreign + 1
  /\ alike' = (alike \/ PrintsInjected(frame))
  /\ UNCHANGED <<test, nap, receiver, age, printed, sender, orphans, faulted, ready, late>>

\* The receivers of earlier tests: no one waits for them, and they send nothing.
OrphanBegins ==
  /\ \E i \in DOMAIN orphans :
       orphans[i] = NotBegun /\ orphans' = [orphans EXCEPT ![i] = 0]
  /\ UNCHANGED <<test, nap, processes, history>>

\* A frame comes or a call fails, at any time; or `timeout` ends it.
OrphanEnds(i) ==
  /\ orphans[i] # NotBegun
  /\ orphans' = RemoveAt(orphans, i)
  /\ UNCHANGED <<test, nap, processes, history>>

OrphanKilled == \E i \in DOMAIN orphans : orphans[i] = Timeout /\ OrphanEnds(i)

Orphans == OrphanBegins \/ \E i \in DOMAIN orphans : OrphanEnds(i)

Counting(a) == a # NotBegun /\ a < Timeout
Older(a) == IF Counting(a) THEN a + 1 ELSE a

\* A process takes less than a second to read a frame that is there.
Tick ==
  /\ ~(receiver = "bound" /\ queue # << >>)
  /\ \/ nap > 0
     \/ receiver \in {"starting", "bound"} /\ age < Timeout
     \/ \E i \in DOMAIN orphans : Counting(orphans[i])
  /\ nap' = IF nap > 0 THEN nap - 1 ELSE 0
  /\ age' = IF receiver \in {"starting", "bound"} THEN Older(age) ELSE age
  /\ orphans' = [i \in DOMAIN orphans |-> Older(orphans[i])]
  /\ UNCHANGED <<test, receiver, queue, printed, sender, foreign, history>>

\* What goes on once a test has started.
Goes ==
  \/ Test \/ Receiver \/ Sender \/ Orphans \/ Tick
  \/ \E frame \in Foreign : SomebodySends(frame)

Next == Start \/ Goes \/ Renew

\* The processes are scheduled and time passes.  Nobody else has to send, and
\* a receiver need not come further than the start of its `timeout`.
Fairness ==
  /\ WF_vars(Test) /\ WF_vars(Sender) /\ WF_vars(Tick)
  /\ WF_vars(TimeoutBegins) /\ WF_vars(Reports \/ Killed)
  /\ WF_vars(OrphanBegins) /\ WF_vars(OrphanKilled)

Spec == Init /\ [][Next]_vars /\ Fairness

-----------------------------------------------------------------------------
(***************************************************************************)
(* The verdict is right.  A test that passes has seen its own frame travel *)
(* from the sender to the receiver, unless somebody else put one on the    *)
(* bus that prints alike.  One that fails has a cause: a receiver that is  *)
(* bound before the pause is over makes the test pass, if no command       *)
(* fails, nobody else talks and the sender is faster than the timeout.     *)
(***************************************************************************)
Verdict ==
  /\ test = "passed" => sender = "sent" /\ (printed.injected \/ alike)
  /\ test = "failed" => faulted \/ ~ready \/ late \/ foreign > 0

(***************************************************************************)
(* A test that has started comes to an end, and so does its receiver: also *)
(* the one that nobody waits for because the sender failed, whether or not *)
(* the next test has started by then.                                      *)
(***************************************************************************)
NothingLeftRunning ==
  /\ test # "idle" ~> Over
  /\ Listening \/ orphans # << >> ~> ~Listening /\ orphans = << >>
=============================================================================
