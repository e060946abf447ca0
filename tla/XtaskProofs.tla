----------------------------- MODULE XtaskProofs -----------------------------
(***************************************************************************)
(* Xtask, for all data, trees, strangers on the bus and sessions: the      *)
(* verdict of the smoke test, what codegen leaves behind, the search for   *)
(* placeholders, and the gate before main.  Each part has an invariant     *)
(* that its own steps keep; the steps of the composition are steps of the  *)
(* parts or leave them alone.                                              *)
(***************************************************************************)
EXTENDS Xtask, FiniteSetTheorems, SequenceTheorems, TLAPS

-----------------------------------------------------------------------------
(* The parts of the composition make their own steps or none.               *)

LEMMA SmokeSteps == [Next]_vars => [Smoke!Next]_smokes
<1> SUFFICES ASSUME [Next]_vars PROVE [Smoke!Next]_smokes
  OBVIOUS
<1>1. CASE RunStage
  BY <1>1 DEF RunStage, UnchangedParts
<1>2. CASE RunPart
  BY <1>2 DEF RunPart, RunSmokeTest, Smoke!Next
<1>3. CASE PartEnds
  BY <1>3 DEF PartEnds, UnchangedParts
<1>4. CASE \E p \in DOMAIN Pushes : Push(p)
  BY <1>4 DEF Push, Begin, UnchangedParts, Smoke!Next
<1>5. CASE HookExits
  BY <1>5 DEF HookExits, UnchangedParts
<1>6. CASE \E c \in Commands : Invoke(c)
  BY <1>6 DEF Invoke, Begin, Smoke!Next
<1>7. CASE UNCHANGED vars
  BY <1>7 DEF vars
<1> QED
  BY <1>1, <1>2, <1>3, <1>4, <1>5, <1>6, <1>7 DEF Next

LEMMA GenSteps == [Next]_vars => [Gen!Next]_gens
<1> SUFFICES ASSUME [Next]_vars PROVE [Gen!Next]_gens
  OBVIOUS
<1>1. CASE RunStage
  BY <1>1 DEF RunStage, UnchangedParts
<1>2. CASE RunPart
  BY <1>2 DEF RunPart, Gen!Next, Gen!Command
<1>3. CASE PartEnds
  BY <1>3 DEF PartEnds, UnchangedParts
<1>4. CASE \E p \in DOMAIN Pushes : Push(p)
  BY <1>4 DEF Push, Begin, UnchangedParts, Gen!Next, Gen!Command
<1>5. CASE HookExits
  BY <1>5 DEF HookExits, UnchangedParts
<1>6. CASE \E c \in Commands : Invoke(c)
  BY <1>6 DEF Invoke, Begin, Gen!Next, Gen!Command
<1>7. CASE UNCHANGED vars
  BY <1>7 DEF vars
<1> QED
  BY <1>1, <1>2, <1>3, <1>4, <1>5, <1>6, <1>7 DEF Next

LEMMA MarkersSteps == [Next]_vars => [Markers!Next]_marks
<1> SUFFICES ASSUME [Next]_vars PROVE [Markers!Next]_marks
  OBVIOUS
<1>1. CASE RunStage
  BY <1>1 DEF RunStage, UnchangedParts
<1>2. CASE RunPart
  BY <1>2 DEF RunPart, Markers!Next, Markers!Check
<1>3. CASE PartEnds
  BY <1>3 DEF PartEnds, UnchangedParts
<1>4. CASE \E p \in DOMAIN Pushes : Push(p)
  BY <1>4 DEF Push, Begin, UnchangedParts, Markers!Next, Markers!Check
<1>5. CASE HookExits
  BY <1>5 DEF HookExits, UnchangedParts
<1>6. CASE \E c \in Commands : Invoke(c)
  BY <1>6 DEF Invoke, Begin, Markers!Next, Markers!Check
<1>7. CASE UNCHANGED vars
  BY <1>7 DEF vars
<1> QED
  BY <1>1, <1>2, <1>3, <1>4, <1>5, <1>6, <1>7 DEF Next

-----------------------------------------------------------------------------
(* The smoke test.                                                          *)

Frames == Foreign \cup {Smoke!Injected}
Items == [frame : Frames, injected : BOOLEAN]

SmokeType ==
  /\ test \in {"idle", "pause", "send", "wait", "passed", "failed"}
  /\ receiver \in {"none", "spawned", "starting", "bound", "reported", "failed", "killed"}
  /\ sender \in {"none", "running", "sent", "failed"}
  /\ nap \in Nat /\ age \in Nat /\ age <= Timeout /\ foreign \in Nat
  /\ queue \in Seq(Items)

\* A frame that looks like the injected one is that one, or somebody's is alike.
Told(item) == item.injected \/ (Smoke!PrintsInjected(item.frame) => alike)

\* How far the test and the sender have come with each other.
Order ==
  /\ test \in {"idle", "pause"} => sender = "none"
  /\ test \in {"wait", "passed"} => sender = "sent"
  /\ sender = "failed" => faulted
  /\ test = "idle" => receiver = "none"

Passing == test = "passed" => receiver = "reported" /\ Smoke!PrintsInjected(printed.frame)

Evidence ==
  /\ \A i \in 1 .. Len(queue) : Told(queue[i])
  /\ receiver = "reported" => Told(printed)

\* What the receiver is up to when nothing has gone wrong.
Troubled == faulted \/ ~ready \/ late \/ foreign > 0
OwnFrame == [frame |-> Smoke!Injected, injected |-> TRUE]

Before ==
  /\ sender \in {"none", "running"}
  /\ queue = << >>
  /\ receiver = "bound" \/ (receiver = "killed" /\ age = Timeout)

After ==
  /\ sender = "sent"
  /\ \/ receiver = "bound" /\ queue = <<OwnFrame>> /\ age < Timeout
     \/ receiver = "reported" /\ printed = OwnFrame

Smooth == Troubled \/ (test # "failed" /\ (Before \/ After))

\* Who is not bound has neither been ready nor received anything.
Unbound ==
  /\ receiver \in {"none", "spawned", "starting"} => queue = << >> /\ ~ready
  /\ sender \in {"none", "running"} => ~late

SmokeInv == SmokeType /\ Order /\ Passing /\ Evidence /\ Smooth /\ Unbound


LEMMA SmokeInit ==
  ASSUME Smoke!Init PROVE SmokeInv
<1>1. Timeout \in Nat
  BY PartsAssumption DEF Smoke!Assumptions
<1>2. SmokeType
  BY <1>1 DEF Smoke!Init, SmokeType
<1>4. Order /\ Passing /\ Evidence /\ Unbound
  BY DEF Smoke!Init, Order, Passing, Evidence, Unbound
<1>3. Smooth
  BY DEF Smoke!Init, Smooth, Troubled
<1> QED
  BY <1>2, <1>3, <1>4 DEF SmokeInv

\* A test to be run anew is where the first one began.
LEMMA RenewInv ==
  ASSUME Smoke!Renew PROVE SmokeInv'
<1>1. Timeout \in Nat
  BY PartsAssumption DEF Smoke!Assumptions
<1>2. SmokeType'
  BY <1>1 DEF Smoke!Renew, SmokeType
<1>3. Order' /\ Passing' /\ Evidence' /\ Unbound'
  BY DEF Smoke!Renew, Order, Passing, Evidence, Unbound
<1>4. Smooth'
  BY DEF Smoke!Renew, Smooth, Troubled
<1> QED
  BY <1>2, <1>3, <1>4 DEF SmokeInv

LEMMA BusKeepsItems ==
  ASSUME queue \in Seq(Items), NEW frame \in Frames, NEW injected \in BOOLEAN,
         Smoke!OnBus(frame, injected)
  PROVE  queue' \in Seq(Items)
<1> DEFINE item == [frame |-> frame, injected |-> injected]
<1>1. item \in Items
  BY DEF Items
<1>2. queue' = Append(queue, item) \/ queue' = queue
  BY DEF Smoke!OnBus
<1> HIDE DEF item
<1> QED
  BY <1>1, <1>2, AppendProperties

\* The steps of one test.  A receiver of an earlier one touches nothing of it.
OneTest == Smoke!Start \/ Smoke!Goes

LEMMA OrphansApart ==
  Smoke!Orphans => UNCHANGED <<test, nap, Smoke!processes, Smoke!history>>
BY DEF Smoke!Orphans, Smoke!OrphanBegins, Smoke!OrphanEnds

LEMMA SmokeTypeStep ==
  ASSUME SmokeType, [OneTest]_smokes PROVE SmokeType'
<1> USE DEF SmokeType
<1>0. Timeout \in Nat /\ Pause \in Nat
  BY PartsAssumption DEF Smoke!Assumptions
<1>1. CASE Smoke!Start \/ Smoke!Test
  BY <1>0, <1>1 DEF Smoke!Test, Smoke!Start, Smoke!StartSender, Smoke!CheckSender, Smoke!Collect,
     Smoke!Bail, Smoke!Fault, Smoke!processes, Smoke!history
<1>2. CASE Smoke!Receiver
  BY <1>2 DEF Smoke!Receiver, Smoke!TimeoutBegins, Smoke!ReceiverFails, Smoke!ReceiverBinds,
     Smoke!Reports, Smoke!Killed, Smoke!Fault, Smoke!history
<1>3. CASE Smoke!Sender
  <2>1. CASE Smoke!SenderSends
    <3>1. queue' \in Seq(Items)
      BY <2>1, BusKeepsItems DEF Smoke!SenderSends, Frames
    <3> QED
      BY <2>1, <3>1 DEF Smoke!SenderSends
  <2>2. CASE Smoke!SenderFails
    BY <2>2 DEF Smoke!SenderFails, Smoke!Fault
  <2> QED
    BY <1>3, <2>1, <2>2 DEF Smoke!Sender
<1>4. CASE Smoke!Tick
  BY <1>0, <1>4 DEF Smoke!Tick, Smoke!Older, Smoke!Counting, Smoke!history
<1>5. ASSUME NEW frame \in Foreign, Smoke!SomebodySends(frame) PROVE SmokeType'
  <2>1. queue' \in Seq(Items)
    BY <1>5, BusKeepsItems DEF Smoke!SomebodySends, Frames
  <2> QED
    BY <1>5, <2>1 DEF Smoke!SomebodySends
<1>6. CASE Smoke!Orphans
  BY <1>6, OrphansApart DEF Smoke!processes, Smoke!history
<1>7. CASE UNCHANGED smokes
  BY <1>7 DEF smokes
<1> QED
  BY <1>1, <1>2, <1>3, <1>4, <1>5, <1>6, <1>7 DEF OneTest, Smoke!Goes

LEMMA OrderStep ==
  ASSUME SmokeType, Order, Unbound, [OneTest]_smokes PROVE Order' /\ Unbound'
<1> USE DEF Order, Unbound
<1>1. CASE Smoke!Start \/ Smoke!Test
  <2>1. CASE Smoke!Start
    BY <2>1 DEF Smoke!Start, Smoke!Bail, Smoke!Fault, Smoke!history
  <2>2. CASE Smoke!StartSender
    BY <2>2 DEF Smoke!StartSender, Smoke!Bail, Smoke!Fault, Smoke!history
  <2>3. CASE Smoke!CheckSender
    BY <2>3 DEF Smoke!CheckSender, Smoke!processes, Smoke!history
  <2>4. CASE Smoke!Collect
    BY <2>4 DEF Smoke!Collect, Smoke!processes, Smoke!history
  <2> QED
    BY <1>1, <2>1, <2>2, <2>3, <2>4 DEF Smoke!Test
<1>2. CASE Smoke!Receiver
  BY <1>2 DEF Smoke!Receiver, Smoke!TimeoutBegins, Smoke!ReceiverFails, Smoke!ReceiverBinds,
     Smoke!Reports, Smoke!Killed, Smoke!Fault, Smoke!history
<1>3. CASE Smoke!Sender
  BY <1>3 DEF Smoke!Sender, Smoke!SenderSends, Smoke!SenderFails, Smoke!OnBus, Smoke!Fault
<1>4. CASE Smoke!Tick
  BY <1>4 DEF Smoke!Tick, Smoke!history
<1>5. ASSUME NEW frame \in Foreign, Smoke!SomebodySends(frame) PROVE Order' /\ Unbound'
  BY <1>5 DEF Smoke!SomebodySends, Smoke!OnBus
<1>6. CASE Smoke!Orphans
  BY <1>6, OrphansApart DEF Smoke!processes, Smoke!history
<1>7. CASE UNCHANGED smokes
  BY <1>7 DEF smokes
<1> QED
  BY <1>1, <1>2, <1>3, <1>4, <1>5, <1>6, <1>7 DEF OneTest, Smoke!Goes

LEMMA PassingStep ==
  ASSUME SmokeType, Passing, [OneTest]_smokes PROVE Passing'
<1> USE DEF Passing, Smoke!PrintsInjected
<1>1. CASE Smoke!Start \/ Smoke!Test
  BY <1>1 DEF Smoke!Test, Smoke!Start, Smoke!StartSender, Smoke!CheckSender, Smoke!Collect,
     Smoke!Bail, Smoke!Fault, Smoke!processes, Smoke!history
<1>2. CASE Smoke!Receiver
  BY <1>2 DEF Smoke!Receiver, Smoke!TimeoutBegins, Smoke!ReceiverFails, Smoke!ReceiverBinds,
     Smoke!Reports, Smoke!Killed, Smoke!Fault, Smoke!history
<1>3. CASE Smoke!Sender
  BY <1>3 DEF Smoke!Sender, Smoke!SenderSends, Smoke!SenderFails, Smoke!Fault
<1>4. CASE Smoke!Tick
  BY <1>4 DEF Smoke!Tick, Smoke!history
<1>5. ASSUME NEW frame \in Foreign, Smoke!SomebodySends(frame) PROVE Passing'
  BY <1>5 DEF Smoke!SomebodySends
<1>6. CASE Smoke!Orphans
  BY <1>6, OrphansApart DEF Smoke!processes, Smoke!history
<1>7. CASE UNCHANGED smokes
  BY <1>7 DEF smokes
<1> QED
  BY <1>1, <1>2, <1>3, <1>4, <1>5, <1>6, <1>7 DEF OneTest, Smoke!Goes

LEMMA EvidenceStep ==
  ASSUME SmokeType, Evidence, [OneTest]_smokes PROVE Evidence'
<1> USE DEF Evidence, Told, Smoke!PrintsInjected
<1>1. CASE Smoke!Start \/ Smoke!Test
  BY <1>1 DEF Smoke!Test, Smoke!Start, Smoke!StartSender, Smoke!CheckSender, Smoke!Collect,
     Smoke!Bail, Smoke!Fault, Smoke!processes, Smoke!history
<1>2. CASE Smoke!Receiver
  BY <1>2 DEF Smoke!Receiver, Smoke!TimeoutBegins, Smoke!ReceiverFails, Smoke!ReceiverBinds,
     Smoke!Reports, Smoke!Killed, Smoke!Fault, Smoke!history, SmokeType
<1>3. CASE Smoke!Sender
  <2>1. alike' = alike /\ printed' = printed /\ receiver' = receiver
    BY <1>3 DEF Smoke!Sender, Smoke!SenderSends, Smoke!SenderFails, Smoke!Fault
  <2>2. queue \in Seq(Items) /\ queue' \in {queue, Append(queue, OwnFrame)}
    BY <1>3 DEF Smoke!Sender, Smoke!SenderSends, Smoke!SenderFails, Smoke!OnBus, OwnFrame, SmokeType
  <2>3. OwnFrame.injected
    BY DEF OwnFrame
  <2>4. \A i \in 1 .. Len(queue') :
          queue'[i] = OwnFrame \/ (i \in 1 .. Len(queue) /\ queue'[i] = queue[i])
    BY <2>2
  <2> QED
    BY <2>1, <2>3, <2>4
<1>4. CASE Smoke!Tick
  BY <1>4 DEF Smoke!Tick, Smoke!history
<1>5. ASSUME NEW frame \in Foreign, Smoke!SomebodySends(frame) PROVE Evidence'
  <2> DEFINE item == [frame |-> frame, injected |-> FALSE]
  <2>1. queue \in Seq(Items) /\ queue' \in {queue, Append(queue, item)}
    BY <1>5 DEF Smoke!SomebodySends, Smoke!OnBus, SmokeType
  <2>2. alike' = (alike \/ Smoke!PrintsInjected(frame)) /\ printed' = printed /\ receiver' = receiver
    BY <1>5 DEF Smoke!SomebodySends
  <2>3. Smoke!PrintsInjected(item.frame) => alike'
    BY <2>2
  <2> HIDE DEF item
  <2>4. \A i \in 1 .. Len(queue') : queue'[i] = item \/ (i \in 1 .. Len(queue) /\ queue'[i] = queue[i])
    BY <2>1
  <2> QED
    BY <2>2, <2>3, <2>4
<1>6. CASE Smoke!Orphans
  BY <1>6, OrphansApart DEF Smoke!processes, Smoke!history
<1>7. CASE UNCHANGED smokes
  BY <1>7 DEF smokes
<1> QED
  BY <1>1, <1>2, <1>3, <1>4, <1>5, <1>6, <1>7 DEF OneTest, Smoke!Goes

LEMMA SmoothStep ==
  ASSUME SmokeType, Order, Unbound, Smooth, [OneTest]_smokes PROVE Smooth'
<1> USE DEF Smooth
<1>1. CASE Smoke!Start \/ Smoke!Test
  <2>1. CASE Smoke!Start
    BY <2>1 DEF Smoke!Start, Smoke!Bail, Smoke!Fault, Smoke!history, Troubled, Before, After, Order
  <2>2. CASE Smoke!StartSender
    BY <2>2 DEF Smoke!StartSender, Smoke!Bail, Smoke!Fault, Smoke!history, Troubled, Before, After, Order
  <2>3. CASE Smoke!CheckSender
    BY <2>3 DEF Smoke!CheckSender, Smoke!processes, Smoke!history, Troubled, Before, After, Order
  <2>4. CASE Smoke!Collect
    BY <2>4 DEF Smoke!Collect, Smoke!processes, Smoke!history, Troubled, Before, After, Order, Smoke!PrintsInjected, OwnFrame
  <2> QED
    BY <1>1, <2>1, <2>2, <2>3, <2>4 DEF Smoke!Test
<1>2. CASE Smoke!Receiver
  <2>1. CASE Smoke!TimeoutBegins
    BY <2>1 DEF Smoke!TimeoutBegins, Smoke!history, Troubled, Before, After
  <2>2. CASE Smoke!ReceiverFails
    BY <2>2 DEF Smoke!ReceiverFails, Smoke!Fault, Troubled
  <2>3. CASE Smoke!ReceiverBinds
    BY <2>3 DEF Smoke!ReceiverBinds, Unbound, Order, Troubled, Before, After
  <2>4. CASE Smoke!Reports
    BY <2>4 DEF Smoke!Reports, Smoke!history, SmokeType, Troubled, Before, After
  <2>5. CASE Smoke!Killed
    BY <2>5 DEF Smoke!Killed, Smoke!history, SmokeType, Troubled, Before, After
  <2> QED
    BY <1>2, <2>1, <2>2, <2>3, <2>4, <2>5 DEF Smoke!Receiver
<1>3. CASE Smoke!Sender
  <2>1. CASE Smoke!SenderSends
    <3>1. CASE Before /\ age # Timeout
      <4>1. queue = << >> /\ receiver = "bound" /\ age < Timeout
        BY <3>1, PartsAssumption DEF Before, SmokeType, Smoke!Assumptions
      <4>2. queue' = <<OwnFrame>>
        BY <2>1, <4>1 DEF Smoke!SenderSends, Smoke!OnBus, OwnFrame
      <4>3. After'
        BY <2>1, <4>1, <4>2 DEF Smoke!SenderSends, After
      <4>4. CASE Troubled
        BY <2>1, <4>4 DEF Smoke!SenderSends, Troubled, Unbound
      <4> QED
        BY <2>1, <4>3, <4>4 DEF Smoke!SenderSends
    <3>2. CASE age = Timeout
      BY <2>1, <3>2 DEF Smoke!SenderSends, Troubled
    <3>3. CASE Troubled
      BY <2>1, <3>3 DEF Smoke!SenderSends, Troubled, Unbound
    <3> QED
      BY <2>1, <3>1, <3>2, <3>3 DEF Smoke!SenderSends, After
  <2>2. CASE Smoke!SenderFails
    BY <2>2 DEF Smoke!SenderFails, Smoke!Fault, Troubled
  <2> QED
    BY <1>3, <2>1, <2>2 DEF Smoke!Sender
<1>4. CASE Smoke!Tick
  <2>1. UNCHANGED <<test, receiver, queue, printed, sender, foreign, faulted, ready, late>>
    BY <1>4 DEF Smoke!Tick, Smoke!history
  <2>2. receiver = "bound" => queue = << >>
    BY <1>4 DEF Smoke!Tick
  <2>3. receiver = "killed" => age' = age
    BY <1>4 DEF Smoke!Tick
  <2>4. <<OwnFrame>> # << >>
    OBVIOUS
  <2> QED
    BY <2>1, <2>2, <2>3, <2>4 DEF Troubled, Before, After
<1>5. ASSUME NEW frame \in Foreign, Smoke!SomebodySends(frame) PROVE Smooth'
  BY <1>5 DEF Smoke!SomebodySends, SmokeType, Troubled
<1>6. CASE Smoke!Orphans
  BY <1>6, OrphansApart DEF Smoke!processes, Smoke!history, Troubled, Before, After
<1>7. CASE UNCHANGED smokes
  BY <1>7 DEF smokes, Troubled, Before, After
<1> QED
  BY <1>1, <1>2, <1>3, <1>4, <1>5, <1>6, <1>7 DEF OneTest, Smoke!Goes

LEMMA SmokeStep == ASSUME SmokeInv, [Smoke!Next]_smokes PROVE SmokeInv'
<1>1. CASE Smoke!Renew
  BY <1>1, RenewInv
<1>2. CASE [OneTest]_smokes
  BY <1>2, SmokeTypeStep, OrderStep, PassingStep, EvidenceStep, SmoothStep DEF SmokeInv
<1> QED
  BY <1>1, <1>2 DEF Smoke!Next, OneTest

LEMMA SmokeVerdict == SmokeInv => Verdict
BY DEF SmokeInv, Order, Passing, Evidence, Smooth, Troubled, Told, Verdict, Smoke!Verdict

-----------------------------------------------------------------------------
(* Codegen.                                                                 *)

Table2 == <<"obd", "j1939">>
Table3 == <<"j1939">>
Texts == Versions \cup {Unparsable, Incomplete, Gen!Torn}

GenType ==
  /\ data \in [Gen!Table -> Texts]
  /\ read \in [Gen!Table -> Texts]
  /\ generated \in [Gen!Table -> Texts]
  /\ run \in {"idle", "reading", "writing", "done", "failed", "crashed"}
  /\ todo \in {Gen!Tables, Table2, Table3, << >>}

Fitting == \A t \in Gen!Table : data[t] \in Gen!Contents(t) /\ read[t] \in Gen!Contents(t)

Reading ==
  run = "reading" =>
    /\ generated = before
    /\ todo # << >>
    /\ todo \in {Table2, Table3} => read["uds"] # Unparsable
    /\ todo = Table3 => read["obd"] # Unparsable

Writing ==
  run = "writing" =>
    /\ \A t \in Gen!Table : read[t] # Unparsable
    /\ todo = Gen!Tables => generated = before
    /\ todo # Gen!Tables => Gen!Formats("uds") /\ generated["uds"] = read["uds"]
    /\ todo \in {Table3, << >>} => generated["obd"] = read["obd"]
    /\ todo = << >> => generated["j1939"] = read["j1939"]

Done == run = "done" => generated = read
Rejected == Gen!Refused => generated = before

GenInv == GenType /\ Fitting /\ Reading /\ Writing /\ Done /\ Rejected


LEMMA GenInit == ASSUME Gen!Init PROVE GenInv
BY PartsAssumption DEF Gen!Assumptions, Gen!Init, Gen!Refused, Gen!Contents, Gen!Table,
   GenInv, GenType, Fitting, Reading, Writing, Done, Rejected, Texts

LEMMA TodoEnds ==
  /\ Head(Gen!Tables) = "uds" /\ Tail(Gen!Tables) = Table2 /\ Len(Gen!Tables) = 3
  /\ Head(Table2) = "obd" /\ Tail(Table2) = Table3 /\ Len(Table2) = 2
  /\ Head(Table3) = "j1939" /\ Tail(Table3) = << >> /\ Len(Table3) = 1
  /\ Gen!Tables \notin {Table2, Table3, << >>} /\ Table2 \notin {Table3, << >>} /\ Table3 # << >>
BY DEF Gen!Tables, Table2, Table3

LEMMA BeginStep == ASSUME GenInv, Gen!Begin PROVE GenInv'
BY TodoEnds DEF Gen!Begin, Gen!Refused, Gen!Contents, GenInv, GenType, Fitting, Reading, Writing, Done, Rejected

\* Only the services of UDS can lack a number.
LEMMA OthersFormat ==
  ASSUME Fitting, NEW t \in Gen!Table, t # "uds", read[t] # Unparsable
  PROVE  Gen!Formats(t)
BY PartsAssumption DEF Gen!Assumptions, Fitting, Gen!Formats, Gen!Contents

LEMMA ReadStep == ASSUME GenInv, Gen!Read PROVE GenInv'
<1> DEFINE t == Head(todo)
<1>0. /\ run = "reading" /\ generated = before
      /\ UNCHANGED <<data, generated, before>> /\ read' = [read EXCEPT ![t] = data[t]]
      /\ todo \in {Gen!Tables, Table2, Table3}
  BY DEF Gen!Read, GenInv, Reading, GenType
<1>1. t \in Gen!Table
  BY <1>0, TodoEnds DEF Gen!Table
<1>2. data \in [Gen!Table -> Texts] /\ read \in [Gen!Table -> Texts]
  BY DEF GenInv, GenType
<1>3. read'[t] = data[t] /\ \A u \in Gen!Table \ {t} : read'[u] = read[u]
  BY <1>0, <1>1, <1>2
<1>4. read' \in [Gen!Table -> Texts]
  BY <1>0, <1>1, <1>2
<1>5. /\ run' \in {"failed", "reading", "writing"}
      /\ run' # "failed" => read'[t] # Unparsable
      /\ run' = "reading" => todo' = Tail(todo) /\ todo # Table3
      /\ run' = "writing" => todo' = Gen!Tables /\ todo = Table3
      /\ run' = "failed" => todo' = todo
  BY <1>0, <1>3, TodoEnds, SMTT(30) DEF Gen!Read
<1>6. GenType'
  BY <1>0, <1>4, <1>5, TodoEnds DEF GenInv, GenType
<1>7. Fitting'
  BY <1>0, <1>1, <1>3 DEF GenInv, Fitting, Gen!Contents
<1>8. Reading'
  BY <1>0, <1>1, <1>3, <1>5, TodoEnds DEF GenInv, Reading, Gen!Table
<1>9. Writing'
  BY <1>0, <1>1, <1>3, <1>5, TodoEnds DEF GenInv, Reading, Writing, Gen!Table
<1>10. Done' /\ Rejected'
  BY <1>0, <1>5 DEF Done, Rejected
<1> QED
  BY <1>6, <1>7, <1>8, <1>9, <1>10 DEF GenInv

LEMMA WriteStep == ASSUME GenInv, Gen!Write PROVE GenInv'
<1> DEFINE t == Head(todo)
<1>0. /\ run = "writing" /\ todo # << >> /\ todo' = Tail(todo)
      /\ UNCHANGED <<data, read, before>>
  BY DEF Gen!Write
<1>1. t \in Gen!Table /\ todo \in {Gen!Tables, Table2, Table3}
  BY <1>0, TodoEnds DEF Gen!Table, GenInv, GenType
<1>2. GenType /\ Fitting /\ Writing
  BY DEF GenInv
<1>3. todo' \in {Gen!Tables, Table2, Table3, << >>}
  BY <1>0, <1>1, TodoEnds
<1>4. Fitting' /\ Reading'
  BY <1>0, <1>2 DEF Fitting, Reading, Gen!Contents, Gen!Write, Gen!WriteIfChanged
<1>5. CASE ~Gen!Formats(t)
  <2>1. t = "uds"
    BY <1>0, <1>1, <1>2, <1>5, OthersFormat DEF Writing
  <2>2. todo = Gen!Tables
    BY <1>1, <2>1, TodoEnds
  <2>3. run' = "crashed" /\ generated' = generated
    BY <1>5 DEF Gen!Write
  <2>4. generated = before
    BY <1>0, <1>2, <2>2 DEF Writing
  <2> QED
    BY <1>0, <1>2, <1>3, <1>4, <2>3, <2>4 DEF GenInv, GenType, Writing, Done, Rejected
<1>6. CASE Gen!Formats(t) /\ run' = "writing"
  <2>1. generated'[t] = read[t] /\ (\A u \in Gen!Table \ {t} : generated'[u] = generated[u])
        /\ generated' \in [Gen!Table -> Texts]
    BY <1>0, <1>1, <1>2, <1>6 DEF Gen!Write, Gen!WriteIfChanged, GenType
  <2>2. GenType'
    BY <1>0, <1>2, <1>3, <1>6, <2>1 DEF GenType
  <2>3. Writing'
    BY <1>0, <1>1, <1>2, <1>6, <2>1, TodoEnds DEF Writing, Gen!Table, Gen!Formats
  <2> QED
    BY <1>4, <1>6, <2>2, <2>3 DEF GenInv, Done, Rejected, Gen!Refused
<1>7. CASE Gen!Formats(t) /\ run' # "writing"
  <2>1. run' \in {"failed", "crashed"} /\ generated' \in {generated, [generated EXCEPT ![t] = Gen!Torn]}
    BY <1>0, <1>7 DEF Gen!Write, Gen!WriteIfChanged
  <2>2. generated' \in [Gen!Table -> Texts]
    BY <1>1, <1>2, <2>1 DEF GenType, Texts
  <2>3. ~Gen!Refused'
    <3>1. \A u \in Gen!Table : read[u] # Unparsable
      BY <1>0, <1>2 DEF Writing
    <3>2. Gen!Formats("uds")
      BY <1>0, <1>1, <1>2, <1>7, TodoEnds DEF Writing
    <3>3. \A u \in Gen!Table : Gen!Formats(u)
      BY <1>2, <3>1, <3>2, OthersFormat
    <3> QED
      BY <1>0, <3>1, <3>3 DEF Gen!Refused, Gen!Formats
  <2> QED
    BY <1>0, <1>2, <1>3, <1>4, <2>1, <2>2, <2>3 DEF GenInv, GenType, Writing, Done, Rejected
<1> QED
  BY <1>5, <1>6, <1>7

LEMMA EndStep == ASSUME GenInv, Gen!End PROVE GenInv'
<1>1. generated = read
  <2>1. todo = << >> /\ run = "writing" /\ generated \in [Gen!Table -> Texts] /\ read \in [Gen!Table -> Texts]
    BY DEF Gen!End, GenInv, GenType
  <2>2. \A t \in Gen!Table : generated[t] = read[t]
    BY <2>1, TodoEnds DEF GenInv, Writing, Gen!Table
  <2> QED
    BY <2>1, <2>2
<1> QED
  BY <1>1 DEF Gen!End, Gen!Refused, Gen!Contents, GenInv, GenType, Fitting, Reading, Writing, Done, Rejected

LEMMA EditStep == ASSUME GenInv, Gen!Edit PROVE GenInv'
<1>1. UNCHANGED <<generated, run, todo, read, before>>
  BY DEF Gen!Edit
<1>2. PICK t \in Gen!Table : \E v \in Gen!Contents(t) : data' = [data EXCEPT ![t] = v]
  BY DEF Gen!Edit
<1>3. PICK v \in Gen!Contents(t) : data' = [data EXCEPT ![t] = v]
  BY <1>2
<1>4. v \in Texts
  BY <1>3 DEF Gen!Contents, Texts
<1>5. GenType'
  BY <1>1, <1>3, <1>4 DEF GenInv, GenType
<1>6. Fitting'
  BY <1>1, <1>3 DEF GenInv, GenType, Fitting, Gen!Contents
<1> QED
  BY <1>1, <1>5, <1>6 DEF GenInv, Reading, Writing, Done, Rejected, Gen!Refused, Gen!Formats

LEMMA GenStep ==
  ASSUME GenInv, [Gen!Next]_gens PROVE GenInv'
<1>1. CASE UNCHANGED gens
  BY <1>1 DEF gens, GenInv, GenType, Fitting, Reading, Writing, Done, Rejected, Gen!Refused,
     Gen!Formats, Gen!Contents
<1> QED
  BY <1>1, BeginStep, ReadStep, WriteStep, EndStep, EditStep DEF Gen!Next, Gen!Command

-----------------------------------------------------------------------------
(* The search for placeholders.                                             *)

MarkersType ==
  /\ present \subseteq Markers!Entries
  /\ stage \in {"idle", "walk", "read", "passed", "markers", "error"}
  /\ stack \in Seq(Markers!Directories)
  /\ files \subseteq Markers!Entries \ Markers!Directories

\* Nothing is there below a directory that is not.
Rooted ==
  \A d \in (Markers!Entries \cap Markers!Directories) \ present : Inside[d] \cap present = {}

Elements(s) == {s[i] : i \in 1 .. Len(s)}
Waiting == Elements(stack)

\* The directories in V have been read, and what they held is known.
Walked(V) ==
  /\ Root \in V \cup Waiting
  /\ \A d \in V : \A e \in Inside[d] \cap present :
       IF e \in Markers!Directories THEN e \in V \cup Waiting ELSE e \in files

Walking == stage = "walk" => \E V \in SUBSET Markers!Directories : Walked(V)

Sought == Markers!ToBeSearched \cap Marked

Searching ==
  /\ stage \in {"read", "passed", "markers"} => present \cap Sought \subseteq files \cup failures
  /\ stage \in {"passed", "markers"} => files = {}
  /\ stage = "passed" => failures = {}
  /\ stage = "markers" => failures # {}
  /\ failures \subseteq Sought

MarkersInv == MarkersType /\ Rooted /\ Walking /\ Searching


LEMMA MarkersInit == ASSUME Markers!Init PROVE MarkersInv
BY DEF Markers!Init, MarkersInv, MarkersType, Rooted, Walking, Searching

\* What lies below a directory lies in the tree, and is closed.
LEMMA BelowCloses ==
  ASSUME NEW d \in Markers!Directories
  PROVE  /\ Inside[d] \subseteq Markers!Below(d)
         /\ Markers!HoldsEntries(Markers!Below(d))
<1>1. \A e \in Markers!Directories : Inside[e] \subseteq Markers!Entries
  BY DEF Markers!Entries
<1>2. Inside[d] \subseteq Markers!Below(d)
  BY <1>1 DEF Markers!Below
<1>3. ASSUME NEW e \in Markers!Below(d) \cap Markers!Directories, NEW f \in Inside[e]
      PROVE  f \in Markers!Below(d)
  <2>1. f \in Markers!Entries
    BY <1>1, <1>3
  <2>2. ASSUME NEW S \in SUBSET Markers!Entries, Inside[d] \subseteq S, Markers!HoldsEntries(S)
        PROVE  f \in S
    BY <1>3, <2>2 DEF Markers!Below, Markers!HoldsEntries
  <2> QED
    BY <2>1, <2>2 DEF Markers!Below
<1> QED
  BY <1>2, <1>3 DEF Markers!HoldsEntries

LEMMA RootHoldsAll ==
  ASSUME NEW S \in SUBSET Markers!Entries,
         Inside[Root] \subseteq S, Markers!HoldsEntries(S)
  PROVE  S = Markers!Entries
BY PartsAssumption DEF Markers!Assumptions, Markers!Below

LEMMA DeleteStep == ASSUME MarkersInv, Markers!Delete PROVE MarkersInv'
<1>1. UNCHANGED <<stage, stack, files, failures>>
  BY DEF Markers!Delete
<1>2. PICK e \in present :
        present' = present \ ({e} \cup IF e \in Markers!Directories THEN Markers!Below(e) ELSE {})
  BY DEF Markers!Delete
<1>3. present' \subseteq present
  BY <1>2
<1>4. MarkersType'
  BY <1>1, <1>3 DEF MarkersInv, MarkersType
<1>5. Rooted'
  <2> SUFFICES ASSUME NEW d \in (Markers!Entries \cap Markers!Directories) \ present'
               PROVE  Inside[d] \cap present' = {}
    BY DEF Rooted
  <2>1. CASE d \notin present
    BY <1>3, <2>1 DEF MarkersInv, Rooted
  <2>2. CASE d = e
    BY <1>2, <2>2, BelowCloses
  <2>3. CASE e \in Markers!Directories /\ d \in Markers!Below(e)
    BY <1>2, <2>3, BelowCloses DEF Markers!HoldsEntries
  <2> QED
    BY <1>2, <2>1, <2>2, <2>3
<1>6. Walking'
  <2>1. ASSUME NEW V \in SUBSET Markers!Directories, Walked(V) PROVE Walked(V)'
    BY <1>1, <1>3, <2>1 DEF Walked, Waiting
  <2> QED
    BY <1>1, <2>1 DEF MarkersInv, Walking
<1>7. Searching'
  BY <1>1, <1>3 DEF MarkersInv, Searching
<1> QED
  BY <1>4, <1>5, <1>6, <1>7 DEF MarkersInv

\* Placeholders has the operators of FiniteSets under names of its own.
LEMMA SameCardinality ==
  ASSUME NEW S
  PROVE  (Markers!IsFiniteSet(S) <=> IsFiniteSet(S)) /\ Markers!Cardinality(S) = Cardinality(S)
BY DEF Markers!IsFiniteSet, IsFiniteSet, Markers!Cardinality, Cardinality

LEMMA LastAndFront ==
  ASSUME NEW D, NEW s \in Seq(D), s # << >>
  PROVE  /\ Markers!Last(s) \in D /\ Markers!Last(s) = s[Len(s)] /\ Len(s) \in Nat \ {0}
         /\ Markers!Front(s) \in Seq(D)
         /\ Len(Markers!Front(s)) = Len(s) - 1
         /\ \A i \in 1 .. Len(s) - 1 : Markers!Front(s)[i] = s[i]
<1>1. Len(s) \in Nat /\ Len(s) >= 1 /\ \A i \in 1 .. Len(s) : s[i] \in D
  BY EmptySeq
<1>2. Markers!Last(s) = s[Len(s)] /\ Markers!Front(s) = [i \in 1 .. Len(s) - 1 |-> s[i]]
  BY DEF Markers!Last, Markers!Front
<1> QED
  BY <1>1, <1>2

LEMMA ElementsOfConcat ==
  ASSUME NEW D, NEW s \in Seq(D), NEW t \in Seq(D)
  PROVE  Elements(s \o t) = Elements(s) \cup Elements(t)
<1> DEFINE st == s \o t
<1>1. /\ Len(st) = Len(s) + Len(t) /\ Len(s) \in Nat /\ Len(t) \in Nat
      /\ \A i \in 1 .. Len(s) : st[i] = s[i]
      /\ \A i \in 1 .. Len(t) : st[Len(s) + i] = t[i]
      /\ \A i \in Len(s) + 1 .. Len(s) + Len(t) : st[i] = t[i - Len(s)]
  OBVIOUS
<1> HIDE DEF st
<1>2. ASSUME NEW i \in 1 .. Len(st) PROVE st[i] \in Elements(s) \cup Elements(t)
  <2>1. CASE i <= Len(s)
    BY <1>1, <2>1 DEF Elements
  <2>2. CASE i > Len(s)
    <3>1. i - Len(s) \in 1 .. Len(t) /\ st[i] = t[i - Len(s)]
      BY <1>1, <2>2
    <3> QED
      BY <3>1 DEF Elements
  <2> QED
    BY <1>1, <2>1, <2>2
<1>3. ASSUME NEW i \in 1 .. Len(s) PROVE s[i] \in Elements(st)
  <2>1. i \in 1 .. Len(st) /\ st[i] = s[i]
    BY <1>1
  <2> QED
    BY <2>1 DEF Elements
<1>4. ASSUME NEW i \in 1 .. Len(t) PROVE t[i] \in Elements(st)
  <2>1. Len(s) + i \in 1 .. Len(st) /\ st[Len(s) + i] = t[i]
    BY <1>1
  <2> QED
    BY <2>1 DEF Elements
<1> QED
  BY <1>2, <1>3, <1>4 DEF Elements, st

LEMMA ReadDirStep == ASSUME MarkersInv, Markers!ReadDir PROVE MarkersInv'
<1> DEFINE d == Markers!Last(stack)
           found == Inside[d] \cap present
           inner == found \cap Markers!Directories
<1>1. stage = "walk" /\ stack # << >> /\ UNCHANGED <<present, failures>>
  BY DEF Markers!ReadDir
<1>2. stack \in Seq(Markers!Directories) /\ stack # << >>
  BY <1>1 DEF MarkersInv, MarkersType
<1>3. /\ d \in Markers!Directories
      /\ Markers!Front(stack) \in Seq(Markers!Directories)
      /\ Len(Markers!Front(stack)) = Len(stack) - 1
      /\ \A i \in 1 .. Len(stack) - 1 : Markers!Front(stack)[i] = stack[i]
      /\ d = stack[Len(stack)] /\ Len(stack) \in Nat \ {0}
  BY <1>2, LastAndFront
<1>4. Inside[d] \subseteq Markers!Entries
  BY <1>3 DEF Markers!Entries
<1>5. Rooted'
  BY <1>1 DEF MarkersInv, Rooted
<1>6. CASE d # Root /\ d \notin present
  BY <1>1, <1>5, <1>6 DEF Markers!ReadDir, MarkersInv, MarkersType, Walking, Searching
<1>7. CASE ~(d # Root /\ d \notin present)
  <2> DEFINE front == Markers!Front(stack)
  <2>1. PICK order \in [1 .. Markers!Cardinality(inner) -> inner] :
          Markers!Range(order) = inner /\ stack' = front \o order
    BY <1>1, <1>7 DEF Markers!ReadDir
  <2>2. files' = files \cup (found \ Markers!Directories) /\ stage' = "walk"
    BY <1>1, <1>7 DEF Markers!ReadDir
  <2>3. order \in Seq(inner) /\ Markers!Range(order) = {order[i] : i \in 1 .. Len(order)}
    <3>1. Markers!IsFiniteSet(Inside[d])
      BY <1>3, PartsAssumption DEF Markers!Assumptions
    <3>2. IsFiniteSet(inner)
      BY <3>1, SameCardinality, FS_Subset
    <3>3. Markers!Cardinality(inner) \in Nat
      BY <3>2, SameCardinality, FS_CardinalityType
    <3> HIDE DEF inner
    <3>4. order \in Seq(inner) /\ DOMAIN order = 1 .. Len(order)
      BY <3>3, <2>1
    <3> QED
      BY <3>4 DEF Markers!Range
  <2>4. Waiting' = {front[i] : i \in 1 .. Len(front)} \cup inner
    <3> HIDE DEF front, inner
    <3>1. front \in Seq(Markers!Directories) /\ order \in Seq(inner)
      BY <1>3, <2>3 DEF front
    <3>2. inner \subseteq Markers!Directories
      BY DEF inner
    <3>3. order \in Seq(Markers!Directories)
      BY <3>1, <3>2
    <3>4. Waiting' = Elements(front \o order)
      BY <2>1 DEF Waiting, Elements
    <3>5. Elements(front \o order) = Elements(front) \cup Elements(order)
      BY <3>1, <3>3, ElementsOfConcat
    <3> QED
      BY <2>1, <2>3, <3>4, <3>5 DEF Elements
  <2>5. Waiting = {front[i] : i \in 1 .. Len(front)} \cup {d}
    <3> HIDE DEF front, d
    <3>1. /\ \A i \in 1 .. Len(stack) - 1 : front[i] = stack[i]
          /\ Len(front) = Len(stack) - 1 /\ d = stack[Len(stack)] /\ Len(stack) \in Nat \ {0}
      BY <1>3 DEF front, d
    <3> QED
      BY <3>1 DEF Waiting, Elements
  <2>6. inner \subseteq Markers!Directories
    OBVIOUS
  <2>7. stack' \in Seq(Markers!Directories)
    <3> HIDE DEF front, inner
    <3>1. front \in Seq(Markers!Directories) /\ order \in Seq(Markers!Directories)
      BY <1>3, <2>3, <2>6 DEF front
    <3> QED
      BY <2>1, <3>1
  <2>8. MarkersType'
    BY <1>1, <1>4, <2>2, <2>7 DEF MarkersInv, MarkersType
  <2>9. PICK V \in SUBSET Markers!Directories : Walked(V)
    BY <1>1 DEF MarkersInv, Walking
  <2>10. PICK W \in SUBSET Markers!Directories : W = V \cup {d}
    BY <1>3, <2>9
  <2>11. Walked(W)'
    <3> HIDE DEF front
    <3>1. \A v \in V : \A e \in Inside[v] \cap present :
            IF e \in Markers!Directories THEN e \in W \cup Waiting' ELSE e \in files'
      BY <2>2, <2>4, <2>5, <2>9, <2>10 DEF Walked
    <3>2. \A e \in Inside[d] \cap present :
            IF e \in Markers!Directories THEN e \in Waiting' ELSE e \in files'
      BY <2>2, <2>4
    <3>3. Root \in W \cup Waiting'
      BY <2>4, <2>5, <2>9, <2>10 DEF Walked
    <3> HIDE DEF d
    <3>4. present' = present
      BY <1>1
    <3> QED
      BY <2>10, <3>1, <3>2, <3>3, <3>4 DEF Walked
  <2>12. Walking'
    BY <2>11 DEF Walking
  <2>13. Searching'
    BY <1>1, <2>2 DEF MarkersInv, Searching
  <2> QED
    BY <1>5, <2>8, <2>12, <2>13 DEF MarkersInv
<1> QED
  BY <1>6, <1>7

LEMMA EndWalkStep == ASSUME MarkersInv, Markers!EndWalk PROVE MarkersInv'
<1>1. stage = "walk" /\ stack = << >> /\ stage' = "read" /\ UNCHANGED <<present, stack, files, failures>>
  BY DEF Markers!EndWalk
<1>2. PICK V \in SUBSET Markers!Directories : Walked(V)
  BY <1>1 DEF MarkersInv, Walking
<1> DEFINE S == {e \in Markers!Entries :
                   \/ e \notin present
                   \/ IF e \in Markers!Directories THEN e \in V ELSE e \in files}
<1>3. Waiting = {}
  BY <1>1 DEF Waiting, Elements
<1>4. ASSUME NEW d \in V PROVE Inside[d] \subseteq S
  BY <1>2, <1>3, <1>4 DEF Walked, Markers!Entries
<1>5. Inside[Root] \subseteq S
  BY <1>2, <1>3, <1>4 DEF Walked
<1>6. ASSUME NEW d \in S \cap Markers!Directories PROVE Inside[d] \subseteq S
  <2>1. CASE d \in V
    BY <1>4, <2>1
  <2>2. CASE d \notin present
    <3>1. Inside[d] \cap present = {}
      BY <1>6, <2>2 DEF MarkersInv, Rooted
    <3> QED
      BY <3>1, <1>6 DEF Markers!Entries
  <2> QED
    BY <1>6, <2>1, <2>2
<1>7. Markers!HoldsEntries(S)
  BY <1>6 DEF Markers!HoldsEntries
<1>8. S = Markers!Entries
  BY <1>5, <1>7, RootHoldsAll
<1>9. present \cap Sought \subseteq files
  BY <1>8 DEF Sought, Markers!ToBeSearched
<1> QED
  BY <1>1, <1>9 DEF MarkersInv, MarkersType, Rooted, Walking, Searching

LEMMA ReadFileStep == ASSUME MarkersInv, Markers!ReadFile PROVE MarkersInv'
<1>1. stage = "read" /\ UNCHANGED <<present, stage, stack>>
  BY DEF Markers!ReadFile
<1>2. PICK f \in files :
        /\ files' = files \ {f}
        /\ failures' = IF ~Markers!Filtered(f) /\ f \in (present \ Unreadable) \cap Marked
                       THEN failures \cup {f} ELSE failures
  BY DEF Markers!ReadFile
<1>3. f \in Markers!Entries \ Markers!Directories
  BY DEF MarkersInv, MarkersType
<1>4. f \in present \cap Sought => f \in failures'
  BY <1>2 DEF Sought, Markers!ToBeSearched
<1>5. failures' \subseteq Sought
  BY <1>2, <1>3 DEF MarkersInv, Searching, Sought, Markers!ToBeSearched
<1>6. failures \subseteq failures'
  BY <1>2
<1>7. Searching'
  BY <1>1, <1>2, <1>4, <1>5, <1>6 DEF MarkersInv, Searching, Sought
<1> QED
  BY <1>1, <1>2, <1>7 DEF MarkersInv, MarkersType, Rooted, Walking

LEMMA MarkersStep == ASSUME MarkersInv, [Markers!Next]_marks PROVE MarkersInv'
<1>1. CASE Markers!Begin
  <2>1. stack' = <<Root>> /\ Root \in Markers!Directories
    BY <1>1, PartsAssumption DEF Markers!Begin, Markers!Assumptions
  <2>2. Waiting' = {Root}
    BY <2>1 DEF Waiting, Elements
  <2>3. Walked({})'
    BY <2>2 DEF Walked
  <2> QED
    BY <1>1, <2>1, <2>3 DEF Markers!Begin, MarkersInv, MarkersType, Rooted, Walking, Searching
<1>2. CASE Markers!Report
  BY <1>2 DEF Markers!Report, MarkersInv, MarkersType, Rooted, Walking, Searching
<1>3. CASE UNCHANGED marks
  <2>1. UNCHANGED <<present, stage, stack, files, failures>>
    BY <1>3 DEF marks
  <2>2. ASSUME NEW V \in SUBSET Markers!Directories, Walked(V) PROVE Walked(V)'
    BY <2>1, <2>2 DEF Walked, Waiting
  <2>3. Walking'
    BY <2>1, <2>2 DEF MarkersInv, Walking
  <2> QED
    BY <2>1, <2>3 DEF MarkersInv, MarkersType, Rooted, Searching
<1> QED
  BY <1>1, <1>2, <1>3, ReadDirStep, EndWalkStep, ReadFileStep, DeleteStep DEF Markers!Next, Markers!Check

LEMMA MarkersVerdict == MarkersInv => VerdictHolds
BY DEF MarkersInv, Searching, Sought, VerdictHolds, Markers!VerdictHolds

-----------------------------------------------------------------------------
(* The gate.                                                                *)

Stage == {"fmt", "clippy", "test", "orb", "machine", "deny-there", "vcan0", "build", "deny",
          "smoke-test", "chmod", "set-hooksPath", "get-hooksPath", "codegen", "check-placeholders"}

GateType ==
  /\ command \in Commands \cup {"none"}
  /\ exit \in {"none", "ok", "error"}
  /\ rest \in Seq(Stage) /\ passed \in Seq(Stage)

\* The stages of a command that has not failed: those passed, then the rest.
InTurn ==
  /\ Running => passed \o rest = Stages(command)
  /\ exit = "ok" => passed = Stages(command) /\ command # "none"
  /\ Running => rest # << >>

HasPassed(s) == \E i \in 1 .. Len(passed) : passed[i] = s

Effects ==
  /\ HasPassed("smoke-test") => tested /\ test = "passed"
  /\ HasPassed("chmod") => executable
  /\ HasPassed("set-hooksPath") => hooks_path

\* A test that is under way or over belongs to this command.
Own == test # "idle" => tested

Guarded ==
  /\ pushing => command = "ci-all-local"
  /\ installed => executable /\ hooks_path

GateInv == GateType /\ InTurn /\ Effects /\ Own /\ Guarded

LEMMA StagesAre ==
  /\ Stages("ci-hosted") = Hosted
  /\ Stages("ci-linux-local") = LinuxLocal
  /\ Stages("ci-all-local") = Hosted \o LinuxLocal
  /\ Stages("install-hooks") = <<"chmod", "set-hooksPath", "get-hooksPath">>
  /\ Stages("codegen") = <<"codegen">>
  /\ Stages("check-placeholders") = <<"check-placeholders">>
BY DEF Stages

LEMMA AllLocal ==
  /\ Hosted \in Seq(Stage) /\ LinuxLocal \in Seq(Stage)
  /\ Hosted \o LinuxLocal \in Seq(Stage) /\ Len(Hosted \o LinuxLocal) = 11
  /\ (Hosted \o LinuxLocal)[11] = "smoke-test"
<1>1. Hosted \in Seq(Stage) /\ Len(Hosted) = 3
  BY DEF Hosted, Stage
<1>2. LinuxLocal \in Seq(Stage) /\ Len(LinuxLocal) = 8 /\ LinuxLocal[8] = "smoke-test"
  BY DEF LinuxLocal, Stage
<1>3. Hosted \o LinuxLocal \in Seq(Stage) /\ Len(Hosted \o LinuxLocal) = Len(Hosted) + Len(LinuxLocal)
  BY <1>1, <1>2, ConcatProperties
<1>4. \A i \in 1 .. Len(Hosted) + Len(LinuxLocal) :
        (Hosted \o LinuxLocal)[i]
          = IF i <= Len(Hosted) THEN Hosted[i] ELSE LinuxLocal[i - Len(Hosted)]
  BY <1>1, <1>2, ConcatProperties
<1>5. 11 \in 1 .. Len(Hosted) + Len(LinuxLocal) /\ ~(11 <= Len(Hosted)) /\ 11 - Len(Hosted) = 8
  BY <1>1, <1>2
<1>6. (Hosted \o LinuxLocal)[11] = LinuxLocal[8]
  BY <1>4, <1>5, Zenon
<1> QED
  BY <1>1, <1>2, <1>3, <1>6

LEMMA StagesType ==
  ASSUME NEW c \in Commands PROVE Stages(c) \in Seq(Stage) /\ Stages(c) # << >>
<1>1. Len(Hosted) = 3 /\ Len(LinuxLocal) = 8 /\ Len(<< >>) = 0
  BY DEF Hosted, LinuxLocal
<1>2. /\ Hosted # << >> /\ LinuxLocal # << >> /\ Hosted \o LinuxLocal # << >>
      /\ <<"chmod", "set-hooksPath", "get-hooksPath">> # << >>
      /\ <<"codegen">> # << >> /\ <<"check-placeholders">> # << >>
  <2>1. Hosted # << >> /\ LinuxLocal # << >>
    BY <1>1
  <2>2. Hosted \o LinuxLocal # << >>
    BY <1>1, AllLocal
  <2> QED
    BY <2>1, <2>2
<1>3. /\ <<"chmod", "set-hooksPath", "get-hooksPath">> \in Seq(Stage)
      /\ <<"codegen">> \in Seq(Stage) /\ <<"check-placeholders">> \in Seq(Stage)
  BY DEF Stage
<1> QED
  BY <1>2, <1>3, AllLocal, StagesAre DEF Commands

LEMMA GateInit == Init => GateInv
BY DEF Init, Smoke!Init, GateInv, GateType, InTurn, HasPassed, Effects, Own, Guarded, Running

LEMMA TestStays == test = "passed" /\ (Smoke!Start \/ Smoke!Goes) => test' = "passed"
BY OrphansApart
   DEF Smoke!Start, Smoke!Goes, Smoke!Test, Smoke!StartSender, Smoke!CheckSender,
       Smoke!Collect, Smoke!Receiver, Smoke!TimeoutBegins, Smoke!ReceiverFails, Smoke!ReceiverBinds,
       Smoke!Reports, Smoke!Killed, Smoke!Sender, Smoke!SenderSends, Smoke!SenderFails,
       Smoke!SomebodySends, Smoke!Tick

\* Only as a stage of the command does a test start.
LEMMA IdleStays == test = "idle" /\ Smoke!Goes => test' = "idle"
BY OrphansApart
   DEF Smoke!Goes, Smoke!Test, Smoke!StartSender, Smoke!CheckSender,
       Smoke!Collect, Smoke!Receiver, Smoke!TimeoutBegins, Smoke!ReceiverFails, Smoke!ReceiverBinds,
       Smoke!Reports, Smoke!Killed, Smoke!Sender, Smoke!SenderSends, Smoke!SenderFails,
       Smoke!SomebodySends, Smoke!Tick

\* What the smoke test does in a step of a part.
LEMMA PartTests ==
  ASSUME RunPart
  PROVE  /\ test = "passed" => test' = "passed"
         /\ tested => tested'
         /\ Own => Own'
BY TestStays, IdleStays DEF RunPart, RunSmokeTest, smokes, Own

LEMMA BeginGate ==
  ASSUME GateInv, NEW c \in Commands, Begin(c), pushing' => c = "ci-all-local"
  PROVE  GateInv'
<1>1. Stages(c) \in Seq(Stage) /\ Stages(c) # << >>
  BY StagesType
<1>2. /\ command' = c /\ rest' = Stages(c) /\ exit' = "none" /\ passed' = << >>
      /\ UNCHANGED <<executable, hooks_path, installed>>
  BY DEF Begin, hooks
<1>3. passed' \o rest' = rest'
  BY <1>1, <1>2
<1>4. test' = "idle"
  BY DEF Begin, smokes, Smoke!Renew
<1> QED
  BY <1>1, <1>2, <1>3, <1>4 DEF GateInv, GateType, InTurn, HasPassed, Effects, Own, Guarded, Running

LEMMA AdvanceInTurn ==
  ASSUME GateType, InTurn, Running, rest # << >>, Advance, command' = command
  PROVE  /\ GateType' /\ InTurn'
         /\ \A i \in 1 .. Len(passed') :
              passed'[i] = Head(rest) \/ (i \in 1 .. Len(passed) /\ passed'[i] = passed[i])
<1>1. rest \in Seq(Stage) /\ passed \in Seq(Stage) /\ passed \o rest = Stages(command)
  BY DEF GateType, InTurn
<1>2. rest' = Tail(rest) /\ passed' = Append(passed, Head(rest))
  BY DEF Advance
<1>3. Head(rest) \in Stage /\ Tail(rest) \in Seq(Stage) /\ Len(Tail(rest)) = Len(rest) - 1
  BY <1>1
<1>4. passed' \in Seq(Stage) /\ rest' \in Seq(Stage)
  BY <1>1, <1>2, <1>3
<1>5. passed' \o rest' = Stages(command)
  <2>1. Append(passed, Head(rest)) \o Tail(rest) = passed \o rest
    BY <1>1
  <2> QED
    BY <1>1, <1>2, <2>1
<1>6. exit' = IF Len(rest) = 1 THEN "ok" ELSE "none"
  BY DEF Advance, Running
<1>7. GateType'
  BY <1>4, <1>6 DEF GateType
<1>8. CASE Len(rest) = 1
  <2>1. rest' = << >>
    BY <1>2, <1>3, <1>8, EmptySeq
  <2>2. passed' = Stages(command)
    BY <1>4, <1>5, <2>1
  <2> QED
    BY <1>1, <1>2, <1>6, <1>7, <1>8, <2>2 DEF InTurn, Running
<1>9. CASE Len(rest) # 1
  <2>1. rest' # << >>
    <3>1. Len(rest) # 0
      BY <1>1, EmptySeq
    <3>2. Len(rest') # 0
      BY <1>1, <1>2, <1>3, <1>9, <3>1
    <3> QED
      BY <3>2, EmptySeq
  <2> QED
    BY <1>1, <1>2, <1>5, <1>6, <1>7, <1>9, <2>1, SMTT(30) DEF InTurn, Running
<1> QED
  BY <1>8, <1>9

LEMMA GiveUpGate ==
  ASSUME GateInv, GiveUp, UNCHANGED <<command, executable, hooks_path, pushing, test, tested>>
  PROVE  GateInv'
BY DEF GateInv, GiveUp, GateType, InTurn, HasPassed, Effects, Own, Guarded, Running

LEMMA AdvanceGate ==
  ASSUME GateInv, Running, rest # << >>, Advance, UNCHANGED <<command, pushing, test, tested>>,
         executable => executable', hooks_path => hooks_path',
         Head(rest) = "smoke-test" => test = "passed",
         Head(rest) = "chmod" => executable',
         Head(rest) = "set-hooksPath" => hooks_path'
  PROVE  GateInv'
<1>1. /\ GateType' /\ InTurn'
      /\ \A i \in 1 .. Len(passed') :
           passed'[i] = Head(rest) \/ (i \in 1 .. Len(passed) /\ passed'[i] = passed[i])
  BY AdvanceInTurn DEF GateInv
<1>2. Effects' /\ Own'
  BY <1>1 DEF GateInv, Effects, Own, HasPassed
<1>3. ASSUME command = "install-hooks", Len(rest) = 1
      PROVE  HasPassed("chmod") /\ HasPassed("set-hooksPath")
  <2>1. passed \o rest = <<"chmod", "set-hooksPath", "get-hooksPath">>
    BY <1>3, StagesAre DEF GateInv, InTurn
  <2>2. passed \in Seq(Stage) /\ rest \in Seq(Stage)
    BY DEF GateInv, GateType
  <2>3. Len(passed) = 2
    <3>1. Len(passed \o rest) = Len(passed) + Len(rest)
      BY <2>2, ConcatProperties
    <3>2. Len(<<"chmod", "set-hooksPath", "get-hooksPath">>) = 3
      OBVIOUS
    <3>3. Len(passed) \in Nat
      BY <2>2
    <3>4. Len(passed) + Len(rest) = 3
      BY <2>1, <3>1, <3>2, Zenon
    <3> QED
      BY <1>3, <3>3, <3>4
  <2>4. passed[1] = (passed \o rest)[1] /\ passed[2] = (passed \o rest)[2]
    <3>1. \A i \in 1 .. Len(passed) + Len(rest) :
            (passed \o rest)[i] = IF i <= Len(passed) THEN passed[i] ELSE rest[i - Len(passed)]
      BY <2>2, ConcatProperties
    <3>2. 1 \in 1 .. Len(passed) + Len(rest) /\ 2 \in 1 .. Len(passed) + Len(rest)
      BY <1>3, <2>3
    <3>3. 1 <= Len(passed) /\ 2 <= Len(passed)
      BY <2>3
    <3> QED
      BY <3>1, <3>2, <3>3, Zenon
  <2> QED
    BY <2>1, <2>3, <2>4 DEF HasPassed
<1>4. Guarded'
  BY <1>3 DEF GateInv, Guarded, Effects, Advance
<1> QED
  BY <1>1, <1>2, <1>4 DEF GateInv

LEMMA GateStep == ASSUME GateInv, [Next]_vars PROVE GateInv'
<1>1. CASE RunStage
  <2>1. CASE /\ Advance
             /\ executable' = (executable \/ At("chmod"))
             /\ hooks_path' = (hooks_path \/ At("set-hooksPath"))
    <3>1. /\ Running /\ rest # << >> /\ Head(rest) # "smoke-test"
          /\ UNCHANGED <<command, pushing, test, tested>>
      BY <1>1 DEF RunStage, Parts, UnchangedParts, smokes
    <3>2. /\ executable \/ Head(rest) = "chmod" => executable'
          /\ hooks_path \/ Head(rest) = "set-hooksPath" => hooks_path'
      BY <2>1, <3>1 DEF At
    <3> QED
      BY <2>1, <3>1, <3>2, AdvanceGate
  <2>2. CASE GiveUp /\ UNCHANGED <<executable, hooks_path>>
    BY <1>1, <2>2, GiveUpGate DEF RunStage, UnchangedParts, smokes
  <2> QED
    BY <1>1, <2>1, <2>2 DEF RunStage
<1>2. CASE RunPart \/ UNCHANGED vars
  <2>1. UNCHANGED <<command, rest, exit, session, executable, hooks_path, installed, pushing, main, passed>>
    BY <1>2 DEF RunPart, own, hooks, vars
  <2>2. (test = "passed" => test' = "passed") /\ (tested => tested') /\ (Own => Own')
    BY <1>2, PartTests DEF vars, smokes, Own
  <2> QED
    BY <2>1, <2>2 DEF GateInv, GateType, InTurn, HasPassed, Effects, Guarded, Running
<1>3. CASE PartEnds
  <2>1. UNCHANGED <<command, executable, hooks_path, pushing, test, tested>>
    BY <1>3 DEF PartEnds, UnchangedParts, smokes
  <2>2. /\ Running /\ rest # << >> /\ Head(rest) \in Parts
        /\ \/ Advance /\ (Head(rest) = "smoke-test" => test = "passed")
           \/ GiveUp
    BY <1>3 DEF PartEnds, At, Parts
  <2>3. CASE Advance /\ (Head(rest) = "smoke-test" => test = "passed")
    BY <2>1, <2>2, <2>3, AdvanceGate DEF Parts
  <2> QED
    BY <2>1, <2>2, <2>3, GiveUpGate
<1>4. ASSUME NEW p \in DOMAIN Pushes, Push(p) PROVE GateInv'
  <2>1. CASE hooks_path /\ executable /\ GateMain(Pushes[p])
    BY <1>4, <2>1, BeginGate DEF Push, Commands
  <2>2. CASE ~(hooks_path /\ executable /\ GateMain(Pushes[p]))
    BY <1>4, <2>2 DEF Push, hooks, UnchangedParts, smokes, GateInv, GateType, InTurn, HasPassed,
                      Effects, Own, Guarded, Running
  <2> QED
    BY <2>1, <2>2
<1>5. CASE HookExits
  BY <1>5 DEF HookExits, hooks, UnchangedParts, smokes, GateInv, GateType, InTurn, HasPassed,
              Effects, Own, Guarded, Running
<1>6. ASSUME NEW c \in Commands, Invoke(c) PROVE GateInv'
  BY <1>6, BeginGate DEF Invoke, NextIs
<1> QED
  BY <1>1, <1>2, <1>3, <1>4, <1>5, <1>6 DEF Next

LEMMA GateHolds ==
  ASSUME GateInv, [Next]_vars, main' # main, installed
  PROVE  pushing /\ passed = Hosted \o LinuxLocal /\ tested /\ test = "passed"
<1>1. CASE RunStage \/ RunPart \/ PartEnds \/ UNCHANGED vars
  BY <1>1 DEF RunStage, RunPart, PartEnds, own, vars
<1>2. CASE \E c \in Commands : Invoke(c)
  BY <1>2 DEF Invoke, Begin
<1>3. CASE \E p \in DOMAIN Pushes : Push(p)
  BY <1>3 DEF Push, Begin, GateInv, Guarded
<1>4. CASE HookExits
  <2>1. pushing /\ exit = "ok"
    BY <1>4 DEF HookExits
  <2>2. passed = Hosted \o LinuxLocal
    BY <2>1, StagesAre DEF GateInv, InTurn, Guarded
  <2>3. Len(passed) = 11 /\ passed[11] = "smoke-test"
    BY <2>2, AllLocal
  <2> QED
    BY <2>1, <2>2, <2>3 DEF GateInv, Effects, HasPassed
<1> QED
  BY <1>1, <1>2, <1>3, <1>4 DEF Next

-----------------------------------------------------------------------------
(* The composition.                                                        *)

LEMMA PartsHold == Spec => [](SmokeInv /\ GenInv /\ MarkersInv)
<1>1. Init => SmokeInv /\ GenInv /\ MarkersInv
  BY SmokeInit, GenInit, MarkersInit DEF Init
<1>2. SmokeInv /\ GenInv /\ MarkersInv /\ [Next]_vars => (SmokeInv /\ GenInv /\ MarkersInv)'
  BY SmokeSteps, GenSteps, MarkersSteps, SmokeStep, GenStep, MarkersStep
<1> QED
  BY <1>1, <1>2, PTL DEF Spec

(***************************************************************************)
(* The verdict of the smoke test is right (xtask, main.rs 180-230): for    *)
(* every pause shorter than the timeout and whatever others send, a test   *)
(* that passes saw its own frame or one that prints alike, and one that    *)
(* fails had a cause.                                                      *)
(***************************************************************************)
THEOREM VerdictIsRight == Spec => []Verdict
BY PartsHold, SmokeVerdict, PTL

(***************************************************************************)
(* Codegen writes all or nothing (main.rs 60-66, 294-412): for all         *)
(* versions of the data, edited at any moment, success means that the      *)
(* three files are what was read, and data that is refused changes none.   *)
(***************************************************************************)
THEOREM CodegenAllOrNothing == Spec => []AllOrNothing
<1>1. GenInv => AllOrNothing
  BY DEF GenInv, Done, Rejected, AllOrNothing, Gen!AllOrNothing
<1> QED
  BY <1>1, PartsHold, PTL

(***************************************************************************)
(* The verdict on placeholders holds (main.rs 414-467) for every tree, and *)
(* whatever a build deletes meanwhile.                                     *)
(***************************************************************************)
THEOREM PlaceholderVerdictHolds == Spec => []VerdictHolds
BY PartsHold, MarkersVerdict, PTL

LEMMA GateKept == Spec => []GateInv
BY GateInit, GateStep, PTL DEF Spec

(***************************************************************************)
(* The hook gates main (main.rs 232-292 and .githooks/pre-push): for every *)
(* session, with any pushes of any refs and any number of runs of the CI   *)
(* before, once the hooks are installed main is pushed only after every    *)
(* stage of the local CI has passed for that push, the smoke test run anew.*)
(***************************************************************************)
THEOREM PushesAreGated == Spec => MainIsGated
<1>1. GateInv /\ [Next]_vars =>
        [main' # main /\ installed
           => /\ pushing /\ passed = Hosted \o LinuxLocal
              /\ tested /\ test = "passed"]_vars
  BY GateHolds
<1> QED
  BY <1>1, GateKept, PTL DEF Spec, MainIsGated
=============================================================================
