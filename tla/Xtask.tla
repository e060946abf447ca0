-------------------------------- MODULE Xtask --------------------------------
(***************************************************************************)
(* The maintenance commands of the repository: `main` of xtask picks a     *)
(* command, which is a list of external commands or one of the three parts *)
(* with a life of their own, SmokeTest, Codegen and Placeholders.  And the *)
(* pre-push hook, which lets nothing onto the main branch before all of    *)
(* the local CI has passed.                                                *)
(***************************************************************************)
EXTENDS Naturals, Sequences

CONSTANTS
  Pause, Timeout, Foreign, MaxForeign,                    \* of SmokeTest
  Versions, Committed, Unparsable, Incomplete, MaxEdits,  \* of Codegen
  Root, Inside, Skipped, Unreadable, Marked,              \* of Placeholders
  Pushes,       \* Pushes[p] is the sequence of refs that the push named p updates
  Sessions      \* what is done in turn: sequences of commands and names of pushes

VARIABLES
  test, nap, receiver, age, queue, printed, sender, foreign, orphans,
  faulted, ready, late, alike,
  data, generated, run, todo, read, edits, before,
  present, stage, stack, files, failures

Smoke == INSTANCE SmokeTest
Gen == INSTANCE Codegen
Markers == INSTANCE Placeholders

ASSUME PartsAssumption == Smoke!Assumptions /\ Gen!Assumptions /\ Markers!Assumptions

VARIABLES
  command,     \* the command given last, "none" before the first
  rest,        \* its stages that have not ended
  exit,        \* "none" while it runs, "ok" or "error"
  session,     \* what will still be done
  executable,  \* whether .githooks/pre-push may be executed
  hooks_path,  \* whether core.hooksPath is .githooks
  pushing,     \* whether the command runs for a push to main
  main,        \* how often main has been pushed
  \* History, read by the properties alone:
  installed,   \* whether `install-hooks` has reported success
  passed,      \* the stages of the command that have passed
  tested       \* whether the command has started the smoke test

hooks == <<executable, hooks_path, installed>>
own == <<command, rest, exit, session, hooks, pushing, main, passed>>
smokes == <<test, nap, receiver, age, queue, printed, sender, foreign, orphans,
            faulted, ready, late, alike>>
gens == <<data, generated, run, todo, read, edits, before>>
marks == <<present, stage, stack, files, failures>>
vars == <<own, tested, smokes, gens, marks>>

-----------------------------------------------------------------------------
Hosted == <<"fmt", "clippy", "test">>
LinuxLocal ==
  <<"orb", "machine", "deny-there", "vcan0", "build", "test", "deny", "smoke-test">>

Stages(c) ==
  CASE c = "ci-hosted" -> Hosted
    [] c = "ci-linux-local" -> LinuxLocal
    [] c = "ci-all-local" -> Hosted \o LinuxLocal
    [] c = "install-hooks" -> <<"chmod", "set-hooksPath", "get-hooksPath">>
    [] OTHER -> <<c>>

Commands ==
  {"codegen", "check-placeholders", "ci-hosted", "ci-linux-local", "ci-all-local", "install-hooks"}

Parts == {"smoke-test", "codegen", "check-placeholders"}

Running == exit = "none" /\ command # "none"
At(s) == Running /\ rest # << >> /\ Head(rest) = s

Init ==
  /\ Smoke!Init /\ Gen!Init /\ Markers!Init
  /\ command = "none" /\ rest = << >> /\ exit = "none" /\ session \in Sessions
  /\ executable \in BOOLEAN /\ hooks_path = FALSE
  /\ pushing = FALSE /\ main = 0
  /\ installed = FALSE /\ passed = << >> /\ tested = FALSE

UnchangedParts == UNCHANGED <<tested, smokes, gens, marks>>

NextIs(c) == ~Running /\ ~pushing /\ session # << >> /\ Head(session) = c

\* Mutant: a smoke test that has passed is not run again.
BeginTested(c) ==
  /\ command' = c /\ rest' = Stages(c) /\ exit' = "none" /\ passed' = << >>
  /\ session' = Tail(session)
  /\ UNCHANGED <<hooks, main, smokes>>
  /\ tested' = FALSE
  /\ IF c = "codegen" THEN Gen!Begin ELSE UNCHANGED gens
  /\ IF c = "check-placeholders" THEN Markers!Begin ELSE UNCHANGED marks

\* `main` of a new xtask: the stages of the command lie ahead.
Begin(c) ==
  /\ command' = c /\ rest' = Stages(c) /\ exit' = "none" /\ passed' = << >>
  /\ session' = Tail(session)
  /\ UNCHANGED <<hooks, main>>
  /\ tested' = FALSE
  /\ IF test = "idle" THEN UNCHANGED smokes ELSE Smoke!Renew
  /\ IF c = "codegen" THEN Gen!Begin ELSE UNCHANGED gens
  /\ IF c = "check-placeholders" THEN Markers!Begin ELSE UNCHANGED marks

Invoke(c) == NextIs(c) /\ Begin(c) /\ UNCHANGED pushing

\* What the hook reads of git, line by line: is one of the refs main?
GateMain(refs) == \E i \in DOMAIN refs : refs[i] = "main"

(***************************************************************************)
(* `git push`.  Git runs the hook if it is told where it is and may execute*)
(* it; of a push to main the hook makes a run of the local CI, and any     *)
(* other it lets pass.                                                     *)
(***************************************************************************)
Push(p) ==
  /\ NextIs(p)
  /\ LET to_main == GateMain(Pushes[p])
     IN  IF hooks_path /\ executable /\ to_main
         THEN Begin("ci-all-local") /\ pushing' = TRUE
         ELSE /\ main' = IF to_main THEN main + 1 ELSE main
              /\ session' = Tail(session)
              /\ UNCHANGED <<command, rest, exit, hooks, pushing, passed>>
              /\ UnchangedParts

\* Git pushes if the hook has exited with success.
HookExits ==
  /\ pushing /\ ~Running
  /\ pushing' = FALSE
  /\ main' = IF exit = "ok" THEN main + 1 ELSE main
  /\ UNCHANGED <<command, rest, exit, session, hooks, passed>>
  /\ UnchangedParts

-----------------------------------------------------------------------------
\* The stage at the head ends well, and the command with the last of them.
Advance ==
  /\ rest' = Tail(rest)
  /\ passed' = Append(passed, Head(rest))
  /\ exit' = IF Len(rest) = 1 THEN "ok" ELSE exit
  /\ installed' = (installed \/ (command = "install-hooks" /\ Len(rest) = 1))

\* `bail!` or `?`: the stages after it are not run.
GiveUp ==
  /\ rest' = << >>
  /\ exit' = "error"
  /\ UNCHANGED <<passed, installed>>

\* Mutant: an error in setting the mode of the hook is ignored.
RunStageUnchecked ==
  /\ Running /\ rest # << >> /\ Head(rest) \notin Parts
  /\ \/ /\ Advance
        /\ \/ executable' = (executable \/ At("chmod"))
           \/ At("chmod") /\ executable' = executable
        /\ hooks_path' = (hooks_path \/ At("set-hooksPath"))
     \/ GiveUp /\ UNCHANGED <<executable, hooks_path>>
  /\ UNCHANGED <<command, session, pushing, main>>
  /\ UnchangedParts

\* `run_command_in`, `command_output_in`, `set_permissions`: done, or an error.
RunStage ==
  /\ Running /\ rest # << >> /\ Head(rest) \notin Parts
  /\ \/ /\ Advance
        /\ executable' = (executable \/ At("chmod"))
        /\ hooks_path' = (hooks_path \/ At("set-hooksPath"))
     \/ GiveUp /\ UNCHANGED <<executable, hooks_path>>
  /\ UNCHANGED <<command, session, pushing, main>>
  /\ UnchangedParts

\* The test starts as its stage; a receiver nobody waits for outlives the command.
RunSmokeTest ==
  \/ At("smoke-test") /\ Smoke!Start /\ tested' = TRUE
  \/ /\ test # "idle" \/ orphans # << >>
     /\ Smoke!Goes
     /\ UNCHANGED tested

\* A part makes a step.
RunPart ==
  /\ \/ /\ RunSmokeTest
        /\ UNCHANGED <<gens, marks>>
     \/ /\ command = "codegen"
        /\ Gen!Read \/ Gen!Write \/ Gen!End \/ Gen!Edit
        /\ UNCHANGED <<tested, smokes, marks>>
     \/ /\ At("check-placeholders")
        /\ Markers!ReadDir \/ Markers!EndWalk \/ Markers!ReadFile \/ Markers!Report \/ Markers!Delete
        /\ UNCHANGED <<tested, smokes, gens>>
  /\ UNCHANGED own

\* A part has ended, and so has its stage.
PartEnds ==
  /\ \/ At("smoke-test") /\ Smoke!Over /\ IF test = "passed" THEN Advance ELSE GiveUp
     \/ /\ At("codegen") /\ run \in {"done", "failed", "crashed"}
        /\ IF run = "done" THEN Advance ELSE GiveUp
     \/ /\ At("check-placeholders") /\ stage \in {"passed", "markers", "error"}
        /\ IF stage = "passed" THEN Advance ELSE GiveUp
  /\ UNCHANGED <<command, session, executable, hooks_path, pushing, main>>
  /\ UnchangedParts

Next ==
  \/ RunStage \/ RunPart \/ PartEnds \/ HookExits
  \/ \E c \in Commands : Invoke(c)
  \/ \E p \in DOMAIN Pushes : Push(p)

\* The processes of a smoke test run; of the other commands nothing is assumed.
Spec == Init /\ [][Next]_vars /\ Smoke!Fairness

-----------------------------------------------------------------------------
\* The promises of the parts, stated in their modules.
Verdict == Smoke!Verdict
NothingLeftRunning == Smoke!NothingLeftRunning
AllOrNothing == Gen!AllOrNothing
VerdictHolds == Markers!VerdictHolds

(***************************************************************************)
(* Once `install-hooks` has reported success main is not pushed, alone or  *)
(* with other refs, unless every stage of the hosted and of the Linux CI   *)
(* has passed for this very push, the smoke test last and run anew.        *)
(***************************************************************************)
MainIsGated ==
  [][main' # main /\ installed
       => /\ pushing /\ passed = Hosted \o LinuxLocal
          /\ tested /\ test = "passed"]_vars
=============================================================================
