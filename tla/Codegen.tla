------------------------------- MODULE Codegen -------------------------------
(***************************************************************************)
(* xtask, `codegen`: three files of specification data are read and        *)
(* parsed, and a table of each is written to a generated source file.      *)
(* Somebody may edit the data at any moment, a write may fail or be cut    *)
(* off by a crash, and the command may be run again.                       *)
(*                                                                         *)
(* The contents of a file of data is a version; the generated text is the  *)
(* version it was generated from.                                          *)
(***************************************************************************)
EXTENDS Naturals, Sequences

CONSTANTS
  Versions,   \* versions of the data that make tables
  Committed,  \* the one in the repository, with its generated files
  Unparsable, \* a version that `toml::from_str` refuses
  Incomplete, \* one that parses, but lacks the `sid` of a UDS service
  MaxEdits    \* bound: how often the data is edited

\* Assumed of the constants, by the module that instantiates this one.
Assumptions ==
  /\ Committed \in Versions /\ {Unparsable, Incomplete} \cap Versions = {}
  /\ MaxEdits \in Nat

VARIABLES
  data,       \* data[t]: the version of the specification data of table t
  generated,  \* generated[t]: the generated file, by the version it is made of
  run,        \* "idle", "reading", "writing", "done", "failed", "crashed"
  todo,       \* the tables still to be read, or still to be written
  read,       \* read[t]: what this run has read
  edits,
  before      \* history: the generated files when the run began

vars == <<data, generated, run, todo, read, edits, before>>

\* The order in which the code goes through them, reading and writing.
Tables == <<"uds", "obd", "j1939">>
Table == {"uds", "obd", "j1939"}

\* What a file of data may hold.  The other tables have no field to leave out.
Contents(t) == Versions \cup {Unparsable} \cup (IF t = "uds" THEN {Incomplete} ELSE {})

\* A file that is cut off, or empty, equals no generated text.
Torn == "torn"

\* The text of table t can be made: `entry.sid.expect("sid")`
Formats(t) == read[t] # Incomplete

-----------------------------------------------------------------------------
Init ==
  /\ data = [t \in Table |-> Committed]
  /\ generated = data
  /\ run = "idle"
  /\ todo = << >>
  /\ read = data
  /\ edits = 0
  /\ before = generated

\* The command is run, or run again after it ended in whatever way.
Begin ==
  /\ run \notin {"reading", "writing"}
  /\ run' = "reading"
  /\ todo' = Tables
  /\ before' = generated
  /\ UNCHANGED <<data, generated, read, edits>>

\* Mutant: each table is written as soon as its data is read.
ReadAndWrite ==
  /\ run = "reading"
  /\ LET t == Head(todo)
     IN  /\ read' = [read EXCEPT ![t] = data[t]]
         /\ IF data[t] \in {Unparsable, Incomplete}
            THEN run' = "failed" /\ UNCHANGED <<todo, generated>>
            ELSE /\ generated' = [generated EXCEPT ![t] = data[t]]
                 /\ IF Len(todo) > 1 THEN todo' = Tail(todo) /\ UNCHANGED run
                                     ELSE todo' = Tables /\ run' = "writing"
  /\ UNCHANGED <<data, edits, before>>

\* `toml::from_str(&fs::read_to_string(..)?)?`
Read ==
  /\ run = "reading"
  /\ LET t == Head(todo)
     IN  /\ read' = [read EXCEPT ![t] = data[t]]
         /\ IF data[t] = Unparsable
            THEN run' = "failed" /\ UNCHANGED todo
            ELSE IF Len(todo) > 1 THEN todo' = Tail(todo) /\ UNCHANGED run
                                  ELSE todo' = Tables /\ run' = "writing"
  /\ UNCHANGED <<data, generated, edits, before>>

(***************************************************************************)
(* `write_if_changed`: a file that has the text already is left alone.     *)
(* `fs::write` truncates before it writes, so an error and a crash may     *)
(* leave the old file or a torn one.                                       *)
(***************************************************************************)
WriteIfChanged(t) ==
  IF generated[t] = read[t] THEN UNCHANGED <<generated, run>>
  ELSE \/ generated' = [generated EXCEPT ![t] = read[t]] /\ run' = run
       \/ /\ generated' \in {generated, [generated EXCEPT ![t] = Torn]}
          /\ run' \in {"failed", "crashed"}

Write ==
  /\ run = "writing" /\ todo # << >>
  /\ LET t == Head(todo)
     IN  IF Formats(t) THEN WriteIfChanged(t) ELSE run' = "crashed" /\ UNCHANGED generated
  /\ todo' = Tail(todo)
  /\ UNCHANGED <<data, read, edits, before>>

End ==
  /\ run = "writing" /\ todo = << >>
  /\ run' = "done"
  /\ UNCHANGED <<data, generated, todo, read, edits, before>>

Command == Begin \/ Read \/ Write \/ End

Edit ==
  /\ edits < MaxEdits
  /\ \E t \in Table : \E v \in Contents(t) \ {data[t]} : data' = [data EXCEPT ![t] = v]
  /\ edits' = edits + 1
  /\ UNCHANGED <<generated, run, todo, read, before>>

Next == Command \/ Edit

Spec == Init /\ [][Next]_vars

-----------------------------------------------------------------------------
Refused ==
  \/ run \in {"failed", "crashed"} /\ \E t \in Table : read[t] = Unparsable
  \/ run = "crashed" /\ \E t \in Table : ~Formats(t)

(***************************************************************************)
(* All or nothing.  When codegen reports success all three generated files *)
(* are those of the data it has read, however torn or mixed an earlier run *)
(* left them.  Data that is refused changes nothing: a run that read a     *)
(* file it cannot use leaves every generated file as it found it.  (An     *)
(* edit between two reads may still give tables of two versions.)          *)
(***************************************************************************)
AllOrNothing ==
  /\ run = "done" => generated = read
  /\ Refused => generated = before
=============================================================================
