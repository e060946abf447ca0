----------------------------- MODULE Placeholders -----------------------------
(***************************************************************************)
(* xtask, `check_placeholders`: the tree below the root is walked with a   *)
(* stack, then each file found is read and searched for markers of         *)
(* unfinished code.  Meanwhile a build may delete what lies in it.         *)
(***************************************************************************)
EXTENDS Naturals, Sequences, FiniteSets, SequencesExt

CONSTANTS
  Root,      \* the directory the walk starts from
  Inside,    \* Inside[d] is the set of entries of directory d
  Skipped,   \* entries named "target" or ".git", and files named "AGENTS.md"
  Unreadable,\* files that are no text
  Marked     \* files with a marker

Directories == DOMAIN Inside
Entries == UNION {Inside[d] : d \in Directories}

VARIABLES
  present,   \* what has not been deleted
  stage,     \* "idle", "walk", "read", "passed", "markers", "error"
  stack,     \* directories to be read
  files,     \* files found and not looked at yet
  failures   \* files reported

vars == <<present, stage, stack, files, failures>>

\* What lies in a directory, and in the directories that lie in it: the least
\* set with the entries of d that has, with a directory, its entries, too.
HoldsEntries(S) == \A d \in S \cap Directories : Inside[d] \subseteq S
Below(d) ==
  {e \in Entries : \A S \in SUBSET Entries :
                     Inside[d] \subseteq S /\ HoldsEntries(S) => e \in S}

\* A path has a component "target" or ".git" if it or a directory above is named so.
Filtered(e) ==
  e \in Skipped \/ \E d \in Skipped \cap Directories : e \in Below(d)

\* Assumed of the constants, by the module that instantiates this one: a tree,
\* of directories with finitely many entries each.
Assumptions ==
  /\ \A d \in Directories : IsFiniteSet(Inside[d])
  /\ Root \in Directories \ Entries
  /\ Below(Root) = Entries
  /\ \A d, e \in Directories : d # e => Inside[d] \cap Inside[e] = {}

-----------------------------------------------------------------------------
Init ==
  /\ present = Entries
  /\ stage = "idle"
  /\ stack = << >>
  /\ files = {}
  /\ failures = {}

\* Each check is a new xtask.
Begin ==
  /\ stage \notin {"walk", "read"}
  /\ stage' = "walk"
  /\ stack' = <<Root>>
  /\ files' = {} /\ failures' = {}
  /\ UNCHANGED present

\* `read_dir`, in whatever order it lists the entries; an error, of a directory
\* that has just gone, ends the check.
ReadDir ==
  /\ stage = "walk" /\ stack # << >>
  /\ LET d == Last(stack)
         found == Inside[d] \cap present
         inner == found \cap Directories
     IN  IF d # Root /\ d \notin present
         THEN stage' = "error" /\ UNCHANGED <<stack, files>>
         ELSE /\ \E order \in [1 .. Cardinality(inner) -> inner] :
                   Range(order) = inner /\ stack' = Front(stack) \o order
              /\ files' = files \cup (found \ Directories)
              /\ UNCHANGED stage
  /\ UNCHANGED <<present, failures>>

EndWalk ==
  /\ stage = "walk" /\ stack = << >>
  /\ stage' = "read"
  /\ UNCHANGED <<present, stack, files, failures>>

\* Mutant: a skipped name ends the search, not just this turn of the loop.
ReadFileBreaking ==
  /\ stage = "read"
  /\ \E f \in files :
       /\ files' = IF Filtered(f) THEN {} ELSE files \ {f}
       /\ failures' = IF ~Filtered(f) /\ f \in (present \ Unreadable) \cap Marked
                      THEN failures \cup {f} ELSE failures
  /\ UNCHANGED <<present, stage, stack>>

\* A turn of the loop over the files; one that cannot be read is passed over.
ReadFile ==
  /\ stage = "read"
  /\ \E f \in files :
       /\ files' = files \ {f}
       /\ failures' = IF ~Filtered(f) /\ f \in (present \ Unreadable) \cap Marked
                      THEN failures \cup {f} ELSE failures
  /\ UNCHANGED <<present, stage, stack>>

Report ==
  /\ stage = "read" /\ files = {}
  /\ stage' = IF failures = {} THEN "passed" ELSE "markers"
  /\ UNCHANGED <<present, stack, files, failures>>

Check == Begin \/ ReadDir \/ EndWalk \/ ReadFile \/ Report

\* A build deletes an entry, and with a directory what it holds.
Delete ==
  /\ \E e \in present :
       present' = present \ ({e} \cup IF e \in Directories THEN Below(e) ELSE {})
  /\ UNCHANGED <<stage, stack, files, failures>>

Next == Check \/ Delete

Spec == Init /\ [][Next]_vars

-----------------------------------------------------------------------------
ToBeSearched == {f \in (Entries \ Directories) \ Unreadable : ~Filtered(f)}

(***************************************************************************)
(* A verdict holds although the tree changes during the walk: a check that *)
(* passes leaves no marker in any file still there that it has to look at, *)
(* and every file that is reported had one.                                *)
(***************************************************************************)
VerdictHolds ==
  /\ stage = "passed" => present \cap ToBeSearched \cap Marked = {}
  /\ stage = "markers" => failures # {} /\ failures \subseteq ToBeSearched \cap Marked
=============================================================================
