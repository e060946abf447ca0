------------------------------ MODULE MCCommands ------------------------------
(***************************************************************************)
(* A sequence of a request and two answers, with a pause that lets answers *)
(* queue up.  Captures of up to four events with growing, repeated and     *)
(* falling timestamps, played at every kind of speed: faster, slower, by a *)
(* factor that does not divide the deltas, and at scales that are floored. *)
(***************************************************************************)
EXTENDS Commands, SequencesExt

CONSTANTS A, B

MCSteps ==
  <<[type |-> "send"],
    [type |-> "expect", id |-> A, timeout |-> 3],
    [type |-> "sleep", ticks |-> 1],
    [type |-> "expect", id |-> B, timeout |-> 1],
    [type |-> "expect", id |-> A, timeout |-> 2]>>

MCCaptures == SeqOf({0, 2, 5}, 3) \cup {<<0, 5, 2, 9>>, <<7, -1, 3, 8>>}

Scaled(num, den) == [type |-> "scale", num |-> num, den |-> den]

MCModes ==
  {[type |-> "immediate"], [type |-> "preserve"], Scaled(2, 1), Scaled(1, 2), Scaled(3, 2),
   Scaled(0, 1), Scaled(-1, 1)}
=============================================================================
