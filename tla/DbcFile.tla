------------------------------- MODULE DbcFile -------------------------------
(***************************************************************************)
(* What the library can_dbc makes of a DBC file, as far as cantools-dbc    *)
(* looks at it.  A signal's `mode` says how it takes part in multiplexing; *)
(* `switch` is what message_multiplexor_switch answers: a signal of the    *)
(* message, or None.                                                       *)
(***************************************************************************)
EXTENDS Naturals, Sequences

None == [none |-> "value"]

Plain == [type |-> "plain"]
Multiplexor == [type |-> "multiplexor"]
Multiplexed(value) == [type |-> "multiplexed", value |-> value]
Nested(value) == [type |-> "nested", value |-> value]

Signal(name, start, size, order, signed, mode) ==
  [name |-> name, start |-> start, size |-> size, order |-> order,
   signed |-> signed, mode |-> mode]

Message(id, signals, switch) == [id |-> id, signals |-> signals, switch |-> switch]
Database(name, messages) == [name |-> name, messages |-> messages]

\* What there may be in a file; a value fits into 64 bits.
Identifiers == [extended : BOOLEAN, raw : Nat]

Modes == [type : {"plain", "multiplexor"}] \cup [type : {"multiplexed", "nested"}, value : Nat]

Signals ==
  [name : STRING, start : Nat, size : 1 .. 64, order : {"little", "big"},
   signed : BOOLEAN, mode : Modes]

Messages == [id : Identifiers, signals : Seq(Signals), switch : Signals \cup {None}]
Databases == [name : STRING, messages : Seq(Messages)]
=============================================================================
