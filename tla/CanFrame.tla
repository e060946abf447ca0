------------------------------- MODULE CanFrame -------------------------------
(***************************************************************************)
(* cantools-core: identifiers and frames, with the validation every        *)
(* constructor does.  A payload is copied and never looked into by the     *)
(* modules that use this one, so a frame carries its length, dlc.          *)
(***************************************************************************)
EXTENDS Naturals

MaxStandard == 2047        \* 0x7ff
MaxExtended == 536870911   \* 0x1fff_ffff

\* A frame or identifier that the constructor refuses.
Invalid == [invalid |-> TRUE]

\* CanId::standard and CanId::extended
Standard(raw) == IF raw > MaxStandard THEN Invalid ELSE [raw |-> raw, extended |-> FALSE]
Extended(raw) == IF raw > MaxExtended THEN Invalid ELSE [raw |-> raw, extended |-> TRUE]

Classes == {"data", "remote", "error"}

\* FdFlags: bit rate switch and error state indicator.
FdFlags == SUBSET {"brs", "esi"}

MaxPayload(fd) == IF fd THEN 64 ELSE 8

\* What the constructors return, unless they refuse.
CanIds == [raw : 0 .. MaxStandard, extended : {FALSE}]
            \cup [raw : 0 .. MaxExtended, extended : {TRUE}]
CanFrames ==
  {f \in [id : CanIds, class : Classes, dlc : Nat, fd : BOOLEAN, fd_flags : FdFlags] :
     f.dlc <= MaxPayload(f.fd)}

\* CanFrame::new, on an identifier its constructor returned.
NewFrame(id, class, dlc, fd, flags) ==
  IF id = Invalid \/ dlc > MaxPayload(fd)
  THEN Invalid
  ELSE [id |-> id, class |-> class, dlc |-> dlc, fd |-> fd, fd_flags |-> flags]
=============================================================================
