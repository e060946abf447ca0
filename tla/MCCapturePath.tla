---------------------------- MODULE MCCapturePath ----------------------------
(***************************************************************************)
(* Captures of two events.  The frames have every class, both identifier   *)
(* widths and the payload lengths around eight bytes and around the byte   *)
(* that counts bits; the timestamps lie around the rounding of a           *)
(* microsecond and the end of a second.  And captures of one event, from   *)
(* whatever another program may put on the bus: every combination of flag  *)
(* bits, with identifiers and lengths around the limits and beyond.        *)
(***************************************************************************)
EXTENDS CapturePath

MCCut(name) == "cut"
MCRecorder == <<"vcan1", 4>>
MCRecvTime(i) == Second - 600 + 100 * i

Frames ==
  {NewFrame(Standard(291), "data", dlc, FALSE, {}) : dlc \in {0, 8}}
    \cup {NewFrame(Extended(291), "data", dlc, TRUE, flags) : dlc \in {8, 33, 64}, flags \in {{}, {"brs"}}}
    \cup {NewFrame(Extended(MaxExtended), "remote", 4, FALSE, {"esi"}),
          NewFrame(Standard(MaxStandard), "error", 8, FALSE, {})}

Interfaces == {<<"vcan0", 3>>, <<"vcan0", 70000>>}
OddInterfaces == {<<NoName, NoIndex>>, <<"long", 0>>, <<"ch1", NoIndex>>}

Of(serial, times, interfaces, directions, annotated) ==
  {Event(serial, t, i[1], i[2], d, f, a) :
     t \in times, i \in interfaces, d \in directions, f \in Frames, a \in annotated}

\* What recv_event produces, a moment apart.
SocketCaptures ==
  {<<e, f>> : e \in Of(1, {999999400}, {<<"vcan0", 3>>}, {"Rx"}, {FALSE}),
              f \in Of(2, {999999400, 999999501, 999999999}, Interfaces, {"Rx"}, {FALSE})}

\* Anything a program may build.
AnyCaptures ==
  {<<e, f>> : e \in Of(1, {1499}, OddInterfaces, {"Rx", "Tx"}, {TRUE}),
              f \in Of(2, {999999950}, {<<"vcan0", 70000>>}, {"Rx"}, {FALSE})}

Natives ==
  [size : {"classic", "fd"},
   can_id : [value : {0, MaxStandard + 1, MaxExtended}, flags : SUBSET {"EFF", "RTR", "ERR"}],
   len : {8, 9, 255},
   flags : {{}, {"brs"}}]

ForeignCaptures ==
  {<<Event(1, 1499, "vcan0", 3, "Rx", FrameOfNative(n), FALSE)>> : n \in Natives}

MCCaptures == SocketCaptures \cup AnyCaptures \cup ForeignCaptures
=============================================================================
