------------------------------- MODULE Monitor -------------------------------
(***************************************************************************)
(* cantools-tui, `run_monitor`: set the terminal up, then in a loop drain  *)
(* the nonblocking socket into a window of the latest events, draw it and  *)
(* look for a key; put the terminal back on the way out.  Frames and keys  *)
(* arrive at any moment, and every call of the socket or the terminal may  *)
(* fail.                                                                   *)
(***************************************************************************)
EXTENDS Integers, Sequences

CONSTANTS
  Limit,      \* the number of events shown
  Room,       \* frames the receive queue of the socket holds
  MaxFrames,  \* bound: frames that arrive
  MaxKeys     \* bound: terminal events that arrive

\* Assumed of the constants, by the module that instantiates this one.
Assumptions ==
  /\ Limit \in Nat
  /\ Room \in Nat \ {0} /\ MaxFrames \in Nat /\ MaxKeys \in Nat

VARIABLES
  pc,       \* the call run_monitor makes next, or "returned"
  result,   \* which kind of error, if any, is returned
  term,     \* what has been changed of the terminal: subset of Changes
  events,   \* VecDeque of the latest events
  shown,    \* the events of the last draw
  socket,   \* the kernel's receive queue
  keys,     \* the terminal events not read yet
  arrived,  \* frames that arrived so far, each known by its number
  pressed,  \* terminal events that arrived so far
  received  \* history: the frames received, in order

env == <<socket, keys, arrived, pressed>>
vars == <<pc, result, term, events, shown, socket, keys, arrived, pressed, received>>

Changes == {"raw mode", "alternate screen", "hidden cursor"}
Keys == {"q pressed", "q released", "other"}

-----------------------------------------------------------------------------
Init ==
  /\ pc = "open"
  /\ result = "ok"
  /\ term = {}
  /\ events = << >>
  /\ shown = << >>
  /\ socket = << >>
  /\ keys = << >>
  /\ arrived = 0
  /\ pressed = 0
  /\ received = << >>

\* A call of the prologue: on to the next one, or out by `?`.
Setup(here, next, change) ==
  /\ pc = here
  /\ \/ pc' = next /\ term' = term \cup change /\ UNCHANGED result
     \/ pc' = "returned" /\ result' = "setup error" /\ UNCHANGED term
  /\ UNCHANGED <<events, shown, env, received>>

OpenSocket == Setup("open", "set nonblocking", {})
SetNonblocking == Setup("set nonblocking", "enable raw mode", {})
EnableRawMode == Setup("enable raw mode", "enter screen", {"raw mode"})
EnterScreen == Setup("enter screen", "new terminal", {"alternate screen"})
NewTerminal == Setup("new terminal", "drain", {})

\* Mutant: the error is returned where it happens.
LoopFailsEarly ==
  /\ pc \in {"drain", "draw", "poll"}
  /\ pc' = "returned"
  /\ result' = "loop error"
  /\ UNCHANGED <<term, events, shown, env, received>>

\* Any call of run_loop may fail: its error waits for the terminal.
LoopFails ==
  /\ pc \in {"drain", "draw", "poll"}
  /\ pc' = "disable raw mode"
  /\ result' = "loop error"
  /\ UNCHANGED <<term, events, shown, env, received>>

\* Mutant: the newest event makes room and not the oldest.
PushNewest(window, e) ==
  Append(IF Len(window) = Limit /\ window # << >>
         THEN SubSeq(window, 1, Len(window) - 1) ELSE window, e)

\* `pop_front` on a full window (which does nothing to an empty one), `push_back`.
Push(window, e) ==
  Append(IF Len(window) = Limit /\ window # << >> THEN Tail(window) ELSE window, e)

Drain ==
  /\ pc = "drain"
  /\ socket # << >>
  /\ events' = Push(events, Head(socket))
  /\ received' = Append(received, Head(socket))
  /\ socket' = Tail(socket)
  /\ UNCHANGED <<pc, result, term, shown, keys, arrived, pressed>>

\* recv_event returned None.
Drained ==
  /\ pc = "drain"
  /\ socket = << >>
  /\ pc' = "draw"
  /\ UNCHANGED <<result, term, events, shown, env, received>>

\* Mutant: nothing is drawn while the window is not full.
DrawFull ==
  /\ pc = "draw"
  /\ shown' = IF Len(events) < Limit THEN shown ELSE events
  /\ term' = term \cup {"hidden cursor"}
  /\ pc' = "poll"
  /\ UNCHANGED <<result, events, env, received>>

\* Drawing a frame without a cursor position hides the cursor.
Draw ==
  /\ pc = "draw"
  /\ shown' = events
  /\ term' = term \cup {"hidden cursor"}
  /\ pc' = "poll"
  /\ UNCHANGED <<result, events, env, received>>

\* poll came back empty-handed after 100 ms.
PollNothing ==
  /\ pc = "poll"
  /\ keys = << >>
  /\ pc' = "drain"
  /\ UNCHANGED <<result, term, events, shown, env, received>>

\* Mutant: the release of a key counts, the press does not.
ReadKeyReleased ==
  /\ pc = "poll"
  /\ keys # << >>
  /\ keys' = Tail(keys)
  /\ pc' = IF Head(keys) = "q released" THEN "disable raw mode" ELSE "drain"
  /\ UNCHANGED <<result, term, events, shown, socket, arrived, pressed, received>>

\* One terminal event a turn is read; only a press of q breaks the loop.
ReadKey ==
  /\ pc = "poll"
  /\ keys # << >>
  /\ keys' = Tail(keys)
  /\ pc' = IF Head(keys) = "q pressed" THEN "disable raw mode" ELSE "drain"
  /\ UNCHANGED <<result, term, events, shown, socket, arrived, pressed, received>>

\* A call of the epilogue; its own error hides the one of the loop.  The
\* Terminal tries once more to show the cursor when it is dropped.
Restore(here, next, change) ==
  /\ pc = here
  /\ \/ pc' = next /\ term' = term \ change /\ UNCHANGED result
     \/ /\ pc' = "returned" /\ result' = "restore error"
        /\ term' \in {term, term \ {"hidden cursor"}}
  /\ UNCHANGED <<events, shown, env, received>>

DisableRawMode == Restore("disable raw mode", "leave screen", {"raw mode"})
LeaveScreen == Restore("leave screen", "show cursor", {"alternate screen"})
ShowCursor == Restore("show cursor", "returned", {"hidden cursor"})

RunMonitor ==
  \/ OpenSocket \/ SetNonblocking \/ EnableRawMode \/ EnterScreen \/ NewTerminal
  \/ Drain \/ Drained \/ Draw \/ PollNothing \/ ReadKey \/ LoopFails
  \/ DisableRawMode \/ LeaveScreen \/ ShowCursor

-----------------------------------------------------------------------------
\* The kernel queues a frame, or drops it when the queue is full.
Arrive ==
  /\ arrived < MaxFrames
  /\ pc \notin {"open", "returned"}
  /\ arrived' = arrived + 1
  /\ socket' = IF Len(socket) < Room THEN Append(socket, arrived + 1) ELSE socket
  /\ UNCHANGED <<pc, result, term, events, shown, keys, pressed, received>>

PressKey ==
  /\ pressed < MaxKeys
  /\ pc # "returned"
  /\ pressed' = pressed + 1
  /\ \E k \in Keys : keys' = Append(keys, k)
  /\ UNCHANGED <<pc, result, term, events, shown, socket, arrived, received>>

Next == RunMonitor \/ Arrive \/ PressKey

Spec == Init /\ [][Next]_vars


-----------------------------------------------------------------------------
TypeOK ==
  /\ pc \in {"open", "set nonblocking", "enable raw mode", "enter screen",
             "new terminal", "drain", "draw", "poll", "disable raw mode",
             "leave screen", "show cursor", "returned"}
  /\ result \in {"ok", "setup error", "loop error", "restore error"}
  /\ term \subseteq Changes
  /\ events \in Seq(Nat) /\ shown \in Seq(Nat)
  /\ socket \in Seq(Nat) /\ received \in Seq(Nat)
  /\ Len(socket) <= Room
  /\ Limit >= 1 => Len(events) <= Limit
  /\ keys \in Seq(Keys)
  /\ arrived \in 0 .. MaxFrames
  /\ pressed \in 0 .. MaxKeys

(***************************************************************************)
(* The window is exactly the last Limit frames received, oldest first,     *)
(* however receiving, drawing and polling alternate.  A limit of 0 is the  *)
(* exception: the window then never fills and nothing leaves it.           *)
(***************************************************************************)
LastOf(s, n) == SubSeq(s, IF Len(s) > n THEN Len(s) - n + 1 ELSE 1, Len(s))

Window == Limit >= 1 => events = LastOf(received, Limit)

(***************************************************************************)
(* Unless the setup or the restoring itself fails, run_monitor leaves the  *)
(* terminal as it found it, also when the loop ends with an error.         *)
(***************************************************************************)
Restored == pc = "returned" /\ result \in {"ok", "loop error"} => term = {}

(***************************************************************************)
(* Once q has been pressed the monitor returns: neither frames still       *)
(* queued nor keys typed before keep it, as the bus is quiet in the end.   *)
(***************************************************************************)
QuitWorks == (\E i \in 1 .. Len(keys) : keys[i] = "q pressed") ~> pc = "returned"

\* A frame that is queued is drawn, unless newer ones push it out of the window.
FrameShown ==
  \A n \in 1 .. MaxFrames :
    (\E i \in 1 .. Len(socket) : socket[i] = n)
      ~> \/ \E i \in 1 .. Len(shown) : shown[i] >= n
         \/ pc = "returned"
=============================================================================
