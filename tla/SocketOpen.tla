------------------------------ MODULE SocketOpen ------------------------------
(***************************************************************************)
(* cantools-socketcan: the life of a file descriptor, from the `open` of a *)
(* raw, ISO-TP or J1939 socket to the Drop of the handle.  One caller      *)
(* opens and drops sockets of one interface name, in any order; each       *)
(* system call of `open` is a step, because the kernel may add or remove   *)
(* the interface between two of them.                                      *)
(***************************************************************************)
EXTENDS Naturals, FiniteSets

CONSTANTS
  Kinds,      \* the wrappers the caller uses: subset of {"raw", "isotp", "j1939"}
  Fds,        \* the descriptors the process may have open at once
  MaxIndex    \* interface indices the kernel hands out: the bound on re-creation

ASSUME KindsAssumption == Kinds \subseteq {"raw", "isotp", "j1939"}
ASSUME MaxIndexAssumption == MaxIndex \in Nat \ {0}

VARIABLES
  ifindex,    \* what if_nametoindex answers for the name, 0 for unknown
  fresh,      \* the index the kernel gives the interface next
  open_fds,   \* the descriptors open in the process
  bound,      \* the index each descriptor was bound to
  call,       \* the call of `open` in progress
  handles     \* the sockets the caller holds

kernel == <<ifindex, fresh>>
vars == <<ifindex, fresh, open_fds, bound, call, handles>>

Absent == 0
NoCall == [pc |-> "idle"]
At(pc) == call.pc = pc
Handle(kind, fd, index) == [kind |-> kind, fd |-> fd, ifindex |-> index]

-----------------------------------------------------------------------------
Init ==
  /\ ifindex \in {Absent, 1}
  /\ fresh = 2
  /\ open_fds = {}
  /\ bound = [fd \in Fds |-> Absent]
  /\ call = NoCall
  /\ handles = {}

\* `close_fd`, then the error is returned.
CloseAndFail ==
  /\ open_fds' = open_fds \ {call.fd}
  /\ call' = NoCall
  /\ UNCHANGED <<kernel, bound, handles>>

\* The error is returned by `?`, with no handle whose Drop could close.
Fail ==
  /\ call' = NoCall
  /\ UNCHANGED <<kernel, open_fds, bound, handles>>

\* `open_socket`: a descriptor, or an error that leaves everything as it was.
CreateSocket ==
  /\ At("idle")
  /\ \/ UNCHANGED <<open_fds, bound, call>>
     \/ \E kind \in Kinds, fd \in Fds \ open_fds :
          /\ open_fds' = open_fds \cup {fd}
          /\ bound' = [bound EXCEPT ![fd] = Absent]
          /\ call' = [pc |-> IF kind = "raw" THEN "setsockopt" ELSE "resolve",
                      kind |-> kind, fd |-> fd, index |-> Absent]
  /\ UNCHANGED <<kernel, handles>>

\* `set_fd_frames`
SetFdFrames ==
  /\ At("setsockopt")
  /\ \/ /\ call' = [call EXCEPT !.pc = "resolve"]
        /\ UNCHANGED <<kernel, open_fds, bound, handles>>
     \/ CloseAndFail

\* `interface_index` before bind.  Only the raw socket closes on failure.
Resolve ==
  /\ At("resolve")
  /\ IF ifindex # Absent
     THEN /\ call' = [call EXCEPT !.pc = "bind", !.index = ifindex]
          /\ UNCHANGED <<kernel, open_fds, bound, handles>>
     ELSE IF call.kind = "raw" THEN CloseAndFail ELSE Fail

\* Mutant: the index is read from the interface table once more.
BindRelooking ==
  /\ At("bind")
  /\ bound' = [bound EXCEPT ![call.fd] = ifindex]
  /\ IF call.kind = "raw"
     THEN call' = [call EXCEPT !.pc = "record"] /\ handles' = handles
     ELSE call' = NoCall /\ handles' = handles \cup {Handle(call.kind, call.fd, Absent)}
  /\ UNCHANGED <<kernel, open_fds>>

\* Mutant: the return after `close_fd` is missing.
BindFallingThrough ==
  /\ At("bind")
  /\ open_fds' = open_fds \ {call.fd}
  /\ call' = NoCall
  /\ handles' = handles \cup {Handle(call.kind, call.fd, Absent)}
  /\ UNCHANGED <<kernel, bound>>

\* Mutant: a bind that finds the interface gone forgets `close_fd`.
BindKeepingOpen ==
  /\ At("bind")
  /\ ifindex = Absent
  /\ Fail

\* The kernel binds the descriptor, if the index found is still an interface's.
KernelBinds ==
  /\ ifindex = call.index
  /\ bound' = [bound EXCEPT ![call.fd] = call.index]
  /\ UNCHANGED <<kernel, open_fds>>

\* `bind_raw_socket`: `open` goes on to the index of the handle.
BindRaw ==
  /\ call.kind = "raw"
  /\ \/ KernelBinds /\ call' = [call EXCEPT !.pc = "record"] /\ UNCHANGED handles
     \/ CloseAndFail

\* An ISO-TP or J1939 handle is complete once it is bound.
BindAddressed ==
  /\ call.kind # "raw"
  /\ \/ /\ KernelBinds
        /\ call' = NoCall
        /\ handles' = handles \cup {Handle(call.kind, call.fd, Absent)}
     \/ CloseAndFail

Bind == At("bind") /\ (BindRaw \/ BindAddressed)

\* The raw handle looks the interface up once more to remember its index.
RecordIndex ==
  /\ At("record")
  /\ IF ifindex # Absent
     THEN /\ handles' = handles \cup {Handle("raw", call.fd, ifindex)}
          /\ call' = NoCall
          /\ UNCHANGED <<kernel, open_fds, bound>>
     ELSE Fail

\* Drop
DropHandle ==
  /\ At("idle")
  /\ \E h \in handles :
       /\ handles' = handles \ {h}
       /\ open_fds' = open_fds \ {h.fd}
  /\ UNCHANGED <<kernel, bound, call>>

-----------------------------------------------------------------------------
(* The kernel's side: the interface goes, and comes back under a new index. *)
InterfaceRemoved ==
  /\ fresh <= MaxIndex
  /\ ifindex # Absent
  /\ ifindex' = Absent
  /\ UNCHANGED <<fresh, open_fds, bound, call, handles>>

InterfaceAdded ==
  /\ fresh <= MaxIndex
  /\ ifindex = Absent
  /\ ifindex' = fresh
  /\ fresh' = fresh + 1
  /\ UNCHANGED <<open_fds, bound, call, handles>>

Next ==
  \/ CreateSocket \/ SetFdFrames \/ Resolve \/ Bind \/ RecordIndex \/ DropHandle
  \/ InterfaceRemoved \/ InterfaceAdded

Spec == Init /\ [][Next]_vars

-----------------------------------------------------------------------------
HandleFds == {h.fd : h \in handles}
CallFds == IF At("idle") THEN {} ELSE {call.fd}

TypeOK ==
  /\ ifindex \in 0 .. MaxIndex
  /\ fresh \in 2 .. MaxIndex + 1
  /\ open_fds \subseteq Fds
  /\ bound \in [Fds -> 0 .. MaxIndex]
  /\ handles \subseteq [kind : Kinds, fd : Fds, ifindex : 0 .. MaxIndex]
  /\ At("idle") \/ (/\ call.kind \in Kinds /\ call.fd \in Fds
                    /\ call.index \in 0 .. MaxIndex
                    /\ call.pc \in {"setsockopt", "resolve", "bind", "record"})

Leaked == open_fds \ (HandleFds \cup CallFds)

(***************************************************************************)
(* Every open descriptor is owned, by a handle the caller holds or by the  *)
(* call in progress: `open` leaks none, whichever of its steps fails.  The *)
(* code does leak: an interface lookup that fails is not cleaned up after. *)
(***************************************************************************)
NoLeak == Leaked = {}

\* `open` looks the name up, outside bind_raw_socket, finds no interface and gives up.
LookupFails ==
  /\ (At("resolve") /\ call.kind # "raw") \/ At("record")
  /\ ifindex = Absent
  /\ call' = NoCall

LeaksAtLookup ==
  \/ Leaked' = Leaked
  \/ LookupFails /\ Leaked' = Leaked \cup {call.fd}

(***************************************************************************)
(* That is the only leak: a descriptor loses its owner in the lookup of an *)
(* ISO-TP or J1939 socket that fails, or in the second lookup of a raw     *)
(* one, and in no other step, neither on another error path, such as a     *)
(* bind that finds the interface gone, nor in Drop.  It is the descriptor  *)
(* of that call, and it stays out of reach of every later one.             *)
(***************************************************************************)
OnlyLookupsLeak == [][LeaksAtLookup]_vars

(***************************************************************************)
(* The handles and the call in progress own different descriptors, all of  *)
(* them open: no error path and no Drop closes a descriptor under a socket *)
(* that still uses it.                                                     *)
(***************************************************************************)
Exclusive ==
  /\ HandleFds \cup CallFds \subseteq open_fds
  /\ HandleFds \cap CallFds = {}
  /\ \A g, h \in handles : g.fd = h.fd => g = h

(***************************************************************************)
(* A handle the caller holds is bound to an interface.  RecordIndex asks   *)
(* again, and the name may have moved to a new interface since the bind:   *)
(* the index a raw handle stamps on its events is then that of the new     *)
(* one, but never that of one which had gone before the bind.              *)
(***************************************************************************)
HandlesAreBound ==
  \A h \in handles : /\ bound[h.fd] # Absent
                     /\ h.kind = "raw" => h.ifindex >= bound[h.fd]
=============================================================================
