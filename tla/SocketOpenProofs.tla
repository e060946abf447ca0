--------------------------- MODULE SocketOpenProofs ---------------------------
(***************************************************************************)
(* SocketOpen, for any descriptors, kinds of socket and interface indices: *)
(* its types, that no two sockets share a descriptor, that every handle is *)
(* bound, and that only a failed interface lookup leaks.                   *)
(***************************************************************************)
EXTENDS SocketOpen, TLAPS

Indices == 0 .. MaxIndex

\* What `call` is while `open` runs.
Calls ==
  [pc : {"setsockopt", "resolve", "bind", "record"},
   kind : Kinds, fd : Fds, index : Indices]

Handles == [kind : Kinds, fd : Fds, ifindex : Indices]

Types ==
  /\ ifindex \in Indices
  /\ fresh \in 2 .. MaxIndex + 1
  /\ open_fds \subseteq Fds
  /\ bound \in [Fds -> Indices]
  /\ call = NoCall \/ call \in Calls
  /\ handles \subseteq Handles

\* Who owns what, handle by handle.
Owned ==
  /\ \A h \in handles : h.fd \in open_fds /\ bound[h.fd] # Absent
  /\ \A g, h \in handles : g.fd = h.fd => g = h
  /\ call \in Calls => /\ call.fd \in open_fds
                       /\ \A h \in handles : h.fd # call.fd

\* What the steps of `open` have achieved so far.
Reached ==
  call \in Calls => /\ call.pc = "bind" => call.index # Absent
                    /\ call.pc = "record" => call.kind = "raw" /\ bound[call.fd] # Absent

IInv == Types /\ Owned /\ Reached

-----------------------------------------------------------------------------
LEMMA IdleIsNoCall ==
  ASSUME Types
  PROVE  /\ At("idle") <=> call = NoCall
         /\ \A pc : pc # "idle" /\ At(pc) => call \in Calls
         /\ NoCall \notin Calls
BY DEF Types, At, NoCall, Calls

\* Closing the descriptor of a failed call takes it from nobody.
LEMMA CloseAndFailKeeps ==
  ASSUME IInv, call \in Calls, CloseAndFail
  PROVE  IInv'
<1>1. Types'
  BY DEF IInv, Types, CloseAndFail, kernel
<1>2. Owned'
  BY IdleIsNoCall DEF IInv, Owned, CloseAndFail, kernel
<1>3. Reached'
  BY <1>1, IdleIsNoCall DEF IInv, CloseAndFail, Reached
<1> QED
  BY <1>1, <1>2, <1>3 DEF IInv

LEMMA FailKeeps ==
  ASSUME IInv, call \in Calls, Fail
  PROVE  IInv'
<1>1. Types'
  BY DEF IInv, Types, Fail, kernel
<1>2. Owned'
  BY IdleIsNoCall DEF IInv, Owned, Fail
<1>3. Reached'
  BY IdleIsNoCall DEF IInv, Fail, Reached
<1> QED
  BY <1>1, <1>2, <1>3 DEF IInv

\* The call becomes a handle, which takes its descriptor over.
LEMMA HandOver ==
  ASSUME IInv, call \in Calls, NEW index \in Indices,
         bound' \in [Fds -> Indices], bound'[call.fd] # Absent,
         \A fd \in Fds \ {call.fd} : bound'[fd] = bound[fd],
         handles' = handles \cup {Handle(call.kind, call.fd, index)},
         call' = NoCall, UNCHANGED <<kernel, open_fds>>
  PROVE  IInv'
<1> DEFINE h0 == Handle(call.kind, call.fd, index)
<1>1. h0 \in Handles /\ h0.fd = call.fd
  BY DEF Handle, Handles, Calls
<1>2. Types'
  BY <1>1 DEF IInv, Types, kernel
<1>3. Owned'
  <2>1. \A h \in handles : h.fd \in Fds /\ h.fd # call.fd
    BY DEF IInv, Types, Owned, Handles
  <2>2. call' \notin Calls
    BY DEF NoCall, Calls
  <2> HIDE DEF h0
  <2>3. handles' = handles \cup {h0} /\ open_fds' = open_fds
    BY DEF h0
  <2> QED
    BY <1>1, <2>1, <2>2, <2>3 DEF IInv, Owned
<1>4. Reached'
  BY DEF Reached, NoCall, Calls
<1> QED
  BY <1>2, <1>3, <1>4 DEF IInv

-----------------------------------------------------------------------------
LEMMA StepKeeps ==
  ASSUME IInv, [Next]_vars
  PROVE  IInv'
<1> USE MaxIndexAssumption
<1>0. Types /\ Owned /\ Reached
  BY DEF IInv
<1>1. CASE CreateSocket
  <2>1. call = NoCall /\ handles' = handles /\ ifindex' = ifindex /\ fresh' = fresh
    BY <1>0, <1>1, IdleIsNoCall DEF CreateSocket, kernel
  <2>2. CASE UNCHANGED <<open_fds, bound, call>>
    BY <1>0, <2>1, <2>2 DEF IInv, Types, Owned, Reached
  <2>3. ASSUME NEW kind \in Kinds, NEW fd \in Fds \ open_fds,
               open_fds' = open_fds \cup {fd},
               bound' = [bound EXCEPT ![fd] = Absent],
               call' = [pc |-> IF kind = "raw" THEN "setsockopt" ELSE "resolve",
                        kind |-> kind, fd |-> fd, index |-> Absent]
        PROVE  IInv'
    <3>1. call' \in Calls /\ call'.fd = fd /\ call'.pc \in {"setsockopt", "resolve"}
      BY <2>3 DEF Calls, Indices, Absent
    <3>2. Types'
      BY <1>0, <2>1, <2>3, <3>1 DEF Types, Indices, Absent
    <3>3. \A h \in handles : h.fd \in open_fds /\ h.fd # fd /\ h.fd \in Fds
      BY <1>0 DEF Types, Owned
    <3>4. Owned'
      BY <1>0, <2>1, <2>3, <3>1, <3>3 DEF Types, Owned
    <3>5. Reached'
      BY <3>1 DEF Reached
    <3> QED
      BY <3>2, <3>4, <3>5 DEF IInv
  <2> QED
    BY <1>1, <2>2, <2>3 DEF CreateSocket
<1>2. CASE SetFdFrames
  <2>1. call \in Calls
    BY <1>0, <1>2, IdleIsNoCall DEF SetFdFrames
  <2>2. ASSUME call' = [call EXCEPT !.pc = "resolve"],
               UNCHANGED <<kernel, open_fds, bound, handles>>
        PROVE  IInv'
    <3>1. call' \in Calls /\ call'.fd = call.fd /\ call'.pc = "resolve"
      BY <2>1, <2>2 DEF Calls
    <3> QED
      BY <1>0, <2>1, <2>2, <3>1 DEF IInv, Types, Owned, Reached, kernel
  <2> QED
    BY <1>2, <2>1, <2>2, CloseAndFailKeeps DEF SetFdFrames
<1>3. CASE Resolve
  <2>1. call \in Calls
    BY <1>0, <1>3, IdleIsNoCall DEF Resolve
  <2>2. ASSUME ifindex # Absent, call' = [call EXCEPT !.pc = "bind", !.index = ifindex],
               UNCHANGED <<kernel, open_fds, bound, handles>>
        PROVE  IInv'
    <3>1. /\ call' \in Calls /\ call'.fd = call.fd
          /\ call'.pc = "bind" /\ call'.index = ifindex
      BY <1>0, <2>1, <2>2 DEF Calls, Types
    <3> QED
      BY <1>0, <2>1, <2>2, <3>1 DEF IInv, Types, Owned, Reached, kernel
  <2> QED
    BY <1>3, <2>1, <2>2, CloseAndFailKeeps, FailKeeps DEF Resolve
<1>4. CASE Bind
  <2>1. call \in Calls /\ call.index # Absent /\ call.index \in Indices
    BY <1>0, <1>4, IdleIsNoCall DEF Bind, Reached, At, Calls
  <2>2. ASSUME bound' = [bound EXCEPT ![call.fd] = call.index],
               UNCHANGED <<kernel, open_fds>>
        PROVE  /\ call.fd \in Fds /\ bound' \in [Fds -> Indices] /\ bound'[call.fd] # Absent
               /\ \A fd \in Fds \ {call.fd} : bound'[fd] = bound[fd]
    BY <1>0, <2>1, <2>2 DEF Types, Calls
  <2>3. ASSUME bound' = [bound EXCEPT ![call.fd] = call.index],
               UNCHANGED <<kernel, open_fds>>,
               call.kind = "raw", call' = [call EXCEPT !.pc = "record"], handles' = handles
        PROVE  IInv'
    <3>1. /\ call' \in Calls /\ call'.fd = call.fd /\ call'.kind = "raw"
          /\ call'.pc = "record"
      BY <2>1, <2>3 DEF Calls
    <3>2. Types'
      BY <1>0, <2>2, <2>3, <3>1 DEF Types, kernel
    <3>3. Owned'
      BY <1>0, <2>1, <2>2, <2>3, <3>1 DEF Types, Owned, Handles
    <3>4. Reached'
      BY <2>2, <2>3, <3>1 DEF Reached
    <3> QED
      BY <3>2, <3>3, <3>4 DEF IInv
  <2>4. ASSUME bound' = [bound EXCEPT ![call.fd] = call.index],
               UNCHANGED <<kernel, open_fds>>,
               call' = NoCall, handles' = handles \cup {Handle(call.kind, call.fd, Absent)}
        PROVE  IInv'
    <3>1. Absent \in Indices
      BY DEF Absent, Indices
    <3> QED
      BY <2>1, <2>2, <2>4, <3>1, HandOver
  <2> QED
    BY <1>4, <2>1, <2>3, <2>4, CloseAndFailKeeps
       DEF Bind, BindRaw, BindAddressed, KernelBinds
<1>5. CASE RecordIndex
  <2>1. call \in Calls /\ call.kind = "raw" /\ bound[call.fd] # Absent
    BY <1>0, <1>5, IdleIsNoCall DEF RecordIndex, Reached, At
  <2>2. ASSUME handles' = handles \cup {Handle("raw", call.fd, ifindex)},
               call' = NoCall, UNCHANGED <<kernel, open_fds, bound>>
        PROVE  IInv'
    <3>1. ifindex \in Indices /\ bound \in [Fds -> Indices]
      BY <1>0 DEF Types
    <3> QED
      BY <2>1, <2>2, <3>1, HandOver
  <2> QED
    BY <1>5, <2>1, <2>2, FailKeeps DEF RecordIndex
<1>6. CASE DropHandle
  <2>1. call = NoCall /\ UNCHANGED <<kernel, bound, call>>
    BY <1>0, <1>6, IdleIsNoCall DEF DropHandle
  <2>2. PICK h \in handles : handles' = handles \ {h} /\ open_fds' = open_fds \ {h.fd}
    BY <1>6 DEF DropHandle
  <2>3. Types'
    BY <1>0, <2>1, <2>2 DEF Types, kernel
  <2>4. call' \notin Calls
    BY <2>1 DEF NoCall, Calls
  <2>5. Owned'
    BY <1>0, <2>1, <2>2, <2>4 DEF Owned
  <2> QED
    BY <2>3, <2>4, <2>5 DEF IInv, Reached
<1>7. CASE InterfaceRemoved \/ InterfaceAdded
  BY <1>0, <1>7 DEF IInv, Types, Owned, Reached, InterfaceRemoved, InterfaceAdded,
                    Indices, Absent
<1>8. CASE UNCHANGED vars
  BY <1>0, <1>8 DEF IInv, Types, Owned, Reached, vars, kernel
<1> QED
  BY <1>1, <1>2, <1>3, <1>4, <1>5, <1>6, <1>7, <1>8 DEF Next

LEMMA Invariant == Spec => []IInv
<1>1. Init => IInv
  BY MaxIndexAssumption DEF Init, IInv, Types, Owned, Reached, Indices, Absent, NoCall, Calls
<1>2. IInv /\ [Next]_vars => IInv'
  BY StepKeeps
<1> QED
  BY <1>1, <1>2, PTL DEF Spec

-----------------------------------------------------------------------------
(***************************************************************************)
(* Type correctness: descriptors, bindings, handles and the call of `open` *)
(* in progress are what they should be.                                    *)
(***************************************************************************)
THEOREM TypeCorrect == Spec => []TypeOK
<1>1. IInv => TypeOK
  BY DEF IInv, Types, TypeOK, Indices, Handles, Calls, At, NoCall
<1> QED
  BY <1>1, Invariant, PTL

(***************************************************************************)
(* No descriptor has two owners, and none is closed under its owner.       *)
(***************************************************************************)
THEOREM NoSharing == Spec => []Exclusive
<1>1. IInv => Exclusive
  <2> SUFFICES ASSUME IInv PROVE Exclusive
    OBVIOUS
  <2>1. CASE call = NoCall
    BY <2>1 DEF IInv, Owned, Exclusive, HandleFds, CallFds, At, NoCall
  <2>2. CASE call \in Calls
    <3>1. CallFds = {call.fd}
      BY <2>2 DEF CallFds, At, Calls
    <3> QED
      BY <2>2, <3>1 DEF IInv, Owned, Exclusive, HandleFds
  <2> QED
    BY <2>1, <2>2 DEF IInv, Types
<1> QED
  BY <1>1, Invariant, PTL

(***************************************************************************)
(* Indices grow: the interface there is has the newest, and none has been  *)
(* used that the kernel has not handed out.  So what RecordIndex finds is  *)
(* not older than what the socket was bound to.                            *)
(***************************************************************************)
Newest ==
  /\ ifindex # Absent => ifindex = fresh - 1
  /\ \A fd \in Fds : bound[fd] < fresh
  /\ call \in Calls => call.index < fresh

Stamped == \A h \in handles : h.kind = "raw" => h.ifindex >= bound[h.fd]

LEMMA UnchangedStamps ==
  ASSUME Newest, Stamped, handles' \subseteq handles,
         call' \in Calls => call \in Calls /\ call'.index = call.index,
         UNCHANGED <<kernel, bound>>
  PROVE  Newest' /\ Stamped'
BY DEF Newest, Stamped, kernel

LEMMA StampStep ==
  ASSUME IInv, Newest, Stamped, [Next]_vars
  PROVE  Newest' /\ Stamped'
<1>0. Types /\ Owned /\ Reached /\ MaxIndex \in Nat
  BY MaxIndexAssumption DEF IInv
<1>01. ifindex \in Nat /\ fresh \in Nat /\ 0 < fresh /\ \A fd \in Fds : bound[fd] \in Nat
  BY <1>0 DEF Types, Indices
<1>02. NoCall \notin Calls
  BY <1>0, IdleIsNoCall
<1>1. CASE CreateSocket
  <2>1. handles' = handles /\ UNCHANGED kernel /\ call = NoCall
    BY <1>0, <1>1, IdleIsNoCall DEF CreateSocket
  <2>2. CASE UNCHANGED <<open_fds, bound, call>>
    BY <2>1, <2>2, UnchangedStamps
  <2>3. ASSUME NEW kind \in Kinds, NEW fd \in Fds \ open_fds,
               bound' = [bound EXCEPT ![fd] = Absent],
               call' = [pc |-> IF kind = "raw" THEN "setsockopt" ELSE "resolve",
                        kind |-> kind, fd |-> fd, index |-> Absent]
        PROVE  Newest' /\ Stamped'
    <3>1. Newest'
      BY <1>0, <1>01, <2>1, <2>3 DEF Newest, Types, kernel, Absent
    <3>2. \A h \in handles : h.fd # fd
      BY <1>0 DEF Owned
    <3>3. \A h \in handles : bound'[h.fd] = bound[h.fd]
      BY <1>0, <2>3, <3>2 DEF Types, Handles
    <3> QED
      BY <2>1, <3>1, <3>3 DEF Stamped
  <2> QED
    BY <1>1, <2>2, <2>3 DEF CreateSocket
<1>2. CASE CloseAndFail \/ Fail
  BY <1>2, <1>02, UnchangedStamps DEF CloseAndFail, Fail
<1>3. CASE SetFdFrames
  <2>1. call \in Calls
    BY <1>0, <1>3, IdleIsNoCall DEF SetFdFrames
  <2>2. CASE call' = [call EXCEPT !.pc = "resolve"] /\ UNCHANGED <<kernel, bound, handles>>
    <3>1. call'.index = call.index
      BY <2>1, <2>2 DEF Calls
    <3> QED
      BY <2>1, <2>2, <3>1, UnchangedStamps
  <2> QED
    BY <1>2, <1>3, <2>2 DEF SetFdFrames
<1>4. CASE Resolve
  <2>1. call \in Calls
    BY <1>0, <1>4, IdleIsNoCall DEF Resolve
  <2>2. CASE /\ ifindex # Absent /\ call' = [call EXCEPT !.pc = "bind", !.index = ifindex]
             /\ UNCHANGED <<kernel, bound, handles>>
    <3>1. call'.index = ifindex
      BY <2>1, <2>2 DEF Calls
    <3> QED
      BY <1>01, <2>2, <3>1 DEF Newest, Stamped, kernel
  <2> QED
    BY <1>2, <1>4, <2>2 DEF Resolve
<1>5. CASE Bind
  <2>1. call \in Calls /\ call.fd \in Fds /\ call.index \in Nat
    BY <1>0, <1>5, IdleIsNoCall DEF Bind, Calls, Indices
  <2>2. CASE /\ bound' = [bound EXCEPT ![call.fd] = call.index] /\ UNCHANGED kernel
             /\ \/ call' = [call EXCEPT !.pc = "record"] /\ handles' = handles
                \/ /\ call' = NoCall /\ call.kind # "raw"
                   /\ handles' = handles \cup {Handle(call.kind, call.fd, Absent)}
    <3>1. call' \in Calls => call'.index = call.index
      BY <1>02, <2>1, <2>2 DEF Calls
    <3>2. Newest'
      BY <1>0, <1>01, <2>1, <2>2, <3>1 DEF Newest, Types, kernel
    <3>3. \A h \in handles : bound'[h.fd] = bound[h.fd]
      BY <1>0, <2>1, <2>2 DEF Types, Owned, Handles
    <3> QED
      BY <2>2, <3>2, <3>3 DEF Stamped, Handle
  <2> QED
    BY <1>2, <1>5, <2>2 DEF Bind, BindRaw, BindAddressed, KernelBinds
<1>6. CASE RecordIndex
  <2>1. call \in Calls /\ call.fd \in Fds
    BY <1>0, <1>6, IdleIsNoCall DEF RecordIndex, Calls
  <2>2. CASE /\ ifindex # Absent /\ UNCHANGED <<kernel, bound>> /\ call' = NoCall
             /\ handles' = handles \cup {Handle("raw", call.fd, ifindex)}
    <3>1. ifindex >= bound[call.fd]
      BY <1>01, <2>1, <2>2 DEF Newest
    <3> QED
      BY <1>02, <2>2, <3>1 DEF Newest, Stamped, Handle, kernel
  <2> QED
    BY <1>2, <1>6, <2>2 DEF RecordIndex
<1>7. CASE DropHandle
  BY <1>7, UnchangedStamps DEF DropHandle
<1>8. CASE InterfaceRemoved \/ InterfaceAdded
  <2>1. call \in Calls => call.index \in Nat
    BY DEF Calls, Indices
  <2>2. CASE InterfaceRemoved
    BY <2>2 DEF InterfaceRemoved, Newest, Stamped
  <2>3. CASE InterfaceAdded
    BY <1>01, <2>1, <2>3 DEF InterfaceAdded, Newest, Stamped
  <2> QED
    BY <1>8, <2>2, <2>3
<1>9. CASE UNCHANGED vars
  BY <1>9, UnchangedStamps DEF vars, kernel
<1> QED
  BY <1>1, <1>3, <1>4, <1>5, <1>6, <1>7, <1>8, <1>9 DEF Next

(***************************************************************************)
(* A socket that `open` returned is bound to an interface, and a raw one   *)
(* does not stamp its events with an index from before the bind.           *)
(***************************************************************************)
THEOREM ReturnedSocketsAreBound == Spec => []HandlesAreBound
<1>1. Init => Newest /\ Stamped
  BY DEF Init, Newest, Stamped, Absent, NoCall, Calls
<1>2. IInv /\ Newest /\ Stamped /\ [Next]_vars => Newest' /\ Stamped'
  BY StampStep
<1>3. IInv /\ Stamped => HandlesAreBound
  BY DEF IInv, Owned, Stamped, HandlesAreBound
<1> QED
  BY <1>1, <1>2, <1>3, Invariant, PTL DEF Spec

-----------------------------------------------------------------------------
LEMMA CallFdsIs ==
  /\ call = NoCall => CallFds = {}
  /\ call \in Calls => CallFds = {call.fd}
BY DEF CallFds, At, NoCall, Calls

LEMMA CallFdsBecomes ==
  /\ call' = NoCall => CallFds' = {}
  /\ call' \in Calls => CallFds' = {call'.fd}
BY DEF CallFds, At, NoCall, Calls

\* A descriptor that is closed has had its only owner taken away with it.
LEMMA ClosingLeaksNothing ==
  ASSUME IInv, call \in Calls, CloseAndFail
  PROVE  Leaked' = Leaked
<1>1. CallFds = {call.fd} /\ CallFds' = {}
  BY CallFdsIs, CallFdsBecomes DEF CloseAndFail
<1>2. HandleFds' = HandleFds /\ call.fd \notin HandleFds
  BY DEF IInv, Owned, HandleFds, CloseAndFail
<1> QED
  BY <1>1, <1>2 DEF Leaked, CloseAndFail

\* The one way to lose a descriptor.
LEMMA FailingLeaksOne ==
  ASSUME IInv, call \in Calls, Fail
  PROVE  Leaked' = Leaked \cup {call.fd}
<1>1. CallFds = {call.fd} /\ CallFds' = {}
  BY CallFdsIs, CallFdsBecomes DEF Fail
<1>2. HandleFds' = HandleFds /\ call.fd \notin HandleFds /\ call.fd \in open_fds
  BY DEF IInv, Owned, HandleFds, Fail
<1> QED
  BY <1>1, <1>2 DEF Leaked, Fail

LEMMA HandingOverLeaksNothing ==
  ASSUME IInv, call \in Calls, NEW index,
         handles' = handles \cup {Handle(call.kind, call.fd, index)},
         call' = NoCall, open_fds' = open_fds
  PROVE  Leaked' = Leaked
<1>1. CallFds = {call.fd} /\ CallFds' = {}
  BY CallFdsIs, CallFdsBecomes
<1> DEFINE h0 == Handle(call.kind, call.fd, index)
<1>2. h0.fd = call.fd
  BY DEF Handle
<1> HIDE DEF h0
<1>3. handles' = handles \cup {h0}
  BY DEF h0
<1>4. HandleFds' = HandleFds \cup {call.fd}
  BY <1>2, <1>3 DEF HandleFds
<1> QED
  BY <1>1, <1>4 DEF Leaked

\* The call goes on with the descriptor it has.
LEMMA GoingOnLeaksNothing ==
  ASSUME call \in Calls, call' \in Calls, call'.fd = call.fd,
         UNCHANGED <<open_fds, handles>>
  PROVE  Leaked' = Leaked
<1>1. CallFds' = CallFds
  BY CallFdsIs, CallFdsBecomes
<1>2. HandleFds' = HandleFds
  BY DEF HandleFds
<1> QED
  BY <1>1, <1>2 DEF Leaked

LEMMA LeakStep ==
  ASSUME IInv, [Next]_vars
  PROVE  LeaksAtLookup
<1>0. Types /\ Owned /\ Reached /\ IInv'
  BY StepKeeps DEF IInv
<1>1. CASE CreateSocket
  <2>1. call = NoCall /\ HandleFds' = HandleFds
    BY <1>0, <1>1, IdleIsNoCall DEF CreateSocket, HandleFds
  <2>2. CASE UNCHANGED <<open_fds, bound, call>>
    BY <2>1, <2>2 DEF Leaked, LeaksAtLookup, CallFds, At
  <2>3. ASSUME NEW kind \in Kinds, NEW fd \in Fds \ open_fds,
               open_fds' = open_fds \cup {fd},
               call' = [pc |-> IF kind = "raw" THEN "setsockopt" ELSE "resolve",
                        kind |-> kind, fd |-> fd, index |-> Absent]
        PROVE  Leaked' = Leaked
    <3>1. CallFds = {} /\ CallFds' = {fd}
      BY <2>1, <2>3, CallFdsIs DEF CallFds, At
    <3> QED
      BY <2>1, <2>3, <3>1 DEF Leaked
  <2> QED
    BY <1>1, <2>2, <2>3 DEF CreateSocket, LeaksAtLookup
<1>2. CASE SetFdFrames
  <2>1. call \in Calls
    BY <1>0, <1>2, IdleIsNoCall DEF SetFdFrames
  <2>2. CASE CloseAndFail
    BY <2>1, <2>2, ClosingLeaksNothing DEF LeaksAtLookup
  <2>3. CASE call' = [call EXCEPT !.pc = "resolve"] /\ UNCHANGED <<open_fds, handles>>
    <3>1. call' \in Calls /\ call'.fd = call.fd
      BY <2>1, <2>3 DEF Calls
    <3> QED
      BY <2>1, <2>3, <3>1, GoingOnLeaksNothing DEF LeaksAtLookup
  <2> QED
    BY <1>2, <2>2, <2>3 DEF SetFdFrames, LeaksAtLookup
<1>3. CASE Resolve
  <2>1. call \in Calls
    BY <1>0, <1>3, IdleIsNoCall DEF Resolve
  <2>2. CASE CloseAndFail
    BY <2>1, <2>2, ClosingLeaksNothing DEF LeaksAtLookup
  <2>3. CASE ifindex = Absent /\ call.kind # "raw" /\ Fail
    BY <1>3, <2>1, <2>3, FailingLeaksOne DEF Resolve, Fail, LookupFails, LeaksAtLookup
  <2>4. CASE /\ call' = [call EXCEPT !.pc = "bind", !.index = ifindex]
             /\ UNCHANGED <<open_fds, handles>>
    <3>1. call' \in Calls /\ call'.fd = call.fd
      BY <1>0, <2>1, <2>4 DEF Calls, Types
    <3> QED
      BY <2>1, <2>4, <3>1, GoingOnLeaksNothing DEF LeaksAtLookup
  <2> QED
    BY <1>3, <2>2, <2>3, <2>4 DEF Resolve, LeaksAtLookup
<1>4. CASE Bind
  <2>1. call \in Calls
    BY <1>0, <1>4, IdleIsNoCall DEF Bind
  <2>2. CASE CloseAndFail
    BY <2>1, <2>2, ClosingLeaksNothing DEF LeaksAtLookup
  <2>3. CASE /\ call' = [call EXCEPT !.pc = "record"]
             /\ UNCHANGED <<open_fds, handles>>
    <3>1. call' \in Calls /\ call'.fd = call.fd
      BY <2>1, <2>3 DEF Calls
    <3> QED
      BY <2>1, <2>3, <3>1, GoingOnLeaksNothing DEF LeaksAtLookup
  <2>4. CASE /\ call' = NoCall /\ open_fds' = open_fds
             /\ handles' = handles \cup {Handle(call.kind, call.fd, Absent)}
    BY <2>1, <2>4, HandingOverLeaksNothing DEF LeaksAtLookup
  <2> QED
    BY <1>4, <2>2, <2>3, <2>4
       DEF Bind, BindRaw, BindAddressed, KernelBinds, LeaksAtLookup
<1>5. CASE RecordIndex
  <2>1. call \in Calls /\ call.kind = "raw"
    BY <1>0, <1>5, IdleIsNoCall DEF RecordIndex, Reached, At
  <2>2. CASE ifindex = Absent /\ Fail
    BY <1>5, <2>1, <2>2, FailingLeaksOne DEF RecordIndex, Fail, LookupFails, LeaksAtLookup
  <2>3. CASE /\ call' = NoCall /\ open_fds' = open_fds
             /\ handles' = handles \cup {Handle("raw", call.fd, ifindex)}
    BY <2>1, <2>3, HandingOverLeaksNothing DEF LeaksAtLookup
  <2> QED
    BY <1>5, <2>2, <2>3 DEF RecordIndex, LeaksAtLookup
<1>6. CASE DropHandle
  <2>1. CallFds = {} /\ CallFds' = {}
    BY <1>0, <1>6, IdleIsNoCall, CallFdsIs, CallFdsBecomes DEF DropHandle
  <2>2. PICK h \in handles : handles' = handles \ {h} /\ open_fds' = open_fds \ {h.fd}
    BY <1>6 DEF DropHandle
  <2>3. HandleFds' = HandleFds \ {h.fd} /\ h.fd \in HandleFds
    BY <1>0, <2>2 DEF Owned, HandleFds
  <2> QED
    BY <2>1, <2>2, <2>3 DEF Leaked, LeaksAtLookup
<1>7. CASE InterfaceRemoved \/ InterfaceAdded \/ UNCHANGED vars
  BY <1>7 DEF InterfaceRemoved, InterfaceAdded, vars, Leaked, HandleFds, CallFds, At,
                LeaksAtLookup
<1> QED
  BY <1>1, <1>2, <1>3, <1>4, <1>5, <1>6, <1>7 DEF Next

(***************************************************************************)
(* A descriptor is lost only in a lookup of the interface that fails, that *)
(* of an ISO-TP or J1939 socket or the second one of a raw socket: no      *)
(* other failure of open loses one, whether or not the interface is still  *)
(* there, and no Drop.                                                     *)
(***************************************************************************)
THEOREM LookupsAloneLeak == Spec => OnlyLookupsLeak
<1>1. IInv /\ [Next]_vars => [LeaksAtLookup]_vars
  BY LeakStep
<1> QED
  BY <1>1, Invariant, PTL DEF Spec, OnlyLookupsLeak
=============================================================================
