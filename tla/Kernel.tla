------------------------------- MODULE Kernel ------------------------------
(***************************************************************************)
(* kernel/kernel.go: a guest thread traps, the interrupt hook looks up the *)
(* handler of the system call, resets the errno, calls the handler and     *)
(* writes its result to the thread's register.                             *)
(*                                                                         *)
(* Kernel.err is one word for all threads, read by the embedding program   *)
(* after a call, and it is guarded by nothing.  NewKernel installs the     *)
(* hook and makes the maps of fcntl, futex and signal.  The hook finds the *)
(* kernel through the debugger that embeds it, and so no call is served    *)
(* before NewKernel has returned.  Close removes the hook and then drops   *)
(* the maps, while calls may be in progress.                               *)
(* What a handler does to its own component is in the other modules; here  *)
(* it is what the caller gets, a result, an errno, or a panic, and the map *)
(* it writes in before that.  System puts two of the handlers in place.    *)
(***************************************************************************)
EXTENDS Syscall

CONSTANT Thread   \* guest threads, each served by a goroutine

VARIABLES
  err,      \* k.err
  hooked,   \* the interrupt hook is installed
  maps,     \* components whose map exists: the others' is nil
  pc, nr,   \* per thread: control, and the number of the call it is in
  into,     \* per thread: the component in whose map its handler has written
  out,      \* per thread: what its last call came to
  alone     \* history: no other call has written err since the call began

vars == <<err, hooked, maps, pc, nr, into, out, alone>>

Idle == [silent |-> FALSE, out |-> Outcome("0", "value", "none")]

\* Mutant of Init: the map of one component is left out.
InitForgetful ==
  /\ err = "0" /\ hooked = TRUE /\ maps = Component \ {"signal"}
  /\ pc = [t \in Thread |-> "guest"] /\ nr = [t \in Thread |-> "none"]
  /\ into = [t \in Thread |-> "none"] /\ out = [t \in Thread |-> Idle]
  /\ alone = [t \in Thread |-> FALSE]

\* NewKernel, for the two architectures it knows: the hook, and sys.ctor().
Init ==
  /\ err = "0" /\ hooked = TRUE /\ maps = Component
  /\ pc = [t \in Thread |-> "guest"] /\ nr = [t \in Thread |-> "none"]
  /\ into = [t \in Thread |-> "none"] /\ out = [t \in Thread |-> Idle]
  /\ alone = [t \in Thread |-> FALSE]

(***************************************************************************)
(* Close.                                                                  *)
(***************************************************************************)
\* intrHook.Close() comes before anything else.
CloseHook ==
  /\ hooked
  /\ hooked' = FALSE
  /\ UNCHANGED <<err, maps, pc, nr, into, out, alone>>

\* Mutant of Dtor: the maps do not wait for the hook to go.
DtorHooked ==
  /\ maps # {}
  /\ maps' = IF "signal" \in maps THEN {"fcntl", "futex"}
             ELSE IF "futex" \in maps THEN {"fcntl"} ELSE {}
  /\ UNCHANGED <<err, hooked, pc, nr, into, out, alone>>

\* signal.dtor, then futex.dtor, then fcntl.dtor.
Dtor ==
  /\ ~hooked /\ maps # {}
  /\ maps' = IF "signal" \in maps THEN {"fcntl", "futex"}
             ELSE IF "futex" \in maps THEN {"fcntl"} ELSE {}
  /\ UNCHANGED <<err, hooked, pc, nr, into, out, alone>>

(***************************************************************************)
(* armIntr and arm64Intr.                                                  *)
(***************************************************************************)
SetErrno(t, e) ==
  /\ err' = e
  /\ alone' = [u \in Thread |-> IF u = t THEN alone[u] ELSE FALSE]

\* The registers are read and the handler is found.
Trap(t) ==
  /\ pc[t] = "guest" /\ hooked
  /\ \E n \in DOMAIN Get : nr' = [nr EXCEPT ![t] = n]
  /\ pc' = [pc EXCEPT ![t] = "found"]
  /\ out' = [out EXCEPT ![t] = Idle]
  /\ UNCHANGED <<err, hooked, maps, into, alone>>

\* Mutant of Reset: the errno of the last call stays.
ResetForgotten(t) ==
  /\ pc[t] = "found"
  /\ alone' = [alone EXCEPT ![t] = TRUE]
  /\ pc' = [pc EXCEPT ![t] = "handler"]
  /\ UNCHANGED <<err, hooked, maps, nr, into, out>>

\* dbg.SetErrno(0).
Reset(t) ==
  /\ pc[t] = "found"
  /\ err' = "0"
  /\ alone' = [u \in Thread |-> u = t]
  /\ pc' = [pc EXCEPT ![t] = "handler"]
  /\ UNCHANGED <<hooked, maps, nr, into, out>>

\* The handler writes in the map of its component, which panics if it is nil.
MapWrite(t) ==
  /\ pc[t] = "handler" /\ into[t] = "none"
  /\ \E o \in Get[nr[t]] :
       \/ /\ o.map \in maps
          /\ into' = [into EXCEPT ![t] = o.map] /\ UNCHANGED pc
       \/ /\ o.map \in Component \ maps
          /\ pc' = [pc EXCEPT ![t] = "nilMap"] /\ UNCHANGED into
  /\ UNCHANGED <<err, hooked, maps, nr, out, alone>>

\* The handler has its result and reports the errno, or it panics.
Handle(t) ==
  /\ pc[t] = "handler"
  /\ \E o \in Get[nr[t]] :
       /\ o.map = into[t]
       /\ out' = [out EXCEPT ![t] = [silent |-> nr[t] \in Silent, out |-> o]]
       /\ pc' = [pc EXCEPT ![t] = IF o.ret = "panic" THEN "panicked" ELSE "return"]
       /\ IF o.err = "0" THEN UNCHANGED <<err, alone>> ELSE SetErrno(t, o.err)
  /\ nr' = [nr EXCEPT ![t] = "none"] /\ into' = [into EXCEPT ![t] = "none"]
  /\ UNCHANGED <<hooked, maps>>

\* The result is in the register and the embedding program may look at both.
RegWrite(t) ==
  /\ pc[t] = "return"
  /\ pc' = [pc EXCEPT ![t] = "guest"]
  /\ UNCHANGED <<err, hooked, maps, nr, into, out, alone>>

Next ==
  \/ CloseHook \/ Dtor
  \/ \E t \in Thread : Trap(t) \/ Reset(t) \/ MapWrite(t) \/ Handle(t) \/ RegWrite(t)

Spec == Init /\ [][Next]_vars
-----------------------------------------------------------------------------
Outs == [silent : BOOLEAN, out : Outcomes]

\* The variables have their types.
TypeOK ==
  /\ err \in Errno /\ hooked \in BOOLEAN /\ maps \subseteq Component
  /\ pc \in [Thread -> {"guest", "found", "handler", "return", "panicked", "nilMap"}]
  /\ nr \in [Thread -> DOMAIN Get \cup {"none"}]
  /\ into \in [Thread -> Component \cup {"none"}] /\ out \in [Thread -> Outs]
  /\ alone \in [Thread -> BOOLEAN]

\* A caller can tell from Kernel.err whether its call failed, as long as no
\* other call has written it since: the errno left by the last call is gone, and
\* but for clock_gettime and F_GETFL there is an errno exactly when the result
\* is -1.  With calls of other threads in between it says nothing.
ErrnoTells ==
  \A t \in Thread : alone[t] /\ pc[t] \in {"return", "guest"} =>
    /\ err = out[t].out.err
    /\ ~out[t].silent => (err # "0" <=> out[t].out.ret = "-1")

\* A handler meets a nil map only in a call that Close has overtaken: the hook
\* is gone, and the map that the call was about to write in has been dropped.
NilMapOnlyInClose ==
  \A t \in Thread : pc[t] = "nilMap" =>
    ~hooked /\ \E o \in Get[nr[t]] : o.map \in Component \ maps
(***************************************************************************)
(* The inductive invariant.                                                *)
(***************************************************************************)
\* The maps are there as long as calls can begin, and go in turn.
LifeInv ==
  /\ hooked \/ "signal" \in maps => maps = Component
  /\ "futex" \in maps => "fcntl" \in maps

\* What a call in progress leaves in k.err while it is alone.
CallInv ==
  /\ \A t, u \in Thread : alone[t] /\ alone[u] => t = u
  /\ \A t \in Thread :
       /\ pc[t] \in {"found", "handler"} => nr[t] \in DOMAIN Get
       /\ alone[t] /\ pc[t] = "handler" => err = "0"

\* All that the hook relies on, and the properties above.
IndInv == TypeOK /\ LifeInv /\ CallInv /\ ErrnoTells /\ NilMapOnlyInClose

=============================================================================
