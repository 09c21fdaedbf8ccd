------------------------------- MODULE System ------------------------------
(***************************************************************************)
(* The kernel with two of its handlers in place: a guest thread traps, the *)
(* hook of kernel.go looks up futex or rt_sigaction, and the handler runs  *)
(* step by step as in Futex and Sigaction, on the state that NewKernel     *)
(* makes and Close takes away.  fcntl is here only as a map to be dropped. *)
(*                                                                         *)
(* Kernel takes a handler for one write in a map and one outcome. That it  *)
(* may is shown here: this specification implements Kernel.                *)
(***************************************************************************)
CONSTANTS
  Thread, Addr, Value, Mask, Count, Timed, Chan, BitChan, NoAddr, NoChan,
  Sig, Action, NoAction, NoCaller

VARIABLES
  err, hooked,             \* as in Kernel
  kpc, nr, out,            \* per thread: where the hook is, its call, the outcome
  alone,                   \* history, as in Kernel
  fcntlMap,                \* f.flags exists
  mem, live, awaits, bitAwaits, closed, readers, fpc, call, loc, ret, asleep,
  life, table, holder, step, sig, act, old, stored, heirs

futexVars == <<mem, live, awaits, bitAwaits, closed, readers, fpc, call, loc, ret, asleep>>
signalVars == <<life, table, holder, step, sig, act, old, stored, heirs>>
lifeVars == <<hooked, fcntlMap>>
callVars == <<err, kpc, nr, out, alone>>
sysVars == <<lifeVars, callVars, futexVars, signalVars>>

F == INSTANCE Futex WITH pc <- fpc
A == INSTANCE Sigaction WITH Caller <- Thread

Outcome(e, r, m) == [silent |-> FALSE, out |-> [err |-> e, ret |-> r, map |-> m]]
Idle == Outcome("0", "value", "none")

\* NewKernel has returned: nobody has the kernel, or runs guest code for it, before.
SysInit ==
  /\ err = "0" /\ hooked = TRUE /\ fcntlMap = TRUE
  /\ kpc = [t \in Thread |-> "guest"] /\ nr = [t \in Thread |-> "none"]
  /\ out = [t \in Thread |-> Idle] /\ alone = [t \in Thread |-> FALSE]
  /\ F!Init /\ A!ActInit

-----------------------------------------------------------------------------
(* Close *)

CloseHook ==
  /\ hooked /\ hooked' = FALSE
  /\ UNCHANGED <<fcntlMap, callVars, futexVars, signalVars>>

SignalDtor ==
  /\ ~hooked /\ A!DropTable
  /\ UNCHANGED <<lifeVars, callVars, futexVars>>

\* It waits for the lock, which a wake by bitset may hold.
FutexDtor ==
  /\ ~hooked /\ life = "dead" /\ F!Dtor
  /\ UNCHANGED <<lifeVars, callVars, signalVars>>

FcntlDtor ==
  /\ ~hooked /\ life = "dead" /\ ~live /\ fcntlMap
  /\ fcntlMap' = FALSE
  /\ UNCHANGED <<hooked, callVars, futexVars, signalVars>>

-----------------------------------------------------------------------------
(* armIntr and arm64Intr *)

HookAt(t, p) == kpc' = [kpc EXCEPT ![t] = p]

Trap(t) ==
  /\ kpc[t] = "guest" /\ hooked
  /\ \E n \in {"futex", "rt_sigaction"} : nr' = [nr EXCEPT ![t] = n]
  /\ HookAt(t, "found") /\ out' = [out EXCEPT ![t] = Idle]
  /\ UNCHANGED <<err, alone, lifeVars, futexVars, signalVars>>

Reset(t) ==
  /\ kpc[t] = "found" /\ HookAt(t, "handler")
  /\ err' = "0" /\ alone' = [u \in Thread |-> u = t]
  /\ UNCHANGED <<nr, out, lifeVars, futexVars, signalVars>>

\* The handler has returned, and the hook goes on with its result.
Returned(t, o) ==
  HookAt(t, "return") /\ out' = [out EXCEPT ![t] = o] /\ nr' = [nr EXCEPT ![t] = "none"]

RegWrite(t) ==
  /\ kpc[t] = "return" /\ HookAt(t, "guest") /\ ret' = [ret EXCEPT ![t] = "none"]
  /\ UNCHANGED <<err, nr, out, alone, lifeVars, signalVars>>
  /\ UNCHANGED <<mem, live, awaits, bitAwaits, closed, readers, fpc, call, loc, asleep>>

\* Mutant of SetErrno: what other threads have reported stays.
SetErrnoOnce(t, e) ==
  /\ err' = IF err = "0" THEN e ELSE err
  /\ alone' = [u \in Thread |-> IF u = t THEN alone[u] ELSE FALSE]

SetErrno(t, e) ==
  /\ err' = e
  /\ alone' = [u \in Thread |-> IF u = t THEN alone[u] ELSE FALSE]

-----------------------------------------------------------------------------
(* futex *)

FutexOut(r, m) == IF r = "ok" THEN Outcome("0", "value", m) ELSE Outcome(r, "-1", m)

\* After a step of the handler: an errno is set where the result is decided, before
\* the deferred delAwait, and then the handler returns.
FutexWent(t) ==
  LET m == IF fpc[t] = "leaving" THEN "futex" ELSE "none" IN
  /\ IF fpc'[t] = "user" THEN Returned(t, FutexOut(ret'[t], m))
     ELSE HookAt(t, "inside") /\ UNCHANGED <<out, nr>>
  /\ IF fpc'[t] \in {"user", "leaving"} /\ fpc[t] # "leaving" /\ ret'[t] # "ok"
     THEN SetErrno(t, ret'[t]) ELSE UNCHANGED <<err, alone>>
  /\ UNCHANGED <<lifeVars, signalVars>>

FutexCall(t) ==
  /\ kpc[t] = "handler" /\ nr[t] = "futex"
  /\ F!Wait(t) \/ F!WaitBitset(t) \/ F!Wake(t) \/ F!WakeBitset(t)
       \/ F!CmpRequeue(t) \/ F!Unsupported(t)
  /\ FutexWent(t)

\* The handler of t takes the step S of Futex.
FutexDoes(t, S) == kpc[t] = "inside" /\ nr[t] = "futex" /\ S /\ FutexWent(t)
FutexStep(t) == FutexDoes(t, F!Step(t))

\* Guest code stores to a futex word.
GuestStore(t) ==
  /\ kpc[t] = "guest" /\ \E a \in Addr, v \in Value : F!Store(t, a, v)
  /\ UNCHANGED <<lifeVars, callVars, signalVars>>

-----------------------------------------------------------------------------
(* rt_sigaction *)

\* The action is read from the guest, or EFAULT.
SigactionCall(t) ==
  /\ kpc[t] = "handler" /\ nr[t] = "rt_sigaction"
  /\ \/ A!Sigaction(t) /\ HookAt(t, "inside") /\ UNCHANGED <<err, nr, out, alone>>
     \/ /\ Returned(t, Outcome("EFAULT", "-1", "none")) /\ SetErrno(t, "EFAULT")
        /\ UNCHANGED signalVars
  /\ UNCHANGED <<lifeVars, futexVars>>

SigactionLock(t) == A!Lock(t) /\ UNCHANGED <<lifeVars, callVars, futexVars>>

SigactionStep(t) ==
  /\ \/ (A!Lookup(t) \/ A!Assign(t)) /\ UNCHANGED <<kpc, nr, out>>
     \/ A!Unlock(t) /\ Returned(t, Outcome("0", "value", "signal"))
  /\ UNCHANGED <<err, alone, lifeVars, futexVars>>

-----------------------------------------------------------------------------

SysNext ==
  \/ CloseHook \/ SignalDtor \/ FutexDtor \/ FcntlDtor
  \/ \E t \in Thread :
       \/ Trap(t) \/ Reset(t) \/ RegWrite(t) \/ GuestStore(t)
       \/ FutexCall(t) \/ FutexStep(t)
       \/ SigactionCall(t) \/ SigactionLock(t) \/ SigactionStep(t)

SysSpec == SysInit /\ [][SysNext]_sysVars

\* The hook and the handlers go on, with the fairness of Futex and of Sigaction,
\* and so does Close, which gets the lock of futex in the end. Nobody has to call it.
Proceeds(t) ==
  \/ Reset(t) \/ RegWrite(t) \/ FutexCall(t) \/ SigactionCall(t) \/ SigactionStep(t)
  \/ FutexDoes(t, F!Proceeds(t))
Acquires(t) == SigactionLock(t) \/ FutexDoes(t, F!Acquires(t))

SysFairSpec ==
  /\ SysSpec
  /\ SF_sysVars(SignalDtor \/ FutexDtor \/ FcntlDtor)
  /\ \A t \in Thread : WF_sysVars(Proceeds(t)) /\ SF_sysVars(Acquires(t))

-----------------------------------------------------------------------------
(* Properties *)

\* Where Kernel would say that the call of t is.
KernelPc(t) ==
  IF kpc[t] # "inside" THEN kpc[t]
  ELSE IF "panicked" \in {fpc[t], step[t]}
       THEN IF ret[t] \in {"sendOnClosed", "cmpRequeue"} THEN "panicked" ELSE "nilMap"
  ELSE IF fpc[t] = "leaving" THEN "return" ELSE "handler"

KernelNr(t) == IF KernelPc(t) \in {"found", "handler", "nilMap"} THEN nr[t] ELSE "none"

KernelInto(t) ==
  IF fpc[t] \in F!RegisteredPC \ {"leaving"} THEN "futex"
  ELSE IF step[t] = "unlock" THEN "signal" ELSE "none"

KernelOut(t) ==
  IF fpc[t] = "leaving" THEN FutexOut(ret[t], "futex")
  ELSE IF KernelPc(t) = "panicked" THEN Outcome("0", "panic", "none") ELSE out[t]

Maps == (IF fcntlMap THEN {"fcntl"} ELSE {}) \cup (IF live THEN {"futex"} ELSE {})
          \cup (IF life = "live" THEN {"signal"} ELSE {})

KernelPcs == [t \in Thread |-> KernelPc(t)]
KernelNrs == [t \in Thread |-> KernelNr(t)]
KernelIntos == [t \in Thread |-> KernelInto(t)]
KernelOuts == [t \in Thread |-> KernelOut(t)]

\* The handlers of futex and rt_sigaction, run in steps, with Close at any of
\* them, do nothing that Kernel does not say: they come to the outcomes in
\* its table, report them in its order, and meet nil maps where it says so. What is
\* shown about Kernel then holds with these handlers.
K == INSTANCE Kernel WITH
  maps <- Maps, pc <- KernelPcs, nr <- KernelNrs, into <- KernelIntos, out <- KernelOuts
ImplementsKernel == K!Spec

-----------------------------------------------------------------------------
(* The invariant that the implementation rests on. *)

SysTypeOK ==
  /\ hooked \in BOOLEAN /\ live \in BOOLEAN /\ fcntlMap \in BOOLEAN
  /\ life \in {"live", "dead"}
  /\ kpc \in [Thread -> {"guest", "found", "handler", "inside", "return"}]
  /\ nr \in [Thread -> {"none", "futex", "rt_sigaction"}]
  /\ out \in [Thread -> K!Outs]
  /\ fpc \in [Thread -> F!PC] /\ ret \in [Thread -> F!Result]
  /\ step \in [Thread -> {"guest", "lock", "lookup", "assign", "unlock", "panicked"}]

\* The maps go in the order of Close.
MapsInv ==
  /\ (hooked => life = "live") /\ (life = "live" => live) /\ (live => fcntlMap)

\* A thread is in one handler at most, the one whose number the hook has found, and
\* in none unless the hook has called it. A wait that is leaving has its result, and
\* nothing else has one but what the hook is about to write.
CallInv(t) ==
  /\ kpc[t] # "inside" => fpc[t] = "user" /\ step[t] = "guest"
  /\ kpc[t] = "inside" =>
       \/ nr[t] = "futex" /\ fpc[t] # "user" /\ step[t] = "guest"
       \/ nr[t] = "rt_sigaction" /\ fpc[t] = "user" /\ step[t] # "guest"
  /\ kpc[t] \in {"found", "handler"} => nr[t] # "none"
  /\ kpc[t] \in {"guest", "return"} => nr[t] = "none"
  /\ fpc[t] = "leaving" => ret[t] \in {"ok", "EFAULT", "ETIMEDOUT", "EPERM"}
  /\ fpc[t] = "panicked" => ret[t] \in {"nilMap", "sendOnClosed", "cmpRequeue"}
  /\ kpc[t] # "return" /\ fpc[t] = "user" => ret[t] = "none"

\* A thread is in one handler at most, the one that the hook has found for it, its
\* result is there exactly when the hook needs it, and the maps that the handlers
\* meet are dropped in the order of Close, at whatever step of the handlers that
\* happens.
SysInv == SysTypeOK /\ MapsInv /\ \A t \in Thread : CallInv(t)

-----------------------------------------------------------------------------

\* Once Close has begun it ends, and all calls in progress end with it or panic,
\* whether they sleep in futex, are about to, wake others or wait for a lock: but
\* for a call of rt_sigaction behind a lock that a panic has left held.
CloseDrains ==
  ~hooked ~>
    /\ Maps = {}
    /\ \A t \in Thread :
         \/ KernelPc(t) \in {"guest", "panicked", "nilMap"}
         \/ step[t] = "lock" /\ \E u \in Thread : holder = u /\ step[u] = "panicked"
=============================================================================
