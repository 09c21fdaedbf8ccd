----------------------------- MODULE SystemProofs ---------------------------
(***************************************************************************)
(* The kernel with its handlers in place implements Kernel: what the steps *)
(* of Futex do to the control of a thread, one lemma per step of System    *)
(* for the invariant and one for the step of Kernel that it is, and the    *)
(* refinement.                                                             *)
(***************************************************************************)
EXTENDS System, TLAPS

-----------------------------------------------------------------------------
(* What a step of the futex handler does to pc and ret. *)

Sleeping == {"registered", "parked", "recheck"}
Waking == {"gotAwait", "waking", "bitPick", "bitSend"}
WaitResult == {"ok", "EFAULT", "ETIMEDOUT", "EPERM"}

\* u goes on from a place in S to p, and has a result or none.
Goes(u, S, p) ==
  /\ fpc[u] \in S /\ fpc' = [fpc EXCEPT ![u] = p]
  /\ ret' = ret /\ live' = live
Ends(u, S, p, r) ==
  /\ fpc[u] \in S /\ fpc' = [fpc EXCEPT ![u] = p]
  /\ ret' = [ret EXCEPT ![u] = r] /\ live' = live

\* The wait of u goes round in its loop, or has its result.
Turns(u) == \E p \in Sleeping : Goes(u, Sleeping, p)
Leaves(u) == \E r \in WaitResult : Ends(u, Sleeping, "leaving", r)

\* The steps of a wait.
WaitKind(t) ==
  \/ Ends(t, {"checked"}, "user", "EFAULT")
  \/ live /\ Goes(t, {"checked"}, "registered")
  \/ ~live /\ Ends(t, {"checked"}, "panicked", "nilMap")
  \/ Turns(t) \/ Leaves(t)
  \/ Ends(t, {"leaving"}, "user", ret[t])

\* The steps of a wake.
WakeKind(t) ==
  \/ \E p \in Waking : Goes(t, Waking, p)
  \/ \E r \in {"ok", "EFAULT"} : Ends(t, Waking, "user", r)
  \/ Ends(t, Waking, "panicked", "sendOnClosed")
  \/ fpc[t] \in Waking /\ \E w \in Thread : Turns(w) \/ Ends(w, Sleeping, "leaving", "ok")

CallKind(t) ==
  \/ \E r \in {"ok", "EFAULT", "EAGAIN", "ENOSYS"} : Ends(t, {"user"}, "user", r)
  \/ \E p \in {"checked", "gotAwait", "bitPick"} : Ends(t, {"user"}, p, "none")
  \/ Ends(t, {"user"}, "panicked", "cmpRequeue")

\* Every step of a wait in Futex is of its kind.
LEMMA WaitSteps ==
  ASSUME NEW t \in Thread
  PROVE  /\ F!TimerFault(t) => WaitKind(t)
         /\ F!AddAwait(t) => WaitKind(t)
         /\ F!AddBitAwait(t) => WaitKind(t)
         /\ F!AddNilMap(t) => WaitKind(t)
         /\ F!Park(t) => WaitKind(t)
         /\ F!SelectTimeout(t) => WaitKind(t)
         /\ F!SelectClosed(t) => WaitKind(t)
         /\ F!SelectBitClosed(t) => WaitKind(t)
         /\ F!Recheck(t) => WaitKind(t)
         /\ F!DelAwait(t) => WaitKind(t)
<1>1. F!TimerFault(t) => Ends(t, {"checked"}, "user", "EFAULT")
  BY Zenon DEF F!TimerFault, F!Return, F!maps, Ends
<1>2. F!AddAwait(t) => live /\ Goes(t, {"checked"}, "registered")
  BY Zenon DEF F!AddAwait, Goes
<1>3. F!AddBitAwait(t) => live /\ Goes(t, {"checked"}, "registered")
  BY Zenon DEF F!AddBitAwait, Goes
<1>4. F!AddNilMap(t) => ~live /\ Ends(t, {"checked"}, "panicked", "nilMap")
  BY Zenon DEF F!AddNilMap, F!Panic, F!maps, Ends
<1>5. F!Park(t) => Goes(t, Sleeping, "parked") BY Zenon DEF F!Park, F!maps, Goes, Sleeping
<1>6. F!SelectTimeout(t) => Ends(t, Sleeping, "leaving", "ETIMEDOUT")
  BY Zenon DEF F!SelectTimeout, F!Leave, F!maps, Ends, Sleeping
<1>7. F!SelectClosed(t) => Ends(t, Sleeping, "leaving", "EPERM")
  BY Zenon DEF F!SelectClosed, F!Leave, F!maps, Ends, Sleeping
<1>8. F!SelectBitClosed(t) => Goes(t, Sleeping, "recheck")
  BY Zenon DEF F!SelectBitClosed, F!maps, Goes, Sleeping
<1>9. F!Recheck(t) => \/ Ends(t, Sleeping, "leaving", "EFAULT")
                      \/ Ends(t, Sleeping, "leaving", "ok")
                      \/ Goes(t, Sleeping, "registered")
  BY Zenon DEF F!Recheck, F!Leave, F!maps, Goes, Ends, Sleeping
<1>10. F!DelAwait(t) => Ends(t, {"leaving"}, "user", ret[t])
  BY Zenon DEF F!DelAwait, F!Return, Ends
<1>11. \A p \in Sleeping : Goes(t, Sleeping, p) => WaitKind(t) BY Zenon DEF WaitKind, Turns
<1>12. \A r \in WaitResult : Ends(t, Sleeping, "leaving", r) => WaitKind(t)
  BY Zenon DEF WaitKind, Leaves
<1>13. "parked" \in Sleeping /\ "recheck" \in Sleeping /\ "registered" \in Sleeping
  BY DEF Sleeping
<1>14. "ok" \in WaitResult /\ "EFAULT" \in WaitResult /\ "ETIMEDOUT" \in WaitResult
       /\ "EPERM" \in WaitResult BY DEF WaitResult
<1>15. F!TimerFault(t) \/ F!AddAwait(t) \/ F!AddBitAwait(t) \/ F!AddNilMap(t)
         \/ F!DelAwait(t) => WaitKind(t)
  BY <1>1, <1>2, <1>3, <1>4, <1>10, Zenon DEF WaitKind
<1> QED BY <1>5, <1>6, <1>7, <1>8, <1>9, <1>11, <1>12, <1>13, <1>14, <1>15, Zenon

\* Every step of a wake in Futex is of its kind.
LEMMA WakeSteps ==
  ASSUME NEW t \in Thread
  PROVE  /\ F!WakeRead(t) => WakeKind(t)
         /\ F!WakeDone(t) => WakeKind(t)
         /\ F!WakePanic(t) => WakeKind(t)
         /\ F!BitPick(t) => WakeKind(t)
         /\ F!BitNext(t) => WakeKind(t)
         /\ \A w \in Thread : F!WakeSend(t, w) \/ F!BitSend(t, w) => WakeKind(t)
<1>1. F!WakeRead(t) => Ends(t, Waking, "user", "EFAULT") \/ Goes(t, Waking, "waking")
  BY Zenon DEF F!WakeRead, F!Return, F!maps, Ends, Goes, Waking
<1>2. F!WakeDone(t) => Ends(t, Waking, "user", "ok")
  BY Zenon DEF F!WakeDone, F!Return, F!maps, Ends, Waking
<1>3. F!WakePanic(t) => Ends(t, Waking, "panicked", "sendOnClosed")
  BY Zenon DEF F!WakePanic, F!Panic, F!maps, Ends, Waking
<1>4. F!BitPick(t) => Ends(t, Waking, "user", "ok") \/ Goes(t, Waking, "bitSend")
  BY Zenon DEF F!BitPick, F!Return, F!maps, Ends, Goes, Waking
<1>5. F!BitNext(t) => Ends(t, Waking, "user", "ok") \/ Goes(t, Waking, "bitPick")
  BY Zenon DEF F!BitNext, F!Return, F!maps, Ends, Goes, Waking
<1>6. ASSUME NEW w \in Thread, F!WakeSend(t, w)
      PROVE  fpc[t] \in Waking /\ (Ends(w, Sleeping, "leaving", "ok") \/ Goes(w, Sleeping, "registered"))
  BY <1>6, Zenon DEF F!WakeSend, F!ParkedOn, F!maps, Ends, Goes, Waking, Sleeping
<1>7. ASSUME NEW w \in Thread, F!BitSend(t, w)
      PROVE  fpc[t] \in Waking /\ Goes(w, Sleeping, "recheck")
  BY <1>7, Zenon DEF F!BitSend, F!ParkedOnBit, F!maps, Goes, Waking, Sleeping
<1>8. /\ "waking" \in Waking /\ "bitSend" \in Waking /\ "bitPick" \in Waking
      /\ "recheck" \in Sleeping /\ "registered" \in Sleeping
  BY DEF Waking, Sleeping
<1>9. \A w \in Thread : F!WakeSend(t, w) \/ F!BitSend(t, w) => WakeKind(t)
  BY <1>6, <1>7, <1>8, Zenon DEF WakeKind, Turns
<1> QED BY <1>1, <1>2, <1>3, <1>4, <1>5, <1>8, <1>9, Zenon DEF WakeKind

\* Every way in which futex begins is of its kind.
LEMMA CallSteps ==
  ASSUME NEW t \in Thread,
         F!Wait(t) \/ F!WaitBitset(t) \/ F!Wake(t) \/ F!WakeBitset(t)
           \/ F!CmpRequeue(t) \/ F!Unsupported(t)
  PROVE  CallKind(t)
<1>1. ASSUME NEW c, F!WaitCheck(t, c) PROVE CallKind(t)
  <2>1. \/ Ends(t, {"user"}, "user", "EFAULT") \/ Ends(t, {"user"}, "user", "EAGAIN")
        \/ Ends(t, {"user"}, "checked", "none")
    BY <1>1, Zenon DEF F!WaitCheck, F!Return, F!maps, Ends
  <2> QED BY <2>1, Zenon DEF CallKind
<1>2. CASE F!Wait(t) BY <1>1, <1>2, Zenon DEF F!Wait
<1>3. CASE F!WaitBitset(t) BY <1>1, <1>3, Zenon DEF F!WaitBitset
<1>4. CASE F!Wake(t)
  <2>1. Ends(t, {"user"}, "user", "ok") \/ Ends(t, {"user"}, "gotAwait", "none")
    BY <1>4, Zenon DEF F!Wake, F!Return, F!maps, Ends
  <2> QED BY <2>1, Zenon DEF CallKind
<1>5. CASE F!WakeBitset(t)
  <2>1. Ends(t, {"user"}, "bitPick", "none") BY <1>5, Zenon DEF F!WakeBitset, F!maps, Ends
  <2> QED BY <2>1, Zenon DEF CallKind
<1>6. CASE F!CmpRequeue(t)
  BY <1>6, Zenon DEF F!CmpRequeue, F!Panic, F!maps, Ends, CallKind
<1>7. CASE F!Unsupported(t)
  <2>1. Ends(t, {"user"}, "user", "ENOSYS")
    BY <1>7, Zenon DEF F!Unsupported, F!Return, F!maps, Ends
  <2> QED BY <2>1, Zenon DEF CallKind
<1> QED BY <1>2, <1>3, <1>4, <1>5, <1>6, <1>7, Zenon
-----------------------------------------------------------------------------
(* Threads that take no part in a step. *)

Same(u) ==
  /\ kpc'[u] = kpc[u] /\ nr'[u] = nr[u] /\ out'[u] = out[u]
  /\ fpc'[u] = fpc[u] /\ ret'[u] = ret[u] /\ step'[u] = step[u]

\* Kernel sees the thread where it was.
Unseen(u) ==
  /\ KernelPc(u)' = KernelPc(u) /\ KernelNr(u)' = KernelNr(u)
  /\ KernelInto(u)' = KernelInto(u) /\ KernelOut(u)' = KernelOut(u)

\* A thread whose variables stay is not seen to move, and keeps its invariant.
LEMMA SameUnseen ==
  ASSUME NEW u \in Thread, Same(u)
  PROVE  Unseen(u) /\ (CallInv(u) => CallInv(u)')
<1>1. KernelPc(u)' = KernelPc(u) BY Zenon DEF Same, KernelPc
<1>2. KernelNr(u)' = KernelNr(u) BY <1>1, Zenon DEF Same, KernelNr
<1>3. KernelInto(u)' = KernelInto(u) BY Zenon DEF Same, KernelInto
<1>4. KernelOut(u)' = KernelOut(u) BY <1>1, Zenon DEF Same, KernelOut, FutexOut, Outcome
<1>5. CallInv(u) => CallInv(u)' BY Zenon DEF Same, CallInv
<1> QED BY <1>1, <1>2, <1>3, <1>4, <1>5, Zenon DEF Unseen

\* If only t is seen to move, the mapped functions change at t alone.
LEMMA Frame ==
  ASSUME NEW t \in Thread, \A u \in Thread \ {t} : Unseen(u)
  PROVE  /\ KernelPcs' = [KernelPcs EXCEPT ![t] = KernelPc(t)']
         /\ KernelNrs' = [KernelNrs EXCEPT ![t] = KernelNr(t)']
         /\ KernelIntos' = [KernelIntos EXCEPT ![t] = KernelInto(t)']
         /\ KernelOuts' = [KernelOuts EXCEPT ![t] = KernelOut(t)']
  BY Zenon DEF Unseen, KernelPcs, KernelNrs, KernelIntos, KernelOuts

\* If nobody is seen to move, the mapped functions stay.
LEMMA AllUnseen ==
  ASSUME \A u \in Thread : Unseen(u)
  PROVE  /\ KernelPcs' = KernelPcs /\ KernelNrs' = KernelNrs
         /\ KernelIntos' = KernelIntos /\ KernelOuts' = KernelOuts
  BY Zenon DEF Unseen, KernelPcs, KernelNrs, KernelIntos, KernelOuts

-----------------------------------------------------------------------------
(* The outcomes of the handlers are in the table of Kernel. *)

FutexResult == {"ok", "EFAULT", "EAGAIN", "ENOSYS"}

\* Both system calls are in the table of Kernel, and report what they come to.
LEMMA Table ==
  /\ {"futex", "rt_sigaction"} \subseteq DOMAIN K!Get
  /\ K!Get["futex"] = K!futex /\ K!Get["rt_sigaction"] = K!rt_sigaction
  /\ "futex" \notin K!Silent /\ "rt_sigaction" \notin K!Silent
  BY ZenonT(30) DEF K!Get, K!Silent

\* What futex comes to is among the outcomes that the table lists for it.
LEMMA FutexTable ==
  /\ \A r \in FutexResult : FutexOut(r, "none").out \in K!futex
  /\ \A r \in WaitResult : FutexOut(r, "futex").out \in K!futex
  /\ Outcome("0", "panic", "none").out \in K!futex
<1>1. \A e, r, m : Outcome(e, r, m).out = K!Outcome(e, r, m) BY Zenon DEF Outcome, K!Outcome
<1>2. /\ \A e \in {"EFAULT", "EAGAIN", "ENOSYS"} : K!Outcome(e, "-1", "none") \in K!futex
      /\ \A e \in {"EFAULT", "ETIMEDOUT", "EPERM"} : K!Outcome(e, "-1", "futex") \in K!futex
      /\ K!Outcome("0", "value", "none") \in K!futex
      /\ K!Outcome("0", "value", "futex") \in K!futex
      /\ K!Outcome("0", "panic", "none") \in K!futex
  BY Zenon DEF K!futex, K!Fails, K!Succeeds, K!Writes, K!Panics
<1> QED BY <1>1, <1>2, Zenon DEF FutexOut, FutexResult, WaitResult

\* What rt_sigaction comes to is among the outcomes that the table lists for it.
LEMMA SignalTable ==
  /\ Outcome("EFAULT", "-1", "none").out \in K!rt_sigaction
  /\ Outcome("0", "value", "signal").out \in K!rt_sigaction
  BY Zenon DEF Outcome, K!Outcome, K!rt_sigaction, K!Fails, K!Writes

\* An outcome has its parts, and its type.
LEMMA OutParts ==
  ASSUME NEW e, NEW r, NEW m
  PROVE  /\ Outcome(e, r, m) = [silent |-> FALSE, out |-> Outcome(e, r, m).out]
         /\ Outcome(e, r, m).out.err = e /\ Outcome(e, r, m).out.ret = r
         /\ Outcome(e, r, m).out.map = m
         /\ e \in K!Errno /\ r \in {"-1", "value", "panic"} /\ m \in K!Component \cup {"none"}
              => Outcome(e, r, m) \in K!Outs
  BY Zenon DEF Outcome, K!Outs, K!Outcomes

\* The outcome of futex, by its parts.
LEMMA FutexOutParts ==
  ASSUME NEW r \in FutexResult \cup WaitResult, NEW m \in {"none", "futex"}
  PROVE  /\ FutexOut(r, m) = [silent |-> FALSE, out |-> FutexOut(r, m).out]
         /\ FutexOut(r, m).out.err = (IF r = "ok" THEN "0" ELSE r)
         /\ FutexOut(r, m).out.ret # "panic" /\ FutexOut(r, m).out.map = m
         /\ FutexOut(r, m) \in K!Outs /\ r # "0"
<1>1. r # "0" /\ m \in K!Component \cup {"none"} BY Zenon DEF FutexResult, WaitResult, K!Component
<1>2. CASE r = "ok"
  <2>1. "0" \in K!Errno BY Zenon DEF K!Errno
  <2>2. FutexOut(r, m) = Outcome("0", "value", m) BY <1>2, Zenon DEF FutexOut
  <2>3. /\ Outcome("0", "value", m) = [silent |-> FALSE, out |-> Outcome("0", "value", m).out]
        /\ Outcome("0", "value", m).out.err = "0" /\ Outcome("0", "value", m).out.ret # "panic"
        /\ Outcome("0", "value", m).out.map = m /\ Outcome("0", "value", m) \in K!Outs
    BY <1>1, <2>1, Zenon DEF Outcome, K!Outs, K!Outcomes
  <2> QED BY <1>1, <1>2, <2>2, <2>3, Zenon
<1>3. CASE r # "ok"
  <2>1. r \in K!Errno BY <1>3, Zenon DEF FutexResult, WaitResult, K!Errno
  <2>2. FutexOut(r, m) = Outcome(r, "-1", m) BY <1>3, Zenon DEF FutexOut
  <2>3. /\ Outcome(r, "-1", m) = [silent |-> FALSE, out |-> Outcome(r, "-1", m).out]
        /\ Outcome(r, "-1", m).out.err = r /\ Outcome(r, "-1", m).out.ret # "panic"
        /\ Outcome(r, "-1", m).out.map = m /\ Outcome(r, "-1", m) \in K!Outs
    BY <1>1, <2>1, Zenon DEF Outcome, K!Outs, K!Outcomes
  <2> QED BY <1>1, <1>3, <2>2, <2>3, Zenon
<1> QED BY <1>2, <1>3, Zenon

-----------------------------------------------------------------------------
(* Steps of Kernel, from what they do to the thread t. *)

\* Writing in the functions of Kernel what they hold.
LEMMA KernelSame ==
  ASSUME NEW t \in Thread
  PROVE  /\ KernelPcs[t] = KernelPc(t) /\ KernelNrs[t] = KernelNr(t) /\ KernelIntos[t] = KernelInto(t)
         /\ [KernelPcs EXCEPT ![t] = KernelPc(t)] = KernelPcs
         /\ [KernelNrs EXCEPT ![t] = KernelNr(t)] = KernelNrs
         /\ [KernelOuts EXCEPT ![t] = KernelOut(t)] = KernelOuts
         /\ [KernelIntos EXCEPT ![t] = KernelInto(t)] = KernelIntos
<1>1. KernelPcs[t] = KernelPc(t) /\ KernelNrs[t] = KernelNr(t) /\ KernelIntos[t] = KernelInto(t)
  BY Zenon DEF KernelPcs, KernelNrs, KernelIntos
<1>2. [KernelNrs EXCEPT ![t] = KernelNr(t)] = KernelNrs BY DEF KernelNrs
<1>3. [KernelOuts EXCEPT ![t] = KernelOut(t)] = KernelOuts BY DEF KernelOuts
<1>4. [KernelIntos EXCEPT ![t] = KernelInto(t)] = KernelIntos BY DEF KernelIntos
<1>5. [KernelPcs EXCEPT ![t] = KernelPc(t)] = KernelPcs BY DEF KernelPcs
<1> QED BY <1>1, <1>2, <1>3, <1>4, <1>5, Zenon

\* A call that comes to an outcome of its table takes the step Handle of Kernel.
LEMMA Handles ==
  ASSUME NEW t \in Thread, NEW o,
         \A u \in Thread \ {t} : Unseen(u),
         KernelPc(t) = "handler", KernelNr(t) \in {"futex", "rt_sigaction"},
         o \in K!Get[KernelNr(t)], o.map = KernelInto(t),
         KernelPc(t)' = IF o.ret = "panic" THEN "panicked" ELSE "return",
         KernelNr(t)' = "none", KernelInto(t)' = "none",
         KernelOut(t)' = [silent |-> FALSE, out |-> o],
         IF o.err = "0" THEN UNCHANGED <<err, alone>> ELSE SetErrno(t, o.err),
         UNCHANGED <<hooked, Maps>>
  PROVE  K!Next
<1>1. /\ KernelPcs[t] = KernelPc(t) /\ KernelNrs[t] = KernelNr(t) /\ KernelIntos[t] = KernelInto(t)
  BY KernelSame, Zenon
<1>2. IF o.err = "0" THEN UNCHANGED <<err, alone>> ELSE K!SetErrno(t, o.err)
  BY Zenon DEF SetErrno, K!SetErrno
<1>3. (KernelNrs[t] \in K!Silent) = FALSE BY <1>1, Table
<1>4. K!Handle(t) BY <1>1, <1>2, <1>3, Frame, Zenon DEF K!Handle
<1> QED BY <1>4, Zenon DEF K!Next

\* A call that gets into its map, or panics there, takes the step MapWrite of Kernel.
LEMMA WritesMap ==
  ASSUME NEW t \in Thread, NEW o,
         \A u \in Thread \ {t} : Unseen(u),
         KernelPc(t) = "handler", KernelNr(t) \in {"futex", "rt_sigaction"},
         KernelInto(t) = "none", o \in K!Get[KernelNr(t)], o.map \in K!Component,
         KernelNr(t)' = KernelNr(t), KernelOut(t)' = KernelOut(t),
         \/ o.map \in Maps /\ KernelInto(t)' = o.map /\ KernelPc(t)' = KernelPc(t)
         \/ o.map \notin Maps /\ KernelInto(t)' = KernelInto(t) /\ KernelPc(t)' = "nilMap",
         UNCHANGED <<err, hooked, Maps, alone>>
  PROVE  K!Next
<1>1. /\ KernelPcs[t] = KernelPc(t) /\ KernelNrs[t] = KernelNr(t) /\ KernelIntos[t] = KernelInto(t)
  BY KernelSame, Zenon
<1>2. /\ KernelPcs' = [KernelPcs EXCEPT ![t] = KernelPc(t)']
      /\ KernelIntos' = [KernelIntos EXCEPT ![t] = KernelInto(t)']
      /\ KernelNrs' = [KernelNrs EXCEPT ![t] = KernelNr(t)]
      /\ KernelOuts' = [KernelOuts EXCEPT ![t] = KernelOut(t)]
  BY Frame, Zenon
<1>3. KernelNrs' = KernelNrs /\ KernelOuts' = KernelOuts BY <1>2, KernelSame, Zenon
<1>4. CASE o.map \in Maps
  <2>1. KernelIntos' = [KernelIntos EXCEPT ![t] = o.map] BY <1>2, <1>4, Zenon
  <2>2. KernelPcs' = KernelPcs BY <1>2, <1>4, KernelSame, Zenon
  <2> QED BY <1>1, <1>3, <1>4, <2>1, <2>2, Zenon DEF K!MapWrite, K!Next
<1>5. CASE o.map \notin Maps
  <2>1. KernelPcs' = [KernelPcs EXCEPT ![t] = "nilMap"] BY <1>2, <1>5, Zenon
  <2>2. KernelIntos' = KernelIntos BY <1>2, <1>5, KernelSame, Zenon
  <2> QED BY <1>1, <1>3, <1>5, <2>1, <2>2, Zenon DEF K!MapWrite, K!Next
<1> QED BY <1>4, <1>5, Zenon

\* A step that nobody is seen to take is a stutter of Kernel.
LEMMA Stutters ==
  ASSUME \A u \in Thread : Unseen(u), UNCHANGED <<err, hooked, Maps, alone>>
  PROVE  UNCHANGED K!vars
  BY AllUnseen, Zenon DEF K!vars

-----------------------------------------------------------------------------
(* The invariant is kept and the step is one of Kernel, or none. *)

Advances == SysInv' /\ (K!Next \/ UNCHANGED K!vars)

\* What an update at one thread is, there and elsewhere.
LEMMA Except ==
  ASSUME NEW S, NEW T, NEW f \in [S -> T], NEW x \in S, NEW v
  PROVE  /\ v \in T => [f EXCEPT ![x] = v] \in [S -> T]
         /\ [f EXCEPT ![x] = v][x] = v
         /\ \A y \in S \ {x} : [f EXCEPT ![x] = v][y] = f[y]
  OBVIOUS

\* The invariant, from its parts at the thread that moves.
LEMMA Keeps ==
  ASSUME SysInv, NEW t \in Thread, SysTypeOK', UNCHANGED <<hooked, fcntlMap, live, life>>,
         \A u \in Thread \ {t} : Same(u), CallInv(t)'
  PROVE  SysInv' /\ (\A u \in Thread \ {t} : Unseen(u)) /\ Maps' = Maps
<1>1. \A u \in Thread \ {t} : Unseen(u) /\ (CallInv(u) => CallInv(u)')
  BY SameUnseen, Zenon
<1>2. \A u \in Thread : CallInv(u)' BY <1>1, Zenon DEF SysInv
<1>3. MapsInv' BY Zenon DEF SysInv, MapsInv
<1>4. Maps' = Maps BY Zenon DEF Maps
<1> QED BY <1>1, <1>2, <1>3, <1>4, Zenon DEF SysInv

\* The variables that a step of the futex handler of t leaves alone, and the types.
LEMMA FutexTypes ==
  ASSUME SysInv, NEW t \in Thread, NEW w \in Thread, NEW S, NEW p \in F!PC, NEW r \in F!Result,
         Goes(w, S, p) \/ Ends(w, S, p, r), FutexWent(t),
         fpc'[t] = "user" => ret'[t] \in FutexResult \cup WaitResult
  PROVE  /\ SysTypeOK'
         /\ UNCHANGED <<fcntlMap, live, life, hooked>>
         /\ \A u \in Thread \ {t, w} : Same(u)
         /\ step' = step /\ fpc'[w] = p
         /\ \A u \in Thread \ {w} : fpc'[u] = fpc[u] /\ ret'[u] = ret[u]
         /\ \A u \in Thread \ {t} : kpc'[u] = kpc[u] /\ nr'[u] = nr[u] /\ out'[u] = out[u]
         /\ Goes(w, S, p) => ret' = ret
         /\ ~Goes(w, S, p) => ret'[w] = r
         /\ fpc'[t] = "user" => kpc'[t] = "return" /\ nr'[t] = "none"
         /\ fpc'[t] # "user" => kpc'[t] = "inside" /\ nr' = nr /\ out' = out
<1>1. /\ kpc \in [Thread -> {"guest", "found", "handler", "inside", "return"}]
      /\ nr \in [Thread -> {"none", "futex", "rt_sigaction"}] /\ out \in [Thread -> K!Outs]
      /\ fpc \in [Thread -> F!PC] /\ ret \in [Thread -> F!Result]
  BY Zenon DEF SysInv, SysTypeOK
<1>2. UNCHANGED <<fcntlMap, life, hooked, step>>
  BY Zenon DEF FutexWent, lifeVars, signalVars
<1>3. /\ live' = live /\ fpc' = [fpc EXCEPT ![w] = p]
      /\ Goes(w, S, p) => ret' = ret
      /\ ~Goes(w, S, p) => ret' = [ret EXCEPT ![w] = r]
  BY Zenon DEF Goes, Ends
<1>4. /\ fpc' \in [Thread -> F!PC] /\ fpc'[w] = p
      /\ \A u \in Thread \ {w} : fpc'[u] = fpc[u]
  BY <1>1, <1>3, Except, Zenon
<1>5. /\ ret' \in [Thread -> F!Result] /\ (~Goes(w, S, p) => ret'[w] = r)
      /\ \A u \in Thread \ {w} : ret'[u] = ret[u]
  <2>1. CASE Goes(w, S, p) BY <1>1, <1>3, <2>1, Zenon
  <2>2. CASE ~Goes(w, S, p)
    <3>1. ret' = [ret EXCEPT ![w] = r] BY <1>3, <2>2, Zenon
    <3>2. /\ ret' \in [Thread -> F!Result] /\ ret'[w] = r
          /\ \A u \in Thread \ {w} : ret'[u] = ret[u]
      BY <1>1, <3>1, Except, Zenon
    <3> QED BY <3>2, Zenon
  <2> QED BY <2>1, <2>2, Zenon
<1>6. CASE fpc'[t] = "user"
  <2> DEFINE m == IF fpc[t] = "leaving" THEN "futex" ELSE "none"
  <2>1. Returned(t, FutexOut(ret'[t], m)) BY <1>6, Zenon DEF FutexWent
  <2>2. m \in {"none", "futex"} BY Zenon
  <2>3. FutexOut(ret'[t], m) \in K!Outs BY <1>6, <2>2, FutexOutParts, Zenon
  <2> HIDE DEF m
  <2>4. /\ kpc' = [kpc EXCEPT ![t] = "return"] /\ nr' = [nr EXCEPT ![t] = "none"]
        /\ out' = [out EXCEPT ![t] = FutexOut(ret'[t], m)]
    BY <2>1, Zenon DEF Returned, HookAt
  <2>5. /\ kpc' \in [Thread -> {"guest", "found", "handler", "inside", "return"}]
        /\ nr' \in [Thread -> {"none", "futex", "rt_sigaction"}] /\ out' \in [Thread -> K!Outs]
        /\ kpc'[t] = "return" /\ nr'[t] = "none"
        /\ \A u \in Thread \ {t} : kpc'[u] = kpc[u] /\ nr'[u] = nr[u] /\ out'[u] = out[u]
    <3>1. /\ kpc' \in [Thread -> {"guest", "found", "handler", "inside", "return"}]
          /\ kpc'[t] = "return" /\ \A u \in Thread \ {t} : kpc'[u] = kpc[u]
      BY <1>1, <2>4
    <3>2. /\ nr' \in [Thread -> {"none", "futex", "rt_sigaction"}]
          /\ nr'[t] = "none" /\ \A u \in Thread \ {t} : nr'[u] = nr[u]
      BY <1>1, <2>4
    <3>3. out' \in [Thread -> K!Outs] /\ \A u \in Thread \ {t} : out'[u] = out[u]
      BY <1>1, <2>3, <2>4, Except, Zenon
    <3> QED BY <3>1, <3>2, <3>3, Zenon
  <2>6. SysTypeOK' BY <1>2, <1>3, <1>4, <1>5, <2>5, Zenon DEF SysTypeOK, SysInv
  <2> QED BY <1>2, <1>3, <1>4, <1>5, <1>6, <2>5, <2>6, Zenon DEF Same
<1>7. CASE fpc'[t] # "user"
  <2>1. kpc' = [kpc EXCEPT ![t] = "inside"] /\ nr' = nr /\ out' = out
    BY <1>7, Zenon DEF FutexWent, HookAt
  <2>2. /\ kpc' \in [Thread -> {"guest", "found", "handler", "inside", "return"}]
        /\ kpc'[t] = "inside" /\ \A u \in Thread \ {t} : kpc'[u] = kpc[u]
    BY <1>1, <2>1
  <2>3. SysTypeOK' BY <1>1, <1>2, <1>3, <1>4, <1>5, <2>1, <2>2, Zenon DEF SysTypeOK, SysInv
  <2> QED BY <1>2, <1>3, <1>4, <1>5, <1>7, <2>1, <2>2, <2>3, Zenon DEF Same
<1> QED BY <1>6, <1>7, Zenon

\* The handler returns without having written in a map: TimerFault, the refusals,
\* and the ends of the wakes.
LEMMA FutexReturns ==
  ASSUME SysInv, NEW t \in Thread, nr[t] = "futex", kpc[t] \in {"handler", "inside"},
         NEW r \in FutexResult, Ends(t, {"user", "checked"} \cup Waking, "user", r),
         FutexWent(t)
  PROVE  Advances
<1>1. "user" \in F!PC /\ r \in F!Result BY Zenon DEF F!PC, F!Result, FutexResult
<1>2. fpc'[t] = "user" /\ ret'[t] = r
  BY Zenon DEF Ends, SysInv, SysTypeOK
<1>3. /\ SysTypeOK' /\ UNCHANGED <<fcntlMap, live, life, hooked>>
      /\ \A u \in Thread \ {t} : Same(u)
      /\ step' = step /\ kpc'[t] = "return" /\ nr'[t] = "none"
  BY <1>1, <1>2, FutexTypes, ZenonT(30)
<1>4. /\ fpc[t] \in {"user", "checked"} \cup Waking /\ CallInv(t)
      /\ fpc[t] \notin {"leaving", "panicked", "registered", "parked", "recheck"}
  BY Zenon DEF Ends, SysInv, Waking
<1>5. step[t] = "guest" BY <1>4, Zenon DEF CallInv
<1>6. CallInv(t)' BY <1>2, <1>3, <1>5, Zenon DEF CallInv
<1>7. SysInv' /\ (\A u \in Thread \ {t} : Unseen(u)) /\ Maps' = Maps
  BY <1>3, <1>6, Keeps, Zenon
<1>8. /\ KernelPc(t) = "handler" /\ KernelNr(t) = "futex" /\ KernelInto(t) = "none"
  BY <1>4, <1>5, Zenon DEF KernelPc, KernelNr, KernelInto, F!RegisteredPC
<1>9. out'[t] = FutexOut(r, "none")
  BY <1>2, <1>4, Zenon DEF FutexWent, Returned, SysInv, SysTypeOK
<1>10. /\ KernelPc(t)' = "return" /\ KernelNr(t)' = "none" /\ KernelInto(t)' = "none"
       /\ KernelOut(t)' = FutexOut(r, "none")
  BY <1>2, <1>3, <1>5, <1>9, Zenon DEF KernelPc, KernelNr, KernelInto, KernelOut, F!RegisteredPC
<1>11. IF r = "ok" THEN UNCHANGED <<err, alone>> ELSE SetErrno(t, r)
  BY <1>2, <1>4, Zenon DEF FutexWent
<1> DEFINE o == FutexOut(r, "none").out
<1>12. /\ o \in K!Get["futex"] /\ o.map = "none" /\ o.ret # "panic"
       /\ o.err = (IF r = "ok" THEN "0" ELSE r) /\ r # "0"
       /\ FutexOut(r, "none") = [silent |-> FALSE, out |-> o]
  BY Table, FutexTable, FutexOutParts, Zenon
<1> HIDE DEF o
<1>13. IF o.err = "0" THEN UNCHANGED <<err, alone>> ELSE SetErrno(t, o.err)
  BY <1>11, <1>12, Zenon
<1>14. K!Next BY <1>3, <1>7, <1>8, <1>10, <1>12, <1>13, Handles, Zenon
<1> QED BY <1>7, <1>14, Zenon DEF Advances

\* The handler panics: a requeue, or a send on a closed channel.
LEMMA FutexPanics ==
  ASSUME SysInv, NEW t \in Thread, nr[t] = "futex", kpc[t] \in {"handler", "inside"},
         NEW r \in {"sendOnClosed", "cmpRequeue"},
         Ends(t, {"user"} \cup Waking, "panicked", r), FutexWent(t)
  PROVE  Advances
<1>1. "panicked" \in F!PC /\ r \in F!Result BY Zenon DEF F!PC, F!Result
<1>2. fpc'[t] = "panicked" /\ ret'[t] = r BY Zenon DEF Ends, SysInv, SysTypeOK
<1>3. /\ SysTypeOK' /\ UNCHANGED <<fcntlMap, live, life, hooked>>
      /\ \A u \in Thread \ {t} : Same(u)
      /\ step' = step /\ kpc'[t] = "inside" /\ nr' = nr
  BY <1>1, <1>2, FutexTypes, Zenon
<1>4. /\ fpc[t] \in {"user"} \cup Waking /\ CallInv(t)
      /\ fpc[t] \notin {"leaving", "panicked", "registered", "parked", "recheck"}
  BY Zenon DEF Ends, SysInv, Waking
<1>5. step[t] = "guest" BY <1>4, Zenon DEF CallInv
<1>6. CallInv(t)' BY <1>2, <1>3, <1>5, Zenon DEF CallInv
<1>7. SysInv' /\ (\A u \in Thread \ {t} : Unseen(u)) /\ Maps' = Maps
  BY <1>3, <1>6, Keeps, Zenon
<1>8. /\ KernelPc(t) = "handler" /\ KernelNr(t) = "futex" /\ KernelInto(t) = "none"
  BY <1>4, <1>5, Zenon DEF KernelPc, KernelNr, KernelInto, F!RegisteredPC
<1>9. /\ KernelPc(t)' = "panicked" /\ KernelNr(t)' = "none" /\ KernelInto(t)' = "none"
      /\ KernelOut(t)' = Outcome("0", "panic", "none")
  <2>1. KernelPc(t)' = "panicked" BY <1>2, <1>3, Zenon DEF KernelPc
  <2> QED BY <1>2, <1>3, <1>5, <2>1, Zenon DEF KernelNr, KernelInto, KernelOut, F!RegisteredPC
<1>10. UNCHANGED <<err, alone>> BY <1>2, Zenon DEF FutexWent
<1> DEFINE o == Outcome("0", "panic", "none").out
<1>11. /\ o \in K!Get["futex"] /\ o.map = "none" /\ o.ret = "panic" /\ o.err = "0"
       /\ Outcome("0", "panic", "none") = [silent |-> FALSE, out |-> o]
  BY Table, FutexTable, Zenon DEF Outcome
<1> HIDE DEF o
<1>12. K!Next BY <1>3, <1>7, <1>8, <1>9, <1>10, <1>11, Handles, Zenon
<1> QED BY <1>7, <1>12, Zenon DEF Advances

\* The handler goes on, with nothing for Kernel to see: a call that begins, a wake,
\* and a wait that goes round in its loop.
LEMMA FutexQuiet ==
  ASSUME SysInv, NEW t \in Thread, nr[t] = "futex", kpc[t] \in {"handler", "inside"},
         NEW S, NEW p, Goes(t, S, p) \/ Ends(t, S, p, "none"),
         \/ S \in {{"user"}, Waking} /\ p \in {"checked"} \cup Waking
         \/ S = Sleeping /\ p \in Sleeping,
         FutexWent(t)
  PROVE  Advances
<1>1. p \in F!PC /\ "none" \in F!Result
  BY Zenon DEF F!PC, F!Result, Waking, Sleeping, F!RegisteredPC, F!WakingPC, F!BitWakingPC
<1>2. fpc'[t] = p /\ fpc[t] \in S BY Zenon DEF Goes, Ends, SysInv, SysTypeOK
<1>3. p \notin {"user", "leaving", "panicked"} BY Zenon DEF Waking, Sleeping
<1>4. /\ SysTypeOK' /\ UNCHANGED <<fcntlMap, live, life, hooked>>
      /\ \A u \in Thread \ {t} : Same(u)
      /\ step' = step /\ kpc'[t] = "inside" /\ nr' = nr /\ out' = out
  BY <1>1, <1>2, <1>3, FutexTypes, Zenon
<1>5. CallInv(t) /\ fpc[t] \notin {"leaving", "panicked"}
  BY <1>2, Zenon DEF SysInv, Waking, Sleeping
<1>6. step[t] = "guest" BY <1>5, Zenon DEF CallInv
<1>7. CallInv(t)' BY <1>2, <1>3, <1>4, <1>6, Zenon DEF CallInv
<1>8. SysInv' /\ (\A u \in Thread \ {t} : Unseen(u)) /\ Maps' = Maps
  BY <1>4, <1>7, Keeps, Zenon
<1>9. KernelPc(t) = "handler" /\ KernelPc(t)' = "handler"
  BY <1>2, <1>3, <1>4, <1>5, <1>6, Zenon DEF KernelPc
<1>10. fpc'[t] \in F!RegisteredPC \ {"leaving"} <=> fpc[t] \in F!RegisteredPC \ {"leaving"}
  BY <1>2, Zenon DEF F!RegisteredPC, Waking, Sleeping
<1>11. KernelNr(t)' = KernelNr(t) /\ KernelInto(t)' = KernelInto(t)
  BY <1>4, <1>9, <1>10, Zenon DEF KernelNr, KernelInto
<1>12. KernelOut(t)' = KernelOut(t)
  BY <1>2, <1>3, <1>4, <1>5, <1>9, Zenon DEF KernelOut
<1>13. UNCHANGED <<err, alone>> BY <1>2, <1>3, Zenon DEF FutexWent
<1>14. \A u \in Thread : Unseen(u) BY <1>8, <1>9, <1>11, <1>12, Zenon DEF Unseen
<1>15. UNCHANGED K!vars BY <1>4, <1>8, <1>13, <1>14, Stutters, Zenon
<1> QED BY <1>8, <1>15, Zenon DEF Advances

\* addAwait and addBitAwait: the write in the map, or the panic if it is nil.
LEMMA FutexRegisters ==
  ASSUME SysInv, NEW t \in Thread, nr[t] = "futex", kpc[t] = "inside", FutexWent(t),
         \/ live /\ Goes(t, {"checked"}, "registered")
         \/ ~live /\ Ends(t, {"checked"}, "panicked", "nilMap")
  PROVE  Advances
<1> DEFINE p == IF live THEN "registered" ELSE "panicked"
<1>1. p \in F!PC /\ "nilMap" \in F!Result BY Zenon DEF F!PC, F!Result, F!RegisteredPC
<1>2. /\ fpc'[t] = p /\ fpc[t] = "checked" /\ (~live => ret'[t] = "nilMap")
      /\ Goes(t, {"checked"}, p) \/ Ends(t, {"checked"}, p, "nilMap")
  BY Zenon DEF Goes, Ends, SysInv, SysTypeOK
<1>3. p \notin {"user", "leaving"} BY Zenon
<1>4. /\ SysTypeOK' /\ UNCHANGED <<fcntlMap, live, life, hooked>>
      /\ \A u \in Thread \ {t} : Same(u)
      /\ step' = step /\ kpc'[t] = "inside" /\ nr' = nr /\ out' = out
  <2> HIDE DEF p
  <2> QED BY <1>1, <1>2, <1>3, FutexTypes, Zenon
<1>5. CallInv(t) BY Zenon DEF SysInv
<1>6. step[t] = "guest" BY <1>2, <1>5, Zenon DEF CallInv
<1>7. CallInv(t)' BY <1>2, <1>4, <1>6, Zenon DEF CallInv
<1>8. SysInv' /\ (\A u \in Thread \ {t} : Unseen(u)) /\ Maps' = Maps
  BY <1>4, <1>7, Keeps, Zenon
<1>9. KernelPc(t) = "handler" /\ KernelNr(t) = "futex" /\ KernelInto(t) = "none"
  BY <1>2, <1>6, Zenon DEF KernelPc, KernelNr, KernelInto, F!RegisteredPC
<1>10. UNCHANGED <<err, alone>> BY <1>2, <1>3, Zenon DEF FutexWent
<1>11. "futex" \in Maps <=> live BY Zenon DEF Maps
<1> DEFINE o == FutexOut("ok", "futex").out
<1>12. o \in K!Get["futex"] /\ o.map = "futex" /\ "futex" \in K!Component
  BY Table, FutexTable, FutexOutParts, Zenon DEF WaitResult, K!Component
<1> HIDE DEF o
<1>13. CASE live
  <2>1. KernelPc(t)' = "handler" /\ KernelNr(t)' = "futex" /\ KernelInto(t)' = "futex"
    BY <1>2, <1>4, <1>6, <1>13, Zenon DEF KernelPc, KernelNr, KernelInto, F!RegisteredPC
  <2>2. KernelOut(t)' = KernelOut(t) BY <1>2, <1>4, <1>9, <1>13, <2>1, Zenon DEF KernelOut
  <2> QED BY <1>4, <1>8, <1>9, <1>10, <1>11, <1>12, <1>13, <2>1, <2>2, WritesMap, Zenon DEF Advances
<1>14. CASE ~live
  <2>1. KernelPc(t)' = "nilMap" /\ KernelNr(t)' = "futex" /\ KernelInto(t)' = "none"
    BY <1>2, <1>4, <1>6, <1>14, Zenon DEF KernelPc, KernelNr, KernelInto, F!RegisteredPC
  <2>2. KernelOut(t)' = KernelOut(t) BY <1>2, <1>4, <1>9, <1>14, <2>1, Zenon DEF KernelOut
  <2> QED BY <1>4, <1>8, <1>9, <1>10, <1>11, <1>12, <1>14, <2>1, <2>2, WritesMap, Zenon DEF Advances
<1> QED BY <1>13, <1>14, Zenon

\* The wait of w has its result, by a step of its own or by one of a wake.
LEMMA WaitEnds ==
  ASSUME SysInv, NEW w \in Thread, fpc[w] \in Sleeping, NEW r \in WaitResult,
         SysTypeOK', UNCHANGED <<fcntlMap, live, life, hooked>>,
         \A u \in Thread \ {w} : Same(u),
         kpc'[w] = "inside", nr'[w] = nr[w], step'[w] = step[w],
         fpc'[w] = "leaving", ret'[w] = r,
         IF r = "ok" THEN UNCHANGED <<err, alone>> ELSE SetErrno(w, r)
  PROVE  Advances
<1>1. CallInv(w) /\ fpc[w] \notin {"user", "leaving", "panicked"}
  BY Zenon DEF SysInv, Sleeping
<1>2. kpc[w] = "inside" /\ nr[w] = "futex" /\ step[w] = "guest" BY <1>1, Zenon DEF CallInv
<1>3. CallInv(w)' BY <1>2, Zenon DEF CallInv, WaitResult
<1>4. SysInv' /\ (\A u \in Thread \ {w} : Unseen(u)) /\ Maps' = Maps BY <1>3, Keeps, Zenon
<1>5. KernelPc(w) = "handler" /\ KernelNr(w) = "futex" /\ KernelInto(w) = "futex"
  BY <1>1, <1>2, Zenon DEF KernelPc, KernelNr, KernelInto, F!RegisteredPC, Sleeping
<1>6. /\ KernelPc(w)' = "return" /\ KernelNr(w)' = "none" /\ KernelInto(w)' = "none"
      /\ KernelOut(w)' = FutexOut(r, "futex")
  BY <1>2, Zenon DEF KernelPc, KernelNr, KernelInto, KernelOut, F!RegisteredPC
<1> DEFINE o == FutexOut(r, "futex").out
<1>7. /\ o \in K!Get["futex"] /\ o.map = "futex" /\ o.ret # "panic"
      /\ o.err = (IF r = "ok" THEN "0" ELSE r) /\ r # "0"
      /\ FutexOut(r, "futex") = [silent |-> FALSE, out |-> o]
  BY Table, FutexTable, FutexOutParts, Zenon
<1> HIDE DEF o
<1>8. IF o.err = "0" THEN UNCHANGED <<err, alone>> ELSE SetErrno(w, o.err) BY <1>7, Zenon
<1>9. K!Next BY <1>4, <1>5, <1>6, <1>7, <1>8, Handles, Zenon
<1> QED BY <1>4, <1>9, Zenon DEF Advances

\* A wait decides its result, on its own or because it is woken.
LEMMA FutexLeaves ==
  ASSUME SysInv, NEW t \in Thread, kpc[t] = "inside", Leaves(t), FutexWent(t)
  PROVE  Advances
<1>1. PICK r \in WaitResult : Ends(t, Sleeping, "leaving", r) BY Zenon DEF Leaves
<1>2. "leaving" \in F!PC /\ r \in F!Result
  BY Zenon DEF F!PC, F!Result, F!RegisteredPC, WaitResult
<1>3. fpc'[t] = "leaving" /\ ret'[t] = r /\ fpc[t] \in Sleeping
  BY <1>1, Zenon DEF Ends, SysInv, SysTypeOK
<1>4. /\ SysTypeOK' /\ UNCHANGED <<fcntlMap, live, life, hooked>>
      /\ \A u \in Thread \ {t} : Same(u)
      /\ step' = step /\ kpc'[t] = "inside" /\ nr' = nr
  BY <1>1, <1>2, <1>3, FutexTypes, Zenon
<1>5. fpc[t] # "leaving" BY <1>3, Zenon DEF Sleeping
<1>6. IF r = "ok" THEN UNCHANGED <<err, alone>> ELSE SetErrno(t, r)
  BY <1>3, <1>5, Zenon DEF FutexWent
<1> QED BY <1>3, <1>4, <1>6, WaitEnds, Zenon

\* A wake reaches the waiter w, which has its result or goes back to its select.
LEMMA FutexWakes ==
  ASSUME SysInv, NEW t \in Thread, kpc[t] = "inside", fpc[t] \in Waking, FutexWent(t),
         NEW w \in Thread, Turns(w) \/ Ends(w, Sleeping, "leaving", "ok")
  PROVE  Advances
<1>1. fpc[w] \in Sleeping BY Zenon DEF Turns, Goes, Ends
<1>2. w # t /\ fpc[t] \notin {"user", "leaving"} BY <1>1, Zenon DEF Waking, Sleeping
<1>3. CallInv(w) /\ fpc[w] \notin {"user", "leaving", "panicked"}
  BY <1>1, Zenon DEF SysInv, Sleeping
<1>4. kpc[w] = "inside" /\ nr[w] = "futex" /\ step[w] = "guest" BY <1>3, Zenon DEF CallInv
<1>5. ASSUME NEW p \in F!PC, NEW r \in F!Result, Goes(w, Sleeping, p) \/ Ends(w, Sleeping, p, r)
      PROVE  /\ SysTypeOK' /\ UNCHANGED <<fcntlMap, live, life, hooked>>
             /\ \A u \in Thread \ {w} : Same(u)
             /\ step' = step /\ kpc'[w] = "inside" /\ nr'[w] = "futex" /\ out'[w] = out[w]
             /\ UNCHANGED <<err, alone>>
  <2>1. fpc'[t] = fpc[t] /\ ret'[t] = ret[t]
    BY <1>2, <1>5, Zenon DEF Goes, Ends, SysInv, SysTypeOK
  <2>2. /\ SysTypeOK' /\ UNCHANGED <<fcntlMap, live, life, hooked>>
        /\ \A u \in Thread \ {t, w} : Same(u)
        /\ step' = step /\ kpc'[w] = kpc[w] /\ kpc'[t] = "inside" /\ nr' = nr /\ out' = out
    BY <1>2, <1>5, <2>1, FutexTypes, Zenon
  <2>3. Same(t) BY <2>1, <2>2, Zenon DEF Same
  <2>4. UNCHANGED <<err, alone>> BY <1>2, <2>1, Zenon DEF FutexWent
  <2> QED BY <1>4, <2>2, <2>3, <2>4, Zenon
<1>6. CASE Ends(w, Sleeping, "leaving", "ok")
  <2>1. "leaving" \in F!PC /\ "ok" \in F!Result /\ "ok" \in WaitResult
    BY Zenon DEF F!PC, F!Result, F!RegisteredPC, WaitResult
  <2>2. fpc'[w] = "leaving" /\ ret'[w] = "ok" BY <1>6, Zenon DEF Ends, SysInv, SysTypeOK
  <2>3. /\ SysTypeOK' /\ UNCHANGED <<fcntlMap, live, life, hooked>>
        /\ \A u \in Thread \ {w} : Same(u)
        /\ step' = step /\ kpc'[w] = "inside" /\ nr'[w] = "futex"
        /\ UNCHANGED <<err, alone>>
    BY <1>5, <1>6, <2>1, Zenon
  <2> QED BY <1>1, <1>4, <2>1, <2>2, <2>3, WaitEnds, Zenon
<1>7. CASE Turns(w)
  <2>1. PICK p \in Sleeping : Goes(w, Sleeping, p) BY <1>7, Zenon DEF Turns
  <2>2. p \in F!PC /\ "none" \in F!Result
    BY Zenon DEF F!PC, F!Result, F!RegisteredPC, Sleeping
  <2>3. /\ SysTypeOK' /\ UNCHANGED <<fcntlMap, live, life, hooked>>
        /\ \A u \in Thread \ {w} : Same(u)
        /\ step' = step /\ kpc'[w] = "inside" /\ nr'[w] = "futex" /\ out'[w] = out[w]
        /\ UNCHANGED <<err, alone>>
    BY <1>5, <2>1, <2>2, Zenon
  <2>4. fpc'[w] = p BY <2>1, Zenon DEF Goes, SysInv, SysTypeOK
  <2>5. p \notin {"user", "leaving", "panicked"} BY Zenon DEF Sleeping
  <2>6. CallInv(w)' BY <1>4, <2>3, <2>4, <2>5, Zenon DEF CallInv
  <2>7. SysInv' /\ (\A u \in Thread \ {w} : Unseen(u)) /\ Maps' = Maps
    BY <2>3, <2>6, Keeps, Zenon
  <2>8. KernelPc(w) = "handler" /\ KernelPc(w)' = "handler"
    BY <1>3, <1>4, <2>3, <2>4, <2>5, Zenon DEF KernelPc
  <2>9. KernelNr(w)' = KernelNr(w) BY <1>4, <2>3, <2>8, Zenon DEF KernelNr
  <2>10. KernelInto(w)' = KernelInto(w)
    BY <1>1, <2>4, Zenon DEF KernelInto, F!RegisteredPC, Sleeping
  <2>11. KernelOut(w)' = KernelOut(w)
    BY <1>3, <2>3, <2>4, <2>5, <2>8, Zenon DEF KernelOut
  <2>12. \A u \in Thread : Unseen(u) BY <2>7, <2>8, <2>9, <2>10, <2>11, Zenon DEF Unseen
  <2>13. UNCHANGED K!vars BY <2>3, <2>7, <2>12, Stutters, Zenon
  <2> QED BY <2>7, <2>13, Zenon DEF Advances
<1> QED BY <1>6, <1>7, Zenon

\* delAwait and the return: Kernel has seen the result already.
LEMMA FutexDeletes ==
  ASSUME SysInv, NEW t \in Thread, nr[t] = "futex", kpc[t] = "inside", FutexWent(t),
         Ends(t, {"leaving"}, "user", ret[t])
  PROVE  Advances
<1>1. CallInv(t) /\ fpc[t] = "leaving" BY Zenon DEF Ends, SysInv
<1>2. ret[t] \in WaitResult /\ step[t] = "guest" BY <1>1, Zenon DEF CallInv, WaitResult
<1>3. "user" \in F!PC /\ ret[t] \in F!Result BY <1>2, Zenon DEF F!PC, F!Result, WaitResult
<1>4. fpc'[t] = "user" /\ ret'[t] = ret[t] BY Zenon DEF Ends, SysInv, SysTypeOK
<1>5. /\ SysTypeOK' /\ UNCHANGED <<fcntlMap, live, life, hooked>>
      /\ \A u \in Thread \ {t} : Same(u)
      /\ step' = step /\ kpc'[t] = "return" /\ nr'[t] = "none"
  BY <1>2, <1>3, <1>4, FutexTypes, Zenon
<1>6. CallInv(t)' BY <1>2, <1>4, <1>5, Zenon DEF CallInv
<1>7. SysInv' /\ (\A u \in Thread \ {t} : Unseen(u)) /\ Maps' = Maps
  BY <1>5, <1>6, Keeps, Zenon
<1>8. out'[t] = FutexOut(ret[t], "futex")
  <2>1. out' = [out EXCEPT ![t] = FutexOut(ret[t], "futex")]
    BY <1>1, <1>4, Zenon DEF FutexWent, Returned
  <2> QED BY <2>1, Zenon DEF SysInv, SysTypeOK
<1>9. KernelPc(t) = "return" /\ KernelPc(t)' = "return"
  BY <1>1, <1>2, <1>5, Zenon DEF KernelPc
<1>10. /\ KernelNr(t)' = KernelNr(t) /\ KernelInto(t)' = KernelInto(t)
       /\ KernelOut(t)' = KernelOut(t)
  BY <1>1, <1>2, <1>4, <1>5, <1>8, <1>9, Zenon DEF KernelNr, KernelInto, KernelOut, F!RegisteredPC
<1>11. UNCHANGED <<err, alone>> BY <1>1, Zenon DEF FutexWent
<1>12. \A u \in Thread : Unseen(u) BY <1>7, <1>9, <1>10, Zenon DEF Unseen
<1>13. UNCHANGED K!vars BY <1>5, <1>7, <1>11, <1>12, Stutters, Zenon
<1> QED BY <1>7, <1>13, Zenon DEF Advances

\* What ends from a set of places also ends from a larger one.
LEMMA EndsFrom ==
  ASSUME NEW u, NEW S, NEW T, S \subseteq T, NEW p, NEW r, Ends(u, S, p, r)
  PROVE  Ends(u, T, p, r)
  BY Zenon DEF Ends

\* The first step of futex.
LEMMA FutexCallAdvances ==
  ASSUME SysInv, NEW t \in Thread, FutexCall(t)
  PROVE  Advances
<1>1. nr[t] = "futex" /\ kpc[t] = "handler" /\ FutexWent(t) BY Zenon DEF FutexCall
<1>2. CallKind(t) BY CallSteps, Zenon DEF FutexCall
<1>3. CASE \E r \in {"ok", "EFAULT", "EAGAIN", "ENOSYS"} : Ends(t, {"user"}, "user", r)
  <2>1. PICK r \in FutexResult : Ends(t, {"user"}, "user", r) BY <1>3, Zenon DEF FutexResult
  <2>2. Ends(t, {"user", "checked"} \cup Waking, "user", r) BY <2>1, EndsFrom, Zenon
  <2> QED BY <1>1, <2>2, FutexReturns, Zenon
<1>4. CASE \E p \in {"checked", "gotAwait", "bitPick"} : Ends(t, {"user"}, p, "none")
  <2>1. PICK p \in {"checked", "gotAwait", "bitPick"} : Ends(t, {"user"}, p, "none")
    BY <1>4, Zenon
  <2>2. p \in {"checked"} \cup Waking BY Zenon DEF Waking
  <2>3. {"user"} \in {{"user"}, Waking} BY Zenon
  <2> QED BY <1>1, <2>1, <2>2, <2>3, FutexQuiet, Zenon
<1>5. CASE Ends(t, {"user"}, "panicked", "cmpRequeue")
  <2>1. Ends(t, {"user"} \cup Waking, "panicked", "cmpRequeue") BY <1>5, EndsFrom, Zenon
  <2> QED BY <1>1, <2>1, FutexPanics, Zenon
<1> QED BY <1>2, <1>3, <1>4, <1>5, Zenon DEF CallKind

\* The steps of a wait.
LEMMA WaitAdvances ==
  ASSUME SysInv, NEW t \in Thread, nr[t] = "futex", kpc[t] = "inside", FutexWent(t), WaitKind(t)
  PROVE  Advances
<1>1. CASE Ends(t, {"checked"}, "user", "EFAULT")
  <2>1. Ends(t, {"user", "checked"} \cup Waking, "user", "EFAULT") BY <1>1, EndsFrom, Zenon
  <2>2. "EFAULT" \in FutexResult BY Zenon DEF FutexResult
  <2> QED BY <2>1, <2>2, FutexReturns, Zenon
<1>2. CASE \/ live /\ Goes(t, {"checked"}, "registered")
           \/ ~live /\ Ends(t, {"checked"}, "panicked", "nilMap")
  BY <1>2, FutexRegisters, Zenon
<1>3. CASE Turns(t)
  <2>1. PICK p \in Sleeping : Goes(t, Sleeping, p) BY <1>3, Zenon DEF Turns
  <2> QED BY <2>1, FutexQuiet, Zenon
<1>4. CASE Leaves(t) BY <1>4, FutexLeaves, Zenon
<1>5. CASE Ends(t, {"leaving"}, "user", ret[t]) BY <1>5, FutexDeletes, Zenon
<1> QED BY <1>1, <1>2, <1>3, <1>4, <1>5, Zenon DEF WaitKind

\* The steps of a wake.
LEMMA WakeAdvances ==
  ASSUME SysInv, NEW t \in Thread, nr[t] = "futex", kpc[t] = "inside", FutexWent(t), WakeKind(t)
  PROVE  Advances
<1>1. CASE \E p \in Waking : Goes(t, Waking, p)
  <2>1. PICK p \in Waking : Goes(t, Waking, p) BY <1>1, Zenon
  <2>2. Waking \in {{"user"}, Waking} /\ p \in {"checked"} \cup Waking BY Zenon
  <2> QED BY <2>1, <2>2, FutexQuiet, Zenon
<1>2. CASE \E r \in {"ok", "EFAULT"} : Ends(t, Waking, "user", r)
  <2>1. PICK r \in {"ok", "EFAULT"} : Ends(t, Waking, "user", r) BY <1>2, Zenon
  <2>2. Ends(t, {"user", "checked"} \cup Waking, "user", r) BY <2>1, EndsFrom, Zenon
  <2>3. r \in FutexResult BY Zenon DEF FutexResult
  <2> QED BY <2>2, <2>3, FutexReturns, Zenon
<1>3. CASE Ends(t, Waking, "panicked", "sendOnClosed")
  <2>1. Ends(t, {"user"} \cup Waking, "panicked", "sendOnClosed") BY <1>3, EndsFrom, Zenon
  <2> QED BY <2>1, FutexPanics, Zenon
<1>4. CASE fpc[t] \in Waking /\ \E w \in Thread : Turns(w) \/ Ends(w, Sleeping, "leaving", "ok")
  BY <1>4, FutexWakes, Zenon
<1> QED BY <1>1, <1>2, <1>3, <1>4, Zenon DEF WakeKind

\* All later steps of futex.
LEMMA FutexStepAdvances ==
  ASSUME SysInv, NEW t \in Thread, FutexStep(t)
  PROVE  Advances
<1>1. nr[t] = "futex" /\ kpc[t] = "inside" /\ FutexWent(t) /\ F!Step(t)
  BY Zenon DEF FutexStep, FutexDoes
<1>2. WaitKind(t) \/ WakeKind(t) BY <1>1, WaitSteps, WakeSteps, Zenon DEF F!Step
<1> QED BY <1>1, <1>2, WaitAdvances, WakeAdvances, Zenon

-----------------------------------------------------------------------------
(* The handler of rt_sigaction. *)

\* The step of t goes from a to b, and the hook may go on with it.
Moves(t, a, b) == step[t] = a /\ step' = [step EXCEPT ![t] = b] /\ life' = life

\* What a step of rt_sigaction does to the place of its thread.
LEMMA SignalSteps ==
  ASSUME NEW t \in Thread
  PROVE  /\ A!Sigaction(t) => Moves(t, "guest", "lock")
         /\ A!Lock(t) => Moves(t, "lock", "lookup")
         /\ A!Lookup(t) => Moves(t, "lookup", "assign")
         /\ A!Assign(t) => \/ life # "live" /\ Moves(t, "assign", "panicked")
                           \/ life = "live" /\ Moves(t, "assign", "unlock")
         /\ A!Unlock(t) => Moves(t, "unlock", "guest")
<1>1. A!Sigaction(t) => Moves(t, "guest", "lock") BY Zenon DEF A!Sigaction, A!GoTo, Moves
<1>2. A!Lock(t) => Moves(t, "lock", "lookup") BY Zenon DEF A!Lock, A!GoTo, Moves
<1>3. A!Lookup(t) => Moves(t, "lookup", "assign") BY Zenon DEF A!Lookup, A!GoTo, Moves
<1>4. A!Assign(t) => \/ life # "live" /\ Moves(t, "assign", "panicked")
                     \/ life = "live" /\ Moves(t, "assign", "unlock")
  BY Zenon DEF A!Assign, A!GoTo, Moves
<1>5. A!Unlock(t) => Moves(t, "unlock", "guest") BY Zenon DEF A!Unlock, A!GoTo, Moves
<1> QED BY <1>1, <1>2, <1>3, <1>4, <1>5, Zenon

\* A value that is there already may be written.
LEMMA ExceptSame ==
  ASSUME NEW S, NEW T, NEW f \in [S -> T], NEW x \in S
  PROVE  f = [f EXCEPT ![x] = f[x]]
  OBVIOUS

SigStep == {"guest", "lock", "lookup", "assign", "unlock", "panicked"}
HookStep == {"handler", "inside", "return"}
HookNr == {"none", "rt_sigaction"}

\* What such a step leaves alone, and the types. The hook is at k with the result o
\* afterwards, or where it was.
LEMMA SignalTypes ==
  ASSUME SysInv, NEW t \in Thread,
         NEW b \in SigStep, NEW k \in HookStep, NEW n \in HookNr, NEW o \in K!Outs,
         step' = [step EXCEPT ![t] = b], kpc' = [kpc EXCEPT ![t] = k],
         nr' = [nr EXCEPT ![t] = n], out' = [out EXCEPT ![t] = o], life' = life,
         UNCHANGED <<lifeVars, futexVars>>
  PROVE  /\ SysTypeOK' /\ UNCHANGED <<fcntlMap, live, life, hooked, fpc, ret>>
         /\ \A u \in Thread \ {t} : Same(u)
         /\ kpc'[t] = k /\ nr'[t] = n /\ out'[t] = o /\ step'[t] = b
<1>1. UNCHANGED <<fcntlMap, live, life, hooked, fpc, ret>>
  BY Zenon DEF lifeVars, futexVars
<1>2. /\ kpc \in [Thread -> {"guest", "found", "handler", "inside", "return"}]
      /\ nr \in [Thread -> {"none", "futex", "rt_sigaction"}] /\ out \in [Thread -> K!Outs]
      /\ step \in [Thread -> {"guest", "lock", "lookup", "assign", "unlock", "panicked"}]
  BY Zenon DEF SysInv, SysTypeOK
<1>3. /\ kpc' \in [Thread -> {"guest", "found", "handler", "inside", "return"}]
      /\ kpc'[t] = k /\ \A u \in Thread \ {t} : kpc'[u] = kpc[u]
  BY <1>2 DEF HookStep
<1>4. /\ nr' \in [Thread -> {"none", "futex", "rt_sigaction"}]
      /\ nr'[t] = n /\ \A u \in Thread \ {t} : nr'[u] = nr[u]
  BY <1>2 DEF HookNr
<1>5. out' \in [Thread -> K!Outs] /\ out'[t] = o /\ \A u \in Thread \ {t} : out'[u] = out[u]
  BY <1>2, Except, Zenon
<1>6. /\ step' \in [Thread -> {"guest", "lock", "lookup", "assign", "unlock", "panicked"}]
      /\ step'[t] = b /\ \A u \in Thread \ {t} : step'[u] = step[u]
  BY <1>2 DEF SigStep
<1>7. SysTypeOK' BY <1>1, <1>3, <1>4, <1>5, <1>6, Zenon DEF SysInv, SysTypeOK
<1> QED BY <1>1, <1>3, <1>4, <1>5, <1>6, <1>7, Zenon DEF Same

\* What a step of rt_sigaction leaves as it is.
LEMMA SignalStays ==
  ASSUME SysInv, NEW t \in Thread, NEW a, NEW b \in SigStep, Moves(t, a, b),
         UNCHANGED <<nr, out, lifeVars, futexVars>>,
         kpc' = [kpc EXCEPT ![t] = "inside"], nr[t] = "rt_sigaction"
  PROVE  /\ SysTypeOK' /\ UNCHANGED <<fcntlMap, live, life, hooked, fpc, ret>>
         /\ \A u \in Thread \ {t} : Same(u)
         /\ kpc'[t] = "inside" /\ nr'[t] = "rt_sigaction" /\ step'[t] = b
<1>1. UNCHANGED <<fcntlMap, live, life, hooked, fpc, ret>>
  BY Zenon DEF lifeVars, futexVars, Moves
<1>2. /\ kpc \in [Thread -> {"guest", "found", "handler", "inside", "return"}]
      /\ step \in [Thread -> {"guest", "lock", "lookup", "assign", "unlock", "panicked"}]
  BY Zenon DEF SysInv, SysTypeOK
<1>3. /\ kpc' \in [Thread -> {"guest", "found", "handler", "inside", "return"}]
      /\ kpc'[t] = "inside" /\ \A u \in Thread \ {t} : kpc'[u] = kpc[u]
  BY <1>2
<1>4. step' = [step EXCEPT ![t] = b] BY Zenon DEF Moves
<1>5. /\ step' \in [Thread -> {"guest", "lock", "lookup", "assign", "unlock", "panicked"}]
      /\ step'[t] = b /\ \A u \in Thread \ {t} : step'[u] = step[u]
  BY <1>2, <1>4 DEF SigStep
<1>6. SysTypeOK' BY <1>1, <1>3, <1>5, Zenon DEF SysInv, SysTypeOK
<1> QED BY <1>1, <1>3, <1>5, <1>6, Zenon DEF Same

\* The call begins, takes the lock or looks up.
LEMMA SignalQuiet ==
  ASSUME SysInv, NEW t \in Thread, NEW a, NEW b \in {"lock", "lookup", "assign"}, Moves(t, a, b),
         \/ kpc[t] = "handler" /\ a = "guest"
         \/ kpc[t] = "inside" /\ a \in {"lock", "lookup"},
         nr[t] = "rt_sigaction", kpc' = [kpc EXCEPT ![t] = "inside"],
         UNCHANGED <<err, nr, out, alone, lifeVars, futexVars>>
  PROVE  Advances
<1>1. CallInv(t) /\ step[t] = a BY Zenon DEF SysInv, Moves
<1>2. fpc[t] = "user" /\ ret[t] = "none" BY <1>1, Zenon DEF CallInv
<1>3. /\ SysTypeOK' /\ UNCHANGED <<fcntlMap, live, life, hooked, fpc, ret>>
      /\ \A u \in Thread \ {t} : Same(u)
      /\ kpc'[t] = "inside" /\ nr'[t] = "rt_sigaction" /\ step'[t] = b
  <2>1. b \in SigStep BY Zenon DEF SigStep
  <2> QED BY <2>1, SignalStays, Zenon
<1>4. CallInv(t)' BY <1>2, <1>3, Zenon DEF CallInv
<1>5. SysInv' /\ (\A u \in Thread \ {t} : Unseen(u)) /\ Maps' = Maps BY <1>3, <1>4, Keeps, Zenon
<1>6. KernelPc(t) = "handler" /\ KernelPc(t)' = "handler"
  BY <1>1, <1>2, <1>3, Zenon DEF KernelPc
<1>7. /\ KernelNr(t)' = KernelNr(t) /\ KernelInto(t)' = KernelInto(t)
      /\ KernelOut(t)' = KernelOut(t)
  BY <1>1, <1>2, <1>3, <1>6, Zenon DEF KernelNr, KernelInto, KernelOut
<1>8. \A u \in Thread : Unseen(u) BY <1>5, <1>6, <1>7, Zenon DEF Unseen
<1>9. UNCHANGED K!vars BY <1>3, <1>5, <1>8, Stutters, Zenon
<1> QED BY <1>5, <1>9, Zenon DEF Advances

\* The assignment to the table, or the panic if there is none.
LEMMA SignalAssigns ==
  ASSUME SysInv, NEW t \in Thread,
         \/ life # "live" /\ Moves(t, "assign", "panicked")
         \/ life = "live" /\ Moves(t, "assign", "unlock"),
         UNCHANGED <<err, kpc, nr, out, alone, lifeVars, futexVars>>
  PROVE  Advances
<1> DEFINE b == IF life = "live" THEN "unlock" ELSE "panicked"
<1>1. Moves(t, "assign", b) /\ b \in {"unlock", "panicked"} BY Zenon
<1> HIDE DEF b
<1>2. CallInv(t) /\ step[t] = "assign" BY <1>1, Zenon DEF SysInv, Moves
<1>3. fpc[t] = "user" /\ ret[t] = "none" /\ kpc[t] = "inside" /\ nr[t] = "rt_sigaction"
  BY <1>2, Zenon DEF CallInv
<1>4. kpc \in [Thread -> {"guest", "found", "handler", "inside", "return"}]
  BY Zenon DEF SysInv, SysTypeOK
<1>5. kpc' = [kpc EXCEPT ![t] = "inside"] BY <1>3, <1>4, ExceptSame, Zenon
<1>6. /\ SysTypeOK' /\ UNCHANGED <<fcntlMap, live, life, hooked, fpc, ret>>
      /\ \A u \in Thread \ {t} : Same(u)
      /\ kpc'[t] = "inside" /\ nr'[t] = "rt_sigaction" /\ step'[t] = b
  <2>1. b \in SigStep BY <1>1, Zenon DEF SigStep
  <2> QED BY <1>1, <1>3, <1>5, <2>1, SignalStays, Zenon
<1>7. CallInv(t)' BY <1>1, <1>3, <1>6, Zenon DEF CallInv
<1>8. SysInv' /\ (\A u \in Thread \ {t} : Unseen(u)) /\ Maps' = Maps BY <1>6, <1>7, Keeps, Zenon
<1>9. KernelPc(t) = "handler" /\ KernelNr(t) = "rt_sigaction" /\ KernelInto(t) = "none"
  BY <1>2, <1>3, Zenon DEF KernelPc, KernelNr, KernelInto, F!RegisteredPC
<1>10. "signal" \in Maps <=> life = "live" BY Zenon DEF Maps
<1> DEFINE o == Outcome("0", "value", "signal").out
<1>11. o \in K!Get["rt_sigaction"] /\ o.map = "signal" /\ "signal" \in K!Component
  BY Table, SignalTable, Zenon DEF Outcome, K!Component
<1> HIDE DEF o
<1>12. CASE life = "live"
  <2>1. KernelPc(t)' = "handler" /\ KernelNr(t)' = "rt_sigaction" /\ KernelInto(t)' = "signal"
    BY <1>3, <1>6, <1>12, Zenon DEF b, KernelPc, KernelNr, KernelInto, F!RegisteredPC
  <2>2. KernelOut(t)' = KernelOut(t) BY <1>3, <1>6, <1>9, <2>1, Zenon DEF KernelOut
  <2> QED BY <1>6, <1>8, <1>9, <1>10, <1>11, <1>12, <2>1, <2>2, WritesMap, Zenon DEF Advances
<1>13. CASE life # "live"
  <2>1. KernelPc(t)' = "nilMap" /\ KernelNr(t)' = "rt_sigaction" /\ KernelInto(t)' = "none"
    BY <1>3, <1>6, <1>13, Zenon DEF b, KernelPc, KernelNr, KernelInto, F!RegisteredPC
  <2>2. KernelOut(t)' = KernelOut(t) BY <1>3, <1>6, <1>9, <2>1, Zenon DEF KernelOut
  <2> QED BY <1>6, <1>8, <1>9, <1>10, <1>11, <1>13, <2>1, <2>2, WritesMap, Zenon DEF Advances
<1> QED BY <1>12, <1>13, Zenon

\* The call returns with the result o of the handler, from Unlock or with EFAULT.
LEMMA SignalReturns ==
  ASSUME SysInv, NEW t \in Thread, kpc[t] \in {"handler", "inside"}, nr[t] = "rt_sigaction",
         NEW e, NEW r, NEW m, Returned(t, Outcome(e, r, m)),
         \/ /\ Moves(t, "unlock", "guest") /\ e = "0" /\ r = "value" /\ m = "signal"
            /\ UNCHANGED <<err, alone>>
         \/ /\ Moves(t, "guest", "guest") /\ e = "EFAULT" /\ r = "-1" /\ m = "none"
            /\ SetErrno(t, e),
         UNCHANGED <<lifeVars, futexVars>>
  PROVE  Advances
<1> DEFINE o == Outcome(e, r, m)
<1>1. o \in K!Outs /\ o = [silent |-> FALSE, out |-> o.out] /\ o.out \in K!Get["rt_sigaction"]
      /\ o.out.map = m /\ o.out.ret # "panic" /\ o.out.err = e
  <2>1. o \in K!Outs
    BY Zenon DEF Outcome, K!Outs, K!Outcomes, K!Errno, K!Component
  <2>2. o.out \in K!Get["rt_sigaction"] BY Table, SignalTable, Zenon
  <2> QED BY <2>1, <2>2, Zenon DEF Outcome
<1>2. /\ kpc' = [kpc EXCEPT ![t] = "return"] /\ nr' = [nr EXCEPT ![t] = "none"]
      /\ out' = [out EXCEPT ![t] = o]
  BY Zenon DEF Returned, HookAt
<1> HIDE DEF o
<1> DEFINE a == step[t]
<1>3. Moves(t, a, "guest") /\ a \in {"guest", "unlock"} BY Zenon DEF Moves
<1>4. CallInv(t) BY Zenon DEF SysInv
<1>5. fpc[t] = "user" /\ ret[t] = "none" BY <1>4, Zenon DEF CallInv
<1>6. /\ SysTypeOK' /\ UNCHANGED <<fcntlMap, live, life, hooked, fpc, ret>>
      /\ \A u \in Thread \ {t} : Same(u)
      /\ kpc'[t] = "return" /\ nr'[t] = "none" /\ out'[t] = o /\ step'[t] = "guest"
  <2>1. "guest" \in SigStep /\ "return" \in HookStep /\ "none" \in HookNr
    BY Zenon DEF SigStep, HookStep, HookNr
  <2>2. UNCHANGED <<lifeVars, futexVars>> /\ step' = [step EXCEPT ![t] = "guest"] /\ life' = life
    BY <1>3, Zenon DEF Moves
  <2> QED BY <1>1, <1>2, <2>1, <2>2, SignalTypes, Zenon
<1>7. CallInv(t)' BY <1>5, <1>6, Zenon DEF CallInv
<1>8. SysInv' /\ (\A u \in Thread \ {t} : Unseen(u)) /\ Maps' = Maps BY <1>6, <1>7, Keeps, Zenon
<1>9. KernelPc(t) = "handler" /\ KernelNr(t) = "rt_sigaction"
  BY <1>3, <1>5, Zenon DEF KernelPc, KernelNr
<1>10. KernelInto(t) = m BY <1>5, Zenon DEF KernelInto, F!RegisteredPC, Moves
<1>11. /\ KernelPc(t)' = "return" /\ KernelNr(t)' = "none" /\ KernelInto(t)' = "none"
       /\ KernelOut(t)' = o
  BY <1>5, <1>6, Zenon DEF KernelPc, KernelNr, KernelInto, KernelOut, F!RegisteredPC
<1>12. IF e = "0" THEN UNCHANGED <<err, alone>> ELSE SetErrno(t, e) BY Zenon
<1> DEFINE q == o.out
<1>13. /\ q \in K!Get["rt_sigaction"] /\ q.map = m /\ q.ret # "panic" /\ q.err = e
       /\ o = [silent |-> FALSE, out |-> q]
  BY <1>1, Zenon
<1> HIDE DEF q
<1>14. K!Next BY <1>6, <1>8, <1>9, <1>10, <1>11, <1>12, <1>13, Handles, Zenon
<1> QED BY <1>8, <1>14, Zenon DEF Advances

\* All the steps of rt_sigaction.
LEMMA SignalAdvances ==
  ASSUME SysInv, NEW t \in Thread, SigactionCall(t) \/ SigactionLock(t) \/ SigactionStep(t)
  PROVE  Advances
<1>1. CallInv(t) /\ kpc \in [Thread -> {"guest", "found", "handler", "inside", "return"}]
      /\ step \in [Thread -> {"guest", "lock", "lookup", "assign", "unlock", "panicked"}]
  BY Zenon DEF SysInv, SysTypeOK
<1>2. ASSUME NEW b \in {"lookup", "assign"}, NEW a \in {"lock", "lookup"}, Moves(t, a, b),
             UNCHANGED <<err, kpc, nr, out, alone, lifeVars, futexVars>>
      PROVE  Advances
  <2>1. kpc[t] = "inside" /\ nr[t] = "rt_sigaction" BY <1>1, <1>2, Zenon DEF CallInv, Moves
  <2>2. kpc' = [kpc EXCEPT ![t] = "inside"] BY <1>1, <1>2, <2>1, ExceptSame, Zenon
  <2> QED BY <1>2, <2>1, <2>2, SignalQuiet, Zenon
<1>3. CASE SigactionLock(t)
  <2>1. Moves(t, "lock", "lookup") BY <1>3, SignalSteps, Zenon DEF SigactionLock
  <2>2. UNCHANGED <<err, kpc, nr, out, alone, lifeVars, futexVars>>
    BY <1>3, Zenon DEF SigactionLock, callVars
  <2> QED BY <1>2, <2>1, <2>2, Zenon
<1>4. CASE SigactionStep(t)
  <2>1. UNCHANGED <<err, alone, lifeVars, futexVars>> BY <1>4, Zenon DEF SigactionStep
  <2>2. CASE A!Lookup(t) /\ UNCHANGED <<kpc, nr, out>>
    BY <1>2, <2>1, <2>2, SignalSteps, Zenon
  <2>3. CASE A!Assign(t) /\ UNCHANGED <<kpc, nr, out>>
    BY <2>1, <2>3, SignalSteps, SignalAssigns, Zenon
  <2>4. CASE A!Unlock(t) /\ Returned(t, Outcome("0", "value", "signal"))
    <3>1. Moves(t, "unlock", "guest") BY <2>4, SignalSteps, Zenon
    <3>2. kpc[t] = "inside" /\ nr[t] = "rt_sigaction" BY <1>1, <3>1, Zenon DEF CallInv, Moves
    <3> QED BY <2>1, <2>4, <3>1, <3>2, SignalReturns, Zenon
  <2> QED BY <1>4, <2>2, <2>3, <2>4, Zenon DEF SigactionStep
<1>5. CASE SigactionCall(t)
  <2>1. UNCHANGED <<lifeVars, futexVars>> /\ kpc[t] = "handler" /\ nr[t] = "rt_sigaction"
    BY <1>5, Zenon DEF SigactionCall
  <2>2. CASE A!Sigaction(t) /\ HookAt(t, "inside") /\ UNCHANGED <<err, nr, out, alone>>
    <3>1. Moves(t, "guest", "lock") /\ kpc' = [kpc EXCEPT ![t] = "inside"]
      BY <2>2, SignalSteps, Zenon DEF HookAt
    <3> QED BY <2>1, <2>2, <3>1, SignalQuiet, Zenon
  <2>3. CASE /\ Returned(t, Outcome("EFAULT", "-1", "none")) /\ SetErrno(t, "EFAULT")
             /\ UNCHANGED signalVars
    <3>1. step[t] = "guest" BY <1>1, <2>1, Zenon DEF CallInv
    <3>2. UNCHANGED <<step, life>> BY <2>3, Zenon DEF signalVars
    <3>3. Moves(t, "guest", "guest") BY <1>1, <3>1, <3>2, ExceptSame, Zenon DEF Moves
    <3> QED BY <2>1, <2>3, <3>3, SignalReturns, Zenon
  <2> QED BY <1>5, <2>2, <2>3, Zenon DEF SigactionCall
<1> QED BY <1>3, <1>4, <1>5, Zenon

-----------------------------------------------------------------------------
(* The hook. *)

\* What a step of the hook does to the thread t: control k, call n, result o, and r in
\* place of the result of its futex call.
LEMMA HookTypes ==
  ASSUME SysInv, NEW t \in Thread, NEW k \in {"guest", "found", "handler"},
         NEW n \in {"none", "futex", "rt_sigaction"}, NEW o \in K!Outs,
         kpc' = [kpc EXCEPT ![t] = k], nr' = [nr EXCEPT ![t] = n],
         out' = [out EXCEPT ![t] = o], ret' = [ret EXCEPT ![t] = "none"],
         UNCHANGED <<hooked, fcntlMap, live, life, fpc, step>>
  PROVE  /\ SysTypeOK' /\ \A u \in Thread \ {t} : Same(u)
         /\ kpc'[t] = k /\ nr'[t] = n /\ out'[t] = o /\ ret'[t] = "none"
<1>1. /\ kpc \in [Thread -> {"guest", "found", "handler", "inside", "return"}]
      /\ nr \in [Thread -> {"none", "futex", "rt_sigaction"}] /\ out \in [Thread -> K!Outs]
      /\ ret \in [Thread -> F!Result]
  BY Zenon DEF SysInv, SysTypeOK
<1>2. /\ kpc' \in [Thread -> {"guest", "found", "handler", "inside", "return"}]
      /\ kpc'[t] = k /\ \A u \in Thread \ {t} : kpc'[u] = kpc[u]
  BY <1>1
<1>3. /\ nr' \in [Thread -> {"none", "futex", "rt_sigaction"}]
      /\ nr'[t] = n /\ \A u \in Thread \ {t} : nr'[u] = nr[u]
  BY <1>1
<1>4. out' \in [Thread -> K!Outs] /\ out'[t] = o /\ \A u \in Thread \ {t} : out'[u] = out[u]
  BY <1>1, Except, Zenon
<1>5. "none" \in F!Result BY Zenon DEF F!Result
<1>6. ret' \in [Thread -> F!Result] /\ ret'[t] = "none" /\ \A u \in Thread \ {t} : ret'[u] = ret[u]
  BY <1>1, <1>5, Except, Zenon
<1>7. SysTypeOK' BY <1>2, <1>3, <1>4, <1>6, Zenon DEF SysInv, SysTypeOK
<1> QED BY <1>2, <1>3, <1>4, <1>6, <1>7, Zenon DEF Same

\* The hook is not in the handler of t, before and after.
LEMMA HookSeen ==
  ASSUME NEW t \in Thread, CallInv(t), kpc[t] # "inside"
  PROVE  /\ fpc[t] = "user" /\ step[t] = "guest" /\ KernelPc(t) = kpc[t]
         /\ KernelInto(t) = "none"
         /\ kpc[t] # "panicked" => KernelOut(t) = out[t]
         /\ KernelNr(t) = IF kpc[t] \in {"found", "handler", "nilMap"} THEN nr[t] ELSE "none"
<1>1. fpc[t] = "user" /\ step[t] = "guest" /\ KernelPc(t) = kpc[t] BY Zenon DEF CallInv, KernelPc
<1> QED BY <1>1, Zenon DEF KernelInto, KernelOut, KernelNr, F!RegisteredPC

\* Kernel sees the hook where it is.
LEMMA HookSeenNext ==
  ASSUME NEW t \in Thread, CallInv(t)', kpc'[t] # "inside"
  PROVE  /\ KernelPc(t)' = kpc'[t] /\ KernelInto(t)' = "none"
         /\ kpc'[t] # "panicked" => KernelOut(t)' = out'[t]
         /\ KernelNr(t)' = IF kpc'[t] \in {"found", "handler", "nilMap"} THEN nr'[t] ELSE "none"
<1>1. fpc'[t] = "user" /\ step'[t] = "guest" /\ KernelPc(t)' = kpc'[t]
  BY Zenon DEF CallInv, KernelPc
<1> QED BY <1>1, Zenon DEF KernelInto, KernelOut, KernelNr, F!RegisteredPC

\* The lookup of the handler.
LEMMA TrapAdvances ==
  ASSUME SysInv, NEW t \in Thread, Trap(t)
  PROVE  Advances
<1>1. PICK n \in {"futex", "rt_sigaction"} : nr' = [nr EXCEPT ![t] = n] BY Zenon DEF Trap
<1>2. /\ kpc[t] = "guest" /\ hooked /\ kpc' = [kpc EXCEPT ![t] = "found"]
      /\ out' = [out EXCEPT ![t] = Idle]
      /\ UNCHANGED <<err, alone, fcntlMap, live, life, fpc, step, ret, hooked>>
  BY Zenon DEF Trap, HookAt, lifeVars, futexVars, signalVars
<1>3. CallInv(t) /\ ret \in [Thread -> F!Result] BY Zenon DEF SysInv, SysTypeOK
<1>4. ret[t] = "none" /\ fpc[t] = "user" /\ step[t] = "guest" BY <1>2, <1>3, Zenon DEF CallInv
<1>5. ret' = [ret EXCEPT ![t] = "none"] BY <1>2, <1>3, <1>4, ExceptSame, Zenon
<1>6. Idle \in K!Outs /\ Idle = K!Idle
  BY Zenon DEF Idle, Outcome, K!Idle, K!Outcome, K!Outs, K!Outcomes, K!Errno
<1>7. n \in {"none", "futex", "rt_sigaction"} BY Zenon
<1>8. /\ SysTypeOK' /\ \A u \in Thread \ {t} : Same(u)
      /\ kpc'[t] = "found" /\ nr'[t] = n /\ out'[t] = Idle /\ ret'[t] = "none"
  BY <1>1, <1>2, <1>5, <1>6, <1>7, HookTypes, Zenon
<1>9. CallInv(t)' BY <1>2, <1>4, <1>8, Zenon DEF CallInv
<1>10. SysInv' /\ (\A u \in Thread \ {t} : Unseen(u)) /\ Maps' = Maps
  BY <1>2, <1>8, <1>9, Keeps, Zenon
<1>11. KernelPc(t) = "guest" /\ KernelInto(t) = "none" BY <1>2, <1>3, HookSeen, Zenon
<1>12. /\ KernelPc(t)' = "found" /\ KernelInto(t)' = "none" /\ KernelOut(t)' = K!Idle
       /\ KernelNr(t)' = n
  BY <1>6, <1>8, <1>9, HookSeenNext, Zenon
<1>13. /\ KernelPcs' = [KernelPcs EXCEPT ![t] = "found"] /\ KernelIntos' = KernelIntos
       /\ KernelOuts' = [KernelOuts EXCEPT ![t] = K!Idle]
       /\ KernelNrs' = [KernelNrs EXCEPT ![t] = n]
  <2>1. /\ KernelPcs' = [KernelPcs EXCEPT ![t] = "found"]
        /\ KernelIntos' = [KernelIntos EXCEPT ![t] = KernelInto(t)]
        /\ KernelOuts' = [KernelOuts EXCEPT ![t] = K!Idle]
        /\ KernelNrs' = [KernelNrs EXCEPT ![t] = n]
    BY <1>10, <1>11, <1>12, Frame, Zenon
  <2> QED BY <2>1, KernelSame, Zenon
<1>14. K!Trap(t)
  <2>1. n \in DOMAIN K!Get BY Table, Zenon
  <2>2. KernelPcs[t] = "guest" BY <1>11, KernelSame, Zenon
  <2> QED BY <1>2, <1>10, <1>13, <2>1, <2>2, Zenon DEF K!Trap
<1> QED BY <1>10, <1>14, Zenon DEF Advances, K!Next

\* SetErrno(0).
LEMMA ResetAdvances ==
  ASSUME SysInv, NEW t \in Thread, Reset(t)
  PROVE  Advances
<1>1. /\ kpc[t] = "found" /\ kpc' = [kpc EXCEPT ![t] = "handler"]
      /\ err' = "0" /\ alone' = [u \in Thread |-> u = t]
      /\ UNCHANGED <<nr, out, fcntlMap, live, life, fpc, step, ret, hooked>>
  BY Zenon DEF Reset, HookAt, lifeVars, futexVars, signalVars
<1>2. /\ CallInv(t) /\ kpc \in [Thread -> {"guest", "found", "handler", "inside", "return"}]
  BY Zenon DEF SysInv, SysTypeOK
<1>3. /\ kpc' \in [Thread -> {"guest", "found", "handler", "inside", "return"}]
      /\ kpc'[t] = "handler" /\ \A u \in Thread \ {t} : kpc'[u] = kpc[u]
  BY <1>1, <1>2
<1>4. SysTypeOK' BY <1>1, <1>3, Zenon DEF SysInv, SysTypeOK
<1>5. \A u \in Thread \ {t} : Same(u) BY <1>1, <1>3, Zenon DEF Same
<1>6. CallInv(t)' BY <1>1, <1>2, <1>3, Zenon DEF CallInv
<1>7. SysInv' /\ (\A u \in Thread \ {t} : Unseen(u)) /\ Maps' = Maps
  BY <1>1, <1>4, <1>5, <1>6, Keeps, Zenon
<1>8. /\ KernelPc(t) = "found" /\ KernelInto(t) = "none" /\ KernelOut(t) = out[t]
      /\ KernelNr(t) = nr[t]
  BY <1>1, <1>2, HookSeen, Zenon
<1>9. /\ KernelPc(t)' = "handler" /\ KernelInto(t)' = "none" /\ KernelOut(t)' = out[t]
      /\ KernelNr(t)' = nr[t]
  BY <1>1, <1>3, <1>6, HookSeenNext, Zenon
<1>10. /\ KernelPcs' = [KernelPcs EXCEPT ![t] = "handler"] /\ KernelIntos' = KernelIntos
       /\ KernelOuts' = KernelOuts /\ KernelNrs' = KernelNrs
  BY <1>7, <1>8, <1>9, Frame, KernelSame, Zenon
<1>11. KernelPcs[t] = "found" BY <1>8, KernelSame, Zenon
<1>12. K!Reset(t) BY <1>1, <1>7, <1>10, <1>11, Zenon DEF K!Reset
<1> QED BY <1>7, <1>12, Zenon DEF Advances, K!Next

\* The register write.
LEMMA RegWriteAdvances ==
  ASSUME SysInv, NEW t \in Thread, RegWrite(t)
  PROVE  Advances
<1>1. /\ kpc[t] = "return" /\ kpc' = [kpc EXCEPT ![t] = "guest"]
      /\ ret' = [ret EXCEPT ![t] = "none"]
      /\ UNCHANGED <<err, nr, out, alone, fcntlMap, live, life, fpc, step, hooked>>
  BY Zenon DEF RegWrite, HookAt, lifeVars, signalVars
<1>2. /\ CallInv(t) /\ kpc \in [Thread -> {"guest", "found", "handler", "inside", "return"}]
      /\ ret \in [Thread -> F!Result]
  BY Zenon DEF SysInv, SysTypeOK
<1>3. /\ kpc' \in [Thread -> {"guest", "found", "handler", "inside", "return"}]
      /\ kpc'[t] = "guest" /\ \A u \in Thread \ {t} : kpc'[u] = kpc[u]
  BY <1>1, <1>2
<1>4. "none" \in F!Result BY Zenon DEF F!Result
<1>5. ret' \in [Thread -> F!Result] /\ ret'[t] = "none" /\ \A u \in Thread \ {t} : ret'[u] = ret[u]
  BY <1>1, <1>2, <1>4, Except, Zenon
<1>6. SysTypeOK' BY <1>1, <1>3, <1>5, Zenon DEF SysInv, SysTypeOK
<1>7. \A u \in Thread \ {t} : Same(u) BY <1>1, <1>3, <1>5, Zenon DEF Same
<1>8. CallInv(t)' BY <1>1, <1>2, <1>3, <1>5, Zenon DEF CallInv
<1>9. SysInv' /\ (\A u \in Thread \ {t} : Unseen(u)) /\ Maps' = Maps
  BY <1>1, <1>6, <1>7, <1>8, Keeps, Zenon
<1>10. /\ KernelPc(t) = "return" /\ KernelInto(t) = "none" /\ KernelOut(t) = out[t]
       /\ KernelNr(t) = "none"
  BY <1>1, <1>2, HookSeen, Zenon
<1>11. /\ KernelPc(t)' = "guest" /\ KernelInto(t)' = "none" /\ KernelOut(t)' = out[t]
       /\ KernelNr(t)' = "none"
  BY <1>1, <1>3, <1>8, HookSeenNext, Zenon
<1>12. /\ KernelPcs' = [KernelPcs EXCEPT ![t] = "guest"] /\ KernelIntos' = KernelIntos
       /\ KernelOuts' = KernelOuts /\ KernelNrs' = KernelNrs
  <2>1. /\ KernelPcs' = [KernelPcs EXCEPT ![t] = KernelPc(t)']
        /\ KernelNrs' = [KernelNrs EXCEPT ![t] = KernelNr(t)]
        /\ KernelIntos' = [KernelIntos EXCEPT ![t] = KernelInto(t)]
        /\ KernelOuts' = [KernelOuts EXCEPT ![t] = KernelOut(t)]
    BY <1>9, <1>10, <1>11, Frame
  <2>2. KernelNrs' = KernelNrs /\ KernelIntos' = KernelIntos /\ KernelOuts' = KernelOuts
    BY <2>1, KernelSame, Zenon
  <2> QED BY <1>11, <2>1, <2>2, Zenon
<1>13. KernelPcs[t] = "return" BY <1>10, KernelSame, Zenon
<1>14. K!RegWrite(t) BY <1>1, <1>9, <1>12, <1>13, Zenon DEF K!RegWrite
<1> QED BY <1>9, <1>14, Zenon DEF Advances, K!Next

-----------------------------------------------------------------------------
(* Close and guest code: no call moves. *)

Still == UNCHANGED <<kpc, nr, out, fpc, ret, step>>

\* If no thread moves, each keeps its invariant and none is seen to move.
LEMMA StillSeen ==
  ASSUME SysInv, Still
  PROVE  /\ \A u \in Thread : CallInv(u)'
         /\ KernelPcs' = KernelPcs /\ KernelNrs' = KernelNrs
         /\ KernelIntos' = KernelIntos /\ KernelOuts' = KernelOuts
<1>1. \A u \in Thread : Same(u) BY Zenon DEF Still, Same
<1>2. \A u \in Thread : Unseen(u) /\ CallInv(u)' BY <1>1, SameUnseen, Zenon DEF SysInv
<1> QED BY <1>2, AllUnseen, Zenon

\* A step that only drops the hook or a map, in their order, keeps the invariant.
LEMMA StillKeeps ==
  ASSUME SysInv, Still, MapsInv', hooked' \in BOOLEAN,
         live' \in BOOLEAN, fcntlMap' \in BOOLEAN, life' \in {"live", "dead"}
  PROVE  SysInv'
<1>1. SysTypeOK' BY Zenon DEF SysInv, SysTypeOK, Still
<1> QED BY <1>1, StillSeen, Zenon DEF SysInv

\* The hook is removed.
LEMMA HookAdvances ==
  ASSUME SysInv, CloseHook
  PROVE  Advances
<1>1. Still /\ UNCHANGED <<err, alone, live, fcntlMap, life>> /\ hooked /\ hooked' = FALSE
  BY Zenon DEF CloseHook, callVars, futexVars, signalVars, Still
<1>2. Maps' = Maps BY <1>1, Zenon DEF Maps
<1>3. SysInv' BY <1>1, StillKeeps, Zenon DEF SysInv, SysTypeOK, MapsInv
<1>4. K!CloseHook BY <1>1, <1>2, StillSeen, Zenon DEF K!CloseHook
<1> QED BY <1>3, <1>4, Zenon DEF Advances, K!Next

\* A map is dropped.
LEMMA DtorAdvances ==
  ASSUME SysInv, SignalDtor \/ FutexDtor \/ FcntlDtor
  PROVE  Advances
<1>1. MapsInv /\ SysTypeOK BY Zenon DEF SysInv
<1>2. CASE SignalDtor
  <2>1. /\ Still /\ UNCHANGED <<err, alone, hooked, live, fcntlMap>>
        /\ ~hooked /\ life = "live" /\ life' = "dead"
    BY <1>2, Zenon DEF SignalDtor, A!DropTable, callVars, lifeVars, futexVars, Still
  <2>2. live /\ fcntlMap BY <1>1, <2>1, Zenon DEF MapsInv
  <2>3. "signal" \in Maps /\ Maps' = {"fcntl", "futex"}
    BY <2>1, <2>2, Zenon DEF Maps
  <2>4. SysInv' BY <1>1, <2>1, <2>2, StillKeeps, Zenon DEF MapsInv, SysTypeOK
  <2>5. K!Dtor BY <2>1, <2>3, StillSeen, Zenon DEF K!Dtor
  <2> QED BY <2>4, <2>5, Zenon DEF Advances, K!Next
<1>3. CASE FutexDtor
  <2>1. /\ Still /\ UNCHANGED <<err, alone, hooked, life, fcntlMap>>
        /\ ~hooked /\ life = "dead" /\ live /\ live' = FALSE
    BY <1>3, Zenon DEF FutexDtor, F!Dtor, callVars, lifeVars, signalVars, Still
  <2>2. fcntlMap BY <1>1, <2>1, Zenon DEF MapsInv
  <2>3. "signal" \notin Maps /\ "futex" \in Maps /\ Maps' = {"fcntl"}
    BY <2>1, <2>2, Zenon DEF Maps
  <2>4. SysInv' BY <1>1, <2>1, <2>2, StillKeeps, Zenon DEF MapsInv, SysTypeOK
  <2>5. K!Dtor BY <2>1, <2>3, StillSeen, Zenon DEF K!Dtor
  <2> QED BY <2>4, <2>5, Zenon DEF Advances, K!Next
<1>4. CASE FcntlDtor
  <2>1. /\ Still /\ UNCHANGED <<err, alone, hooked, life, live>>
        /\ ~hooked /\ life = "dead" /\ ~live /\ fcntlMap /\ fcntlMap' = FALSE
    BY <1>4, Zenon DEF FcntlDtor, callVars, futexVars, signalVars, Still
  <2>2. "signal" \notin Maps /\ "futex" \notin Maps /\ "fcntl" \in Maps /\ Maps' = {}
    BY <2>1, Zenon DEF Maps
  <2>3. SysInv' BY <1>1, <2>1, StillKeeps, Zenon DEF MapsInv, SysTypeOK
  <2>4. K!Dtor BY <2>1, <2>2, StillSeen, Zenon DEF K!Dtor
  <2> QED BY <2>3, <2>4, Zenon DEF Advances, K!Next
<1> QED BY <1>2, <1>3, <1>4, Zenon

\* A step of nothing that Kernel sees.
LEMMA StillAdvances ==
  ASSUME SysInv, Still, UNCHANGED <<err, alone, hooked, life, live, fcntlMap>>
  PROVE  Advances
<1>1. SysInv' BY StillKeeps, Zenon DEF SysInv, SysTypeOK, MapsInv
<1>2. Maps' = Maps BY Zenon DEF Maps
<1>3. UNCHANGED K!vars BY <1>2, StillSeen, Zenon DEF K!vars
<1> QED BY <1>1, <1>3, Zenon DEF Advances

\* A store of the guest to a futex word, of which Kernel has nothing.
LEMMA GuestStoreAdvances ==
  ASSUME SysInv, NEW t \in Thread, GuestStore(t)
  PROVE  Advances
<1>1. Still /\ UNCHANGED <<err, alone, hooked, life, live, fcntlMap>>
  BY Zenon DEF GuestStore, F!Store, F!maps, callVars, lifeVars, signalVars, Still
<1> QED BY <1>1, StillAdvances, Zenon

-----------------------------------------------------------------------------
(* The theorems. *)

LEMMA InitAdvances ==
  ASSUME SysInit
  PROVE  SysInv /\ K!Init
<1>1. /\ err = "0" /\ hooked = TRUE /\ fcntlMap = TRUE /\ live = TRUE
      /\ life = "live" /\ kpc = [t \in Thread |-> "guest"] /\ nr = [t \in Thread |-> "none"]
      /\ out = [t \in Thread |-> Idle]
      /\ alone = [t \in Thread |-> FALSE] /\ fpc = [t \in Thread |-> "user"]
      /\ ret = [t \in Thread |-> "none"] /\ step = [t \in Thread |-> "guest"]
  BY Zenon DEF SysInit, F!Init, A!ActInit
<1>2. Idle \in K!Outs /\ Idle = K!Idle
  BY Zenon DEF Idle, Outcome, K!Idle, K!Outcome, K!Outs, K!Outcomes, K!Errno
<1>3. "user" \in F!PC /\ "none" \in F!Result BY Zenon DEF F!PC, F!Result
<1>4. SysTypeOK BY <1>1, <1>2, <1>3, Zenon DEF SysTypeOK
<1>5. MapsInv BY <1>1, Zenon DEF MapsInv
<1>6. \A t \in Thread : CallInv(t) BY <1>1, Zenon DEF CallInv
<1>7. SysInv BY <1>4, <1>5, <1>6, Zenon DEF SysInv
<1>8. Maps = K!Component BY <1>1, Zenon DEF Maps, K!Component
<1>9. \A t \in Thread : /\ KernelPc(t) = "guest" /\ KernelNr(t) = "none"
                        /\ KernelInto(t) = "none" /\ KernelOut(t) = K!Idle
  <2> TAKE t \in Thread
  <2>1. kpc[t] = "guest" /\ out[t] = K!Idle /\ CallInv(t) BY <1>1, <1>2, <1>6, Zenon
  <2> QED BY <2>1, HookSeen, Zenon
<1>10. /\ KernelPcs = [t \in Thread |-> "guest"] /\ KernelNrs = [t \in Thread |-> "none"]
       /\ KernelIntos = [t \in Thread |-> "none"] /\ KernelOuts = [t \in Thread |-> K!Idle]
  BY <1>9, Zenon DEF KernelPcs, KernelNrs, KernelIntos, KernelOuts
<1> QED BY <1>1, <1>7, <1>8, <1>10, Zenon DEF K!Init

\* Every step of System keeps the invariant and is one of Kernel, or a stutter.
LEMMA NextAdvances ==
  ASSUME SysInv, [SysNext]_sysVars
  PROVE  Advances
<1>1. CASE CloseHook BY <1>1, HookAdvances, Zenon
<1>2. CASE SignalDtor \/ FutexDtor \/ FcntlDtor BY <1>2, DtorAdvances, Zenon
<1>3. ASSUME NEW t \in Thread,
             \/ Trap(t) \/ Reset(t) \/ RegWrite(t) \/ GuestStore(t)
             \/ FutexCall(t) \/ FutexStep(t)
             \/ SigactionCall(t) \/ SigactionLock(t) \/ SigactionStep(t)
      PROVE  Advances
  BY <1>3, TrapAdvances, ResetAdvances, RegWriteAdvances, GuestStoreAdvances,
     FutexCallAdvances, FutexStepAdvances, SignalAdvances, Zenon
<1>4. CASE UNCHANGED sysVars
  <2>1. Still /\ UNCHANGED <<err, alone, hooked, life, live, fcntlMap>>
    BY <1>4, Zenon DEF sysVars, lifeVars, callVars, futexVars, signalVars, Still
  <2> QED BY <2>1, StillAdvances, Zenon
<1> QED BY <1>1, <1>2, <1>3, <1>4, Zenon DEF SysNext

\* A thread is in one handler at most, the one the hook has found for it, and the
\* maps go in the order of Close, in every execution of the kernel with its handlers,
\* for any number of threads.
THEOREM SystemInductive == SysSpec => []SysInv
<1>1. SysInit => SysInv BY InitAdvances
<1>2. SysInv /\ [SysNext]_sysVars => SysInv' BY NextAdvances DEF Advances
<1> QED BY <1>1, <1>2, PTL DEF SysSpec

\* The handlers of futex and rt_sigaction, run step by step with Close at any of the
\* steps, do nothing that Kernel does not say: every execution of
\* System is one of Kernel, with as many threads, addresses and signals as one likes.
THEOREM Implements == SysSpec => ImplementsKernel
<1>1. SysInit => K!Init BY InitAdvances
<1>2. SysInv /\ [SysNext]_sysVars => [K!Next]_(K!vars) BY NextAdvances DEF Advances
<1> QED BY <1>1, <1>2, SystemInductive, PTL DEF SysSpec, ImplementsKernel, K!Spec

-----------------------------------------------------------------------------
(* What is proved of Kernel holds here. KP is K once more, with its theorems. *)

KP == INSTANCE KernelProofs WITH
  maps <- Maps, pc <- KernelPcs, nr <- KernelNrs, into <- KernelIntos, out <- KernelOuts

\* KernelProofs, under the mapping, is about the same table.
LEMMA TableAgain == KP!Get = K!Get /\ KP!Silent = K!Silent /\ KP!Component = K!Component
<1>1. KP!Silent = K!Silent /\ KP!Component = K!Component
  BY Zenon DEF K!Silent, KP!Silent, K!Component, KP!Component
<1>2. KP!Get = K!Get
  BY Zenon DEF K!Get, KP!Get,
     K!dup3, KP!dup3, K!fcntl, KP!fcntl, K!ioctl, KP!ioctl, K!faccessat,
     KP!faccessat, K!open, KP!open, K!openat, KP!openat, K!close, KP!close, K!pipe2,
     KP!pipe2, K!lseek, KP!lseek, K!read, KP!read, K!write, KP!write, K!writev,
     KP!writev, K!readlinkat, KP!readlinkat, K!fstatat3264, KP!fstatat3264,
     K!fstatat64, KP!fstatat64, K!fstat3264, KP!fstat3264, K!fstat64, KP!fstat64,
     K!exit, KP!exit, K!futex, KP!futex, K!clock_gettime, KP!clock_gettime,
     K!Ignore, KP!Ignore, K!rt_sigaction, KP!rt_sigaction, K!rt_sigprocmask,
     KP!rt_sigprocmask, K!getrlimit, KP!getrlimit, K!setrlimit, KP!setrlimit,
     K!prctl, KP!prctl, K!gettimeofday, KP!gettimeofday, K!getpid, KP!getpid,
     K!gettid, KP!gettid, K!sysinfo, KP!sysinfo, K!socket, KP!socket, K!munmap,
     KP!munmap, K!clone, KP!clone, K!execve, KP!execve, K!mmap, KP!mmap, K!mprotect,
     KP!mprotect, K!Reject, KP!Reject, K!rt_tgsigqueueinfo, KP!rt_tgsigqueueinfo,
     K!getrandom, KP!getrandom,
     K!Outcome, KP!Outcome, K!Fails, KP!Fails, K!Writes, KP!Writes, K!Succeeds,
     KP!Succeeds, K!Panics, KP!Panics, K!HandsOn, KP!HandsOn, K!PathErrors,
     KP!PathErrors
<1> QED BY <1>1, <1>2, Zenon

\* KernelProofs, under the mapping, is about the same specification and properties.
LEMMA KernelAgain ==
  /\ K!Init => KP!Init
  /\ [K!Next]_(K!vars) => [KP!Next]_(KP!vars)
  /\ KP!ErrnoTells => K!ErrnoTells
  /\ KP!NilMapOnlyInClose => K!NilMapOnlyInClose
<1>1. K!Init => KP!Init BY TableAgain, Zenon DEF K!Init, KP!Init, K!Idle, KP!Idle, K!Outcome, KP!Outcome
<1>2. (K!CloseHook => KP!CloseHook) /\ (K!Dtor => KP!Dtor)
  BY Zenon DEF K!CloseHook, KP!CloseHook, K!Dtor, KP!Dtor
<1>3. ASSUME NEW t \in Thread
      PROVE  /\ K!Trap(t) => KP!Trap(t)
             /\ K!Reset(t) => KP!Reset(t)
             /\ K!RegWrite(t) => KP!RegWrite(t)
             /\ K!MapWrite(t) => KP!MapWrite(t)
             /\ K!Handle(t) => KP!Handle(t)
  <2>1. K!Idle = KP!Idle BY Zenon DEF K!Idle, KP!Idle, K!Outcome, KP!Outcome
  <2>2. K!Trap(t) => KP!Trap(t) BY <2>1, TableAgain, Zenon DEF K!Trap, KP!Trap
  <2>3. K!Reset(t) => KP!Reset(t) BY Zenon DEF K!Reset, KP!Reset
  <2>4. K!RegWrite(t) => KP!RegWrite(t) BY Zenon DEF K!RegWrite, KP!RegWrite
  <2>5. K!MapWrite(t) => KP!MapWrite(t) BY TableAgain, Zenon DEF K!MapWrite, KP!MapWrite
  <2>6. K!Handle(t) => KP!Handle(t)
    BY TableAgain, Zenon DEF K!Handle, KP!Handle, K!SetErrno, KP!SetErrno
  <2> QED BY <2>2, <2>3, <2>4, <2>5, <2>6, Zenon
<1>4. [K!Next]_(K!vars) => [KP!Next]_(KP!vars)
  BY <1>2, <1>3, Zenon DEF K!Next, KP!Next, K!vars, KP!vars
<1>5. KP!ErrnoTells => K!ErrnoTells BY Zenon DEF K!ErrnoTells, KP!ErrnoTells
<1>6. KP!NilMapOnlyInClose => K!NilMapOnlyInClose
  BY TableAgain, Zenon DEF K!NilMapOnlyInClose, KP!NilMapOnlyInClose
<1> QED BY <1>1, <1>4, <1>5, <1>6, Zenon

\* With the handlers of futex and rt_sigaction as they are, a caller can tell from
\* Kernel.err whether its call failed as long as no other call has written it, and a
\* nil map is met only by a call that Close has overtaken, and that needs this map.
THEOREM SystemIsSound == SysSpec => [](K!ErrnoTells /\ K!NilMapOnlyInClose)
<1>1. KP!Spec => []KP!ErrnoTells BY KP!Errnos
<1>2. KP!Spec => []KP!NilMapOnlyInClose BY KP!NilMaps
<1> QED BY <1>1, <1>2, Implements, KernelAgain, PTL DEF ImplementsKernel, K!Spec, KP!Spec
=============================================================================
