--------------------------- MODULE FutexTypeProofs --------------------------
(***************************************************************************)
(* Lemmas about Futex: types, control, and which steps touch the registry. *)
(* FutexWakeProofs and FutexProofs go on from here.                        *)
(***************************************************************************)
EXTENDS Futex, TLAPS

\* A new channel is one that nobody refers to (make(chan uint32)).
LEMMA NewChanFresh ==
  ASSUME Chan \ UsedChan # {}
  PROVE  NewChan \in Chan /\ NewChan \notin UsedChan
  BY Zenon DEF NewChan

\* The same for make(chan struct{}).
LEMMA NewBitChanFresh ==
  ASSUME BitChan \ UsedBitChan # {}
  PROVE  NewBitChan \in BitChan /\ NewBitChan \notin UsedBitChan
  BY Zenon DEF NewBitChan

\* addAwait and delAwait keep the maps typed.
LEMMA RefType ==
  ASSUME TypeOK, NEW a \in Addr, NEW c \in Chan
  PROVE  Ref(awaits, a, c) \in [Addr -> Entry(Chan)]
  BY DEF Ref, Entry, TypeOK

\* The same for addBitAwait.
LEMMA BitRefType ==
  ASSUME TypeOK, NEW m \in Mask, NEW d \in BitChan
  PROVE  Ref(bitAwaits, m, d) \in [Mask -> Entry(BitChan)]
  BY DEF Ref, Entry, TypeOK

\* delAwait keeps the map of addresses typed.
LEMMA UnrefType ==
  ASSUME TypeOK, NEW a \in Addr
  PROVE  Unref(awaits, a) \in [Addr -> Entry(Chan)]
  BY DEF Unref, Entry, Absent, TypeOK

\* The same for delBitAwait.
LEMMA BitUnrefType ==
  ASSUME TypeOK, NEW m \in Mask
  PROVE  Unref(bitAwaits, m) \in [Mask -> Entry(BitChan)]
  BY DEF Unref, Entry, Absent, TypeOK

\* Assigning one local keeps the locals typed.
LEMMA LocalType ==
  ASSUME TypeOK, NEW t \in Thread
  PROVE  /\ \A c \in Chan : [loc EXCEPT ![t].ch1 = c] \in [Thread -> Local]
         /\ \A c \in Chan, d \in BitChan :
              [loc EXCEPT ![t].ch1 = c, ![t].ch2 = d] \in [Thread -> Local]
         /\ \A v \in Int : [loc EXCEPT ![t].raw = v] \in [Thread -> Local]
         /\ [loc EXCEPT ![t].sent = loc[t].sent + 1] \in [Thread -> Local]
         /\ \A S \in SUBSET Mask : [loc EXCEPT ![t].todo = S] \in [Thread -> Local]
         /\ \A d \in BitChan \cup {NoChan}, S \in SUBSET Mask :
              [loc EXCEPT ![t].ch2 = d, ![t].todo = S] \in [Thread -> Local]
<1>1. loc \in [Thread -> Local] /\ loc[t] \in Local
  BY Zenon DEF TypeOK
<1>2. \A r \in Local : [loc EXCEPT ![t] = r] \in [Thread -> Local]
  BY <1>1, Zenon
<1>3. /\ \A c \in Chan : [loc[t] EXCEPT !.ch1 = c] \in Local
      /\ \A c \in Chan, d \in BitChan : [loc[t] EXCEPT !.ch1 = c, !.ch2 = d] \in Local
  BY ZenonT(30), <1>1 DEF Local
<1>4. /\ \A v \in Int : [loc[t] EXCEPT !.raw = v] \in Local
      /\ [loc[t] EXCEPT !.sent = loc[t].sent + 1] \in Local
  BY <1>1 DEF Local
<1>5. /\ \A S \in SUBSET Mask : [loc[t] EXCEPT !.todo = S] \in Local
      /\ \A d \in BitChan \cup {NoChan}, S \in SUBSET Mask :
           [loc[t] EXCEPT !.ch2 = d, !.todo = S] \in Local
  BY Zenon, <1>1 DEF Local
<1> QED BY ZenonT(30), <1>1, <1>2, <1>3, <1>4, <1>5

\* Returning, panicking and leaving the select keep the variables typed.
LEMMA ReturnType ==
  ASSUME TypeOK, NEW t \in Thread, NEW r \in Result, Return(t, r) \/ Panic(t, r)
  PROVE  /\ pc' \in [Thread -> PC] /\ call' \in [Thread -> Call]
         /\ loc' \in [Thread -> Local] /\ ret' \in [Thread -> Result]
<1>1. Unset \in Local /\ Idle \in Call
  BY DEF Unset, Local, Idle, Call
<1>2. "user" \in PC /\ "panicked" \in PC
  BY Zenon DEF PC
<1> QED BY <1>1, <1>2 DEF Return, Panic, TypeOK

\* A wait that stops waiting keeps the types.
LEMMA LeaveType ==
  ASSUME TypeOK, NEW t \in Thread, NEW r \in Result, Leave(t, r)
  PROVE  TypeOK'
<1>1. "leaving" \in PC
  BY Zenon DEF PC, RegisteredPC
<1> QED BY <1>1, Zenon DEF Leave, Awake, TypeOK, maps

\* Every step keeps the variables in their types.
LEMMA TypeStep == TypeOK /\ ControlInv /\ [Next]_vars => TypeOK'
<1> SUFFICES ASSUME TypeOK, ControlInv, [Next]_vars PROVE TypeOK'
  BY Zenon
<1> USE ConstantsAssumption
<1>p. /\ {"user", "checked", "panicked", "registered", "parked", "recheck", "leaving",
           "gotAwait", "waking", "bitPick", "bitSend"} \subseteq PC
      /\ {"none", "ok", "EFAULT", "EAGAIN", "ETIMEDOUT", "EPERM", "ENOSYS",
           "nilMap", "sendOnClosed", "cmpRequeue"} \subseteq Result
  BY Zenon DEF PC, RegisteredPC, WakingPC, BitWakingPC, Result
<1>0. CASE UNCHANGED vars
  BY <1>0, Zenon DEF vars, TypeOK
<1>1. CASE Dtor
  <2>1. awaits' \in [Addr -> Entry(Chan)] /\ bitAwaits' \in [Mask -> Entry(BitChan)]
    BY <1>1, Zenon DEF Dtor, TypeOK, Entry, Absent
  <2>2. closed' \subseteq Chan \cup BitChan
    BY <1>1 DEF Dtor, TypeOK, Entry
  <2>3. live' \in BOOLEAN
    BY Zenon, <1>1 DEF Dtor
  <2> QED BY <1>1, <2>1, <2>2, <2>3, Zenon DEF Dtor, TypeOK
<1>2. ASSUME NEW t \in Thread, Guest(t) PROVE TypeOK'
  <2>1. ASSUME NEW a \in Addr, NEW v \in Value, Store(t, a, v) PROVE TypeOK'
    BY <2>1, Zenon DEF Store, TypeOK, maps
  <2>2. ASSUME NEW c \in Call, WaitCheck(t, c) PROVE TypeOK'
    <3>1. CASE Return(t, "EFAULT") \/ Return(t, "EAGAIN")
      BY <2>2, <3>1, <1>p, ReturnType, Zenon DEF WaitCheck, TypeOK, maps
    <3>2. CASE ~(Return(t, "EFAULT") \/ Return(t, "EAGAIN"))
      BY <2>2, <3>2, <1>p DEF WaitCheck, TypeOK, maps
    <3> QED BY <3>1, <3>2, Zenon
  <2>3. CASE Wait(t)
    <3>1. \A a \in Addr, v \in Value, tm \in Timed :
            [op |-> "WAIT", uaddr |-> a, val |-> v, timed |-> tm, val3 |-> {}] \in Call
      BY Zenon DEF Call
    <3> QED BY <2>2, <2>3, <3>1, Zenon DEF Wait
  <2>4. CASE WaitBitset(t)
    <3>1. \A a \in Addr, v \in Value, tm \in Timed, m \in Mask :
            [op |-> "WAIT_BITSET", uaddr |-> a, val |-> v, timed |-> tm, val3 |-> m] \in Call
      BY Zenon DEF Call
    <3> QED BY <2>2, <2>4, <3>1, Zenon DEF WaitBitset
  <2>5. CASE Wake(t)
    <3>1. PICK a \in Addr, n \in Count : Wake(t)!2!(a, n)
      BY <2>5, Zenon DEF Wake
    <3>2. CASE awaits[a].ch = NoChan
      BY <2>5, <3>1, <3>2, <1>p, ReturnType, Zenon DEF Wake, TypeOK, maps
    <3>3. CASE awaits[a].ch # NoChan
      <4>1. [op |-> "WAKE", uaddr |-> a, val |-> n, timed |-> FALSE, val3 |-> {}] \in Call
        BY Zenon DEF Call
      <4>2. loc' \in [Thread -> Local]
        <5>1. awaits[a].ch \in Chan
          BY <3>3, Zenon DEF TypeOK, Entry
        <5>2. loc' = [loc EXCEPT ![t].ch1 = awaits[a].ch]
          BY <3>1, <3>3, Zenon
        <5> QED BY Zenon, <5>1, <5>2, LocalType
      <4>3. asleep' \in [Thread -> SUBSET Thread]
        BY <3>1, <3>3 DEF TypeOK, Waiters
      <4>4. call' \in [Thread -> Call] /\ ret' \in [Thread -> Result]
        <5>1. /\ ret' = [ret EXCEPT ![t] = "none"]
              /\ call' = [call EXCEPT ![t] = [op |-> "WAKE", uaddr |-> a, val |-> n,
                                              timed |-> FALSE, val3 |-> {}]]
          BY <3>1, <3>3, Zenon
        <5> QED BY <5>1, <4>1, <1>p, Zenon DEF TypeOK
      <4>5. pc' \in [Thread -> PC]
        BY <3>1, <3>3, <1>p DEF TypeOK
      <4> QED BY <2>5, <4>2, <4>3, <4>4, <4>5, Zenon DEF Wake, TypeOK, maps
    <3> QED BY <3>2, <3>3, Zenon
  <2>6. CASE WakeBitset(t)
    <3>1. call' \in [Thread -> Call]
      BY <2>6 DEF WakeBitset, TypeOK, Call
    <3>2. loc' \in [Thread -> Local]
      <4>1. PICK S \in SUBSET Mask : loc' = [loc EXCEPT ![t].todo = S]
        BY Zenon, <2>6 DEF WakeBitset
      <4> QED BY Zenon, <4>1, LocalType
    <3>3. asleep' \in [Thread -> SUBSET Thread]
      BY <2>6 DEF WakeBitset, TypeOK
    <3> QED BY <2>6, <3>1, <3>2, <3>3, <1>p, Zenon DEF WakeBitset, TypeOK, maps
  <2>7. CASE CmpRequeue(t) \/ Unsupported(t)
    BY <2>7, <1>p, ReturnType, Zenon DEF CmpRequeue, Unsupported, TypeOK, maps
  <2> QED BY <1>2, <2>1, <2>3, <2>4, <2>5, <2>6, <2>7, Zenon DEF Guest
<1>3. ASSUME NEW t \in Thread, Step(t) PROVE TypeOK'
  <2>1. CASE TimerFault(t) \/ AddNilMap(t)
    BY <2>1, <1>p, ReturnType, Zenon DEF TimerFault, AddNilMap, TypeOK, maps
  <2>2. CASE AddAwait(t)
    <3>0. NewChan \in Chan /\ call[t].uaddr \in Addr
      BY <2>2, NewChanFresh, Zenon DEF AddAwait, ControlInv, ThreadInv
    <3>1. awaits' \in [Addr -> Entry(Chan)]
      BY <2>2, <3>0, RefType, Zenon DEF AddAwait
    <3>2. loc' \in [Thread -> Local]
      <4>1. awaits'[call[t].uaddr].ch \in Chan
        BY <2>2, <3>0, ConstantsAssumption, Zenon DEF AddAwait, Ref, TypeOK, Entry
      <4> QED BY Zenon, <2>2, <4>1, LocalType DEF AddAwait
    <3> QED BY <2>2, <3>1, <3>2, <1>p, Zenon DEF AddAwait, TypeOK
  <2>3. CASE AddBitAwait(t)
    <3>0. /\ NewChan \in Chan /\ call[t].uaddr \in Addr
          /\ NewBitChan \in BitChan /\ call[t].val3 \in Mask
      BY <2>3, NewChanFresh, NewBitChanFresh, Zenon DEF AddBitAwait, ControlInv, ThreadInv
    <3>1. awaits' \in [Addr -> Entry(Chan)] /\ bitAwaits' \in [Mask -> Entry(BitChan)]
      BY <2>3, <3>0, RefType, BitRefType, Zenon DEF AddBitAwait
    <3>2. loc' \in [Thread -> Local]
      <4>1. awaits'[call[t].uaddr].ch \in Chan
        BY <2>3, <3>0, ConstantsAssumption, Zenon DEF AddBitAwait, Ref, TypeOK, Entry
      <4>2. bitAwaits'[call[t].val3].ch \in BitChan
        BY <2>3, <3>0, ConstantsAssumption, Zenon DEF AddBitAwait, Ref, TypeOK, Entry
      <4> QED BY ZenonT(30), <2>3, <4>1, <4>2, LocalType DEF AddBitAwait
    <3> QED BY <2>3, <3>1, <3>2, <1>p, Zenon DEF AddBitAwait, TypeOK
  <2>4. CASE Park(t) \/ SelectBitClosed(t)
    BY <2>4, <1>p DEF Park, SelectBitClosed, Awake, TypeOK, maps
  <2>5. CASE SelectTimeout(t) \/ SelectClosed(t)
    BY <2>5, <1>p, LeaveType, Zenon DEF SelectTimeout, SelectClosed
  <2>6. CASE Recheck(t)
    <3>1. CASE Leave(t, "EFAULT") \/ Leave(t, "ok")
      BY <3>1, <1>p, LeaveType, Zenon
    <3>2. CASE ~(Leave(t, "EFAULT") \/ Leave(t, "ok"))
      BY <2>6, <3>2, <1>p, Zenon DEF Recheck, TypeOK, maps
    <3> QED BY <3>1, <3>2, Zenon
  <2>7. CASE DelAwait(t)
    <3>1. /\ call[t].uaddr \in Addr
          /\ call[t].op = "WAIT_BITSET" => call[t].val3 \in Mask
      BY <2>7, Zenon DEF DelAwait, ControlInv, ThreadInv, RegisteredPC
    <3>2. awaits' \in [Addr -> Entry(Chan)]
      BY <2>7, <3>1, UnrefType, Zenon DEF DelAwait
    <3>3. bitAwaits' \in [Mask -> Entry(BitChan)]
      BY <2>7, <3>1, BitUnrefType, Zenon DEF DelAwait, TypeOK
    <3>4. ret[t] \in Result
      BY Zenon DEF TypeOK
    <3> QED BY <2>7, <3>2, <3>3, <3>4, ReturnType, Zenon DEF DelAwait, TypeOK
  <2>8. CASE WakeRead(t)
    <3>1. CASE Return(t, "EFAULT")
      BY <2>8, <3>1, <1>p, ReturnType, Zenon DEF WakeRead, TypeOK, maps
    <3>2. CASE ~Return(t, "EFAULT")
      <4>1. mem[call[t].uaddr] \in Int
        BY <2>8, Zenon DEF WakeRead, ControlInv, ThreadInv, WakingPC, TypeOK
      <4>2. loc' \in [Thread -> Local]
        <5>1. loc' = [loc EXCEPT ![t].raw = mem[call[t].uaddr]]
          BY <2>8, <3>2, Zenon DEF WakeRead
        <5> QED BY Zenon, <4>1, <5>1, LocalType
      <4> QED BY <2>8, <3>2, <4>2, <1>p DEF WakeRead, TypeOK, maps
    <3> QED BY <3>1, <3>2, Zenon
  <2>9. CASE WakeDone(t) \/ WakePanic(t)
    BY <2>9, <1>p, ReturnType, Zenon DEF WakeDone, WakePanic, TypeOK, maps
  <2>10. CASE BitPick(t)
    <3>1. CASE Return(t, "ok")
      <4>1. readers' \in SUBSET Thread /\ asleep' \in [Thread -> SUBSET Thread]
        BY Zenon, <2>10 DEF BitPick, TypeOK
      <4> QED BY <2>10, <3>1, <4>1, <1>p, ReturnType, Zenon DEF BitPick, TypeOK, maps
    <3>2. CASE ~Return(t, "ok")
      <4>1. PICK m \in loc[t].todo :
              /\ pc' = [pc EXCEPT ![t] = "bitSend"]
              /\ loc' = [loc EXCEPT ![t].ch2 = bitAwaits[m].ch,
                                    ![t].todo = loc[t].todo \ {m}]
              /\ UNCHANGED <<readers, call, ret, asleep>>
        BY <2>10, <3>2, Zenon DEF BitPick
      <4>2. loc[t].todo \ {m} \in SUBSET Mask /\ m \in Mask
        BY Zenon DEF TypeOK, Local
      <4>3. bitAwaits[m].ch \in BitChan \cup {NoChan}
        BY <4>2, Zenon DEF TypeOK, Entry
      <4>4. loc' \in [Thread -> Local]
        BY Zenon, <4>1, <4>2, <4>3, LocalType
      <4> QED BY Zenon, <2>10, <4>1, <4>4, <1>p DEF BitPick, TypeOK, maps
    <3> QED BY <3>1, <3>2, Zenon
  <2>11. CASE BitNext(t)
    BY <2>11, <1>p, ReturnType DEF BitNext, TypeOK, maps
  <2>12. ASSUME NEW w \in Thread, WakeSend(t, w) \/ BitSend(t, w) PROVE TypeOK'
    <3>1. loc' \in [Thread -> Local]
      <4>1. loc' = [loc EXCEPT ![t].sent = loc[t].sent + 1]
        BY <2>12, Zenon DEF WakeSend, BitSend
      <4> QED BY <4>1, LocalType, Zenon
    <3> QED BY <2>12, <3>1, <1>p DEF WakeSend, BitSend, Awake, TypeOK, maps
  <2> QED BY <1>3, <2>1, <2>2, <2>3, <2>4, <2>5, <2>6, <2>7, <2>8, <2>9, <2>10,
             <2>11, <2>12, Zenon DEF Step
<1> QED BY <1>0, <1>1, <1>2, <1>3, Zenon DEF Next

\* The locals of every thread fit where it is, after every step.
LEMMA ControlStep == TypeOK /\ ControlInv /\ [Next]_vars => ControlInv'
<1> SUFFICES ASSUME TypeOK, ControlInv, [Next]_vars PROVE ControlInv'
  BY Zenon
<1> USE ConstantsAssumption
<1> USE DEF RegisteredPC, WakingPC, BitWakingPC
<1>t. /\ pc \in [Thread -> PC] /\ call \in [Thread -> Call] /\ loc \in [Thread -> Local]
      /\ \A u \in Thread : ThreadInv(u)
      /\ readers = {u \in Thread : pc[u] \in BitWakingPC}
  BY Zenon DEF TypeOK, ControlInv
<1>0. CASE UNCHANGED <<readers, pc, call, loc>>
  BY <1>0, Zenon DEF ControlInv, ThreadInv
<1>1. ASSUME NEW t \in Thread, ThreadInv(t)',
             \A u \in Thread \ {t} : pc'[u] = pc[u] /\ call'[u] = call[u] /\ loc'[u] = loc[u],
             readers' = {u \in Thread : pc'[u] \in BitWakingPC}
      PROVE  ControlInv'
  BY <1>1, <1>t DEF ControlInv, ThreadInv
<1>2. ASSUME NEW t \in Thread, NEW r, Return(t, r) \/ Panic(t, r), readers' = readers \ {t}
      PROVE  ControlInv'
  <2>1. pc'[t] \in {"user", "panicked"} /\ loc'[t] = Unset
    BY <1>2, <1>t, Zenon DEF Return, Panic
  <2>2. ThreadInv(t)'
    BY <2>1, Zenon DEF ThreadInv
  <2>3. \A u \in Thread \ {t} : pc'[u] = pc[u] /\ call'[u] = call[u] /\ loc'[u] = loc[u]
    BY <1>2, <1>t, Zenon DEF Return, Panic
  <2>4. readers' = {u \in Thread : pc'[u] \in BitWakingPC}
    BY <1>2, <1>t, <2>1, <2>3, Zenon
  <2> QED BY <1>1, <2>2, <2>3, <2>4, Zenon
<1>3. ASSUME NEW t \in Thread, NEW p, pc' = [pc EXCEPT ![t] = p],
             ThreadInv(t)', p \in BitWakingPC <=> pc[t] \in BitWakingPC,
             \A u \in Thread \ {t} : call'[u] = call[u] /\ loc'[u] = loc[u],
             readers' = readers
      PROVE  ControlInv'
  <2>1. \A u \in Thread \ {t} : pc'[u] = pc[u]
    BY <1>3, <1>t, Zenon
  <2>2. readers' = {u \in Thread : pc'[u] \in BitWakingPC}
    BY <1>3, <1>t, Zenon
  <2> QED BY <1>1, <1>3, <2>1, <2>2, Zenon
<1>4. ASSUME NEW t \in Thread, NEW r, Leave(t, r), pc[t] \in RegisteredPC PROVE ControlInv'
  BY Zenon, <1>3, <1>4, <1>t DEF Leave, ThreadInv, maps
<1>5. ASSUME NEW t \in Thread, Guest(t) PROVE ControlInv'
  <2>0. pc[t] = "user" /\ loc[t] = Unset /\ t \notin readers
    BY <1>5, <1>t, Zenon DEF Guest, Store, Wait, WaitBitset, WaitCheck, Wake, WakeBitset,
                      CmpRequeue, Unsupported, ThreadInv
  <2>1. ASSUME NEW a \in Addr, NEW v \in Value, Store(t, a, v) PROVE ControlInv'
    BY <1>0, <2>1, Zenon DEF Store
  <2>2. ASSUME NEW c, WaitCheck(t, c), c.op \in {"WAIT", "WAIT_BITSET"}, c.uaddr \in Addr,
               c.op = "WAIT_BITSET" => c.val3 \in Mask
        PROVE  ControlInv'
    <3>1. CASE Return(t, "EFAULT") \/ Return(t, "EAGAIN")
      BY <1>2, <2>0, <2>2, <3>1, Zenon DEF WaitCheck
    <3>2. CASE ~(Return(t, "EFAULT") \/ Return(t, "EAGAIN"))
      <4>1. /\ pc' = [pc EXCEPT ![t] = "checked"] /\ call' = [call EXCEPT ![t] = c]
            /\ UNCHANGED <<loc, readers>>
        BY <2>2, <3>2, Zenon DEF WaitCheck
      <4>2. ThreadInv(t)'
        BY <2>0, <2>2, <4>1, <1>t, Zenon DEF ThreadInv
      <4> QED BY Zenon, <1>3, <1>t, <2>0, <4>1, <4>2
    <3> QED BY <3>1, <3>2, Zenon
  <2>3. CASE Wait(t)
    BY <2>2, <2>3, Zenon DEF Wait
  <2>4. CASE WaitBitset(t)
    BY <2>2, <2>4, Zenon DEF WaitBitset
  <2>5. CASE Wake(t)
    <3>1. PICK a \in Addr, n \in Count : Wake(t)!2!(a, n)
      BY <2>5, Zenon DEF Wake
    <3>2. CASE awaits[a].ch = NoChan
      BY <1>2, <2>0, <2>5, <3>1, <3>2 DEF Wake
    <3>3. CASE awaits[a].ch # NoChan
      <4>1. /\ pc' = [pc EXCEPT ![t] = "gotAwait"]
            /\ loc' = [loc EXCEPT ![t].ch1 = awaits[a].ch]
            /\ call' = [call EXCEPT ![t] = [op |-> "WAKE", uaddr |-> a, val |-> n,
                                            timed |-> FALSE, val3 |-> {}]]
        BY <3>1, <3>3, Zenon
      <4>2. loc'[t].ch1 = awaits[a].ch /\ loc'[t].ch2 = NoChan
        BY <2>0, <4>1, <1>t DEF Unset
      <4>3. ThreadInv(t)'
        BY <3>3, <4>1, <4>2, <1>t, Zenon DEF ThreadInv
      <4>4. \A u \in Thread \ {t} : call'[u] = call[u] /\ loc'[u] = loc[u]
        BY <4>1, <1>t, Zenon
      <4> QED BY Zenon, <1>3, <2>0, <2>5, <4>1, <4>3, <4>4 DEF Wake
    <3> QED BY <3>2, <3>3, Zenon
  <2>6. CASE WakeBitset(t)
    <3>1. /\ pc' = [pc EXCEPT ![t] = "bitPick"] /\ readers' = readers \cup {t}
          /\ \E c : call' = [call EXCEPT ![t] = c]
          /\ \E S : loc' = [loc EXCEPT ![t].todo = S]
      BY Zenon, <2>6 DEF WakeBitset
    <3>2. ThreadInv(t)'
      BY <3>1, <1>t, Zenon DEF ThreadInv
    <3>3. \A u \in Thread \ {t} : pc'[u] = pc[u] /\ call'[u] = call[u] /\ loc'[u] = loc[u]
      BY <3>1, <1>t, Zenon
    <3>4. readers' = {u \in Thread : pc'[u] \in BitWakingPC}
      BY <3>1, <1>t, Zenon
    <3> QED BY <1>1, <3>2, <3>3, <3>4, Zenon
  <2>7. CASE CmpRequeue(t) \/ Unsupported(t)
    BY <1>2, <2>0, <2>7, Zenon DEF CmpRequeue, Unsupported
  <2> QED BY <1>5, <2>1, <2>3, <2>4, <2>5, <2>6, <2>7, Zenon DEF Guest
<1>6. ASSUME NEW t \in Thread, Step(t) PROVE ControlInv'
  <2>0. ThreadInv(t) /\ (pc[t] \notin BitWakingPC => t \notin readers)
    BY <1>t, Zenon
  <2>1. CASE TimerFault(t) \/ AddNilMap(t)
    BY <1>2, <2>0, <2>1, Zenon DEF TimerFault, AddNilMap
  <2>2. CASE AddAwait(t)
    <3>1. NewChan # NoChan
      BY <2>2, NewChanFresh, Zenon DEF AddAwait
    <3>2. awaits'[call[t].uaddr].ch # NoChan
      BY <2>0, <2>2, <3>1, Zenon DEF AddAwait, Ref, TypeOK, ThreadInv
    <3>3. loc'[t].ch1 = awaits'[call[t].uaddr].ch /\ loc'[t].ch2 = NoChan
      BY <2>0, <2>2, <1>t DEF AddAwait, ThreadInv, Unset
    <3>4. ThreadInv(t)'
      BY <2>0, <2>2, <3>2, <3>3, <1>t, Zenon DEF AddAwait, ThreadInv
    <3>5. \A u \in Thread \ {t} : call'[u] = call[u] /\ loc'[u] = loc[u]
      BY <2>2, <1>t, Zenon DEF AddAwait
    <3> QED BY Zenon, <1>3, <2>2, <3>4, <3>5 DEF AddAwait
  <2>3. CASE AddBitAwait(t)
    <3>1. NewChan # NoChan /\ NewBitChan # NoChan
      BY <2>3, NewChanFresh, NewBitChanFresh, Zenon DEF AddBitAwait
    <3>2. awaits'[call[t].uaddr].ch # NoChan /\ bitAwaits'[call[t].val3].ch # NoChan
      BY <2>0, <2>3, <3>1, Zenon DEF AddBitAwait, Ref, TypeOK, ThreadInv
    <3>3. /\ loc'[t].ch1 = awaits'[call[t].uaddr].ch
          /\ loc'[t].ch2 = bitAwaits'[call[t].val3].ch
      BY <2>0, <2>3, <1>t, Zenon DEF AddBitAwait, ThreadInv, Unset
    <3>4. ThreadInv(t)'
      BY <2>0, <2>3, <3>2, <3>3, <1>t, Zenon DEF AddBitAwait, ThreadInv
    <3>5. \A u \in Thread \ {t} : call'[u] = call[u] /\ loc'[u] = loc[u]
      BY <2>3, <1>t, Zenon DEF AddBitAwait
    <3> QED BY Zenon, <1>3, <2>3, <3>4, <3>5 DEF AddBitAwait
  <2>4. CASE Park(t) \/ SelectBitClosed(t)
    <3>1. PICK p \in RegisteredPC : pc' = [pc EXCEPT ![t] = p]
      BY <2>4, Zenon DEF Park, SelectBitClosed
    <3>2. ThreadInv(t)'
      BY <2>0, <2>4, <3>1, <1>t, Zenon DEF Park, SelectBitClosed, ThreadInv
    <3> QED BY Zenon, <1>3, <2>4, <3>1, <3>2 DEF Park, SelectBitClosed
  <2>5. CASE SelectTimeout(t) \/ SelectClosed(t)
    BY <1>4, <2>5, Zenon DEF SelectTimeout, SelectClosed
  <2>6. CASE Recheck(t)
    <3>1. CASE Leave(t, "EFAULT") \/ Leave(t, "ok")
      BY <1>4, <2>6, <3>1, Zenon DEF Recheck
    <3>2. CASE ~(Leave(t, "EFAULT") \/ Leave(t, "ok"))
      BY <1>3, <2>0, <2>6, <3>2, <1>t, Zenon DEF Recheck, ThreadInv
    <3> QED BY <3>1, <3>2, Zenon
  <2>7. CASE DelAwait(t)
    BY <1>2, <2>0, <2>7, Zenon DEF DelAwait
  <2>8. CASE WakeRead(t)
    <3>1. CASE Return(t, "EFAULT")
      BY <1>2, <2>0, <2>8, <3>1, Zenon DEF WakeRead
    <3>2. CASE ~Return(t, "EFAULT")
      <4>1. /\ pc' = [pc EXCEPT ![t] = "waking"] /\ pc[t] = "gotAwait"
            /\ loc' = [loc EXCEPT ![t].raw = mem[call[t].uaddr]]
            /\ UNCHANGED <<call, readers>>
        BY <2>8, <3>2, Zenon DEF WakeRead
      <4>2. /\ loc'[t].ch1 = loc[t].ch1 /\ loc'[t].ch2 = loc[t].ch2
            /\ \A u \in Thread \ {t} : loc'[u] = loc[u]
        BY <4>1, <1>t, Zenon DEF Local
      <4>3. ThreadInv(t)'
        BY <2>0, <4>1, <4>2, <1>t, Zenon DEF ThreadInv
      <4> QED BY Zenon, <1>3, <4>1, <4>2, <4>3
    <3> QED BY <3>1, <3>2, Zenon
  <2>9. CASE WakeDone(t) \/ WakePanic(t)
    BY <1>2, <2>0, <2>9, Zenon DEF WakeDone, WakePanic
  <2>10. CASE BitPick(t)
    <3>1. CASE Return(t, "ok") /\ readers' = readers \ {t}
      BY <1>2, <3>1, Zenon
    <3>2. CASE ~(Return(t, "ok") /\ readers' = readers \ {t})
      <4>1. /\ pc' = [pc EXCEPT ![t] = "bitSend"] /\ pc[t] = "bitPick"
            /\ \E d, S : loc' = [loc EXCEPT ![t].ch2 = d, ![t].todo = S]
            /\ UNCHANGED <<call, readers>>
        BY Zenon, <2>10, <3>2 DEF BitPick
      <4>2. \A u \in Thread \ {t} : loc'[u] = loc[u]
        BY <4>1, <1>t, Zenon
      <4>3. ThreadInv(t)'
        BY <4>1, <1>t, Zenon DEF ThreadInv
      <4> QED BY Zenon, <1>3, <4>1, <4>2, <4>3
    <3> QED BY <3>1, <3>2, Zenon
  <2>11. CASE BitNext(t)
    <3>1. CASE Return(t, "ok") /\ readers' = readers \ {t}
      BY <1>2, <3>1, Zenon
    <3>2. CASE ~(Return(t, "ok") /\ readers' = readers \ {t})
      BY <1>3, <2>11, <3>2, <1>t, Zenon DEF BitNext, ThreadInv
    <3> QED BY <3>1, <3>2, Zenon
  <2>12. ASSUME NEW w \in Thread, WakeSend(t, w) \/ BitSend(t, w) PROVE ControlInv'
    <3>1. /\ pc[w] = "parked" /\ pc[t] # "parked" /\ pc'[w] \in RegisteredPC
          /\ loc' = [loc EXCEPT ![t].sent = loc[t].sent + 1]
          /\ UNCHANGED <<call, readers>>
          /\ \A u \in Thread \ {w} : pc'[u] = pc[u]
      BY <2>12, <1>t, Zenon DEF WakeSend, BitSend, ParkedOn, ParkedOnBit
    <3>2. /\ loc'[t].ch1 = loc[t].ch1 /\ loc'[t].ch2 = loc[t].ch2
          /\ \A u \in Thread \ {t} : loc'[u] = loc[u]
      BY <3>1, <1>t, Zenon DEF Local
    <3>3. ThreadInv(w)' /\ ThreadInv(t)'
      <4>1. pc[t] \in {"waking", "bitSend"}
        BY <2>12, Zenon DEF WakeSend, BitSend
      <4> QED BY <3>1, <3>2, <4>1, <1>t, Zenon DEF ThreadInv
    <3>4. \A u \in Thread \ {t, w} : ThreadInv(u)'
      BY <3>1, <3>2, <1>t, Zenon DEF ThreadInv
    <3>5. readers' = {u \in Thread : pc'[u] \in BitWakingPC}
      BY <3>1, <1>t, Zenon
    <3> QED BY <3>3, <3>4, <3>5, Zenon DEF ControlInv
  <2> QED BY <1>6, <2>1, <2>2, <2>3, <2>4, <2>5, <2>6, <2>7, <2>8, <2>9, <2>10,
             <2>11, <2>12, Zenon DEF Step
<1>7. CASE Dtor
  BY <1>0, <1>7, Zenon DEF Dtor
<1>8. CASE UNCHANGED vars
  BY <1>0, <1>8, Zenon DEF vars
<1> QED BY <1>5, <1>6, <1>7, <1>8, Zenon DEF Next

(***************************************************************************)
(* Which steps touch the registry.  All but four keep the waiters, their   *)
(* channels and the maps.                                                  *)
(***************************************************************************)
SameWaiters ==
  \A u \in Thread :
    /\ pc'[u] \in RegisteredPC <=> pc[u] \in RegisteredPC
    /\ pc[u] \in RegisteredPC =>
         call'[u] = call[u] /\ loc'[u].ch1 = loc[u].ch1 /\ loc'[u].ch2 = loc[u].ch2

\* Only dtor, addAwait, addBitAwait, delAwait and delBitAwait write the maps or
\* the set of waiters.
LEMMA RegistrySteps ==
  ASSUME TypeOK, ControlInv, [Next]_vars
  PROVE  \/ Dtor
         \/ \E t \in Thread : AddAwait(t) \/ AddBitAwait(t) \/ DelAwait(t)
         \/ SameWaiters /\ UNCHANGED maps
<1> USE DEF RegisteredPC, WakingPC, BitWakingPC
<1> DEFINE Quiet == SameWaiters /\ UNCHANGED maps
<1>t. /\ pc \in [Thread -> PC] /\ call \in [Thread -> Call] /\ loc \in [Thread -> Local]
  BY Zenon DEF TypeOK
<1>1. ASSUME NEW t \in Thread, NEW r, Return(t, r) \/ Panic(t, r),
             pc[t] \notin RegisteredPC
      PROVE  SameWaiters
  BY <1>1, <1>t, Zenon DEF SameWaiters, Return, Panic
<1>2. ASSUME NEW t \in Thread, NEW p, pc' = [pc EXCEPT ![t] = p],
             p \in RegisteredPC <=> pc[t] \in RegisteredPC,
             \A u \in Thread : pc[u] \in RegisteredPC =>
               call'[u] = call[u] /\ loc'[u].ch1 = loc[u].ch1 /\ loc'[u].ch2 = loc[u].ch2
      PROVE  SameWaiters
  BY <1>2, <1>t, Zenon DEF SameWaiters
<1>3. ASSUME NEW t \in Thread, NEW r, Leave(t, r), pc[t] \in RegisteredPC PROVE Quiet
  BY Zenon, <1>2, <1>3 DEF Leave
<1>4. ASSUME NEW t \in Thread, Guest(t) PROVE Quiet
  <2>1. ASSUME NEW a \in Addr, NEW v \in Value, Store(t, a, v) PROVE Quiet
    BY <2>1, Zenon DEF Store, SameWaiters
  <2>2. ASSUME NEW c, WaitCheck(t, c) PROVE Quiet
    <3>1. CASE Return(t, "EFAULT") \/ Return(t, "EAGAIN")
      BY <1>1, <2>2, <3>1, Zenon DEF WaitCheck
    <3>2. CASE ~(Return(t, "EFAULT") \/ Return(t, "EAGAIN"))
      BY <1>2, <2>2, <3>2, <1>t, Zenon DEF WaitCheck
    <3> QED BY <3>1, <3>2, Zenon
  <2>3. CASE Wait(t) \/ WaitBitset(t)
    BY Zenon, <2>2, <2>3 DEF Wait, WaitBitset
  <2>4. CASE Wake(t)
    <3>1. PICK a \in Addr, n \in Count : Wake(t)!2!(a, n)
      BY <2>4, Zenon DEF Wake
    <3>2. CASE awaits[a].ch = NoChan
      BY <1>1, <2>4, <3>1, <3>2, Zenon DEF Wake
    <3>3. CASE awaits[a].ch # NoChan
      <4>1. /\ pc' = [pc EXCEPT ![t] = "gotAwait"] /\ pc[t] = "user"
            /\ \A u \in Thread \ {t} : call'[u] = call[u] /\ loc'[u] = loc[u]
        BY <2>4, <3>1, <3>3, <1>t, Zenon DEF Wake
      <4> QED BY Zenon, <1>2, <2>4, <4>1 DEF Wake
    <3> QED BY <3>2, <3>3, Zenon
  <2>5. CASE WakeBitset(t)
    <3>1. /\ pc' = [pc EXCEPT ![t] = "bitPick"] /\ pc[t] = "user"
          /\ \A u \in Thread \ {t} : call'[u] = call[u] /\ loc'[u] = loc[u]
      BY <2>5, <1>t, Zenon DEF WakeBitset
    <3>2. SameWaiters
      BY Zenon, <1>2, <3>1
    <3> QED BY <2>5, <3>2, Zenon DEF WakeBitset
  <2>6. CASE CmpRequeue(t) \/ Unsupported(t)
    BY <1>1, <2>6, Zenon DEF CmpRequeue, Unsupported
  <2> QED BY <1>4, <2>1, <2>3, <2>4, <2>5, <2>6, Zenon DEF Guest
<1>5. ASSUME NEW t \in Thread, Step(t),
             ~(AddAwait(t) \/ AddBitAwait(t) \/ DelAwait(t))
      PROVE  Quiet
  <2>1. CASE TimerFault(t) \/ AddNilMap(t) \/ WakeDone(t) \/ WakePanic(t)
    BY <1>1, <2>1, Zenon DEF TimerFault, AddNilMap, WakeDone, WakePanic
  <2>2. CASE Park(t) \/ SelectBitClosed(t)
    <3>1. CASE Park(t)
      BY Zenon, <1>2, <3>1 DEF Park
    <3>2. CASE SelectBitClosed(t)
      BY Zenon, <1>2, <3>2 DEF SelectBitClosed
    <3> QED BY <2>2, <3>1, <3>2, Zenon
  <2>3. CASE SelectTimeout(t) \/ SelectClosed(t)
    BY <1>3, <2>3, Zenon DEF SelectTimeout, SelectClosed
  <2>4. CASE Recheck(t)
    BY <1>2, <1>3, <2>4, Zenon DEF Recheck
  <2>5. CASE WakeRead(t)
    <3>1. CASE Return(t, "EFAULT")
      BY <1>1, <2>5, <3>1, Zenon DEF WakeRead
    <3>2. CASE ~Return(t, "EFAULT")
      <4>1. /\ pc' = [pc EXCEPT ![t] = "waking"] /\ pc[t] = "gotAwait"
            /\ \A u \in Thread \ {t} : loc'[u] = loc[u]
            /\ call' = call
        BY <2>5, <3>2, <1>t, Zenon DEF WakeRead
      <4> QED BY Zenon, <1>2, <2>5, <4>1 DEF WakeRead
    <3> QED BY <3>1, <3>2, Zenon
  <2>6. CASE BitPick(t)
    <3>1. CASE Return(t, "ok")
      BY <1>1, <2>6, <3>1, Zenon DEF BitPick
    <3>2. CASE ~Return(t, "ok")
      <4>1. /\ pc' = [pc EXCEPT ![t] = "bitSend"] /\ pc[t] = "bitPick"
            /\ \A u \in Thread \ {t} : loc'[u] = loc[u]
            /\ call' = call
        BY Zenon, <2>6, <3>2, <1>t DEF BitPick
      <4> QED BY Zenon, <1>2, <2>6, <4>1 DEF BitPick
    <3> QED BY <3>1, <3>2, Zenon
  <2>7. CASE BitNext(t)
    BY <1>1, <1>2, <2>7, Zenon DEF BitNext
  <2>8. ASSUME NEW w \in Thread, WakeSend(t, w) \/ BitSend(t, w) PROVE Quiet
    <3>1. /\ pc[w] = "parked" /\ pc[t] \notin RegisteredPC
          /\ \E p \in RegisteredPC : pc' = [pc EXCEPT ![w] = p]
          /\ \A u \in Thread \ {t} : loc'[u] = loc[u]
          /\ call' = call
      BY <2>8, <1>t, Zenon DEF WakeSend, BitSend, ParkedOn, ParkedOnBit
    <3> QED BY Zenon, <1>2, <2>8, <3>1 DEF WakeSend, BitSend
  <2> QED BY <1>5, <2>1, <2>2, <2>3, <2>4, <2>5, <2>6, <2>7, <2>8, Zenon DEF Step
<1>6. CASE UNCHANGED vars
  BY <1>6, Zenon DEF vars, SameWaiters, maps
<1> QED BY <1>4, <1>5, <1>6, Zenon DEF Next

=============================================================================
