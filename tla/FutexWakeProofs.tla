--------------------------- MODULE FutexWakeProofs --------------------------
(***************************************************************************)
(* Lemmas about Futex: channels, wakes in progress and dtor.               *)
(***************************************************************************)
EXTENDS FutexTypeProofs

(***************************************************************************)
(* Which steps touch a waker.                                              *)
(***************************************************************************)
\* A thread in FUTEX_WAKE keeps its address and its channel, and it has got
\* them from the map.
LEMMA WakerSteps ==
  ASSUME TypeOK, ControlInv, [Next]_vars, NEW k \in Thread, pc'[k] \in WakingPC
  PROVE  \/ pc[k] \in WakingPC /\ call'[k] = call[k] /\ loc'[k].ch1 = loc[k].ch1
         \/ /\ call'[k].uaddr \in Addr /\ loc'[k].ch1 # NoChan
            /\ awaits[call'[k].uaddr].ch = loc'[k].ch1
            /\ SameWaiters /\ UNCHANGED maps
<1> USE DEF WakingPC
<1>t. /\ pc \in [Thread -> PC] /\ call \in [Thread -> Call] /\ loc \in [Thread -> Local]
  BY Zenon DEF TypeOK
<1> DEFINE Goal == \/ pc[k] \in WakingPC /\ call'[k] = call[k] /\ loc'[k].ch1 = loc[k].ch1
                   \/ /\ call'[k].uaddr \in Addr /\ loc'[k].ch1 # NoChan
                      /\ awaits[call'[k].uaddr].ch = loc'[k].ch1
                      /\ SameWaiters /\ UNCHANGED maps
<1> SUFFICES Goal
  BY Zenon
<1>r. ASSUME NEW t \in Thread, NEW r, Return(t, r) \/ Panic(t, r) PROVE Goal
  BY <1>r, <1>t, Zenon DEF Return, Panic
<1>p. ASSUME NEW t \in Thread, NEW p, p \notin WakingPC, pc' = [pc EXCEPT ![t] = p],
             \A u \in Thread \ {t} : call'[u] = call[u] /\ loc'[u].ch1 = loc[u].ch1
      PROVE  Goal
  BY <1>p, <1>t, Zenon
<1>1. ASSUME NEW t \in Thread, Guest(t) PROVE Goal
  <2>1. ASSUME NEW a \in Addr, NEW v \in Value, Store(t, a, v) PROVE Goal
    BY <2>1, Zenon DEF Store
  <2>2. ASSUME NEW c, WaitCheck(t, c) PROVE Goal
    <3>1. CASE Return(t, "EFAULT") \/ Return(t, "EAGAIN")
      BY <1>r, <3>1, Zenon
    <3>2. CASE ~(Return(t, "EFAULT") \/ Return(t, "EAGAIN"))
      BY <1>p, <2>2, <3>2, <1>t, Zenon DEF WaitCheck
    <3> QED BY <3>1, <3>2, Zenon
  <2>3. CASE Wait(t) \/ WaitBitset(t)
    BY Zenon, <2>2, <2>3 DEF Wait, WaitBitset
  <2>4. CASE Wake(t)
    <3>1. PICK a \in Addr, n \in Count : Wake(t)!2!(a, n)
      BY <2>4, Zenon DEF Wake
    <3>2. CASE awaits[a].ch = NoChan
      BY <1>r, <3>1, <3>2, Zenon
    <3>3. CASE awaits[a].ch # NoChan
      <4>1. /\ pc' = [pc EXCEPT ![t] = "gotAwait"]
            /\ loc' = [loc EXCEPT ![t].ch1 = awaits[a].ch]
            /\ call' = [call EXCEPT ![t] = [op |-> "WAKE", uaddr |-> a, val |-> n,
                                            timed |-> FALSE, val3 |-> {}]]
        BY <3>1, <3>3, Zenon
      <4>2. k # t => Goal
        BY <4>1, <1>t, Zenon
      <4>3. /\ call'[t].uaddr = a
            /\ loc'[t].ch1 = awaits[a].ch
        BY <4>1, <1>t, Zenon DEF Local
      <4>4. UNCHANGED maps /\ pc[t] = "user"
        BY <2>4, Zenon DEF Wake
      <4>5. SameWaiters
        <5>1. \A u \in Thread \ {t} : pc'[u] = pc[u] /\ call'[u] = call[u] /\ loc'[u] = loc[u]
          BY <4>1, <1>t, Zenon
        <5>2. pc'[t] \notin RegisteredPC /\ pc[t] \notin RegisteredPC
          BY <4>1, <4>4, <1>t, Zenon DEF RegisteredPC
        <5> QED BY <5>1, <5>2, Zenon DEF SameWaiters
      <4> QED BY <3>3, <4>2, <4>3, <4>4, <4>5, Zenon
    <3> QED BY <3>2, <3>3, Zenon
  <2>5. CASE WakeBitset(t)
    <3>1. /\ pc' = [pc EXCEPT ![t] = "bitPick"]
          /\ \A u \in Thread \ {t} : call'[u] = call[u] /\ loc'[u] = loc[u]
      BY <2>5, <1>t, Zenon DEF WakeBitset
    <3> QED BY ZenonT(30), <1>p, <3>1
  <2>6. CASE CmpRequeue(t) \/ Unsupported(t)
    BY <1>r, <2>6, Zenon DEF CmpRequeue, Unsupported
  <2> QED BY <1>1, <2>1, <2>3, <2>4, <2>5, <2>6, Zenon DEF Guest
<1>2. ASSUME NEW t \in Thread, Step(t) PROVE Goal
  <2>1. CASE TimerFault(t) \/ AddNilMap(t) \/ WakeDone(t) \/ WakePanic(t) \/ DelAwait(t)
    BY <1>r, <2>1, Zenon DEF TimerFault, AddNilMap, WakeDone, WakePanic, DelAwait
  <2>2. CASE AddAwait(t)
    BY <1>p, <2>2, <1>t, Zenon DEF AddAwait
  <2>3. CASE AddBitAwait(t)
    BY <1>p, <2>3, <1>t, Zenon DEF AddBitAwait
  <2>4. CASE Park(t)
    BY <1>p, <2>4, Zenon DEF Park
  <2>5. CASE SelectBitClosed(t)
    BY <1>p, <2>5, Zenon DEF SelectBitClosed
  <2>6. CASE SelectTimeout(t) \/ SelectClosed(t)
    BY <1>p, <2>6, Zenon DEF SelectTimeout, SelectClosed, Leave
  <2>7. CASE Recheck(t)
    BY <1>p, <2>7, Zenon DEF Recheck, Leave
  <2>8. CASE WakeRead(t)
    <3>1. CASE Return(t, "EFAULT")
      BY <1>r, <3>1, Zenon
    <3>2. CASE ~Return(t, "EFAULT")
      <4>1. /\ pc[t] = "gotAwait" /\ pc' = [pc EXCEPT ![t] = "waking"] /\ call' = call
            /\ loc' = [loc EXCEPT ![t].raw = mem[call[t].uaddr]]
        BY <2>8, <3>2, Zenon DEF WakeRead
      <4>2. loc'[k].ch1 = loc[k].ch1
        BY <4>1, <1>t, Zenon DEF Local
      <4> QED BY <4>1, <4>2, <1>t, Zenon
    <3> QED BY <3>1, <3>2, Zenon
  <2>9. CASE BitPick(t)
    <3>1. CASE Return(t, "ok")
      BY <1>r, <3>1, Zenon
    <3>2. CASE ~Return(t, "ok")
      BY Zenon, <1>p, <2>9, <3>2, <1>t DEF BitPick
    <3> QED BY <3>1, <3>2, Zenon
  <2>10. CASE BitNext(t)
    BY <1>p, <1>r, <2>10, Zenon DEF BitNext
  <2>11. ASSUME NEW w \in Thread, WakeSend(t, w) \/ BitSend(t, w) PROVE Goal
    <3>1. /\ pc[w] = "parked" /\ call' = call
          /\ \E p \in {"leaving", "registered", "recheck"} : pc' = [pc EXCEPT ![w] = p]
          /\ loc' = [loc EXCEPT ![t].sent = loc[t].sent + 1]
      BY <2>11, Zenon DEF WakeSend, BitSend, ParkedOn, ParkedOnBit
    <3>2. loc'[k].ch1 = loc[k].ch1
      BY <3>1, <1>t, Zenon DEF Local
    <3> QED BY <3>1, <3>2, <1>t, Zenon
  <2> QED BY <1>2, <2>1, <2>2, <2>3, <2>4, <2>5, <2>6, <2>7, <2>8, <2>9, <2>10, <2>11, Zenon DEF Step
<1>3. CASE Dtor
  BY <1>3, Zenon DEF Dtor
<1>4. CASE UNCHANGED vars
  BY <1>4, Zenon DEF vars
<1> QED BY <1>1, <1>2, <1>3, <1>4, Zenon DEF Next

\* What addAwait and delAwait do to the channels of the map.
LEMMA RefChan ==
  ASSUME TypeOK, NEW a \in Addr, NEW c, awaits' = Ref(awaits, a, c)
  PROVE  /\ \A b \in Addr \ {a} : awaits'[b].ch = awaits[b].ch
         /\ awaits'[a].ch = IF awaits[a].ch # NoChan THEN awaits[a].ch ELSE c
  BY Zenon DEF Ref, TypeOK

\* The same for addBitAwait.
LEMMA BitRefChan ==
  ASSUME TypeOK, NEW m \in Mask, NEW c, bitAwaits' = Ref(bitAwaits, m, c)
  PROVE  /\ \A n \in Mask \ {m} : bitAwaits'[n].ch = bitAwaits[n].ch
         /\ bitAwaits'[m].ch = IF bitAwaits[m].ch # NoChan THEN bitAwaits[m].ch ELSE c
  BY Zenon DEF Ref, TypeOK

\* delAwait gives no address another channel.
LEMMA UnrefChan ==
  ASSUME TypeOK, NEW a, awaits' = Unref(awaits, a)
  PROVE  \A b \in Addr : awaits'[b].ch \in {awaits[b].ch, NoChan}
  BY Zenon DEF Unref, TypeOK, Absent

\* The same for delBitAwait.
LEMMA BitUnrefChan ==
  ASSUME TypeOK, NEW m, bitAwaits' = Unref(bitAwaits, m)
  PROVE  \A n \in Mask : bitAwaits'[n].ch \in {bitAwaits[n].ch, NoChan}
  BY Zenon DEF Unref, TypeOK, Absent

\* delAwait does nothing to an empty map.
LEMMA UnrefAbsent ==
  ASSUME NEW K, NEW k
  PROVE  Unref([x \in K |-> Absent], k) = [x \in K |-> Absent]
<1> DEFINE f == [x \in K |-> Absent]
<1>1. Unref(f, k) = [f EXCEPT ![k] = IF f[k].ch # NoChan /\ f[k].ref - 1 > 0
                                    THEN [ch |-> f[k].ch, ref |-> f[k].ref - 1] ELSE Absent]
  BY Zenon DEF Unref
<1>2. k \in K => f[k].ch = NoChan
  BY Zenon DEF Absent
<1> QED BY <1>1, <1>2, Zenon

\* Distinct keys keep distinct channels, and a wake never holds a channel that
\* belongs to another address.
LEMMA ChannelStep ==
  TypeOK /\ ControlInv /\ ChannelInv /\ [Next]_vars => ChannelInv'
<1> SUFFICES ASSUME TypeOK, ControlInv, ChannelInv, [Next]_vars PROVE ChannelInv'
  BY Zenon
<1>t. /\ pc \in [Thread -> PC] /\ call \in [Thread -> Call] /\ loc \in [Thread -> Local]
      /\ \A t \in Thread : ThreadInv(t)
  BY Zenon DEF TypeOK, ControlInv
<1> DEFINE Held == \A k \in Thread, a \in Addr :
                     pc[k] \in WakingPC /\ awaits[a].ch = loc[k].ch1 => a = call[k].uaddr
           AddrDistinct == \A a, b \in Addr :
                     awaits[a].ch = awaits[b].ch => a = b \/ awaits[a].ch = NoChan
           MaskDistinct == \A m, n \in Mask :
                     bitAwaits[m].ch = bitAwaits[n].ch => m = n \/ bitAwaits[m].ch = NoChan
<1>c. /\ Held /\ AddrDistinct /\ MaskDistinct /\ (live => closed = {})
      /\ ~live => /\ awaits = [a \in Addr |-> Absent]
                  /\ bitAwaits = [m \in Mask |-> Absent]
  BY Zenon DEF ChannelInv
<1>0. \A k \in Thread : pc[k] \in WakingPC => loc[k].ch1 # NoChan
  BY <1>t, Zenon DEF ThreadInv
<1>1. ASSUME NEW t \in Thread, AddAwait(t) \/ AddBitAwait(t) PROVE ChannelInv'
  <2>0. PICK a0 \in Addr : a0 = call[t].uaddr /\ live /\ pc[t] = "checked"
    BY <1>1, <1>t, Zenon DEF AddAwait, AddBitAwait, ThreadInv
  <2>1. /\ awaits' = Ref(awaits, a0, NewChan) /\ Chan \ UsedChan # {}
        /\ live' = live /\ closed' = closed
    BY Zenon, <1>1, <2>0 DEF AddAwait, AddBitAwait
  <2>2. /\ \A a \in Addr : NewChan # awaits[a].ch
        /\ \A k \in Thread : NewChan # loc[k].ch1
    BY <2>1, NewChanFresh, Zenon DEF UsedChan
  <2>3. /\ \A b \in Addr \ {a0} : awaits'[b].ch = awaits[b].ch
        /\ awaits'[a0].ch = IF awaits[a0].ch # NoChan THEN awaits[a0].ch ELSE NewChan
    BY <2>1, RefChan, Zenon
  <2>4. AddrDistinct'
    BY <1>c, <2>2, <2>3
  <2>5. Held'
    <3>1. ASSUME NEW k \in Thread, pc'[k] \in WakingPC
          PROVE  pc[k] \in WakingPC /\ call'[k] = call[k] /\ loc'[k].ch1 = loc[k].ch1
      BY <1>1, <3>1, <1>t, Zenon DEF AddAwait, AddBitAwait, WakingPC
    <3> QED BY <1>c, <1>0, <2>2, <2>3, <3>1
  <2>6. MaskDistinct'
    <3>1. CASE AddAwait(t)
      BY <1>c, <3>1, Zenon DEF AddAwait
    <3>2. CASE AddBitAwait(t)
      <4>1. PICK m0 \in Mask : m0 = call[t].val3
        BY <3>2, <1>t, Zenon DEF AddBitAwait, ThreadInv
      <4>2. bitAwaits' = Ref(bitAwaits, m0, NewBitChan) /\ BitChan \ UsedBitChan # {}
        BY <3>2, <4>1, Zenon DEF AddBitAwait
      <4>3. \A m \in Mask : NewBitChan # bitAwaits[m].ch
        BY <4>2, NewBitChanFresh, Zenon DEF UsedBitChan
      <4>4. /\ \A n \in Mask \ {m0} : bitAwaits'[n].ch = bitAwaits[n].ch
            /\ bitAwaits'[m0].ch = IF bitAwaits[m0].ch # NoChan THEN bitAwaits[m0].ch
                                                               ELSE NewBitChan
        BY <4>2, BitRefChan, Zenon
      <4> QED BY <1>c, <4>3, <4>4
    <3> QED BY <1>1, <3>1, <3>2, Zenon
  <2> QED BY <1>c, <2>0, <2>1, <2>4, <2>5, <2>6, Zenon DEF ChannelInv
<1>2. ASSUME NEW t \in Thread, DelAwait(t) PROVE ChannelInv'
  <2>1. /\ \A b \in Addr : awaits'[b].ch \in {awaits[b].ch, NoChan}
        /\ live' = live /\ closed' = closed
    BY <1>2, UnrefChan, Zenon DEF DelAwait
  <2>2. \A n \in Mask : bitAwaits'[n].ch \in {bitAwaits[n].ch, NoChan}
    BY <1>2, BitUnrefChan, Zenon DEF DelAwait
  <2>3. AddrDistinct'
    BY <1>c, <2>1, Zenon
  <2>4. MaskDistinct'
    BY <1>c, <2>2, Zenon
  <2>5. Held'
    <3>1. ASSUME NEW k \in Thread, pc'[k] \in WakingPC
          PROVE  pc[k] \in WakingPC /\ call'[k] = call[k] /\ loc'[k].ch1 = loc[k].ch1
      BY <1>2, <3>1, <1>t, Zenon DEF DelAwait, Return, WakingPC
    <3> QED BY <1>c, <1>0, <2>1, <3>1, Zenon
  <2>6. ~live => /\ awaits' = [a \in Addr |-> Absent]
                 /\ bitAwaits' = [m \in Mask |-> Absent]
    BY <1>2, <1>c, UnrefAbsent, Zenon DEF DelAwait
  <2> QED BY <1>c, <2>1, <2>3, <2>4, <2>5, <2>6, Zenon DEF ChannelInv
<1>3. CASE SameWaiters /\ UNCHANGED maps
  <2>1. Held'
    <3>1. SUFFICES ASSUME NEW k \in Thread, NEW a \in Addr, pc'[k] \in WakingPC,
                          awaits[a].ch = loc'[k].ch1
                   PROVE  a = call'[k].uaddr
      BY <1>3, Zenon DEF maps
    <3>2. CASE pc[k] \in WakingPC /\ call'[k] = call[k] /\ loc'[k].ch1 = loc[k].ch1
      BY <1>c, <3>1, <3>2, Zenon
    <3>3. CASE /\ call'[k].uaddr \in Addr /\ loc'[k].ch1 # NoChan
               /\ awaits[call'[k].uaddr].ch = loc'[k].ch1
      BY <1>c, <3>1, <3>3, Zenon
    <3> QED BY <3>1, <3>2, <3>3, WakerSteps, Zenon
  <2> QED BY <1>c, <1>3, <2>1, Zenon DEF ChannelInv, maps
<1>4. CASE Dtor
  <2>1. /\ \A a \in Addr : awaits'[a].ch = NoChan
        /\ \A m \in Mask : bitAwaits'[m].ch = NoChan
    BY <1>4, Zenon DEF Dtor, Absent
  <2>2. Held'
    BY <1>0, <1>4, <2>1, Zenon DEF Dtor
  <2> QED BY <1>4, <2>1, <2>2, Zenon DEF Dtor, ChannelInv
<1> QED BY <1>1, <1>2, <1>3, <1>4, RegistrySteps, Zenon

\* A channel held by a wake is never listened on for another address.
LEMMA WakeAddressStep ==
  TypeOK /\ ControlInv /\ RegistryExact /\ ChannelInv /\ ChannelInv'
    /\ WakeStaysOnAddress /\ [Next]_vars => WakeStaysOnAddress'
<1> SUFFICES ASSUME TypeOK, ControlInv, RegistryExact, ChannelInv, ChannelInv',
                    WakeStaysOnAddress, [Next]_vars,
                    NEW k \in Thread, NEW w \in Thread,
                    pc'[k] \in WakingPC, pc'[w] \in RegisteredPC, loc'[w].ch1 = loc'[k].ch1
             PROVE  call'[w].uaddr = call'[k].uaddr
  BY Zenon DEF WakeStaysOnAddress
<1>t. /\ pc \in [Thread -> PC] /\ call \in [Thread -> Call] /\ loc \in [Thread -> Local]
      /\ \A t \in Thread : ThreadInv(t)
  BY Zenon DEF TypeOK, ControlInv
<1>0. ASSUME pc[w] \in RegisteredPC, call'[w] = call[w], loc'[w].ch1 = loc[w].ch1
      PROVE  call'[w].uaddr = call'[k].uaddr
  <2>1. CASE pc[k] \in WakingPC /\ call'[k] = call[k] /\ loc'[k].ch1 = loc[k].ch1
    BY Zenon, <1>0, <2>1 DEF WakeStaysOnAddress
  <2>2. CASE /\ call'[k].uaddr \in Addr /\ loc'[k].ch1 # NoChan
             /\ awaits[call'[k].uaddr].ch = loc'[k].ch1
    <3>1. live
      BY <2>2 DEF ChannelInv, Absent
    <3>2. call[w].uaddr \in Addr /\ w \in Waiters(call[w].uaddr)
      BY <1>0, <1>t, Zenon DEF ThreadInv, Waiters
    <3>3. awaits[call[w].uaddr].ch = loc[w].ch1
      BY <3>1, <3>2, Zenon DEF RegistryExact
    <3> QED BY <1>0, <2>2, <3>2, <3>3 DEF ChannelInv
  <2> QED BY <2>1, <2>2, WakerSteps, Zenon
<1>1. ASSUME NEW t \in Thread, AddAwait(t) \/ AddBitAwait(t)
      PROVE  call'[w].uaddr = call'[k].uaddr
  <2>1. CASE w = t
    <3>1. /\ call'[t].uaddr \in Addr
          /\ loc'[t].ch1 = awaits'[call'[t].uaddr].ch
      <4>1. CASE AddAwait(t)
        BY <4>1, <1>t DEF AddAwait, ThreadInv
      <4>2. CASE AddBitAwait(t)
        BY <4>2, <1>t DEF AddBitAwait, ThreadInv, Local
      <4> QED BY <1>1, <4>1, <4>2, Zenon
    <3> QED BY <2>1, <3>1, ZenonT(30) DEF ChannelInv
  <2>2. CASE w # t
    BY <1>0, <1>1, <2>2, <1>t, Zenon DEF AddAwait, AddBitAwait
  <2> QED BY <2>1, <2>2, Zenon
<1>2. ASSUME NEW t \in Thread, DelAwait(t) PROVE call'[w].uaddr = call'[k].uaddr
  BY <1>0, <1>2, <1>t, Zenon DEF DelAwait, Return, RegisteredPC
<1>3. CASE SameWaiters
  BY <1>0, <1>3, Zenon DEF SameWaiters
<1>4. CASE Dtor
  BY <1>0, <1>4, Zenon DEF Dtor
<1> QED BY <1>1, <1>2, <1>3, <1>4, RegistrySteps, Zenon

\* dtor closes the channel of every registered thread, and none registers later.
LEMMA CloseStep ==
  TypeOK /\ ControlInv /\ RegistryExact /\ CloseReachesAll /\ [Next]_vars => CloseReachesAll'
<1> SUFFICES ASSUME TypeOK, ControlInv, RegistryExact, CloseReachesAll, [Next]_vars,
                    ~live', NEW t \in Thread, pc'[t] \in RegisteredPC
             PROVE  /\ loc'[t].ch1 \in closed'
                    /\ call'[t].op = "WAIT_BITSET" => loc'[t].ch2 \in closed'
  BY Zenon DEF CloseReachesAll
<1>t. /\ pc \in [Thread -> PC] /\ call \in [Thread -> Call] /\ loc \in [Thread -> Local]
      /\ ThreadInv(t)
  BY Zenon DEF TypeOK, ControlInv
<1>1. CASE Dtor
  <2>1. /\ call[t].uaddr \in Addr /\ t \in Waiters(call[t].uaddr)
        /\ call[t].op = "WAIT_BITSET" => /\ call[t].val3 \in Mask
                                         /\ t \in BitWaiters(call[t].val3)
    BY <1>1, <1>t, Zenon DEF Dtor, ThreadInv, Waiters, BitWaiters
  <2>2. live /\ closed' = ({awaits[a].ch : a \in Addr} \cup {bitAwaits[m].ch : m \in Mask})
                            \ {NoChan}
        /\ loc' = loc /\ call' = call
    BY <1>1, Zenon DEF Dtor
  <2>3. awaits[call[t].uaddr].ch = loc[t].ch1 /\ loc[t].ch1 # NoChan
    BY <2>1, <2>2, Zenon DEF RegistryExact
  <2>4. call[t].op = "WAIT_BITSET" =>
          bitAwaits[call[t].val3].ch = loc[t].ch2 /\ loc[t].ch2 # NoChan
    BY <2>1, <2>2 DEF RegistryExact
  <2> QED BY <2>1, <2>2, <2>3, <2>4, Zenon
<1>2. ASSUME NEW u \in Thread, AddAwait(u) \/ AddBitAwait(u) PROVE FALSE
  BY <1>2 DEF AddAwait, AddBitAwait
<1>3. ASSUME NEW u \in Thread, DelAwait(u)
      PROVE  /\ loc'[t].ch1 \in closed'
             /\ call'[t].op = "WAIT_BITSET" => loc'[t].ch2 \in closed'
  <2>1. t # u /\ pc[t] \in RegisteredPC /\ loc'[t] = loc[t] /\ call'[t] = call[t]
    BY <1>3, <1>t, Zenon DEF DelAwait, Return, RegisteredPC
  <2> QED BY <1>3, <2>1, Zenon DEF DelAwait, CloseReachesAll
<1>4. CASE SameWaiters /\ UNCHANGED maps
  BY <1>4, Zenon DEF SameWaiters, maps, CloseReachesAll
<1> QED BY <1>1, <1>2, <1>3, <1>4, RegistrySteps, Zenon

(***************************************************************************)
(* What a step does to a wake in progress and to the threads it is after.  *)
(***************************************************************************)
WakeKept(k) ==
  \/ /\ pc'[k] \notin WakingPC \cup BitWakingPC
     /\ pc[k] \in WakingPC \cup BitWakingPC => asleep'[k] = {}
  \/ /\ pc'[k] \in WakingPC <=> pc[k] \in WakingPC
     /\ pc[k] \in BitWakingPC \/ pc'[k] \in BitWakingPC => pc'[k] = pc[k]
     /\ call'[k] = call[k] /\ loc'[k].todo = loc[k].todo
     /\ loc'[k].ch1 = loc[k].ch1 /\ loc'[k].ch2 = loc[k].ch2

SleepersKept(k) ==
  /\ asleep'[k] \subseteq asleep[k]
  /\ \A w \in asleep'[k] : pc[w] = "parked" =>
       pc'[w] = "parked" /\ call'[w] = call[w] /\ loc'[w] = loc[w]

\* Whatever the other threads do, a wake goes on with the same channel and the
\* same masks, and a thread it is after that stays in its set stays parked.
LEMMA WakeSteps ==
  ASSUME TypeOK, [Next]_vars, NEW k \in Thread
  PROVE  \/ Wake(k) \/ WakeBitset(k) \/ BitPick(k) \/ BitNext(k)
         \/ WakeKept(k) /\ SleepersKept(k)
<1> USE DEF WakingPC, BitWakingPC
<1>t. /\ pc \in [Thread -> PC] /\ call \in [Thread -> Call] /\ loc \in [Thread -> Local]
      /\ asleep \in [Thread -> SUBSET Thread]
  BY Zenon DEF TypeOK
<1> DEFINE Goal == WakeKept(k) /\ SleepersKept(k)
           Out == {"user", "panicked", "checked", "registered", "parked", "recheck", "leaving"}
<1> SUFFICES ASSUME ~(Wake(k) \/ WakeBitset(k) \/ BitPick(k) \/ BitNext(k)) PROVE Goal
  BY Zenon
<1>o. ASSUME NEW t \in Thread, NEW p \in Out, pc' = [pc EXCEPT ![t] = p],
             pc[t] \in Out, (asleep' = asleep /\ pc[t] # "parked") \/ Awake(t),
             \A u \in Thread \ {t} : call'[u] = call[u] /\ loc'[u] = loc[u]
      PROVE  Goal
  <2>1. WakeKept(k)
    BY <1>o, <1>t, Zenon DEF WakeKept
  <2>2. SleepersKept(k)
    BY <1>o, <1>t DEF SleepersKept, Awake
  <2> QED BY <2>1, <2>2, Zenon
<1>r. ASSUME NEW t \in Thread, NEW r, Return(t, r) \/ Panic(t, r),
             pc[t] \in Out \ {"parked"}, asleep' = asleep
      PROVE  Goal
  <2>1. PICK p \in {"user", "panicked"} : pc' = [pc EXCEPT ![t] = p]
    BY <1>r, Zenon DEF Return, Panic
  <2>2. \A u \in Thread \ {t} : call'[u] = call[u] /\ loc'[u] = loc[u]
    BY <1>r, <1>t, Zenon DEF Return, Panic
  <2> QED BY Zenon, <1>o, <1>r, <2>1, <2>2
<1>s. ASSUME NEW t \in Thread, NEW r, Return(t, r) \/ Panic(t, r),
             pc[t] # "parked", asleep' = [asleep EXCEPT ![t] = {}]
      PROVE  Goal
  <2>1. /\ pc'[t] \in {"user", "panicked"} /\ asleep'[t] = {}
        /\ \A u \in Thread \ {t} : /\ pc'[u] = pc[u] /\ call'[u] = call[u]
                                   /\ loc'[u] = loc[u] /\ asleep'[u] = asleep[u]
    BY <1>s, <1>t, Zenon DEF Return, Panic
  <2>2. WakeKept(k)
    BY <2>1, Zenon DEF WakeKept
  <2>3. SleepersKept(k)
    BY <1>s, <2>1, <1>t, Zenon DEF SleepersKept
  <2> QED BY <2>2, <2>3, Zenon
<1>k. ASSUME NEW t \in Thread, t # k, pc[t] # "parked", asleep'[k] = asleep[k],
             \A u \in Thread \ {t} : pc'[u] = pc[u] /\ call'[u] = call[u] /\ loc'[u] = loc[u]
      PROVE  Goal
  BY <1>k, <1>t, Zenon DEF WakeKept, SleepersKept
<1>1. ASSUME NEW t \in Thread, Guest(t) PROVE Goal
  <2>1. ASSUME NEW a \in Addr, NEW v \in Value, Store(t, a, v) PROVE Goal
    BY <2>1, Zenon DEF Store, WakeKept, SleepersKept
  <2>2. ASSUME NEW c, WaitCheck(t, c) PROVE Goal
    <3>1. CASE Return(t, "EFAULT") \/ Return(t, "EAGAIN")
      BY <1>r, <2>2, <3>1, Zenon DEF WaitCheck
    <3>2. CASE ~(Return(t, "EFAULT") \/ Return(t, "EAGAIN"))
      BY <1>o, <2>2, <3>2, <1>t, Zenon DEF WaitCheck
    <3> QED BY <3>1, <3>2, Zenon
  <2>3. CASE Wait(t) \/ WaitBitset(t)
    BY Zenon, <2>2, <2>3 DEF Wait, WaitBitset
  <2>4. CASE Wake(t)
    <3>1. PICK a \in Addr, n \in Count : Wake(t)!2!(a, n)
      BY <2>4, Zenon DEF Wake
    <3>2. CASE awaits[a].ch = NoChan
      BY <1>r, <2>4, <3>1, <3>2, Zenon DEF Wake
    <3>3. CASE awaits[a].ch # NoChan
      <4>1. /\ \A u \in Thread \ {t} : pc'[u] = pc[u] /\ call'[u] = call[u] /\ loc'[u] = loc[u]
            /\ t # k /\ pc[t] = "user" /\ asleep'[k] = asleep[k]
        BY <2>4, <3>1, <3>3, <1>t DEF Wake
      <4> QED BY <1>k, <4>1, Zenon
    <3> QED BY <3>2, <3>3, Zenon
  <2>5. CASE WakeBitset(t)
    <3>1. /\ \A u \in Thread \ {t} : pc'[u] = pc[u] /\ call'[u] = call[u] /\ loc'[u] = loc[u]
          /\ pc[t] = "user"
      BY <2>5, <1>t, Zenon DEF WakeBitset
    <3>2. t # k
      BY <2>5, Zenon
    <3>3. asleep'[k] = asleep[k]
      BY <2>5, <3>2, <1>t, Zenon DEF WakeBitset
    <3> QED BY <1>k, <3>1, <3>2, <3>3, Zenon
  <2>6. CASE CmpRequeue(t) \/ Unsupported(t)
    BY <1>r, <2>6, Zenon DEF CmpRequeue, Unsupported
  <2> QED BY <1>1, <2>1, <2>3, <2>4, <2>5, <2>6, Zenon DEF Guest
<1>2. ASSUME NEW t \in Thread, Step(t) PROVE Goal
  <2>1. CASE TimerFault(t) \/ AddNilMap(t) \/ DelAwait(t)
    BY <1>r, <2>1, Zenon DEF TimerFault, AddNilMap, DelAwait
  <2>2. CASE AddAwait(t)
    BY ZenonT(30), <1>o, <2>2, <1>t DEF AddAwait
  <2>3. CASE AddBitAwait(t)
    BY Zenon, <1>o, <2>3, <1>t DEF AddBitAwait
  <2>4. CASE Park(t)
    BY Zenon, <1>o, <2>4 DEF Park
  <2>5. CASE SelectBitClosed(t)
    BY Zenon, <1>o, <2>5 DEF SelectBitClosed
  <2>6. CASE SelectTimeout(t) \/ SelectClosed(t)
    BY <1>o, <2>6, Zenon DEF SelectTimeout, SelectClosed, Leave
  <2>7. CASE Recheck(t)
    BY <1>o, <2>7, Zenon DEF Recheck, Leave
  <2>8. CASE WakeRead(t)
    <3>1. CASE Return(t, "EFAULT")
      BY ZenonT(30), <1>s, <2>8, <3>1, <1>t DEF WakeRead, Return
    <3>2. CASE ~Return(t, "EFAULT")
      <4>1. /\ pc[t] = "gotAwait" /\ pc' = [pc EXCEPT ![t] = "waking"]
            /\ call' = call /\ asleep' = asleep
            /\ loc' = [loc EXCEPT ![t].raw = mem[call[t].uaddr]]
        BY <2>8, <3>2, Zenon DEF WakeRead
      <4>2. /\ loc'[t].ch1 = loc[t].ch1 /\ loc'[t].ch2 = loc[t].ch2
            /\ loc'[t].todo = loc[t].todo
            /\ \A u \in Thread \ {t} : loc'[u] = loc[u]
        BY <4>1, <1>t, Zenon DEF Local
      <4> QED BY <4>1, <4>2, <1>t, Zenon DEF WakeKept, SleepersKept
    <3> QED BY <3>1, <3>2, Zenon
  <2>9. CASE WakeDone(t) \/ WakePanic(t)
    BY <1>s, <2>9, Zenon DEF WakeDone, WakePanic
  <2>10. CASE BitPick(t)
    <3>1. /\ \A u \in Thread \ {t} : pc'[u] = pc[u] /\ call'[u] = call[u] /\ loc'[u] = loc[u]
          /\ t # k /\ pc[t] = "bitPick" /\ asleep'[k] = asleep[k]
      BY Zenon, <2>10, <1>t DEF BitPick, Return
    <3> QED BY <1>k, <3>1, Zenon
  <2>11. CASE BitNext(t)
    <3>1. /\ \A u \in Thread \ {t} : pc'[u] = pc[u] /\ call'[u] = call[u] /\ loc'[u] = loc[u]
          /\ t # k /\ pc[t] = "bitSend" /\ asleep'[k] = asleep[k]
      BY <2>11, <1>t, Zenon DEF BitNext, Return
    <3> QED BY <1>k, <3>1, Zenon
  <2>12. ASSUME NEW w \in Thread, WakeSend(t, w) \/ BitSend(t, w) PROVE Goal
    <3>1. /\ pc[w] = "parked" /\ pc[t] # "parked" /\ call' = call /\ Awake(w)
          /\ \E p \in {"leaving", "registered", "recheck"} : pc' = [pc EXCEPT ![w] = p]
          /\ loc' = [loc EXCEPT ![t].sent = loc[t].sent + 1]
      BY <2>12, Zenon DEF WakeSend, BitSend, ParkedOn, ParkedOnBit
    <3>2. /\ loc'[t].ch1 = loc[t].ch1 /\ loc'[t].ch2 = loc[t].ch2
          /\ loc'[t].todo = loc[t].todo
          /\ \A u \in Thread \ {t} : loc'[u] = loc[u]
      BY <3>1, <1>t DEF Local
    <3>3. WakeKept(k)
      BY <3>1, <3>2, <1>t, Zenon DEF WakeKept
    <3>4. SleepersKept(k)
      BY <3>1, <3>2, <1>t, Zenon DEF SleepersKept, Awake
    <3> QED BY <3>3, <3>4, Zenon
  <2> QED BY <1>2, <2>1, <2>2, <2>3, <2>4, <2>5, <2>6, <2>7, <2>8, <2>9, <2>10, <2>11,
             <2>12, Zenon DEF Step
<1>3. CASE Dtor
  BY <1>3, Zenon DEF Dtor, WakeKept, SleepersKept
<1>4. CASE UNCHANGED vars
  BY <1>4, Zenon DEF vars, WakeKept, SleepersKept
<1> QED BY <1>1, <1>2, <1>3, <1>4, Zenon DEF Next

\* The masks a FUTEX_WAKE_BITSET has yet to visit stay in the map: the read
\* lock it holds keeps the writers out.
LEMMA BitScanStep ==
  TypeOK /\ ControlInv /\ BitScanInv /\ [Next]_vars => BitScanInv'
<1> SUFFICES ASSUME TypeOK, ControlInv, BitScanInv, [Next]_vars, NEW k \in Thread,
                    pc'[k] \in BitWakingPC
             PROVE  /\ \A m \in loc'[k].todo :
                         bitAwaits'[m].ch # NoChan /\ m \cap call'[k].val3 # {}
                    /\ pc'[k] = "bitSend" =>
                         \E m \in Mask : /\ bitAwaits'[m].ch = loc'[k].ch2
                                         /\ loc'[k].ch2 # NoChan
                                         /\ m \cap call'[k].val3 # {}
  BY Zenon DEF BitScanInv, BitWakingPC
<1> USE DEF BitWakingPC
<1>t. /\ pc \in [Thread -> PC] /\ call \in [Thread -> Call] /\ loc \in [Thread -> Local]
  BY Zenon DEF TypeOK
<1>0. bitAwaits' = bitAwaits
  <2>1. ASSUME NEW t \in Thread, AddAwait(t) \/ AddBitAwait(t) \/ DelAwait(t) PROVE FALSE
    <3>1. pc'[k] = pc[k] /\ readers = {}
      BY <2>1, <1>t, Zenon DEF AddAwait, AddBitAwait, DelAwait, Return
    <3> QED BY <3>1, Zenon DEF ControlInv
  <2>2. ~Dtor
    BY Zenon DEF Dtor, ControlInv
  <2> QED BY <2>1, <2>2, RegistrySteps, Zenon DEF maps
<1>1. CASE Wake(k)
  BY <1>1, <1>t, Zenon DEF Wake, Return
<1>2. CASE WakeBitset(k)
  <2>1. PICK n \in Count, v \in Mask :
          /\ call' = [call EXCEPT ![k] = [op |-> "WAKE_BITSET", uaddr |-> NoAddr, val |-> n,
                                          timed |-> FALSE, val3 |-> v]]
          /\ loc' = [loc EXCEPT ![k].todo =
                       {m \in Mask : bitAwaits[m].ch # NoChan /\ m \cap v # {}}]
    BY Zenon, <1>2 DEF WakeBitset
  <2>2. call'[k].val3 = v
    BY <2>1, <1>t, Zenon
  <2>3. loc'[k].todo = {m \in Mask : bitAwaits[m].ch # NoChan /\ m \cap v # {}}
    BY <2>1, <1>t, Zenon DEF Local
  <2>4. pc'[k] = "bitPick"
    BY <1>2, <1>t, Zenon DEF WakeBitset
  <2> QED BY <1>0, <2>2, <2>3, <2>4, Zenon
<1>3. CASE BitPick(k)
  <2>1. PICK m \in loc[k].todo :
          /\ loc' = [loc EXCEPT ![k].ch2 = bitAwaits[m].ch, ![k].todo = loc[k].todo \ {m}]
          /\ call' = call
    BY <1>3, <1>t, Zenon DEF BitPick, Return
  <2>2. loc'[k].ch2 = bitAwaits[m].ch /\ loc'[k].todo = loc[k].todo \ {m}
    BY <2>1, <1>t, Zenon DEF Local
  <2>3. m \in Mask
    BY <1>t, Zenon DEF Local
  <2>4. \A n \in loc[k].todo : bitAwaits[n].ch # NoChan /\ n \cap call[k].val3 # {}
    BY <1>3, Zenon DEF BitPick, BitScanInv
  <2> QED BY Zenon, <1>0, <2>1, <2>2, <2>3, <2>4
<1>4. CASE BitNext(k)
  <2>1. pc'[k] = "bitPick" /\ loc' = loc /\ call' = call
    BY <1>4, <1>t, Zenon DEF BitNext, Return
  <2> QED BY <1>0, <1>4, <2>1, Zenon DEF BitNext, BitScanInv
<1>5. CASE WakeKept(k)
  <2>1. /\ pc[k] = pc'[k] /\ call'[k] = call[k]
        /\ loc'[k].todo = loc[k].todo /\ loc'[k].ch2 = loc[k].ch2
    BY <1>5, Zenon DEF WakeKept
  <2> QED BY <1>0, <2>1, Zenon DEF BitScanInv
<1> QED BY Zenon, <1>1, <1>2, <1>3, <1>4, <1>5, WakeSteps

\* Before dtor nothing is closed, so nobody gets EPERM or panics.
LEMMA CleanStep ==
  TypeOK /\ ChannelInv /\ CleanUntilClose /\ [Next]_vars => CleanUntilClose'
<1> SUFFICES ASSUME TypeOK, ChannelInv, CleanUntilClose, [Next]_vars, live'
             PROVE  \A u \in Thread : ret'[u] \notin {"EPERM", "nilMap", "sendOnClosed"}
  BY Zenon DEF CleanUntilClose
<1> DEFINE Goal == \A u \in Thread : ret'[u] \notin {"EPERM", "nilMap", "sendOnClosed"}
<1> SUFFICES Goal
  BY Zenon
<1>t. ret \in [Thread -> Result]
  BY Zenon DEF TypeOK
<1>0. live => closed = {} /\ \A u \in Thread : ret[u] \notin {"EPERM", "nilMap", "sendOnClosed"}
  BY Zenon DEF ChannelInv, CleanUntilClose
<1>1. ASSUME NEW t \in Thread, NEW r, ret' = [ret EXCEPT ![t] = r], live,
             r \notin {"EPERM", "nilMap", "sendOnClosed"}
      PROVE  Goal
  BY <1>0, <1>1, <1>t, Zenon
<1>2. CASE live /\ ret' = ret
  BY <1>0, <1>2, Zenon
<1>3. ASSUME NEW t \in Thread, Guest(t) PROVE Goal
  <2>1. CASE \E a \in Addr, v \in Value : Store(t, a, v)
    BY <1>2, <2>1, Zenon DEF Store, maps
  <2>2. ASSUME NEW c, WaitCheck(t, c) PROVE Goal
    BY <1>1, <2>2, Zenon DEF WaitCheck, Return, maps
  <2>3. CASE Wait(t) \/ WaitBitset(t)
    BY Zenon, <2>2, <2>3 DEF Wait, WaitBitset
  <2>4. CASE Wake(t)
    BY <1>1, <2>4, Zenon DEF Wake, Return, maps
  <2>5. CASE WakeBitset(t)
    BY Zenon, <1>1, <2>5 DEF WakeBitset, maps
  <2>6. CASE CmpRequeue(t) \/ Unsupported(t)
    BY Zenon, <1>1, <2>6 DEF CmpRequeue, Unsupported, Return, Panic, maps
  <2> QED BY <1>3, <2>1, <2>3, <2>4, <2>5, <2>6, Zenon DEF Guest
<1>4. ASSUME NEW t \in Thread, Step(t) PROVE Goal
  <2>1. CASE TimerFault(t)
    BY Zenon, <1>1, <2>1 DEF TimerFault, Return, maps
  <2>2. CASE AddAwait(t) \/ AddBitAwait(t)
    BY Zenon, <1>2, <2>2 DEF AddAwait, AddBitAwait
  <2>3. ~AddNilMap(t)
    BY Zenon DEF AddNilMap, maps
  <2>4. CASE Park(t) \/ SelectBitClosed(t)
    BY Zenon, <1>2, <2>4 DEF Park, SelectBitClosed, maps
  <2>5. CASE SelectTimeout(t)
    BY Zenon, <1>1, <2>5 DEF SelectTimeout, Leave, maps
  <2>6. ~SelectClosed(t) /\ ~WakePanic(t)
    BY Zenon, <1>0 DEF SelectClosed, WakePanic, Leave, maps
  <2>7. CASE Recheck(t)
    BY Zenon, <1>1, <1>2, <2>7 DEF Recheck, Leave, maps
  <2>8. CASE DelAwait(t)
    BY <1>0, <1>1, <2>8, Zenon DEF DelAwait, Return
  <2>9. CASE WakeRead(t) \/ WakeDone(t)
    BY Zenon, <1>1, <1>2, <2>9 DEF WakeRead, WakeDone, Return, maps
  <2>10. CASE BitPick(t) \/ BitNext(t)
    BY Zenon, <1>1, <1>2, <2>10 DEF BitPick, BitNext, Return, maps
  <2>11. ASSUME NEW w \in Thread, WakeSend(t, w) \/ BitSend(t, w) PROVE Goal
    BY ZenonT(30), <1>1, <1>2, <2>11 DEF WakeSend, BitSend, maps
  <2> QED BY <1>4, <2>1, <2>2, <2>3, <2>4, <2>5, <2>6, <2>7, <2>8, <2>9, <2>10, <2>11, Zenon DEF Step
<1>5. ~Dtor
  BY Zenon DEF Dtor
<1>6. CASE UNCHANGED vars
  BY <1>2, <1>6, Zenon DEF vars
<1> QED BY <1>3, <1>4, <1>5, <1>6, Zenon DEF Next

\* A parked thread that a wake should reach listens where the wake is going to
\* send, as long as it stays parked.
LEMMA AsleepStep ==
  TypeOK /\ ControlInv /\ RegistryExact /\ AsleepInv /\ [Next]_vars => AsleepInv'
<1> DEFINE Reach(k, w) ==
             /\ pc[w] = "parked"
             /\ pc[k] \in WakingPC => loc[w].ch1 = loc[k].ch1
             /\ pc[k] \in BitWakingPC =>
                  /\ call[w].op = "WAIT_BITSET"
                  /\ \/ call[w].val3 \in loc[k].todo
                     \/ pc[k] = "bitSend" /\ loc[w].ch2 = loc[k].ch2
           Goal(k) == /\ pc'[k] \notin WakingPC \cup BitWakingPC => asleep'[k] = {}
                      /\ \A w \in asleep'[k] : live' => Reach(k, w)'
<1> SUFFICES ASSUME TypeOK, ControlInv, RegistryExact, AsleepInv, [Next]_vars,
                    NEW k \in Thread
             PROVE  Goal(k)
  BY Zenon DEF AsleepInv
<1> USE DEF WakingPC, BitWakingPC
<1>t. /\ pc \in [Thread -> PC] /\ call \in [Thread -> Call] /\ loc \in [Thread -> Local]
      /\ asleep \in [Thread -> SUBSET Thread] /\ \A u \in Thread : ThreadInv(u)
  BY Zenon DEF TypeOK, ControlInv
<1>i. /\ pc[k] \notin WakingPC \cup BitWakingPC => asleep[k] = {}
      /\ \A w \in asleep[k] : live => Reach(k, w)
  BY Zenon DEF AsleepInv
<1>1. CASE Wake(k)
  <2>1. PICK a \in Addr, n \in Count : Wake(k)!2!(a, n)
    BY <1>1, Zenon DEF Wake
  <2>2. pc[k] = "user" /\ live' = live
    BY <1>1, Zenon DEF Wake, maps
  <2>3. CASE awaits[a].ch = NoChan
    <3>1. asleep'[k] = {}
      BY <1>i, <2>1, <2>2, <2>3, Zenon
    <3> QED BY <3>1, Zenon
  <2>4. CASE awaits[a].ch # NoChan
    <3>1. /\ pc' = [pc EXCEPT ![k] = "gotAwait"]
          /\ loc' = [loc EXCEPT ![k].ch1 = awaits[a].ch]
          /\ asleep' = [asleep EXCEPT ![k] = {t \in Waiters(a) : pc[t] = "parked"}]
      BY <2>1, <2>4, Zenon
    <3>2. /\ pc'[k] = "gotAwait" /\ loc'[k].ch1 = awaits[a].ch
          /\ asleep'[k] = {t \in Waiters(a) : pc[t] = "parked"}
          /\ \A u \in Thread \ {k} : pc'[u] = pc[u] /\ loc'[u] = loc[u]
      BY <3>1, <1>t, Zenon DEF Local
    <3>3. ASSUME NEW w \in asleep'[k], live PROVE Reach(k, w)'
      <4>1. w \in Thread /\ w # k /\ pc[w] = "parked" /\ w \in Waiters(a)
        BY <2>2, <3>2, Zenon DEF Waiters
      <4>2. awaits[a].ch = loc[w].ch1
        BY <3>3, <4>1, Zenon DEF RegistryExact
      <4> QED BY <3>2, <4>1, <4>2, Zenon
    <3> QED BY <2>2, <3>2, <3>3, Zenon
  <2> QED BY <2>3, <2>4, Zenon
<1>2. CASE WakeBitset(k)
  <2>1. PICK n \in Count, v \in Mask :
          /\ loc' = [loc EXCEPT ![k].todo =
                       {m \in Mask : bitAwaits[m].ch # NoChan /\ m \cap v # {}}]
          /\ call' = [call EXCEPT ![k] = [op |-> "WAKE_BITSET", uaddr |-> NoAddr, val |-> n,
                                          timed |-> FALSE, val3 |-> v]]
          /\ asleep' = [asleep EXCEPT ![k] = {t \in Thread : /\ pc[t] = "parked"
                                                            /\ call[t].op = "WAIT_BITSET"
                                                            /\ call[t].val3 \cap v # {}}]
    BY Zenon, <1>2 DEF WakeBitset
  <2>2. pc[k] = "user" /\ live' = live /\ pc' = [pc EXCEPT ![k] = "bitPick"]
    BY <1>2, Zenon DEF WakeBitset, maps
  <2>3. /\ pc'[k] = "bitPick"
        /\ \A u \in Thread \ {k} : pc'[u] = pc[u] /\ call'[u] = call[u]
    BY <2>1, <2>2, <1>t, Zenon
  <2>4. loc'[k].todo = {m \in Mask : bitAwaits[m].ch # NoChan /\ m \cap v # {}}
    BY <2>1, <1>t, Zenon DEF Local
  <2>5. ASSUME NEW w \in asleep'[k], live PROVE Reach(k, w)'
    <3>1. /\ w \in Thread /\ pc[w] = "parked" /\ call[w].op = "WAIT_BITSET"
          /\ call[w].val3 \cap v # {}
      BY <2>1, <2>5, <1>t, Zenon
    <3>2. call[w].val3 \in Mask /\ w \in BitWaiters(call[w].val3)
      BY <3>1, <1>t, Zenon DEF ThreadInv, BitWaiters, RegisteredPC
    <3>3. bitAwaits[call[w].val3].ch # NoChan
      BY <2>5, <3>2, Zenon DEF RegistryExact
    <3> QED BY <2>2, <2>3, <2>4, <3>1, <3>2, <3>3, Zenon
  <2> QED BY <2>2, <2>3, <2>5, Zenon
<1>3. CASE BitPick(k)
  <2>0. pc[k] = "bitPick" /\ live' = live
    BY <1>3, Zenon DEF BitPick, maps
  <2>1. CASE asleep' = [asleep EXCEPT ![k] = {}]
    BY <2>1, <1>t, Zenon
  <2>2. CASE asleep' # [asleep EXCEPT ![k] = {}]
    <3>1. PICK m \in loc[k].todo :
            /\ pc' = [pc EXCEPT ![k] = "bitSend"]
            /\ loc' = [loc EXCEPT ![k].ch2 = bitAwaits[m].ch, ![k].todo = loc[k].todo \ {m}]
            /\ call' = call /\ asleep' = asleep
      BY <1>3, <2>2, Zenon DEF BitPick
    <3>2. /\ loc'[k].ch2 = bitAwaits[m].ch /\ loc'[k].todo = loc[k].todo \ {m}
          /\ pc'[k] = "bitSend"
          /\ \A u \in Thread \ {k} : pc'[u] = pc[u] /\ loc'[u] = loc[u]
      BY <3>1, <1>t, Zenon DEF Local
    <3>3. ASSUME NEW w \in asleep'[k], live PROVE Reach(k, w)'
      <4>1. /\ w \in Thread /\ w # k /\ pc[w] = "parked" /\ call[w].op = "WAIT_BITSET"
            /\ call[w].val3 \in loc[k].todo
        BY <1>i, <1>t, <2>0, <3>1, <3>3, Zenon
      <4>2. CASE call[w].val3 = m
        <5>1. m \in Mask /\ w \in BitWaiters(m)
          BY <4>1, <4>2, <1>t, Zenon DEF ThreadInv, BitWaiters, RegisteredPC
        <5>2. bitAwaits[m].ch = loc[w].ch2
          BY <3>3, <5>1, Zenon DEF RegistryExact
        <5> QED BY Zenon, <3>1, <3>2, <4>1, <5>2
      <4>3. CASE call[w].val3 # m
        BY Zenon, <3>1, <3>2, <4>1, <4>3
      <4> QED BY <4>2, <4>3, Zenon
    <3> QED BY <2>0, <3>2, <3>3, Zenon
  <2> QED BY <2>1, <2>2, Zenon
<1>4. CASE BitNext(k)
  <2>0. pc[k] = "bitSend" /\ live' = live
    BY <1>4, Zenon DEF BitNext, maps
  <2>1. CASE asleep' = [asleep EXCEPT ![k] = {}]
    BY <2>1, <1>t, Zenon
  <2>2. CASE asleep' # [asleep EXCEPT ![k] = {}]
    <3>1. /\ pc' = [pc EXCEPT ![k] = "bitPick"] /\ ParkedOnBit(loc[k].ch2) = {}
          /\ call' = call /\ loc' = loc /\ asleep' = asleep
      BY <1>4, <2>2, Zenon DEF BitNext
    <3>2. pc'[k] = "bitPick" /\ \A u \in Thread \ {k} : pc'[u] = pc[u]
      BY <3>1, <1>t, Zenon
    <3>3. ASSUME NEW w \in asleep'[k], live PROVE Reach(k, w)'
      <4>1. /\ w \in Thread /\ w # k /\ pc[w] = "parked" /\ call[w].op = "WAIT_BITSET"
            /\ call[w].val3 \in loc[k].todo \/ loc[w].ch2 = loc[k].ch2
        BY <1>i, <1>t, <2>0, <3>1, <3>3, Zenon
      <4>2. loc[w].ch2 # loc[k].ch2
        BY <3>1, <4>1, Zenon DEF ParkedOnBit
      <4> QED BY <3>1, <3>2, <4>1, <4>2, Zenon
    <3> QED BY <2>0, <3>2, <3>3, Zenon
  <2> QED BY <2>1, <2>2, Zenon
<1>5. CASE WakeKept(k) /\ SleepersKept(k)
  <2>1. pc'[k] \notin WakingPC \cup BitWakingPC => asleep'[k] = {}
    BY <1>i, <1>5, Zenon DEF WakeKept, SleepersKept
  <2>2. ASSUME NEW w \in asleep'[k], live' PROVE Reach(k, w)'
    <3>1. live
      <4>1. UNCHANGED maps => live
        BY <2>2, Zenon DEF maps
      <4>2. ASSUME NEW t \in Thread, AddAwait(t) \/ AddBitAwait(t) \/ DelAwait(t) PROVE live
        BY Zenon, <2>2, <4>2 DEF AddAwait, AddBitAwait, DelAwait
      <4>3. ~Dtor
        BY <2>2, Zenon DEF Dtor
      <4> QED BY <4>1, <4>2, <4>3, RegistrySteps, Zenon
    <3>2. Reach(k, w) /\ w \in Thread
      BY <1>i, <1>t, <1>5, <2>2, <3>1, Zenon DEF SleepersKept
    <3>3. pc'[w] = "parked" /\ call'[w] = call[w] /\ loc'[w] = loc[w]
      BY <1>5, <2>2, <3>2, Zenon DEF SleepersKept
    <3> QED BY <1>5, <2>1, <2>2, <3>2, <3>3, Zenon DEF WakeKept
  <2> QED BY <2>1, <2>2, Zenon
<1> QED BY <1>1, <1>2, <1>3, <1>4, <1>5, WakeSteps, Zenon

=============================================================================
