----------------------------- MODULE FutexProofs ----------------------------
(***************************************************************************)
(* Safety of the futex component for any set of threads, addresses, values *)
(* and masks: IndInv is inductive, and the safety properties of Futex      *)
(* follow from it.                                                         *)
(***************************************************************************)
EXTENDS FutexWakeProofs, FiniteSetTheorems

\* The initial state, built by ctor, satisfies the invariant.
LEMMA InitInv == Init => IndInv
<1> SUFFICES ASSUME Init PROVE IndInv
  BY Zenon
<1> USE ConstantsAssumption DEF Init
<1>1. TypeOK
  BY DEF TypeOK, Entry, Absent, PC, Call, Idle, Local, Unset, Result
<1>2. ControlInv
  BY Zenon DEF ControlInv, ThreadInv, BitWakingPC, WakingPC, RegisteredPC
<1>3. RegistryExact
  <2>1. /\ \A a \in Addr : Waiters(a) = {}
        /\ \A m \in Mask : BitWaiters(m) = {}
    BY Zenon DEF Waiters, BitWaiters, RegisteredPC
  <2> QED BY Zenon, <2>1, FS_EmptySet DEF RegistryExact, Absent
<1>4. ChannelInv
  BY Zenon DEF ChannelInv, Absent, WakingPC
<1>5. WakeStaysOnAddress /\ BitScanInv /\ CloseReachesAll
  BY Zenon DEF WakeStaysOnAddress, BitScanInv, CloseReachesAll, WakingPC, RegisteredPC, BitWakingPC
<1>6. CleanUntilClose /\ AsleepInv
  BY Zenon DEF CleanUntilClose, AsleepInv
<1> QED BY <1>1, <1>2, <1>3, <1>4, <1>5, <1>6, Zenon DEF IndInv

(***************************************************************************)
(* The reference counts.                                                   *)
(***************************************************************************)
\* The sets of waiters are finite, because there are finitely many threads.
LEMMA WaitersFinite ==
  /\ \A a : IsFiniteSet(Waiters(a)) /\ IsFiniteSet(Waiters(a)')
  /\ \A m : IsFiniteSet(BitWaiters(m)) /\ IsFiniteSet(BitWaiters(m)')
<1>1. /\ \A a : Waiters(a) \subseteq Thread /\ Waiters(a)' \subseteq Thread
      /\ \A m : BitWaiters(m) \subseteq Thread /\ BitWaiters(m)' \subseteq Thread
  BY Zenon DEF Waiters, BitWaiters
<1> QED BY <1>1, FS_Subset, ConstantsAssumption, Zenon

\* RegistryExact for one address, and for one mask.
AddrExact(a) ==
  /\ awaits[a].ref = Cardinality(Waiters(a))
  /\ \A t \in Waiters(a) : awaits[a].ch = loc[t].ch1 /\ loc[t].ch1 # NoChan
  /\ Waiters(a) = {} => awaits[a].ch = NoChan

MaskExact(m) ==
  /\ bitAwaits[m].ref = Cardinality(BitWaiters(m))
  /\ \A t \in BitWaiters(m) : bitAwaits[m].ch = loc[t].ch2 /\ loc[t].ch2 # NoChan
  /\ BitWaiters(m) = {} => bitAwaits[m].ch = NoChan

\* A thread that registers adds itself to the count of its address.
LEMMA JoinAddr ==
  ASSUME TypeOK, NEW t \in Thread, NEW a \in Addr, AddrExact(a), NEW c, c # NoChan,
         awaits' = Ref(awaits, a, c),
         t \notin Waiters(a), Waiters(a)' = Waiters(a) \cup {t},
         \A u \in Waiters(a) : loc'[u].ch1 = loc[u].ch1,
         loc'[t].ch1 = awaits'[a].ch
  PROVE  AddrExact(a)'
<1>1. /\ awaits'[a] = IF awaits[a].ch # NoChan
                      THEN [ch |-> awaits[a].ch, ref |-> awaits[a].ref + 1]
                      ELSE [ch |-> c, ref |-> 1]
  BY Zenon DEF Ref, TypeOK
<1>2. Cardinality(Waiters(a)') = Cardinality(Waiters(a)) + 1
  BY Zenon, FS_AddElement, WaitersFinite
<1>3. awaits[a].ch = NoChan => Cardinality(Waiters(a)) = 0
  BY FS_EmptySet, Zenon DEF AddrExact
<1>4. awaits'[a].ref = Cardinality(Waiters(a)')
  BY <1>1, <1>2, <1>3 DEF AddrExact
<1>5. awaits'[a].ch # NoChan
  BY <1>1
<1>6. \A u \in Waiters(a)' : awaits'[a].ch = loc'[u].ch1 /\ loc'[u].ch1 # NoChan
  BY <1>1, <1>5 DEF AddrExact
<1> QED BY <1>4, <1>6, Zenon DEF AddrExact

\* addBitAwait keeps a mask exact, for the thread that joins and for the others.
LEMMA JoinMask ==
  ASSUME TypeOK, NEW t \in Thread, NEW m \in Mask, MaskExact(m), NEW c, c # NoChan,
         bitAwaits' = Ref(bitAwaits, m, c),
         t \notin BitWaiters(m), BitWaiters(m)' = BitWaiters(m) \cup {t},
         \A u \in BitWaiters(m) : loc'[u].ch2 = loc[u].ch2,
         loc'[t].ch2 = bitAwaits'[m].ch
  PROVE  MaskExact(m)'
<1>1. /\ bitAwaits'[m] = IF bitAwaits[m].ch # NoChan
                         THEN [ch |-> bitAwaits[m].ch, ref |-> bitAwaits[m].ref + 1]
                         ELSE [ch |-> c, ref |-> 1]
  BY Zenon DEF Ref, TypeOK
<1>2. Cardinality(BitWaiters(m)') = Cardinality(BitWaiters(m)) + 1
  BY Zenon, FS_AddElement, WaitersFinite
<1>3. bitAwaits[m].ch = NoChan => Cardinality(BitWaiters(m)) = 0
  BY FS_EmptySet, Zenon DEF MaskExact
<1>4. bitAwaits'[m].ref = Cardinality(BitWaiters(m)')
  BY <1>1, <1>2, <1>3 DEF MaskExact
<1>5. bitAwaits'[m].ch # NoChan
  BY <1>1
<1>6. \A u \in BitWaiters(m)' : bitAwaits'[m].ch = loc'[u].ch2 /\ loc'[u].ch2 # NoChan
  BY <1>1, <1>5 DEF MaskExact
<1> QED BY <1>4, <1>6, Zenon DEF MaskExact

\* A thread that leaves takes itself off the count, and the last one deletes
\* the entry.
LEMMA LeaveAddr ==
  ASSUME TypeOK, NEW t \in Thread, NEW a \in Addr, AddrExact(a),
         awaits' = Unref(awaits, a),
         t \in Waiters(a), Waiters(a)' = Waiters(a) \ {t},
         \A u \in Waiters(a) \ {t} : loc'[u].ch1 = loc[u].ch1
  PROVE  AddrExact(a)'
<1>1. /\ awaits'[a] = IF awaits[a].ch # NoChan /\ awaits[a].ref - 1 > 0
                      THEN [ch |-> awaits[a].ch, ref |-> awaits[a].ref - 1]
                      ELSE Absent
  BY Zenon DEF Unref, TypeOK
<1>2. Cardinality(Waiters(a)') = Cardinality(Waiters(a)) - 1
  BY Zenon, FS_RemoveElement, WaitersFinite
<1>3. awaits[a].ch # NoChan /\ awaits[a].ref = Cardinality(Waiters(a))
  BY Zenon DEF AddrExact
<1>4. /\ Cardinality(Waiters(a)) \in Nat /\ Cardinality(Waiters(a)') \in Nat
      /\ Cardinality(Waiters(a)') = 0 <=> Waiters(a)' = {}
  BY Zenon, FS_CardinalityType, FS_EmptySet, WaitersFinite
<1>5. CASE Waiters(a)' = {}
  BY <1>1, <1>2, <1>3, <1>4, <1>5 DEF AddrExact, Absent
<1>6. CASE Waiters(a)' # {}
  <2>1. awaits[a].ref - 1 > 0
    BY <1>2, <1>3, <1>4, <1>6
  <2>2. awaits'[a] = [ch |-> awaits[a].ch, ref |-> awaits[a].ref - 1]
    BY <1>1, <1>3, <2>1, Zenon
  <2> QED BY <1>2, <1>3, <1>6, <2>2 DEF AddrExact
<1> QED BY <1>5, <1>6, Zenon

\* delBitAwait keeps a mask exact for the threads that stay.
LEMMA LeaveMask ==
  ASSUME TypeOK, NEW t \in Thread, NEW m \in Mask, MaskExact(m),
         bitAwaits' = Unref(bitAwaits, m),
         t \in BitWaiters(m), BitWaiters(m)' = BitWaiters(m) \ {t},
         \A u \in BitWaiters(m) \ {t} : loc'[u].ch2 = loc[u].ch2
  PROVE  MaskExact(m)'
<1>1. /\ bitAwaits'[m] = IF bitAwaits[m].ch # NoChan /\ bitAwaits[m].ref - 1 > 0
                         THEN [ch |-> bitAwaits[m].ch, ref |-> bitAwaits[m].ref - 1]
                         ELSE Absent
  BY Zenon DEF Unref, TypeOK
<1>2. Cardinality(BitWaiters(m)') = Cardinality(BitWaiters(m)) - 1
  BY Zenon, FS_RemoveElement, WaitersFinite
<1>3. bitAwaits[m].ch # NoChan /\ bitAwaits[m].ref = Cardinality(BitWaiters(m))
  BY Zenon DEF MaskExact
<1>4. /\ Cardinality(BitWaiters(m)) \in Nat /\ Cardinality(BitWaiters(m)') \in Nat
      /\ Cardinality(BitWaiters(m)') = 0 <=> BitWaiters(m)' = {}
  BY Zenon, FS_CardinalityType, FS_EmptySet, WaitersFinite
<1>5. CASE BitWaiters(m)' = {}
  BY <1>1, <1>2, <1>3, <1>4, <1>5 DEF MaskExact, Absent
<1>6. CASE BitWaiters(m)' # {}
  <2>1. bitAwaits[m].ref - 1 > 0
    BY <1>2, <1>3, <1>4, <1>6
  <2>2. bitAwaits'[m] = [ch |-> bitAwaits[m].ch, ref |-> bitAwaits[m].ref - 1]
    BY <1>1, <1>3, <2>1, Zenon
  <2> QED BY <1>2, <1>3, <1>6, <2>2 DEF MaskExact
<1> QED BY <1>5, <1>6, Zenon

\* RegistryExact is kept by every step.
LEMMA RegistryStep ==
  TypeOK /\ ControlInv /\ RegistryExact /\ [Next]_vars => RegistryExact'
<1> SUFFICES ASSUME TypeOK, ControlInv, RegistryExact, [Next]_vars, live'
             PROVE  (\A a \in Addr : AddrExact(a)') /\ (\A m \in Mask : MaskExact(m)')
  BY Zenon DEF RegistryExact, AddrExact, MaskExact
<1> USE DEF RegisteredPC
<1>t. /\ pc \in [Thread -> PC] /\ call \in [Thread -> Call] /\ loc \in [Thread -> Local]
      /\ \A t \in Thread : ThreadInv(t)
  BY Zenon DEF TypeOK, ControlInv
<1>e. ASSUME live PROVE (\A a \in Addr : AddrExact(a)) /\ (\A m \in Mask : MaskExact(m))
  BY <1>e, Zenon DEF RegistryExact, AddrExact, MaskExact
<1>a. ASSUME NEW a \in Addr, AddrExact(a), Waiters(a)' = Waiters(a), awaits'[a] = awaits[a],
             \A u \in Waiters(a) : loc'[u].ch1 = loc[u].ch1
      PROVE  AddrExact(a)'
  BY <1>a, Zenon DEF AddrExact
<1>m. ASSUME NEW m \in Mask, MaskExact(m), BitWaiters(m)' = BitWaiters(m),
             bitAwaits'[m] = bitAwaits[m], \A u \in BitWaiters(m) : loc'[u].ch2 = loc[u].ch2
      PROVE  MaskExact(m)'
  BY <1>m, Zenon DEF MaskExact
<1>1. ASSUME NEW t \in Thread, AddAwait(t)
      PROVE  (\A a \in Addr : AddrExact(a)') /\ (\A m \in Mask : MaskExact(m)')
  <2>0. PICK a0 \in Addr :
          a0 = call[t].uaddr /\ live /\ pc[t] = "checked" /\ call[t].op = "WAIT"
    BY <1>1, <1>t, Zenon DEF AddAwait, ThreadInv
  <2>1. /\ pc' = [pc EXCEPT ![t] = "registered"] /\ call' = call
        /\ loc'[t].ch1 = awaits'[a0].ch
        /\ \A u \in Thread \ {t} : loc'[u] = loc[u]
        /\ awaits' = Ref(awaits, a0, NewChan) /\ bitAwaits' = bitAwaits
    BY <1>1, <2>0, <1>t DEF AddAwait
  <2>2. t \notin Waiters(a0) /\ Waiters(a0)' = Waiters(a0) \cup {t}
    BY <2>0, <2>1, <1>t, Zenon DEF Waiters
  <2>3. NewChan # NoChan
    BY <1>1, NewChanFresh, ConstantsAssumption, Zenon DEF AddAwait
  <2>4. AddrExact(a0)'
    <3>1. \A u \in Waiters(a0) : loc'[u].ch1 = loc[u].ch1
      BY <2>1, <2>2, Zenon DEF Waiters
    <3> QED BY <1>e, <2>0, <2>1, <2>2, <2>3, <3>1, JoinAddr, Zenon
  <2>5. ASSUME NEW a \in Addr \ {a0} PROVE AddrExact(a)'
    <3>1. Waiters(a)' = Waiters(a) /\ t \notin Waiters(a)
      BY <2>0, <2>1, <1>t, Zenon DEF Waiters
    <3>2. awaits'[a] = awaits[a]
      BY <2>1, Zenon DEF Ref, TypeOK
    <3>3. \A u \in Waiters(a) : loc'[u].ch1 = loc[u].ch1
      BY <2>1, <3>1, Zenon DEF Waiters
    <3> QED BY <1>a, <1>e, <2>0, <3>1, <3>2, <3>3, Zenon
  <2>6. ASSUME NEW m \in Mask PROVE MaskExact(m)'
    <3>1. BitWaiters(m)' = BitWaiters(m) /\ t \notin BitWaiters(m)
      BY <2>0, <2>1, <1>t, Zenon DEF BitWaiters
    <3>2. \A u \in BitWaiters(m) : loc'[u].ch2 = loc[u].ch2
      BY <2>1, <3>1, Zenon DEF BitWaiters
    <3> QED BY <1>m, <1>e, <2>0, <2>1, <3>1, <3>2, Zenon
  <2> QED BY <2>4, <2>5, <2>6, Zenon
<1>2. ASSUME NEW t \in Thread, AddBitAwait(t)
      PROVE  (\A a \in Addr : AddrExact(a)') /\ (\A m \in Mask : MaskExact(m)')
  <2>0. PICK a0 \in Addr, m0 \in Mask :
          /\ a0 = call[t].uaddr /\ m0 = call[t].val3
          /\ live /\ pc[t] = "checked" /\ call[t].op = "WAIT_BITSET"
    BY <1>2, <1>t, Zenon DEF AddBitAwait, ThreadInv
  <2>1. /\ pc' = [pc EXCEPT ![t] = "registered"] /\ call' = call
        /\ \A u \in Thread \ {t} : loc'[u] = loc[u]
        /\ awaits' = Ref(awaits, a0, NewChan) /\ bitAwaits' = Ref(bitAwaits, m0, NewBitChan)
    BY <1>2, <2>0, <1>t, Zenon DEF AddBitAwait
  <2>l. loc'[t].ch1 = awaits'[a0].ch /\ loc'[t].ch2 = bitAwaits'[m0].ch
    BY <1>2, <2>0, <1>t, Zenon DEF AddBitAwait, Local
  <2>2. /\ t \notin Waiters(a0) /\ Waiters(a0)' = Waiters(a0) \cup {t}
        /\ t \notin BitWaiters(m0) /\ BitWaiters(m0)' = BitWaiters(m0) \cup {t}
    BY <2>0, <2>1, <1>t, Zenon DEF Waiters, BitWaiters
  <2>3. NewChan # NoChan /\ NewBitChan # NoChan
    BY <1>2, NewChanFresh, NewBitChanFresh, ConstantsAssumption, Zenon DEF AddBitAwait
  <2>4. AddrExact(a0)'
    <3>1. \A u \in Waiters(a0) : loc'[u].ch1 = loc[u].ch1
      BY <2>1, <2>2, Zenon DEF Waiters
    <3> QED BY <1>e, <2>0, <2>1, <2>l, <2>2, <2>3, <3>1, JoinAddr, Zenon
  <2>5. ASSUME NEW a \in Addr \ {a0} PROVE AddrExact(a)'
    <3>1. Waiters(a)' = Waiters(a) /\ t \notin Waiters(a)
      BY <2>0, <2>1, <1>t, Zenon DEF Waiters
    <3>2. awaits'[a] = awaits[a]
      BY <2>1, Zenon DEF Ref, TypeOK
    <3>3. \A u \in Waiters(a) : loc'[u].ch1 = loc[u].ch1
      BY <2>1, <3>1, Zenon DEF Waiters
    <3> QED BY <1>a, <1>e, <2>0, <3>1, <3>2, <3>3, Zenon
  <2>6. MaskExact(m0)'
    <3>1. \A u \in BitWaiters(m0) : loc'[u].ch2 = loc[u].ch2
      BY <2>1, <2>2, Zenon DEF BitWaiters
    <3> QED BY <1>e, <2>0, <2>1, <2>l, <2>2, <2>3, <3>1, JoinMask, Zenon
  <2>7. ASSUME NEW m \in Mask \ {m0} PROVE MaskExact(m)'
    <3>1. BitWaiters(m)' = BitWaiters(m) /\ t \notin BitWaiters(m)
      BY <2>0, <2>1, <1>t, Zenon DEF BitWaiters
    <3>2. bitAwaits'[m] = bitAwaits[m]
      BY <2>1, Zenon DEF Ref, TypeOK
    <3>3. \A u \in BitWaiters(m) : loc'[u].ch2 = loc[u].ch2
      BY <2>1, <3>1, Zenon DEF BitWaiters
    <3> QED BY <1>m, <1>e, <2>0, <3>1, <3>2, <3>3, Zenon
  <2> QED BY <2>4, <2>5, <2>6, <2>7, Zenon
<1>3. ASSUME NEW t \in Thread, DelAwait(t)
      PROVE  (\A a \in Addr : AddrExact(a)') /\ (\A m \in Mask : MaskExact(m)')
  <2>0. PICK a0 \in Addr : a0 = call[t].uaddr /\ live /\ pc[t] = "leaving"
    BY <1>3, <1>t, Zenon DEF DelAwait, ThreadInv
  <2>1. /\ pc' = [pc EXCEPT ![t] = "user"]
        /\ \A u \in Thread \ {t} : loc'[u] = loc[u] /\ call'[u] = call[u]
        /\ awaits' = Unref(awaits, a0)
        /\ bitAwaits' = IF call[t].op = "WAIT_BITSET" THEN Unref(bitAwaits, call[t].val3)
                                                     ELSE bitAwaits
    BY <1>3, <2>0, <1>t, Zenon DEF DelAwait, Return
  <2>2. t \in Waiters(a0) /\ Waiters(a0)' = Waiters(a0) \ {t}
    BY <2>0, <2>1, <1>t, Zenon DEF Waiters
  <2>3. AddrExact(a0)'
    <3>1. \A u \in Waiters(a0) \ {t} : loc'[u].ch1 = loc[u].ch1
      BY <2>1, Zenon DEF Waiters
    <3> QED BY <1>e, <2>0, <2>1, <2>2, <3>1, LeaveAddr, Zenon
  <2>4. ASSUME NEW a \in Addr \ {a0} PROVE AddrExact(a)'
    <3>1. Waiters(a)' = Waiters(a) /\ t \notin Waiters(a)
      BY <2>0, <2>1, <1>t, Zenon DEF Waiters
    <3>2. awaits'[a] = awaits[a]
      BY <2>1, Zenon DEF Unref, TypeOK
    <3>3. \A u \in Waiters(a) : loc'[u].ch1 = loc[u].ch1
      BY <2>1, <3>1, Zenon DEF Waiters
    <3> QED BY <1>a, <1>e, <2>0, <3>1, <3>2, <3>3, Zenon
  <2>5. ASSUME NEW m \in Mask, call[t].op = "WAIT_BITSET", m = call[t].val3
        PROVE  MaskExact(m)'
    <3>1. t \in BitWaiters(m) /\ BitWaiters(m)' = BitWaiters(m) \ {t}
      BY <2>0, <2>1, <2>5, <1>t, Zenon DEF BitWaiters
    <3>2. \A u \in BitWaiters(m) \ {t} : loc'[u].ch2 = loc[u].ch2
      BY <2>1, Zenon DEF BitWaiters
    <3>3. bitAwaits' = Unref(bitAwaits, m)
      BY <2>1, <2>5, Zenon
    <3> QED BY <1>e, <2>0, <3>1, <3>2, <3>3, LeaveMask, Zenon
  <2>6. ASSUME NEW m \in Mask, call[t].op # "WAIT_BITSET" \/ m # call[t].val3
        PROVE  MaskExact(m)'
    <3>1. BitWaiters(m)' = BitWaiters(m) /\ t \notin BitWaiters(m)
      BY <2>0, <2>1, <2>6, <1>t, Zenon DEF BitWaiters
    <3>2. bitAwaits'[m] = bitAwaits[m]
      BY <2>1, <2>6, Zenon DEF Unref, TypeOK
    <3>3. \A u \in BitWaiters(m) : loc'[u].ch2 = loc[u].ch2
      BY <2>1, <3>1, Zenon DEF BitWaiters
    <3> QED BY <1>m, <1>e, <2>0, <3>1, <3>2, <3>3, Zenon
  <2> QED BY <2>3, <2>4, <2>5, <2>6, Zenon
<1>4. CASE SameWaiters /\ UNCHANGED maps
  <2>0. live
    BY <1>4, Zenon DEF maps
  <2>1. ASSUME NEW a \in Addr PROVE AddrExact(a)'
    <3>1. Waiters(a)' = Waiters(a)
      BY <1>4, Zenon DEF SameWaiters, Waiters
    <3>2. \A u \in Waiters(a) : loc'[u].ch1 = loc[u].ch1
      BY <1>4, Zenon DEF SameWaiters, Waiters
    <3> QED BY <1>a, <1>e, <1>4, <2>0, <3>1, <3>2, Zenon DEF maps
  <2>2. ASSUME NEW m \in Mask PROVE MaskExact(m)'
    <3>1. BitWaiters(m)' = BitWaiters(m)
      BY <1>4, Zenon DEF SameWaiters, BitWaiters
    <3>2. \A u \in BitWaiters(m) : loc'[u].ch2 = loc[u].ch2
      BY <1>4, Zenon DEF SameWaiters, BitWaiters
    <3> QED BY <1>m, <1>e, <1>4, <2>0, <3>1, <3>2, Zenon DEF maps
  <2> QED BY <2>1, <2>2, Zenon
<1>5. ~Dtor
  BY Zenon DEF Dtor
<1> QED BY <1>1, <1>2, <1>3, <1>4, <1>5, RegistrySteps, Zenon

(***************************************************************************)
(* The theorems.                                                           *)
(***************************************************************************)
\* IndInv, which holds initially, is kept by every step of every thread.
THEOREM Inductive == Spec => []IndInv
<1>1. IndInv /\ [Next]_vars => IndInv'
  BY TypeStep, ControlStep, RegistryStep, ChannelStep, WakeAddressStep, BitScanStep,
     CloseStep, CleanStep, AsleepStep, Zenon DEF IndInv
<1> QED BY InitInv, <1>1, PTL DEF Spec

\* Every variable stays in its type.
THEOREM TypeCorrect == Spec => []TypeOK
<1>1. IndInv => TypeOK
  BY Zenon DEF IndInv
<1> QED BY Inductive, <1>1, PTL

\* Until dtor, addAwait and delAwait keep the maps exact: the count of an entry
\* is the number of waiters, all of them on the entry's channel.
THEOREM Registry == Spec => []RegistryExact
<1>1. IndInv => RegistryExact
  BY Zenon DEF IndInv
<1> QED BY Inductive, <1>1, PTL

\* A FUTEX_WAKE that uses its channel after releasing the lock never reaches a
\* thread that waits on another address.
THEOREM WakeAddress == Spec => []WakeStaysOnAddress
<1>1. IndInv => WakeStaysOnAddress
  BY Zenon DEF IndInv
<1> QED BY Inductive, <1>1, PTL

\* dtor forgets no registered thread: it closes the channel of every one.
THEOREM Close == Spec => []CloseReachesAll
<1>1. IndInv => CloseReachesAll
  BY Zenon DEF IndInv
<1> QED BY Inductive, <1>1, PTL

\* Until dtor runs nobody meets a closed channel or a nil map.
THEOREM Clean == Spec => []CleanUntilClose
<1>1. IndInv => CleanUntilClose
  BY Zenon DEF IndInv
<1> QED BY Inductive, <1>1, PTL

\* FUTEX_WAKE_BITSET sends on open channels of masks that meet its own.
THEOREM BitSends == Spec => []BitSendOpen
<1>1. IndInv => BitSendOpen
  <2> SUFFICES ASSUME IndInv, NEW k \in Thread, pc[k] = "bitSend"
               PROVE  /\ k \in readers /\ loc[k].ch2 \notin closed /\ live
                      /\ \A w \in Thread : loc[w].ch2 = loc[k].ch2 /\ pc[w] \in RegisteredPC
                                             => call[w].val3 \cap call[k].val3 # {}
    BY Zenon DEF BitSendOpen
  <2>1. PICK m \in Mask : /\ bitAwaits[m].ch = loc[k].ch2 /\ loc[k].ch2 # NoChan
                          /\ m \cap call[k].val3 # {}
    BY Zenon DEF IndInv, BitScanInv
  <2>2. live /\ closed = {}
    BY <2>1 DEF IndInv, ChannelInv, Absent
  <2>3. k \in readers
    BY Zenon DEF IndInv, ControlInv, BitWakingPC
  <2>4. ASSUME NEW w \in Thread, loc[w].ch2 = loc[k].ch2, pc[w] \in RegisteredPC
        PROVE  call[w].val3 \cap call[k].val3 # {}
    <3>1. call[w].val3 \in Mask /\ w \in BitWaiters(call[w].val3)
      BY <2>1, <2>4, Zenon DEF IndInv, ControlInv, ThreadInv, BitWaiters
    <3>2. bitAwaits[call[w].val3].ch = loc[w].ch2
      BY <2>2, <3>1, Zenon DEF IndInv, RegistryExact
    <3>3. call[w].val3 = m
      BY <2>1, <2>4, <3>1, <3>2, Zenon DEF IndInv, ChannelInv
    <3> QED BY <2>1, <3>3, Zenon
  <2> QED BY <2>2, <2>3, <2>4, Zenon
<1> QED BY Inductive, <1>1, PTL

\* A wake that stops short of its count has left nobody parked that it should
\* have reached.
THEOREM Wakes == Spec => NoSleeperLeftBehind
<1> DEFINE A == \A k \in Thread :
                  /\ live
                  /\ pc[k] \in {"waking"} \cup BitWakingPC
                  /\ pc'[k] = "user"
                  /\ loc[k].sent # call[k].val
                  => asleep[k] = {}
<1>1. IndInv /\ [Next]_vars => [A]_vars
  <2> SUFFICES ASSUME IndInv, Next, NEW k \in Thread, live,
                      pc[k] \in {"waking"} \cup BitWakingPC, pc'[k] = "user",
                      loc[k].sent # call[k].val
               PROVE  asleep[k] = {}
    BY Zenon
  <2>t. /\ pc \in [Thread -> PC] /\ asleep \in [Thread -> SUBSET Thread]
    BY Zenon DEF IndInv, TypeOK
  <2>i. \A w \in asleep[k] :
          /\ pc[w] = "parked"
          /\ pc[k] \in WakingPC => loc[w].ch1 = loc[k].ch1
          /\ pc[k] = "bitPick" => call[w].val3 \in loc[k].todo
    BY Zenon DEF IndInv, AsleepInv, BitWakingPC, WakingPC
  <2>1. WakeDone(k) \/ BitPick(k) \/ BitNext(k)
    <3>1. ~Dtor
      BY Zenon DEF Dtor, BitWakingPC
    <3>2. ASSUME NEW t \in Thread, Guest(t) PROVE FALSE
      <4>1. t # k /\ pc'[k] = pc[k]
        BY <3>2, <2>t DEF Guest, Store, Wait, WaitBitset, WaitCheck, Wake, WakeBitset,
                          CmpRequeue, Unsupported, Return, Panic, BitWakingPC
      <4> QED BY <4>1, Zenon DEF BitWakingPC
    <3>3. ASSUME NEW t \in Thread, Step(t), t # k PROVE FALSE
      <4>1. pc[k] # "parked"
        BY Zenon DEF BitWakingPC
      <4>2. pc'[k] = pc[k]
        BY ZenonT(30), <3>3, <4>1, <2>t
           DEF Step, TimerFault, AddAwait, AddBitAwait, AddNilMap, Park, SelectTimeout,
               SelectClosed, SelectBitClosed, Recheck, DelAwait, WakeRead, WakeDone, WakePanic,
               BitPick, BitNext, WakeSend, BitSend, ParkedOn, ParkedOnBit, Leave, Return, Panic
      <4> QED BY <4>2, Zenon DEF BitWakingPC
    <3>4. CASE Step(k)
      BY Zenon, <3>4, <2>t
         DEF Step, TimerFault, AddAwait, AddBitAwait, AddNilMap, Park, SelectTimeout,
             SelectClosed, SelectBitClosed, Recheck, DelAwait, WakeRead, WakePanic,
             WakeSend, BitSend, ParkedOn, ParkedOnBit, Panic, BitWakingPC
    <3> QED BY <3>1, <3>2, <3>3, <3>4, Zenon DEF Next
  <2>2. CASE WakeDone(k)
    BY <2>2, <2>i, <2>t, Zenon DEF WakeDone, ParkedOn, WakingPC
  <2>3. CASE BitPick(k)
    BY Zenon, <2>3, <2>i, <2>t DEF BitPick
  <2>4. CASE BitNext(k)
    BY <2>4, <2>t, Zenon DEF BitNext
  <2> QED BY <2>1, <2>2, <2>3, <2>4, Zenon
<1>2. NoSleeperLeftBehind <=> [][A]_vars
  BY PTL DEF NoSleeperLeftBehind
<1> QED BY Inductive, <1>1, <1>2, PTL DEF Spec

=============================================================================
