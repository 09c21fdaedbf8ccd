------------------------------- MODULE Futex -------------------------------
(***************************************************************************)
(* kernel/futex.go: the futex system call of the emulated kernel.          *)
(*                                                                         *)
(* Every guest thread runs in a goroutine of its own, so handlers of       *)
(* several threads interleave.  A waiter registers in the map awaits       *)
(* (address -> unbuffered channel and reference count), and a bitset       *)
(* waiter also in bitAwaits (mask -> channel and count); it then parks in  *)
(* a select.  A waker sends on the channel without blocking, once per      *)
(* thread to wake.  An action is what one thread does between two accesses *)
(* to state it shares with the others.                                     *)
(***************************************************************************)
EXTENDS Integers, FiniteSets

CONSTANTS
  Thread,    \* guest threads, each served by a goroutine
  Addr,      \* futex addresses used by the guest
  Value,     \* values a futex word can hold
  Mask,      \* bitset arguments (val3), each the set of its one-bits
  Count,     \* int32(val) of a wake: how many to wake, negative for no limit
  Timed,     \* whether a wait may / may not have a timeout
  Chan,      \* identities of chan uint32 objects
  BitChan,   \* identities of chan struct{} objects
  NoAddr, NoChan

ASSUME ConstantsAssumption ==
  /\ IsFiniteSet(Thread)
  /\ Value \subseteq Int /\ Count \subseteq Int
  /\ Timed \subseteq BOOLEAN
  /\ NoAddr \notin Addr /\ NoChan \notin Chan \cup BitChan
  /\ Chan \cap BitChan = {}

VARIABLES
  mem,        \* guest memory: the futex words
  live,       \* FALSE once dtor has closed the channels and dropped the maps
  awaits,     \* f.awaits, Absent where the map has no key
  bitAwaits,  \* f.bitAwaits, likewise
  closed,     \* channels closed by dtor, of both kinds
  readers,    \* threads that hold f.rw.RLock across several steps
  pc, call, loc, ret,   \* per thread: control, arguments, locals, result
  asleep      \* history: per wake in progress, the threads it should reach that
              \* have been parked without a break since it began

vars == <<mem, live, awaits, bitAwaits, closed, readers, pc, call, loc, ret, asleep>>

Absent == [ch |-> NoChan, ref |-> 0]

Idle == [op |-> "none", uaddr |-> NoAddr, val |-> 0, timed |-> FALSE, val3 |-> {}]

Unset == [ch1 |-> NoChan, ch2 |-> NoChan, raw |-> 0, sent |-> 0, todo |-> {}]

(***************************************************************************)
(* What the threads are doing.                                             *)
(***************************************************************************)
RegisteredPC == {"registered", "parked", "recheck", "leaving"}

WakingPC == {"gotAwait", "waking"}

BitWakingPC == {"bitPick", "bitSend"}

PC == {"user", "checked", "panicked"} \cup RegisteredPC \cup WakingPC \cup BitWakingPC

\* Threads between addAwait and the deferred delAwait for address a.
Waiters(a) == {t \in Thread : pc[t] \in RegisteredPC /\ call[t].uaddr = a}

\* Threads between addBitAwait and the deferred delBitAwait for mask m.
BitWaiters(m) == {t \in Thread : /\ pc[t] \in RegisteredPC
                                 /\ call[t].op = "WAIT_BITSET"
                                 /\ call[t].val3 = m}

\* Receivers blocked in the select on channel c, the ones a send can reach.
ParkedOn(c) == {t \in Thread : pc[t] = "parked" /\ loc[t].ch1 = c}

ParkedOnBit(c) == {t \in Thread : pc[t] = "parked" /\ loc[t].ch2 = c}

\* Channels some map entry or some goroutine still refers to; the others are
\* garbage and their identity can be given to a new channel.
UsedChan == {awaits[a].ch : a \in Addr} \cup {loc[t].ch1 : t \in Thread}

UsedBitChan == {bitAwaits[m].ch : m \in Mask} \cup {loc[t].ch2 : t \in Thread}

\* Mutant of NewChan: channels are recycled as soon as their entry is gone.
NewChanRecycled == CHOOSE c \in Chan : c \notin {awaits[a].ch : a \in Addr}

NewChan == CHOOSE c \in Chan : c \notin UsedChan

NewBitChan == CHOOSE c \in BitChan : c \notin UsedBitChan

(***************************************************************************)
(* The two maps.  Ref is addAwait's "join or create", Unref is delAwait's  *)
(* "decrement, delete at zero", a no-op when the key is gone.              *)
(***************************************************************************)
Ref(m, k, c) ==
  [m EXCEPT ![k] = IF m[k].ch # NoChan
                   THEN [ch |-> m[k].ch, ref |-> m[k].ref + 1]
                   ELSE [ch |-> c, ref |-> 1]]

\* Mutant of Unref: the entry goes with its first waiter.
UnrefFirst(m, k) == [m EXCEPT ![k] = Absent]

Unref(m, k) ==
  [m EXCEPT ![k] = IF m[k].ch # NoChan /\ m[k].ref - 1 > 0
                   THEN [ch |-> m[k].ch, ref |-> m[k].ref - 1]
                   ELSE Absent]

Init ==
  /\ mem \in [Addr -> Value]
  /\ live = TRUE
  /\ awaits = [a \in Addr |-> Absent]
  /\ bitAwaits = [m \in Mask |-> Absent]
  /\ closed = {}
  /\ readers = {}
  /\ pc = [t \in Thread |-> "user"]
  /\ call = [t \in Thread |-> Idle]
  /\ loc = [t \in Thread |-> Unset]
  /\ ret = [t \in Thread |-> "none"]
  /\ asleep = [t \in Thread |-> {}]

maps == <<live, awaits, bitAwaits, closed>>

\* The call of t ends with result r and t is back in guest code.
Return(t, r) ==
  /\ pc' = [pc EXCEPT ![t] = "user"]
  /\ call' = [call EXCEPT ![t] = Idle]
  /\ loc' = [loc EXCEPT ![t] = Unset]
  /\ ret' = [ret EXCEPT ![t] = r]

\* The goroutine of t panics; deferred unlocks have run.
Panic(t, why) ==
  /\ pc' = [pc EXCEPT ![t] = "panicked"]
  /\ call' = [call EXCEPT ![t] = Idle]
  /\ loc' = [loc EXCEPT ![t] = Unset]
  /\ ret' = [ret EXCEPT ![t] = why]

(***************************************************************************)
(* Guest code stores to a futex word.                                      *)
(***************************************************************************)
Store(t, a, v) ==
  /\ pc[t] = "user"
  /\ mem[a] # v
  /\ mem' = [mem EXCEPT ![a] = v]
  /\ UNCHANGED <<maps, readers, pc, call, loc, ret, asleep>>

(***************************************************************************)
(* FUTEX_WAIT and FUTEX_WAIT_BITSET.                                       *)
(***************************************************************************)
\* The word is read and compared before the thread registers.  Reading fails
\* when the page is not mapped.
WaitCheck(t, c) ==
  /\ pc[t] = "user"
  /\ \/ Return(t, "EFAULT")
     \/ mem[c.uaddr] # c.val /\ Return(t, "EAGAIN")
     \/ /\ mem[c.uaddr] = c.val
        /\ pc' = [pc EXCEPT ![t] = "checked"]
        /\ call' = [call EXCEPT ![t] = c]
        /\ ret' = [ret EXCEPT ![t] = "none"]
        /\ UNCHANGED loc
  /\ UNCHANGED <<mem, maps, readers, asleep>>

Wait(t) ==
  \E a \in Addr, v \in Value, tm \in Timed :
    WaitCheck(t, [op |-> "WAIT", uaddr |-> a, val |-> v, timed |-> tm, val3 |-> {}])

WaitBitset(t) ==
  \E a \in Addr, v \in Value, tm \in Timed, m \in Mask :
    WaitCheck(t, [op |-> "WAIT_BITSET", uaddr |-> a, val |-> v, timed |-> tm, val3 |-> m])

\* The timespec cannot be read.
TimerFault(t) ==
  /\ pc[t] = "checked" /\ call[t].timed
  /\ Return(t, "EFAULT")
  /\ UNCHANGED <<mem, maps, readers, asleep>>

\* addAwait: under the write lock, join the channel of the address or make one.
AddAwait(t) ==
  /\ pc[t] = "checked" /\ call[t].op = "WAIT"
  /\ live /\ readers = {}
  /\ Chan \ UsedChan # {}
  /\ awaits' = Ref(awaits, call[t].uaddr, NewChan)
  /\ loc' = [loc EXCEPT ![t].ch1 = awaits'[call[t].uaddr].ch]
  /\ pc' = [pc EXCEPT ![t] = "registered"]
  /\ UNCHANGED <<mem, live, bitAwaits, closed, readers, call, ret, asleep>>

\* addBitAwait: the same for the address and for the mask, in one section.
AddBitAwait(t) ==
  /\ pc[t] = "checked" /\ call[t].op = "WAIT_BITSET"
  /\ live /\ readers = {}
  /\ Chan \ UsedChan # {} /\ BitChan \ UsedBitChan # {}
  /\ awaits' = Ref(awaits, call[t].uaddr, NewChan)
  /\ bitAwaits' = Ref(bitAwaits, call[t].val3, NewBitChan)
  /\ loc' = [loc EXCEPT ![t].ch1 = awaits'[call[t].uaddr].ch,
                        ![t].ch2 = bitAwaits'[call[t].val3].ch]
  /\ pc' = [pc EXCEPT ![t] = "registered"]
  /\ UNCHANGED <<mem, live, closed, readers, call, ret, asleep>>

\* After dtor the map is nil: the assignment of a new entry panics.
AddNilMap(t) ==
  /\ pc[t] = "checked"
  /\ ~live /\ readers = {}
  /\ Panic(t, "nilMap")
  /\ UNCHANGED <<mem, maps, readers, asleep>>

\* The goroutine reaches the select and blocks.
Park(t) ==
  /\ pc[t] = "registered"
  /\ pc' = [pc EXCEPT ![t] = "parked"]
  /\ UNCHANGED <<mem, maps, readers, call, loc, ret, asleep>>

\* t is no longer parked.
Awake(t) == asleep' = [k \in Thread |-> asleep[k] \ {t}]

\* A case of the select ends the wait with result r.
Leave(t, r) ==
  /\ pc' = [pc EXCEPT ![t] = "leaving"]
  /\ ret' = [ret EXCEPT ![t] = r]
  /\ Awake(t)
  /\ UNCHANGED <<mem, maps, readers, call, loc>>

\* Mutant of SelectTimeout: the wait goes on while the word is unchanged.
SelectTimeoutRetry(t) ==
  /\ pc[t] = "parked" /\ call[t].timed
  /\ IF mem[call[t].uaddr] # call[t].val
     THEN Leave(t, "ETIMEDOUT")
     ELSE /\ pc' = [pc EXCEPT ![t] = "registered"]
          /\ Awake(t)
          /\ UNCHANGED <<mem, maps, readers, call, loc, ret>>

SelectTimeout(t) ==
  /\ pc[t] = "parked" /\ call[t].timed
  /\ Leave(t, "ETIMEDOUT")

\* Mutant of SelectClosed: the zero value of a closed channel is taken as sent.
SelectClosedValue(t) ==
  /\ pc[t] = "parked" /\ loc[t].ch1 \in closed
  /\ IF call[t].val # 0
     THEN Leave(t, "ok")
     ELSE /\ pc' = [pc EXCEPT ![t] = "registered"]
          /\ Awake(t)
          /\ UNCHANGED <<mem, maps, readers, call, loc, ret>>

SelectClosed(t) ==
  /\ pc[t] = "parked" /\ loc[t].ch1 \in closed
  /\ Leave(t, "EPERM")

\* A closed ch2 is received from without looking at ok.
SelectBitClosed(t) ==
  /\ pc[t] = "parked" /\ loc[t].ch2 \in closed
  /\ pc' = [pc EXCEPT ![t] = "recheck"]
  /\ Awake(t)
  /\ UNCHANGED <<mem, maps, readers, call, loc, ret>>

\* A bitset waiter woken through ch2 reads the word again.
Recheck(t) ==
  /\ pc[t] = "recheck"
  /\ \/ Leave(t, "EFAULT")
     \/ mem[call[t].uaddr] # call[t].val /\ Leave(t, "ok")
     \/ /\ mem[call[t].uaddr] = call[t].val
        /\ pc' = [pc EXCEPT ![t] = "registered"]
        /\ UNCHANGED <<mem, maps, readers, call, loc, ret, asleep>>

\* Mutant of DelAwait: the last waiter closes the channel.
DelAwaitCloses(t) ==
  /\ pc[t] = "leaving"
  /\ readers = {}
  /\ awaits' = Unref(awaits, call[t].uaddr)
  /\ UNCHANGED bitAwaits
  /\ closed' = closed \cup (IF awaits[call[t].uaddr].ref = 1 THEN {loc[t].ch1} ELSE {})
  /\ Return(t, ret[t])
  /\ UNCHANGED <<mem, live, readers, asleep>>

\* The deferred delAwait or delBitAwait, and the return.
DelAwait(t) ==
  /\ pc[t] = "leaving"
  /\ readers = {}
  /\ awaits' = Unref(awaits, call[t].uaddr)
  /\ bitAwaits' = IF call[t].op = "WAIT_BITSET"
                  THEN Unref(bitAwaits, call[t].val3) ELSE bitAwaits
  /\ Return(t, ret[t])
  /\ UNCHANGED <<mem, live, closed, readers, asleep>>

(***************************************************************************)
(* FUTEX_WAKE.                                                             *)
(***************************************************************************)
\* getAwait: the channel of the address, looked up under the read lock and
\* used after it is released.
Wake(k) ==
  /\ pc[k] = "user"
  /\ \E a \in Addr, n \in Count :
       \/ awaits[a].ch = NoChan /\ Return(k, "ok") /\ UNCHANGED asleep
       \/ /\ awaits[a].ch # NoChan
          /\ pc' = [pc EXCEPT ![k] = "gotAwait"]
          /\ call' = [call EXCEPT ![k] = [op |-> "WAKE", uaddr |-> a, val |-> n,
                                          timed |-> FALSE, val3 |-> {}]]
          /\ loc' = [loc EXCEPT ![k].ch1 = awaits[a].ch]
          /\ ret' = [ret EXCEPT ![k] = "none"]
          /\ asleep' = [asleep EXCEPT ![k] = {t \in Waiters(a) : pc[t] = "parked"}]
  /\ UNCHANGED <<mem, maps, readers>>

\* The value that will be sent is read once, before the first send.
WakeRead(k) ==
  /\ pc[k] = "gotAwait"
  /\ \/ /\ Return(k, "EFAULT")
        /\ asleep' = [asleep EXCEPT ![k] = {}]
     \/ /\ pc' = [pc EXCEPT ![k] = "waking"]
        /\ loc' = [loc EXCEPT ![k].raw = mem[call[k].uaddr]]
        /\ UNCHANGED <<call, ret, asleep>>
  /\ UNCHANGED <<mem, maps, readers>>

\* Mutant of WakeSend: only a receiver that leaves is counted.
WakeSendUncounted(k, w) ==
  /\ pc[k] = "waking"
  /\ loc[k].sent # call[k].val
  /\ loc[k].ch1 \notin closed
  /\ w \in ParkedOn(loc[k].ch1)
  /\ IF loc[k].raw # call[w].val
     THEN /\ pc' = [pc EXCEPT ![w] = "leaving"]
          /\ ret' = [ret EXCEPT ![w] = "ok"]
          /\ loc' = [loc EXCEPT ![k].sent = loc[k].sent + 1]
     ELSE /\ pc' = [pc EXCEPT ![w] = "registered"]
          /\ UNCHANGED <<ret, loc>>
  /\ Awake(w)
  /\ UNCHANGED <<mem, maps, readers, call>>

\* One send that meets a parked receiver w.  The receiver compares the value
\* it got with its own val and goes back to the select when they are equal.
WakeSend(k, w) ==
  /\ pc[k] = "waking"
  /\ loc[k].sent # call[k].val
  /\ loc[k].ch1 \notin closed
  /\ w \in ParkedOn(loc[k].ch1)
  /\ IF loc[k].raw # call[w].val
     THEN /\ pc' = [pc EXCEPT ![w] = "leaving"]
          /\ ret' = [ret EXCEPT ![w] = "ok"]
     ELSE /\ pc' = [pc EXCEPT ![w] = "registered"]
          /\ UNCHANGED ret
  /\ loc' = [loc EXCEPT ![k].sent = loc[k].sent + 1]
  /\ Awake(w)
  /\ UNCHANGED <<mem, maps, readers, call>>

\* The loop ends: count reached, or the default case because nobody receives.
WakeDone(k) ==
  /\ pc[k] = "waking"
  /\ \/ loc[k].sent = call[k].val
     \/ loc[k].ch1 \notin closed /\ ParkedOn(loc[k].ch1) = {}
  /\ Return(k, "ok")
  /\ asleep' = [asleep EXCEPT ![k] = {}]
  /\ UNCHANGED <<mem, maps, readers>>

\* A send on a channel that dtor closed in the meantime.
WakePanic(k) ==
  /\ pc[k] = "waking"
  /\ loc[k].sent # call[k].val
  /\ loc[k].ch1 \in closed
  /\ Panic(k, "sendOnClosed")
  /\ asleep' = [asleep EXCEPT ![k] = {}]
  /\ UNCHANGED <<mem, maps, readers>>

(***************************************************************************)
(* FUTEX_WAKE_BITSET: the read lock is held over the whole loop, and the   *)
(* address is not looked at.                                               *)
(***************************************************************************)
WakeBitset(k) ==
  /\ pc[k] = "user"
  /\ \E n \in Count, v \in Mask :
       /\ call' = [call EXCEPT ![k] = [op |-> "WAKE_BITSET", uaddr |-> NoAddr, val |-> n,
                                       timed |-> FALSE, val3 |-> v]]
       /\ loc' = [loc EXCEPT ![k].todo =
                    {m \in Mask : bitAwaits[m].ch # NoChan /\ m \cap v # {}}]
       /\ asleep' = [asleep EXCEPT ![k] = {t \in Thread : /\ pc[t] = "parked"
                                                         /\ call[t].op = "WAIT_BITSET"
                                                         /\ call[t].val3 \cap v # {}}]
  /\ pc' = [pc EXCEPT ![k] = "bitPick"]
  /\ readers' = readers \cup {k}
  /\ ret' = [ret EXCEPT ![k] = "none"]
  /\ UNCHANGED <<mem, maps>>

\* The range statement: the next matching mask in any order, or the end.  The
\* sends that follow use its channel; BitSendOpen says it is never closed.
BitPick(k) ==
  /\ pc[k] = "bitPick"
  /\ \/ /\ loc[k].todo = {}
        /\ Return(k, "ok")
        /\ readers' = readers \ {k}
        /\ asleep' = [asleep EXCEPT ![k] = {}]
     \/ \E m \in loc[k].todo :
          /\ pc' = [pc EXCEPT ![k] = "bitSend"]
          /\ loc' = [loc EXCEPT ![k].ch2 = bitAwaits[m].ch,
                                ![k].todo = loc[k].todo \ {m}]
          /\ UNCHANGED <<readers, call, ret, asleep>>
  /\ UNCHANGED <<mem, maps>>

BitSend(k, w) ==
  /\ pc[k] = "bitSend"
  /\ loc[k].sent # call[k].val
  /\ w \in ParkedOnBit(loc[k].ch2)
  /\ pc' = [pc EXCEPT ![w] = "recheck"]
  /\ loc' = [loc EXCEPT ![k].sent = loc[k].sent + 1]
  /\ Awake(w)
  /\ UNCHANGED <<mem, maps, readers, call, ret>>

\* Mutant of BitNext: the return from inside the loop keeps the lock.
BitNextLocked(k) ==
  /\ pc[k] = "bitSend"
  /\ \/ /\ loc[k].sent = call[k].val
        /\ Return(k, "ok")
        /\ asleep' = [asleep EXCEPT ![k] = {}]
     \/ /\ loc[k].sent # call[k].val
        /\ ParkedOnBit(loc[k].ch2) = {}
        /\ pc' = [pc EXCEPT ![k] = "bitPick"]
        /\ UNCHANGED <<call, loc, ret, asleep>>
  /\ UNCHANGED <<mem, maps, readers>>

\* Nobody receives on this mask: go to the next; or count reached: return.
BitNext(k) ==
  /\ pc[k] = "bitSend"
  /\ \/ /\ loc[k].sent = call[k].val
        /\ Return(k, "ok")
        /\ readers' = readers \ {k}
        /\ asleep' = [asleep EXCEPT ![k] = {}]
     \/ /\ loc[k].sent # call[k].val
        /\ ParkedOnBit(loc[k].ch2) = {}
        /\ pc' = [pc EXCEPT ![k] = "bitPick"]
        /\ UNCHANGED <<readers, call, loc, ret, asleep>>
  /\ UNCHANGED <<mem, maps>>

(***************************************************************************)
(* FUTEX_CMP_REQUEUE panics; every other command is ENOSYS.                *)
(***************************************************************************)
CmpRequeue(t) ==
  /\ pc[t] = "user"
  /\ Panic(t, "cmpRequeue")
  /\ UNCHANGED <<mem, maps, readers, asleep>>

Unsupported(t) ==
  /\ pc[t] = "user"
  /\ Return(t, "ENOSYS")
  /\ UNCHANGED <<mem, maps, readers, asleep>>

\* Mutants of Dtor: it does not take the lock; it forgets the mask channels.
DtorUnlocked ==
  /\ live
  /\ live' = FALSE
  /\ closed' = ({awaits[a].ch : a \in Addr} \cup {bitAwaits[m].ch : m \in Mask}) \ {NoChan}
  /\ awaits' = [a \in Addr |-> Absent]
  /\ bitAwaits' = [m \in Mask |-> Absent]
  /\ UNCHANGED <<mem, readers, pc, call, loc, ret, asleep>>

DtorPlainOnly ==
  /\ live /\ readers = {}
  /\ live' = FALSE
  /\ closed' = {awaits[a].ch : a \in Addr} \ {NoChan}
  /\ awaits' = [a \in Addr |-> Absent]
  /\ bitAwaits' = [m \in Mask |-> Absent]
  /\ UNCHANGED <<mem, readers, pc, call, loc, ret, asleep>>

(***************************************************************************)
(* dtor, called by Syscall.Close: close every channel the maps know, then  *)
(* drop the maps, under the write lock.  A second call finds nothing.      *)
(***************************************************************************)
Dtor ==
  /\ live /\ readers = {}
  /\ live' = FALSE
  /\ closed' = ({awaits[a].ch : a \in Addr} \cup {bitAwaits[m].ch : m \in Mask}) \ {NoChan}
  /\ awaits' = [a \in Addr |-> Absent]
  /\ bitAwaits' = [m \in Mask |-> Absent]
  /\ UNCHANGED <<mem, readers, pc, call, loc, ret, asleep>>

(***************************************************************************)
(* The specification.                                                      *)
(***************************************************************************)
\* Guest code decides to do something.
Guest(t) ==
  \/ \E a \in Addr, v \in Value : Store(t, a, v)
  \/ Wait(t) \/ WaitBitset(t) \/ Wake(t) \/ WakeBitset(t)
  \/ CmpRequeue(t) \/ Unsupported(t)

\* The goroutine of t goes on with the call it is in.
Step(t) ==
  \/ TimerFault(t) \/ AddAwait(t) \/ AddBitAwait(t) \/ AddNilMap(t)
  \/ Park(t) \/ SelectTimeout(t) \/ SelectClosed(t) \/ SelectBitClosed(t)
  \/ Recheck(t) \/ DelAwait(t)
  \/ WakeRead(t) \/ WakeDone(t) \/ WakePanic(t)
  \/ BitPick(t) \/ BitNext(t)
  \/ \E w \in Thread : WakeSend(t, w) \/ BitSend(t, w)

Next == Dtor \/ \E t \in Thread : Guest(t) \/ Step(t)

Spec == Init /\ [][Next]_vars

(***************************************************************************)
(* Fairness.  A goroutine that can run is run (weak).  The write lock of a *)
(* sync.RWMutex is not starved by readers, an expired timer and a closed   *)
(* channel stay ready, and select picks at random among the ready cases,   *)
(* so these are taken when they keep becoming possible (strong).  Guest    *)
(* code promises nothing.  A thread is in one place at a time, so that one *)
(* condition of each kind is enough for all its steps.                     *)
(***************************************************************************)
\* What the goroutine of t does next by itself.
Proceeds(t) ==
  \/ Park(t) \/ Recheck(t)
  \/ WakeRead(t) \/ WakePanic(t) \/ WakeDone(t) \/ BitPick(t) \/ BitNext(t)
  \/ \E w \in Thread : WakeSend(t, w) \/ BitSend(t, w)

\* Where it needs the lock, or one of the ready cases of its select.
Acquires(t) ==
  \/ AddAwait(t) \/ AddBitAwait(t) \/ AddNilMap(t) \/ DelAwait(t)
  \/ SelectTimeout(t) \/ SelectClosed(t)

FairSpec == Spec /\ \A t \in Thread : WF_vars(Proceeds(t)) /\ SF_vars(Acquires(t))
-----------------------------------------------------------------------------
Entry(C) == [ch : C \cup {NoChan}, ref : Nat]

Call == [op : {"none", "WAIT", "WAIT_BITSET", "WAKE", "WAKE_BITSET"},
         uaddr : Addr \cup {NoAddr}, val : Int, timed : BOOLEAN,
         val3 : Mask \cup {{}}]

Local == [ch1 : Chan \cup {NoChan}, ch2 : BitChan \cup {NoChan},
          raw : Int, sent : Nat, todo : SUBSET Mask]

Result == {"none", "ok", "EFAULT", "EAGAIN", "ETIMEDOUT", "EPERM", "ENOSYS",
           "nilMap", "sendOnClosed", "cmpRequeue"}

\* Every variable of the futex component stays in its type.
TypeOK ==
  /\ mem \in [Addr -> Value]
  /\ live \in BOOLEAN
  /\ awaits \in [Addr -> Entry(Chan)]
  /\ bitAwaits \in [Mask -> Entry(BitChan)]
  /\ closed \subseteq Chan \cup BitChan
  /\ readers \subseteq Thread
  /\ pc \in [Thread -> PC]
  /\ call \in [Thread -> Call]
  /\ loc \in [Thread -> Local]
  /\ ret \in [Thread -> Result]
  /\ asleep \in [Thread -> SUBSET Thread]

\* Until dtor, the reference count of an entry is the number of threads
\* between addAwait and delAwait, an entry exists exactly while there is such
\* a thread, and all of them listen on the entry's channel.  So no entry leaks,
\* none is deleted under a waiter, and no waiter is left on an old channel.
RegistryExact ==
  live =>
    /\ \A a \in Addr :
         /\ awaits[a].ref = Cardinality(Waiters(a))
         /\ \A t \in Waiters(a) : awaits[a].ch = loc[t].ch1 /\ loc[t].ch1 # NoChan
         /\ Waiters(a) = {} => awaits[a].ch = NoChan
    /\ \A m \in Mask :
         /\ bitAwaits[m].ref = Cardinality(BitWaiters(m))
         /\ \A t \in BitWaiters(m) : bitAwaits[m].ch = loc[t].ch2 /\ loc[t].ch2 # NoChan
         /\ BitWaiters(m) = {} => bitAwaits[m].ch = NoChan

\* A FUTEX_WAKE keeps using its channel after releasing the lock, while the
\* entry may be deleted and made again.  Still nobody who waits on another
\* address ever listens on the channel the waker holds.
WakeStaysOnAddress ==
  \A k, w \in Thread :
    /\ pc[k] \in WakingPC
    /\ pc[w] \in RegisteredPC
    /\ loc[w].ch1 = loc[k].ch1
    => call[w].uaddr = call[k].uaddr

\* A wake of either kind that returns before its count was reached has reached
\* every thread it should that was parked when it began: it was sending on the
\* channels those threads listen on, although entries come and go meanwhile.
\* (After dtor the threads are released by their closed channels instead.)
NoSleeperLeftBehind ==
  [][\A k \in Thread :
       /\ live
       /\ pc[k] \in {"waking"} \cup BitWakingPC
       /\ pc'[k] = "user"
       /\ loc[k].sent # call[k].val
       => asleep[k] = {}]_vars

\* Once dtor has run, every thread still registered listens on a closed
\* channel (and on a closed mask channel), whatever the order of its
\* registration and the entries' deletions: nobody is forgotten by Close.
CloseReachesAll ==
  ~live =>
    \A t \in Thread : pc[t] \in RegisteredPC =>
      /\ loc[t].ch1 \in closed
      /\ call[t].op = "WAIT_BITSET" => loc[t].ch2 \in closed

\* FUTEX_WAKE_BITSET holds the read lock over its sends, so the channel it is
\* sending on is open, and whoever listens on it has a mask that shares a bit.
BitSendOpen ==
  \A k \in Thread :
    pc[k] = "bitSend" =>
      /\ k \in readers
      /\ loc[k].ch2 \notin closed
      /\ live
      /\ \A w \in Thread : loc[w].ch2 = loc[k].ch2 /\ pc[w] \in RegisteredPC
                             => call[w].val3 \cap call[k].val3 # {}

\* As long as dtor has not run, no wait is refused with EPERM and no futex call
\* but FUTEX_CMP_REQUEUE panics: nobody meets a closed channel or a nil map.
CleanUntilClose ==
  live => \A t \in Thread : ret[t] \notin {"EPERM", "nilMap", "sendOnClosed"}
(***************************************************************************)
(* The strengthening that makes the safety properties inductive.           *)
(***************************************************************************)
\* Where a thread is says what its locals hold.
ThreadInv(t) ==
  /\ pc[t] \in {"checked"} \cup RegisteredPC =>
       /\ call[t].op \in {"WAIT", "WAIT_BITSET"}
       /\ call[t].uaddr \in Addr
       /\ call[t].op = "WAIT_BITSET" => call[t].val3 \in Mask
  /\ pc[t] \in RegisteredPC =>
       /\ loc[t].ch1 # NoChan
       /\ (loc[t].ch2 # NoChan) <=> (call[t].op = "WAIT_BITSET")
  /\ pc[t] \in WakingPC =>
       call[t].uaddr \in Addr /\ loc[t].ch1 # NoChan /\ loc[t].ch2 = NoChan
  /\ pc[t] \in {"user", "checked", "panicked"} => loc[t] = Unset

ControlInv ==
  /\ readers = {t \in Thread : pc[t] \in BitWakingPC}
  /\ \A t \in Thread : ThreadInv(t)

\* Distinct keys have distinct channels, and the channel a wake holds is the
\* channel of no other address; dtor leaves empty maps, and until it runs no
\* channel is closed.
ChannelInv ==
  /\ \A a, b \in Addr : awaits[a].ch = awaits[b].ch => a = b \/ awaits[a].ch = NoChan
  /\ \A m, n \in Mask : bitAwaits[m].ch = bitAwaits[n].ch => m = n \/ bitAwaits[m].ch = NoChan
  /\ \A k \in Thread, a \in Addr :
       pc[k] \in WakingPC /\ awaits[a].ch = loc[k].ch1 => a = call[k].uaddr
  /\ live => closed = {}
  /\ ~live => /\ awaits = [a \in Addr |-> Absent]
              /\ bitAwaits = [m \in Mask |-> Absent]

\* A wake by bitset goes through entries of the map that meet its mask.
BitScanInv ==
  \A k \in Thread :
    /\ pc[k] \in BitWakingPC =>
         \A m \in loc[k].todo : bitAwaits[m].ch # NoChan /\ m \cap call[k].val3 # {}
    /\ pc[k] = "bitSend" =>
         \E m \in Mask : /\ bitAwaits[m].ch = loc[k].ch2 /\ loc[k].ch2 # NoChan
                         /\ m \cap call[k].val3 # {}

\* The threads a wake has still to reach listen where it is going to send.
AsleepInv ==
  \A k \in Thread :
    /\ pc[k] \notin WakingPC \cup BitWakingPC => asleep[k] = {}
    /\ \A w \in asleep[k] : live =>
         /\ pc[w] = "parked"
         /\ pc[k] \in WakingPC => loc[w].ch1 = loc[k].ch1
         /\ pc[k] \in BitWakingPC =>
              /\ call[w].op = "WAIT_BITSET"
              /\ \/ call[w].val3 \in loc[k].todo
                 \/ pc[k] = "bitSend" /\ loc[w].ch2 = loc[k].ch2

\* The inductive invariant from which the safety properties are proved.
IndInv ==
  /\ TypeOK /\ ControlInv /\ RegistryExact /\ ChannelInv /\ WakeStaysOnAddress
  /\ BitScanInv /\ CloseReachesAll /\ CleanUntilClose /\ AsleepInv
-----------------------------------------------------------------------------
\* t has registered and has not returned from its wait.
Blocked(t) == pc[t] \in RegisteredPC

\* Every thread that waits when the kernel is closed comes back, also a bitset
\* waiter that spins on its closed mask channel.
CloseReleasesAll ==
  \A t \in Thread : (~live /\ Blocked(t)) ~> ~Blocked(t)

\* A wait with a timeout ends, whatever wakes with unchanged values keep
\* sending it back to the select.
TimedWaitReturns ==
  \A t \in Thread : (Blocked(t) /\ call[t].timed) ~> ~Blocked(t)

\* A wake returns, even if the threads it wakes keep coming back.
WakeReturns ==
  \A t \in Thread : (pc[t] \in WakingPC \cup BitWakingPC) ~> (pc[t] \in {"user", "panicked"})
=============================================================================
