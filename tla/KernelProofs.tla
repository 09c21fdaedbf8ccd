----------------------------- MODULE KernelProofs ---------------------------
(***************************************************************************)
(* The theorems of the kernel's life, hook and errno: what the table of    *)
(* the system calls holds, one lemma per step of the hook, the inductive   *)
(* invariant, and what follows from it.                                    *)
(***************************************************************************)
EXTENDS Kernel, TLAPS

\* Outcomes with an errno only beside a -1; and those with one beside every -1.
Fair(S) == \A o \in S : o \in Outcomes /\ (o.err # "0" => o.ret = "-1")
Good(S) == Fair(S) /\ \A o \in S : o.ret = "-1" => o.err # "0"

LEMMA OutcomeFacts ==
  ASSUME NEW e \in Errno, NEW r \in {"-1", "value", "panic"}, NEW m \in Component \cup {"none"}
  PROVE  /\ Outcome(e, r, m) \in Outcomes
         /\ Outcome(e, r, m).err = e /\ Outcome(e, r, m).ret = r /\ Outcome(e, r, m).map = m
  BY Zenon DEF Outcome, Outcomes

LEMMA GoodParts ==
  /\ \A E \in SUBSET (Errno \ {"0"}) : Good(Fails(E))
  /\ \A m \in Component \cup {"none"} : Good(Writes(m))
  /\ Good(Succeeds) /\ Good(Panics) /\ Fair(HandsOn)
  /\ Good({Outcome(e, "-1", "futex") : e \in {"EFAULT", "ETIMEDOUT", "EPERM"}})
<1>1. \A E \in SUBSET (Errno \ {"0"}) : Good(Fails(E)) BY OutcomeFacts DEF Good, Fair, Fails
<1>2. \A m \in Component \cup {"none"} : Good(Writes(m))
  BY OutcomeFacts DEF Good, Fair, Writes, Errno
<1>3. Good(Succeeds) BY <1>2, Zenon DEF Succeeds
<1>4. Good(Panics) /\ Fair(HandsOn) BY OutcomeFacts DEF Good, Fair, Panics, HandsOn, Errno
<1>5. Good({Outcome(e, "-1", "futex") : e \in {"EFAULT", "ETIMEDOUT", "EPERM"}})
  BY OutcomeFacts DEF Good, Fair, Errno, Component
<1> QED BY <1>1, <1>2, <1>3, <1>4, <1>5, Zenon

LEMMA GoodUnion ==
  ASSUME NEW S, NEW T
  PROVE  (Good(S) /\ Good(T) => Good(S \cup T)) /\ (Fair(S) /\ Fair(T) => Fair(S \cup T))
         /\ (Good(S) => Fair(S))
  BY Zenon DEF Good, Fair

\* An errno comes with a -1 from every handler, and a -1 with an errno from all but
\* clock_gettime and fcntl.
LEMMA GoodFiles ==
  /\ Good(dup3) /\ Fair(fcntl) /\ Good(faccessat) /\ Good(open) /\ Good(openat)
  /\ Good(close) /\ Good(pipe2) /\ Good(lseek) /\ Good(read) /\ Good(write) /\ Good(writev)
  /\ Good(readlinkat) /\ Good(fstatat3264 \cup fstatat64) /\ Good(fstat3264 \cup fstat64)
  /\ Good(ioctl) /\ Good(socket)
<1>1. /\ {"EBADF"} \in SUBSET (Errno \ {"0"}) /\ PathErrors \in SUBSET (Errno \ {"0"})
      /\ {"ENOENT", "EEXIST"} \in SUBSET (Errno \ {"0"})
      /\ PathErrors \cup {"EEXIST"} \in SUBSET (Errno \ {"0"})
      /\ PathErrors \cup {"EINVAL"} \in SUBSET (Errno \ {"0"})
      /\ {"EMFILE"} \in SUBSET (Errno \ {"0"}) /\ {"EBADF", "EINVAL"} \in SUBSET (Errno \ {"0"})
      /\ {"EBADF", "EINTR", "EIO"} \in SUBSET (Errno \ {"0"})
      /\ {"EBADF", "ENOENT"} \in SUBSET (Errno \ {"0"})
      /\ {"EBADF", "EINVAL", "ENOTTY"} \in SUBSET (Errno \ {"0"})
      /\ {"EAFNOSUPPORT", "EACCES"} \in SUBSET (Errno \ {"0"})
  BY Zenon DEF Errno, PathErrors
<1>2. Good(Writes("fcntl")) BY GoodParts, Zenon DEF Component
<1>3. Good(dup3) /\ Good(open) /\ Good(openat) /\ Good(pipe2)
  BY <1>1, <1>2, GoodParts, GoodUnion, Zenon DEF dup3, open, openat, pipe2
<1>4. Fair(fcntl) BY <1>1, <1>2, GoodParts, GoodUnion, Zenon DEF fcntl
<1>5. Good(faccessat) /\ Good(close) /\ Good(lseek) /\ Good(read) /\ Good(write) /\ Good(ioctl)
  BY <1>1, GoodParts, GoodUnion, Zenon DEF faccessat, close, lseek, read, write, ioctl
<1>6. Good(writev) /\ Good(readlinkat) /\ Good(socket)
  BY <1>1, GoodParts, GoodUnion, Zenon DEF writev, readlinkat, socket
<1>7. Good(fstatat3264) /\ Good(fstatat64) /\ Good(fstat3264) /\ Good(fstat64)
  BY <1>1, GoodParts, GoodUnion, Zenon DEF fstatat3264, fstatat64, fstat3264, fstat64
<1>8. Good(fstatat3264 \cup fstatat64) /\ Good(fstat3264 \cup fstat64) BY <1>7, GoodUnion, Zenon
<1> QED BY <1>3, <1>4, <1>5, <1>6, <1>8, Zenon

LEMMA GoodOthers ==
  /\ Good(futex) /\ Good(rt_sigaction) /\ Good(rt_sigprocmask) /\ Good(rt_tgsigqueueinfo)
  /\ Good(clone) /\ Good(execve) /\ Good(munmap) /\ Good(mmap) /\ Good(mprotect)
  /\ Good(sysinfo) /\ Fair(clock_gettime) /\ Good(gettimeofday) /\ Good(getrandom)
  /\ Good(prctl) /\ Good(getpid) /\ Good(gettid) /\ Good(getrlimit) /\ Good(setrlimit)
  /\ Good(exit) /\ Good(Reject) /\ Good(Ignore)
<1>1. /\ {"EFAULT", "EAGAIN", "ENOSYS"} \in SUBSET (Errno \ {"0"})
      /\ {"EFAULT"} \in SUBSET (Errno \ {"0"}) /\ {"EFAULT", "EINVAL"} \in SUBSET (Errno \ {"0"})
      /\ {"EAGAIN"} \in SUBSET (Errno \ {"0"}) /\ {"ENOSYS"} \in SUBSET (Errno \ {"0"})
      /\ {"EINVAL"} \in SUBSET (Errno \ {"0"})
      /\ {"EBADF", "ENODEV", "EINVAL"} \in SUBSET (Errno \ {"0"})
  BY Zenon DEF Errno
<1>2. Good(Writes("futex")) /\ Good(Writes("signal")) BY GoodParts, Zenon DEF Component
<1>3. Good(futex) BY <1>1, <1>2, GoodParts, GoodUnion, ZenonT(60) DEF futex
<1>4. Good(rt_sigaction) /\ Good(rt_sigprocmask) /\ Good(rt_tgsigqueueinfo)
  BY <1>1, <1>2, GoodParts, GoodUnion, Zenon DEF rt_sigaction, rt_sigprocmask, rt_tgsigqueueinfo
<1>5. Good(clone) /\ Good(execve) /\ Good(munmap) /\ Good(mmap) /\ Good(mprotect)
  BY <1>1, GoodParts, GoodUnion, Zenon DEF clone, execve, munmap, mmap, mprotect
<1>6. Good(sysinfo) /\ Fair(clock_gettime) /\ Good(getrandom) /\ Good(prctl)
  BY <1>1, GoodParts, GoodUnion, Zenon DEF sysinfo, clock_gettime, getrandom, prctl
<1>7. Good(gettimeofday) /\ Good(getpid) /\ Good(gettid) /\ Good(getrlimit) /\ Good(setrlimit)
  BY GoodParts, Zenon DEF gettimeofday, getpid, gettid, getrlimit, setrlimit
<1>8. Good(exit) /\ Good(Reject) /\ Good(Ignore) BY <1>1, GoodParts, Zenon DEF exit, Reject, Ignore
<1> QED BY <1>3, <1>4, <1>5, <1>6, <1>7, <1>8, Zenon

LEMMA GetFacts ==
  ASSUME NEW n \in DOMAIN Get
  PROVE  Fair(Get[n]) /\ (n \notin Silent => Good(Get[n]))
<1>1. DOMAIN Get = {"dup3", "fcntl", "ioctl", "faccessat", "open", "openat", "close",
                    "pipe2", "lseek", "read", "write", "writev", "readlinkat",
                    "fstatat64", "fstat64", "exit", "exit_group", "futex",
                    "clock_gettime", "sigaltstack", "rt_sigaction", "rt_sigprocmask",
                    "getrlimit", "setrlimit", "prctl", "gettimeofday", "getpid",
                    "getuid", "geteuid", "gettid", "sysinfo", "socket", "munmap",
                    "clone", "execve", "mmap", "mmap2", "mprotect", "madvise",
                    "rt_tgsigqueueinfo", "getrandom", "NR_reject", "NR_ignore"}
  BY Zenon DEF Get
<1>2. /\ Get["dup3"] = dup3 /\ Get["fcntl"] = fcntl /\ Get["ioctl"] = ioctl /\
         Get["faccessat"] = faccessat /\ Get["open"] = open /\
         Get["openat"] = openat /\ Get["close"] = close /\ Get["pipe2"] = pipe2 /\
         Get["lseek"] = lseek /\ Get["read"] = read /\ Get["write"] = write /\
         Get["writev"] = writev /\ Get["readlinkat"] = readlinkat /\
         Get["fstatat64"] = fstatat3264 \cup fstatat64 /\
         Get["fstat64"] = fstat3264 \cup fstat64
  BY ZenonT(60) DEF Get
<1>3. /\ Get["exit"] = exit /\ Get["exit_group"] = exit /\ Get["futex"] = futex /\
         Get["clock_gettime"] = clock_gettime /\ Get["sigaltstack"] = Ignore /\
         Get["rt_sigaction"] = rt_sigaction /\
         Get["rt_sigprocmask"] = rt_sigprocmask /\ Get["getrlimit"] = getrlimit /\
         Get["setrlimit"] = setrlimit /\ Get["prctl"] = prctl /\
         Get["gettimeofday"] = gettimeofday /\ Get["getpid"] = getpid /\
         Get["getuid"] = Ignore /\ Get["geteuid"] = Ignore /\ Get["gettid"] = gettid
  BY ZenonT(60) DEF Get
<1>4. /\ Get["sysinfo"] = sysinfo /\ Get["socket"] = socket /\
         Get["munmap"] = munmap /\ Get["clone"] = clone /\ Get["execve"] = execve /\
         Get["mmap"] = mmap /\ Get["mmap2"] = mmap /\ Get["mprotect"] = mprotect /\
         Get["madvise"] = Reject /\ Get["rt_tgsigqueueinfo"] = rt_tgsigqueueinfo /\
         Get["getrandom"] = getrandom /\ Get["NR_reject"] = Reject /\
         Get["NR_ignore"] = Ignore
  BY ZenonT(60) DEF Get
<1>5. Good(Get[n]) \/ (n \in Silent /\ Fair(Get[n]))
  BY <1>1, <1>2, <1>3, <1>4, GoodFiles, GoodOthers, ZenonT(60) DEF Silent
<1> QED BY <1>5, Zenon DEF Good

\* What a handler can return, and whether its number says that it may be silent.
LEMMA ResultFacts ==
  ASSUME NEW n \in DOMAIN Get, NEW o \in Get[n]
  PROVE  LET w == [silent |-> n \in Silent, out |-> o]
         IN /\ w \in Outs
            /\ w.out.ret = "-1" /\ ~w.silent => w.out.err # "0"
            /\ w.out.err # "0" => w.out.ret = "-1"
<1> DEFINE w == [silent |-> n \in Silent, out |-> o]
<1>1. o \in Outcomes /\ (o.err # "0" => o.ret = "-1") BY GetFacts, Zenon DEF Fair
<1>2. n \notin Silent => (o.ret = "-1" => o.err # "0") BY GetFacts, Zenon DEF Good
<1>3. w.out = o /\ (w.silent <=> n \in Silent) BY Zenon
<1>4. w \in Outs
  <2>1. \A b \in BOOLEAN : [silent |-> b, out |-> o] \in Outs BY <1>1, ZenonT(60) DEF Outs
  <2>2. (n \in Silent) \in BOOLEAN OBVIOUS
  <2> QED BY <2>1, <2>2, ZenonT(60)
<1> QED BY <1>1, <1>2, <1>3, <1>4, Zenon

LEMMA KernelTypes ==
  ASSUME TypeOK
  PROVE  /\ out \in [Thread -> Outs] /\ alone \in [Thread -> BOOLEAN]
         /\ pc \in [Thread -> {"guest", "found", "handler", "return", "panicked", "nilMap"}]
         /\ nr \in [Thread -> DOMAIN Get \cup {"none"}]
         /\ into \in [Thread -> Component \cup {"none"}]
         /\ \A t \in Thread : out[t] \in Outs /\ out[t].out \in Outcomes
                              /\ out[t].out.err \in Errno /\ out[t].out.map \in Component \cup {"none"}
  BY Zenon DEF TypeOK, Outs, Outcomes

\* Close: the hook and the maps.
LEMMA CloseKeeps ==
  ASSUME IndInv, CloseHook \/ Dtor
  PROVE  IndInv'
<1>1. UNCHANGED <<err, pc, nr, into, out, alone>> BY Zenon DEF CloseHook, Dtor
<1>2. hooked' \in BOOLEAN /\ maps' \subseteq maps /\ ~hooked'
  <2>1. CASE CloseHook BY <2>1, Zenon DEF CloseHook
  <2>2. CASE Dtor
    <3>1. hooked' = hooked /\ ~hooked BY <2>2, Zenon DEF Dtor
    <3>2. maps' \subseteq maps BY <2>2, Zenon DEF Dtor, IndInv, LifeInv, Component
    <3> QED BY <3>1, <3>2, Zenon DEF IndInv, TypeOK
  <2> QED BY <2>1, <2>2, Zenon
<1>3. TypeOK' BY <1>1, <1>2, Zenon DEF IndInv, TypeOK
<1>4. LifeInv' BY DEF CloseHook, Dtor, IndInv, LifeInv, Component
<1>5. CallInv' /\ ErrnoTells' BY <1>1, Zenon DEF IndInv, CallInv, ErrnoTells
<1>6. NilMapOnlyInClose' BY <1>1, <1>2, Zenon DEF IndInv, NilMapOnlyInClose
<1> QED BY <1>3, <1>4, <1>5, <1>6, Zenon DEF IndInv

LEMMA IdleFacts == Idle \in Outs /\ Idle.out.err = "0" /\ Idle.out.ret = "value" /\ ~Idle.silent
  BY Zenon DEF Idle, Outcome, Outs, Outcomes, Errno

LEMMA TrapKeeps ==
  ASSUME IndInv, NEW t \in Thread, Trap(t)
  PROVE  IndInv'
<1>1. PICK n \in DOMAIN Get : nr' = [nr EXCEPT ![t] = n] BY Zenon DEF Trap
<1>2. /\ pc[t] = "guest" /\ hooked /\ pc' = [pc EXCEPT ![t] = "found"]
      /\ out' = [out EXCEPT ![t] = Idle]
      /\ UNCHANGED <<err, hooked, maps, into, alone>>
  BY Zenon DEF Trap
<1>3. /\ nr' \in [Thread -> DOMAIN Get \cup {"none"}] /\ nr'[t] = n
      /\ \A u \in Thread \ {t} : nr'[u] = nr[u]
  BY <1>1, KernelTypes, ZenonT(60) DEF IndInv
<1>4. out' \in [Thread -> Outs] /\ \A u \in Thread \ {t} : out'[u] = out[u]
  BY <1>2, IdleFacts, KernelTypes, ZenonT(60) DEF IndInv
<1>5. /\ pc' \in [Thread -> {"guest", "found", "handler", "return", "panicked", "nilMap"}]
      /\ pc'[t] = "found" /\ \A u \in Thread \ {t} : pc'[u] = pc[u]
  BY <1>2, SMTT(30) DEF IndInv, TypeOK
<1>6. TypeOK' BY <1>2, <1>3, <1>4, <1>5, ZenonT(60) DEF IndInv, TypeOK
<1>7. LifeInv' BY <1>2, <1>5, ZenonT(60) DEF IndInv, LifeInv
<1>8. CallInv' BY <1>2, <1>3, <1>5, ZenonT(60) DEF IndInv, CallInv
<1>9. ErrnoTells' BY <1>2, <1>4, <1>5, ZenonT(60) DEF IndInv, ErrnoTells
<1>10. NilMapOnlyInClose' BY <1>2, <1>3, <1>5, Zenon DEF IndInv, NilMapOnlyInClose
<1> QED BY <1>6, <1>7, <1>8, <1>9, <1>10, Zenon DEF IndInv

LEMMA ResetKeeps ==
  ASSUME IndInv, NEW t \in Thread, Reset(t)
  PROVE  IndInv'
<1>1. /\ pc[t] = "found" /\ err' = "0" /\ alone' = [u \in Thread |-> u = t]
      /\ pc' = [pc EXCEPT ![t] = "handler"]
      /\ UNCHANGED <<hooked, maps, nr, into, out>>
  BY Zenon DEF Reset
<1>2. /\ pc' \in [Thread -> {"guest", "found", "handler", "return", "panicked", "nilMap"}]
      /\ pc'[t] = "handler" /\ \A u \in Thread \ {t} : pc'[u] = pc[u]
      /\ alone' \in [Thread -> BOOLEAN] /\ \A u \in Thread : alone'[u] <=> u = t
  BY <1>1, Zenon DEF IndInv, TypeOK
<1>3. TypeOK' BY <1>1, <1>2, Zenon DEF IndInv, TypeOK, Errno
<1>4. LifeInv' BY <1>1, <1>2, Zenon DEF IndInv, LifeInv
<1>5. CallInv' BY <1>1, <1>2, Zenon DEF IndInv, CallInv
<1>6. ErrnoTells' BY <1>2, Zenon DEF ErrnoTells
<1>7. NilMapOnlyInClose' BY <1>1, <1>2, Zenon DEF IndInv, NilMapOnlyInClose
<1> QED BY <1>3, <1>4, <1>5, <1>6, <1>7, Zenon DEF IndInv

LEMMA MapWriteKeeps ==
  ASSUME IndInv, NEW t \in Thread, MapWrite(t)
  PROVE  IndInv'
<1>1. pc[t] = "handler" /\ UNCHANGED <<err, hooked, maps, nr, out, alone>>
  BY Zenon DEF MapWrite
<1>2. PICK o \in Get[nr[t]] :
        \/ /\ o.map \in maps
           /\ into' = [into EXCEPT ![t] = o.map] /\ UNCHANGED pc
        \/ /\ o.map \in Component \ maps
           /\ pc' = [pc EXCEPT ![t] = "nilMap"] /\ UNCHANGED into
  BY Zenon DEF MapWrite
<1>3. CASE o.map \in maps /\ into' = [into EXCEPT ![t] = o.map] /\ UNCHANGED pc
  <2>1. into' \in [Thread -> Component \cup {"none"}] BY <1>3, Zenon DEF IndInv, TypeOK
  <2>2. TypeOK' BY <1>1, <1>3, <2>1, Zenon DEF IndInv, TypeOK
  <2> QED BY <1>1, <1>3, <2>2, Zenon
          DEF IndInv, LifeInv, CallInv, ErrnoTells, NilMapOnlyInClose
<1>4. CASE o.map \in Component \ maps /\ pc' = [pc EXCEPT ![t] = "nilMap"] /\ UNCHANGED into
  <2>1. /\ pc' \in [Thread -> {"guest", "found", "handler", "return", "panicked", "nilMap"}]
        /\ pc'[t] = "nilMap" /\ \A u \in Thread \ {t} : pc'[u] = pc[u]
    BY <1>4, Zenon DEF IndInv, TypeOK
  <2>2. TypeOK' BY <1>1, <1>4, <2>1, ZenonT(60) DEF IndInv, TypeOK
  <2>3. LifeInv' BY <1>1, <2>1, ZenonT(60) DEF IndInv, LifeInv
  <2>4. CallInv' BY <1>1, <2>1, ZenonT(60) DEF IndInv, CallInv
  <2>5. ErrnoTells' BY <1>1, <2>1, Zenon DEF IndInv, ErrnoTells
  <2>6. ~hooked /\ \E p \in Get[nr[t]] : p.map \in Component \ maps
    BY <1>2, <1>4, Zenon DEF IndInv, LifeInv
  <2>7. NilMapOnlyInClose' BY <1>1, <2>1, <2>6, Zenon DEF IndInv, NilMapOnlyInClose
  <2> QED BY <2>2, <2>3, <2>4, <2>5, <2>7, Zenon DEF IndInv
<1> QED BY <1>2, <1>3, <1>4, Zenon

LEMMA HandleKeeps ==
  ASSUME IndInv, NEW t \in Thread, Handle(t)
  PROVE  IndInv'
<1>1. /\ pc[t] = "handler" /\ nr[t] \in DOMAIN Get
      /\ nr' = [nr EXCEPT ![t] = "none"] /\ into' = [into EXCEPT ![t] = "none"]
      /\ UNCHANGED <<hooked, maps>>
  BY Zenon DEF Handle, IndInv, CallInv
<1> DEFINE w(o) == [silent |-> nr[t] \in Silent, out |-> o]
<1>2. PICK o \in Get[nr[t]] :
        /\ out' = [out EXCEPT ![t] = w(o)]
        /\ pc' = [pc EXCEPT ![t] = IF o.ret = "panic" THEN "panicked" ELSE "return"]
        /\ IF o.err = "0" THEN UNCHANGED <<err, alone>> ELSE SetErrno(t, o.err)
  BY Zenon DEF Handle
<1>3. /\ w(o) \in Outs /\ (w(o).out.ret = "-1" /\ ~w(o).silent => w(o).out.err # "0")
      /\ (w(o).out.err # "0" => w(o).out.ret = "-1") /\ w(o).out = o
  BY <1>1, ResultFacts, ZenonT(60)
<1>4. /\ out' \in [Thread -> Outs] /\ out'[t] = w(o)
      /\ \A u \in Thread \ {t} : out'[u] = out[u]
  BY <1>2, <1>3, KernelTypes, ZenonT(60) DEF IndInv
<1> HIDE DEF w
<1>5. /\ nr' \in [Thread -> DOMAIN Get \cup {"none"}] /\ into' \in [Thread -> Component \cup {"none"}]
      /\ \A u \in Thread \ {t} : nr'[u] = nr[u]
  BY <1>1, KernelTypes, ZenonT(60) DEF IndInv
<1>6. /\ pc' \in [Thread -> {"guest", "found", "handler", "return", "panicked", "nilMap"}]
      /\ pc'[t] \in {"return", "panicked"} /\ \A u \in Thread \ {t} : pc'[u] = pc[u]
  BY <1>2, KernelTypes, SMTT(30) DEF IndInv
<1>7. LifeInv' BY <1>1, <1>6, ZenonT(60) DEF IndInv, LifeInv
<1>8. NilMapOnlyInClose' BY <1>1, <1>5, <1>6, ZenonT(60) DEF IndInv, NilMapOnlyInClose
<1>9. /\ err' \in Errno /\ alone' \in [Thread -> BOOLEAN] /\ (alone'[t] <=> alone[t])
      /\ \A u \in Thread : alone'[u] => alone[u] /\ (u # t => err' = err)
      /\ alone[t] => err' = o.err
  <2>1. CASE o.err = "0" /\ UNCHANGED <<err, alone>>
    BY <1>1, <2>1, Zenon DEF IndInv, TypeOK, CallInv
  <2>2. CASE o.err # "0" /\ SetErrno(t, o.err)
    <3>1. err' = o.err /\ alone' = [u \in Thread |-> IF u = t THEN alone[u] ELSE FALSE]
      BY <2>2, Zenon DEF SetErrno
    <3>2. /\ alone' \in [Thread -> BOOLEAN] /\ (alone'[t] <=> alone[t])
          /\ \A u \in Thread \ {t} : ~alone'[u]
      BY <3>1, Zenon DEF IndInv, TypeOK
    <3>3. err' \in Errno
      <4>1. w(o).out \in Outcomes BY <1>3, Zenon DEF Outs
      <4>2. o \in Outcomes BY <1>3, <4>1, Zenon
      <4> QED BY <3>1, <4>2, Zenon DEF Outcomes
    <3> QED BY <3>1, <3>2, <3>3, ZenonT(60)
  <2> QED BY <1>2, <2>1, <2>2, ZenonT(60)
<1>10. TypeOK' BY <1>1, <1>4, <1>5, <1>6, <1>9, ZenonT(60) DEF IndInv, TypeOK
<1>11. CallInv' BY <1>5, <1>6, <1>9, ZenonT(60) DEF IndInv, CallInv
<1>12. ErrnoTells'
  <2>1. ASSUME alone'[t]
        PROVE  /\ err' = out'[t].out.err
               /\ ~out'[t].silent => (err' # "0" <=> out'[t].out.ret = "-1")
    BY <1>3, <1>4, <1>9, <2>1, ZenonT(60)
  <2>2. ASSUME NEW u \in Thread \ {t}, alone'[u], pc'[u] \in {"return", "guest"}
        PROVE  /\ err' = out'[u].out.err
               /\ ~out'[u].silent => (err' # "0" <=> out'[u].out.ret = "-1")
    <3>1. alone[u] /\ err' = err /\ out'[u] = out[u] /\ pc'[u] = pc[u] BY <1>4, <1>6, <1>9, <2>2, Zenon
    <3> QED BY <2>2, <3>1, ZenonT(60) DEF IndInv, ErrnoTells
  <2> QED BY <2>1, <2>2, ZenonT(60) DEF ErrnoTells
<1> QED BY <1>7, <1>8, <1>10, <1>11, <1>12, Zenon DEF IndInv

LEMMA RegWriteKeeps ==
  ASSUME IndInv, NEW t \in Thread, RegWrite(t)
  PROVE  IndInv'
<1>1. /\ pc[t] = "return" /\ pc' = [pc EXCEPT ![t] = "guest"]
      /\ UNCHANGED <<err, hooked, maps, nr, into, out, alone>>
  BY Zenon DEF RegWrite
<1>2. /\ pc' \in [Thread -> {"guest", "found", "handler", "return", "panicked", "nilMap"}]
      /\ pc'[t] = "guest" /\ \A u \in Thread \ {t} : pc'[u] = pc[u]
  BY <1>1, Zenon DEF IndInv, TypeOK
<1>3. TypeOK' BY <1>1, <1>2, Zenon DEF IndInv, TypeOK
<1>4. LifeInv' BY <1>1, <1>2, Zenon DEF IndInv, LifeInv
<1>5. CallInv' BY <1>1, <1>2, Zenon DEF IndInv, CallInv
<1>6. ErrnoTells' BY <1>1, <1>2, Zenon DEF IndInv, ErrnoTells
<1>7. NilMapOnlyInClose' BY <1>1, <1>2, Zenon DEF IndInv, NilMapOnlyInClose
<1> QED BY <1>3, <1>4, <1>5, <1>6, <1>7, Zenon DEF IndInv

\* The inductive invariant of the kernel's hook, maps and errno, for any number of
\* threads.
THEOREM KernelInductive == Spec => []IndInv
<1>1. Init => IndInv
  <2> SUFFICES ASSUME Init PROVE IndInv BY Zenon
  <2>1. TypeOK BY IdleFacts, ZenonT(60) DEF Init, TypeOK, Errno
  <2>2. LifeInv BY Zenon DEF Init, LifeInv, Component
  <2>3. CallInv BY Zenon DEF Init, CallInv
  <2> QED BY <2>1, <2>2, <2>3, Zenon DEF Init, IndInv, ErrnoTells, NilMapOnlyInClose
<1>2. IndInv /\ [Next]_vars => IndInv'
  <2> SUFFICES ASSUME IndInv, [Next]_vars PROVE IndInv' BY Zenon
  <2>1. CASE UNCHANGED vars
    BY <2>1, Zenon DEF vars, IndInv, TypeOK, LifeInv, CallInv, ErrnoTells, NilMapOnlyInClose
  <2> QED BY <2>1, CloseKeeps, TrapKeeps, ResetKeeps, MapWriteKeeps, HandleKeeps,
             RegWriteKeeps, Zenon DEF Next
<1> QED BY <1>1, <1>2, PTL DEF Spec

\* A caller whose call was alone can tell from Kernel.err whether it failed.
THEOREM Errnos == Spec => []ErrnoTells
<1>1. IndInv => ErrnoTells BY Zenon DEF IndInv
<1> QED BY <1>1, KernelInductive, PTL

\* A handler meets a nil map only in a call that Close has overtaken, and
\* only in a map that Close has dropped.
THEOREM NilMaps == Spec => []NilMapOnlyInClose
<1>1. IndInv => NilMapOnlyInClose BY Zenon DEF IndInv
<1> QED BY <1>1, KernelInductive, PTL
=============================================================================
