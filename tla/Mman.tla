-------------------------------- MODULE Mman -------------------------------
(***************************************************************************)
(* kernel/mman.go: mmap and munmap on the guest's address space, with the  *)
(* position of the file that mmap reads from.                              *)
(*                                                                         *)
(* A mapping is made in steps: the file is positioned, unless the offset   *)
(* is 0; with MAP_FIXED the range is unmapped and then mapped, otherwise   *)
(* allocated; the file is copied in, chunk by chunk, and if it is too      *)
(* short the range is freed again. Other threads map, unmap, read and seek *)
(* in between. mprotect changes nothing that is modelled here.             *)
(*                                                                         *)
(* The address space is external: MemMap fails if a page of the range is   *)
(* mapped, MemUnmap if one is not, MapAlloc finds a free range, and        *)
(* MapFree may not know a range that MapAlloc did not give. New memory is  *)
(* zero. A page of the model is what io.CopyN copies in one go.            *)
(*                                                                         *)
(* The guest minds its own pages: a thread unmaps only pages that it has   *)
(* mapped, and with MAP_FIXED it maps over those or where MapAlloc         *)
(* allocates nothing and no other thread has mapped or is mapping.         *)
(***************************************************************************)
EXTENDS Callers, Integers

CONSTANTS
  Pages,      \* the address space is 0..Pages-1
  Arena,      \* where MapAlloc allocates: 0..Arena-1
  Blocks,     \* the file is 0..Blocks-1
  MaxLen      \* of a mapping

ASSUME MmanAssumption ==
  Pages \in Nat /\ Arena \in 0..Pages /\ Blocks \in Nat /\ MaxLen \in Nat

Page == 0..(Pages - 1)

VARIABLES
  mem,        \* of a page: the block it has, -1 for zeros, -2 if it is not mapped
  seeker,     \* whether the file is an io.Seeker
  pos,        \* the position of the file
  call,       \* per caller: arguments of mmap
  copied,     \* per caller: pages that have been copied
  owner,      \* history: whose page it is, from the mmap that maps it
  expect,     \* history: of a page, what it should have, -2 if anything
  calm,       \* history: callers with the file as they positioned it
  stray       \* history: pages that a failed mmap with MAP_FIXED has left mapped

mmanVars == <<mem, seeker, pos, step, call, copied, owner, expect, calm, stray>>

Zero == -1
None == -2

\* addr, len, MAP_FIXED, whether there is a file, and offset: -1 stands for one that
\* is negative, or more than make can allocate.
Args(a, n, x, f, o) == [addr |-> a, len |-> n, fixed |-> x, file |-> f, off |-> o]
NoArgs == Args(0, 0, FALSE, FALSE, 0)

Pgs(a, n) == a..(a + n - 1)
Span(t) == Pgs(call[t].addr, call[t].len)

MmanInit ==
  /\ mem = [p \in Page |-> None] /\ seeker \in BOOLEAN /\ pos = 0
  /\ step = [t \in Caller |-> "guest"] /\ call = [t \in Caller |-> NoArgs]
  /\ copied = [t \in Caller |-> 0]
  /\ owner = [p \in Page |-> NoCaller] /\ expect = [p \in Page |-> None]
  /\ calm = {} /\ stray = {}

Finish(t) ==
  /\ GoTo(t, "guest") /\ call' = [call EXCEPT ![t] = NoArgs]
  /\ copied' = [copied EXCEPT ![t] = 0] /\ calm' = calm \ {t}

SetPages(f, ps, v) == [p \in Page |-> IF p \in ps THEN v ELSE f[p]]

\* The pages are not t's any more.
Disown(t, ps) ==
  LET own == {p \in ps : owner[p] = t} IN
  owner' = SetPages(owner, own, NoCaller) /\ expect' = SetPages(expect, own, None)

\* The position moves: whoever else is copying is no longer calm.
Moves(t, q) == pos' = q /\ calm' = calm \cap {t}

-----------------------------------------------------------------------------
(* mmap *)

\* The guest's discipline for MAP_FIXED.
MayMapOver(t, p) ==
  \/ owner[p] = t
  \/ /\ p >= Arena /\ owner[p] = NoCaller
     /\ \A u \in Caller : step[u] # "guest" /\ call[u].fixed => p \notin Span(u)

\* The arguments; EBADF and ENODEV for the descriptor leave all as it is.
Mmap(t) ==
  /\ step[t] = "guest"
  /\ \E a \in Page, n \in 1..MaxLen, x, f \in BOOLEAN, o \in -1..(Blocks - 1) :
       /\ a + n <= Pages /\ (~x => a = 0) /\ (~f => o = 0)
       /\ x => \A p \in Pgs(a, n) : MayMapOver(t, p)
       /\ call' = [call EXCEPT ![t] = Args(a, n, x, f, o)]
       /\ GoTo(t, IF f /\ o # 0 THEN "seek" ELSE IF x THEN "unmap" ELSE "alloc")
       /\ calm' = IF f /\ o = 0 /\ pos = 0 THEN calm \cup {t} ELSE calm
  /\ UNCHANGED <<mem, pos, copied, owner, expect, stray>>

SeekDone(t) ==
  GoTo(t, IF call[t].fixed THEN "unmap" ELSE "alloc") /\ UNCHANGED call

\* Mutant of Seek: relative to where the file is.
SeekCurrent(t) ==
  /\ step[t] = "seek"
  /\ pos' = pos + call[t].off /\ calm' = {t} /\ SeekDone(t)
  /\ UNCHANGED <<mem, copied, owner, expect, stray>>

\* Mutant of Seek: the file stays where it is.
SeekForgotten(t) ==
  /\ step[t] = "seek"
  /\ calm' = {t} /\ SeekDone(t)
  /\ UNCHANGED <<mem, pos, copied, owner, expect, stray>>

\* ENODEV, or the panic of make.
SeekFails(t, s) == GoTo(t, s) /\ call' = [call EXCEPT ![t] = NoArgs]

\* The Seek of a file that has one may fail: it refuses a negative offset, and an
\* os.File may be a pipe.  A file without is read up to the offset, from where it
\* is, into a slice of that length: ENODEV if it ends before.
Seek(t) ==
  /\ step[t] = "seek"
  /\ \/ seeker /\ call[t].off >= 0 /\ pos' = call[t].off /\ calm' = {t} /\ SeekDone(t)
     \/ seeker /\ UNCHANGED <<pos, calm>> /\ SeekFails(t, "guest")
     \/ ~seeker /\ call[t].off < 0 /\ UNCHANGED <<pos, calm>> /\ SeekFails(t, "panicked")
     \/ /\ ~seeker /\ call[t].off >= 0 /\ pos + call[t].off <= Blocks
        /\ pos' = pos + call[t].off /\ calm' = IF pos = 0 THEN {t} ELSE {}
        /\ SeekDone(t)
     \/ /\ ~seeker /\ pos + call[t].off > Blocks
        /\ pos' = Blocks /\ calm' = {} /\ SeekFails(t, "guest")
  /\ UNCHANGED <<mem, copied, owner, expect, stray>>

\* MemUnmap, whose result is not looked at.
Unmap(t) ==
  /\ step[t] = "unmap"
  /\ IF \A p \in Span(t) : mem[p] # None
     THEN mem' = SetPages(mem, Span(t), None) /\ Disown(t, Span(t))
     ELSE UNCHANGED <<mem, owner, expect>>
  /\ GoTo(t, "map")
  /\ UNCHANGED <<pos, call, copied, calm, stray>>

\* The range is the caller's now, and the copy or the return follows.
Mapped(t, c) ==
  LET ps == Pgs(c.addr, c.len) IN
  /\ \A p \in ps : mem[p] = None
  /\ mem' = SetPages(mem, ps, Zero) /\ owner' = SetPages(owner, ps, t)
  /\ stray' = stray \ ps
  /\ expect' = SetPages(expect, ps, IF c.file THEN None ELSE Zero)
  /\ IF c.file
     THEN GoTo(t, "copy") /\ call' = [call EXCEPT ![t] = c] /\ UNCHANGED <<copied, calm>>
     ELSE Finish(t)
  /\ UNCHANGED pos

\* Mutant of Map: a failure is cleaned up after.
MapCleansUp(t) ==
  /\ step[t] = "map"
  /\ \/ Mapped(t, call[t])
     \/ /\ \E p \in Span(t) : mem[p] # None
        /\ mem' = SetPages(mem, Span(t), None)
        /\ Finish(t) /\ UNCHANGED <<pos, owner, expect, stray>>

\* MemMap: EINVAL if something is there, the part that Unmap did not unmap or
\* what another thread was given in between.
Map(t) ==
  /\ step[t] = "map"
  /\ \/ Mapped(t, call[t])
     \/ /\ \E p \in Span(t) : mem[p] # None
        /\ Finish(t) /\ UNCHANGED <<mem, pos, owner, expect, stray>>

\* MapAlloc: EINVAL if there is no room.
Alloc(t) ==
  /\ step[t] = "alloc"
  /\ \/ \E a \in Page :
          /\ a + call[t].len <= Arena
          /\ Mapped(t, Args(a, call[t].len, FALSE, call[t].file, call[t].off))
     \/ /\ \A a \in Page : a + call[t].len <= Arena =>
             \E p \in Pgs(a, call[t].len) : mem[p] # None
        /\ Finish(t) /\ UNCHANGED <<mem, pos, owner, expect, stray>>

\* The next chunk of the file, or its end.
Copy(t) ==
  LET p == call[t].addr + copied[t] IN
  /\ step[t] = "copy"
  /\ \/ /\ pos < Blocks /\ copied[t] < call[t].len
        /\ mem' = [mem EXCEPT ![p] = pos]
        /\ expect' = IF t \in calm /\ owner[p] = t
                     THEN [expect EXCEPT ![p] = call[t].off + copied[t]] ELSE expect
        /\ copied' = [copied EXCEPT ![t] = @ + 1]
        /\ Moves(t, pos + 1) /\ UNCHANGED <<step, call>>
     \/ /\ copied[t] = call[t].len
        /\ Finish(t) /\ UNCHANGED <<mem, pos, expect>>
     \/ /\ pos >= Blocks /\ copied[t] < call[t].len
        /\ GoTo(t, "free") /\ UNCHANGED <<mem, pos, call, copied, expect, calm>>
  /\ UNCHANGED <<owner, stray>>

\* Mutant of Free: the error return forgets the range.
FreeForgotten(t) ==
  /\ step[t] = "free"
  /\ Disown(t, Span(t))
  /\ Finish(t) /\ UNCHANGED <<mem, pos, stray>>

\* MapFree after a copy that failed, whose result is not looked at: ENODEV.
Free(t) ==
  /\ step[t] = "free"
  /\ Disown(t, Span(t))
  /\ \/ mem' = SetPages(mem, Span(t), None) /\ UNCHANGED stray
     \/ call[t].fixed /\ stray' = stray \cup Span(t) /\ UNCHANGED mem
  /\ Finish(t) /\ UNCHANGED pos

-----------------------------------------------------------------------------
(* The other calls *)

\* MapFree, if it knows the range; otherwise EINVAL and all stays.
Munmap(t) ==
  /\ step[t] = "guest"
  /\ \E a \in Page, n \in 1..MaxLen :
       /\ a + n <= Pages /\ \A p \in Pgs(a, n) : owner[p] = t
       /\ mem' = SetPages(mem, Pgs(a, n), None)
       /\ Disown(t, Pgs(a, n))
  /\ UNCHANGED <<pos, step, call, copied, calm, stray>>

\* read and lseek on the file.
MovePosition(t) ==
  /\ step[t] = "guest"
  /\ \E q \in 0..Blocks : (IF seeker THEN q # pos ELSE q > pos) /\ Moves(t, q)
  /\ UNCHANGED <<mem, step, call, copied, owner, expect, stray>>

MmanNext ==
  /\ \E t \in Caller :
    \/ Mmap(t) \/ Seek(t) \/ Unmap(t) \/ Map(t) \/ Alloc(t) \/ Copy(t) \/ Free(t)
    \/ Munmap(t) \/ MovePosition(t)
  /\ UNCHANGED seeker

MmanSpec == MmanInit /\ [][MmanNext]_mmanVars

-----------------------------------------------------------------------------
(* Properties *)

\* The arguments that a call may have.
ArgSet ==
  [addr : Nat, len : 0..MaxLen, fixed : BOOLEAN, file : BOOLEAN, off : -1..Blocks]

\* The variables have their types.
MmanTypeOK ==
  /\ mem \in [Page -> -2..(Blocks - 1)] /\ seeker \in BOOLEAN /\ pos \in 0..Blocks
  /\ step \in [Caller -> {"guest", "seek", "unmap", "map", "alloc", "copy", "free", "panicked"}]
  /\ call \in [Caller -> ArgSet]
  /\ copied \in [Caller -> 0..MaxLen] /\ owner \in [Page -> Caller \cup {NoCaller}]
  /\ expect \in [Page -> -2..(Blocks - 1)] /\ calm \subseteq Caller /\ stray \subseteq Page

\* A page that mmap has given to a thread stays mapped until that thread lets go of
\* it: no call of another thread takes it away, not even one that fails, or finds
\* the range of its MAP_FIXED taken between the two steps.
HeldMapped == \A p \in Page : owner[p] # NoCaller => mem[p] # None

\* What a mapping shows is zeros, or the blocks from the offset that was asked
\* for. Only a call that moves the file between the positioning and the end of the
\* copy can change that, or, with offset 0 or a file that cannot be positioned, one
\* that had moved it before.
ContentExact ==
  \A p \in Page : owner[p] # NoCaller /\ expect[p] # None => mem[p] = expect[p]

\* Every mapped page belongs to a thread, so that a failed mmap leaks nothing: but
\* for one with MAP_FIXED, which may leave pages behind.
NothingLeaks == \A p \in Page : mem[p] # None /\ owner[p] = NoCaller => p \in stray

-----------------------------------------------------------------------------

\* A call has its arguments until it returns; it has its range for itself while it
\* copies, and has copied nothing before.
ArgsInv(t) ==
  /\ step[t] \in {"guest", "panicked"} => call[t] = NoArgs
  /\ step[t] \notin {"guest", "panicked"} => Span(t) \subseteq Page
  /\ step[t] \in {"unmap", "map"} => call[t].fixed
  /\ step[t] \notin {"copy", "free"} => copied[t] = 0
  /\ step[t] \in {"copy", "free"} =>
       /\ copied[t] <= call[t].len
       /\ \A p \in Span(t) : owner[p] = t /\ (p >= call[t].addr + copied[t] => expect[p] = None)

\* While a call is calm, the file is where its copy has to go on.
CalmInv(t) ==
  t \in calm => step[t] \notin {"guest", "seek"} /\ pos = call[t].off + copied[t]

\* What MAP_FIXED is about to unmap, or to map, no other thread has or is given,
\* but for what MapAlloc may give to it once it is unmapped.
FixedInv(t) ==
  call[t].fixed => \A p \in Span(t) :
    /\ p >= Arena =>
         /\ owner[p] \in {t, NoCaller}
         /\ \A u \in Caller \ {t} : call[u].fixed => p \notin Span(u)
    /\ p < Arena /\ step[t] \in {"seek", "unmap"} => owner[p] = t

\* The inductive invariant.
MmanInv ==
  /\ MmanTypeOK /\ HeldMapped /\ ContentExact /\ NothingLeaks
  /\ \A t \in Caller : ArgsInv(t) /\ CalmInv(t) /\ FixedInv(t)
=============================================================================
