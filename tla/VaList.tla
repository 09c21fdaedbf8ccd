------------------------------- MODULE VaList ------------------------------
(***************************************************************************)
(* gcc: the va_list of a variadic call, read argument by argument.         *)
(*                                                                         *)
(* gcc/va.go makes the list of the guest's architecture. On arm64 and      *)
(* x86_64 it is a cursor in the save area of the general registers, one in *)
(* that of the vector registers and one on the stack; on the 32-bit        *)
(* architectures one pointer on the stack (gcc/std.go). Extract decodes    *)
(* each argument with the encoding package (external), which calls Read,   *)
(* Skip, ReadDouble, ReadFloat or ReadStream, and aligns the cursors only  *)
(* if that succeeds. Any read of the guest's memory may fail.              *)
(*                                                                         *)
(* Addresses are offsets: from __gr_top and __vr_top on arm64, from        *)
(* reg_save_area on x86_64, from where the stack cursor begins otherwise.  *)
(***************************************************************************)
EXTENDS Integers

CONSTANT MaxStack   \* no argument is extracted once this much of the stack is read

VARIABLES
  arch,   \* dbg.Arch(), "none" before NewVaList has made a list
  cur,    \* __gr_offs or gp_offset, __vr_offs or fp_offset; __stack,
          \* overflow_arg_area or ptr
  at,     \* history: where the last argument was read, << >> after an error
  lost    \* history: an error, or an argument that the caller has put elsewhere

vaVars == <<arch, cur, at, lost>>

Narrow == {"arm", "x86"}
Wide == {"arm64", "x86_64"}

Cursor(g, f, s) == [gp |-> g, fp |-> f, st |-> s]
Place(area, a, n) == [area |-> area, at |-> a, len |-> n]

\* A call on the list: where it leaves the cursors, and where it has read.
Result(c, p) == [c |-> c, p |-> p]

Align(v, n) == ((v + (n - 1)) \div n) * n

-----------------------------------------------------------------------------
(* gcc/arm64/va.go *)

\* Mutant of Arm64Read: what begins in registers is read there.
Arm64ReadWhole(c, n) ==
  IF c.gp >= 0
  THEN Result(Cursor(c.gp, c.fp, c.st + n), Place("stack", c.st, n))
  ELSE Result(Cursor(c.gp + n, c.fp, c.st), Place("gp", c.gp, n))

Arm64Read(c, n) ==
  IF c.gp >= 0
  THEN Result(Cursor(c.gp, c.fp, c.st + n), Place("stack", c.st, n))
  ELSE IF n + c.gp <= 0
  THEN Result(Cursor(c.gp + n, c.fp, c.st), Place("gp", c.gp, n))
  ELSE Result(Cursor(0, c.fp, c.st + (n + c.gp)), Place("both", c.gp, n))

\* The last argument may be overtaken: the offset can become positive.
Arm64Skip(c, n) ==
  IF c.gp < 0 THEN Cursor(c.gp + n, c.fp, c.st) ELSE Cursor(c.gp, c.fp, c.st + n)

\* Mutant of Arm64ReadDouble: a vector register is taken for eight bytes.
Arm64ReadDoubleHalf(c) ==
  IF c.fp >= 0
  THEN Result(Cursor(c.gp, c.fp, c.st + 8), Place("stack", c.st, 8))
  ELSE Result(Cursor(c.gp, c.fp + 8, c.st), Place("fp", c.fp, 8))

Arm64ReadDouble(c) ==
  IF c.fp >= 0
  THEN Result(Cursor(c.gp, c.fp, c.st + 8), Place("stack", c.st, 8))
  ELSE Result(Cursor(c.gp, c.fp + 16, c.st), Place("fp", c.fp, 8))

-----------------------------------------------------------------------------
(* gcc/x86_64/va.go *)

GENERAL_OFFSET_MAX == 48
XMM_OFFSET_MAX == 176

X86_64Read(c, n) ==
  IF c.gp >= GENERAL_OFFSET_MAX
  THEN Result(Cursor(c.gp, c.fp, c.st + n), Place("stack", c.st, n))
  ELSE IF n + c.gp <= GENERAL_OFFSET_MAX
  THEN Result(Cursor(c.gp + n, c.fp, c.st), Place("gp", c.gp, n))
  ELSE Result(Cursor(GENERAL_OFFSET_MAX, c.fp, c.st + (n - (GENERAL_OFFSET_MAX - c.gp))),
              Place("both", c.gp, n))

\* Mutant of X86_64Skip: up to the end of the area and not beyond.
X86_64SkipStops(c, n) ==
  IF c.gp + n < GENERAL_OFFSET_MAX
  THEN Cursor(c.gp + n, c.fp, c.st) ELSE Cursor(c.gp, c.fp, c.st + n)

X86_64Skip(c, n) ==
  IF c.gp < GENERAL_OFFSET_MAX
  THEN Cursor(c.gp + n, c.fp, c.st) ELSE Cursor(c.gp, c.fp, c.st + n)

X86_64ReadDouble(c) ==
  IF c.fp >= XMM_OFFSET_MAX
  THEN Result(Cursor(c.gp, c.fp, c.st + 8), Place("stack", c.st, 8))
  ELSE Result(Cursor(c.gp, c.fp + 16, c.st), Place("fp", c.fp, 8))

-----------------------------------------------------------------------------
(* gcc/std.go *)

StdRead(c, n) == Result(Cursor(c.gp, c.fp, c.st + n), Place("stack", c.st, n))
StdSkip(c, n) == Cursor(c.gp, c.fp, c.st + n)
StdReadDouble(c) == StdRead(c, 8)

-----------------------------------------------------------------------------
(* debugger.Args: the list that NewVaList has made *)

Read(c, n) ==
  IF arch = "arm64" THEN Arm64Read(c, n)
  ELSE IF arch = "x86_64" THEN X86_64Read(c, n) ELSE StdRead(c, n)

Skip(c, n) ==
  IF arch = "arm64" THEN Arm64Skip(c, n)
  ELSE IF arch = "x86_64" THEN X86_64Skip(c, n) ELSE StdSkip(c, n)

ReadDouble(c) ==
  IF arch = "arm64" THEN Arm64ReadDouble(c)
  ELSE IF arch = "x86_64" THEN X86_64ReadDouble(c) ELSE StdReadDouble(c)

\* The address of what a pointer argument points to.
ReadStream(c) == IF arch \in Wide THEN Read(c, 8) ELSE Read(c, 4)

\* Mutant of Aligned: to the slot that the cursor is in, not to the next.
AlignedDown(c) ==
  IF arch \in Wide THEN Cursor((c.gp \div 8) * 8, c.fp, (c.st \div 8) * 8)
  ELSE Cursor(c.gp, c.fp, (c.st \div 4) * 4)

\* The end of an iteration of Extract.
Aligned(c) ==
  IF arch \in Wide THEN Cursor(Align(c.gp, 8), c.fp, Align(c.st, 8))
  ELSE Cursor(c.gp, c.fp, Align(c.st, 4))

-----------------------------------------------------------------------------

VaInit == arch = "none" /\ cur = Cursor(0, 0, 0) /\ at = <<>> /\ lost = FALSE

\* g and f registers are left by the named parameters. A list that cannot be
\* read, a null pointer or an unknown architecture leaves none.
NewVaList ==
  /\ arch = "none"
  /\ \/ arch' = "arm64" /\ \E g, f \in 0..8 : cur' = Cursor(-(8 * g), -(16 * f), 0)
     \/ arch' = "x86_64" /\ \E g \in 0..6, f \in 0..8 : cur' = Cursor(48 - 8 * g, 176 - 16 * f, 0)
     \/ arch' \in Narrow /\ \E s \in {0, 4} : cur' = Cursor(0, 0, s)
  /\ UNCHANGED <<at, lost>>

\* The caller puts no argument partly in registers, and on arm none of eight bytes
\* between two multiples of eight.
Elsewhere(p) == p.area = "both" \/ (arch = "arm" /\ p.len = 8 /\ p.at % 8 # 0)

\* An argument that one call of the list reads.
ExtractOne(r) ==
  /\ cur' = Aligned(r.c) /\ at' = <<r.p>>
  /\ lost' = (lost \/ Elsewhere(r.p))

\* encoding.Decode calls by the type of the argument: an integer of n bytes, a
\* pointer, a float or double, a structure of two words.
ExtractInt(n) == ExtractOne(Read(cur, n))
ExtractPointer == ExtractOne(ReadStream(cur))
ExtractReal == ExtractOne(ReadDouble(cur))
ExtractBlock == arch \in Wide /\ ExtractOne(Read(cur, 16))

\* struct { int32; int64 }, by its fields and the padding between them.
ExtractStruct ==
  /\ arch \in Wide
  /\ LET x == Read(cur, 4)
         y == Read(Skip(x.c, 4), 8)
     IN /\ cur' = Aligned(y.c) /\ at' = <<x.p, y.p>>
        /\ lost' = (lost \/ x.p.area # y.p.area \/ Elsewhere(x.p) \/ Elsewhere(y.p))

\* A read fails: Extract returns without aligning. The cursor has moved past what
\* was to be read, unless the part in registers of a read from both failed.
ReadFails(c, n) ==
  cur' \in {Read(c, n).c} \cup IF Read(c, n).p.area = "both" THEN {c} ELSE {}

ExtractFails ==
  /\ at' = <<>> /\ lost' = TRUE
  /\ \/ \E n \in {1, 2, 4, 8} : ReadFails(cur, n)
     \/ cur' = ReadDouble(cur).c
     \/ arch \in Wide /\ (ReadFails(cur, 16) \/ ReadFails(Skip(Read(cur, 4).c, 4), 8))
     \/ UNCHANGED cur   \* ReadString is not supported

Extract ==
  /\ arch # "none" /\ cur.st < MaxStack
  /\ \/ \E n \in {1, 2, 4, 8} : ExtractInt(n)
     \/ ExtractPointer
     \/ ExtractReal
     \/ ExtractBlock
     \/ ExtractStruct
     \/ ExtractFails
  /\ UNCHANGED arch

VaNext == NewVaList \/ Extract

VaSpec == VaInit /\ [][VaNext]_vaVars

-----------------------------------------------------------------------------
(* Properties *)

Arches == {"none"} \cup Narrow \cup Wide

\* Where the save areas begin and end.
GpStart == IF arch = "arm64" THEN -64 ELSE 0
GpEnd == IF arch = "arm64" THEN 0 ELSE GENERAL_OFFSET_MAX
FpEnd == IF arch = "arm64" THEN 0 ELSE XMM_OFFSET_MAX

\* The cursors are numbers, of an architecture that NewVaList knows.
VaTypeOK ==
  /\ arch \in Arches /\ lost \in BOOLEAN
  /\ cur \in [gp : Int, fp : Int, st : Nat]

\* No argument is read beyond the end of a register save area, or before its
\* start, and each continues on the stack just where the area ends: also after a
\* failed Extract has left the cursors unaligned and Skip has overtaken the end.
ReadsInArea ==
  \A i \in DOMAIN at :
    LET p == at[i] IN
      /\ p.area \in {"gp", "both"} => GpStart <= p.at /\ p.at < GpEnd
      /\ p.area = "gp" => p.at + p.len <= GpEnd
      /\ p.area = "both" => p.at + p.len > GpEnd /\ cur.gp = GpEnd
      /\ p.area = "fp" => FpEnd - 128 <= p.at /\ p.at + 16 <= FpEnd
      /\ p.area = "stack" => p.at + p.len <= cur.st

\* The cursors have moved from c to d, and the place p is what they have passed or
\* part of it: one in both begins in registers and ends on the stack.
Forward(c, d) == c.gp <= d.gp /\ c.fp <= d.fp /\ c.st <= d.st
Passed(p, c, d) ==
  /\ p.area \in {"gp", "both"} => c.gp <= p.at
  /\ p.area = "gp" => p.at + p.len <= d.gp
  /\ p.area = "both" => GpEnd <= d.gp /\ c.st + (p.at + p.len - GpEnd) <= d.st
  /\ p.area = "fp" => c.fp <= p.at /\ p.at + p.len <= d.fp
  /\ p.area = "stack" => c.st <= p.at /\ p.at + p.len <= d.st

\* Extract never goes back: what it reads lies between where it finds the cursors
\* and where it leaves them, so that no byte is part of two arguments, also when
\* failures in between have left the cursors amid a slot or beyond the area.
NoByteTwice ==
  [][arch # "none" =>
       Forward(cur, cur') /\ \A i \in DOMAIN at' : Passed(at'[i], cur, cur')]_vaVars

\* Each argument is read from where the caller has put it, until an argument that
\* VaArgs calls awkward or an error.
Args == INSTANCE VaArgs WITH
  gp <- IF arch \in Wide THEN (GpEnd - cur.gp) \div 8 ELSE 0,
  fp <- IF arch \in Wide THEN (FpEnd - cur.fp) \div 16 ELSE 0,
  st <- cur.st
ReadsAsPlaced == Args!Spec

\* The inductive invariant: the vector cursor is always at a register, the general
\* one never before its area, and until something is lost it is at a register and
\* the stack cursor at a word.
VaInv ==
  /\ VaTypeOK
  /\ arch \in Wide =>
       /\ FpEnd - 128 <= cur.fp /\ cur.fp <= FpEnd /\ cur.fp % 16 = 0
       /\ GpStart <= cur.gp
       /\ ~lost => cur.gp <= GpEnd /\ cur.gp % 8 = 0 /\ cur.st % 8 = 0
  /\ arch \in Narrow /\ ~lost => cur.st % 4 = 0
  /\ arch = "none" => ~lost /\ at = <<>>
=============================================================================
