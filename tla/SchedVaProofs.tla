---------------------------- MODULE SchedVaProofs ---------------------------
(***************************************************************************)
(* The theorems of two components that share nothing: clone with its       *)
(* reapers (Sched), and the argument list of gcc (VaList), with the proof  *)
(* that it implements VaArgs.                                              *)
(***************************************************************************)
EXTENDS Sched, VaList, TLAPS

(***************************************************************************)
(* VaList                                                                  *)
(***************************************************************************)
CurSet == [gp : Int, fp : Int, st : Nat]

\* Places and results have the fields they are made with.
LEMMA Records ==
  ASSUME NEW g, NEW f, NEW s, NEW a, NEW b, NEW n, NEW c, NEW p
  PROVE  /\ Cursor(g, f, s).gp = g /\ Cursor(g, f, s).fp = f /\ Cursor(g, f, s).st = s
         /\ Place(a, b, n).area = a /\ Place(a, b, n).at = b /\ Place(a, b, n).len = n
         /\ Result(c, p).c = c /\ Result(c, p).p = p
  BY Zenon DEF Cursor, Place, Result

\* A cursor is in its type.
LEMMA CursorType ==
  ASSUME NEW g \in Int, NEW f \in Int, NEW s \in Nat
  PROVE  Cursor(g, f, s) \in CurSet
  BY Zenon DEF Cursor, CurSet

\* Rounding up to a multiple.
LEMMA AlignFacts ==
  ASSUME NEW v \in Int
  PROVE  /\ Align(v, 8) \in Int /\ v <= Align(v, 8) /\ Align(v, 8) <= v + 7 /\ Align(v, 8) % 8 = 0
         /\ Align(v, 4) \in Int /\ v <= Align(v, 4) /\ Align(v, 4) <= v + 3 /\ Align(v, 4) % 4 = 0
  BY DEF Align

\* Rounding up what is less than a slot beyond a multiple.
LEMMA AlignNext ==
  ASSUME NEW v \in Int
  PROVE  /\ v % 8 = 0 => /\ Align(v, 8) = v
                         /\ \A n \in 1..8 : Align(v + n, 8) = v + 8
                         /\ Align(v + 16, 8) = v + 16
         /\ v % 4 = 0 => /\ \A n \in 1..4 : Align(v + n, 4) = v + 4
                         /\ Align(v + 8, 4) = v + 8
  BY DEF Align

\* Read on the 64-bit architectures: on the stack, in the save area, or in both.
LEMMA ReadWide ==
  ASSUME arch \in Wide, NEW c \in CurSet, NEW n \in Nat \ {0}
  PROVE  /\ c.gp >= GpEnd =>
              Read(c, n) = Result(Cursor(c.gp, c.fp, c.st + n), Place("stack", c.st, n))
         /\ c.gp < GpEnd /\ c.gp + n <= GpEnd =>
              Read(c, n) = Result(Cursor(c.gp + n, c.fp, c.st), Place("gp", c.gp, n))
         /\ c.gp < GpEnd /\ c.gp + n > GpEnd =>
              Read(c, n) = Result(Cursor(GpEnd, c.fp, c.st + (n - (GpEnd - c.gp))),
                                  Place("both", c.gp, n))
<1>0. c.gp \in Int /\ c.st \in Nat BY Zenon DEF CurSet
<1>1. CASE arch = "arm64"
  <2>1. GpEnd = 0 /\ Read(c, n) = Arm64Read(c, n) BY <1>1, Zenon DEF GpEnd, Read
  <2>2. n + c.gp = c.gp + n /\ n - (0 - c.gp) = n + c.gp BY <1>0
  <2> QED BY <1>0, <2>1, <2>2 DEF Arm64Read
<1>2. CASE arch = "x86_64"
  <2>1. GpEnd = 48 /\ Read(c, n) = X86_64Read(c, n) BY <1>2, Zenon DEF GpEnd, Read, GENERAL_OFFSET_MAX
  <2> QED BY <1>0, <2>1 DEF X86_64Read, GENERAL_OFFSET_MAX
<1> QED BY <1>1, <1>2, Zenon DEF Wide

LEMMA SkipWide ==
  ASSUME arch \in Wide, NEW c \in CurSet, NEW n \in Nat
  PROVE  /\ c.gp >= GpEnd => Skip(c, n) = Cursor(c.gp, c.fp, c.st + n)
         /\ c.gp < GpEnd => Skip(c, n) = Cursor(c.gp + n, c.fp, c.st)
<1>0. c.gp \in Int /\ c.st \in Nat BY Zenon DEF CurSet
<1> QED BY <1>0 DEF Wide, Skip, Arm64Skip, X86_64Skip, GENERAL_OFFSET_MAX, GpEnd

LEMMA ReadDoubleWide ==
  ASSUME arch \in Wide, NEW c \in CurSet
  PROVE  /\ c.fp >= FpEnd =>
              ReadDouble(c) = Result(Cursor(c.gp, c.fp, c.st + 8), Place("stack", c.st, 8))
         /\ c.fp < FpEnd =>
              ReadDouble(c) = Result(Cursor(c.gp, c.fp + 16, c.st), Place("fp", c.fp, 8))
<1>0. c.fp \in Int /\ c.st \in Nat BY Zenon DEF CurSet
<1> QED BY <1>0 DEF Wide, ReadDouble, Arm64ReadDouble, X86_64ReadDouble, XMM_OFFSET_MAX, FpEnd

LEMMA Ends ==
  /\ GpStart \in Int /\ GpEnd \in Int /\ FpEnd \in Int
  /\ GpEnd % 8 = 0 /\ FpEnd % 16 = 0
  /\ arch \in Wide => (GpStart < GpEnd /\ GpEnd - GpStart <= 64)
  BY DEF GpStart, GpEnd, FpEnd, GENERAL_OFFSET_MAX, XMM_OFFSET_MAX, Wide

-----------------------------------------------------------------------------
\* What ReadsInArea says of one place, and cursors that have moved on.
InArea(p, c) ==
  /\ p.area \in {"gp", "both"} => GpStart <= p.at /\ p.at < GpEnd
  /\ p.area = "gp" => p.at + p.len <= GpEnd
  /\ p.area = "both" => p.at + p.len > GpEnd /\ c.gp = GpEnd
  /\ p.area = "fp" => FpEnd - 128 <= p.at /\ p.at + 16 <= FpEnd
  /\ p.area = "stack" => p.at + p.len <= c.st

Later(c, d) ==
  /\ d \in CurSet /\ c.gp <= d.gp /\ c.st <= d.st
  /\ c.gp = GpEnd => d.gp = GpEnd

Start(c) == c \in CurSet /\ (arch \in Wide => GpStart <= c.gp)

LEMMA InAreaLater ==
  ASSUME NEW p, NEW c \in CurSet, NEW d, InArea(p, c), Later(c, d),
         p.at \in Int, p.len \in Int
  PROVE  InArea(p, d)
<1>1. c.st \in Int /\ d.st \in Int BY DEF Later, CurSet
<1> QED BY <1>1 DEF InArea, Later

LEMMA LaterTransitive ==
  ASSUME NEW c \in CurSet, NEW d \in CurSet, NEW e, Later(c, d), Later(d, e)
  PROVE  Later(c, e)
<1>1. c.st \in Int /\ d.st \in Int /\ e.st \in Int BY DEF Later, CurSet
<1>2. c.gp \in Int /\ d.gp \in Int /\ e.gp \in Int BY Zenon DEF Later, CurSet
<1> QED BY <1>1, <1>2 DEF Later

LEMMA StartLater ==
  ASSUME NEW c, NEW d, Start(c), Later(c, d)
  PROVE  Start(d)
<1>1. c.gp \in Int /\ d.gp \in Int BY Zenon DEF Later, Start, CurSet
<1> QED BY <1>1, Ends DEF Later, Start

\* Any Read moves on, and reads in an area.
LEMMA ReadInArea ==
  ASSUME arch \in Wide \cup Narrow, NEW c, Start(c), NEW n \in Nat \ {0}
  PROVE  /\ Later(c, Read(c, n).c) /\ InArea(Read(c, n).p, Read(c, n).c)
         /\ Read(c, n).p.at \in Int /\ Read(c, n).p.len \in Int
         /\ Read(c, n).c.fp = c.fp
<1> DEFINE r == Read(c, n)
<1>0. c \in CurSet /\ c.gp \in Int /\ c.st \in Nat /\ c.fp \in Int BY Zenon DEF Start, CurSet
<1>1. CASE arch \in Wide /\ c.gp >= GpEnd
  <2>1. r = Result(Cursor(c.gp, c.fp, c.st + n), Place("stack", c.st, n))
    BY <1>1, <1>0, ReadWide, Zenon
  <2>2. r.c = Cursor(c.gp, c.fp, c.st + n) /\ r.p = Place("stack", c.st, n) BY <2>1, Records
  <2>3. r.c \in CurSet BY <2>2, <1>0, CursorType
  <2> QED BY <2>2, <2>3, <1>0, Records DEF Later, InArea
<1>2. CASE arch \in Wide /\ c.gp < GpEnd /\ c.gp + n <= GpEnd
  <2>1. r = Result(Cursor(c.gp + n, c.fp, c.st), Place("gp", c.gp, n))
    BY <1>2, <1>0, ReadWide, Zenon
  <2>2. r.c = Cursor(c.gp + n, c.fp, c.st) /\ r.p = Place("gp", c.gp, n) BY <2>1, Records
  <2>3. r.c \in CurSet BY <2>2, <1>0, CursorType
  <2> QED BY <2>2, <2>3, <1>0, <1>2, Ends, Records DEF Later, InArea, Start
<1>3. CASE arch \in Wide /\ c.gp < GpEnd /\ c.gp + n > GpEnd
  <2>1. r = Result(Cursor(GpEnd, c.fp, c.st + (n - (GpEnd - c.gp))), Place("both", c.gp, n))
    BY <1>3, <1>0, ReadWide, Zenon
  <2>2. /\ r.c = Cursor(GpEnd, c.fp, c.st + (n - (GpEnd - c.gp)))
        /\ r.p = Place("both", c.gp, n)
    BY <2>1, Records
  <2>3. c.st + (n - (GpEnd - c.gp)) \in Nat BY <1>0, <1>3, Ends
  <2>4. r.c \in CurSet BY <2>2, <2>3, <1>0, Ends, CursorType, Zenon
  <2>5. /\ r.c.gp = GpEnd /\ r.c.fp = c.fp /\ r.c.st = c.st + (n - (GpEnd - c.gp))
        /\ r.p.area = "both" /\ r.p.at = c.gp /\ r.p.len = n
    BY <2>2, Records
  <2> HIDE DEF r
  <2>6. Later(c, r.c) BY <2>4, <2>5, <1>0, <1>3, Ends DEF Later
  <2>7. InArea(r.p, r.c) BY <2>5, <1>0, <1>3, Ends DEF InArea, Start
  <2> QED BY <2>5, <2>6, <2>7, <1>0 DEF r
<1>4. CASE arch \in Narrow
  <2>1. r = Result(Cursor(c.gp, c.fp, c.st + n), Place("stack", c.st, n))
    BY <1>4, Zenon DEF Read, StdRead, Narrow
  <2>2. r.c = Cursor(c.gp, c.fp, c.st + n) /\ r.p = Place("stack", c.st, n) BY <2>1, Records
  <2>3. r.c \in CurSet BY <2>2, <1>0, CursorType
  <2> QED BY <2>2, <2>3, <1>0, Records DEF Later, InArea
<1> QED BY <1>0, <1>1, <1>2, <1>3, <1>4, Ends

\* A ReadDouble moves a vector cursor that is at a register to the next.
LEMMA ReadDoubleInArea ==
  ASSUME arch \in Wide \cup Narrow, NEW c, Start(c),
         arch \in Wide => FpEnd - 128 <= c.fp /\ c.fp <= FpEnd /\ c.fp % 16 = 0
  PROVE  /\ Later(c, ReadDouble(c).c) /\ InArea(ReadDouble(c).p, ReadDouble(c).c)
         /\ ReadDouble(c).p.at \in Int /\ ReadDouble(c).p.len \in Int
         /\ arch \in Wide => LET f == ReadDouble(c).c.fp
                             IN FpEnd - 128 <= f /\ f <= FpEnd /\ f % 16 = 0
<1> DEFINE r == ReadDouble(c)
<1>0. c \in CurSet /\ c.gp \in Int /\ c.st \in Nat /\ c.fp \in Int BY Zenon DEF Start, CurSet
<1>1. CASE arch \in Wide /\ c.fp >= FpEnd
  <2>1. r = Result(Cursor(c.gp, c.fp, c.st + 8), Place("stack", c.st, 8))
    BY <1>1, <1>0, ReadDoubleWide, Zenon
  <2>2. r.c = Cursor(c.gp, c.fp, c.st + 8) /\ r.p = Place("stack", c.st, 8) BY <2>1, Records
  <2>3. r.c \in CurSet BY <2>2, <1>0, CursorType
  <2>4. r.c.gp = c.gp /\ r.c.fp = c.fp /\ r.c.st = c.st + 8 BY <2>2, Records
  <2>5. Later(c, r.c) BY <2>3, <2>4, <1>0 DEF Later
  <2>6. r.p.area = "stack" /\ r.p.at = c.st /\ r.p.len = 8 BY <2>2, Records
  <2> QED BY <2>4, <2>5, <2>6, <1>0, <1>1 DEF InArea
<1>2. CASE arch \in Wide /\ c.fp < FpEnd
  <2>1. r = Result(Cursor(c.gp, c.fp + 16, c.st), Place("fp", c.fp, 8))
    BY <1>2, <1>0, ReadDoubleWide, Zenon
  <2>2. r.c = Cursor(c.gp, c.fp + 16, c.st) /\ r.p = Place("fp", c.fp, 8) BY <2>1, Records
  <2> HIDE DEF r
  <2>0. c.fp + 16 \in Int BY <1>0
  <2>3. r.c \in CurSet BY <2>2, <2>0, <1>0, CursorType, Zenon
  <2>4. c.fp + 16 <= FpEnd /\ (c.fp + 16) % 16 = 0 /\ FpEnd - 128 <= c.fp + 16
    BY <1>0, <1>2, Ends
  <2>5. r.c.gp = c.gp /\ r.c.fp = c.fp + 16 /\ r.c.st = c.st BY <2>2, Records
  <2>6. Later(c, r.c) BY <2>3, <2>5, <1>0 DEF Later
  <2>7. r.p.area = "fp" /\ r.p.at = c.fp /\ r.p.len = 8 BY <2>2, Records
  <2> QED BY <2>4, <2>5, <2>6, <2>7, <1>0, <1>2 DEF InArea, r
<1>3. CASE arch \in Narrow
  <2>1. r = Read(c, 8) BY <1>3, Zenon DEF ReadDouble, Read, StdReadDouble, Narrow
  <2> QED BY <1>3, <2>1, ReadInArea DEF Narrow, Wide
<1> QED BY <1>0, <1>1, <1>2, <1>3, Ends

LEMMA SkipLater ==
  ASSUME arch \in Wide, NEW c, Start(c), NEW n \in Nat
  PROVE  Later(c, Skip(c, n)) /\ Skip(c, n).fp = c.fp
<1>0. c \in CurSet /\ c.gp \in Int /\ c.st \in Nat /\ c.fp \in Int BY Zenon DEF Start, CurSet
<1>1. CASE c.gp >= GpEnd
  <2>1. Skip(c, n) = Cursor(c.gp, c.fp, c.st + n) BY <1>0, <1>1, SkipWide, Zenon
  <2>2. Skip(c, n) \in CurSet BY <1>0, <2>1, CursorType
  <2>3. /\ Skip(c, n).gp = c.gp /\ Skip(c, n).fp = c.fp /\ Skip(c, n).st = c.st + n
    BY <2>1, Records
  <2> QED BY <1>0, <2>2, <2>3 DEF Later
<1>2. CASE c.gp < GpEnd
  <2>1. Skip(c, n) = Cursor(c.gp + n, c.fp, c.st) BY <1>0, <1>2, SkipWide, Zenon
  <2>2. Skip(c, n) \in CurSet BY <1>0, <2>1, CursorType
  <2> QED BY <1>0, <1>2, <2>1, <2>2, Ends, Records DEF Later
<1> QED BY <1>0, <1>1, <1>2, Ends

LEMMA AlignedLater ==
  ASSUME arch \in Wide \cup Narrow, NEW c \in CurSet
  PROVE  /\ Later(c, Aligned(c)) /\ Aligned(c).fp = c.fp
         /\ arch \in Wide => Aligned(c).gp % 8 = 0 /\ Aligned(c).st % 8 = 0
         /\ arch \in Narrow => Aligned(c).st % 4 = 0
<1>0. c.gp \in Int /\ c.st \in Nat /\ c.fp \in Int BY Zenon DEF CurSet
<1>1. CASE arch \in Wide
  <2>1. Aligned(c) = Cursor(Align(c.gp, 8), c.fp, Align(c.st, 8)) BY <1>1, Zenon DEF Aligned
  <2> DEFINE g == Align(c.gp, 8)
             s == Align(c.st, 8)
  <2>0. c.st \in Int BY <1>0
  <2>8. s \in Int /\ c.st <= s /\ s % 8 = 0 BY <2>0, AlignFacts, Zenon
  <2>2. s \in Nat
    <3> HIDE DEF s
    <3> QED BY <1>0, <2>8
  <2>9. g \in Int BY <1>0, AlignFacts, Zenon
  <2>3. Aligned(c) \in CurSet BY <1>0, <2>1, <2>2, <2>9, CursorType, Zenon
  <2>4. c.gp = GpEnd => Align(c.gp, 8) = GpEnd BY <1>0, Ends, AlignNext, Zenon
  <2>5. g \in Int /\ c.gp <= g /\ g % 8 = 0 BY <1>0, AlignFacts, Zenon
  <2>6. Aligned(c).gp = g /\ Aligned(c).fp = c.fp /\ Aligned(c).st = s BY <2>1, Records
  <2>7. Later(c, Aligned(c)) BY <2>8, <2>3, <2>4, <2>5, <2>6, Zenon DEF Later
  <2> QED BY <1>1, <2>8, <2>5, <2>6, <2>7, Zenon DEF Wide, Narrow
<1>2. CASE arch \in Narrow
  <2>1. Aligned(c) = Cursor(c.gp, c.fp, Align(c.st, 4)) BY <1>2, Zenon DEF Aligned, Narrow, Wide
  <2> DEFINE s == Align(c.st, 4)
  <2>0. c.st \in Int BY <1>0
  <2>4. s \in Int /\ c.st <= s /\ s % 4 = 0 BY <2>0, AlignFacts, Zenon
  <2>2. s \in Nat BY <1>0, <2>4
  <2>3. Aligned(c) \in CurSet BY <1>0, <2>1, <2>2, CursorType, Zenon
  <2>6. Aligned(c).gp = c.gp /\ Aligned(c).fp = c.fp /\ Aligned(c).st = s BY <2>1, Records
  <2>7. Later(c, Aligned(c)) BY <1>0, <2>4, <2>3, <2>6 DEF Later
  <2> QED BY <1>2, <2>4, <2>6, <2>7, Zenon DEF Wide, Narrow
<1> QED BY <1>1, <1>2, Zenon

-----------------------------------------------------------------------------
\* The cursors at whole slots, as they are until something is lost.
AtSlot(c) == c \in CurSet /\ c.gp <= GpEnd /\ c.gp % 8 = 0 /\ c.st % 8 = 0

\* A word is read from a register, or from a slot of the stack.
LEMMA WordWide ==
  ASSUME arch \in Wide, NEW c, AtSlot(c), NEW n \in 1..8
  PROVE  /\ c.gp < GpEnd => /\ Aligned(Read(c, n).c) = Cursor(c.gp + 8, c.fp, c.st)
                            /\ Read(c, n).p = Place("gp", c.gp, n)
         /\ c.gp = GpEnd => /\ Aligned(Read(c, n).c) = Cursor(c.gp, c.fp, c.st + 8)
                            /\ Read(c, n).p = Place("stack", c.st, n)
<1>0. c \in CurSet /\ c.gp \in Int /\ c.st \in Int BY DEF AtSlot, CurSet
<1>1. ASSUME c.gp < GpEnd
      PROVE  /\ Aligned(Read(c, n).c) = Cursor(c.gp + 8, c.fp, c.st)
             /\ Read(c, n).p = Place("gp", c.gp, n)
  <2>1. c.gp + n <= GpEnd BY <1>0, <1>1, Ends DEF AtSlot
  <2>2. Read(c, n) = Result(Cursor(c.gp + n, c.fp, c.st), Place("gp", c.gp, n))
    BY <1>0, <1>1, <2>1, ReadWide
  <2>3. Read(c, n).c = Cursor(c.gp + n, c.fp, c.st) BY <2>2, Records
  <2>4. Aligned(Read(c, n).c) = Cursor(Align(c.gp + n, 8), c.fp, Align(c.st, 8))
    BY <2>3, Records DEF Aligned
  <2>5. Align(c.gp + n, 8) = c.gp + 8 /\ Align(c.st, 8) = c.st BY <1>0, AlignNext, Zenon DEF AtSlot
  <2> QED BY <2>2, <2>4, <2>5, Records
<1>2. ASSUME c.gp = GpEnd
      PROVE  /\ Aligned(Read(c, n).c) = Cursor(c.gp, c.fp, c.st + 8)
             /\ Read(c, n).p = Place("stack", c.st, n)
  <2>2. Read(c, n) = Result(Cursor(c.gp, c.fp, c.st + n), Place("stack", c.st, n))
    BY <1>0, <1>2, ReadWide
  <2>3. Read(c, n).c = Cursor(c.gp, c.fp, c.st + n) BY <2>2, Records
  <2>4. Aligned(Read(c, n).c) = Cursor(Align(c.gp, 8), c.fp, Align(c.st + n, 8))
    BY <2>3, Records DEF Aligned
  <2>5. Align(c.gp, 8) = c.gp /\ Align(c.st + n, 8) = c.st + 8 BY <1>0, AlignNext, Zenon DEF AtSlot
  <2> QED BY <2>2, <2>4, <2>5, Records
<1> QED BY <1>1, <1>2, Zenon

\* Two words at once: from two registers, from the stack, or from one and the other.
LEMMA BlockWide ==
  ASSUME arch \in Wide, NEW c, AtSlot(c)
  PROVE  /\ c.gp + 16 <= GpEnd => /\ Aligned(Read(c, 16).c) = Cursor(c.gp + 16, c.fp, c.st)
                                  /\ Read(c, 16).p = Place("gp", c.gp, 16)
         /\ c.gp + 8 = GpEnd => Read(c, 16).p = Place("both", c.gp, 16)
         /\ c.gp = GpEnd => /\ Aligned(Read(c, 16).c) = Cursor(c.gp, c.fp, c.st + 16)
                            /\ Read(c, 16).p = Place("stack", c.st, 16)
<1>0. c \in CurSet /\ c.gp \in Int /\ c.st \in Int BY DEF AtSlot, CurSet
<1>1. ASSUME c.gp + 16 <= GpEnd
      PROVE  /\ Aligned(Read(c, 16).c) = Cursor(c.gp + 16, c.fp, c.st)
             /\ Read(c, 16).p = Place("gp", c.gp, 16)
  <2>2. Read(c, 16) = Result(Cursor(c.gp + 16, c.fp, c.st), Place("gp", c.gp, 16))
    BY <1>0, <1>1, Ends, ReadWide
  <2>3. Read(c, 16).c = Cursor(c.gp + 16, c.fp, c.st) BY <2>2, Records
  <2>4. Aligned(Read(c, 16).c) = Cursor(Align(c.gp + 16, 8), c.fp, Align(c.st, 8))
    BY <2>3, Records DEF Aligned
  <2>5. Align(c.gp + 16, 8) = c.gp + 16 /\ Align(c.st, 8) = c.st BY <1>0, AlignNext, Zenon DEF AtSlot
  <2> QED BY <2>2, <2>4, <2>5, Records
<1>2. ASSUME c.gp + 8 = GpEnd
      PROVE  Read(c, 16).p = Place("both", c.gp, 16)
  <2>1. Read(c, 16) = Result(Cursor(GpEnd, c.fp, c.st + (16 - (GpEnd - c.gp))),
                             Place("both", c.gp, 16))
    BY <1>0, <1>2, Ends, ReadWide
  <2> QED BY <2>1, Records
<1>3. ASSUME c.gp = GpEnd
      PROVE  /\ Aligned(Read(c, 16).c) = Cursor(c.gp, c.fp, c.st + 16)
             /\ Read(c, 16).p = Place("stack", c.st, 16)
  <2>2. Read(c, 16) = Result(Cursor(c.gp, c.fp, c.st + 16), Place("stack", c.st, 16))
    BY <1>0, <1>3, ReadWide
  <2>3. Read(c, 16).c = Cursor(c.gp, c.fp, c.st + 16) BY <2>2, Records
  <2>4. Aligned(Read(c, 16).c) = Cursor(Align(c.gp, 8), c.fp, Align(c.st + 16, 8))
    BY <2>3, Records DEF Aligned
  <2>5. Align(c.gp, 8) = c.gp /\ Align(c.st + 16, 8) = c.st + 16 BY <1>0, AlignNext, Zenon DEF AtSlot
  <2> QED BY <2>2, <2>4, <2>5, Records
<1> QED BY <1>1, <1>2, <1>3, Zenon

\* The two fields of a structure, read one after the other.
LEMMA StructWide ==
  ASSUME arch \in Wide, NEW c, AtSlot(c)
  PROVE  LET x == Read(c, 4)
             y == Read(Skip(x.c, 4), 8)
         IN /\ c.gp + 16 <= GpEnd => /\ Aligned(y.c) = Cursor(c.gp + 16, c.fp, c.st)
                                     /\ x.p = Place("gp", c.gp, 4) /\ y.p = Place("gp", c.gp + 8, 8)
            /\ c.gp + 8 = GpEnd => x.p = Place("gp", c.gp, 4) /\ y.p = Place("stack", c.st, 8)
            /\ c.gp = GpEnd => /\ Aligned(y.c) = Cursor(c.gp, c.fp, c.st + 16)
                               /\ x.p = Place("stack", c.st, 4) /\ y.p = Place("stack", c.st + 8, 8)
<1> DEFINE x == Read(c, 4)
           z == Skip(x.c, 4)
           y == Read(z, 8)
<1>0. c \in CurSet /\ c.gp \in Int /\ c.st \in Nat /\ c.fp \in Int BY Zenon DEF AtSlot, CurSet
<1>1. ASSUME c.gp < GpEnd
      PROVE  x.p = Place("gp", c.gp, 4) /\ z = Cursor(c.gp + 8, c.fp, c.st)
  <2>1. c.gp + 8 <= GpEnd BY <1>0, <1>1, Ends DEF AtSlot
  <2>2. x = Result(Cursor(c.gp + 4, c.fp, c.st), Place("gp", c.gp, 4))
    BY <1>0, <1>1, <2>1, Ends, ReadWide
  <2>3. x.c = Cursor(c.gp + 4, c.fp, c.st) /\ x.p = Place("gp", c.gp, 4) BY <2>2, Records
  <2>4. x.c \in CurSet BY <1>0, <2>3, CursorType
  <2>5. x.c.gp = c.gp + 4 /\ x.c.fp = c.fp /\ x.c.st = c.st BY <2>3, Records
  <2>6. z = Cursor(x.c.gp + 4, x.c.fp, x.c.st) BY <1>0, <2>1, <2>4, <2>5, Ends, SkipWide
  <2>7. (c.gp + 4) + 4 = c.gp + 8 BY <1>0
  <2> QED BY <2>3, <2>5, <2>6, <2>7, Zenon
<1>2. ASSUME c.gp = GpEnd
      PROVE  x.p = Place("stack", c.st, 4) /\ z = Cursor(c.gp, c.fp, c.st + 8)
  <2>2. x = Result(Cursor(c.gp, c.fp, c.st + 4), Place("stack", c.st, 4))
    BY <1>0, <1>2, ReadWide
  <2>3. x.c = Cursor(c.gp, c.fp, c.st + 4) /\ x.p = Place("stack", c.st, 4) BY <2>2, Records
  <2>4. x.c \in CurSet BY <1>0, <2>3, CursorType
  <2>5. x.c.gp = c.gp /\ x.c.fp = c.fp /\ x.c.st = c.st + 4 BY <2>3, Records
  <2>6. z = Cursor(x.c.gp, x.c.fp, x.c.st + 4) BY <1>0, <1>2, <2>4, <2>5, SkipWide
  <2>7. (c.st + 4) + 4 = c.st + 8 BY <1>0
  <2> QED BY <2>3, <2>5, <2>6, <2>7, Zenon
<1>3. ASSUME c.gp < GpEnd
      PROVE  /\ AtSlot(z) /\ z.gp = c.gp + 8 /\ z.fp = c.fp /\ z.st = c.st
  <2>1. c.gp + 8 <= GpEnd /\ (c.gp + 8) % 8 = 0 BY <1>0, <1>3, Ends DEF AtSlot
  <2>2. z \in CurSet BY <1>0, <1>1, <1>3, CursorType
  <2>3. z.gp = c.gp + 8 /\ z.fp = c.fp /\ z.st = c.st BY <1>1, <1>3, Records
  <2> QED BY <2>1, <2>2, <2>3, Zenon DEF AtSlot
<1>4. ASSUME c.gp = GpEnd
      PROVE  /\ AtSlot(z) /\ z.gp = c.gp /\ z.fp = c.fp /\ z.st = c.st + 8
  <2>1. (c.st + 8) % 8 = 0 BY <1>0 DEF AtSlot
  <2>2. z \in CurSet BY <1>0, <1>2, <1>4, CursorType
  <2>3. z.gp = c.gp /\ z.fp = c.fp /\ z.st = c.st + 8 BY <1>2, <1>4, Records
  <2> QED BY <2>1, <2>2, <2>3, Zenon DEF AtSlot
<1>5. ASSUME c.gp + 16 <= GpEnd
      PROVE  /\ Aligned(y.c) = Cursor(c.gp + 16, c.fp, c.st)
             /\ x.p = Place("gp", c.gp, 4) /\ y.p = Place("gp", c.gp + 8, 8)
  <2>1. c.gp < GpEnd /\ c.gp + 8 < GpEnd /\ (c.gp + 8) + 8 = c.gp + 16 BY <1>0, <1>5, Ends
  <2>2. AtSlot(z) /\ z.gp = c.gp + 8 /\ z.fp = c.fp /\ z.st = c.st BY <1>3, <2>1, Zenon
  <2>3. Aligned(y.c) = Cursor(z.gp + 8, z.fp, z.st) /\ y.p = Place("gp", z.gp, 8)
    BY <2>1, <2>2, WordWide
  <2> QED BY <1>1, <2>1, <2>2, <2>3, Zenon
<1>6. ASSUME c.gp + 8 = GpEnd
      PROVE  x.p = Place("gp", c.gp, 4) /\ y.p = Place("stack", c.st, 8)
  <2>1. c.gp < GpEnd BY <1>0, <1>6
  <2>2. AtSlot(z) /\ z.gp = GpEnd /\ z.st = c.st BY <1>3, <1>6, <2>1, Zenon
  <2>3. y.p = Place("stack", z.st, 8) BY <2>2, WordWide
  <2> QED BY <1>1, <2>1, <2>2, <2>3, Zenon
<1>7. ASSUME c.gp = GpEnd
      PROVE  /\ Aligned(y.c) = Cursor(c.gp, c.fp, c.st + 16)
             /\ x.p = Place("stack", c.st, 4) /\ y.p = Place("stack", c.st + 8, 8)
  <2>1. (c.st + 8) + 8 = c.st + 16 BY <1>0
  <2>2. AtSlot(z) /\ z.gp = c.gp /\ z.fp = c.fp /\ z.st = c.st + 8 BY <1>4, <1>7, Zenon
  <2>3. Aligned(y.c) = Cursor(z.gp, z.fp, z.st + 8) /\ y.p = Place("stack", z.st, 8)
    BY <1>7, <2>2, WordWide
  <2> QED BY <1>2, <1>7, <2>1, <2>2, <2>3, Zenon
<1> QED BY <1>5, <1>6, <1>7, Zenon

-----------------------------------------------------------------------------
\* Arguments that lie in one slot or more of the stack of a 32-bit architecture.
LEMMA ReadNarrow ==
  ASSUME arch \in Narrow, NEW c \in CurSet, c.st % 4 = 0, NEW n \in {1, 2, 4, 8}
  PROVE  /\ Read(c, n).p = Place("stack", c.st, n)
         /\ Aligned(Read(c, n).c).st = IF n = 8 THEN c.st + 8 ELSE c.st + 4
<1>0. c.st \in Int BY DEF CurSet
<1>1. Read(c, n) = Result(Cursor(c.gp, c.fp, c.st + n), Place("stack", c.st, n))
  BY Zenon DEF Read, StdRead, Narrow
<1>2. Read(c, n).c.st = c.st + n /\ Read(c, n).p = Place("stack", c.st, n) BY <1>1, Records
<1>3. Aligned(Read(c, n).c).st = Align(c.st + n, 4) BY <1>2, Records DEF Aligned, Narrow, Wide
<1>4. Align(c.st + n, 4) = IF n = 8 THEN c.st + 8 ELSE c.st + 4 BY <1>0, AlignNext
<1> QED BY <1>2, <1>3, <1>4, Zenon

\* The vector cursor is at a register or at the end of its area.
FpOK(c) == arch \in Wide => FpEnd - 128 <= c.fp /\ c.fp <= FpEnd /\ c.fp % 16 = 0

\* What an argument at the places ps leaves, with the cursors moved on to c.
LEMMA ExtractKeeps ==
  ASSUME VaInv, arch \in Wide \cup Narrow, UNCHANGED arch,
         NEW c, Later(cur, c), FpOK(c), cur' = Aligned(c), lost' \in BOOLEAN,
         \A i \in DOMAIN at' : /\ at'[i].at \in Int /\ at'[i].len \in Int
                               /\ InArea(at'[i], c),
         arch \in Wide /\ ~lost' => cur'.gp <= GpEnd
  PROVE  VaInv' /\ ReadsInArea'
<1>1. cur \in CurSet /\ c \in CurSet BY Zenon DEF VaInv, VaTypeOK, CurSet, Later
<1>2. /\ Later(c, cur') /\ cur'.fp = c.fp
      /\ arch \in Wide => cur'.gp % 8 = 0 /\ cur'.st % 8 = 0
      /\ arch \in Narrow => cur'.st % 4 = 0
  BY <1>1, AlignedLater, Zenon
<1>3. cur' \in CurSet BY <1>2, Zenon DEF Later
<1>4. GpEnd' = GpEnd /\ FpEnd' = FpEnd /\ GpStart' = GpStart BY Zenon DEF GpEnd, FpEnd, GpStart
<1>5. \A i \in DOMAIN at' : InArea(at'[i], cur') BY <1>1, <1>2, InAreaLater, Zenon
<1>6. ReadsInArea' BY <1>4, <1>5, Zenon DEF ReadsInArea, InArea
<1>7. Start(cur) BY <1>1, Zenon DEF Start, VaInv
<1>8. arch \in Wide => GpStart <= cur'.gp
  BY <1>1, <1>2, <1>7, StartLater, Zenon DEF Start
<1>9. VaTypeOK' BY <1>3, Zenon DEF VaTypeOK, CurSet, Arches
<1>10. arch # "none" BY Zenon DEF Wide, Narrow
<1> QED BY <1>2, <1>4, <1>6, <1>8, <1>9, <1>10, Zenon DEF VaInv, FpOK

\* The registers that are left, as VaArgs counts them.
Gp(c) == IF arch \in Wide THEN (GpEnd - c.gp) \div 8 ELSE 0
Fp(c) == IF arch \in Wide THEN (FpEnd - c.fp) \div 16 ELSE 0

LEMMA Divide ==
  ASSUME NEW v \in Int, NEW e \in Int
  PROVE  /\ v % 8 = 0 /\ e % 8 = 0 => v = e - 8 * ((e - v) \div 8)
         /\ v % 16 = 0 /\ e % 16 = 0 => v = e - 16 * ((e - v) \div 16)
         /\ (e - v) \div 8 \in Int /\ (e - v) \div 16 \in Int
  OBVIOUS

LEMMA DivideNext ==
  ASSUME NEW v \in Int, NEW e \in Int, NEW n \in 0..2
  PROVE  /\ (e - (v + 8 * n)) \div 8 = ((e - v) \div 8) - n
         /\ (e - (v + 16 * n)) \div 16 = ((e - v) \div 16) - n
  OBVIOUS

LEMMA Left ==
  ASSUME arch \in Wide, NEW c \in CurSet
  PROVE  /\ c.gp % 8 = 0 => c.gp = GpEnd - 8 * Gp(c)
         /\ c.fp % 16 = 0 => c.fp = FpEnd - 16 * Fp(c)
         /\ Gp(c) \in Int /\ Fp(c) \in Int
<1>1. c.gp \in Int /\ c.fp \in Int BY Zenon DEF CurSet
<1>2. Gp(c) = (GpEnd - c.gp) \div 8 /\ Fp(c) = (FpEnd - c.fp) \div 16 BY Zenon DEF Gp, Fp
<1>3. /\ c.gp % 8 = 0 /\ GpEnd % 8 = 0 => c.gp = GpEnd - 8 * ((GpEnd - c.gp) \div 8)
      /\ (GpEnd - c.gp) \div 8 \in Int
  BY <1>1, Ends, Divide, Zenon
<1>4. /\ c.fp % 16 = 0 /\ FpEnd % 16 = 0 => c.fp = FpEnd - 16 * ((FpEnd - c.fp) \div 16)
      /\ (FpEnd - c.fp) \div 16 \in Int
  BY <1>1, Ends, Divide, Zenon
<1> QED BY <1>2, <1>3, <1>4, Ends, Zenon

LEMMA PlacesLeft ==
  ASSUME arch \in Wide, cur \in CurSet
  PROVE  /\ cur.gp % 8 = 0 => Args!GpAt(Gp(cur)) = cur.gp
         /\ cur.fp % 16 = 0 => Args!FpAt(Fp(cur)) = cur.fp
<1>1. Gp(cur) \in Int /\ Fp(cur) \in Int BY Left, Zenon
<1>2. cur.gp % 8 = 0 => cur.gp = GpEnd - 8 * Gp(cur) BY Left, Zenon
<1>3. cur.fp % 16 = 0 => cur.fp = FpEnd - 16 * Fp(cur) BY Left, Zenon
<1> QED BY <1>1, <1>2, <1>3
     DEF Args!GpAt, Args!FpAt, GpEnd, FpEnd, GENERAL_OFFSET_MAX, XMM_OFFSET_MAX, Wide

\* Moving the general cursor by n registers leaves n less, and so for the other.
LEMMA LeftNext ==
  ASSUME arch \in Wide, UNCHANGED arch, cur \in CurSet, NEW n \in 0..2
  PROVE  /\ cur'.gp = cur.gp + 8 * n => Gp(cur)' = Gp(cur) - n
         /\ cur'.fp = cur.fp + 16 * n => Fp(cur)' = Fp(cur) - n
<1>1. cur.gp \in Int /\ cur.fp \in Int BY Zenon DEF CurSet
<1>2. GpEnd' = GpEnd /\ FpEnd' = FpEnd BY Zenon DEF GpEnd, FpEnd
<1>3. GpEnd \in Int /\ FpEnd \in Int BY Ends, Zenon
<1>4. (GpEnd - (cur.gp + 8 * n)) \div 8 = ((GpEnd - cur.gp) \div 8) - n
  BY <1>1, <1>3, DivideNext, Zenon
<1>5. (FpEnd - (cur.fp + 16 * n)) \div 16 = ((FpEnd - cur.fp) \div 16) - n
  BY <1>1, <1>3, DivideNext, Zenon
<1>6. Gp(cur)' = (GpEnd - cur'.gp) \div 8 /\ Fp(cur)' = (FpEnd - cur'.fp) \div 16
  BY <1>2, Zenon DEF Gp, Fp
<1>7. Gp(cur) = (GpEnd - cur.gp) \div 8 /\ Fp(cur) = (FpEnd - cur.fp) \div 16
  BY Zenon DEF Gp, Fp
<1> QED BY <1>4, <1>5, <1>6, <1>7, Zenon

-----------------------------------------------------------------------------
\* What holds before an argument is extracted.
LEMMA Before ==
  ASSUME VaInv, arch # "none"
  PROVE  /\ arch \in Wide \cup Narrow /\ cur \in CurSet /\ Start(cur) /\ FpOK(cur)
         /\ lost \in BOOLEAN /\ cur.gp \in Int /\ cur.fp \in Int /\ cur.st \in Nat
         /\ arch \in Wide /\ ~lost => AtSlot(cur)
         /\ arch \in Narrow /\ ~lost => cur.st % 4 = 0
<1>1. cur \in CurSet BY Zenon DEF VaInv, VaTypeOK, CurSet
<1> QED BY <1>1, Zenon DEF VaInv, VaTypeOK, Arches, Start, FpOK, AtSlot, CurSet

\* Once something is lost the abstract reader may do anything.
LEMMA LostStep ==
  ASSUME arch # "none", UNCHANGED arch, lost, lost' = TRUE
  PROVE  Args!Next
  BY Zenon DEF Args!Next

LEMMA PromiseStep ==
  ASSUME arch # "none", UNCHANGED arch, ~lost, UNCHANGED lost,
         (\E n \in 1..8 : Args!Word(n)) \/ Args!Real \/ Args!Long \/ Args!Struct
  PROVE  Args!Next
  BY Zenon DEF Args!Next

\* An argument of one place that the caller has used keeps the promise.
LEMMA NotElsewhere ==
  ASSUME lost \in BOOLEAN, NEW p, lost' = (lost \/ Elsewhere(p)), p.area # "both",
         arch # "arm" \/ p.len # 8 \/ p.at % 8 = 0
  PROVE  UNCHANGED lost
<1>1. ~Elsewhere(p) BY Zenon DEF Elsewhere
<1> QED BY <1>1, Zenon

\* An argument that one call reads, but for where it leaves the cursors.
LEMMA OneKeeps ==
  ASSUME VaInv, arch # "none", UNCHANGED arch, NEW r, ExtractOne(r),
         Later(cur, r.c), FpOK(r.c), r.p.at \in Int, r.p.len \in Int, InArea(r.p, r.c),
         arch \in Wide /\ ~lost' => cur'.gp <= GpEnd
  PROVE  VaInv' /\ ReadsInArea'
<1>1. /\ cur' = Aligned(r.c) /\ at' = <<r.p>> /\ lost' = (lost \/ Elsewhere(r.p))
  BY Zenon DEF ExtractOne
<1>2. lost' \in BOOLEAN BY <1>1, Before, Zenon
<1>3. \A i \in DOMAIN at' : /\ at'[i].at \in Int /\ at'[i].len \in Int
                            /\ InArea(at'[i], r.c)
  BY <1>1
<1> QED BY <1>1, <1>2, <1>3, Before, ExtractKeeps, Zenon

\* An integer.
LEMMA IntStep ==
  ASSUME VaInv, arch # "none", UNCHANGED arch, NEW n \in {1, 2, 4, 8}, ExtractInt(n)
  PROVE  VaInv' /\ ReadsInArea' /\ Args!Next
<1> DEFINE r == Read(cur, n)
<1>1. /\ Later(cur, r.c) /\ FpOK(r.c) /\ r.p.at \in Int /\ r.p.len \in Int
      /\ InArea(r.p, r.c)
  BY Before, ReadInArea DEF FpOK
<1>2. /\ ExtractOne(r) /\ cur' = Aligned(r.c) /\ at' = <<r.p>>
      /\ lost' = (lost \/ Elsewhere(r.p))
  BY Zenon DEF ExtractInt, ExtractOne
<1>3. CASE lost
  <2>1. lost' = TRUE BY <1>2, <1>3, Zenon
  <2> QED BY <1>1, <1>2, <1>3, <2>1, OneKeeps, LostStep, Zenon
<1>4. CASE ~lost /\ arch \in Wide /\ cur.gp < GpEnd
  <2>1. cur' = Cursor(cur.gp + 8, cur.fp, cur.st) /\ r.p = Place("gp", cur.gp, n)
    BY <1>2, <1>4, Before, WordWide
  <2>2. cur'.gp = cur.gp + 8 /\ cur'.fp = cur.fp /\ cur'.st = cur.st BY <2>1, Records
  <2>3. UNCHANGED lost
    <3>1. r.p.area = "gp" /\ arch # "arm" BY <1>4, <2>1, Records DEF Wide
    <3> QED BY <1>2, <3>1, Before, NotElsewhere, Zenon
  <2>4. cur.gp + 8 <= GpEnd /\ cur.gp % 8 = 0 BY <1>4, Before, Ends DEF AtSlot
  <2>5. Gp(cur)' = Gp(cur) - 1 /\ Fp(cur)' = Fp(cur) BY <1>4, <2>2, Before, LeftNext, Left
  <2>6. Args!GpAt(Gp(cur)) = cur.gp /\ Gp(cur) > 0
    BY <1>4, <2>4, Before, Ends, PlacesLeft, Left, SMTT(20)
  <2>7. Args!Word(n)
    BY <1>2, <1>4, <2>1, <2>2, <2>5, <2>6 DEF Args!Word, Args!Wide, Wide, Gp, Fp, Args!Place, Place
  <2>8. Args!Next
    <3>1. n \in 1..8 OBVIOUS
    <3> QED BY <1>4, <2>3, <2>7, <3>1, PromiseStep, Zenon
  <2> QED BY <1>1, <1>2, <2>2, <2>4, <2>8, OneKeeps, Zenon
<1>5. CASE ~lost /\ arch \in Wide /\ cur.gp >= GpEnd
  <2>1. cur.gp = GpEnd BY <1>5, Before, Ends DEF AtSlot
  <2>2. cur' = Cursor(cur.gp, cur.fp, cur.st + 8) /\ r.p = Place("stack", cur.st, n)
    BY <1>2, <1>5, <2>1, Before, WordWide
  <2>3. cur'.gp = cur.gp /\ cur'.fp = cur.fp /\ cur'.st = cur.st + 8 BY <2>2, Records
  <2>4. UNCHANGED lost
    <3>1. r.p.area = "stack" /\ arch # "arm" BY <1>5, <2>2, Records DEF Wide
    <3> QED BY <1>2, <3>1, Before, NotElsewhere, Zenon
  <2>5. Gp(cur)' = Gp(cur) /\ Fp(cur)' = Fp(cur) BY <1>5, <2>3, Before, LeftNext, Left
  <2>6. Gp(cur) = 0 BY <1>5, <2>1, Before, Ends, Left DEF AtSlot
  <2>7. Args!Word(n)
    BY <1>2, <1>5, <2>2, <2>3, <2>5, <2>6 DEF Args!Word, Args!Wide, Wide, Gp, Fp, Args!Place, Place
  <2>8. Args!Next
    <3>1. n \in 1..8 OBVIOUS
    <3> QED BY <1>5, <2>4, <2>7, <3>1, PromiseStep, Zenon
  <2> QED BY <1>1, <1>2, <2>1, <2>3, <2>8, Ends, OneKeeps
<1>6. CASE ~lost /\ arch \in Narrow
  <2>1. r.p = Place("stack", cur.st, n) /\ cur'.st = IF n = 8 THEN cur.st + 8 ELSE cur.st + 4
    BY <1>2, <1>6, Before, ReadNarrow, Zenon
  <2>2. arch \notin Wide BY <1>6, Zenon DEF Wide, Narrow
  <2>3. r.p.area = "stack" /\ r.p.len = n /\ r.p.at = cur.st BY <2>1, Records
  <2>4. VaInv' /\ ReadsInArea' BY <1>1, <1>2, <2>2, OneKeeps, Zenon
  <2>5. Gp(cur) = 0 /\ Gp(cur)' = 0 /\ Fp(cur) = 0 /\ Fp(cur)' = 0 BY <2>2, Zenon DEF Gp, Fp
  <2>6. CASE n # 8
    <3>1. UNCHANGED lost BY <1>2, <2>3, <2>6, Before, NotElsewhere, Zenon
    <3>2. n \in 1..8 /\ n <= 4 BY <2>6
    <3>3. Args!Word(n)
      BY <1>2, <1>6, <2>1, <2>2, <2>5, <2>6, <3>2, Zenon
         DEF Args!Word, Args!Wide, Args!Narrow, Wide, Narrow, Gp, Fp, Args!Place, Place
    <3> QED BY <1>6, <2>4, <3>1, <3>2, <3>3, PromiseStep, Zenon
  <2>7. CASE n = 8 /\ arch = "arm" /\ cur.st % 8 # 0
    <3>1. Elsewhere(r.p) BY <2>3, <2>7, Zenon DEF Elsewhere
    <3>2. lost' = TRUE BY <1>2, <3>1, Zenon
    <3>3. Args!Awkward BY <1>2, <2>1, <2>7, Zenon DEF Args!Awkward, Args!Place, Place
    <3> QED BY <2>4, <3>2, <3>3, Zenon DEF Args!Next
  <2>8. CASE n = 8 /\ ~(arch = "arm" /\ cur.st % 8 # 0)
    <3>1. UNCHANGED lost BY <1>2, <2>3, <2>8, Before, NotElsewhere, Zenon
    <3>2. Args!Long
      BY <1>2, <1>6, <2>1, <2>2, <2>5, <2>8, Zenon
         DEF Args!Long, Args!Narrow, Narrow, Gp, Fp, Args!Place, Place
    <3> QED BY <1>6, <2>4, <3>1, <3>2, PromiseStep, Zenon
  <2> QED BY <2>6, <2>7, <2>8, Zenon
<1> QED BY <1>3, <1>4, <1>5, <1>6, Before, Ends

LEMMA PointerStep ==
  ASSUME VaInv, arch # "none", UNCHANGED arch, ExtractPointer
  PROVE  VaInv' /\ ReadsInArea' /\ Args!Next
<1>1. ExtractInt(8) \/ ExtractInt(4) BY Zenon DEF ExtractPointer, ReadStream, ExtractInt
<1> QED BY <1>1, IntStep, Zenon

\* A floating point number.
LEMMA RealStep ==
  ASSUME VaInv, arch # "none", UNCHANGED arch, ExtractReal
  PROVE  VaInv' /\ ReadsInArea' /\ Args!Next
<1> DEFINE r == ReadDouble(cur)
<1>1. /\ Later(cur, r.c) /\ FpOK(r.c) /\ r.p.at \in Int /\ r.p.len \in Int
      /\ InArea(r.p, r.c)
  BY Before, ReadDoubleInArea, Zenon DEF FpOK
<1>2. /\ ExtractOne(r) /\ cur' = Aligned(r.c) /\ at' = <<r.p>>
      /\ lost' = (lost \/ Elsewhere(r.p))
  BY Zenon DEF ExtractReal, ExtractOne
<1>3. CASE lost
  <2>1. lost' = TRUE BY <1>2, <1>3, Zenon
  <2> QED BY <1>1, <1>2, <1>3, <2>1, OneKeeps, LostStep, Zenon
<1>4. CASE ~lost /\ arch \in Wide /\ cur.fp < FpEnd
  <2>1. r = Result(Cursor(cur.gp, cur.fp + 16, cur.st), Place("fp", cur.fp, 8))
    BY <1>4, Before, ReadDoubleWide, Zenon
  <2>2. r.c = Cursor(cur.gp, cur.fp + 16, cur.st) /\ r.p = Place("fp", cur.fp, 8)
    BY <2>1, Records
  <2>3. cur' = Cursor(Align(cur.gp, 8), cur.fp + 16, Align(cur.st, 8))
    BY <1>2, <1>4, <2>2, Records DEF Aligned
  <2>4. cur' = Cursor(cur.gp, cur.fp + 16, cur.st)
    BY <1>4, <2>3, Before, AlignNext DEF AtSlot
  <2>5. cur'.gp = cur.gp /\ cur'.fp = cur.fp + 16 /\ cur'.st = cur.st BY <2>4, Records
  <2>6. UNCHANGED lost
    <3>1. r.p.area = "fp" /\ arch # "arm" BY <1>4, <2>2, Records DEF Wide
    <3> QED BY <1>2, <3>1, Before, NotElsewhere, Zenon
  <2>7. Gp(cur)' = Gp(cur) /\ Fp(cur)' = Fp(cur) - 1 BY <1>4, <2>5, Before, LeftNext, Left
  <2>8. Args!FpAt(Fp(cur)) = cur.fp /\ Fp(cur) > 0
    BY <1>4, Before, Ends, PlacesLeft, Left DEF FpOK
  <2>9. Args!Real
    BY <1>2, <1>4, <2>2, <2>5, <2>7, <2>8, Zenon DEF Args!Real, Args!Wide, Wide, Gp, Fp, Args!Place, Place
  <2>10. cur'.gp <= GpEnd BY <1>4, <2>5, Before, Zenon DEF AtSlot
  <2> QED BY <1>1, <1>2, <1>4, <2>6, <2>9, <2>10, OneKeeps, PromiseStep, Zenon
<1>5. CASE ~lost /\ arch \in Wide /\ cur.fp >= FpEnd
  <2>1. r = Result(Cursor(cur.gp, cur.fp, cur.st + 8), Place("stack", cur.st, 8))
    BY <1>5, Before, ReadDoubleWide, Zenon
  <2>2. r.c = Cursor(cur.gp, cur.fp, cur.st + 8) /\ r.p = Place("stack", cur.st, 8)
    BY <2>1, Records
  <2>3. cur' = Cursor(Align(cur.gp, 8), cur.fp, Align(cur.st + 8, 8))
    BY <1>2, <1>5, <2>2, Records DEF Aligned
  <2>4. cur' = Cursor(cur.gp, cur.fp, cur.st + 8)
    BY <1>5, <2>3, Before, AlignNext DEF AtSlot
  <2>5. cur'.gp = cur.gp /\ cur'.fp = cur.fp /\ cur'.st = cur.st + 8 BY <2>4, Records
  <2>6. UNCHANGED lost
    <3>1. r.p.area = "stack" /\ arch # "arm" BY <1>5, <2>2, Records DEF Wide
    <3> QED BY <1>2, <3>1, Before, NotElsewhere, Zenon
  <2>7. Gp(cur)' = Gp(cur) /\ Fp(cur)' = Fp(cur) BY <1>5, <2>5, Before, LeftNext, Left
  <2>8. Fp(cur) = 0 BY <1>5, Before, Ends, Left DEF FpOK
  <2>9. Args!Real
    BY <1>2, <1>5, <2>2, <2>5, <2>7, <2>8, Zenon DEF Args!Real, Args!Wide, Wide, Gp, Fp, Args!Place, Place
  <2>10. cur'.gp <= GpEnd BY <1>5, <2>5, Before, Zenon DEF AtSlot
  <2> QED BY <1>1, <1>2, <1>5, <2>6, <2>9, <2>10, OneKeeps, PromiseStep, Zenon
<1>6. CASE arch \in Narrow
  <2>1. r = Read(cur, 8) BY <1>6, Zenon DEF ReadDouble, Read, StdReadDouble, Narrow
  <2>2. ExtractInt(8) BY <1>2, <2>1, Zenon DEF ExtractInt
  <2> QED BY <2>2, IntStep, Zenon
<1> QED BY <1>3, <1>4, <1>5, <1>6, Before, Ends

\* How many registers a general cursor at a slot leaves.
LEMMA Room ==
  ASSUME VaInv, arch \in Wide, ~lost
  PROVE  /\ Args!GpAt(Gp(cur)) = cur.gp /\ Gp(cur) \in Nat
         /\ cur.gp + 16 <= GpEnd <=> Gp(cur) >= 2
         /\ cur.gp + 8 = GpEnd <=> Gp(cur) = 1
         /\ cur.gp = GpEnd <=> Gp(cur) = 0
<1>1. arch # "none" BY Zenon DEF Wide
<1>2. cur \in CurSet /\ cur.gp % 8 = 0 /\ cur.gp <= GpEnd BY <1>1, Before, Zenon DEF AtSlot
<1>3. cur.gp = GpEnd - 8 * Gp(cur) /\ Gp(cur) \in Int BY <1>2, Left, Zenon
<1> QED BY <1>2, <1>3, Ends, PlacesLeft

\* Two words where the caller puts them: in two registers, or on the stack.
LEMMA PairInRegisters ==
  ASSUME arch \in Wide, Gp(cur) >= 2, Args!GpAt(Gp(cur)) = cur.gp,
         Gp(cur)' = Gp(cur) - 2, Fp(cur)' = Fp(cur), cur'.st = cur.st,
         \/ at' = <<Place("gp", cur.gp, 16)>>
         \/ at' = <<Place("gp", cur.gp, 4), Place("gp", cur.gp + 8, 8)>>
  PROVE  Args!Struct
  BY Zenon DEF Args!Struct, Args!Wide, Wide, Gp, Fp, Args!Place, Place

LEMMA PairOnStack ==
  ASSUME arch \in Wide, Gp(cur) = 0, Gp(cur)' = 0, Fp(cur)' = Fp(cur), cur'.st = cur.st + 16,
         \/ at' = <<Place("stack", cur.st, 16)>>
         \/ at' = <<Place("stack", cur.st, 4), Place("stack", cur.st + 8, 8)>>
  PROVE  Args!Struct
  BY DEF Args!Struct, Args!Wide, Wide, Gp, Fp, Args!Place, Place

\* Two words read at once.
LEMMA BlockStep ==
  ASSUME VaInv, arch # "none", UNCHANGED arch, ExtractBlock
  PROVE  VaInv' /\ ReadsInArea' /\ Args!Next
<1> DEFINE r == Read(cur, 16)
<1>0. arch \in Wide /\ arch # "arm" BY Zenon DEF ExtractBlock, Wide
<1>1. /\ Later(cur, r.c) /\ FpOK(r.c) /\ r.p.at \in Int /\ r.p.len \in Int
      /\ InArea(r.p, r.c)
  BY Before, ReadInArea DEF FpOK
<1>2. /\ ExtractOne(r) /\ cur' = Aligned(r.c) /\ at' = <<r.p>>
      /\ lost' = (lost \/ Elsewhere(r.p))
  BY Zenon DEF ExtractBlock, ExtractOne
<1>3. CASE lost
  <2>1. lost' = TRUE BY <1>2, <1>3, Zenon
  <2> QED BY <1>1, <1>2, <1>3, <2>1, OneKeeps, LostStep, Zenon
<1>4. CASE ~lost /\ Gp(cur) >= 2
  <2>1. cur.gp + 16 <= GpEnd BY <1>0, <1>4, Room, Zenon
  <2>2. cur' = Cursor(cur.gp + 16, cur.fp, cur.st) /\ r.p = Place("gp", cur.gp, 16)
    BY <1>0, <1>2, <1>4, <2>1, Before, BlockWide, Zenon
  <2>3. cur'.gp = cur.gp + 16 /\ cur'.fp = cur.fp /\ cur'.st = cur.st BY <2>2, Records
  <2>4. UNCHANGED lost
    <3>1. r.p.area = "gp" BY <2>2, Records
    <3> QED BY <1>0, <1>2, <3>1, Before, NotElsewhere, Zenon
  <2>5. Gp(cur)' = Gp(cur) - 2 /\ Fp(cur)' = Fp(cur) BY <1>0, <2>3, Before, LeftNext, Left
  <2>6. Args!Struct
    BY <1>0, <1>2, <1>4, <2>2, <2>3, <2>5, Room, PairInRegisters, Zenon
  <2> QED BY <1>1, <1>2, <1>4, <2>1, <2>3, <2>4, <2>6, OneKeeps, PromiseStep, Zenon
<1>5. CASE ~lost /\ Gp(cur) = 1
  <2>1. cur.gp + 8 = GpEnd BY <1>0, <1>5, Room, Zenon
  <2>2. r.p = Place("both", cur.gp, 16) BY <1>0, <1>5, <2>1, Before, BlockWide, Zenon
  <2>3. Elsewhere(r.p) BY <2>2, Records DEF Elsewhere
  <2>4. lost' = TRUE BY <1>2, <2>3, Zenon
  <2>5. Args!Awkward
    BY <1>0, <1>2, <1>5, <2>2, Room, Zenon DEF Args!Awkward, Args!Wide, Wide, Gp, Args!Place, Place
  <2>6. Args!Next BY <2>4, <2>5, Zenon DEF Args!Next
  <2> QED BY <1>1, <1>2, <2>4, <2>6, OneKeeps, Zenon
<1>6. CASE ~lost /\ Gp(cur) = 0
  <2>1. cur.gp = GpEnd BY <1>0, <1>6, Room, Zenon
  <2>2. cur' = Cursor(cur.gp, cur.fp, cur.st + 16) /\ r.p = Place("stack", cur.st, 16)
    BY <1>0, <1>2, <1>6, <2>1, Before, BlockWide, Zenon
  <2>3. cur'.gp = cur.gp /\ cur'.fp = cur.fp /\ cur'.st = cur.st + 16 BY <2>2, Records
  <2>4. UNCHANGED lost
    <3>1. r.p.area = "stack" BY <2>2, Records
    <3> QED BY <1>0, <1>2, <3>1, Before, NotElsewhere, Zenon
  <2>5. Gp(cur)' = Gp(cur) /\ Fp(cur)' = Fp(cur) BY <1>0, <2>3, Before, LeftNext, Left
  <2>6. Args!Struct
    BY <1>0, <1>2, <1>6, <2>2, <2>3, <2>5, PairOnStack, Zenon
  <2> QED BY <1>1, <1>2, <1>6, <2>1, <2>3, <2>4, <2>6, Ends, OneKeeps, PromiseStep
<1> QED BY <1>0, <1>3, <1>4, <1>5, <1>6, Room

\* Two words read one after the other.
LEMMA StructStep ==
  ASSUME VaInv, arch # "none", UNCHANGED arch, ExtractStruct
  PROVE  VaInv' /\ ReadsInArea' /\ Args!Next
<1> DEFINE x == Read(cur, 4)
           z == Skip(x.c, 4)
           y == Read(z, 8)
<1>0. arch \in Wide /\ arch # "arm" BY Zenon DEF ExtractStruct, Wide
<1>1. /\ Later(cur, x.c) /\ x.p.at \in Int /\ x.p.len \in Int /\ InArea(x.p, x.c)
      /\ x.c.fp = cur.fp
  BY Before, ReadInArea
<1>2. Start(x.c) /\ x.c \in CurSet BY <1>1, Before, StartLater, Zenon DEF Start
<1>3. Later(x.c, z) /\ z.fp = cur.fp BY <1>0, <1>1, <1>2, SkipLater, Zenon
<1>4. Start(z) /\ z \in CurSet BY <1>2, <1>3, StartLater, Zenon DEF Start
<1>5. /\ Later(z, y.c) /\ y.p.at \in Int /\ y.p.len \in Int /\ InArea(y.p, y.c)
      /\ y.c.fp = cur.fp
  BY <1>0, <1>3, <1>4, ReadInArea
<1>6. Later(x.c, y.c) BY <1>2, <1>3, <1>4, <1>5, LaterTransitive, Zenon
<1>7. Later(cur, y.c) BY <1>1, <1>2, <1>6, Before, LaterTransitive, Zenon
<1>8. InArea(x.p, y.c) BY <1>1, <1>2, <1>6, InAreaLater, Zenon
<1>9. /\ cur' = Aligned(y.c) /\ at' = <<x.p, y.p>>
      /\ lost' = (lost \/ x.p.area # y.p.area \/ Elsewhere(x.p) \/ Elsewhere(y.p))
  BY Zenon DEF ExtractStruct
<1>10. /\ FpOK(y.c) /\ lost' \in BOOLEAN
       /\ \A i \in DOMAIN at' : /\ at'[i].at \in Int /\ at'[i].len \in Int
                                /\ InArea(at'[i], y.c)
  <2>1. FpOK(y.c) BY <1>5, Before, Zenon DEF FpOK
  <2>2. lost' \in BOOLEAN BY <1>9, Before, Zenon
  <2>3. \A i \in DOMAIN at' : at'[i] \in {x.p, y.p} BY <1>9
  <2> QED BY <1>1, <1>5, <1>8, <2>1, <2>2, <2>3, Zenon
<1>11. ASSUME ~lost' => cur'.gp <= GpEnd
       PROVE  VaInv' /\ ReadsInArea'
  BY <1>0, <1>7, <1>9, <1>10, <1>11, ExtractKeeps, Zenon
<1>12. CASE lost
  <2>1. lost' = TRUE BY <1>9, <1>12, Zenon
  <2> QED BY <1>11, <1>12, <2>1, LostStep, Zenon
<1>13. ASSUME ~lost, x.p.area = y.p.area, x.p.area # "both"
       PROVE  UNCHANGED lost
  <2>1. ~Elsewhere(x.p) /\ ~Elsewhere(y.p) BY <1>0, <1>13, Zenon DEF Elsewhere
  <2> QED BY <1>9, <1>13, <2>1, Before, Zenon
<1>14. CASE ~lost /\ Gp(cur) >= 2
  <2>1. cur.gp + 16 <= GpEnd BY <1>0, <1>14, Room, Zenon
  <2>2. /\ cur' = Cursor(cur.gp + 16, cur.fp, cur.st)
        /\ x.p = Place("gp", cur.gp, 4) /\ y.p = Place("gp", cur.gp + 8, 8)
    BY <1>0, <1>9, <1>14, <2>1, Before, StructWide, Zenon
  <2>3. cur'.gp = cur.gp + 16 /\ cur'.fp = cur.fp /\ cur'.st = cur.st BY <2>2, Records
  <2>4. UNCHANGED lost
    <3>1. x.p.area = "gp" BY <2>2, Records
    <3>2. y.p.area = "gp" BY <2>2, Records
    <3> QED BY <1>13, <1>14, <3>1, <3>2, Zenon
  <2>5. Gp(cur)' = Gp(cur) - 2 /\ Fp(cur)' = Fp(cur) BY <1>0, <2>3, Before, LeftNext, Left
  <2>6. Args!Struct
    BY <1>0, <1>9, <1>14, <2>2, <2>3, <2>5, Room, PairInRegisters, Zenon
  <2> QED BY <1>11, <1>14, <2>1, <2>3, <2>4, <2>6, PromiseStep, Zenon
<1>15. CASE ~lost /\ Gp(cur) = 1
  <2>1. cur.gp + 8 = GpEnd BY <1>0, <1>15, Room, Zenon
  <2>2. x.p = Place("gp", cur.gp, 4) /\ y.p = Place("stack", cur.st, 8)
    BY <1>0, <1>15, <2>1, Before, StructWide, Zenon
  <2>3. x.p.area # y.p.area BY <2>2, Records
  <2>4. lost' = TRUE BY <1>9, <2>3, Zenon
  <2>5. Args!Awkward
    BY <1>0, <1>9, <1>15, <2>2, Room, Zenon DEF Args!Awkward, Args!Wide, Wide, Gp, Args!Place, Place
  <2>6. Args!Next BY <2>4, <2>5, Zenon DEF Args!Next
  <2> QED BY <1>11, <2>4, <2>6, Zenon
<1>16. CASE ~lost /\ Gp(cur) = 0
  <2>1. cur.gp = GpEnd BY <1>0, <1>16, Room, Zenon
  <2>2. /\ cur' = Cursor(cur.gp, cur.fp, cur.st + 16)
        /\ x.p = Place("stack", cur.st, 4) /\ y.p = Place("stack", cur.st + 8, 8)
    BY <1>0, <1>9, <1>16, <2>1, Before, StructWide, Zenon
  <2>3. cur'.gp = cur.gp /\ cur'.fp = cur.fp /\ cur'.st = cur.st + 16 BY <2>2, Records
  <2>4. UNCHANGED lost
    <3>1. x.p.area = "stack" BY <2>2, Records
    <3>2. y.p.area = "stack" BY <2>2, Records
    <3> QED BY <1>13, <1>16, <3>1, <3>2, Zenon
  <2>5. Gp(cur)' = Gp(cur) /\ Fp(cur)' = Fp(cur) BY <1>0, <2>3, Before, LeftNext, Left
  <2>6. Args!Struct
    BY <1>0, <1>9, <1>16, <2>2, <2>3, <2>5, PairOnStack, Zenon
  <2> QED BY <1>11, <1>16, <2>1, <2>3, <2>4, <2>6, Ends, PromiseStep
<1> QED BY <1>0, <1>12, <1>14, <1>15, <1>16, Room

\* A read that fails leaves the cursor where it was, or moved on.
LEMMA ReadFailsLater ==
  ASSUME arch \in Wide \cup Narrow, NEW c, Start(c), FpOK(c), NEW n \in Nat \ {0}, ReadFails(c, n)
  PROVE  Later(c, cur') /\ FpOK(cur')
<1>1. cur' = Read(c, n).c \/ cur' = c BY Zenon DEF ReadFails
<1>2. c \in CurSet BY Zenon DEF Start
<1>3. Later(c, c) BY <1>2 DEF Later, CurSet
<1>4. Later(c, Read(c, n).c) /\ Read(c, n).c.fp = c.fp BY ReadInArea, Zenon
<1> QED BY <1>1, <1>3, <1>4, Zenon DEF FpOK

LEMMA FailsStep ==
  ASSUME VaInv, arch # "none", UNCHANGED arch, ExtractFails
  PROVE  VaInv' /\ ReadsInArea' /\ Args!Next
<1>1. at' = <<>> /\ lost' = TRUE BY Zenon DEF ExtractFails
<1>2. Later(cur, cur') /\ FpOK(cur')
  <2>1. CASE \E n \in {1, 2, 4, 8} : ReadFails(cur, n) BY <2>1, Before, ReadFailsLater
  <2>2. CASE cur' = ReadDouble(cur).c BY <2>2, Before, ReadDoubleInArea, Zenon DEF FpOK
  <2>3. CASE arch \in Wide /\ ReadFails(cur, 16) BY <2>3, Before, ReadFailsLater
  <2>4. CASE arch \in Wide /\ ReadFails(Skip(Read(cur, 4).c, 4), 8)
    <3> DEFINE x == Read(cur, 4).c
               z == Skip(x, 4)
    <3>1. Later(cur, x) /\ x.fp = cur.fp BY Before, ReadInArea
    <3>2. Start(x) /\ x \in CurSet BY <3>1, Before, StartLater, Zenon DEF Start
    <3>3. Later(x, z) /\ z.fp = x.fp BY <2>4, <3>2, SkipLater, Zenon
    <3>4. Start(z) /\ z \in CurSet /\ FpOK(z) BY <3>1, <3>2, <3>3, Before, StartLater, Zenon DEF Start, FpOK
    <3>5. Later(z, cur') /\ FpOK(cur') BY <2>4, <3>4, ReadFailsLater
    <3>6. Later(cur, z) BY <3>1, <3>2, <3>3, Before, LaterTransitive, Zenon
    <3> QED BY <3>4, <3>5, <3>6, Before, LaterTransitive, Zenon
  <2>5. CASE UNCHANGED cur
    <3>1. Later(cur, cur) BY Before DEF Later, CurSet
    <3> QED BY <2>5, <3>1, Before, Zenon DEF FpOK
  <2> QED BY <2>1, <2>2, <2>3, <2>4, <2>5, Zenon DEF ExtractFails
<1>3. Start(cur') /\ cur' \in CurSet BY <1>2, Before, StartLater, Zenon DEF Start
<1>4. GpEnd' = GpEnd /\ FpEnd' = FpEnd /\ GpStart' = GpStart BY Zenon DEF GpEnd, FpEnd, GpStart
<1>5. VaTypeOK' BY <1>1, <1>3, Before, Zenon DEF VaTypeOK, CurSet, Arches
<1>6. VaInv' BY <1>1, <1>2, <1>3, <1>4, <1>5, Zenon DEF VaInv, FpOK, Start
<1>7. ReadsInArea' BY <1>1 DEF ReadsInArea
<1>8. Args!Error BY <1>1, Zenon DEF Args!Error
<1> QED BY <1>1, <1>6, <1>7, <1>8, Zenon DEF Args!Next

LEMMA MakeStep ==
  ASSUME VaInv, ReadsInArea, NewVaList
  PROVE  VaInv' /\ ReadsInArea' /\ Args!Next
<1>1. arch = "none" /\ at = <<>> /\ ~lost /\ at' = <<>> /\ ~lost' /\ lost' \in BOOLEAN
  BY Zenon DEF NewVaList, VaInv, VaTypeOK
<1>2. ReadsInArea' BY <1>1 DEF ReadsInArea
<1>3. CASE arch' = "arm64" /\ \E g, f \in 0..8 : cur' = Cursor(-(8 * g), -(16 * f), 0)
  <2>1. PICK g \in 0..8, f \in 0..8 : cur' = Cursor(-(8 * g), -(16 * f), 0) BY <1>3, Zenon
  <2>2. cur'.gp = -(8 * g) /\ cur'.fp = -(16 * f) /\ cur'.st = 0
    BY <2>1, Zenon DEF Cursor
  <2>3. GpEnd' = 0 /\ FpEnd' = 0 /\ GpStart' = -64 BY <1>3, Zenon DEF GpEnd, FpEnd, GpStart
  <2>4. cur' \in CurSet BY <2>1, CursorType
  <2>5. VaInv'
    <3>1. /\ 0 - 128 <= -(16 * f) /\ -(16 * f) <= 0 /\ (-(16 * f)) % 16 = 0
          /\ -64 <= -(8 * g) /\ -(8 * g) <= 0 /\ (-(8 * g)) % 8 = 0
      OBVIOUS
    <3>2. /\ FpEnd' - 128 <= cur'.fp /\ cur'.fp <= FpEnd' /\ cur'.fp % 16 = 0
          /\ GpStart' <= cur'.gp /\ cur'.gp <= GpEnd' /\ cur'.gp % 8 = 0 /\ cur'.st % 8 = 0
      BY <2>2, <2>3, <3>1
    <3>3. VaTypeOK' BY <1>1, <1>3, <2>4, Zenon DEF VaTypeOK, CurSet, Arches, Wide
    <3> QED BY <1>1, <1>3, <3>2, <3>3, Zenon DEF VaInv, Wide, Narrow
  <2>6. Gp(cur)' = g /\ Fp(cur)' = f
    <3>1. (0 - (-(8 * g))) \div 8 = g /\ (0 - (-(16 * f))) \div 16 = f OBVIOUS
    <3> QED BY <1>3, <2>2, <2>3, <3>1, Zenon DEF Gp, Fp, Wide
  <2>7. Args!Make BY <1>1, <1>3, <2>2, <2>6, Zenon DEF Args!Make, Args!Wide, Args!Narrow, NewVaList, Gp, Fp
  <2> QED BY <1>2, <2>5, <2>7, Zenon DEF Args!Next
<1>4. CASE arch' = "x86_64" /\ \E g \in 0..6, f \in 0..8 : cur' = Cursor(48 - 8 * g, 176 - 16 * f, 0)
  <2>1. PICK g \in 0..6, f \in 0..8 : cur' = Cursor(48 - 8 * g, 176 - 16 * f, 0) BY <1>4, Zenon
  <2>2. cur'.gp = 48 - 8 * g /\ cur'.fp = 176 - 16 * f /\ cur'.st = 0 BY <2>1, Records
  <2>3. GpEnd' = 48 /\ FpEnd' = 176 /\ GpStart' = 0
    BY <1>4, Zenon DEF GpEnd, FpEnd, GpStart, GENERAL_OFFSET_MAX, XMM_OFFSET_MAX
  <2>4. cur' \in CurSet BY <2>1, CursorType
  <2>5. VaInv'
    <3>1. /\ 176 - 128 <= 176 - 16 * f /\ 176 - 16 * f <= 176 /\ (176 - 16 * f) % 16 = 0
          /\ 0 <= 48 - 8 * g /\ 48 - 8 * g <= 48 /\ (48 - 8 * g) % 8 = 0
      OBVIOUS
    <3>2. /\ FpEnd' - 128 <= cur'.fp /\ cur'.fp <= FpEnd' /\ cur'.fp % 16 = 0
          /\ GpStart' <= cur'.gp /\ cur'.gp <= GpEnd' /\ cur'.gp % 8 = 0 /\ cur'.st % 8 = 0
      BY <2>2, <2>3, <3>1
    <3>3. VaTypeOK' BY <1>1, <1>4, <2>4, Zenon DEF VaTypeOK, CurSet, Arches, Wide
    <3> QED BY <1>1, <1>4, <3>2, <3>3, Zenon DEF VaInv, Wide, Narrow
  <2>6. Gp(cur)' = g /\ Fp(cur)' = f
    <3>1. (48 - (48 - 8 * g)) \div 8 = g /\ (176 - (176 - 16 * f)) \div 16 = f OBVIOUS
    <3> QED BY <1>4, <2>2, <2>3, <3>1 DEF Gp, Fp, Wide
  <2>7. Args!Make BY <1>1, <1>4, <2>2, <2>6, SMTT(20)
    DEF Args!Make, Args!Wide, Args!Narrow, NewVaList, Gp, Fp
  <2> QED BY <1>2, <2>5, <2>7, Zenon DEF Args!Next
<1>5. CASE arch' \in Narrow /\ \E s \in {0, 4} : cur' = Cursor(0, 0, s)
  <2>1. PICK s \in {0, 4} : cur' = Cursor(0, 0, s) BY <1>5, Zenon
  <2>2. cur'.st = s BY <2>1, Records
  <2>3. cur' \in CurSet BY <2>1, CursorType
  <2>4. VaInv' BY <1>1, <1>5, <2>2, <2>3 DEF VaInv, VaTypeOK, CurSet, Arches, Wide, Narrow
  <2>5. Gp(cur)' = 0 /\ Fp(cur)' = 0 BY <1>5, Zenon DEF Gp, Fp, Wide, Narrow
  <2>6. Args!Make
    BY <1>1, <1>5, <2>2, <2>5 DEF Args!Make, Args!Wide, Args!Narrow, Narrow, NewVaList, Gp, Fp
  <2> QED BY <1>2, <2>4, <2>6, Zenon DEF Args!Next
<1> QED BY <1>3, <1>4, <1>5, Zenon DEF NewVaList

-----------------------------------------------------------------------------
\* A Read goes forward and has passed what it has read.
LEMMA ReadForward ==
  ASSUME arch \in Wide \cup Narrow, NEW c \in CurSet, NEW n \in Nat \ {0}
  PROVE  Forward(c, Read(c, n).c) /\ Passed(Read(c, n).p, c, Read(c, n).c)
         /\ Read(c, n).c \in CurSet /\ Read(c, n).p.at \in Int /\ Read(c, n).p.len \in Int
<1> DEFINE r == Read(c, n)
<1>0. c.gp \in Int /\ c.st \in Nat /\ c.fp \in Int BY Zenon DEF CurSet
<1>1. CASE \/ arch \in Wide /\ c.gp >= GpEnd
           \/ arch \in Narrow
  <2>1. r = Result(Cursor(c.gp, c.fp, c.st + n), Place("stack", c.st, n))
    BY <1>1, <1>0, ReadWide, Zenon DEF Read, StdRead, Narrow
  <2>2. r.c = Cursor(c.gp, c.fp, c.st + n) /\ r.p = Place("stack", c.st, n) BY <2>1, Records
  <2>3. r.c \in CurSet BY <2>2, <1>0, CursorType
  <2>4. /\ r.c.gp = c.gp /\ r.c.fp = c.fp /\ r.c.st = c.st + n
        /\ r.p.area = "stack" /\ r.p.at = c.st /\ r.p.len = n
    BY <2>2, Records
  <2> QED BY <2>3, <2>4, <1>0 DEF Forward, Passed
<1>2. CASE arch \in Wide /\ c.gp < GpEnd /\ c.gp + n <= GpEnd
  <2>1. r = Result(Cursor(c.gp + n, c.fp, c.st), Place("gp", c.gp, n))
    BY <1>2, <1>0, ReadWide, Zenon
  <2>2. r.c = Cursor(c.gp + n, c.fp, c.st) /\ r.p = Place("gp", c.gp, n) BY <2>1, Records
  <2>3. r.c \in CurSet BY <2>2, <1>0, CursorType
  <2>4. /\ r.c.gp = c.gp + n /\ r.c.fp = c.fp /\ r.c.st = c.st
        /\ r.p.area = "gp" /\ r.p.at = c.gp /\ r.p.len = n
    BY <2>2, Records
  <2> QED BY <2>3, <2>4, <1>0 DEF Forward, Passed
<1>3. CASE arch \in Wide /\ c.gp < GpEnd /\ c.gp + n > GpEnd
  <2> DEFINE s == c.st + (n - (GpEnd - c.gp))
  <2>1. r = Result(Cursor(GpEnd, c.fp, s), Place("both", c.gp, n))
    BY <1>3, <1>0, ReadWide, Zenon
  <2>2. r.c = Cursor(GpEnd, c.fp, s) /\ r.p = Place("both", c.gp, n) BY <2>1, Records
  <2>3. s \in Nat BY <1>0, <1>3, Ends
  <2>4. r.c \in CurSet BY <2>2, <2>3, <1>0, Ends, CursorType, Zenon
  <2>5. /\ r.c.gp = GpEnd /\ r.c.fp = c.fp /\ r.c.st = s
        /\ r.p.area = "both" /\ r.p.at = c.gp /\ r.p.len = n
    BY <2>2, Records
  <2> HIDE DEF r
  <2>6. Forward(c, r.c) BY <2>5, <1>0, <1>3, Ends DEF Forward
  <2>7. Passed(r.p, c, r.c) BY <2>5, <1>0, <1>3, Ends DEF Passed
  <2>8. r.p.at \in Int /\ r.p.len \in Int BY <2>5, <1>0
  <2> QED BY <2>4, <2>6, <2>7, <2>8, Zenon DEF r
<1> QED BY <1>0, <1>1, <1>2, <1>3, Ends

LEMMA ReadDoubleForward ==
  ASSUME arch \in Wide \cup Narrow, NEW c \in CurSet
  PROVE  /\ Forward(c, ReadDouble(c).c) /\ Passed(ReadDouble(c).p, c, ReadDouble(c).c)
         /\ ReadDouble(c).c \in CurSet
         /\ ReadDouble(c).p.at \in Int /\ ReadDouble(c).p.len \in Int
<1> DEFINE r == ReadDouble(c)
<1>0. c.gp \in Int /\ c.st \in Nat /\ c.fp \in Int BY Zenon DEF CurSet
<1>1. CASE arch \in Wide /\ c.fp >= FpEnd
  <2>1. r = Result(Cursor(c.gp, c.fp, c.st + 8), Place("stack", c.st, 8))
    BY <1>1, <1>0, ReadDoubleWide, Zenon
  <2>2. r.c = Cursor(c.gp, c.fp, c.st + 8) /\ r.p = Place("stack", c.st, 8) BY <2>1, Records
  <2>3. r.c \in CurSet BY <2>2, <1>0, CursorType
  <2>4. /\ r.c.gp = c.gp /\ r.c.fp = c.fp /\ r.c.st = c.st + 8
        /\ r.p.area = "stack" /\ r.p.at = c.st /\ r.p.len = 8
    BY <2>2, Records
  <2> QED BY <2>3, <2>4, <1>0 DEF Forward, Passed
<1>2. CASE arch \in Wide /\ c.fp < FpEnd
  <2>1. r = Result(Cursor(c.gp, c.fp + 16, c.st), Place("fp", c.fp, 8))
    BY <1>2, <1>0, ReadDoubleWide, Zenon
  <2>2. r.c = Cursor(c.gp, c.fp + 16, c.st) /\ r.p = Place("fp", c.fp, 8) BY <2>1, Records
  <2>3. r.c \in CurSet BY <2>2, <1>0, CursorType
  <2>4. /\ r.c.gp = c.gp /\ r.c.fp = c.fp + 16 /\ r.c.st = c.st
        /\ r.p.area = "fp" /\ r.p.at = c.fp /\ r.p.len = 8
    BY <2>2, Records
  <2> QED BY <2>3, <2>4, <1>0 DEF Forward, Passed
<1>3. CASE arch \in Narrow
  <2>1. r = Read(c, 8) BY <1>3, Zenon DEF ReadDouble, Read, StdReadDouble, Narrow
  <2>2. 8 \in Nat \ {0} OBVIOUS
  <2> QED BY <2>1, <2>2, ReadForward, Zenon
<1> QED BY <1>0, <1>1, <1>2, <1>3, Ends

LEMMA ForwardTransitive ==
  ASSUME NEW c \in CurSet, NEW d \in CurSet, NEW e \in CurSet, Forward(c, d), Forward(d, e)
  PROVE  Forward(c, e)
<1>1. c.gp \in Int /\ d.gp \in Int /\ e.gp \in Int BY Zenon DEF CurSet
<1>2. c.fp \in Int /\ d.fp \in Int /\ e.fp \in Int BY Zenon DEF CurSet
<1>3. c.st \in Int /\ d.st \in Int /\ e.st \in Int BY DEF CurSet
<1> QED BY <1>1, <1>2, <1>3 DEF Forward

\* What was passed on the way from d to e was passed on a longer way.
LEMMA PassedOnTheWay ==
  ASSUME NEW c \in CurSet, NEW d \in CurSet, NEW e \in CurSet, NEW f \in CurSet,
         NEW p, p.at \in Int, p.len \in Int,
         Forward(c, d), Passed(p, d, e), Forward(e, f)
  PROVE  Passed(p, c, f)
<1>1. c.gp \in Int /\ d.gp \in Int /\ e.gp \in Int /\ f.gp \in Int BY Zenon DEF CurSet
<1>2. c.fp \in Int /\ d.fp \in Int /\ e.fp \in Int /\ f.fp \in Int BY Zenon DEF CurSet
<1>3. c.st \in Int /\ d.st \in Int /\ e.st \in Int /\ f.st \in Int BY DEF CurSet
<1>4. GpEnd \in Int BY Ends
<1> QED BY <1>1, <1>2, <1>3, <1>4 DEF Forward, Passed

LEMMA LaterForward ==
  ASSUME NEW c \in CurSet, NEW d, Later(c, d), d.fp = c.fp
  PROVE  Forward(c, d) /\ d \in CurSet
<1>1. c.fp \in Int BY Zenon DEF CurSet
<1> QED BY <1>1 DEF Later, Forward

\* One argument, of any kind that a single call of the list reads.
LEMMA OneForward ==
  ASSUME VaInv, arch # "none", NEW r, ExtractOne(r), r.c \in CurSet,
         r.p.at \in Int, r.p.len \in Int, Forward(cur, r.c), Passed(r.p, cur, r.c)
  PROVE  Forward(cur, cur') /\ \A i \in DOMAIN at' : Passed(at'[i], cur, cur')
<1>1. cur' = Aligned(r.c) /\ at' = <<r.p>> BY Zenon DEF ExtractOne
<1>2. Forward(r.c, cur') /\ cur' \in CurSet BY <1>1, Before, AlignedLater, LaterForward, Zenon
<1>3. Forward(cur, cur') BY <1>2, Before, ForwardTransitive, Zenon
<1>4. Forward(cur, cur) BY Before DEF Forward
<1>5. Passed(r.p, cur, cur') BY <1>2, <1>4, Before, PassedOnTheWay, Zenon
<1>6. \A i \in DOMAIN at' : at'[i] = r.p BY <1>1
<1> QED BY <1>3, <1>5, <1>6, Zenon

\* The two fields of a structure, and the padding.
LEMMA StructForward ==
  ASSUME VaInv, arch # "none", ExtractStruct
  PROVE  Forward(cur, cur') /\ \A i \in DOMAIN at' : Passed(at'[i], cur, cur')
<1> DEFINE x == Read(cur, 4)
           z == Skip(x.c, 4)
           y == Read(z, 8)
<1>0. arch \in Wide /\ 4 \in Nat \ {0} /\ 8 \in Nat \ {0} BY DEF ExtractStruct
<1>1. cur' = Aligned(y.c) /\ at' = <<x.p, y.p>> BY Zenon DEF ExtractStruct
<1>2. /\ Forward(cur, x.c) /\ Passed(x.p, cur, x.c) /\ x.c \in CurSet
      /\ x.p.at \in Int /\ x.p.len \in Int
  BY <1>0, Before, ReadForward, Zenon
<1>3. Start(x.c)
  <2>1. Later(cur, x.c) BY <1>0, Before, ReadInArea, Zenon
  <2> QED BY <2>1, Before, StartLater, Zenon
<1>4. Forward(x.c, z) /\ z \in CurSet
  <2>1. Later(x.c, z) /\ z.fp = x.c.fp BY <1>0, <1>3, SkipLater, Zenon
  <2> QED BY <1>2, <2>1, LaterForward, Zenon
<1>5. /\ Forward(z, y.c) /\ Passed(y.p, z, y.c) /\ y.c \in CurSet
      /\ y.p.at \in Int /\ y.p.len \in Int
  BY <1>0, <1>4, ReadForward, Zenon
<1>6. Forward(y.c, cur') /\ cur' \in CurSet
  BY <1>0, <1>1, <1>5, AlignedLater, LaterForward, Zenon
<1> HIDE DEF x, y, z
<1>7. Forward(cur, cur) BY Before DEF Forward
<1>8. Forward(x.c, cur') BY <1>2, <1>4, <1>5, <1>6, ForwardTransitive, Zenon
<1>9. Forward(cur, z) BY <1>2, <1>4, Before, ForwardTransitive, Zenon
<1>10. Passed(x.p, cur, cur') BY <1>2, <1>6, <1>7, <1>8, Before, PassedOnTheWay, Zenon
<1>11. Passed(y.p, cur, cur') BY <1>4, <1>5, <1>6, <1>9, Before, PassedOnTheWay, Zenon
<1>12. \A i \in DOMAIN at' : at'[i] \in {x.p, y.p} BY <1>1
<1>13. Forward(cur, cur') BY <1>2, <1>6, <1>8, Before, ForwardTransitive, Zenon
<1> QED BY <1>10, <1>11, <1>12, <1>13, Zenon

LEMMA ReadFailsForward ==
  ASSUME arch \in Wide \cup Narrow, NEW c \in CurSet, NEW n \in Nat \ {0}, ReadFails(c, n)
  PROVE  Forward(c, cur') /\ cur' \in CurSet
<1>1. cur' = Read(c, n).c \/ cur' = c BY Zenon DEF ReadFails
<1>2. c.gp \in Int /\ c.fp \in Int /\ c.st \in Nat BY Zenon DEF CurSet
<1>3. Forward(c, c) BY <1>2 DEF Forward
<1>4. Forward(c, Read(c, n).c) /\ Read(c, n).c \in CurSet BY ReadForward, Zenon
<1> QED BY <1>1, <1>3, <1>4, Zenon

\* A failed Extract goes forward too, or stays.
LEMMA FailsForward ==
  ASSUME VaInv, arch # "none", ExtractFails
  PROVE  Forward(cur, cur') /\ \A i \in DOMAIN at' : Passed(at'[i], cur, cur')
<1>1. at' = <<>> BY Zenon DEF ExtractFails
<1>2. Forward(cur, cur')
  <2>1. CASE \E n \in {1, 2, 4, 8} : ReadFails(cur, n) BY <2>1, Before, ReadFailsForward
  <2>2. CASE cur' = ReadDouble(cur).c BY <2>2, Before, ReadDoubleForward, Zenon
  <2>3. CASE arch \in Wide /\ ReadFails(cur, 16) BY <2>3, Before, ReadFailsForward
  <2>4. CASE arch \in Wide /\ ReadFails(Skip(Read(cur, 4).c, 4), 8)
    <3> DEFINE x == Read(cur, 4).c
               z == Skip(x, 4)
    <3>0. 4 \in Nat \ {0} /\ 8 \in Nat \ {0} OBVIOUS
    <3>1. Forward(cur, x) /\ x \in CurSet BY <3>0, Before, ReadForward, Zenon
    <3>2. Start(x)
      <4>1. Later(cur, x) BY <3>0, Before, ReadInArea, Zenon
      <4> QED BY <4>1, Before, StartLater, Zenon
    <3>3. Forward(x, z) /\ z \in CurSet
      <4>1. Later(x, z) /\ z.fp = x.fp BY <2>4, <3>0, <3>2, SkipLater, Zenon
      <4> QED BY <3>1, <4>1, LaterForward, Zenon
    <3>4. Forward(z, cur') /\ cur' \in CurSet BY <2>4, <3>0, <3>3, ReadFailsForward, Zenon
    <3>5. Forward(cur, z) BY <3>1, <3>3, Before, ForwardTransitive, Zenon
    <3> QED BY <3>3, <3>4, <3>5, Before, ForwardTransitive, Zenon
  <2>5. CASE UNCHANGED cur
    <3>1. Forward(cur, cur) BY Before DEF Forward
    <3> QED BY <2>5, <3>1, Zenon
  <2> QED BY <2>1, <2>2, <2>3, <2>4, <2>5, Zenon DEF ExtractFails
<1> QED BY <1>1, <1>2

\* A step of the list keeps the invariant and is a step of VaArgs, or none.
LEMMA VaStep ==
  ASSUME VaInv, ReadsInArea, [VaNext]_vaVars
  PROVE  VaInv' /\ ReadsInArea' /\ [Args!Next]_(Args!vars)
<1>1. CASE NewVaList BY <1>1, MakeStep, Zenon
<1>2. CASE Extract
  <2>1. arch # "none" /\ UNCHANGED arch BY <1>2, Zenon DEF Extract
  <2>2. CASE \E n \in {1, 2, 4, 8} : ExtractInt(n) BY <2>1, <2>2, IntStep, Zenon
  <2>3. CASE ExtractPointer BY <2>1, <2>3, PointerStep, Zenon
  <2>4. CASE ExtractReal BY <2>1, <2>4, RealStep, Zenon
  <2>5. CASE ExtractBlock BY <2>1, <2>5, BlockStep, Zenon
  <2>6. CASE ExtractStruct BY <2>1, <2>6, StructStep, Zenon
  <2>7. CASE ExtractFails BY <2>1, <2>7, FailsStep, Zenon
  <2> QED BY <1>2, <2>2, <2>3, <2>4, <2>5, <2>6, <2>7, Zenon DEF Extract
<1>3. CASE UNCHANGED vaVars
  <2>1. arch' = arch /\ cur' = cur /\ at' = at /\ lost' = lost BY <1>3, Zenon DEF vaVars
  <2>2. VaInv'
    BY <2>1, Zenon DEF VaInv, VaTypeOK, GpStart, GpEnd, FpEnd
  <2>3. ReadsInArea'
    BY <2>1 DEF ReadsInArea, GpStart, GpEnd, FpEnd
  <2>4. UNCHANGED Args!vars BY <2>1, Zenon DEF Args!vars, GpEnd, FpEnd
  <2> QED BY <2>2, <2>3, <2>4, Zenon
<1> QED BY <1>1, <1>2, <1>3, Zenon DEF VaNext

LEMMA VaStart ==
  ASSUME VaInit
  PROVE  VaInv /\ ReadsInArea /\ Args!Init
<1>1. arch = "none" /\ cur = Cursor(0, 0, 0) /\ at = <<>> /\ lost = FALSE BY Zenon DEF VaInit
<1>2. cur \in CurSet /\ cur.st = 0 BY <1>1, CursorType, Records
<1>3. VaInv BY <1>1, <1>2, Zenon DEF VaInv, VaTypeOK, CurSet, Arches, Wide, Narrow
<1>4. ReadsInArea BY <1>1 DEF ReadsInArea
<1>5. Args!Init BY <1>1, <1>2, Zenon DEF Args!Init, Wide
<1> QED BY <1>3, <1>4, <1>5, Zenon

\* The inductive invariant of the argument list, for every bound on the stack.
THEOREM ListInductive == VaSpec => [](VaInv /\ ReadsInArea)
<1> DEFINE I == VaInv /\ ReadsInArea
<1>1. VaInit => I BY VaStart, Zenon
<1>2. I /\ [VaNext]_vaVars => I' BY VaStep, Zenon
<1> QED BY <1>1, <1>2, PTL DEF VaSpec

\* Extract reads no argument beyond a register save area, whatever sequence of
\* successes and failures came before.
THEOREM ListInArea == VaSpec => []ReadsInArea
BY ListInductive, PTL

\* No byte of the list is part of two arguments: each Extract reads between where
\* it finds the cursors and where it leaves them, and they never go back, whatever
\* failures came before.
THEOREM ListForward == VaSpec => NoByteTwice
<1> DEFINE A == Forward(cur, cur') /\ \A i \in DOMAIN at' : Passed(at'[i], cur, cur')
<1>1. VaInv /\ [VaNext]_vaVars => [arch # "none" => A]_vaVars
  <2> SUFFICES ASSUME VaInv, Extract, arch # "none" PROVE A
    BY Zenon DEF VaNext, NewVaList
  <2>1. ASSUME NEW n \in Nat \ {0}, ExtractOne(Read(cur, n)) PROVE A
    BY <2>1, Before, ReadForward, OneForward, Zenon
  <2>2. CASE \E n \in {1, 2, 4, 8} : ExtractInt(n)
    BY <2>1, <2>2 DEF ExtractInt
  <2>3. CASE ExtractPointer
    <3>1. 4 \in Nat \ {0} /\ 8 \in Nat \ {0} OBVIOUS
    <3> QED BY <2>1, <2>3, <3>1, Zenon DEF ExtractPointer, ReadStream
  <2>4. CASE ExtractReal
    BY <2>4, Before, ReadDoubleForward, OneForward, Zenon DEF ExtractReal
  <2>5. CASE ExtractBlock
    <3>1. 16 \in Nat \ {0} OBVIOUS
    <3> QED BY <2>1, <2>5, <3>1, Zenon DEF ExtractBlock
  <2>6. CASE ExtractStruct BY <2>6, StructForward, Zenon
  <2>7. CASE ExtractFails BY <2>7, FailsForward, Zenon
  <2> QED BY <2>2, <2>3, <2>4, <2>5, <2>6, <2>7, Zenon DEF Extract
<1> QED BY <1>1, ListInductive, PTL DEF VaSpec, NoByteTwice

\* The va_list of gcc implements the reader that VaArgs promises: Extract takes
\* every argument from where the caller of the variadic function has put it.
THEOREM ListImplementsArgs == VaSpec => ReadsAsPlaced
<1>1. VaInit => Args!Init BY VaStart, Zenon
<1>2. VaInv /\ ReadsInArea /\ [VaNext]_vaVars => [Args!Next]_(Args!vars)
  BY VaStep, Zenon
<1> QED BY <1>1, <1>2, ListInductive, PTL DEF VaSpec, ReadsAsPlaced, Args!Spec

(***************************************************************************)
(* Sched                                                                   *)
(***************************************************************************)
\* Nothing is forked, listed or held when the kernel starts.
LEMMA InitInv == Init => IndInv
  BY SchedAssumption
     DEF Init, IndInv, TypeOK, CallerInv, TaskInv, TasksExact, Caller

\* TaskFork gives the new task a number that no open task has.
LEMMA CloneStep ==
  ASSUME IndInv, NEW c \in Caller, Clone(c)
  PROVE  IndInv'
<1> USE SchedAssumption DEF IndInv
<1>1. PICK k \in Task, p \in Pid, v \in BOOLEAN :
        /\ p \in FreePid
        /\ state[k] = "free"
        /\ state' = [state EXCEPT ![k] = "forked"]
        /\ id' = [id EXCEPT ![k] = p]
        /\ child' = [child EXCEPT ![c] = k]
        /\ vfork' = [vfork EXCEPT ![c] = v]
        /\ pc' = [pc EXCEPT ![c] = "prepare"]
  BY Zenon DEF Clone, FreePid
<1>2. \A j \in Task : id[j] = p => state[j] \in {"free", "closed"}
  BY <1>1, Zenon DEF FreePid
<1>3. /\ \A d \in Caller : child[d] # k
      /\ reaper[k] = "none"
  BY <1>1 DEF CallerInv, TaskInv, TypeOK
<1>4. TypeOK'
  BY <1>1, <1>2, Zenon DEF Clone, TypeOK, Caller
<1>5. CallerInv'
  BY <1>1, <1>3 DEF Clone, TypeOK, CallerInv, Caller
<1>6. TaskInv'
  BY <1>1, <1>2, <1>3 DEF Clone, TypeOK, CallerInv, TaskInv, Caller
<1>7. TasksExact'
  BY <1>1, <1>3 DEF Clone, TypeOK, TasksExact
<1> QED
  BY <1>4, <1>5, <1>6, <1>7, Zenon

\* An error return closes the task that only this call holds.
LEMMA CloneErrorStep ==
  ASSUME IndInv, NEW c \in Caller, CloneError(c)
  PROVE  IndInv'
<1> USE SchedAssumption DEF IndInv
<1>1. TypeOK'
  BY DEF CloneError, CloseTask, Return, TypeOK, CallerInv, TaskInv, Caller
<1>2. CallerInv'
  BY DEF CloneError, CloseTask, Return, TypeOK, CallerInv, TaskInv, Caller
<1>3. TaskInv'
  BY DEF CloneError, CloseTask, Return, TypeOK, CallerInv, TaskInv, Caller
<1>4. TasksExact'
  BY DEF CloneError, CloseTask, Return, TypeOK, CallerInv, TaskInv, TasksExact, Caller
<1> QED
  BY <1>1, <1>2, <1>3, <1>4, Zenon

\* The task starts; it is still held by the call.
LEMMA RunStep ==
  ASSUME IndInv, NEW c \in Caller, Run(c)
  PROVE  IndInv'
<1> USE SchedAssumption DEF IndInv
<1>1. TypeOK'
  BY Zenon DEF Run, TypeOK, CallerInv, TaskInv, Caller
<1>2. CallerInv'
  BY DEF Run, TypeOK, CallerInv, TaskInv, Caller
<1>3. TaskInv'
  BY DEF Run, TypeOK, CallerInv, TaskInv, Caller
<1>4. TasksExact'
  BY SMTT(20) DEF Run, TypeOK, CallerInv, TaskInv, TasksExact, Caller
<1> QED
  BY <1>1, <1>2, <1>3, <1>4, Zenon

\* Writing child_tid changes nothing the map depends on.
LEMMA WriteTidStep ==
  ASSUME IndInv, NEW c \in Caller, WriteTid(c)
  PROVE  IndInv'
<1> USE SchedAssumption DEF IndInv
<1>1. TypeOK'
  BY DEF WriteTid, TypeOK, CallerInv, TaskInv, Caller
<1>2. CallerInv'
  BY Zenon DEF WriteTid, TypeOK, CallerInv, TaskInv, Caller
<1>3. TaskInv'
  BY Zenon DEF WriteTid, TypeOK, CallerInv, TaskInv, Caller
<1>4. TasksExact'
  BY SMTT(20) DEF WriteTid, TypeOK, CallerInv, TaskInv, TasksExact, Caller
<1> QED
  BY <1>1, <1>2, <1>3, <1>4, Zenon

\* The waiting parent closes the task it holds, which has ended.
LEMMA WaitVforkStep ==
  ASSUME IndInv, NEW c \in Caller, WaitVfork(c)
  PROVE  IndInv'
<1> USE SchedAssumption DEF IndInv
<1>1. TypeOK'
  BY DEF WaitVfork, CloseTask, Return, TypeOK, CallerInv, TaskInv, Caller
<1>2. CallerInv'
  BY DEF WaitVfork, CloseTask, Return, TypeOK, CallerInv, TaskInv, Caller
<1>3. TaskInv'
  BY DEF WaitVfork, CloseTask, Return, TypeOK, CallerInv, TaskInv, Caller
<1>4. TasksExact'
  BY DEF WaitVfork, CloseTask, Return, TypeOK, CallerInv, TaskInv, TasksExact, Caller
<1> QED
  BY <1>1, <1>2, <1>3, <1>4, Zenon

\* The entry and the reaper come together: the task has a number of its own,
\* so no other entry is replaced.
LEMMA StoreStep ==
  ASSUME IndInv, NEW c \in Caller, Store(c)
  PROVE  IndInv'
<1> USE SchedAssumption DEF IndInv
<1>1. TypeOK'
  BY Zenon DEF Store, Return, TypeOK, CallerInv, TaskInv, Caller
<1>2. CallerInv'
  BY DEF Store, Return, TypeOK, CallerInv, TaskInv, Caller
<1>3. TaskInv'
  BY DEF Store, Return, TypeOK, CallerInv, TaskInv, Caller
<1>4. TasksExact'
  BY DEF Store, Return, TypeOK, CallerInv, TaskInv, TasksExact, Caller
<1> QED
  BY <1>1, <1>2, <1>3, <1>4, Zenon

\* A task that ends holds no task of its own.
LEMMA FinishStep ==
  ASSUME IndInv, NEW k \in Task, Finish(k)
  PROVE  IndInv'
<1> USE SchedAssumption DEF IndInv
<1>1. TypeOK'
  BY Zenon DEF Finish, TypeOK, CallerInv, TaskInv, Caller
<1>2. CallerInv'
  BY DEF Finish, TypeOK, CallerInv, TaskInv, Caller
<1>3. TaskInv'
  BY DEF Finish, TypeOK, CallerInv, TaskInv, Caller
<1>4. TasksExact'
  BY DEF Finish, TypeOK, CallerInv, TaskInv, TasksExact, Caller
<1> QED
  BY <1>1, <1>2, <1>3, <1>4, Zenon

\* The reaper removes its own entry: the number is still its task's.
LEMMA ReapDeleteStep ==
  ASSUME IndInv, NEW k \in Task, ReapDelete(k)
  PROVE  IndInv'
<1> USE SchedAssumption DEF IndInv
<1>1. TypeOK'
  BY Zenon DEF ReapDelete, TypeOK, CallerInv, TaskInv, Caller
<1>2. CallerInv'
  BY DEF ReapDelete, TypeOK, CallerInv, TaskInv, Caller
<1>3. TaskInv'
  BY DEF ReapDelete, TypeOK, CallerInv, TaskInv, Caller
<1>4. TasksExact'
  BY DEF ReapDelete, TypeOK, CallerInv, TaskInv, TasksExact, Caller
<1> QED
  BY <1>1, <1>2, <1>3, <1>4, Zenon

\* The reaper closes a task that has no entry any more.
LEMMA ReapCloseStep ==
  ASSUME IndInv, NEW k \in Task, ReapClose(k)
  PROVE  IndInv'
<1> USE SchedAssumption DEF IndInv
<1>1. TypeOK'
  BY DEF ReapClose, CloseTask, TypeOK, CallerInv, TaskInv, Caller
<1>2. CallerInv'
  BY DEF ReapClose, CloseTask, TypeOK, CallerInv, TaskInv, Caller
<1>3. TaskInv'
  BY DEF ReapClose, CloseTask, TypeOK, CallerInv, TaskInv, Caller
<1>4. TasksExact'
  BY DEF ReapClose, CloseTask, TypeOK, CallerInv, TaskInv, TasksExact, Caller
<1> QED
  BY <1>1, <1>2, <1>3, <1>4, Zenon

\* Every step keeps the inductive invariant.
LEMMA NextStep == IndInv /\ [Next]_vars => IndInv'
<1> SUFFICES ASSUME IndInv, [Next]_vars PROVE IndInv'
  BY Zenon
<1>1. CASE UNCHANGED vars
  BY <1>1 DEF vars, IndInv, TypeOK, CallerInv, TaskInv, TasksExact
<1>2. ASSUME NEW c \in Caller, Clone(c) \/ Step(c) PROVE IndInv'
  BY <1>2, CloneStep, CloneErrorStep, RunStep, WriteTidStep, WaitVforkStep, StoreStep, Zenon
     DEF Step
<1>3. ASSUME NEW k \in Task, Finish(k) \/ Reap(k) PROVE IndInv'
  BY <1>3, FinishStep, ReapDeleteStep, ReapCloseStep, Zenon DEF Reap
<1> QED
  BY <1>1, <1>2, <1>3, Zenon DEF Next

\* The inductive invariant, type correctness included, holds always.
THEOREM Inductive == Spec => []IndInv
<1> QED
  BY InitInv, NextStep, PTL DEF Spec

\* clone and the reapers keep sched.tasks exact, although task numbers are used
\* again: for any number of tasks and numbers.
THEOREM MapExact == Spec => []TasksExact
<1>1. IndInv => TasksExact
  BY Zenon DEF IndInv
<1> QED
  BY <1>1, Inductive, PTL

\* Close is called on a task at most once, and never while its guest code runs,
\* whichever of clone's error returns, the vfork parent and the reaper calls it.
THEOREM CloseOnce == Spec => ClosedOnce
<1> DEFINE A == \A k \in Task : closes'[k] # closes[k] =>
                   closes[k] = 0 /\ state[k] \in {"forked", "done"}
<1>1. IndInv /\ [Next]_vars => [A]_vars
  <2> SUFFICES ASSUME IndInv, Next PROVE A
    BY Zenon DEF vars
  <2>1. ASSUME NEW c \in Caller, Clone(c) \/ Step(c) PROVE A
    <3>1. CASE CloneError(c)
      BY <3>1 DEF CloneError, CloseTask, IndInv, CallerInv, TaskInv, TypeOK
    <3>2. CASE WaitVfork(c)
      BY <3>2 DEF WaitVfork, CloseTask, IndInv, TaskInv, TypeOK
    <3> QED
      BY <2>1, <3>1, <3>2, Zenon DEF Step, Clone, Run, WriteTid, Store
  <2>2. ASSUME NEW k \in Task, Finish(k) \/ Reap(k) PROVE A
    BY <2>2 DEF Finish, Reap, ReapDelete, ReapClose, CloseTask, IndInv, TaskInv, TypeOK
  <2> QED
    BY <2>1, <2>2, Zenon DEF Next
<1>2. ClosedOnce <=> [][A]_vars
  BY PTL DEF ClosedOnce
<1> QED
  BY <1>1, <1>2, Inductive, PTL DEF Spec
=============================================================================
