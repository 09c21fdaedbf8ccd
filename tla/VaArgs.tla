------------------------------- MODULE VaArgs ------------------------------
(***************************************************************************)
(* What a reader of a C argument list promises: each argument is taken     *)
(* from where the caller of the variadic function has put it.              *)
(*                                                                         *)
(* On the 64-bit architectures the caller puts words into the general      *)
(* registers that the named parameters leave and then on the stack,        *)
(* floating point numbers into the vector registers and then on the same   *)
(* stack, and a structure of two words into registers only if both fit.    *)
(* On the 32-bit ones everything is on the stack, and on arm a             *)
(* value of eight bytes begins at a multiple of eight.                     *)
(*                                                                         *)
(* The promise ends (lost) with an argument that meets one of the corners  *)
(* named in Awkward, or with a read of the guest's memory that failed.     *)
(***************************************************************************)
EXTENDS Integers

VARIABLES
  arch,     \* the architecture, "none" before the list is made
  gp, fp,   \* general and vector registers that are left
  st,       \* how far the stack has been read, in bytes
  at,       \* where the last argument was read: areas, offsets and lengths
  lost

vars == <<arch, gp, fp, st, at, lost>>

Narrow == {"arm", "x86"}
Wide == {"arm64", "x86_64"}

Place(area, a, n) == [area |-> area, at |-> a, len |-> n]

\* The save areas: arm64 counts from the end of each, x86_64 from the start of
\* the area that holds both.
GpAt(g) == IF arch = "arm64" THEN -(8 * g) ELSE 48 - 8 * g
FpAt(f) == IF arch = "arm64" THEN -(16 * f) ELSE 176 - 16 * f

Init == arch = "none" /\ gp = 0 /\ fp = 0 /\ st = 0 /\ at = <<>> /\ lost = FALSE

\* The named parameters have taken some of the registers.
Make ==
  /\ arch = "none"
  /\ arch' \in Narrow \cup Wide /\ gp' \in 0..8 /\ fp' \in 0..8 /\ st' \in {0, 4}
  /\ UNCHANGED <<at, lost>>

\* A word of n bytes: an integer or a pointer.
Word(n) ==
  /\ n <= IF arch \in Wide THEN 8 ELSE 4
  /\ \/ /\ arch \in Wide /\ gp > 0
        /\ at' = <<Place("gp", GpAt(gp), n)>> /\ gp' = gp - 1 /\ st' = st
     \/ /\ arch \in Wide /\ gp = 0
        /\ at' = <<Place("stack", st, n)>> /\ gp' = gp /\ st' = st + 8
     \/ /\ arch \in Narrow
        /\ at' = <<Place("stack", st, n)>> /\ gp' = gp /\ st' = st + 4
  /\ UNCHANGED fp

\* A double, or a float, which the caller has made a double.
Real ==
  /\ arch \in Wide
  /\ \/ fp > 0 /\ at' = <<Place("fp", FpAt(fp), 8)>> /\ fp' = fp - 1 /\ st' = st
     \/ fp = 0 /\ at' = <<Place("stack", st, 8)>> /\ fp' = fp /\ st' = st + 8
  /\ UNCHANGED gp

\* Eight bytes on a 32-bit architecture.
Long ==
  /\ arch \in Narrow
  /\ LET a == IF arch = "arm" /\ st % 8 # 0 THEN st + 4 ELSE st IN
       at' = <<Place("stack", a, 8)>> /\ st' = a + 8
  /\ UNCHANGED <<gp, fp>>

\* A structure of two words, read as a whole or by its two fields.
Struct ==
  /\ arch \in Wide
  /\ LET InTwo(area, a) == \/ at' = <<Place(area, a, 16)>>
                           \/ at' = <<Place(area, a, 4), Place(area, a + 8, 8)>>
     IN \/ gp >= 2 /\ InTwo("gp", GpAt(gp)) /\ gp' = gp - 2 /\ st' = st
        \/ /\ gp < 2 /\ InTwo("stack", st) /\ st' = st + 16
           /\ gp' = IF arch = "arm64" THEN 0 ELSE gp
  /\ UNCHANGED fp

\* One register is left for two words, and the second comes from the stack; or
\* eight bytes do not begin at a multiple of eight. The caller has put the
\* argument elsewhere, and nothing is promised from here on.
Awkward ==
  \/ /\ arch \in Wide /\ gp = 1
     /\ \/ at' = <<Place("both", GpAt(gp), 16)>>
        \/ at' = <<Place("gp", GpAt(gp), 4), Place("stack", st, 8)>>
  \/ arch = "arm" /\ st % 8 # 0 /\ at' = <<Place("stack", st, 8)>>

\* The memory cannot be read, and the reader says so.
Error == at' = <<>>

Next ==
  \/ Make
  \/ /\ arch # "none" /\ UNCHANGED arch
     /\ \/ /\ ~lost /\ UNCHANGED lost
           /\ ((\E n \in 1..8 : Word(n)) \/ Real \/ Long \/ Struct)
        \/ lost' = TRUE /\ (lost \/ Awkward \/ Error)

Spec == Init /\ [][Next]_vars
=============================================================================
