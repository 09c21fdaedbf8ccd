------------------------------- MODULE Sigmask -----------------------------
(***************************************************************************)
(* kernel/signal.go: the signal mask, one word for all threads.            *)
(*                                                                         *)
(* rt_sigprocmask writes the old mask to the guest, reads the new set from *)
(* the guest, and then changes the word: s.set |= value and                *)
(* s.set &^= value load it and store it, under no lock.                    *)
(***************************************************************************)
EXTENDS Signal

VARIABLES
  mask,       \* s.set
  req,        \* per caller: how, set and whether oldset is the same memory
  buf,        \* per caller: what is in memory at set
  loaded,     \* per caller: the mask before |= or &^=
  want,       \* history: the mask if every call were a step of its own
  raced,      \* history: signals that overlapping calls have left in doubt
  since       \* history: signals that other calls set after a caller loaded the mask

maskVars == <<mask, step, req, buf, loaded, want, raced, since>>

How == {"SIG_BLOCK", "SIG_UNBLOCK", "SIG_SETMASK", "other"}
Request(h, v, b) == [how |-> h, set |-> v, shared |-> b]

\* What a call keeps is forgotten when it returns.
MaskInit ==
  /\ mask = {} /\ want = {} /\ raced = {}
  /\ step = [t \in Caller |-> "guest"]
  /\ req = [t \in Caller |-> Request("other", {}, FALSE)]
  /\ buf = [t \in Caller |-> {}] /\ loaded = [t \in Caller |-> {}]
  /\ since = [t \in Caller |-> {}]

Return(t) ==
  /\ GoTo(t, "guest")
  /\ req' = [req EXCEPT ![t] = Request("other", {}, FALSE)]
  /\ buf' = [buf EXCEPT ![t] = {}] /\ loaded' = [loaded EXCEPT ![t] = {}]

Sigprocmask(t) ==
  /\ step[t] = "guest"
  /\ \E h \in How, v \in SUBSET Sig, b \in BOOLEAN :
       /\ req' = [req EXCEPT ![t] = Request(h, v, b)]
       /\ buf' = [buf EXCEPT ![t] = v]
       /\ \/ ~b /\ GoTo(t, "set")   \* oldset is null
          \/ GoTo(t, "oldset")
  /\ UNCHANGED <<mask, loaded, want, raced, since>>

\* The old mask is written before set is read, to the same memory perhaps.
Oldset(t) ==
  /\ step[t] = "oldset"
  /\ \/ /\ buf' = IF req[t].shared THEN [buf EXCEPT ![t] = mask] ELSE buf
        /\ GoTo(t, "set") /\ UNCHANGED <<req, loaded>>
     \/ Return(t)   \* EFAULT
  /\ UNCHANGED <<mask, want, raced, since>>

\* What a call makes of a mask.
Apply(h, m, v) ==
  IF h = "SIG_BLOCK" THEN m \cup v ELSE IF h = "SIG_UNBLOCK" THEN m \ v ELSE v

\* The signals whose bit a call decides.
Decides(r) == IF r.how = "SIG_SETMASK" \/ r.shared THEN Sig ELSE r.set

\* The call of t stores m: what it should have done, and whom it disturbs.
StoreMask(t, m) ==
  /\ mask' = m /\ want' = Apply(req[t].how, want, req[t].set)
  /\ raced' = IF req[t].shared THEN Sig
              ELSE IF req[t].how = "SIG_SETMASK" THEN {}
              ELSE (raced \cup since[t]) \ req[t].set
  /\ since' = [u \in Caller |-> IF u # t /\ step[u] = "store"
                                THEN since[u] \cup Decides(req[t]) ELSE {}]
  /\ Return(t)

\* set is read. With SIG_SETMASK the mask is stored at once, otherwise loaded; a
\* set that cannot be read is an EFAULT, and another how an EINVAL.
Set(t) ==
  /\ step[t] = "set"
  /\ \/ Return(t) /\ UNCHANGED <<mask, want, raced, since>>
     \/ req[t].how = "SIG_SETMASK" /\ StoreMask(t, buf[t])
     \/ /\ req[t].how \in {"SIG_BLOCK", "SIG_UNBLOCK"}
        /\ loaded' = [loaded EXCEPT ![t] = mask]
        /\ since' = [since EXCEPT ![t] = {}]
        /\ GoTo(t, "store") /\ UNCHANGED <<mask, req, buf, want, raced>>

\* Mutant of Store: SIG_UNBLOCK keeps only the signals that are in both (&=).
StoreAnd(t) ==
  /\ step[t] = "store"
  /\ StoreMask(t, IF req[t].how = "SIG_BLOCK" THEN loaded[t] \cup buf[t] ELSE loaded[t] \cap buf[t])

\* The second half of s.set |= value and s.set &^= value.
Store(t) ==
  /\ step[t] = "store"
  /\ StoreMask(t, Apply(req[t].how, loaded[t], buf[t]))

MaskNext ==
  \E t \in Caller : Sigprocmask(t) \/ Oldset(t) \/ Set(t) \/ Store(t)

MaskSpec == MaskInit /\ [][MaskNext]_maskVars

-----------------------------------------------------------------------------
(* Properties *)

\* The variables have their types.
MaskTypeOK ==
  /\ mask \subseteq Sig /\ want \subseteq Sig /\ raced \subseteq Sig
  /\ req \in [Caller -> [how : How, set : SUBSET Sig, shared : BOOLEAN]]
  /\ buf \in [Caller -> SUBSET Sig] /\ loaded \in [Caller -> SUBSET Sig]
  /\ since \in [Caller -> SUBSET Sig]
  /\ step \in [Caller -> {"guest", "oldset", "set", "store"}]

\* The mask has the bit of a signal as the calls on that signal have left it. In
\* doubt is only a signal that one call set while another was between loading and
\* storing the mask, or after a call with one buffer for both sets, until the
\* next undisturbed call on it: other signals are not harmed by an overlap.
MaskExact == \A s \in Sig \ raced : s \in mask <=> s \in want

\* The inductive invariant: a mask that was loaded is right for the signals that
\* nobody has set since.
MaskInv ==
  /\ MaskTypeOK /\ MaskExact
  /\ \A t \in Caller :
       /\ ~req[t].shared => buf[t] = req[t].set
       /\ step[t] = "store" =>
            /\ req[t].how \in {"SIG_BLOCK", "SIG_UNBLOCK"}
            /\ \A s \in Sig \ (raced \cup since[t]) : s \in loaded[t] <=> s \in want
=============================================================================
