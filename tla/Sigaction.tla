------------------------------ MODULE Sigaction ----------------------------
(***************************************************************************)
(* kernel/signal.go: the table of signal actions.                          *)
(*                                                                         *)
(* rt_sigaction swaps an entry of the table under the lock s.rw, which no  *)
(* defer releases.  dtor drops the table without the lock, and calls may   *)
(* be in progress (see Kernel).                                            *)
(***************************************************************************)
EXTENDS Signal

CONSTANTS
  Action,              \* objects that rt_sigaction may make with new(sigaction)
  NoAction

ASSUME SigactionAssumption == Sig # {} /\ NoAction \notin Action

VARIABLES
  life,       \* of the table, which dtor ends
  table,      \* s.table, NoAction where there is no key
  holder,     \* of s.rw
  sig, act,   \* per caller: signal and action
  old,        \* per caller: the entry that its lookup has found
  stored,     \* history: actions that have been in the table
  heirs       \* history: of an action, those that have replaced it

actVars == <<life, table, holder, step, sig, act, old, stored, heirs>>

\* ctor has made the table.
ActInit ==
  /\ life = "live" /\ table = [s \in Sig |-> NoAction] /\ holder = NoCaller
  /\ step = [t \in Caller |-> "guest"] /\ sig = [t \in Caller |-> CHOOSE s \in Sig : TRUE]
  /\ act = [t \in Caller |-> NoAction] /\ old = [t \in Caller |-> NoAction]
  /\ stored = {} /\ heirs = [a \in Action |-> {}]

\* dtor: s.table = nil, with no lock.
DropTable ==
  /\ life = "live" /\ life' = "dead"
  /\ table' = [s \in Sig |-> NoAction]
  /\ UNCHANGED <<holder, step, sig, act, old, stored, heirs>>

Made == stored \cup {act[t] : t \in Caller}

\* The action is read from the guest; if it cannot be, the call returns EFAULT
\* having changed nothing.
Sigaction(t) ==
  /\ step[t] = "guest"
  /\ \E s \in Sig, a \in Action \ Made :
       sig' = [sig EXCEPT ![t] = s] /\ act' = [act EXCEPT ![t] = a]
  /\ GoTo(t, "lock")
  /\ UNCHANGED <<life, table, holder, old, stored, heirs>>

\* Mutant of Lock: a read lock, which does not keep other callers out.
LockShared(t) ==
  /\ step[t] = "lock"
  /\ holder' = t /\ GoTo(t, "lookup")
  /\ UNCHANGED <<life, table, sig, act, old, stored, heirs>>

Lock(t) ==
  /\ step[t] = "lock" /\ holder = NoCaller
  /\ holder' = t /\ GoTo(t, "lookup")
  /\ UNCHANGED <<life, table, sig, act, old, stored, heirs>>

\* A lookup in the nil map finds nothing.
Lookup(t) ==
  /\ step[t] = "lookup"
  /\ old' = [old EXCEPT ![t] = table[sig[t]]]
  /\ GoTo(t, "assign")
  /\ UNCHANGED <<life, table, holder, sig, act, stored, heirs>>

\* The assignment to the nil map panics and the lock stays held.
Assign(t) ==
  /\ step[t] = "assign"
  /\ \/ /\ life = "dead"
        /\ GoTo(t, "panicked")
        /\ UNCHANGED <<table, stored, heirs>>
     \/ /\ life = "live"
        /\ table' = [table EXCEPT ![sig[t]] = act[t]]
        /\ stored' = stored \cup {act[t]}
        /\ heirs' = [a \in Action |-> heirs[a] \cup IF a = old[t] THEN {act[t]} ELSE {}]
        /\ GoTo(t, "unlock")
  /\ UNCHANGED <<life, holder, sig, act, old>>

\* Mutant of Unlock: an early return when there was no old action.
UnlockForgotten(t) ==
  /\ step[t] = "unlock"
  /\ holder' = IF old[t] = NoAction THEN holder ELSE NoCaller
  /\ act' = [act EXCEPT ![t] = NoAction]
  /\ GoTo(t, "guest")
  /\ UNCHANGED <<life, table, sig, old, stored, heirs>>

\* The lock is released; *old goes to the guest unless there is none or oldact is
\* null, and whether it can be written does not matter to the call.
Unlock(t) ==
  /\ step[t] = "unlock"
  /\ holder' = NoCaller
  /\ act' = [act EXCEPT ![t] = NoAction]
  /\ GoTo(t, "guest")
  /\ UNCHANGED <<life, table, sig, old, stored, heirs>>

-----------------------------------------------------------------------------

Handler(t) == Lookup(t) \/ Assign(t) \/ Unlock(t)

ActNext ==
  \/ DropTable
  \/ \E t \in Caller : Sigaction(t) \/ Lock(t) \/ Lookup(t) \/ Assign(t) \/ Unlock(t)

ActSpec == ActInit /\ [][ActNext]_actVars

\* Handlers run, and a sync.RWMutex is given to each waiter in turn.
ActFairSpec ==
  ActSpec /\ \A t \in Caller : WF_actVars(Handler(t)) /\ SF_actVars(Lock(t))

-----------------------------------------------------------------------------
(* Properties *)

\* The variables have their types.
ActTypeOK ==
  /\ life \in {"live", "dead"} /\ holder \in Caller \cup {NoCaller}
  /\ table \in [Sig -> Action \cup {NoAction}] /\ sig \in [Caller -> Sig]
  /\ act \in [Caller -> Action \cup {NoAction}] /\ old \in [Caller -> Action \cup {NoAction}]
  /\ stored \subseteq Action /\ heirs \in [Action -> SUBSET Action]
  /\ step \in [Caller -> {"guest", "lock", "lookup", "assign", "unlock", "panicked"}]

\* An action that was stored is in the table or has been handed as the old one to
\* exactly one call that replaced it, whatever calls overlap: none is lost, and
\* none is given back twice.
SwapExact ==
  \A a \in stored :
    /\ \A b, c \in heirs[a] : b = c
    /\ life = "live" => (heirs[a] = {} <=> \E s \in Sig : table[s] = a)

\* A caller that has returned or panicked holds the lock only after dtor: until
\* then every way out of rt_sigaction unlocks s.rw.
StuckOnlyAfterDtor ==
  \A t \in Caller : holder = t /\ step[t] \in {"panicked", "guest"} => life = "dead"

\* A call of rt_sigaction that waits for the lock gets it, and a call that has
\* begun ends, unless a panic has left the lock held.
CallEnds ==
  \A t \in Caller :
    step[t] \notin {"guest", "panicked"} ~>
      \/ step[t] \in {"guest", "panicked"}
      \/ \E u \in Caller : holder = u /\ step[u] = "panicked"

-----------------------------------------------------------------------------

\* The inductive invariant: the caller inside has the lock, what it found is still
\* the entry, and no object is in two places.
ActInv ==
  /\ ActTypeOK /\ SwapExact /\ StuckOnlyAfterDtor
  /\ life = "dead" => \A s \in Sig : table[s] = NoAction
  /\ \A s \in Sig : table[s] # NoAction =>
       table[s] \in stored /\ \A r \in Sig : table[r] = table[s] => r = s
  /\ \A a \in Action : a \notin stored => heirs[a] = {}
  /\ \A t \in Caller :
       /\ step[t] \in {"lookup", "assign", "unlock"} => holder = t
       /\ step[t] \in {"lock", "lookup", "assign"} => act[t] # NoAction /\ act[t] \notin stored
       /\ step[t] = "assign" /\ life # "dead" => old[t] = table[sig[t]]
       /\ \A u \in Caller : act[t] = act[u] /\ act[t] # NoAction => t = u
=============================================================================
