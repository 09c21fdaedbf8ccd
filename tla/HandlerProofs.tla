---------------------------- MODULE HandlerProofs ---------------------------
(***************************************************************************)
(* The theorems of four components whose handlers run step by step on      *)
(* state of their own: the signal mask (Sigmask), the table of signal      *)
(* actions (Sigaction), a pipe (Pipe) and the address space (Mman). Each   *)
(* has its inductive invariant and one lemma per kind of step.             *)
(***************************************************************************)
EXTENDS Sigaction, Sigmask, Pipe, Mman, TLAPS

(***************************************************************************)
(* Sigmask                                                                 *)
(***************************************************************************)
Requests == [how : How, set : SUBSET Sig, shared : BOOLEAN]

LEMMA RequestFacts ==
  /\ \A h \in How, v \in SUBSET Sig, b \in BOOLEAN :
       /\ Request(h, v, b) \in Requests
       /\ Request(h, v, b).how = h /\ Request(h, v, b).set = v /\ Request(h, v, b).shared = b
  /\ \A r \in Requests : r.how \in How /\ r.set \subseteq Sig /\ r.shared \in BOOLEAN
  BY Zenon DEF Request, Requests

\* A call applied to two masks gives the same for every signal that it decides, and
\* elsewhere what the masks were.
LEMMA ApplyFacts ==
  ASSUME NEW h \in How, NEW m \in SUBSET Sig, NEW v \in SUBSET Sig
  PROVE  /\ Apply(h, m, v) \subseteq Sig
         /\ h \in {"SIG_BLOCK", "SIG_UNBLOCK"} =>
              \A n \in SUBSET Sig, s \in Sig :
                (s \in v \/ (s \in m <=> s \in n)) =>
                  (s \in Apply(h, m, v) <=> s \in Apply(h, n, v))
         /\ h \in {"SIG_BLOCK", "SIG_UNBLOCK"} =>
              \A s \in Sig \ v : s \in Apply(h, m, v) <=> s \in m
         /\ h = "SIG_SETMASK" => Apply(h, m, v) = v
  BY Zenon DEF Apply, How

LEMMA ReturnFacts ==
  ASSUME MaskInv, NEW t \in Caller, Return(t)
  PROVE  /\ req' \in [Caller -> Requests] /\ buf' \in [Caller -> SUBSET Sig]
         /\ loaded' \in [Caller -> SUBSET Sig]
         /\ step' \in [Caller -> {"guest", "oldset", "set", "store"}]
         /\ step'[t] = "guest" /\ buf'[t] = {} /\ req'[t].set = {}
         /\ \A u \in Caller \ {t} : /\ step'[u] = step[u] /\ req'[u] = req[u]
                                    /\ buf'[u] = buf[u] /\ loaded'[u] = loaded[u]
<1>1. /\ req \in [Caller -> Requests] /\ buf \in [Caller -> SUBSET Sig]
      /\ loaded \in [Caller -> SUBSET Sig]
      /\ step \in [Caller -> {"guest", "oldset", "set", "store"}]
  BY Zenon DEF MaskInv, MaskTypeOK, Requests
<1>2. Request("other", {}, FALSE) \in Requests /\ Request("other", {}, FALSE).set = {}
  BY RequestFacts, Zenon DEF How
<1> QED BY <1>1, <1>2, Zenon DEF Return, GoTo

LEMMA MaskTypes ==
  ASSUME MaskInv
  PROVE  /\ mask \subseteq Sig /\ want \subseteq Sig /\ raced \subseteq Sig
         /\ req \in [Caller -> Requests] /\ buf \in [Caller -> SUBSET Sig]
         /\ loaded \in [Caller -> SUBSET Sig] /\ since \in [Caller -> SUBSET Sig]
         /\ step \in [Caller -> {"guest", "oldset", "set", "store"}]
         /\ \A t \in Caller : /\ req[t].how \in How /\ req[t].set \subseteq Sig
                              /\ req[t].shared \in BOOLEAN
  BY RequestFacts, Zenon DEF MaskInv, MaskTypeOK, Requests

\* What the invariant says of one caller.
CallerOK(t) ==
  /\ ~req[t].shared => buf[t] = req[t].set
  /\ step[t] = "store" =>
       /\ req[t].how \in {"SIG_BLOCK", "SIG_UNBLOCK"}
       /\ \A s \in Sig \ (raced \cup since[t]) : s \in loaded[t] <=> s \in want

\* A mask that is right wherever it should be, when the call of t has stored it.
LEMMA StoreKeeps ==
  ASSUME MaskInv, NEW t \in Caller, NEW m \in SUBSET Sig, StoreMask(t, m),
         step[t] \in {"set", "store"},
         req[t].how \in {"SIG_BLOCK", "SIG_UNBLOCK", "SIG_SETMASK"},
         \A s \in Sig : s \notin raced' => (s \in m <=> s \in want')
  PROVE  MaskInv'
<1>1. /\ mask' = m /\ want' = Apply(req[t].how, want, req[t].set)
      /\ raced' = IF req[t].shared THEN Sig
                  ELSE IF req[t].how = "SIG_SETMASK" THEN {}
                  ELSE (raced \cup since[t]) \ req[t].set
      /\ since' = [u \in Caller |-> IF u # t /\ step[u] = "store"
                                    THEN since[u] \cup Decides(req[t]) ELSE {}]
      /\ Return(t)
  BY Zenon DEF StoreMask
<1>2. Decides(req[t]) \subseteq Sig BY MaskTypes, Zenon DEF Decides
<1>3. want' \subseteq Sig BY <1>1, MaskTypes, ApplyFacts
<1>4. raced' \subseteq Sig /\ since' \in [Caller -> SUBSET Sig] BY <1>1, <1>2, MaskTypes, Zenon
<1>5. MaskTypeOK' BY <1>1, <1>3, <1>4, ReturnFacts, Zenon DEF MaskTypeOK, Requests
<1>6. MaskExact' BY <1>1, Zenon DEF MaskExact
<1>7. ASSUME NEW u \in Caller PROVE CallerOK(u)'
  <2>1. CASE u = t
    BY <1>1, <2>1, ReturnFacts, Zenon DEF CallerOK
  <2>2. CASE u # t /\ step[u] # "store"
    <3>1. step'[u] = step[u] /\ req'[u] = req[u] /\ buf'[u] = buf[u] BY <1>1, <2>2, ReturnFacts, Zenon
    <3> QED BY <2>2, <3>1, Zenon DEF CallerOK, MaskInv
  <2>3. CASE u # t /\ step[u] = "store"
    <3>1. /\ step'[u] = step[u] /\ req'[u] = req[u] /\ buf'[u] = buf[u]
          /\ loaded'[u] = loaded[u]
      BY <1>1, <2>3, ReturnFacts, Zenon
    <3>2. since'[u] = since[u] \cup Decides(req[t]) BY <1>1, <2>3, Zenon
    <3>3. ASSUME NEW s \in Sig, s \notin raced', s \notin since'[u]
          PROVE  s \in loaded[u] <=> s \in want'
      <4>1. s \notin since[u] /\ s \notin Decides(req[t]) BY <3>2, <3>3, Zenon
      <4>2. ~req[t].shared /\ req[t].how # "SIG_SETMASK" /\ s \notin req[t].set
        BY <4>1, Zenon DEF Decides
      <4>3. s \notin raced BY <1>1, <3>3, <4>2, Zenon
      <4>4. s \in loaded[u] <=> s \in want BY <2>3, <4>1, <4>3, Zenon DEF MaskInv
      <4>5. s \in want' <=> s \in want BY <1>1, <4>2, MaskTypes, ApplyFacts
      <4> QED BY <4>4, <4>5, Zenon
    <3> QED BY <2>3, <3>1, <3>3, Zenon DEF CallerOK, MaskInv
  <2> QED BY <2>1, <2>2, <2>3, Zenon
<1> QED BY <1>5, <1>6, <1>7, Zenon DEF MaskInv, CallerOK

\* A step that stores no mask disturbs its own caller at most.
LEMMA QuietKeeps ==
  ASSUME MaskInv, NEW t \in Caller, UNCHANGED <<mask, want, raced>>, MaskTypeOK',
         \A u \in Caller \ {t} : /\ step'[u] = step[u] /\ req'[u] = req[u]
                                 /\ buf'[u] = buf[u] /\ loaded'[u] = loaded[u]
                                 /\ since'[u] = since[u],
         CallerOK(t)'
  PROVE  MaskInv'
<1>1. MaskExact' BY Zenon DEF MaskExact, MaskInv
<1>2. ASSUME NEW u \in Caller PROVE CallerOK(u)'
  <2>1. CASE u # t BY <2>1, Zenon DEF CallerOK, MaskInv
  <2> QED BY <2>1, Zenon
<1> QED BY <1>1, <1>2, Zenon DEF MaskInv, CallerOK

LEMMA ReturnKeeps ==
  ASSUME MaskInv, NEW t \in Caller, Return(t), UNCHANGED <<mask, want, raced, since>>
  PROVE  MaskInv'
<1>1. MaskTypeOK' BY MaskTypes, ReturnFacts, Zenon DEF MaskTypeOK, Requests
<1>2. CallerOK(t)' BY ReturnFacts, Zenon DEF CallerOK
<1>3. \A u \in Caller \ {t} : /\ step'[u] = step[u] /\ req'[u] = req[u]
                              /\ buf'[u] = buf[u] /\ loaded'[u] = loaded[u]
                              /\ since'[u] = since[u]
  BY ReturnFacts, Zenon
<1> QED BY <1>1, <1>2, <1>3, QuietKeeps, Zenon

LEMMA MaskStep ==
  ASSUME MaskInv, [MaskNext]_maskVars
  PROVE  MaskInv'
<1>1. ASSUME NEW t \in Caller, Sigprocmask(t) PROVE MaskInv'
  <2>1. PICK h \in How, v \in SUBSET Sig, b \in BOOLEAN :
          /\ req' = [req EXCEPT ![t] = Request(h, v, b)]
          /\ buf' = [buf EXCEPT ![t] = v]
          /\ GoTo(t, "set") \/ GoTo(t, "oldset")
    BY <1>1, Zenon DEF Sigprocmask
  <2>2. UNCHANGED <<mask, loaded, want, raced, since>> BY <1>1, Zenon DEF Sigprocmask
  <2>3. Request(h, v, b) \in Requests /\ Request(h, v, b).set = v BY RequestFacts
  <2>4. /\ req' \in [Caller -> Requests] /\ buf' \in [Caller -> SUBSET Sig]
        /\ step' \in [Caller -> {"guest", "oldset", "set", "store"}]
        /\ step'[t] # "store" /\ buf'[t] = req'[t].set
        /\ \A u \in Caller \ {t} : step'[u] = step[u] /\ req'[u] = req[u] /\ buf'[u] = buf[u]
    BY <2>1, <2>3, MaskTypes, Zenon DEF GoTo
  <2>5. MaskTypeOK' BY <2>2, <2>4, MaskTypes, Zenon DEF MaskTypeOK, Requests
  <2>6. CallerOK(t)' BY <2>4, Zenon DEF CallerOK
  <2> QED BY <2>2, <2>4, <2>5, <2>6, QuietKeeps, Zenon
<1>2. ASSUME NEW t \in Caller, Oldset(t) PROVE MaskInv'
  <2>1. CASE Return(t) BY <1>2, <2>1, ReturnKeeps, Zenon DEF Oldset
  <2>2. CASE ~Return(t)
    <3>1. /\ buf' = IF req[t].shared THEN [buf EXCEPT ![t] = mask] ELSE buf
          /\ GoTo(t, "set") /\ UNCHANGED <<req, loaded, mask, want, raced, since>>
      BY <1>2, <2>2, Zenon DEF Oldset
    <3>2. /\ buf' \in [Caller -> SUBSET Sig] /\ (~req[t].shared => buf' = buf)
          /\ step' \in [Caller -> {"guest", "oldset", "set", "store"}] /\ step'[t] = "set"
          /\ \A u \in Caller \ {t} : step'[u] = step[u] /\ buf'[u] = buf[u]
      BY <3>1, MaskTypes, Zenon DEF GoTo
    <3>3. MaskTypeOK' BY <3>1, <3>2, MaskTypes, Zenon DEF MaskTypeOK, Requests
    <3>4. CallerOK(t)' BY <3>1, <3>2, Zenon DEF CallerOK, MaskInv
    <3> QED BY <3>1, <3>2, <3>3, <3>4, QuietKeeps, Zenon
  <2> QED BY <2>1, <2>2, Zenon
<1>3. ASSUME NEW t \in Caller, Set(t) PROVE MaskInv'
  <2>0. step[t] = "set" BY <1>3, Zenon DEF Set
  <2>1. CASE Return(t) /\ UNCHANGED <<mask, want, raced, since>> BY <2>1, ReturnKeeps, Zenon
  <2>2. CASE req[t].how = "SIG_SETMASK" /\ StoreMask(t, buf[t])
    <3>1. /\ raced' = IF req[t].shared THEN Sig ELSE {}
          /\ want' = req[t].set
      BY <2>2, Zenon DEF StoreMask, Apply
    <3>2. \A s \in Sig : s \notin raced' => (s \in buf[t] <=> s \in want')
      BY <3>1, Zenon DEF MaskInv
    <3>3. buf[t] \in SUBSET Sig BY MaskTypes, Zenon
    <3> QED BY <2>0, <2>2, <3>2, <3>3, StoreKeeps, Zenon
  <2>3. CASE /\ req[t].how \in {"SIG_BLOCK", "SIG_UNBLOCK"}
             /\ loaded' = [loaded EXCEPT ![t] = mask]
             /\ since' = [since EXCEPT ![t] = {}]
             /\ GoTo(t, "store") /\ UNCHANGED <<mask, req, buf, want, raced>>
    <3>1. /\ loaded' \in [Caller -> SUBSET Sig] /\ since' \in [Caller -> SUBSET Sig]
          /\ step' \in [Caller -> {"guest", "oldset", "set", "store"}]
          /\ loaded'[t] = mask /\ since'[t] = {}
          /\ \A u \in Caller \ {t} : /\ step'[u] = step[u] /\ loaded'[u] = loaded[u]
                                     /\ since'[u] = since[u]
      BY <2>3, MaskTypes, Zenon DEF GoTo
    <3>2. MaskTypeOK' BY <2>3, <3>1, MaskTypes, Zenon DEF MaskTypeOK, Requests
    <3>3. CallerOK(t)' BY <2>3, <3>1, Zenon DEF CallerOK, MaskInv, MaskExact
    <3> QED BY <2>3, <3>1, <3>2, <3>3, QuietKeeps, Zenon
  <2> QED BY <1>3, <2>1, <2>2, <2>3, Zenon DEF Set
<1>4. ASSUME NEW t \in Caller, Store(t) PROVE MaskInv'
  <2> DEFINE m == Apply(req[t].how, loaded[t], buf[t])
  <2>1. step[t] = "store" /\ StoreMask(t, m) BY <1>4, Zenon DEF Store
  <2>2. /\ req[t].how \in {"SIG_BLOCK", "SIG_UNBLOCK"}
        /\ \A s \in Sig \ (raced \cup since[t]) : s \in loaded[t] <=> s \in want
    BY <2>1, Zenon DEF MaskInv
  <2>3. m \in SUBSET Sig BY MaskTypes, ApplyFacts
  <2>4. ASSUME NEW s \in Sig, s \notin raced' PROVE s \in m <=> s \in want'
    <3>1. /\ raced' = IF req[t].shared THEN Sig ELSE (raced \cup since[t]) \ req[t].set
          /\ want' = Apply(req[t].how, want, req[t].set)
      BY <2>1, <2>2, Zenon DEF StoreMask
    <3>2. ~req[t].shared /\ buf[t] = req[t].set BY <2>4, <3>1, Zenon DEF MaskInv
    <3>3. s \in req[t].set \/ (s \in loaded[t] <=> s \in want) BY <2>2, <2>4, <3>1, <3>2, Zenon
    <3> QED BY <2>2, <3>1, <3>2, <3>3, MaskTypes, ApplyFacts
  <2> QED BY <2>1, <2>2, <2>3, <2>4, StoreKeeps, Zenon
<1>5. CASE UNCHANGED maskVars
  BY <1>5, Zenon DEF MaskInv, MaskTypeOK, MaskExact, maskVars
<1> QED BY <1>1, <1>2, <1>3, <1>4, <1>5, Zenon DEF MaskNext

\* Whatever the number of callers and signals, a signal that no overlap has put in
\* doubt is blocked exactly if the calls of rt_sigprocmask on it say so.
THEOREM MaskRight == MaskSpec => []MaskExact
<1>1. MaskInit => MaskInv
  <2> SUFFICES ASSUME MaskInit PROVE MaskInv BY Zenon
  <2>1. Request("other", {}, FALSE) \in Requests /\ Request("other", {}, FALSE).set = {}
    BY RequestFacts, Zenon DEF How
  <2> QED BY <2>1, Zenon DEF MaskInit, MaskInv, MaskTypeOK, MaskExact, Requests
<1>2. MaskInv /\ [MaskNext]_maskVars => MaskInv' BY MaskStep, Zenon
<1>3. MaskInv => MaskExact BY Zenon DEF MaskInv
<1> QED BY <1>1, <1>2, <1>3, PTL DEF MaskSpec

(***************************************************************************)
(* Sigaction                                                               *)
(***************************************************************************)
\* What the invariant says of the entries, of the actions and of one caller.
EntriesOK ==
  /\ life = "dead" => \A s \in Sig : table[s] = NoAction
  /\ \A s \in Sig : table[s] # NoAction =>
       table[s] \in stored /\ \A r \in Sig : table[r] = table[s] => r = s

ActionsOK == \A a \in Action : a \notin stored => heirs[a] = {}

CallOK(t) ==
  /\ step[t] \in {"lookup", "assign", "unlock"} => holder = t
  /\ step[t] \in {"lock", "lookup", "assign"} => act[t] # NoAction /\ act[t] \notin stored
  /\ step[t] = "assign" /\ life # "dead" => old[t] = table[sig[t]]
  /\ \A u \in Caller : act[t] = act[u] /\ act[t] # NoAction => t = u

LEMMA ActParts ==
  ActInv <=> /\ ActTypeOK /\ SwapExact /\ StuckOnlyAfterDtor /\ EntriesOK /\ ActionsOK
             /\ \A t \in Caller : CallOK(t)
  BY Zenon DEF ActInv, EntriesOK, ActionsOK, CallOK

LEMMA TableKeeps ==
  ASSUME ActInv, DropTable
  PROVE  ActInv'
<1>0. /\ ActTypeOK /\ SwapExact /\ StuckOnlyAfterDtor /\ EntriesOK /\ ActionsOK
      /\ \A t \in Caller : CallOK(t)
  BY ActParts, Zenon
<1>1. /\ table' = [s \in Sig |-> NoAction]
      /\ life = "live" /\ life' = "dead"
      /\ UNCHANGED <<holder, step, sig, act, old, stored, heirs>>
  BY Zenon DEF DropTable
<1>2. ActTypeOK' BY <1>0, <1>1, Zenon DEF ActTypeOK
<1>3. SwapExact' BY <1>0, <1>1, Zenon DEF SwapExact, EntriesOK
<1>4. StuckOnlyAfterDtor' BY <1>0, <1>1, Zenon DEF StuckOnlyAfterDtor
<1>5. EntriesOK' /\ ActionsOK' BY <1>0, <1>1, Zenon DEF EntriesOK, ActionsOK
<1>6. ASSUME NEW t \in Caller PROVE CallOK(t)' BY <1>0, <1>1, Zenon DEF CallOK
<1> QED BY <1>2, <1>3, <1>4, <1>5, <1>6, Zenon DEF ActInv, EntriesOK, ActionsOK, CallOK

LEMMA CallKeeps ==
  ASSUME ActInv, NEW t \in Caller, Sigaction(t)
  PROVE  ActInv'
<1>0. /\ ActTypeOK /\ SwapExact /\ StuckOnlyAfterDtor /\ EntriesOK /\ ActionsOK
      /\ \A u \in Caller : CallOK(u)
  BY ActParts, Zenon
<1>1. PICK s \in Sig, a \in Action \ Made :
        sig' = [sig EXCEPT ![t] = s] /\ act' = [act EXCEPT ![t] = a]
  BY Zenon DEF Sigaction
<1>2. /\ step[t] = "guest" /\ step' = [step EXCEPT ![t] = "lock"]
      /\ UNCHANGED <<life, table, holder, old, stored, heirs>>
  BY Zenon DEF Sigaction, GoTo
<1>3. a # NoAction /\ a \notin stored /\ \A u \in Caller : a # act[u]
  BY SigactionAssumption, Zenon DEF Made
<1>4. ActTypeOK' BY <1>0, <1>1, <1>2, Zenon DEF ActTypeOK
<1>5. SwapExact' /\ EntriesOK' /\ ActionsOK' BY <1>0, <1>2 DEF SwapExact, EntriesOK, ActionsOK
<1>6. StuckOnlyAfterDtor'
  <2>1. \A u \in Caller \ {t} : step'[u] = step[u]
    BY <1>0, <1>2, Zenon DEF ActTypeOK
  <2>2. step'[t] = "lock" BY <1>0, <1>2, Zenon DEF ActTypeOK
  <2> QED BY <1>0, <1>2, <2>1, <2>2, Zenon DEF StuckOnlyAfterDtor
<1>7. ASSUME NEW u \in Caller PROVE CallOK(u)'
  <2>1. CASE u = t
    <3>1. step'[t] = "lock" /\ act'[t] = a BY <1>0, <1>1, <1>2, Zenon DEF ActTypeOK
    <3>2. \A w \in Caller : w # t => act'[w] = act[w] BY <1>0, <1>1, Zenon DEF ActTypeOK
    <3> QED BY <1>2, <1>3, <2>1, <3>1, <3>2, Zenon DEF CallOK
  <2>2. CASE u # t
    <3>1. step'[u] = step[u] /\ act'[u] = act[u] /\ sig'[u] = sig[u]
      BY <1>0, <1>1, <1>2, <2>2, Zenon DEF ActTypeOK
    <3>2. \A w \in Caller : act'[w] = act[w] \/ (w = t /\ act'[w] = a)
      BY <1>0, <1>1, Zenon DEF ActTypeOK
    <3> QED BY <1>0, <1>2, <1>3, <2>2, <3>1, <3>2, Zenon DEF CallOK
  <2> QED BY <2>1, <2>2, Zenon
<1> QED BY <1>4, <1>5, <1>6, <1>7, Zenon DEF ActInv, EntriesOK, ActionsOK, CallOK

\* Steps that leave the table and the actions alone.
LEMMA LockKeeps ==
  ASSUME ActInv, NEW t \in Caller, Lock(t) \/ Lookup(t) \/ Unlock(t)
  PROVE  ActInv'
<1>0. /\ ActTypeOK /\ SwapExact /\ StuckOnlyAfterDtor /\ EntriesOK /\ ActionsOK
      /\ \A u \in Caller : CallOK(u)
  BY ActParts, Zenon
<1>1. UNCHANGED <<life, table, sig, stored, heirs>> BY Zenon DEF Lock, Lookup, Unlock
<1>2. SwapExact' /\ EntriesOK' /\ ActionsOK' BY <1>0, <1>1, Zenon DEF SwapExact, EntriesOK, ActionsOK
<1>3. CASE Lock(t)
  <2>1. /\ step[t] = "lock" /\ holder = NoCaller /\ holder' = t
        /\ step' = [step EXCEPT ![t] = "lookup"] /\ UNCHANGED <<act, old>>
    BY <1>3, Zenon DEF Lock, GoTo
  <2>2. ActTypeOK' BY <1>0, <1>1, <2>1, Zenon DEF ActTypeOK
  <2>3. /\ step'[t] = "lookup" /\ \A u \in Caller \ {t} : step'[u] = step[u]
    BY <1>0, <2>1, Zenon DEF ActTypeOK
  <2>4. StuckOnlyAfterDtor' BY <2>1, <2>3, Zenon DEF StuckOnlyAfterDtor
  <2>5. ASSUME NEW u \in Caller PROVE CallOK(u)'
    BY <1>0, <1>1, <2>1, <2>3, CallersAssumption DEF CallOK
  <2> QED BY <1>2, <2>2, <2>4, <2>5, Zenon DEF ActInv, EntriesOK, ActionsOK, CallOK
<1>4. CASE Lookup(t)
  <2>1. /\ step[t] = "lookup" /\ old' = [old EXCEPT ![t] = table[sig[t]]]
        /\ step' = [step EXCEPT ![t] = "assign"] /\ UNCHANGED <<act, holder>>
    BY <1>4, Zenon DEF Lookup, GoTo
  <2>2. ActTypeOK' BY <1>0, <1>1, <2>1, Zenon DEF ActTypeOK
  <2>3. /\ step'[t] = "assign" /\ old'[t] = table[sig[t]]
        /\ \A u \in Caller \ {t} : step'[u] = step[u] /\ old'[u] = old[u]
    BY <1>0, <2>1, Zenon DEF ActTypeOK
  <2>4. StuckOnlyAfterDtor' BY <1>0, <1>1, <2>1, <2>3, Zenon DEF StuckOnlyAfterDtor
  <2>5. ASSUME NEW u \in Caller PROVE CallOK(u)' BY <1>0, <1>1, <2>1, <2>3, Zenon DEF CallOK
  <2> QED BY <1>2, <2>2, <2>4, <2>5, Zenon DEF ActInv, EntriesOK, ActionsOK, CallOK
<1>5. CASE Unlock(t)
  <2>1. /\ step[t] = "unlock" /\ holder' = NoCaller /\ act' = [act EXCEPT ![t] = NoAction]
        /\ step' = [step EXCEPT ![t] = "guest"] /\ UNCHANGED old
    BY <1>5, Zenon DEF Unlock, GoTo
  <2>2. ActTypeOK' BY <1>0, <1>1, <2>1, Zenon DEF ActTypeOK
  <2>3. /\ step'[t] = "guest" /\ act'[t] = NoAction
        /\ \A u \in Caller \ {t} : step'[u] = step[u] /\ act'[u] = act[u]
    BY <1>0, <2>1, Zenon DEF ActTypeOK
  <2>4. StuckOnlyAfterDtor' BY <2>1, CallersAssumption DEF StuckOnlyAfterDtor
  <2>5. holder = t BY <1>0, <2>1, Zenon DEF CallOK
  <2>6. ASSUME NEW u \in Caller PROVE CallOK(u)' BY <1>0, <1>1, <2>1, <2>3, <2>5 DEF CallOK
  <2> QED BY <1>2, <2>2, <2>4, <2>6, Zenon DEF ActInv, EntriesOK, ActionsOK, CallOK
<1> QED BY <1>3, <1>4, <1>5, Zenon

\* The entry is replaced: what the lookup has found becomes the old action of this
\* call alone.
LEMMA AssignKeeps ==
  ASSUME ActInv, NEW t \in Caller, Assign(t)
  PROVE  ActInv'
<1>0. /\ ActTypeOK /\ SwapExact /\ StuckOnlyAfterDtor /\ EntriesOK /\ ActionsOK
      /\ \A u \in Caller : CallOK(u)
  BY ActParts, Zenon
<1>1. step[t] = "assign" /\ UNCHANGED <<life, holder, sig, act, old>> BY Zenon DEF Assign
<1>2. holder = t /\ act[t] # NoAction /\ act[t] \notin stored BY <1>0, <1>1, Zenon DEF CallOK
<1>3. sig[t] \in Sig /\ act[t] \in Action BY <1>0, <1>2, Zenon DEF ActTypeOK
<1>4. CASE life = "dead"
  <2>1. step' = [step EXCEPT ![t] = "panicked"] /\ UNCHANGED <<table, stored, heirs>>
    BY <1>4, Zenon DEF Assign, GoTo
  <2>2. ActTypeOK' BY <1>0, <1>1, <2>1, Zenon DEF ActTypeOK
  <2>3. SwapExact' /\ EntriesOK' /\ ActionsOK'
    BY <1>0, <1>1, <2>1, Zenon DEF SwapExact, EntriesOK, ActionsOK
  <2>4. /\ step'[t] = "panicked" /\ \A u \in Caller \ {t} : step'[u] = step[u]
    BY <1>0, <2>1, Zenon DEF ActTypeOK
  <2>5. StuckOnlyAfterDtor' BY <1>1, <1>4, Zenon DEF StuckOnlyAfterDtor
  <2>6. ASSUME NEW u \in Caller PROVE CallOK(u)' BY <1>0, <1>1, <2>1, <2>4, Zenon DEF CallOK
  <2> QED BY <2>2, <2>3, <2>5, <2>6, Zenon DEF ActInv, EntriesOK, ActionsOK, CallOK
<1>5. CASE life = "live"
  <2>1. /\ table' = [table EXCEPT ![sig[t]] = act[t]]
        /\ stored' = stored \cup {act[t]}
        /\ heirs' = [a \in Action |-> heirs[a] \cup IF a = old[t] THEN {act[t]} ELSE {}]
        /\ step' = [step EXCEPT ![t] = "unlock"]
    BY <1>5, Zenon DEF Assign, GoTo
  <2>2. ActTypeOK' BY <1>0, <1>1, <1>3, <2>1, Zenon DEF ActTypeOK
  <2>3. /\ step'[t] = "unlock" /\ \A u \in Caller \ {t} : step'[u] = step[u]
    BY <1>0, <2>1, Zenon DEF ActTypeOK
  <2>4. old[t] = table[sig[t]] BY <1>0, <1>1, <1>5, Zenon DEF CallOK
  <2>5. table'[sig[t]] = act[t] /\ \A s \in Sig : s # sig[t] => table'[s] = table[s]
    BY <1>0, <1>3, <2>1, Zenon DEF ActTypeOK
  <2>6. \A s \in Sig : table[s] # act[t] BY <1>0, <1>2, Zenon DEF EntriesOK
  <2>7. heirs[act[t]] = {} BY <1>0, <1>2, <1>3, Zenon DEF ActionsOK
  <2>8. SwapExact'
    <3>1. ASSUME NEW a \in stored'
          PROVE  /\ \A b, c \in heirs'[a] : b = c
                 /\ heirs'[a] = {} <=> \E s \in Sig : table'[s] = a
      <4>0. a \in Action BY <1>0, <1>3, <2>1, Zenon DEF ActTypeOK
      <4>1. CASE a = act[t]
        <5>1. a # old[t] BY <1>3, <2>4, <2>6, <4>1, Zenon
        <5>2. heirs'[a] = {} BY <2>1, <2>7, <4>0, <4>1, <5>1, Zenon
        <5> QED BY <1>3, <2>5, <4>1, <5>2, Zenon
      <4>2. CASE a # act[t] /\ a = old[t]
        <5>1. a \in stored BY <2>1, <4>2, Zenon
        <5>2. heirs[a] = {} BY <1>0, <1>3, <1>5, <2>4, <4>2, <5>1, Zenon DEF SwapExact
        <5>3. heirs'[a] = {act[t]} BY <2>1, <4>0, <4>2, <5>2, Zenon
        <5>4. a # NoAction BY <4>0, SigactionAssumption, Zenon
        <5>5. \A s \in Sig : table[s] = a => s = sig[t]
          BY <1>0, <1>3, <2>4, <4>2, <5>4, Zenon DEF EntriesOK
        <5>6. \A s \in Sig : table'[s] # a BY <2>5, <4>2, <5>5, Zenon
        <5> QED BY <5>3, <5>6, Zenon
      <4>3. CASE a # act[t] /\ a # old[t]
        <5>1. a \in stored BY <2>1, <4>3, Zenon
        <5>2. heirs'[a] = heirs[a] BY <2>1, <4>0, <4>3, Zenon
        <5>3. (\E s \in Sig : table'[s] = a) <=> \E s \in Sig : table[s] = a
          BY <2>4, <2>5, <4>3, Zenon
        <5> QED BY <1>0, <1>5, <5>1, <5>2, <5>3, Zenon DEF SwapExact
      <4> QED BY <4>1, <4>2, <4>3, Zenon
    <3> QED BY <3>1, Zenon DEF SwapExact
  <2>9. EntriesOK'
    <3>1. ASSUME NEW s \in Sig, table'[s] # NoAction
          PROVE  table'[s] \in stored' /\ \A r \in Sig : table'[r] = table'[s] => r = s
      <4>1. CASE s = sig[t] BY <2>1, <2>5, <2>6, <4>1
      <4>2. CASE s # sig[t]
        <5>1. table'[s] = table[s] BY <2>5, <4>2, Zenon
        <5>2. table[s] \in stored /\ \A r \in Sig : table[r] = table[s] => r = s
          BY <1>0, <3>1, <5>1, Zenon DEF EntriesOK
        <5> QED BY <2>1, <2>5, <2>6, <5>1, <5>2
      <4> QED BY <4>1, <4>2, Zenon
    <3> QED BY <1>1, <1>5, <3>1, Zenon DEF EntriesOK
  <2>10. ActionsOK'
    <3>1. ASSUME NEW a \in Action, a \notin stored' PROVE heirs'[a] = {}
      <4>1. a \notin stored BY <2>1, <3>1, Zenon
      <4>2. a # old[t] BY <1>0, <1>3, <2>4, <4>1, SigactionAssumption, Zenon DEF EntriesOK
      <4> QED BY <1>0, <2>1, <4>1, <4>2, Zenon DEF ActionsOK
    <3> QED BY <3>1, Zenon DEF ActionsOK
  <2>11. StuckOnlyAfterDtor' BY <1>0, <1>1, <2>3, Zenon DEF StuckOnlyAfterDtor
  <2>12. ASSUME NEW u \in Caller PROVE CallOK(u)'
    <3>1. CASE u = t BY <1>0, <1>1, <1>5, <2>3, <3>1, Zenon DEF CallOK
    <3>2. CASE u # t
      <4>1. step[u] # "assign" BY <1>0, <1>2, <3>2, Zenon DEF CallOK
      <4>2. act[u] = NoAction \/ act[u] # act[t] BY <1>0, <1>2, <3>2, Zenon DEF CallOK
      <4> QED BY <1>0, <1>1, <1>5, <2>1, <2>3, <3>2, <4>1, <4>2, Zenon DEF CallOK
    <3> QED BY <3>1, <3>2, Zenon
  <2> QED BY <2>2, <2>8, <2>9, <2>10, <2>11, <2>12, Zenon DEF ActInv, EntriesOK, ActionsOK, CallOK
<1>6. life \in {"live", "dead"} BY <1>0, Zenon DEF ActTypeOK
<1> QED BY <1>4, <1>5, <1>6, Zenon

\* The inductive invariant of the table of actions, for any number of callers,
\* signals and actions.
THEOREM ActionsInductive == ActSpec => []ActInv
<1>1. ActInit => ActInv
  <2>1. (CHOOSE s \in Sig : TRUE) \in Sig BY SigactionAssumption, Zenon
  <2> QED BY <2>1, SigactionAssumption, CallersAssumption
       DEF ActInit, ActInv, ActTypeOK, SwapExact, StuckOnlyAfterDtor
<1>2. ActInv /\ [ActNext]_actVars => ActInv'
  <2> SUFFICES ASSUME ActInv, [ActNext]_actVars PROVE ActInv' BY Zenon
  <2>1. CASE UNCHANGED actVars
    BY <2>1 DEF ActInv, ActTypeOK, SwapExact, StuckOnlyAfterDtor, actVars
  <2> QED BY <2>1, TableKeeps, CallKeeps, LockKeeps, AssignKeeps, Zenon DEF ActNext
<1> QED BY <1>1, <1>2, PTL DEF ActSpec

\* rt_sigaction swaps exactly: no action that was installed is lost, and none is
\* handed back to two calls.
THEOREM Swaps == ActSpec => []SwapExact
<1>1. ActInv => SwapExact BY Zenon DEF ActInv
<1> QED BY <1>1, ActionsInductive, PTL

\* Until dtor every way out of rt_sigaction leaves s.rw unlocked.
THEOREM Unstuck == ActSpec => []StuckOnlyAfterDtor
<1>1. ActInv => StuckOnlyAfterDtor BY Zenon DEF ActInv
<1> QED BY <1>1, ActionsInductive, PTL

(***************************************************************************)
(* Pipe                                                                    *)
(***************************************************************************)
\* A call that returns keeps the invariant: it holds the lock only if one of the
\* ends is closed.
LEMMA EndKeeps ==
  ASSUME PipeInv, NEW t \in Caller, End(t),
         level' \in 0..Room, UNCHANGED <<rEnd, wEnd, last>>,
         busy = t => "closed" \in {rEnd, wEnd}
  PROVE  PipeInv'
<1> USE CallersAssumption DEF PipeInv, PipeTypeOK, End, GoTo
<1>1. PipeTypeOK'
  <2>1. <<>> \in Seq(Nat)
    OBVIOUS
  <2>2. bufs' \in [Caller -> Seq(Nat)]
    BY <2>1, Zenon
  <2>3. /\ step' \in [Caller -> {"guest", "read", "write", "closeRead", "closeWrite"}]
        /\ busy' \in Caller \cup {NoCaller}
    BY Zenon
  <2>4. need' \in [Caller -> 0..MaxCount] /\ rest' \in [Caller -> 0..Chunk]
    BY PipeAssumption
  <2>. QED
    BY <2>2, <2>3, <2>4, Zenon
<1>2. \A u \in Caller : rest'[u] > 0 => step'[u] = "write"
  OBVIOUS
<1>3. busy' # NoCaller => rest'[busy'] > 0 /\ last' = [by |-> busy', left |-> rest'[busy']]
  BY Zenon
<1>4. last'.left > 0 =>
        last'.by # NoCaller /\ (busy' = last'.by \/ "closed" \in {rEnd, wEnd}')
  BY Zenon
<1>. QED
  BY <1>1, <1>2, <1>3, <1>4, Zenon

\* A step that leaves the write end's lock and the last word alone, and takes no
\* end back.
LEMMA CalmKeeps ==
  ASSUME PipeInv, PipeTypeOK', UNCHANGED <<busy, last>>,
         "closed" \in {rEnd, wEnd} => "closed" \in {rEnd, wEnd}',
         \A u \in Caller : rest'[u] > 0 => step'[u] = "write",
         busy # NoCaller => rest'[busy] = rest[busy]
  PROVE  PipeInv'
BY Zenon DEF PipeInv

\* The steps of read.
LEMMA ReadKeeps ==
  ASSUME PipeInv, NEW t \in Caller, Read(t) \/ Take(t) \/ TakeFails(t)
  PROVE  PipeInv'
<1> USE CallersAssumption, PipeAssumption DEF PipeInv, PipeTypeOK
<1>0. busy = t => step[t] = "write"
  BY Zenon
<1>1. CASE Read(t)
  <2>1. PipeTypeOK'
    BY <1>1 DEF Read, GoTo
  <2>2. \A u \in Caller : rest'[u] > 0 => step'[u] = "write"
    BY <1>1, Zenon DEF Read, GoTo
  <2>. QED
    BY <1>1, <2>1, <2>2, CalmKeeps, Zenon DEF Read
<1>2. CASE Take(t)
  <2> DEFINE n == Smaller(level, Smaller(need[t], Chunk))
  <2>1. n \in Nat /\ n <= level /\ n <= need[t]
    BY DEF Smaller
  <2>2. level' \in 0..Room /\ UNCHANGED <<rEnd, wEnd, last>>
    BY <1>2, <2>1 DEF Take
  <2>3. CASE End(t)
    BY <1>0, <1>2, <2>2, <2>3, EndKeeps, Zenon DEF Take
  <2>4. CASE /\ need[t] > n /\ need' = [need EXCEPT ![t] = @ - n]
             /\ UNCHANGED <<step, bufs, rest, busy>>
    <3>1. need' \in [Caller -> 0..MaxCount]
      BY <2>1, <2>4, SMTT(20)
    <3>2. PipeTypeOK'
      BY <2>2, <2>4, <3>1, Zenon
    <3>. QED
      BY <2>2, <2>4, <3>2, CalmKeeps, Zenon
  <2>. QED
    BY <1>2, <2>3, <2>4, Zenon DEF Take
<1>3. CASE TakeFails(t)
  BY <1>0, <1>3, EndKeeps, Zenon DEF TakeFails
<1>. QED
  BY <1>1, <1>2, <1>3, Zenon

\* The steps of write and writev.
LEMMA WriteKeeps ==
  ASSUME PipeInv, NEW t \in Caller, Write(t) \/ NextChunk(t) \/ PushFails(t)
  PROVE  PipeInv'
<1> USE CallersAssumption, PipeAssumption DEF PipeInv, PipeTypeOK
<1>1. CASE Write(t)
  <2>1. PipeTypeOK'
    BY <1>1, Zenon DEF Write, GoTo
  <2>2. \A u \in Caller : rest'[u] > 0 => step'[u] = "write"
    BY <1>1, Zenon DEF Write, GoTo
  <2>. QED
    BY <1>1, <2>1, <2>2, CalmKeeps, Zenon DEF Write
<1>2. CASE NextChunk(t)
  <2>0. busy # t
    BY <1>2 DEF NextChunk
  <2>1. CASE End(t)
    BY <1>2, <2>0, <2>1, EndKeeps, Zenon DEF NextChunk
  <2>2. CASE bufs[t] # <<>> /\ ~End(t)
    <3> DEFINE b == Head(bufs[t])
               n == Smaller(b, Chunk)
    <3>1. b \in Nat /\ Tail(bufs[t]) \in Seq(Nat)
      BY <2>2
    <3>2. n \in 0..Chunk /\ n <= b /\ n \in Nat
      BY <3>1 DEF Smaller
    <3>3. (IF b = n THEN <<>> ELSE <<b - n>>) \in Seq(Nat)
      <4>1. <<>> \in Seq(Nat)
        OBVIOUS
      <4>2. b - n \in Nat
        BY <3>1, <3>2
      <4>3. <<b - n>> \in Seq(Nat)
        BY <4>2
      <4>. QED
        BY <4>1, <4>3, Zenon
    <3>4. (IF b = n THEN <<>> ELSE <<b - n>>) \o Tail(bufs[t]) \in Seq(Nat)
      BY <3>1, <3>3
    <3>5. /\ rest' = [rest EXCEPT ![t] = n]
          /\ bufs' = [bufs EXCEPT ![t] = (IF b = n THEN <<>> ELSE <<b - n>>) \o Tail(bufs[t])]
          /\ UNCHANGED <<step, need, busy, level, rEnd, wEnd, last>>
      BY <1>2, <2>2, Zenon DEF NextChunk
    <3>6. bufs' \in [Caller -> Seq(Nat)]
      BY <3>4, <3>5, Zenon
    <3>7. rest' \in [Caller -> 0..Chunk]
      BY <3>2, <3>5, Zenon
    <3>8. PipeTypeOK'
      BY <3>5, <3>6, <3>7, Zenon
    <3>9. \A u \in Caller : rest'[u] > 0 => step'[u] = "write"
      BY <1>2, <3>5, Zenon DEF NextChunk
    <3>. QED
      BY <2>0, <3>5, <3>8, <3>9, CalmKeeps, Zenon
  <2>. QED
    BY <1>2, <2>1, <2>2, Zenon DEF NextChunk
<1>3. CASE PushFails(t)
  BY <1>3, EndKeeps, Zenon DEF PushFails
<1>. QED
  BY <1>1, <1>2, <1>3, Zenon

\* A word goes into the pipe: the lock is its writer's until the chunk is whole.
LEMMA PushKeeps ==
  ASSUME PipeInv, NEW t \in Caller, Push(t)
  PROVE  PipeInv'
<1> USE CallersAssumption, PipeAssumption DEF PipeInv, PipeTypeOK, Push
<1>1. rest[t] \in Nat \ {0} /\ rest[t] - 1 \in 0..Chunk
  OBVIOUS
<1>2. rest' \in [Caller -> 0..Chunk] /\ level' \in 0..Room
  BY <1>1
<1>3. last' \in [by : Caller \cup {NoCaller}, left : Nat]
  BY <1>1
<1>4. PipeTypeOK'
  BY <1>2, <1>3, Zenon
<1>5. \A u \in Caller : rest'[u] > 0 => step'[u] = "write"
  BY <1>1, Zenon
<1>6. busy' # NoCaller => rest'[busy'] > 0 /\ last' = [by |-> busy', left |-> rest'[busy']]
  BY <1>1
<1>7. last'.left > 0 => last'.by # NoCaller /\ busy' = last'.by
  BY <1>1
<1>. QED
  BY <1>4, <1>5, <1>6, <1>7, Zenon

\* The steps of close.
LEMMA CloseKeeps ==
  ASSUME PipeInv, NEW t \in Caller, CloseRead(t) \/ CloseWrite(t) \/ CloseFile(t)
  PROVE  PipeInv'
<1> USE CallersAssumption
     DEF PipeInv, PipeTypeOK, CloseRead, CloseWrite, CloseFile, ioVars, GoTo
<1>1. PipeTypeOK'
  BY Zenon
<1>2. \A u \in Caller : rest'[u] > 0 => step'[u] = "write"
  BY Zenon
<1>3. "closed" \in {rEnd, wEnd} => "closed" \in {rEnd, wEnd}'
  BY Zenon
<1>. QED
  BY <1>1, <1>2, <1>3, CalmKeeps, Zenon

\* Every step keeps the invariant of the pipe.
LEMMA PipeStep == PipeInv /\ [PipeNext]_pipeVars => PipeInv'
<1> SUFFICES ASSUME PipeInv, [PipeNext]_pipeVars
             PROVE  PipeInv'
  BY Zenon
<1>1. CASE UNCHANGED pipeVars
  BY <1>1, Zenon DEF pipeVars, ioVars, PipeInv, PipeTypeOK
<1>2. CASE PipeNext
  BY <1>2, ReadKeeps, WriteKeeps, PushKeeps, CloseKeeps, Zenon DEF PipeNext
<1>. QED
  BY <1>1, <1>2, Zenon

\* In every reachable state of the pipe the lock of the write end is held by the
\* thread in the middle of the chunk that was last written to.
THEOREM PipeInductive == PipeSpec => []PipeInv
<1>1. PipeInit => PipeInv
  BY CallersAssumption, PipeAssumption
     DEF PipeInit, PipeInv, PipeTypeOK
<1>. QED
  BY <1>1, PipeStep, PTL DEF PipeSpec

\* No word of another thread comes between the words of a chunk: after a word that
\* does not end its chunk the next one in the pipe is of the same chunk.
THEOREM PipeChunks == PipeSpec => ChunksWhole
<1> DEFINE Whole == level' > level /\ last.left > 0 =>
                      last' = [by |-> last.by, left |-> last.left - 1]
<1>1. PipeInv /\ [PipeNext]_pipeVars => [Whole]_pipeVars
  <2> SUFFICES ASSUME PipeInv, PipeNext, level' > level, last.left > 0
               PROVE  last' = [by |-> last.by, left |-> last.left - 1]
    BY Zenon DEF Whole
  <2>1. level \in Nat
    BY PipeAssumption DEF PipeInv, PipeTypeOK
  <2>2. PICK t \in Caller : Push(t)
    <3> SUFFICES ASSUME NEW t \in Caller, level' > level,
                        \/ Read(t) \/ Take(t) \/ TakeFails(t)
                        \/ Write(t) \/ NextChunk(t) \/ PushFails(t)
                        \/ CloseRead(t) \/ CloseWrite(t) \/ CloseFile(t)
                 PROVE  FALSE
      BY Zenon DEF PipeNext
    <3>1. CASE Take(t)
      <4> DEFINE n == Smaller(level, Smaller(need[t], Chunk))
      <4>1. n \in Nat
        BY <2>1, PipeAssumption DEF PipeInv, PipeTypeOK, Smaller
      <4>2. level' = level - n
        BY <3>1, Zenon DEF Take
      <4>. QED
        BY <2>1, <4>1, <4>2
    <3>2. CASE UNCHANGED level
      BY <2>1, <3>2
    <3>. QED
      BY <3>1, <3>2, Zenon
         DEF Read, TakeFails, Write, NextChunk, PushFails, CloseRead, CloseWrite, CloseFile
  <2>3. busy = last.by /\ busy # NoCaller
    BY <2>2, Zenon DEF PipeInv, Push
  <2>4. busy = t /\ last = [by |-> t, left |-> rest[t]]
    BY <2>2, <2>3, Zenon DEF PipeInv, Push
  <2>. QED
    BY <2>2, <2>4, Zenon DEF Push
<1>. QED
  BY <1>1, PipeInductive, PTL DEF PipeSpec, ChunksWhole

(***************************************************************************)
(* Mman                                                                    *)
(***************************************************************************)
LEMMA ArgFacts ==
  /\ \A c \in ArgSet : /\ c.addr \in Nat /\ c.len \in 0..MaxLen /\ c.off \in -1..Blocks
                       /\ c.fixed \in BOOLEAN /\ c.file \in BOOLEAN
  /\ \A a, n, x, f, o :
       LET c == Args(a, n, x, f, o) IN
       c.addr = a /\ c.len = n /\ c.fixed = x /\ c.file = f /\ c.off = o
  /\ \A a \in Nat, n \in 0..MaxLen, x \in BOOLEAN, f \in BOOLEAN, o \in -1..Blocks :
       Args(a, n, x, f, o) \in ArgSet
BY DEF ArgSet, Args

\* The step A keeps the invariant.
MmanKeeps(A) == MmanInv /\ A /\ UNCHANGED seeker => MmanInv'

\* The arguments of a thread that is in no call.
LEMMA NoArgFacts == NoArgs \in ArgSet /\ NoArgs.fixed = FALSE /\ NoArgs.len = 0
BY MmanAssumption DEF ArgSet, Args, NoArgs

\* Pages and the end of the arena are natural numbers.
LEMMA PageNat == Page \subseteq Nat /\ Arena \in Nat
BY MmanAssumption DEF Page

\* What SetPages gives.
LEMMA PageFacts ==
  /\ Zero # None
  /\ \A f, ps, v : \A p \in Page : SetPages(f, ps, v)[p] = IF p \in ps THEN v ELSE f[p]
  /\ \A S, ps : \A f \in [Page -> S], v \in S : SetPages(f, ps, v) \in [Page -> S]
BY DEF Zero, None, SetPages

\* What a step of t must leave alone, for the calls of the others to go on as they
\* were: the pages they have, those they may map over, and the position of the
\* file, unless they are told.
LEMMA OthersKeep ==
  ASSUME MmanInv, MmanTypeOK', NEW t \in Caller,
         \A u \in Caller \ {t} :
           step'[u] = step[u] /\ call'[u] = call[u] /\ copied'[u] = copied[u],
         calm' \subseteq calm \cup {t}, pos' = pos \/ calm' \subseteq {t},
         \A u \in Caller \ {t}, p \in Page :
           owner[p] = u => owner'[p] = u /\ expect'[p] = expect[p],
         \A u \in Caller \ {t}, p \in Page :
           call[u].fixed /\ p >= Arena /\ p \in Span(u) => owner'[p] \in {u, NoCaller},
         call'[t].fixed => \A p \in Span(t)' : p >= Arena =>
           \A u \in Caller \ {t} : call[u].fixed => p \notin Span(u),
         NEW u \in Caller \ {t}
  PROVE  ArgsInv(u)' /\ CalmInv(u)' /\ FixedInv(u)'
<1>0. ArgsInv(u) /\ CalmInv(u) /\ FixedInv(u) /\ Span(u)' = Span(u)
  BY Zenon DEF MmanInv, Span
<1>1. ArgsInv(u)'
  <2>1. step[u] \notin {"guest", "panicked"} => Span(u) \subseteq Page
    BY <1>0, Zenon DEF ArgsInv
  <2>2. step[u] \in {"copy", "free"} => \A p \in Span(u) :
          owner'[p] = u /\ (p >= call'[u].addr + copied'[u] => expect'[p] = None)
    BY <1>0, <2>1, Zenon DEF ArgsInv
  <2>. QED
    BY <1>0, <2>2, Zenon DEF ArgsInv
<1>2. CalmInv(u)'
  BY <1>0, Zenon DEF CalmInv
<1>3. FixedInv(u)'
  <2> SUFFICES ASSUME call[u].fixed, NEW p \in Span(u)
               PROVE  /\ p >= Arena =>
                           /\ owner'[p] \in {u, NoCaller}
                           /\ \A v \in Caller \ {u} : call'[v].fixed => p \notin Span(v)'
                      /\ p < Arena /\ step[u] \in {"seek", "unmap"} => owner'[p] = u
    BY <1>0, Zenon DEF FixedInv
  <2>1. p \in Page
    BY <1>0, NoArgFacts, Zenon DEF ArgsInv
  <2>2. ASSUME p >= Arena, NEW v \in Caller \ {u}, call'[v].fixed
        PROVE  p \notin Span(v)'
    <3>1. CASE v = t
      BY <2>2, <3>1, Zenon
    <3>2. CASE v # t
      BY <1>0, <2>2, <3>2, Zenon DEF FixedInv, Span
    <3>. QED
      BY <3>1, <3>2, Zenon
  <2>. QED
    BY <1>0, <2>1, <2>2, Zenon DEF FixedInv
<1>. QED
  BY <1>1, <1>2, <1>3, Zenon

\* A step of t that leaves the pages alone.
LEMMA PagesKept ==
  ASSUME MmanInv, MmanTypeOK', NEW t \in Caller,
         UNCHANGED <<mem, owner, expect, stray>>,
         \A u \in Caller \ {t} :
           step'[u] = step[u] /\ call'[u] = call[u] /\ copied'[u] = copied[u],
         calm' \subseteq calm \cup {t}, pos' = pos \/ calm' \subseteq {t},
         ArgsInv(t)', CalmInv(t)', FixedInv(t)'
  PROVE  MmanInv'
<1>1. HeldMapped' /\ ContentExact' /\ NothingLeaks'
  BY Zenon DEF MmanInv, HeldMapped, ContentExact, NothingLeaks
<1>2. \A u \in Caller \ {t}, p \in Page :
        call[u].fixed /\ p >= Arena /\ p \in Span(u) => owner'[p] \in {u, NoCaller}
  BY Zenon DEF MmanInv, FixedInv
<1>3. call'[t].fixed => \A p \in Span(t)' : p >= Arena =>
        \A u \in Caller \ {t} : call[u].fixed => p \notin Span(u)
  BY Zenon DEF FixedInv, Span
<1>4. \A u \in Caller \ {t} : ArgsInv(u)' /\ CalmInv(u)' /\ FixedInv(u)'
  BY <1>2, <1>3, OthersKeep, Zenon
<1>. QED
  BY <1>1, <1>4, Zenon DEF MmanInv

\* A call that returns without a change to the pages.
LEMMA FinishKeeps ==
  ASSUME MmanInv, NEW t \in Caller, Finish(t),
         UNCHANGED <<mem, seeker, pos, owner, expect, stray>>
  PROVE  MmanInv'
<1> USE DEF Finish, GoTo
<1>1. MmanTypeOK'
  BY NoArgFacts, MmanAssumption DEF MmanInv, MmanTypeOK
<1>2. /\ \A u \in Caller \ {t} :
           step'[u] = step[u] /\ call'[u] = call[u] /\ copied'[u] = copied[u]
      /\ step'[t] = "guest" /\ call'[t] = NoArgs /\ copied'[t] = 0
  BY Zenon DEF MmanInv, MmanTypeOK
<1>3. ArgsInv(t)' /\ CalmInv(t)' /\ FixedInv(t)'
  BY <1>2, NoArgFacts, Zenon DEF ArgsInv, CalmInv, FixedInv
<1>. QED
  BY <1>1, <1>2, <1>3, PagesKept, Zenon

\* The arguments of mmap: what MAP_FIXED may map over is the caller's, or is nobody's
\* and nobody else is about to map it.
LEMMA MmapKeeps == \A t \in Caller : MmanKeeps(Mmap(t))
<1> SUFFICES ASSUME NEW t \in Caller, MmanInv, Mmap(t), UNCHANGED seeker
             PROVE  MmanInv'
  BY Zenon DEF MmanKeeps
<1>1. PICK a \in Page, n \in 1..MaxLen, x \in BOOLEAN, f \in BOOLEAN, o \in -1..(Blocks - 1) :
        /\ a + n <= Pages /\ (~x => a = 0) /\ (~f => o = 0)
        /\ x => \A p \in Pgs(a, n) : MayMapOver(t, p)
        /\ call' = [call EXCEPT ![t] = Args(a, n, x, f, o)]
        /\ GoTo(t, IF f /\ o # 0 THEN "seek" ELSE IF x THEN "unmap" ELSE "alloc")
        /\ calm' = IF f /\ o = 0 /\ pos = 0 THEN calm \cup {t} ELSE calm
  BY Zenon DEF Mmap
<1> DEFINE c == Args(a, n, x, f, o)
           s == IF f /\ o # 0 THEN "seek" ELSE IF x THEN "unmap" ELSE "alloc"
<1>2. c \in ArgSet /\ c.addr = a /\ c.len = n /\ c.fixed = x /\ c.file = f /\ c.off = o
  BY PageNat, ArgFacts, MmanAssumption
<1>3. /\ step[t] = "guest" /\ t \notin calm
      /\ copied[t] = 0 /\ call[t].fixed = FALSE
      /\ UNCHANGED <<mem, pos, copied, owner, expect, stray>>
  BY NoArgFacts, Zenon DEF Mmap, MmanInv, ArgsInv, CalmInv
<1> HIDE DEF c, s
<1>4. step' = [step EXCEPT ![t] = s] /\ s \in {"seek", "unmap", "alloc"}
  BY <1>1, Zenon DEF GoTo, s
<1>5. MmanTypeOK'
  BY <1>1, <1>2, <1>3, <1>4, Zenon DEF MmanInv, MmanTypeOK, c
<1>6. /\ \A u \in Caller \ {t} :
           step'[u] = step[u] /\ call'[u] = call[u] /\ copied'[u] = copied[u]
      /\ step'[t] = s /\ call'[t] = c /\ copied'[t] = 0
      /\ Span(t)' = Pgs(a, n)
  BY <1>1, <1>2, <1>3, <1>4, Zenon DEF MmanInv, MmanTypeOK, Span, c
<1>7. Pgs(a, n) \subseteq Page
  BY <1>1, PageNat, MmanAssumption DEF Pgs, Page
<1>8. ArgsInv(t)'
  <2>1. s = "unmap" => x
    BY Zenon DEF s
  <2>. QED
    BY <1>2, <1>4, <1>6, <1>7, <2>1, Zenon DEF ArgsInv
<1>9. CalmInv(t)'
  BY <1>1, <1>2, <1>3, <1>6 DEF CalmInv, s
<1>10. FixedInv(t)'
  <2> SUFFICES ASSUME x, NEW p \in Pgs(a, n)
               PROVE  /\ p >= Arena =>
                           /\ owner[p] \in {t, NoCaller}
                           /\ \A u \in Caller \ {t} : call[u].fixed => p \notin Span(u)
                      /\ p < Arena => owner[p] = t
    BY <1>2, <1>3, <1>6, Zenon DEF FixedInv, Span
  <2>0. p \in Nat /\ Arena \in Nat
    BY <1>7, PageNat, Zenon
  <2>2. MayMapOver(t, p)
    BY <1>1, Zenon
  <2>1. ASSUME NEW u \in Caller \ {t}, call[u].fixed, p >= Arena
        PROVE  p \notin Span(u)
    <3>1. step[u] # "guest" /\ FixedInv(u)
      BY <2>1, NoArgFacts, Zenon DEF MmanInv, ArgsInv
    <3>. QED
      BY <1>7, <2>0, <2>2, <2>1, <3>1, CallersAssumption, Zenon DEF MayMapOver, FixedInv
  <2>. QED
    BY <2>0, <2>2, <2>1 DEF MayMapOver
<1>11. calm' \subseteq calm \cup {t}
  BY <1>1, Zenon
<1>. QED
  BY <1>3, <1>5, <1>6, <1>8, <1>9, <1>10, <1>11, PagesKept, Zenon

\* The file is positioned.
LEMMA SeekKeeps == \A t \in Caller : MmanKeeps(Seek(t))
<1> SUFFICES ASSUME NEW t \in Caller, MmanInv, Seek(t), UNCHANGED seeker
             PROVE  MmanInv'
  BY Zenon DEF MmanKeeps
<1>0. /\ UNCHANGED <<mem, copied, owner, expect, stray>> /\ step[t] = "seek"
      /\ call[t] \in ArgSet /\ pos \in 0..Blocks /\ copied[t] = 0
      /\ ArgsInv(t) /\ FixedInv(t) /\ call[t].off \in -1..Blocks
  BY ArgFacts, Zenon DEF Seek, MmanInv, MmanTypeOK, ArgsInv
<1>1. CASE SeekDone(t) /\ calm' \subseteq {t} /\ (t \in calm' => pos' = call[t].off)
           /\ pos' \in 0..Blocks
  <2> DEFINE s == IF call[t].fixed THEN "unmap" ELSE "alloc"
  <2>1. step' = [step EXCEPT ![t] = s] /\ UNCHANGED call
    BY <1>1, Zenon DEF SeekDone, GoTo
  <2>2. MmanTypeOK'
    BY <1>0, <1>1, <2>1, Zenon DEF MmanInv, MmanTypeOK
  <2>3. \A u \in Caller \ {t} :
          step'[u] = step[u] /\ call'[u] = call[u] /\ copied'[u] = copied[u]
    BY <1>0, <2>1
  <2>4. step'[t] = s /\ Span(t)' = Span(t)
    BY <2>1, Zenon DEF MmanInv, MmanTypeOK, Span
  <2>5. ArgsInv(t)'
    BY <1>0, <2>1, <2>4 DEF ArgsInv
  <2>6. CalmInv(t)'
    BY <1>0, <1>1, <2>1, <2>4 DEF CalmInv
  <2>7. FixedInv(t)'
    BY <1>0, <2>1, <2>4, Zenon DEF FixedInv, Span
  <2>. QED
    BY <1>0, <1>1, <2>2, <2>3, <2>5, <2>6, <2>7, PagesKept, Zenon
<1>2. ASSUME NEW s \in {"guest", "panicked"}, SeekFails(t, s),
             \/ UNCHANGED <<pos, calm>>
             \/ pos' = Blocks /\ calm' = {}
      PROVE  MmanInv'
  <2>0. t \notin calm /\ calm' \subseteq calm
    BY <1>0, <1>2, Zenon DEF MmanInv, CalmInv
  <2>1. MmanTypeOK'
    BY <1>0, <1>2, NoArgFacts, MmanAssumption DEF MmanInv, MmanTypeOK, GoTo, SeekFails
  <2>2. /\ \A u \in Caller \ {t} :
             step'[u] = step[u] /\ call'[u] = call[u] /\ copied'[u] = copied[u]
        /\ step'[t] = s /\ call'[t] = NoArgs /\ copied'[t] = 0
    BY <1>0, <1>2, Zenon DEF GoTo, MmanInv, MmanTypeOK, SeekFails
  <2>3. ArgsInv(t)' /\ CalmInv(t)' /\ FixedInv(t)'
    BY <1>2, <2>0, <2>2, NoArgFacts, Zenon DEF ArgsInv, CalmInv, FixedInv
  <2>. QED
    BY <1>0, <1>2, <2>0, <2>1, <2>2, <2>3, PagesKept, Zenon
<1>3. \/ SeekDone(t) /\ calm' \subseteq {t} /\ (t \in calm' => pos' = call[t].off)
         /\ pos' \in 0..Blocks
      \/ \E s \in {"guest", "panicked"} :
           SeekFails(t, s) /\ (UNCHANGED <<pos, calm>> \/ (pos' = Blocks /\ calm' = {}))
  <2>1. CASE seeker /\ call[t].off >= 0 /\ pos' = call[t].off /\ calm' = {t} /\ SeekDone(t)
    BY <1>0, <2>1
  <2>2. CASE /\ ~seeker /\ call[t].off >= 0 /\ pos + call[t].off <= Blocks
             /\ pos' = pos + call[t].off /\ calm' = IF pos = 0 THEN {t} ELSE {}
             /\ SeekDone(t)
    BY <1>0, <2>2
  <2>3. CASE /\ SeekFails(t, "guest") \/ SeekFails(t, "panicked")
             /\ UNCHANGED <<pos, calm>> \/ (pos' = Blocks /\ calm' = {})
    BY <2>3, Zenon
  <2>. QED
    BY <2>1, <2>2, <2>3, Zenon DEF Seek
<1>. QED
  BY <1>1, <1>2, <1>3, Zenon

\* read and lseek of a thread that is not in mmap.
LEMMA MoveKeeps == \A t \in Caller : MmanKeeps(MovePosition(t))
<1> SUFFICES ASSUME NEW t \in Caller, MmanInv, MovePosition(t), UNCHANGED seeker
             PROVE  MmanInv'
  BY Zenon DEF MmanKeeps
<1>1. /\ step[t] = "guest" /\ pos' \in 0..Blocks /\ calm' = calm \cap {t}
      /\ UNCHANGED <<mem, step, call, copied, owner, expect, stray>>
  BY Zenon DEF MovePosition, Moves
<1>2. t \notin calm
  BY <1>1, Zenon DEF MmanInv, CalmInv
<1>3. MmanTypeOK'
  BY <1>1, Zenon DEF MmanInv, MmanTypeOK
<1>4. ArgsInv(t)' /\ FixedInv(t)'
  BY <1>1, Zenon DEF MmanInv, ArgsInv, FixedInv, Span
<1>5. CalmInv(t)'
  BY <1>1, <1>2, Zenon DEF CalmInv
<1>. QED
  BY <1>1, <1>3, <1>4, <1>5, PagesKept, Zenon

\* What t lets go of was its own, or nobody's: the pages of the others stay, and
\* what stays mapped of t's is stray.
LEMMA ReleaseKeeps ==
  ASSUME MmanInv, NEW t \in Caller, NEW ps \in SUBSET Page, Disown(t, ps),
         \A p \in ps : owner[p] \in {t, NoCaller},
         mem' \in [Page -> -2..(Blocks - 1)], stray' \subseteq Page, stray \subseteq stray',
         \A p \in Page \ ps : mem'[p] = mem[p],
         \A p \in ps : mem'[p] = None \/ p \in stray'
  PROVE  /\ owner' \in [Page -> Caller \cup {NoCaller}] /\ expect' \in [Page -> -2..(Blocks - 1)]
         /\ HeldMapped' /\ ContentExact' /\ NothingLeaks'
         /\ \A p \in Page : owner'[p] = IF p \in ps THEN NoCaller ELSE owner[p]
         /\ \A p \in Page \ ps : expect'[p] = expect[p]
<1> DEFINE own == {p \in ps : owner[p] = t}
<1>0. /\ owner \in [Page -> Caller \cup {NoCaller}] /\ expect \in [Page -> -2..(Blocks - 1)]
      /\ None \in -2..(Blocks - 1) /\ t # NoCaller
  BY CallersAssumption, MmanAssumption DEF MmanInv, MmanTypeOK, None
<1>1. owner' = SetPages(owner, own, NoCaller) /\ expect' = SetPages(expect, own, None)
  BY Zenon DEF Disown
<1> HIDE DEF own
<1>2. owner' \in [Page -> Caller \cup {NoCaller}] /\ expect' \in [Page -> -2..(Blocks - 1)]
  BY <1>0, <1>1, PageFacts, Zenon
<1>3. \A p \in Page : /\ owner'[p] = IF p \in own THEN NoCaller ELSE owner[p]
                      /\ expect'[p] = IF p \in own THEN None ELSE expect[p]
  BY <1>1, PageFacts
<1>4. /\ \A p \in Page : owner'[p] = IF p \in ps THEN NoCaller ELSE owner[p]
      /\ \A p \in Page \ ps : expect'[p] = expect[p]
  BY <1>3, Zenon DEF own
<1>5. HeldMapped' /\ ContentExact'
  BY <1>4, Zenon DEF MmanInv, HeldMapped, ContentExact
<1>6. NothingLeaks'
  BY <1>4, Zenon DEF MmanInv, NothingLeaks
<1>. QED
  BY <1>2, <1>4, <1>5, <1>6, Zenon

\* MemUnmap of the range of MAP_FIXED.
LEMMA UnmapKeeps == \A t \in Caller : MmanKeeps(Unmap(t))
<1> SUFFICES ASSUME NEW t \in Caller, MmanInv, Unmap(t), UNCHANGED seeker
             PROVE  MmanInv'
  BY Zenon DEF MmanKeeps
<1>0. /\ step[t] = "unmap" /\ ArgsInv(t) /\ CalmInv(t) /\ FixedInv(t)
      /\ step' = [step EXCEPT ![t] = "map"] /\ step'[t] = "map"
      /\ UNCHANGED <<pos, call, copied, calm, stray, seeker>>
      /\ Span(t) \subseteq Page /\ call[t].fixed /\ Span(t)' = Span(t)
  BY Zenon DEF Unmap, GoTo, MmanInv, MmanTypeOK, ArgsInv, Span
<1>1. \A u \in Caller \ {t} : step'[u] = step[u]
  BY <1>0, Zenon DEF MmanInv, MmanTypeOK
<1>2. CASE UNCHANGED <<mem, owner, expect>>
  <2>1. MmanTypeOK'
    BY <1>0, <1>2, Zenon DEF MmanInv, MmanTypeOK
  <2>2. ArgsInv(t)' /\ CalmInv(t)' /\ FixedInv(t)'
    BY <1>0, <1>2, Zenon DEF ArgsInv, CalmInv, FixedInv, Span
  <2>. QED
    BY <1>0, <1>1, <1>2, <2>1, <2>2, PagesKept, Zenon
<1>3. CASE mem' = SetPages(mem, Span(t), None) /\ Disown(t, Span(t))
  <2>1. mem' \in [Page -> -2..(Blocks - 1)]
    <3>1. mem \in [Page -> -2..(Blocks - 1)] /\ None \in -2..(Blocks - 1)
      BY MmanAssumption DEF MmanInv, MmanTypeOK, None
    <3>. QED
      BY <1>3, <3>1, PageFacts, Zenon
  <2>2. \A p \in Page : mem'[p] = IF p \in Span(t) THEN None ELSE mem[p]
    BY <1>3, PageFacts
  <2>3. \A p \in Span(t) : owner[p] \in {t, NoCaller}
    <3>1. \A p \in Page : p >= Arena \/ p < Arena
      BY PageNat
    <3>. QED
      BY <1>0, <3>1, Zenon DEF FixedInv
  <2>4. stray \subseteq Page
    BY Zenon DEF MmanInv, MmanTypeOK
  <2>5. /\ owner' \in [Page -> Caller \cup {NoCaller}] /\ expect' \in [Page -> -2..(Blocks - 1)]
        /\ HeldMapped' /\ ContentExact' /\ NothingLeaks'
        /\ \A p \in Page : owner'[p] = IF p \in Span(t) THEN NoCaller ELSE owner[p]
        /\ \A p \in Page \ Span(t) : expect'[p] = expect[p]
    BY <1>0, <1>3, <2>1, <2>2, <2>3, <2>4, ReleaseKeeps
  <2>6. MmanTypeOK'
    BY <1>0, <2>1, <2>5, Zenon DEF MmanInv, MmanTypeOK
  <2>7. ArgsInv(t)' /\ CalmInv(t)'
    BY <1>0, Zenon DEF ArgsInv, CalmInv
  <2>8. FixedInv(t)'
    BY <1>0, <2>5, Zenon DEF FixedInv, Span
  <2>9. \A u \in Caller \ {t} : ArgsInv(u)' /\ CalmInv(u)' /\ FixedInv(u)'
    <3>1. \A u \in Caller \ {t}, p \in Page :
            owner[p] = u => owner'[p] = u /\ expect'[p] = expect[p]
      BY <2>3, <2>5, CallersAssumption, Zenon
    <3>2. \A u \in Caller \ {t}, p \in Page :
            call[u].fixed /\ p >= Arena /\ p \in Span(u) => owner'[p] \in {u, NoCaller}
      BY <2>5, Zenon DEF MmanInv, FixedInv
    <3>3. \A p \in Span(t)' : p >= Arena =>
            \A u \in Caller \ {t} : call[u].fixed => p \notin Span(u)
      BY <1>0, Zenon DEF FixedInv
    <3>. QED
      BY <1>0, <1>1, <2>6, <3>1, <3>2, <3>3, OthersKeep, Zenon
  <2>. QED
    BY <2>5, <2>6, <2>7, <2>8, <2>9, Zenon DEF MmanInv
<1>. QED
  BY <1>2, <1>3, Zenon DEF Unmap

\* A caller that lets go of its own pages and is in the guest afterwards.
LEMMA LetGoKeeps ==
  ASSUME MmanInv, NEW t \in Caller, NEW ps \in SUBSET Page, Disown(t, ps),
         \A p \in ps : owner[p] = t,
         \A u \in Caller \ {t} :
           step'[u] = step[u] /\ call'[u] = call[u] /\ copied'[u] = copied[u],
         step' \in [Caller -> {"guest", "seek", "unmap", "map", "alloc", "copy", "free",
                            "panicked"}],
         call' \in [Caller -> ArgSet], copied' \in [Caller -> 0..MaxLen],
         step'[t] = "guest", call'[t] = NoArgs, copied'[t] = 0,
         calm' = calm \ {t}, UNCHANGED <<pos, seeker>>,
         \/ mem' = SetPages(mem, ps, None) /\ UNCHANGED stray
         \/ stray' = stray \cup ps /\ UNCHANGED mem
  PROVE  MmanInv'
<1>1. mem' \in [Page -> -2..(Blocks - 1)]
  <2>1. mem \in [Page -> -2..(Blocks - 1)] /\ None \in -2..(Blocks - 1)
    BY MmanAssumption DEF MmanInv, MmanTypeOK, None
  <2>2. SetPages(mem, ps, None) \in [Page -> -2..(Blocks - 1)]
    BY <2>1, PageFacts, Zenon
  <2>. QED
    BY <2>1, <2>2, Zenon
<1>2. /\ \A p \in Page \ ps : mem'[p] = mem[p]
      /\ \A p \in ps : mem'[p] = None \/ p \in stray'
      /\ stray \subseteq stray' /\ stray' \subseteq Page
  BY PageFacts, SMTT(20) DEF MmanInv, MmanTypeOK
<1>3. /\ owner' \in [Page -> Caller \cup {NoCaller}] /\ expect' \in [Page -> -2..(Blocks - 1)]
      /\ HeldMapped' /\ ContentExact' /\ NothingLeaks'
      /\ \A p \in Page : owner'[p] = IF p \in ps THEN NoCaller ELSE owner[p]
      /\ \A p \in Page \ ps : expect'[p] = expect[p]
  BY <1>1, <1>2, ReleaseKeeps
<1>4. MmanTypeOK'
  BY <1>1, <1>2, <1>3, Zenon DEF MmanInv, MmanTypeOK
<1>5. ArgsInv(t)' /\ CalmInv(t)' /\ FixedInv(t)'
  BY NoArgFacts, Zenon DEF ArgsInv, CalmInv, FixedInv
<1>6. \A u \in Caller \ {t}, p \in Page :
        owner[p] = u => owner'[p] = u /\ expect'[p] = expect[p]
  BY <1>3, Zenon
<1>7. \A u \in Caller \ {t}, p \in Page :
        call[u].fixed /\ p >= Arena /\ p \in Span(u) => owner'[p] \in {u, NoCaller}
  BY <1>3, Zenon DEF MmanInv, FixedInv
<1>8. \A u \in Caller \ {t} : ArgsInv(u)' /\ CalmInv(u)' /\ FixedInv(u)'
  BY <1>4, <1>6, <1>7, NoArgFacts, OthersKeep, Zenon
<1>. QED
  BY <1>3, <1>4, <1>5, <1>8, Zenon DEF MmanInv

\* MapFree after a copy that failed, and munmap.
LEMMA FreeKeeps == \A t \in Caller : MmanKeeps(Free(t) \/ Munmap(t))
<1> SUFFICES ASSUME NEW t \in Caller, MmanInv, Free(t) \/ Munmap(t), UNCHANGED seeker
             PROVE  MmanInv'
  BY Zenon DEF MmanKeeps
<1>1. CASE Free(t)
  <2>1. /\ Span(t) \in SUBSET Page /\ \A p \in Span(t) : owner[p] = t
        /\ Disown(t, Span(t)) /\ Finish(t) /\ UNCHANGED pos
        /\ \/ mem' = SetPages(mem, Span(t), None) /\ UNCHANGED stray
           \/ stray' = stray \cup Span(t) /\ UNCHANGED mem
    BY <1>1, Zenon DEF Free, MmanInv, ArgsInv
  <2>2. /\ \A u \in Caller \ {t} :
             step'[u] = step[u] /\ call'[u] = call[u] /\ copied'[u] = copied[u]
        /\ step'[t] = "guest" /\ call'[t] = NoArgs /\ copied'[t] = 0 /\ calm' = calm \ {t}
        /\ step' \in [Caller -> {"guest", "seek", "unmap", "map", "alloc", "copy", "free",
                            "panicked"}]
        /\ call' \in [Caller -> ArgSet] /\ copied' \in [Caller -> 0..MaxLen]
    BY <2>1, NoArgFacts, MmanAssumption DEF MmanInv, MmanTypeOK, Finish, GoTo
  <2>. QED
    BY <2>1, <2>2, LetGoKeeps, Zenon
<1>2. CASE Munmap(t)
  <2>1. PICK a \in Page, n \in 1..MaxLen :
          /\ a + n <= Pages /\ \A p \in Pgs(a, n) : owner[p] = t
          /\ mem' = SetPages(mem, Pgs(a, n), None)
          /\ Disown(t, Pgs(a, n))
    BY <1>2, Zenon DEF Munmap
  <2>2. Pgs(a, n) \in SUBSET Page
    BY <2>1, PageNat, MmanAssumption DEF Pgs, Page
  <2>3. /\ step[t] = "guest" /\ call[t] = NoArgs /\ copied[t] = 0 /\ calm = calm \ {t}
        /\ UNCHANGED <<pos, step, call, copied, calm, stray>>
    BY <1>2 DEF Munmap, MmanInv, ArgsInv, CalmInv
  <2>4. /\ step \in [Caller -> {"guest", "seek", "unmap", "map", "alloc", "copy", "free",
                            "panicked"}]
        /\ call \in [Caller -> ArgSet] /\ copied \in [Caller -> 0..MaxLen]
    BY Zenon DEF MmanInv, MmanTypeOK
  <2>. QED
    BY <2>1, <2>2, <2>3, <2>4, LetGoKeeps, Zenon
<1>. QED
  BY <1>1, <1>2, Zenon

\* MemMap and MapAlloc take pages that are not mapped, so nobody's, and that no other
\* call with MAP_FIXED is about to map.
LEMMA MappedKeeps ==
  ASSUME MmanInv, NEW t \in Caller, NEW c \in ArgSet, Mapped(t, c),
         Pgs(c.addr, c.len) \subseteq Page, copied[t] = 0,
         t \in calm => pos = c.off,
         \A p \in Pgs(c.addr, c.len) : p >= Arena =>
           c.fixed /\ \A u \in Caller \ {t} : call[u].fixed => p \notin Span(u),
         UNCHANGED seeker
  PROVE  MmanInv'
<1> DEFINE ps == Pgs(c.addr, c.len)
           v == IF c.file THEN None ELSE Zero
<1>0. /\ \A p \in ps : mem[p] = None
      /\ mem' = SetPages(mem, ps, Zero) /\ owner' = SetPages(owner, ps, t)
      /\ stray' = stray \ ps /\ expect' = SetPages(expect, ps, v)
      /\ UNCHANGED pos
  BY Zenon DEF Mapped
<1>1. \/ /\ c.file /\ step' = [step EXCEPT ![t] = "copy"]
         /\ call' = [call EXCEPT ![t] = c] /\ UNCHANGED <<copied, calm>>
      \/ /\ ~c.file /\ step' = [step EXCEPT ![t] = "guest"]
         /\ call' = [call EXCEPT ![t] = NoArgs]
         /\ copied' = [copied EXCEPT ![t] = 0] /\ calm' = calm \ {t}
  BY Zenon DEF Mapped, Finish, GoTo
<1> HIDE DEF v, ps
<1>2. /\ \A u \in Caller \ {t} :
           step'[u] = step[u] /\ call'[u] = call[u] /\ copied'[u] = copied[u]
      /\ step'[t] = (IF c.file THEN "copy" ELSE "guest") /\ copied'[t] = 0
      /\ call'[t] = (IF c.file THEN c ELSE NoArgs)
  BY <1>1, Zenon DEF MmanInv, MmanTypeOK
<1>3. \A p \in Page :
        /\ mem'[p] = (IF p \in ps THEN Zero ELSE mem[p])
        /\ owner'[p] = (IF p \in ps THEN t ELSE owner[p])
        /\ expect'[p] = (IF p \in ps THEN v ELSE expect[p])
  BY <1>0, PageFacts
<1>4. MmanTypeOK'
  <2>1. None \in -2..(Blocks - 1) /\ Zero \in -2..(Blocks - 1) /\ v \in -2..(Blocks - 1)
    BY MmanAssumption DEF None, Zero, v
  <2>2. /\ mem \in [Page -> -2..(Blocks - 1)] /\ owner \in [Page -> Caller \cup {NoCaller}]
        /\ expect \in [Page -> -2..(Blocks - 1)]
    BY Zenon DEF MmanInv, MmanTypeOK
  <2>3. mem' \in [Page -> -2..(Blocks - 1)]
    BY <1>0, <2>1, <2>2, PageFacts, Zenon
  <2>4. expect' \in [Page -> -2..(Blocks - 1)]
    BY <1>0, <2>1, <2>2, PageFacts, Zenon
  <2>5. owner' \in [Page -> Caller \cup {NoCaller}]
    BY <1>0, <2>2, PageFacts, Zenon
  <2>6. call' \in [Caller -> ArgSet] /\ copied' \in [Caller -> 0..MaxLen]
    BY <1>1, NoArgFacts, MmanAssumption DEF MmanInv, MmanTypeOK
  <2>7. step' \in [Caller -> {"guest", "seek", "unmap", "map", "alloc", "copy", "free",
                            "panicked"}]
    BY <1>1, Zenon DEF MmanInv, MmanTypeOK
  <2>. QED
    BY <1>0, <1>1, <2>3, <2>4, <2>5, <2>6, <2>7, Zenon DEF MmanInv, MmanTypeOK
<1>5. \A p \in ps : owner[p] = NoCaller /\ p \in Page
  BY <1>0, Zenon DEF MmanInv, HeldMapped, ps
<1>6. HeldMapped' /\ ContentExact'
  <2>1. Zero # None /\ v \in {Zero, None}
    BY PageFacts, Zenon DEF v
  <2>. QED
    BY <1>3, <2>1, ZenonT(30) DEF MmanInv, HeldMapped, ContentExact
<1>7. NothingLeaks'
  BY <1>0, <1>3, CallersAssumption, Zenon DEF MmanInv, NothingLeaks
<1>8. c.addr \in Nat /\ c.len \in Nat /\ c.off \in Int
  BY ArgFacts
<1>9. c.file => Span(t)' = ps
  BY <1>2, Zenon DEF Span, ps
<1>10. ArgsInv(t)'
  <2>1. CASE c.file
    <3>1. \A p \in ps : owner'[p] = t /\ expect'[p] = None
      BY <1>3, <1>5, <2>1, Zenon DEF v
    <3>. QED
      BY <1>2, <1>5, <1>8, <1>9, <2>1, <3>1 DEF ArgsInv
  <2>2. CASE ~c.file
    BY <1>2, <2>2, Zenon DEF ArgsInv
  <2>. QED
    BY <2>1, <2>2, Zenon
<1>11. CalmInv(t)'
  BY <1>0, <1>1, <1>2, <1>8, SMTT(20) DEF CalmInv
<1>12. FixedInv(t)'
  <2>1. CASE c.file
    <3>1. \A u \in Caller \ {t} : call'[u] = call[u] /\ Span(u)' = Span(u)
      BY <1>2, Zenon DEF Span
    <3>. QED
      BY <1>2, <1>3, <1>5, <1>9, <2>1, <3>1 DEF FixedInv, ps
  <2>2. CASE ~c.file
    BY <1>2, <2>2, NoArgFacts, Zenon DEF FixedInv
  <2>. QED
    BY <2>1, <2>2, Zenon
<1>13. \A u \in Caller \ {t} : ArgsInv(u)' /\ CalmInv(u)' /\ FixedInv(u)'
  <2>1. \A u \in Caller \ {t}, p \in Page :
          owner[p] = u => owner'[p] = u /\ expect'[p] = expect[p]
    BY <1>3, <1>5, CallersAssumption, Zenon
  <2>2. \A u \in Caller \ {t}, p \in Page :
          call[u].fixed /\ p >= Arena /\ p \in Span(u) => owner'[p] \in {u, NoCaller}
    BY <1>3, Zenon DEF MmanInv, FixedInv, ps
  <2>3. call'[t].fixed => \A p \in Span(t)' : p >= Arena =>
          \A u \in Caller \ {t} : call[u].fixed => p \notin Span(u)
    BY <1>2, <1>9, NoArgFacts, Zenon DEF ps
  <2>4. calm' \subseteq calm \cup {t}
    BY <1>1, Zenon
  <2>. QED
    BY <1>0, <1>2, <1>4, <2>1, <2>2, <2>3, <2>4, OthersKeep, Zenon
<1>. QED
  BY <1>4, <1>6, <1>7, <1>10, <1>11, <1>12, <1>13, Zenon DEF MmanInv

\* MemMap and MapAlloc, whether they fail or not.
LEMMA MapKeeps == \A t \in Caller : MmanKeeps(Map(t) \/ Alloc(t))
<1> SUFFICES ASSUME NEW t \in Caller, MmanInv, Map(t) \/ Alloc(t), UNCHANGED seeker
             PROVE  MmanInv'
  BY Zenon DEF MmanKeeps
<1>0. /\ call[t] \in ArgSet /\ ArgsInv(t) /\ CalmInv(t) /\ FixedInv(t) /\ copied \in [Caller -> Nat]
      /\ call[t].addr \in Nat /\ call[t].len \in 0..MaxLen /\ call[t].off \in -1..Blocks
      /\ call[t].file \in BOOLEAN
  BY ArgFacts, MmanAssumption DEF MmanInv, MmanTypeOK
<1>1. CASE Finish(t) /\ UNCHANGED <<mem, pos, owner, expect, stray>>
  BY <1>1, FinishKeeps, Zenon
<1>2. CASE Map(t) /\ Mapped(t, call[t])
  <2>1. /\ Pgs(call[t].addr, call[t].len) \subseteq Page /\ copied[t] = 0
        /\ call[t].fixed /\ (t \in calm => pos = call[t].off)
    BY <1>0, <1>2 DEF Map, ArgsInv, CalmInv, Span
  <2>2. \A p \in Pgs(call[t].addr, call[t].len) : p >= Arena =>
          \A u \in Caller \ {t} : call[u].fixed => p \notin Span(u)
    BY <1>0, <2>1, Zenon DEF FixedInv, Span
  <2>. QED
    BY <1>0, <1>2, <2>1, <2>2, MappedKeeps, Zenon
<1>3. ASSUME Alloc(t), NEW a \in Page, a + call[t].len <= Arena,
             Mapped(t, Args(a, call[t].len, FALSE, call[t].file, call[t].off))
      PROVE  MmanInv'
  <2> DEFINE c == Args(a, call[t].len, FALSE, call[t].file, call[t].off)
  <2>1. c \in ArgSet /\ c.addr = a /\ c.len = call[t].len /\ c.off = call[t].off
    <3>1. c.addr = a /\ c.len = call[t].len /\ c.off = call[t].off
      BY Zenon DEF Args
    <3>2. a \in Nat
      BY PageNat, ZenonT(30)
    <3>. QED
      BY <1>0, <3>1, <3>2, Zenon DEF ArgSet, Args
  <2> HIDE DEF c
  <2>2. copied[t] = 0 /\ (t \in calm => pos = c.off)
    BY <1>0, <1>3, <2>1, SMTT(20) DEF Alloc, ArgsInv, CalmInv
  <2>3. \A p \in Pgs(c.addr, c.len) : p \in Page /\ ~(p >= Arena)
    BY <1>0, <1>3, <2>1, PageNat, MmanAssumption DEF Pgs, Page
  <2>4. Mapped(t, c)
    BY <1>3, Zenon DEF c
  <2>. QED
    BY <2>1, <2>2, <2>3, <2>4, MappedKeeps, Zenon
<1>. QED
  BY <1>1, <1>2, <1>3, Zenon DEF Map, Alloc

\* The copy of a chunk goes to a page of the caller, and while the caller is calm it
\* is the block that the page should have.
LEMMA CopyKeeps == \A t \in Caller : MmanKeeps(Copy(t))
<1> SUFFICES ASSUME NEW t \in Caller, MmanInv, Copy(t), UNCHANGED seeker
             PROVE  MmanInv'
  BY Zenon DEF MmanKeeps
<1> DEFINE q == call[t].addr + copied[t]
<1>0. /\ step[t] = "copy" /\ UNCHANGED <<owner, stray, seeker>>
      /\ call[t] \in ArgSet /\ ArgsInv(t) /\ CalmInv(t) /\ FixedInv(t)
      /\ copied[t] \in Nat /\ copied[t] <= call[t].len /\ pos \in 0..Blocks
      /\ call[t].addr \in Nat /\ call[t].len \in 0..MaxLen /\ call[t].off \in -1..Blocks
  <2>1. /\ call[t] \in ArgSet /\ copied[t] \in Nat /\ pos \in 0..Blocks
        /\ ArgsInv(t) /\ CalmInv(t) /\ FixedInv(t)
    BY MmanAssumption DEF MmanInv, MmanTypeOK
  <2>2. step[t] = "copy" /\ UNCHANGED <<owner, stray>>
    BY Zenon DEF Copy
  <2>3. copied[t] <= call[t].len
    BY <2>1, <2>2, Zenon DEF ArgsInv
  <2>. QED
    BY <2>1, <2>2, <2>3, ArgFacts, Zenon
<1>1. CASE /\ pos < Blocks /\ copied[t] < call[t].len
           /\ mem' = [mem EXCEPT ![q] = pos]
           /\ expect' = IF t \in calm /\ owner[q] = t
                        THEN [expect EXCEPT ![q] = call[t].off + copied[t]] ELSE expect
           /\ copied' = [copied EXCEPT ![t] = copied[t] + 1]
           /\ Moves(t, pos + 1) /\ UNCHANGED <<step, call>>
  <2>1. q \in Span(t) /\ Span(t) \subseteq Page
    BY <1>0, <1>1, SMTT(20) DEF ArgsInv, Span, Pgs
  <2>2. owner[q] = t /\ expect[q] = None
    BY <1>0, <2>1 DEF ArgsInv
  <2>3. q \in Page /\ q \in Nat
    BY <2>1, PageNat, Zenon
  <2>4. t \in calm => call[t].off + copied[t] = pos
    BY <1>0, Zenon DEF CalmInv
  <2>5. /\ pos' = pos + 1 /\ calm' = calm \cap {t}
        /\ copied'[t] = copied[t] + 1
        /\ \A u \in Caller \ {t} : copied'[u] = copied[u]
    BY <1>1, Zenon DEF Moves, MmanInv, MmanTypeOK
  <2> HIDE DEF q
  <2>6. /\ mem'[q] = pos /\ expect'[q] \in {pos, None}
        /\ \A p \in Page \ {q} : mem'[p] = mem[p] /\ expect'[p] = expect[p]
    BY <1>1, <2>2, <2>3, <2>4, Zenon DEF MmanInv, MmanTypeOK
  <2>7. MmanTypeOK'
    <3>0. pos \in -2..(Blocks - 1)
      BY <1>0, <1>1, MmanAssumption
    <3>1. mem' \in [Page -> -2..(Blocks - 1)]
      BY <1>1, <3>0, Zenon DEF MmanInv, MmanTypeOK
    <3>2. expect' \in [Page -> -2..(Blocks - 1)]
      BY <1>1, <2>4, <3>0, Zenon DEF MmanInv, MmanTypeOK
    <3>3. copied' \in [Caller -> 0..MaxLen] /\ pos' \in 0..Blocks
      BY <1>0, <1>1, <2>5, MmanAssumption DEF MmanInv, MmanTypeOK
    <3>. QED
      BY <1>0, <1>1, <2>5, <3>1, <3>2, <3>3, ZenonT(30) DEF MmanInv, MmanTypeOK
  <2>8. HeldMapped' /\ ContentExact' /\ NothingLeaks'
    <3>1. pos # None
      BY <1>0, MmanAssumption DEF None
    <3>. QED
      BY <1>0, <2>2, <2>6, <3>1, CallersAssumption, ZenonT(30)
         DEF MmanInv, HeldMapped, ContentExact, NothingLeaks
  <2>9. ArgsInv(t)'
    <3>1. \A p \in Span(t) : p >= call[t].addr + copied'[t] =>
            p # q /\ p >= call[t].addr + copied[t] /\ p \in Page
      <4>1. copied[t] \in Nat /\ call[t].addr \in Nat /\ copied'[t] = copied[t] + 1
        BY <1>0, <2>5, Zenon
      <4>2. Span(t) \subseteq Nat /\ Span(t) \subseteq Page
        BY <2>1, PageNat, Zenon
      <4>. QED
        BY <4>1, <4>2 DEF q
    <3>2. \A p \in Span(t) : /\ owner'[p] = t
                             /\ p >= call[t].addr + copied'[t] => expect'[p] = None
      BY <1>0, <2>6, <3>1, Zenon DEF ArgsInv
    <3>3. copied'[t] <= call[t].len
      BY <1>0, <1>1, <2>5, SMTT(20)
    <3>. QED
      BY <1>0, <1>1, <2>1, <3>2, <3>3, Zenon DEF ArgsInv, Span
  <2>10. CalmInv(t)'
    BY <1>0, <1>1, <2>4, <2>5 DEF CalmInv
  <2>11. FixedInv(t)'
    BY <1>0, <1>1, Zenon DEF FixedInv, Span
  <2>12. \A u \in Caller \ {t} : ArgsInv(u)' /\ CalmInv(u)' /\ FixedInv(u)'
    <3>1. \A u \in Caller \ {t}, p \in Page :
            owner[p] = u => owner'[p] = u /\ expect'[p] = expect[p]
      BY <1>0, <2>2, <2>6, Zenon
    <3>2. \A u \in Caller \ {t}, p \in Page :
            call[u].fixed /\ p >= Arena /\ p \in Span(u) => owner'[p] \in {u, NoCaller}
      BY <1>0, Zenon DEF MmanInv, FixedInv
    <3>3. call'[t].fixed => \A p \in Span(t)' : p >= Arena =>
            \A u \in Caller \ {t} : call[u].fixed => p \notin Span(u)
      BY <1>0, <1>1, Zenon DEF FixedInv, Span
    <3>. QED
      BY <1>1, <2>5, <2>7, <3>1, <3>2, <3>3, OthersKeep, Zenon
  <2>. QED
    BY <2>7, <2>8, <2>9, <2>10, <2>11, <2>12, ZenonT(30) DEF MmanInv
<1>2. CASE Finish(t) /\ UNCHANGED <<mem, pos, expect>>
  BY <1>0, <1>2, FinishKeeps, Zenon
<1>3. CASE GoTo(t, "free") /\ UNCHANGED <<mem, pos, call, copied, expect, calm>>
  <2>1. /\ \A u \in Caller \ {t} : step'[u] = step[u]
        /\ step'[t] = "free" /\ Span(t)' = Span(t)
    BY <1>3, Zenon DEF GoTo, MmanInv, MmanTypeOK, Span
  <2>2. MmanTypeOK'
    BY <1>0, <1>3, Zenon DEF GoTo, MmanInv, MmanTypeOK
  <2>3. ArgsInv(t)'
    BY <1>0, <1>3, <2>1, Zenon DEF ArgsInv
  <2>4. CalmInv(t)'
    BY <1>0, <1>3, <2>1, Zenon DEF CalmInv
  <2>5. FixedInv(t)'
    BY <1>0, <1>3, <2>1, ZenonT(30) DEF FixedInv, Span
  <2>. QED
    BY <1>0, <1>3, <2>1, <2>2, <2>3, <2>4, <2>5, PagesKept, Zenon
<1>. QED
  BY <1>0, <1>1, <1>2, <1>3, Zenon DEF Copy

\* Every step keeps the invariant of the address space.
LEMMA MmanStep == MmanInv /\ [MmanNext]_mmanVars => MmanInv'
<1> SUFFICES ASSUME MmanInv, [MmanNext]_mmanVars
             PROVE  MmanInv'
  BY Zenon
<1>1. CASE UNCHANGED mmanVars
  BY <1>1 DEF mmanVars, MmanInv, MmanTypeOK, HeldMapped, ContentExact, NothingLeaks,
              ArgsInv, CalmInv, FixedInv, Span
<1>2. CASE MmanNext
  BY <1>2, MmapKeeps, SeekKeeps, UnmapKeeps, MapKeeps, CopyKeeps, FreeKeeps, MoveKeeps, Zenon
     DEF MmanNext, MmanKeeps
<1>. QED
  BY <1>1, <1>2, Zenon

\* In every reachable state of the address space a call that copies has its pages for
\* itself, and one with MAP_FIXED is not about to touch what is another thread's.
THEOREM MmanInductive == MmanSpec => []MmanInv
<1>1. MmanInit => MmanInv
  <2> SUFFICES ASSUME MmanInit
               PROVE  MmanInv
    BY Zenon
  <2>1. None \in -2..(Blocks - 1)
    BY MmanAssumption DEF None
  <2>2. MmanTypeOK
    BY <2>1, NoArgFacts, MmanAssumption DEF MmanInit, MmanTypeOK
  <2>3. HeldMapped /\ ContentExact /\ NothingLeaks
    BY Zenon DEF MmanInit, HeldMapped, ContentExact, NothingLeaks
  <2>4. \A t \in Caller : ArgsInv(t) /\ CalmInv(t) /\ FixedInv(t)
    BY NoArgFacts, Zenon DEF MmanInit, ArgsInv, CalmInv, FixedInv
  <2>. QED
    BY <2>2, <2>3, <2>4, Zenon DEF MmanInv
<1>. QED
  BY <1>1, MmanStep, PTL DEF MmanSpec

\* No call of mmap or munmap, failing or not, takes a page from the thread that it was
\* given to.
THEOREM Held == MmanSpec => []HeldMapped
BY MmanInductive, PTL DEF MmanInv

\* A mapping shows zeros, or the blocks of the file from the offset asked for, unless
\* somebody moved the file while it was copied.
THEOREM Contents == MmanSpec => []ContentExact
BY MmanInductive, PTL DEF MmanInv

\* A page that is mapped belongs to a thread, or was left by a failed mmap with
\* MAP_FIXED.
THEOREM NoLeaks == MmanSpec => []NothingLeaks
BY MmanInductive, PTL DEF MmanInv
=============================================================================
