------------------------------- MODULE Sched -------------------------------
(***************************************************************************)
(* kernel/sched.go: clone, and the map of the tasks it started.            *)
(*                                                                         *)
(* clone forks a task of the debugger, prepares and runs it.  With         *)
(* CLONE_VFORK the caller waits for the task and closes it; otherwise the  *)
(* task is stored in sched.tasks under its number, and a goroutine of its  *)
(* own, the reaper, waits for it, deletes it from the map and closes it.   *)
(* Tasks are external: the debugger gives a task a number that no other    *)
(* task has, and may give the number again once the task is closed.        *)
(***************************************************************************)
EXTENDS Naturals

CONSTANTS
  Task,     \* task objects that clone may make
  Main,     \* the task the program starts in
  Pid,      \* task numbers
  NoPid, NoTask

ASSUME SchedAssumption == Main \notin Task /\ NoPid \notin Pid /\ NoTask \notin Task

VARIABLES
  state,    \* of a task: free -> forked -> running -> done -> closed
  id,       \* the number of a task
  tasks,    \* s.tasks, NoTask where the map has no key
  reaper,   \* of a task: none -> waiting -> closing -> gone
  pc,       \* of a caller of clone
  child,    \* the task that the caller is working on
  vfork,    \* whether the caller passed CLONE_VFORK
  told,     \* tasks whose number has been written to child_tid
  closes    \* history: how often Close has been called on a task

vars == <<state, id, tasks, reaper, pc, child, vfork, told, closes>>

Caller == Task \cup {Main}

Init ==
  /\ state = [k \in Task |-> "free"] /\ id = [k \in Task |-> NoPid]
  /\ tasks = [p \in Pid |-> NoTask]
  /\ reaper = [k \in Task |-> "none"]
  /\ pc = [c \in Caller |-> "guest"] /\ child = [c \in Caller |-> NoTask]
  /\ vfork = [c \in Caller |-> FALSE]
  /\ told = {} /\ closes = [k \in Task |-> 0]

\* Numbers that the debugger may give: those of no task that is still open.
FreePid == Pid \ {id[k] : k \in {j \in Task : state[j] \notin {"free", "closed"}}}

\* task.Close: the debugger lets go of the task and of its number.
CloseTask(k) ==
  /\ state' = [state EXCEPT ![k] = "closed"]
  /\ closes' = [closes EXCEPT ![k] = @ + 1]

Return(c) ==
  /\ pc' = [pc EXCEPT ![c] = "guest"]
  /\ child' = [child EXCEPT ![c] = NoTask]
  /\ vfork' = [vfork EXCEPT ![c] = FALSE]

\* TaskFork succeeds; when it does not, clone returns EAGAIN at once.
Clone(c) ==
  /\ pc[c] = "guest" /\ c \in {Main} \cup {k \in Task : state[k] = "running"}
  /\ \E k \in Task, p \in FreePid, v \in BOOLEAN :
       /\ state[k] = "free"
       /\ state' = [state EXCEPT ![k] = "forked"]
       /\ id' = [id EXCEPT ![k] = p]
       /\ child' = [child EXCEPT ![c] = k]
       /\ vfork' = [vfork EXCEPT ![c] = v]
       /\ pc' = [pc EXCEPT ![c] = "prepare"]
  /\ UNCHANGED <<tasks, reaper, told, closes>>

\* Mutant of CloneError: the error return leaves the task open.
CloneErrorLeaks(c) ==
  /\ pc[c] = "prepare"
  /\ Return(c)
  /\ UNCHANGED <<state, id, tasks, reaper, told, closes>>

\* CallTaskOf, for a child with a stack of its own, or Run fails.
CloneError(c) ==
  /\ pc[c] = "prepare"
  /\ CloseTask(child[c])
  /\ Return(c)
  /\ UNCHANGED <<id, tasks, reaper, told>>

\* The registers and the thread pointer are set, and the task runs: from here
\* on its guest code goes on concurrently with the rest of clone.
Run(c) ==
  /\ pc[c] = "prepare"
  /\ state' = [state EXCEPT ![child[c]] = "running"]
  /\ pc' = [pc EXCEPT ![c] = "started"]
  /\ UNCHANGED <<id, tasks, reaper, child, vfork, told, closes>>

\* The number is written to child_tid, if the guest passed one.
WriteTid(c) ==
  /\ pc[c] = "started"
  /\ \E w \in SUBSET {child[c]} : told' = told \cup w
  /\ pc' = [pc EXCEPT ![c] = IF vfork[c] THEN "wait" ELSE "store"]
  /\ UNCHANGED <<state, id, tasks, reaper, child, vfork, closes>>

\* Mutant of WaitVfork: the parent does not wait.
WaitVforkEarly(c) ==
  /\ pc[c] = "wait"
  /\ CloseTask(child[c])
  /\ Return(c)
  /\ UNCHANGED <<id, tasks, reaper, told>>

\* CLONE_VFORK: <-task.Done(), then Close, then the number is returned.
WaitVfork(c) ==
  /\ pc[c] = "wait" /\ state[child[c]] = "done"
  /\ CloseTask(child[c])
  /\ Return(c)
  /\ UNCHANGED <<id, tasks, reaper, told>>

\* Mutant of Store: nobody waits for the task.
StoreUnreaped(c) ==
  /\ pc[c] = "store"
  /\ tasks' = [tasks EXCEPT ![id[child[c]]] = child[c]]
  /\ Return(c)
  /\ UNCHANGED <<state, id, reaper, told, closes>>

\* s.tasks.Store, and the goroutine that reaps the task.
Store(c) ==
  /\ pc[c] = "store"
  /\ tasks' = [tasks EXCEPT ![id[child[c]]] = child[c]]
  /\ reaper' = [reaper EXCEPT ![child[c]] = "waiting"]
  /\ Return(c)
  /\ UNCHANGED <<state, id, told, closes>>

\* Mutant of ReapDelete: the task, and its number, go before the entry.
ReapDeleteClosed(k) ==
  /\ reaper[k] = "waiting" /\ state[k] = "done"
  /\ CloseTask(k)
  /\ reaper' = [reaper EXCEPT ![k] = "closing"]
  /\ UNCHANGED <<id, tasks, pc, child, vfork, told>>

\* The reaper: <-task.Done(), then s.tasks.Delete(pid) ...
ReapDelete(k) ==
  /\ reaper[k] = "waiting" /\ state[k] = "done"
  /\ tasks' = [tasks EXCEPT ![id[k]] = NoTask]
  /\ reaper' = [reaper EXCEPT ![k] = "closing"]
  /\ UNCHANGED <<state, id, pc, child, vfork, told, closes>>

\* ... and then task.Close().
ReapClose(k) ==
  /\ reaper[k] = "closing"
  /\ CloseTask(k)
  /\ reaper' = [reaper EXCEPT ![k] = "gone"]
  /\ UNCHANGED <<id, tasks, pc, child, vfork, told>>

\* The guest code of a task ends; not in the middle of a call of its own.
Finish(k) ==
  /\ state[k] = "running" /\ pc[k] = "guest"
  /\ state' = [state EXCEPT ![k] = "done"]
  /\ UNCHANGED <<id, tasks, reaper, pc, child, vfork, told, closes>>

\* The handler goes on.
Step(c) == CloneError(c) \/ Run(c) \/ WriteTid(c) \/ WaitVfork(c) \/ Store(c)

Reap(k) == ReapDelete(k) \/ ReapClose(k)

Next ==
  \/ \E c \in Caller : Clone(c) \/ Step(c)
  \/ \E k \in Task : Finish(k) \/ Reap(k)

Spec == Init /\ [][Next]_vars

(***************************************************************************)
(* Fairness: goroutines that can run are run.  Guest code promises         *)
(* nothing, in particular no task has to end.                              *)
(***************************************************************************)
FairSpec ==
  /\ Spec
  /\ \A c \in Caller : WF_vars(Step(c))
  /\ \A k \in Task : WF_vars(Reap(k))
-----------------------------------------------------------------------------
\* The variables have their types.
TypeOK ==
  /\ state \in [Task -> {"free", "forked", "running", "done", "closed"}]
  /\ id \in [Task -> Pid \cup {NoPid}]
  /\ tasks \in [Pid -> Task \cup {NoTask}]
  /\ reaper \in [Task -> {"none", "waiting", "closing", "gone"}]
  /\ pc \in [Caller -> {"guest", "prepare", "started", "wait", "store"}]
  /\ child \in [Caller -> Task \cup {NoTask}]
  /\ vfork \in [Caller -> BOOLEAN]
  /\ told \subseteq Task /\ closes \in [Task -> Nat]

\* The map is exact: it holds a task under its number from the end of its clone
\* until its reaper deletes it, although numbers are given again.  No entry is a
\* closed task, and no reaper deletes the entry of a later task with its number.
TasksExact ==
  \A p \in Pid, k \in Task :
    tasks[p] = k <=> (reaper[k] = "waiting" /\ id[k] = p)

\* A task is closed at most once, whichever of the error returns, the waiting
\* parent and the reaper does it, and only when its guest code is not running.
ClosedOnce ==
  [][\A k \in Task : closes'[k] # closes[k] =>
        closes[k] = 0 /\ state[k] \in {"forked", "done"}]_vars

\* Nobody loses a task: one that ends is closed in the end, and a forked one is
\* run or closed, whether its parent waits for it or returned long ago.
EveryTaskClosed ==
  \A k \in Task : /\ state[k] = "done" ~> state[k] = "closed"
                  /\ state[k] = "forked" ~> state[k] # "forked"
(***************************************************************************)
(* The inductive invariant.                                                *)
(***************************************************************************)
\* A call holds the task it forked, which nobody else does.
CallerInv ==
  \A c \in Caller :
    /\ pc[c] = "guest" <=> child[c] = NoTask
    /\ pc[c] = "prepare" => state[child[c]] = "forked"
    /\ pc[c] \in {"started", "wait", "store"} => state[child[c]] \in {"running", "done"}
    /\ pc[c] # "guest" => reaper[child[c]] = "none"
    /\ \A d \in Caller : c # d /\ child[c] = child[d] => child[c] = NoTask
    /\ c \in Task /\ pc[c] # "guest" => state[c] = "running"

\* An open task has a number of its own, and is closed by whoever holds it.
TaskInv ==
  \A k \in Task :
    /\ closes[k] = IF state[k] = "closed" THEN 1 ELSE 0
    /\ state[k] \notin {"free", "closed"} =>
         /\ id[k] \in Pid
         /\ \A j \in Task : j # k /\ id[j] = id[k] => state[j] \in {"free", "closed"}
         /\ reaper[k] \in {"waiting", "closing"} \/ \E c \in Caller : child[c] = k
    /\ reaper[k] = "waiting" => state[k] \in {"running", "done"}
    /\ reaper[k] = "closing" => state[k] = "done"
    /\ reaper[k] = "gone" => state[k] = "closed"

\* All that the map and the reapers rely on.
IndInv == TypeOK /\ CallerInv /\ TaskInv /\ TasksExact

=============================================================================
