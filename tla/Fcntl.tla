------------------------------- MODULE Fcntl -------------------------------
(***************************************************************************)
(* kernel/fcntl.go and socket.go: file descriptors and their flag words.   *)
(*                                                                         *)
(* A descriptor lives in two tables: the debugger's table maps it to a     *)
(* file (external, each access is atomic), and fcntl.flags maps it to the  *)
(* flag word of open, fcntl and dup3 (guarded by fcntl.rw).  No lock spans *)
(* the two, so every handler that changes both has a window between them   *)
(* in which handlers of other threads run.  The critical sections of       *)
(* fcntl.rw contain a single map access, so each is one step; a panic in   *)
(* one leaves the lock held, because it is not released by a defer.        *)
(***************************************************************************)
EXTENDS FiniteSets

CONSTANTS
  Thread,      \* guest threads, each served by a goroutine
  FD,          \* descriptor numbers the debugger's table can hand out
  File,        \* identities of open file objects
  Bit,         \* bits of a flag word
  O_CLOEXEC,   \* the bit that F_GETFD and F_SETFD are about
  Arg,         \* flag words the guest passes, each the set of its one-bits
  NoFile, NoFD

ASSUME FcntlAssumption ==
  /\ O_CLOEXEC \in Bit /\ Arg \subseteq SUBSET Bit
  /\ NoFile \notin File /\ NoFD \notin FD \cup Bit

VARIABLES
  file,      \* the debugger's table: descriptor -> file, NoFile where free
  opened,    \* files that have not been closed
  live,      \* FALSE once dtor has dropped the flags map
  wedged,    \* a goroutine panicked while it held f.rw
  flags,     \* f.flags, NoEntry where the map has no key
  pc, call,  \* per thread: control, and the descriptors and flags of its call
  shared,    \* history: files that two descriptors have referred to
  want,      \* history: the flag word of the last call on the descriptor
  raced      \* history: descriptors where the windows of two calls met since
             \* the last undisturbed call that gives the flag word afresh

vars == <<file, opened, live, wedged, flags, pc, call, shared, want, raced>>

\* No key in the map: not a flag word.
NoEntry == {NoFD}

Args(fd, new, old, a) == [fd |-> fd, new |-> new, old |-> old, arg |-> a]

NoCall == Args(NoFD, NoFD, NoFile, {})

(***************************************************************************)
(* Control.  A call at one of Renewing has changed the debugger's table    *)
(* and is about to give the descriptor a flag word or to delete it.        *)
(***************************************************************************)
Renewing == {"setNew", "setPipe", "copy", "closeFile", "delete"}

Checked == {"F_DUPFD", "F_GETFD", "F_SETFD", "F_GETFL", "F_SETFL"}

PC == {"idle", "creating", "creatingPipe", "panicked"}
        \cup Checked \cup Renewing

\* The descriptors whose two tables the call of t is between.
Window(t) ==
  IF pc[t] \in {"idle", "creating", "panicked"} THEN {}
  ELSE {call[t].fd, call[t].new} \ {NoFD}

Others(t) == UNION {Window(u) : u \in Thread \ {t}}

\* What a read of the Go map gives: the zero word where there is no entry.
Word(e) == IF e = NoEntry THEN {} ELSE e

Init ==
  /\ file = [fd \in FD |-> NoFile] /\ opened = {}
  /\ live = TRUE /\ wedged = FALSE
  /\ flags = [fd \in FD |-> NoEntry]
  /\ pc = [t \in Thread |-> "idle"] /\ call = [t \in Thread |-> NoCall]
  /\ shared = {} /\ want = flags /\ raced = {}

Goto(t, p, args) == pc' = [pc EXCEPT ![t] = p] /\ call' = [call EXCEPT ![t] = args]

Return(t) == Goto(t, "idle", NoCall)

(***************************************************************************)
(* The debugger's side.                                                    *)
(***************************************************************************)
\* Files that nothing refers to, from which an open or a dup takes a new one.
Unused == File \ ({file[fd] : fd \in FD} \cup {call[t].old : t \in Thread} \cup opened)

\* CreateFileDescriptor: f gets some free number.
CreateFileDescriptor(fd, f) ==
  /\ file[fd] = NoFile /\ f \in Unused
  /\ file' = [file EXCEPT ![fd] = f] /\ opened' = opened \cup {f}

\* DupFile and Dup2File: new refers to the file of fd, or to a new object for
\* the same file; which of the two is the debugger's business.  A file that new
\* referred to is closed.
Duplicate(fd, new) ==
  /\ file[fd] # NoFile
  /\ \E f \in Unused \cup {file[fd]} :
       /\ file' = [file EXCEPT ![new] = f]
       /\ opened' = IF f = file[fd] THEN opened \ {file[new]}
                    ELSE (opened \ {file[new]}) \cup {f}
       /\ shared' = IF f = file[fd] THEN shared \cup {f} ELSE shared \ {f}

(***************************************************************************)
(* History.  A call enters its window on fd; Renew if it will end by       *)
(* giving the flag word afresh, whatever is there.                         *)
(***************************************************************************)
Enter(t, fd) == raced' = IF fd \in Others(t) THEN raced \cup {fd} ELSE raced

Renew(t, fd, word) ==
  /\ raced' = IF fd \in Others(t) THEN raced \cup {fd} ELSE raced \ {fd}
  /\ want' = [want EXCEPT ![fd] = word]

(***************************************************************************)
(* A critical section of f.rw that assigns to f.flags.  After dtor the map *)
(* is nil: the assignment panics and the lock is never released.           *)
(***************************************************************************)
Assign(t, new) ==
  /\ ~wedged
  /\ \/ /\ live
        /\ flags' = new
        /\ Return(t)
        /\ UNCHANGED wedged
     \/ /\ ~live
        /\ wedged' = TRUE
        /\ Goto(t, "panicked", NoCall)
        /\ UNCHANGED flags
  /\ UNCHANGED <<file, opened, live, shared>>

(***************************************************************************)
(* open and openat.  The path is read and, for openat, dfd is looked up:   *)
(* what is found there is used later, even if dfd is closed meanwhile, and *)
(* an error leaves the thread idle.  Then the file is opened and gets a    *)
(* descriptor; then the flag word is stored.                               *)
(***************************************************************************)
Openat(t) ==
  /\ pc[t] = "idle"
  /\ \E a \in Arg : Goto(t, "creating", Args(NoFD, NoFD, NoFile, a))
  /\ UNCHANGED <<file, opened, live, wedged, flags, shared, want, raced>>

OpenError(t) ==
  /\ pc[t] = "creating"
  /\ Return(t)
  /\ UNCHANGED <<file, opened, live, wedged, flags, shared, want, raced>>

Create(t) ==
  /\ pc[t] = "creating"
  /\ \E fd \in FD, f \in File :
       /\ CreateFileDescriptor(fd, f)
       /\ Renew(t, fd, call[t].arg)
       /\ Goto(t, "setNew", Args(NoFD, fd, NoFile, call[t].arg))
       /\ shared' = shared \ {f}
  /\ UNCHANGED <<live, wedged, flags>>

SetNew(t) ==
  /\ pc[t] = "setNew"
  /\ Assign(t, [flags EXCEPT ![call[t].new] = call[t].arg])
  /\ UNCHANGED <<want, raced>>

(***************************************************************************)
(* pipe2: two descriptors, one after the other, then both flag words.      *)
(***************************************************************************)
Pipe2(t) ==
  /\ pc[t] = "idle"
  /\ \E fd \in FD, f \in File, a \in Arg :
       /\ CreateFileDescriptor(fd, f)
       /\ Renew(t, fd, a)
       /\ Goto(t, "creatingPipe", Args(fd, NoFD, NoFile, a))
       /\ shared' = shared \ {f}
  /\ UNCHANGED <<live, wedged, flags>>

PipeWriteEnd(t) ==
  /\ pc[t] = "creatingPipe"
  /\ \E fd \in FD, f \in File :
       /\ CreateFileDescriptor(fd, f)
       /\ Renew(t, fd, call[t].arg)
       /\ Goto(t, "setPipe", Args(call[t].fd, fd, NoFile, call[t].arg))
       /\ shared' = shared \ {f}
  /\ UNCHANGED <<live, wedged, flags>>

SetPipe(t) ==
  /\ pc[t] = "setPipe"
  /\ Assign(t, [fd \in FD |-> IF fd \in Window(t) THEN call[t].arg ELSE flags[fd]])
  /\ UNCHANGED <<want, raced>>

(***************************************************************************)
(* socket: a descriptor and no entry in f.flags.  The zero word is only    *)
(* what the guest sees if nothing was left there.                          *)
(***************************************************************************)
Socket(t) ==
  /\ pc[t] = "idle"
  /\ \E fd \in FD, f \in File :
       /\ CreateFileDescriptor(fd, f)
       /\ Enter(t, fd)
       /\ want' = [want EXCEPT ![fd] = NoEntry]
       /\ shared' = shared \ {f}
  /\ UNCHANGED <<live, wedged, flags, pc, call>>

\* Mutant of Unsupported: the lock is taken before the command is looked at.
UnsupportedLocked(t) ==
  /\ pc[t] = "idle"
  /\ pc' = [pc EXCEPT ![t] = "panicked"]
  /\ wedged' = TRUE
  /\ UNCHANGED <<file, opened, live, flags, call, shared, want, raced>>

\* socket(AF_UNSPEC), and fcntl with a command it does not know: a panic with
\* no lock held.
Unsupported(t) ==
  /\ pc[t] = "idle"
  /\ pc' = [pc EXCEPT ![t] = "panicked"]
  /\ UNCHANGED <<file, opened, live, wedged, flags, call, shared, want, raced>>

(***************************************************************************)
(* close: out of the debugger's table, then file.Close, then out of flags. *)
(***************************************************************************)
\* Mutant of Close: the file is closed while the descriptor still has it.
CloseUnlisted(t) ==
  /\ pc[t] = "idle"
  /\ \E fd \in FD :
       /\ file[fd] # NoFile
       /\ opened' = opened \ {file[fd]}
       /\ Renew(t, fd, NoEntry)
       /\ Goto(t, "delete", Args(fd, NoFD, NoFile, {}))
  /\ UNCHANGED <<file, live, wedged, flags, shared>>

\* A descriptor that is not in use returns EBADF at once.
Close(t) ==
  /\ pc[t] = "idle"
  /\ \E fd \in FD :
       /\ file[fd] # NoFile
       /\ file' = [file EXCEPT ![fd] = NoFile]
       /\ Renew(t, fd, NoEntry)
       /\ Goto(t, "closeFile", Args(fd, NoFD, file[fd], {}))
  /\ UNCHANGED <<opened, live, wedged, flags, shared>>

\* Mutant of CloseFile: the file of the descriptor is forgotten.
CloseFileLeaks(t) ==
  /\ pc[t] = "closeFile"
  /\ Goto(t, "delete", Args(call[t].fd, NoFD, NoFile, {}))
  /\ UNCHANGED <<file, opened, live, wedged, flags, shared, want, raced>>

\* file.Close()
CloseFile(t) ==
  /\ pc[t] = "closeFile"
  /\ opened' = opened \ {call[t].old}
  /\ Goto(t, "delete", Args(call[t].fd, NoFD, NoFile, {}))
  /\ UNCHANGED <<file, live, wedged, flags, shared, want, raced>>

\* Mutant of Delete: the flag word outlives the descriptor.
DeleteForgotten(t) ==
  /\ pc[t] = "delete" /\ ~wedged
  /\ Return(t)
  /\ UNCHANGED <<file, opened, live, wedged, flags, shared, want, raced>>

\* delete(f.flags, fd): nothing happens if the map is nil.
Delete(t) ==
  /\ pc[t] = "delete" /\ ~wedged
  /\ flags' = [flags EXCEPT ![call[t].fd] = NoEntry]
  /\ Return(t)
  /\ UNCHANGED <<file, opened, live, wedged, shared, want, raced>>

(***************************************************************************)
(* dup3: newfd becomes a duplicate of oldfd, and gets the flags argument.  *)
(***************************************************************************)
Dup3(t) ==
  /\ pc[t] = "idle"
  /\ \E fd \in FD, new \in FD, a \in Arg :
       /\ \/ fd # new /\ Duplicate(fd, new)
          \/ fd = new /\ file[fd] # NoFile /\ UNCHANGED <<file, opened, shared>>
       /\ Renew(t, new, a)
       /\ Goto(t, "setNew", Args(NoFD, new, NoFile, a))
  /\ UNCHANGED <<live, wedged, flags>>

(***************************************************************************)
(* fcntl: the descriptor is looked up, then the command runs.  The lock    *)
(* commands and a failed lookup return at once and change nothing.         *)
(***************************************************************************)
Fcntl(t) ==
  /\ pc[t] = "idle"
  /\ \E fd \in FD, cmd \in Checked, a \in Arg :
       /\ file[fd] # NoFile
       /\ Enter(t, fd)
       /\ Goto(t, cmd, Args(fd, NoFD, NoFile, IF cmd = "F_SETFL" THEN a ELSE {}))
  /\ UNCHANGED <<file, opened, live, wedged, flags, shared, want>>

\* F_DUPFD: fd may have been closed since it was looked up.
DupClosed(t) ==
  /\ pc[t] = "F_DUPFD"
  /\ file[call[t].fd] = NoFile
  /\ Return(t)
  /\ UNCHANGED <<file, opened, live, wedged, flags, shared, want, raced>>

DupFile(t) ==
  /\ pc[t] = "F_DUPFD"
  /\ \E new \in FD :
       /\ file[new] = NoFile
       /\ Duplicate(call[t].fd, new)
       /\ Renew(t, new, Word(want[call[t].fd]))
       /\ Goto(t, "copy", Args(call[t].fd, new, NoFile, {}))
  /\ UNCHANGED <<live, wedged, flags>>

\* The flag word is copied from whatever the map holds for fd by now.
Copy(t) ==
  /\ pc[t] = "copy"
  /\ Assign(t, [flags EXCEPT ![call[t].new] = Word(flags[call[t].fd])])
  /\ raced' = IF live /\ call[t].fd \in raced THEN raced \cup {call[t].new} ELSE raced
  /\ UNCHANGED want

\* F_GETFD and F_GETFL: a read of the map, nil or not, under the read lock.
Get(t) ==
  /\ pc[t] \in {"F_GETFD", "F_GETFL"} /\ ~wedged
  /\ Return(t)
  /\ UNCHANGED <<file, opened, live, wedged, flags, shared, want, raced>>

\* F_SETFD sets close-on-exec whatever its argument; F_SETFL replaces the word.
NewWord(t, word) ==
  IF pc[t] = "F_SETFD" THEN Word(word) \cup {O_CLOEXEC} ELSE call[t].arg

Set(t) ==
  /\ pc[t] \in {"F_SETFD", "F_SETFL"}
  /\ LET fd == call[t].fd IN
       /\ Assign(t, [flags EXCEPT ![fd] = NewWord(t, flags[fd])])
       /\ want' = IF live THEN [want EXCEPT ![fd] = NewWord(t, want[fd])] ELSE want
  /\ UNCHANGED raced

(***************************************************************************)
(* dtor, called by Syscall.Close, takes no lock.                           *)
(***************************************************************************)
Dtor ==
  /\ live
  /\ live' = FALSE
  /\ flags' = [fd \in FD |-> NoEntry]
  /\ UNCHANGED <<file, opened, wedged, pc, call, shared, want, raced>>

\* Guest code enters a handler.
Guest(t) ==
  \/ Openat(t) \/ Pipe2(t) \/ Socket(t) \/ Close(t) \/ Dup3(t) \/ Fcntl(t)
  \/ Unsupported(t)

\* The goroutine of t goes on with the call it is in.
Step(t) ==
  \/ OpenError(t) \/ Create(t) \/ SetNew(t) \/ PipeWriteEnd(t) \/ SetPipe(t)
  \/ CloseFile(t) \/ Delete(t)
  \/ DupClosed(t) \/ DupFile(t) \/ Copy(t) \/ Get(t) \/ Set(t)

Next == Dtor \/ \E t \in Thread : Guest(t) \/ Step(t)

Spec == Init /\ [][Next]_vars
-----------------------------------------------------------------------------
Call == [fd : FD \cup {NoFD}, new : FD \cup {NoFD}, old : File \cup {NoFile}, arg : SUBSET Bit]

Entry == (SUBSET Bit) \cup {NoEntry}

\* The variables have their types: a descriptor has one file, the flag words
\* are sets of bits, and a call holds the descriptors it is working on.
TypeOK ==
  /\ file \in [FD -> File \cup {NoFile}] /\ opened \subseteq File
  /\ live \in BOOLEAN /\ wedged \in BOOLEAN
  /\ flags \in [FD -> Entry] /\ want \in [FD -> Entry]
  /\ pc \in [Thread -> PC] /\ call \in [Thread -> Call]
  /\ shared \subseteq File /\ raced \subseteq FD

\* The descriptors to which the call of t is about to give a flag word.
Renewed(t) ==
  IF pc[t] \in {"setNew", "copy"} THEN {call[t].new}
  ELSE IF pc[t] \in {"closeFile", "delete", "creatingPipe", "setPipe"} THEN Window(t)
  ELSE {}

\* The flag words are right without a lock across the two tables, as long as
\* calls on one descriptor do not overlap: a descriptor that no call is renewing
\* has exactly the word of the last call on it, and a free one has no entry that
\* a socket (which stores none) could inherit.  Overlapping calls (a close and
\* an open that gets the same number, an F_SETFL that outlives the close) may
\* leave a wrong word, and the next undisturbed open, dup3, pipe2 or close
\* mends it.
FlagsExact ==
  live => \A fd \in FD \ raced :
            (\A t \in Thread : fd \notin Renewed(t)) => flags[fd] = want[fd]

\* Only a descriptor that was duplicated can be left with a closed file:
\* close takes the descriptor out of the debugger's table before file.Close, so
\* no other thread finds a closed file there.
DescriptorUsable ==
  \A fd \in FD : file[fd] \in opened \cup shared \cup {NoFile}

\* No file is left open without a descriptor: of two threads that close the
\* same descriptor one gets its file, and it closes it.
FilesReleased ==
  \A f \in opened : \/ \E fd \in FD : file[fd] = f
                    \/ \E t \in Thread : pc[t] = "closeFile" /\ call[t].old = f

\* Until dtor has run, no panic leaves f.rw locked, so no handler is blocked by
\* it; after dtor a handler that assigns to the nil map does.
LockHeldOnlyAfterDtor == wedged => ~live
(***************************************************************************)
(* The inductive invariant.                                                *)
(***************************************************************************)
\* What a call holds at each point of control.
ControlInv ==
  \A t \in Thread :
    /\ (call[t].fd = NoFD) <=> (pc[t] \in {"idle", "creating", "setNew", "panicked"})
    /\ (call[t].new = NoFD) <=> (pc[t] \notin {"setNew", "setPipe", "copy"})
    /\ (call[t].old = NoFile) <=> (pc[t] # "closeFile")
    /\ pc[t] = "copy" => call[t].fd # call[t].new

\* The history misses no overlap.
RaceRecorded ==
  \A t, u \in Thread : t # u => Window(t) \cap Window(u) \subseteq raced

\* The word that a call is about to leave in f.flags is the wanted one.
PendingWord(t) ==
  \A fd \in Renewed(t) \ raced :
    /\ pc[t] \in {"closeFile", "delete"} => want[fd] = NoEntry
    /\ pc[t] \in {"setNew", "creatingPipe", "setPipe"} => want[fd] = call[t].arg
    /\ pc[t] = "copy" /\ call[t].fd \notin raced => want[fd] = Word(want[call[t].fd])

PendingWanted == \A t \in Thread : PendingWord(t)

\* A free number has nothing wanted of it, and a call of fcntl is at work on a
\* descriptor that is still in use.
FreeInv ==
  /\ \A fd \in FD \ raced : file[fd] = NoFile => want[fd] = NoEntry
  /\ \A t \in Thread :
       pc[t] \in Checked /\ call[t].fd \notin raced => file[call[t].fd] # NoFile

\* Only a duplicate shares its file with another descriptor or a call of close.
FileInv ==
  /\ \A fd, fe \in FD : fd # fe /\ file[fd] = file[fe] => file[fd] \in shared \cup {NoFile}
  /\ \A t \in Thread : pc[t] = "closeFile" =>
       \/ call[t].old \in shared
       \/ \A fd \in FD : file[fd] # call[t].old

\* All that the two tables rely on, and the properties above.
IndInv ==
  /\ TypeOK /\ ControlInv /\ RaceRecorded /\ PendingWanted /\ FreeInv /\ FileInv
  /\ FlagsExact /\ DescriptorUsable /\ FilesReleased /\ LockHeldOnlyAfterDtor

=============================================================================
