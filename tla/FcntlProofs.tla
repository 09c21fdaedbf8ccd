----------------------------- MODULE FcntlProofs ----------------------------
(***************************************************************************)
(* Proofs about Fcntl, for any number of threads, descriptors and files:   *)
(* types, the history of overlapping calls, one lemma per step of the      *)
(* handlers, the inductive invariant and what follows from it.             *)
(***************************************************************************)
EXTENDS Fcntl, TLAPS

(***************************************************************************)
(* Types.                                                                  *)
(***************************************************************************)
\* The entries of the flags map, and what is read from them.
LEMMA EntryFacts ==
  /\ NoEntry \in Entry
  /\ \A a \in SUBSET Bit : a \in Entry
  /\ \A e \in Entry : Word(e) \in SUBSET Bit
<1>1. {} \in SUBSET Bit
  BY Zenon
<1>2. \A e \in Entry : e # NoEntry => e \in SUBSET Bit
  BY Zenon DEF Entry
<1> QED
  BY <1>1, <1>2, Zenon DEF Entry, Word

\* What a call holds.
LEMMA CallFacts ==
  /\ \A fd, new \in FD \cup {NoFD}, old \in File \cup {NoFile}, a \in SUBSET Bit :
       Args(fd, new, old, a) \in Call
  /\ \A x \in Call : /\ x.fd \in FD \cup {NoFD} /\ x.new \in FD \cup {NoFD}
                     /\ x.old \in File \cup {NoFile} /\ x.arg \in SUBSET Bit
  BY Zenon DEF Args, Call

\* A step to a point of control, with what the call holds there.
LEMMA GotoType ==
  ASSUME TypeOK, NEW t \in Thread, NEW p \in PC, NEW args \in Call, Goto(t, p, args)
  PROVE  pc' \in [Thread -> PC] /\ call' \in [Thread -> Call]
  BY Zenon DEF TypeOK, Goto

\* A return, and a panic, hold nothing.
LEMMA NoCallType == NoCall \in Call /\ "idle" \in PC /\ "panicked" \in PC
<1>1. {} \in SUBSET Bit
  BY Zenon
<1> QED
  BY Zenon, <1>1, CallFacts DEF NoCall, PC

\* A critical section that assigns a well-typed map.
LEMMA AssignType ==
  ASSUME TypeOK, NEW t \in Thread, NEW new \in [FD -> Entry], Assign(t, new),
         want' \in [FD -> Entry], raced' \subseteq FD
  PROVE  TypeOK'
<1>1. pc' \in [Thread -> PC] /\ call' \in [Thread -> Call]
  BY GotoType, NoCallType, Zenon DEF Assign, Return
<1>2. flags' \in [FD -> Entry] /\ wedged' \in BOOLEAN
  BY Zenon DEF Assign, TypeOK
<1> QED
  BY <1>1, <1>2, Zenon DEF Assign, TypeOK

(***************************************************************************)
(* The history.  What every step of t does to it, for the others.          *)
(***************************************************************************)
\* The other threads stay where they are.
Frame(t) == \A u \in Thread \ {t} : pc'[u] = pc[u] /\ call'[u] = call[u]

\* An overlap is recorded, a recorded one is forgotten only when nobody is in
\* it, and the wanted word changes only then, or in a recorded overlap.
Tracked(t) ==
  /\ \A fd \in raced \ raced' : fd \notin Others(t)
  /\ \A fd \in Window(t)' \ Window(t) : fd \in Others(t) => fd \in raced'
  /\ \A fd \in FD : want'[fd] # want[fd] => fd \notin Others(t) \/ fd \in raced'

\* A descriptor is left alone, or has the wanted word after the step, or is
\* about to have it, or is in a recorded overlap.
Settled(t) ==
  live' => \A fd \in FD :
    \/ fd \in raced' \cup Renewed(t)'
    \/ flags'[fd] = want'[fd]
    \/ /\ flags'[fd] = flags[fd] /\ want'[fd] = want[fd]
       /\ fd \notin raced \cup Renewed(t)

\* Windows depend on the thread's own control only.
LEMMA Kept ==
  ASSUME NEW t \in Thread, Frame(t), NEW u \in Thread \ {t}
  PROVE  Window(u)' = Window(u) /\ Renewed(u)' = Renewed(u)
  BY Zenon DEF Frame, Window, Renewed

\* A thread is among the others of any other thread.
LEMMA OthersFact ==
  ASSUME NEW t \in Thread
  PROVE  \A fd : fd \in Others(t) <=> \E u \in Thread \ {t} : fd \in Window(u)
  BY Zenon DEF Others

\* What a call renews is in its window.
LEMMA RenewedFact ==
  ASSUME TypeOK, ControlInv, NEW t \in Thread
  PROVE  /\ Renewed(t) \subseteq Window(t) /\ Window(t) \subseteq FD
         /\ pc[t] = "copy" => call[t].fd \in Window(t)
<1>1. /\ call[t].fd \in FD \cup {NoFD} /\ call[t].new \in FD \cup {NoFD}
      /\ pc[t] \in {"setNew", "copy"} => call[t].new # NoFD
      /\ pc[t] = "copy" => call[t].fd # NoFD
  BY CallFacts, Zenon DEF TypeOK, ControlInv
<1> QED
  BY <1>1, Zenon DEF Renewed, Window

\* No overlap escapes the history.
LEMMA RaceStep ==
  ASSUME IndInv, NEW t \in Thread, Frame(t), Tracked(t)
  PROVE  RaceRecorded'
<1> SUFFICES ASSUME NEW u \in Thread, NEW v \in Thread, u # v,
                    NEW fd \in Window(u)' \cap Window(v)'
             PROVE  fd \in raced'
  BY Zenon DEF RaceRecorded
<1>1. ASSUME NEW w \in Thread, w # t, fd \in Window(t)', fd \in Window(w)'
      PROVE  fd \in raced'
  <2>1. fd \in Window(w) /\ fd \in Others(t)
    BY <1>1, Kept, OthersFact
  <2> QED
    BY <1>1, <2>1, Zenon DEF IndInv, RaceRecorded, Tracked
<1>2. CASE u # t /\ v # t
  <2>1. fd \in Window(u) /\ fd \in Window(v) /\ fd \in Others(t)
    BY <1>2, Kept, OthersFact
  <2> QED
    BY <2>1, Zenon DEF IndInv, RaceRecorded, Tracked
<1> QED
  BY <1>1, <1>2, Zenon

\* The words that the other calls are about to leave stay the wanted ones.
LEMMA PendingStep ==
  ASSUME IndInv, NEW t \in Thread, Frame(t), Tracked(t), PendingWord(t)'
  PROVE  PendingWanted'
<1> SUFFICES ASSUME NEW u \in Thread, u # t PROVE PendingWord(u)'
  BY Zenon DEF PendingWanted
<1>1. /\ pc'[u] = pc[u] /\ call'[u] = call[u]
      /\ Renewed(u)' = Renewed(u)
  BY Kept, Zenon DEF Frame
<1>2. ASSUME NEW fd \in Window(u), fd \notin raced'
      PROVE  fd \notin raced /\ want'[fd] = want[fd]
  BY <1>2, OthersFact, RenewedFact, Zenon DEF Tracked, IndInv
<1>3. ASSUME NEW fd \in Renewed(u), fd \notin raced'
      PROVE  fd \notin raced /\ want'[fd] = want[fd]
  BY <1>2, <1>3, RenewedFact, Zenon DEF IndInv
<1>4. pc[u] = "copy" => call[u].fd \in Window(u)
  BY RenewedFact, Zenon DEF IndInv
<1>5. PendingWord(u)
  BY Zenon DEF IndInv, PendingWanted
<1> QED
  BY <1>1, <1>2, <1>3, <1>4, <1>5 DEF PendingWord, Word

\* The flag words stay exact.
LEMMA FlagsStep ==
  ASSUME IndInv, NEW t \in Thread, Frame(t), Settled(t), live' => live
  PROVE  FlagsExact'
<1> SUFFICES ASSUME live', NEW fd \in FD, fd \notin raced',
                    \A u \in Thread : fd \notin Renewed(u)'
             PROVE  flags'[fd] = want'[fd]
  BY Zenon DEF FlagsExact
<1>1. CASE fd \notin Renewed(t) \cup raced /\ flags'[fd] = flags[fd] /\ want'[fd] = want[fd]
  <2>1. \A u \in Thread : fd \notin Renewed(u)
    BY <1>1, Kept, Zenon
  <2> QED
    BY <1>1, <2>1, Zenon DEF IndInv, FlagsExact
<1> QED
  BY <1>1, Zenon DEF Settled

\* A call that renews another descriptor, or none, sees an exact word.
LEMMA OwnExact ==
  ASSUME IndInv, live, NEW t \in Thread, NEW fd \in Window(t),
         fd \notin raced, fd \notin Renewed(t)
  PROVE  flags[fd] = want[fd]
<1>1. \A u \in Thread : fd \notin Renewed(u)
  BY RenewedFact, Zenon DEF IndInv, RaceRecorded
<1>2. fd \in FD
  BY RenewedFact, Zenon DEF IndInv
<1> QED
  BY <1>1, <1>2, Zenon DEF IndInv, FlagsExact

(***************************************************************************)
(* One lemma per action.                                                   *)
(***************************************************************************)
\* A call that ends, by returning or in a panic, leaves the files alone; what it
\* did to the history keeps a free number without a wanted word.
LEMMA FinishStep ==
  ASSUME IndInv, NEW t \in Thread, Frame(t), TypeOK',
         pc'[t] \in {"idle", "panicked"}, call'[t] = NoCall, pc[t] # "closeFile",
         UNCHANGED <<file, opened, shared>>, raced \subseteq raced',
         \A fd \in FD \ raced' : file[fd] = NoFile => want'[fd] = want[fd]
  PROVE  /\ ControlInv' /\ PendingWord(t)' /\ FreeInv' /\ FileInv'
         /\ DescriptorUsable' /\ FilesReleased'
<1> USE FcntlAssumption DEF IndInv
<1>1. \A u \in Thread : u # t => pc'[u] = pc[u] /\ call'[u] = call[u]
  BY Zenon DEF Frame
<1>2. /\ call'[t].fd = NoFD /\ call'[t].new = NoFD /\ call'[t].old = NoFile
      /\ pc'[t] \notin Checked \cup {"setNew", "setPipe", "copy", "closeFile"}
  BY DEF NoCall, Args, Checked
<1>3. ControlInv'
  BY <1>1, <1>2 DEF ControlInv
<1>4. PendingWord(t)'
  BY Zenon DEF PendingWord, Renewed
<1>5. FreeInv'
  <2>1. \A fd \in FD \ raced' : file'[fd] = NoFile => want'[fd] = NoEntry
    BY Zenon DEF FreeInv
  <2>2. ASSUME NEW u \in Thread, pc'[u] \in Checked, call'[u].fd \notin raced'
        PROVE  file'[call'[u].fd] # NoFile
    BY <1>1, <1>2, <2>2, Zenon DEF FreeInv
  <2> QED
    BY <2>1, <2>2, Zenon DEF FreeInv
<1>6. FileInv'
  BY <1>1, <1>2 DEF FileInv
<1>7. DescriptorUsable'
  BY Zenon DEF DescriptorUsable
<1>8. FilesReleased'
  BY <1>1 DEF FilesReleased
<1> QED
  BY <1>3, <1>4, <1>5, <1>6, <1>7, <1>8, Zenon

\* A lookup for open or openat touches neither table.
LEMMA OpenatStep ==
  ASSUME IndInv, NEW t \in Thread, Openat(t)
  PROVE  IndInv'
<1> USE FcntlAssumption DEF IndInv
<1>1. TypeOK'
  BY EntryFacts, CallFacts, NoCallType
     DEF Openat, Goto, TypeOK, ControlInv, PC, Checked, Renewing, NoCall
<1>2. ControlInv'
  BY DEF Openat, Goto, TypeOK, ControlInv, PC, Renewing, Call, Args, NoCall, Checked
<1>3. Frame(t)
  BY Zenon DEF Openat, Goto, TypeOK, Frame
<1>4. Tracked(t)
  BY Zenon DEF Openat, Goto, TypeOK, ControlInv, Tracked, Window, Call, Args, NoCall,
         Checked
<1>5. Settled(t)
  BY Zenon DEF Openat, Goto, TypeOK, ControlInv, PendingWanted, PendingWord, Settled,
         Renewed, FlagsExact, Window, Call, Args, NoCall, Checked
<1>6. PendingWord(t)'
  BY DEF Openat, Goto, TypeOK, ControlInv, PendingWord, Renewed, Window, Call, Args,
         NoCall, Checked
<1>7. FreeInv'
  BY OthersFact
     DEF Openat, Goto, TypeOK, ControlInv, FreeInv, Window, Call, Args, NoCall,
         Checked
<1>8. FileInv'
  BY DEF Openat, Goto, TypeOK, ControlInv, FileInv, Unused, Call, Args, NoCall,
         Checked
<1>9. DescriptorUsable'
  BY Zenon DEF Openat, Goto, TypeOK, ControlInv, FileInv, DescriptorUsable, Unused, Call
<1>10. FilesReleased'
  BY DEF Openat, Goto, TypeOK, ControlInv, FileInv, FilesReleased, Unused, Call,
         Args, NoCall, Checked
<1>11. LockHeldOnlyAfterDtor'
  BY Zenon DEF Openat, Goto, LockHeldOnlyAfterDtor
<1> QED
  BY <1>1, <1>2, <1>3, <1>4, <1>5, <1>6, <1>7, <1>8, <1>9, <1>10, <1>11,
     RaceStep, PendingStep, FlagsStep, Zenon
     DEF Openat, Goto

\* A failed open touches neither table.
LEMMA OpenErrorStep ==
  ASSUME IndInv, NEW t \in Thread, OpenError(t)
  PROVE  IndInv'
<1> USE FcntlAssumption DEF IndInv
<1>1. TypeOK'
  BY EntryFacts, CallFacts, NoCallType, Zenon
     DEF OpenError, Return, Goto, TypeOK, ControlInv, PC, Checked, Renewing, NoCall
<1>2. Frame(t)
  BY Zenon DEF OpenError, Return, Goto, TypeOK, Frame
<1>3. Tracked(t)
  BY Zenon DEF OpenError, Return, Goto, TypeOK, ControlInv, Tracked, Window, Call, Args,
         NoCall, Checked
<1>4. Settled(t)
  BY Zenon DEF OpenError, Return, Goto, TypeOK, ControlInv, PendingWanted, PendingWord,
         Settled, Renewed, FlagsExact, Window, Call, Args, NoCall, Checked
<1>5. /\ pc'[t] \in {"idle", "panicked"} /\ call'[t] = NoCall /\ pc[t] # "closeFile"
      /\ UNCHANGED <<file, opened, shared>> /\ raced \subseteq raced'
  BY Zenon DEF OpenError, Return, Goto, TypeOK
<1>6. \A fd \in FD \ raced' : file[fd] = NoFile => want'[fd] = want[fd]
  BY Zenon DEF OpenError
<1>7. LockHeldOnlyAfterDtor' /\ (live' => live)
  BY Zenon DEF OpenError, Return, Goto, LockHeldOnlyAfterDtor
<1> QED
  BY <1>1, <1>2, <1>3, <1>4, <1>5, <1>6, <1>7, FinishStep, RaceStep, PendingStep, FlagsStep, Zenon

\* open puts a new file under a free number, and its window begins.
LEMMA CreateStep ==
  ASSUME IndInv, NEW t \in Thread, Create(t)
  PROVE  IndInv'
<1> USE FcntlAssumption DEF IndInv
<1>1. TypeOK'
  BY EntryFacts, CallFacts, NoCallType
     DEF Create, CreateFileDescriptor, Renew, Goto, TypeOK, ControlInv, PC, Checked,
         Renewing, NoCall
<1>2. ControlInv'
  BY DEF Create, CreateFileDescriptor, Renew, Goto, TypeOK, ControlInv, PC, Renewing,
         Call, Args, NoCall, Checked
<1>3. Frame(t)
  BY DEF Create, CreateFileDescriptor, Renew, Goto, TypeOK, Frame
<1>4. Tracked(t)
  BY DEF Create, CreateFileDescriptor, Renew, Goto, TypeOK, ControlInv, Tracked,
         Window, Call, Args, NoCall, Checked
<1>5. Settled(t)
  BY DEF Create, CreateFileDescriptor, Renew, Goto, TypeOK, ControlInv,
         PendingWanted, PendingWord, Settled, Renewed, FlagsExact, Window, Call,
         Args, NoCall, Checked
<1>6. PendingWord(t)'
  BY DEF Create, CreateFileDescriptor, Renew, Goto, TypeOK, ControlInv, PendingWord,
         Renewed, Window, Call, Args, NoCall, Checked
<1>7. FreeInv'
  BY OthersFact
     DEF Create, CreateFileDescriptor, Renew, Goto, TypeOK, ControlInv, FreeInv,
         Window, Call, Args, NoCall, Checked
<1>8. FileInv'
  BY DEF Create, CreateFileDescriptor, Renew, Goto, TypeOK, ControlInv, FileInv,
         Unused, Call, Args, NoCall, Checked
<1>9. DescriptorUsable'
  BY DEF Create, CreateFileDescriptor, Renew, Goto, TypeOK, ControlInv, FileInv,
         DescriptorUsable, Unused, Call
<1>10. FilesReleased'
  BY DEF Create, CreateFileDescriptor, Renew, Goto, TypeOK, ControlInv, FileInv,
         FilesReleased, Unused, Call, Args, NoCall, Checked
<1>11. LockHeldOnlyAfterDtor'
  BY Zenon DEF Create, CreateFileDescriptor, Renew, Goto, LockHeldOnlyAfterDtor
<1> QED
  BY <1>1, <1>2, <1>3, <1>4, <1>5, <1>6, <1>7, <1>8, <1>9, <1>10, <1>11,
     RaceStep, PendingStep, FlagsStep, Zenon
     DEF Create, CreateFileDescriptor, Renew, Goto

\* open and dup3 store the flag word.
LEMMA SetNewStep ==
  ASSUME IndInv, NEW t \in Thread, SetNew(t)
  PROVE  IndInv'
<1> USE FcntlAssumption DEF IndInv
<1>1. TypeOK'
  <2>1. [flags EXCEPT ![call[t].new] = call[t].arg] \in [FD -> Entry]
    BY Zenon, EntryFacts, CallFacts DEF TypeOK
  <2>3. Assign(t, [flags EXCEPT ![call[t].new] = call[t].arg])
    BY Zenon DEF SetNew
  <2>4. want' \in [FD -> Entry] /\ raced' \subseteq FD
    BY Zenon DEF SetNew, TypeOK
  <2> QED
    BY Zenon, <2>1, <2>3, <2>4, AssignType DEF IndInv
<1>2. Frame(t)
  BY Zenon DEF SetNew, Assign, Return, Goto, TypeOK, Frame
<1>3. Tracked(t)
  BY DEF SetNew, Assign, Return, Goto, TypeOK, ControlInv, Tracked, Window, Call,
         Args, NoCall, Checked
<1>4. Settled(t)
  BY DEF SetNew, Assign, Return, Goto, TypeOK, ControlInv, PendingWanted,
         PendingWord, Settled, Renewed, FlagsExact, Window, Call, Args, NoCall,
         Checked
<1>5. /\ pc'[t] \in {"idle", "panicked"} /\ call'[t] = NoCall /\ pc[t] # "closeFile"
      /\ UNCHANGED <<file, opened, shared>> /\ raced \subseteq raced'
  BY Zenon DEF SetNew, Assign, Return, Goto, TypeOK
<1>6. \A fd \in FD \ raced' : file[fd] = NoFile => want'[fd] = want[fd]
  BY Zenon DEF SetNew
<1>7. LockHeldOnlyAfterDtor' /\ (live' => live)
  BY DEF SetNew, Assign, Return, Goto, LockHeldOnlyAfterDtor
<1> QED
  BY <1>1, <1>2, <1>3, <1>4, <1>5, <1>6, <1>7, FinishStep, RaceStep, PendingStep, FlagsStep, Zenon

\* The read end of a pipe.
LEMMA Pipe2Step ==
  ASSUME IndInv, NEW t \in Thread, Pipe2(t)
  PROVE  IndInv'
<1> USE FcntlAssumption DEF IndInv
<1>1. TypeOK'
  BY EntryFacts, CallFacts, NoCallType
     DEF Pipe2, CreateFileDescriptor, Renew, Goto, TypeOK, ControlInv, PC, Checked,
         Renewing, NoCall
<1>2. ControlInv'
  BY DEF Pipe2, CreateFileDescriptor, Renew, Goto, TypeOK, ControlInv, PC, Renewing,
         Call, Args, NoCall, Checked
<1>3. Frame(t)
  BY DEF Pipe2, CreateFileDescriptor, Renew, Goto, TypeOK, Frame
<1>4. Tracked(t)
  BY DEF Pipe2, CreateFileDescriptor, Renew, Goto, TypeOK, ControlInv, Tracked,
         Window, Call, Args, NoCall, Checked
<1>5. Settled(t)
  BY DEF Pipe2, CreateFileDescriptor, Renew, Goto, TypeOK, ControlInv, PendingWanted,
         PendingWord, Settled, Renewed, FlagsExact, Window, Call, Args, NoCall,
         Checked
<1>6. PendingWord(t)'
  BY DEF Pipe2, CreateFileDescriptor, Renew, Goto, TypeOK, ControlInv, PendingWord,
         Renewed, Window, Call, Args, NoCall, Checked
<1>7. FreeInv'
  BY OthersFact
     DEF Pipe2, CreateFileDescriptor, Renew, Goto, TypeOK, ControlInv, FreeInv,
         Window, Call, Args, NoCall, Checked
<1>8. FileInv'
  BY DEF Pipe2, CreateFileDescriptor, Renew, Goto, TypeOK, ControlInv, FileInv,
         Unused, Call, Args, NoCall, Checked
<1>9. DescriptorUsable'
  BY DEF Pipe2, CreateFileDescriptor, Renew, Goto, TypeOK, ControlInv, FileInv,
         DescriptorUsable, Unused, Call
<1>10. FilesReleased'
  BY DEF Pipe2, CreateFileDescriptor, Renew, Goto, TypeOK, ControlInv, FileInv,
         FilesReleased, Unused, Call, Args, NoCall, Checked
<1>11. LockHeldOnlyAfterDtor'
  BY Zenon DEF Pipe2, CreateFileDescriptor, Renew, Goto, LockHeldOnlyAfterDtor
<1> QED
  BY <1>1, <1>2, <1>3, <1>4, <1>5, <1>6, <1>7, <1>8, <1>9, <1>10, <1>11,
     RaceStep, PendingStep, FlagsStep, Zenon
     DEF Pipe2, CreateFileDescriptor, Renew, Goto

\* The write end of a pipe, perhaps under the number of a read end that
\* another thread closed.
LEMMA PipeWriteEndStep ==
  ASSUME IndInv, NEW t \in Thread, PipeWriteEnd(t)
  PROVE  IndInv'
<1> USE FcntlAssumption DEF IndInv
<1>0. PICK fd \in FD : /\ Renew(t, fd, call[t].arg)
                       /\ Goto(t, "setPipe", Args(call[t].fd, fd, NoFile, call[t].arg))
  BY Zenon DEF PipeWriteEnd
<1>1. TypeOK'
  BY EntryFacts, CallFacts, NoCallType
     DEF PipeWriteEnd, CreateFileDescriptor, Renew, Goto, TypeOK, ControlInv, PC,
         Checked, Renewing, NoCall
<1>2. ControlInv'
  BY DEF PipeWriteEnd, CreateFileDescriptor, Renew, Goto, TypeOK, ControlInv, PC,
         Renewing, Call, Args, NoCall, Checked
<1>3. Frame(t)
  BY DEF PipeWriteEnd, CreateFileDescriptor, Renew, Goto, TypeOK, Frame
<1>4. Tracked(t)
  BY DEF PipeWriteEnd, CreateFileDescriptor, Renew, Goto, TypeOK, ControlInv,
         Tracked, Window, Call, Args, NoCall, Checked
<1>5. Settled(t)
  BY DEF PipeWriteEnd, CreateFileDescriptor, Renew, Goto, TypeOK, ControlInv,
         PendingWanted, PendingWord, Settled, Renewed, FlagsExact, Window, Call,
         Args, NoCall, Checked
<1>6. PendingWord(t)'
  <2>1. /\ pc'[t] = "setPipe" /\ call'[t].arg = call[t].arg
        /\ Renewed(t)' \subseteq {fd, call[t].fd}
    BY <1>0, Zenon DEF Goto, Renewed, Window, Args, TypeOK
  <2>2. call[t].fd \in Renewed(t) /\ call[t].fd \in FD /\ pc[t] = "creatingPipe"
    BY CallFacts, Zenon DEF PipeWriteEnd, Renewed, Window, TypeOK, ControlInv
  <2>3. call[t].fd \notin raced => want[call[t].fd] = call[t].arg
    BY <2>2, Zenon DEF PendingWanted, PendingWord
  <2>4. \A x \in {fd, call[t].fd} \ raced' : want'[x] = call[t].arg
    BY <1>0, <2>2, <2>3 DEF Renew, TypeOK
  <2> QED
    BY <2>1, <2>4, Zenon DEF PendingWord
<1>7. FreeInv'
  BY OthersFact
     DEF PipeWriteEnd, CreateFileDescriptor, Renew, Goto, TypeOK, ControlInv,
         FreeInv, Window, Call, Args, NoCall, Checked
<1>8. FileInv'
  BY DEF PipeWriteEnd, CreateFileDescriptor, Renew, Goto, TypeOK, ControlInv,
         FileInv, Unused, Call, Args, NoCall, Checked
<1>9. DescriptorUsable'
  BY DEF PipeWriteEnd, CreateFileDescriptor, Renew, Goto, TypeOK, ControlInv,
         FileInv, DescriptorUsable, Unused, Call
<1>10. FilesReleased'
  BY DEF PipeWriteEnd, CreateFileDescriptor, Renew, Goto, TypeOK, ControlInv,
         FileInv, FilesReleased, Unused, Call, Args, NoCall, Checked
<1>11. LockHeldOnlyAfterDtor'
  BY Zenon DEF PipeWriteEnd, CreateFileDescriptor, Renew, Goto, LockHeldOnlyAfterDtor
<1> QED
  BY <1>1, <1>2, <1>3, <1>4, <1>5, <1>6, <1>7, <1>8, <1>9, <1>10, <1>11,
     RaceStep, PendingStep, FlagsStep, Zenon
     DEF PipeWriteEnd, CreateFileDescriptor, Renew, Goto

\* pipe2 stores both flag words.
LEMMA SetPipeStep ==
  ASSUME IndInv, NEW t \in Thread, SetPipe(t)
  PROVE  IndInv'
<1> USE FcntlAssumption DEF IndInv
<1>1. TypeOK'
  <2>1. [fd \in FD |-> IF fd \in Window(t) THEN call[t].arg ELSE flags[fd]] \in [FD -> Entry]
    BY EntryFacts, CallFacts, Zenon DEF TypeOK
  <2>3. Assign(t, [fd \in FD |-> IF fd \in Window(t) THEN call[t].arg ELSE flags[fd]])
    BY Zenon DEF SetPipe
  <2>4. want' \in [FD -> Entry] /\ raced' \subseteq FD
    BY Zenon DEF SetPipe, TypeOK
  <2> QED
    BY Zenon, <2>1, <2>3, <2>4, AssignType DEF IndInv
<1>2. Frame(t)
  BY Zenon DEF SetPipe, Assign, Return, Goto, TypeOK, Frame
<1>3. Tracked(t)
  BY DEF SetPipe, Assign, Return, Goto, TypeOK, ControlInv, Tracked, Window, Call,
         Args, NoCall, Checked
<1>4. Settled(t)
  BY DEF SetPipe, Assign, Return, Goto, TypeOK, ControlInv, PendingWanted,
         PendingWord, Settled, Renewed, FlagsExact, Window, Call, Args, NoCall,
         Checked
<1>5. /\ pc'[t] \in {"idle", "panicked"} /\ call'[t] = NoCall /\ pc[t] # "closeFile"
      /\ UNCHANGED <<file, opened, shared>> /\ raced \subseteq raced'
  BY Zenon DEF SetPipe, Assign, Return, Goto, TypeOK
<1>6. \A fd \in FD \ raced' : file[fd] = NoFile => want'[fd] = want[fd]
  BY Zenon DEF SetPipe
<1>7. LockHeldOnlyAfterDtor' /\ (live' => live)
  BY DEF SetPipe, Assign, Return, Goto, LockHeldOnlyAfterDtor
<1> QED
  BY <1>1, <1>2, <1>3, <1>4, <1>5, <1>6, <1>7, FinishStep, RaceStep, PendingStep, FlagsStep, Zenon

\* A socket relies on its number having no entry left.
LEMMA SocketStep ==
  ASSUME IndInv, NEW t \in Thread, Socket(t)
  PROVE  IndInv'
<1> USE FcntlAssumption DEF IndInv
<1>1. TypeOK'
  BY EntryFacts, CallFacts, NoCallType
     DEF Socket, CreateFileDescriptor, Enter, TypeOK, ControlInv, PC, Checked,
         Renewing, NoCall
<1>2. ControlInv'
  BY Zenon DEF Socket, CreateFileDescriptor, Enter, TypeOK, ControlInv, PC, Renewing, Call,
         Args, NoCall, Checked
<1>3. Frame(t)
  BY Zenon DEF Socket, CreateFileDescriptor, Enter, TypeOK, Frame
<1>4. Tracked(t)
  BY DEF Socket, CreateFileDescriptor, Enter, TypeOK, ControlInv, Tracked, Window,
         Call, Args, NoCall, Checked
<1>5. Settled(t)
  <2>1. PICK fd \in FD : /\ file[fd] = NoFile
                         /\ Enter(t, fd) /\ want' = [want EXCEPT ![fd] = NoEntry]
    BY Zenon DEF Socket, CreateFileDescriptor
  <2>2. flags' = flags /\ live' = live /\ Renewed(t) = {} /\ raced \subseteq raced'
    BY <2>1, Zenon DEF Socket, Enter, Renewed
  <2>3. fd \notin raced' => \A u \in Thread : fd \notin Renewed(u)
    BY <2>1, <2>2, OthersFact, RenewedFact, Zenon DEF Enter
  <2>4. live /\ fd \notin raced' => flags[fd] = NoEntry
    BY <2>1, <2>2, <2>3, Zenon DEF FlagsExact, FreeInv
  <2> QED
    BY <2>1, <2>2, <2>4, Zenon DEF Settled, TypeOK
<1>6. PendingWord(t)'
  BY Zenon DEF Socket, CreateFileDescriptor, Enter, TypeOK, ControlInv, PendingWord,
         Renewed, Window, Call, Args, NoCall, Checked
<1>7. FreeInv'
  BY OthersFact
     DEF Socket, CreateFileDescriptor, Enter, TypeOK, ControlInv, FreeInv, Window,
         Call, Args, NoCall, Checked
<1>8. FileInv'
  BY DEF Socket, CreateFileDescriptor, Enter, TypeOK, ControlInv, FileInv, Unused,
         Call, Args, NoCall, Checked
<1>9. DescriptorUsable'
  BY DEF Socket, CreateFileDescriptor, Enter, TypeOK, ControlInv, FileInv,
         DescriptorUsable, Unused, Call
<1>10. FilesReleased'
  BY DEF Socket, CreateFileDescriptor, Enter, TypeOK, ControlInv, FileInv,
         FilesReleased, Unused, Call, Args, NoCall, Checked
<1>11. LockHeldOnlyAfterDtor'
  BY Zenon DEF Socket, CreateFileDescriptor, Enter, LockHeldOnlyAfterDtor
<1> QED
  BY <1>1, <1>2, <1>3, <1>4, <1>5, <1>6, <1>7, <1>8, <1>9, <1>10, <1>11,
     RaceStep, PendingStep, FlagsStep, Zenon
     DEF Socket, CreateFileDescriptor, Enter

\* A panic outside the lock.
LEMMA UnsupportedStep ==
  ASSUME IndInv, NEW t \in Thread, Unsupported(t)
  PROVE  IndInv'
<1> USE FcntlAssumption DEF IndInv
<1>1. TypeOK'
  BY EntryFacts, CallFacts, NoCallType, Zenon
     DEF Unsupported, TypeOK, ControlInv, PC, Checked, Renewing, NoCall
<1>2. ControlInv'
  BY Zenon DEF Unsupported, TypeOK, ControlInv, PC, Renewing, Call, Args, NoCall, Checked
<1>3. Frame(t)
  BY Zenon DEF Unsupported, TypeOK, Frame
<1>4. Tracked(t)
  BY Zenon DEF Unsupported, TypeOK, ControlInv, Tracked, Window, Call, Args, NoCall, Checked
<1>5. Settled(t)
  BY Zenon DEF Unsupported, TypeOK, ControlInv, PendingWanted, PendingWord, Settled,
         Renewed, FlagsExact, Window, Call, Args, NoCall, Checked
<1>6. PendingWord(t)'
  BY Zenon DEF Unsupported, TypeOK, ControlInv, PendingWord, Renewed, Window, Call, Args,
         NoCall, Checked
<1>7. FreeInv'
  BY OthersFact
     DEF Unsupported, TypeOK, ControlInv, FreeInv, Window, Call, Args, NoCall,
         Checked
<1>8. FileInv'
  BY ZenonT(30) DEF Unsupported, TypeOK, ControlInv, FileInv, Unused, Call, Args, NoCall, Checked
<1>9. DescriptorUsable'
  BY Zenon DEF Unsupported, TypeOK, ControlInv, FileInv, DescriptorUsable, Unused, Call
<1>10. FilesReleased'
  BY Zenon DEF Unsupported, TypeOK, ControlInv, FileInv, FilesReleased, Unused, Call, Args,
         NoCall, Checked
<1>11. LockHeldOnlyAfterDtor'
  BY Zenon DEF Unsupported, LockHeldOnlyAfterDtor
<1> QED
  BY <1>1, <1>2, <1>3, <1>4, <1>5, <1>6, <1>7, <1>8, <1>9, <1>10, <1>11,
     RaceStep, PendingStep, FlagsStep, Zenon
     DEF Unsupported

\* close takes the descriptor, and its file with it.
LEMMA CloseStep ==
  ASSUME IndInv, NEW t \in Thread, Close(t)
  PROVE  IndInv'
<1> USE FcntlAssumption DEF IndInv
<1>1. TypeOK'
  BY EntryFacts, CallFacts, NoCallType
     DEF Close, Renew, Goto, TypeOK, ControlInv, PC, Checked, Renewing, NoCall
<1>2. ControlInv'
  BY DEF Close, Renew, Goto, TypeOK, ControlInv, PC, Renewing, Call, Args, NoCall,
         Checked
<1>3. Frame(t)
  BY DEF Close, Renew, Goto, TypeOK, Frame
<1>4. Tracked(t)
  BY DEF Close, Renew, Goto, TypeOK, ControlInv, Tracked, Window, Call, Args, NoCall,
         Checked
<1>5. Settled(t)
  BY DEF Close, Renew, Goto, TypeOK, ControlInv, PendingWanted, PendingWord, Settled,
         Renewed, FlagsExact, Window, Call, Args, NoCall, Checked
<1>6. PendingWord(t)'
  BY DEF Close, Renew, Goto, TypeOK, ControlInv, PendingWord, Renewed, Window, Call,
         Args, NoCall, Checked
<1>7. FreeInv'
  BY OthersFact
     DEF Close, Renew, Goto, TypeOK, ControlInv, FreeInv, Window, Call, Args, NoCall,
         Checked
<1>8. FileInv'
  BY DEF Close, Renew, Goto, TypeOK, ControlInv, FileInv, Unused, Call, Args, NoCall,
         Checked
<1>9. DescriptorUsable'
  BY DEF Close, Renew, Goto, TypeOK, ControlInv, FileInv, DescriptorUsable, Unused,
         Call
<1>10. FilesReleased'
  BY DEF Close, Renew, Goto, TypeOK, ControlInv, FileInv, FilesReleased, Unused,
         Call, Args, NoCall, Checked
<1>11. LockHeldOnlyAfterDtor'
  BY Zenon DEF Close, Renew, Goto, LockHeldOnlyAfterDtor
<1> QED
  BY <1>1, <1>2, <1>3, <1>4, <1>5, <1>6, <1>7, <1>8, <1>9, <1>10, <1>11,
     RaceStep, PendingStep, FlagsStep, Zenon
     DEF Close, Renew, Goto

\* close closes the file it took.
LEMMA CloseFileStep ==
  ASSUME IndInv, NEW t \in Thread, CloseFile(t)
  PROVE  IndInv'
<1> USE FcntlAssumption DEF IndInv
<1>0. /\ pc[t] = "closeFile" /\ call[t].fd \in FD
      /\ pc' = [pc EXCEPT ![t] = "delete"]
      /\ call' = [call EXCEPT ![t] = Args(call[t].fd, NoFD, NoFile, {})]
  BY CallFacts, Zenon DEF CloseFile, Goto, TypeOK, ControlInv
<1>1. TypeOK'
  BY EntryFacts, CallFacts, NoCallType, Zenon
     DEF CloseFile, Goto, TypeOK, ControlInv, PC, Checked, Renewing, NoCall
<1>2. ControlInv'
  BY Zenon DEF CloseFile, Goto, TypeOK, ControlInv, PC, Renewing, Call, Args, NoCall,
         Checked
<1>3. Frame(t)
  BY Zenon DEF CloseFile, Goto, TypeOK, Frame
<1>4. Tracked(t)
  BY Zenon DEF CloseFile, Goto, TypeOK, ControlInv, Tracked, Window, Call, Args, NoCall,
         Checked
<1>5. Settled(t)
  BY DEF CloseFile, Goto, TypeOK, ControlInv, PendingWanted, PendingWord, Settled,
         Renewed, FlagsExact, Window, Call, Args, NoCall, Checked
<1>6. PendingWord(t)'
  <2>1. Renewed(t)' = {call[t].fd} /\ Renewed(t) = {call[t].fd} /\ pc'[t] = "delete"
    BY <1>0, ZenonT(30) DEF Renewed, Window, TypeOK, ControlInv, Args
  <2> QED
    BY <1>0, <2>1, Zenon DEF CloseFile, PendingWanted, PendingWord
<1>7. FreeInv'
  BY OthersFact
     DEF CloseFile, Goto, TypeOK, ControlInv, FreeInv, Window, Call, Args, NoCall,
         Checked
<1>8. FileInv'
  BY DEF CloseFile, Goto, TypeOK, ControlInv, FileInv, Unused, Call, Args, NoCall,
         Checked
<1>9. DescriptorUsable'
  BY Zenon DEF CloseFile, Goto, TypeOK, ControlInv, FileInv, DescriptorUsable, Unused, Call
<1>10. FilesReleased'
  BY Zenon DEF CloseFile, Goto, TypeOK, ControlInv, FileInv, FilesReleased, Unused, Call,
         Args, NoCall, Checked
<1>11. LockHeldOnlyAfterDtor'
  BY Zenon DEF CloseFile, Goto, LockHeldOnlyAfterDtor
<1> QED
  BY <1>1, <1>2, <1>3, <1>4, <1>5, <1>6, <1>7, <1>8, <1>9, <1>10, <1>11,
     RaceStep, PendingStep, FlagsStep, Zenon
     DEF CloseFile, Goto

\* close deletes the flag word.
LEMMA DeleteStep ==
  ASSUME IndInv, NEW t \in Thread, Delete(t)
  PROVE  IndInv'
<1> USE FcntlAssumption DEF IndInv
<1>1. TypeOK'
  BY EntryFacts, CallFacts, NoCallType, Zenon
     DEF Delete, Return, Goto, TypeOK, ControlInv, PC, Checked, Renewing, NoCall
<1>2. Frame(t)
  BY Zenon DEF Delete, Return, Goto, TypeOK, Frame
<1>3. Tracked(t)
  BY Zenon DEF Delete, Return, Goto, TypeOK, ControlInv, Tracked, Window, Call, Args,
         NoCall, Checked
<1>4. Settled(t)
  BY DEF Delete, Return, Goto, TypeOK, ControlInv, PendingWanted, PendingWord,
         Settled, Renewed, FlagsExact, Window, Call, Args, NoCall, Checked
<1>5. /\ pc'[t] \in {"idle", "panicked"} /\ call'[t] = NoCall /\ pc[t] # "closeFile"
      /\ UNCHANGED <<file, opened, shared>> /\ raced \subseteq raced'
  BY Zenon DEF Delete, Return, Goto, TypeOK
<1>6. \A fd \in FD \ raced' : file[fd] = NoFile => want'[fd] = want[fd]
  BY Zenon DEF Delete
<1>7. LockHeldOnlyAfterDtor' /\ (live' => live)
  BY Zenon DEF Delete, Return, Goto, LockHeldOnlyAfterDtor
<1> QED
  BY <1>1, <1>2, <1>3, <1>4, <1>5, <1>6, <1>7, FinishStep, RaceStep, PendingStep, FlagsStep, Zenon

\* dup3 changes the descriptor, and its window begins.
LEMMA Dup3Step ==
  ASSUME IndInv, NEW t \in Thread, Dup3(t)
  PROVE  IndInv'
<1> USE FcntlAssumption DEF IndInv
<1>1. TypeOK'
  <2>1. PICK new \in FD, a \in Arg :
          /\ Renew(t, new, a) /\ Goto(t, "setNew", Args(NoFD, new, NoFile, a))
    BY Zenon DEF Dup3
  <2>2. a \in SUBSET Bit
    BY Zenon
  <2>3. pc' \in [Thread -> PC] /\ call' \in [Thread -> Call]
    BY <2>1, <2>2, CallFacts, GotoType, Zenon DEF PC, Renewing
  <2>4. want' \in [FD -> Entry] /\ raced' \subseteq FD
    BY <2>1, <2>2, EntryFacts, Zenon DEF Renew, TypeOK
  <2>5. file' \in [FD -> File \cup {NoFile}] /\ opened' \subseteq File /\ shared' \subseteq File
    BY DEF Dup3, Duplicate, Unused, TypeOK
  <2> QED
    BY <2>3, <2>4, <2>5, Zenon DEF Dup3, TypeOK
<1>2. ControlInv'
  BY DEF Dup3, Duplicate, Renew, Goto, TypeOK, ControlInv, PC, Renewing, Call, Args,
         NoCall, Checked
<1>3. Frame(t)
  BY DEF Dup3, Duplicate, Renew, Goto, TypeOK, Frame
<1>4. Tracked(t)
  BY DEF Dup3, Duplicate, Renew, Goto, TypeOK, ControlInv, Tracked, Window, Call,
         Args, NoCall, Checked
<1>5. Settled(t)
  BY DEF Dup3, Duplicate, Renew, Goto, TypeOK, ControlInv, PendingWanted,
         PendingWord, Settled, Renewed, FlagsExact, Window, Call, Args, NoCall,
         Checked
<1>6. PendingWord(t)'
  BY DEF Dup3, Duplicate, Renew, Goto, TypeOK, ControlInv, PendingWord, Renewed,
         Window, Call, Args, NoCall, Checked
<1>7. FreeInv'
  <2>1. PICK new \in FD, a \in Arg :
          /\ Renew(t, new, a) /\ Goto(t, "setNew", Args(NoFD, new, NoFile, a))
          /\ file'[new] # NoFile /\ \A fd \in FD : fd # new => file'[fd] = file[fd]
    BY DEF Dup3, Duplicate, Unused, TypeOK
  <2>2. \A fd \in FD \ raced' : file'[fd] = NoFile => want'[fd] = NoEntry
    BY <2>1, Zenon DEF FreeInv, Renew, TypeOK
  <2>3. ASSUME NEW u \in Thread, pc'[u] \in Checked, call'[u].fd \notin raced'
        PROVE  file'[call'[u].fd] # NoFile
    <3>1. u # t /\ pc[u] \in Checked /\ call'[u] = call[u]
      BY <2>1, <2>3, Zenon DEF Goto, Checked, TypeOK
    <3>2. call[u].fd \in FD /\ call[u].fd \in Window(u)
      BY <3>1, CallFacts, Zenon DEF TypeOK, ControlInv, Checked, Window
    <3>3. call[u].fd \notin raced
      BY <2>1, <2>3, <3>1, <3>2, OthersFact DEF Renew
    <3> QED
      BY <2>1, <3>1, <3>2, <3>3, Zenon DEF FreeInv
  <2> QED
    BY <2>2, <2>3, Zenon DEF FreeInv
<1>8. FileInv'
  BY DEF Dup3, Duplicate, Renew, Goto, TypeOK, ControlInv, FileInv, Unused, Call,
         Args, NoCall, Checked
<1>9. DescriptorUsable'
  BY DEF Dup3, Duplicate, Renew, Goto, TypeOK, ControlInv, FileInv, DescriptorUsable,
         Unused, Call
<1>10. FilesReleased'
  BY DEF Dup3, Duplicate, Renew, Goto, TypeOK, ControlInv, FileInv, FilesReleased,
         Unused, Call, Args, NoCall, Checked
<1>11. LockHeldOnlyAfterDtor'
  BY Zenon DEF Dup3, Duplicate, Renew, Goto, LockHeldOnlyAfterDtor
<1> QED
  BY <1>1, <1>2, <1>3, <1>4, <1>5, <1>6, <1>7, <1>8, <1>9, <1>10, <1>11,
     RaceStep, PendingStep, FlagsStep, Zenon
     DEF Dup3, Duplicate, Renew, Goto

\* fcntl finds the descriptor, and its window begins.
LEMMA FcntlStep ==
  ASSUME IndInv, NEW t \in Thread, Fcntl(t)
  PROVE  IndInv'
<1> USE FcntlAssumption DEF IndInv
<1>1. TypeOK'
  BY EntryFacts, CallFacts, NoCallType
     DEF Fcntl, Enter, Goto, TypeOK, ControlInv, PC, Checked, Renewing, NoCall
<1>2. ControlInv'
  BY DEF Fcntl, Enter, Goto, TypeOK, ControlInv, PC, Renewing, Call, Args, NoCall,
         Checked
<1>3. Frame(t)
  BY Zenon DEF Fcntl, Enter, Goto, TypeOK, Frame
<1>4. Tracked(t)
  BY DEF Fcntl, Enter, Goto, TypeOK, ControlInv, Tracked, Window, Call, Args, NoCall,
         Checked
<1>5. Settled(t)
  BY Zenon DEF Fcntl, Enter, Goto, TypeOK, ControlInv, PendingWanted, PendingWord, Settled,
         Renewed, FlagsExact, Window, Call, Args, NoCall, Checked
<1>6. PendingWord(t)'
  BY ZenonT(30) DEF Fcntl, Enter, Goto, TypeOK, ControlInv, PendingWord, Renewed, Window, Call,
         Args, NoCall, Checked
<1>7. FreeInv'
  BY OthersFact
     DEF Fcntl, Enter, Goto, TypeOK, ControlInv, FreeInv, Window, Call, Args, NoCall,
         Checked
<1>8. FileInv'
  BY DEF Fcntl, Enter, Goto, TypeOK, ControlInv, FileInv, Unused, Call, Args, NoCall,
         Checked
<1>9. DescriptorUsable'
  BY Zenon DEF Fcntl, Enter, Goto, TypeOK, ControlInv, FileInv, DescriptorUsable, Unused,
         Call
<1>10. FilesReleased'
  BY DEF Fcntl, Enter, Goto, TypeOK, ControlInv, FileInv, FilesReleased, Unused,
         Call, Args, NoCall, Checked
<1>11. LockHeldOnlyAfterDtor'
  BY Zenon DEF Fcntl, Enter, Goto, LockHeldOnlyAfterDtor
<1> QED
  BY <1>1, <1>2, <1>3, <1>4, <1>5, <1>6, <1>7, <1>8, <1>9, <1>10, <1>11,
     RaceStep, PendingStep, FlagsStep, Zenon
     DEF Fcntl, Enter, Goto

\* F_DUPFD of a descriptor that is gone.
LEMMA DupClosedStep ==
  ASSUME IndInv, NEW t \in Thread, DupClosed(t)
  PROVE  IndInv'
<1> USE FcntlAssumption DEF IndInv
<1>1. TypeOK'
  BY EntryFacts, CallFacts, NoCallType, Zenon
     DEF DupClosed, Return, Goto, TypeOK, ControlInv, PC, Checked, Renewing, NoCall
<1>2. Frame(t)
  BY Zenon DEF DupClosed, Return, Goto, TypeOK, Frame
<1>3. Tracked(t)
  BY Zenon DEF DupClosed, Return, Goto, TypeOK, ControlInv, Tracked, Window, Call, Args,
         NoCall, Checked
<1>4. Settled(t)
  BY Zenon DEF DupClosed, Return, Goto, TypeOK, ControlInv, PendingWanted, PendingWord,
         Settled, Renewed, FlagsExact, Window, Call, Args, NoCall, Checked
<1>5. /\ pc'[t] \in {"idle", "panicked"} /\ call'[t] = NoCall /\ pc[t] # "closeFile"
      /\ UNCHANGED <<file, opened, shared>> /\ raced \subseteq raced'
  BY Zenon DEF DupClosed, Return, Goto, TypeOK
<1>6. \A fd \in FD \ raced' : file[fd] = NoFile => want'[fd] = want[fd]
  BY Zenon DEF DupClosed
<1>7. LockHeldOnlyAfterDtor' /\ (live' => live)
  BY Zenon DEF DupClosed, Return, Goto, LockHeldOnlyAfterDtor
<1> QED
  BY <1>1, <1>2, <1>3, <1>4, <1>5, <1>6, <1>7, FinishStep, RaceStep, PendingStep, FlagsStep, Zenon

\* F_DUPFD duplicates the file under a free number.
LEMMA DupFileStep ==
  ASSUME IndInv, NEW t \in Thread, DupFile(t)
  PROVE  IndInv'
<1> USE FcntlAssumption DEF IndInv
<1> DEFINE fd == call[t].fd
<1>0. PICK new \in FD, f \in File :
        /\ pc[t] = "F_DUPFD" /\ fd \in FD /\ fd # new
        /\ file[new] = NoFile /\ f \in Unused \cup {file[fd]}
        /\ file[fd] # NoFile
        /\ file' = [file EXCEPT ![new] = f]
        /\ opened' = IF f = file[fd] THEN opened ELSE opened \cup {f}
        /\ shared' = IF f = file[fd] THEN shared \cup {f} ELSE shared \ {f}
        /\ Renew(t, new, Word(want[fd]))
        /\ pc' = [pc EXCEPT ![t] = "copy"]
        /\ call' = [call EXCEPT ![t] = Args(fd, new, NoFile, {})]
  <2>1. fd \in FD
    BY CallFacts, Zenon DEF DupFile, TypeOK, ControlInv
  <2>2. PICK new \in FD : DupFile(t)!2!(new)
    BY Zenon DEF DupFile
  <2>3. opened \ {file[new]} = opened
    BY <2>2, FcntlAssumption DEF TypeOK
  <2>4. Duplicate(fd, new)
    BY <2>2, Zenon
  <2>5. PICK f \in Unused \cup {file[fd]} : Duplicate(fd, new)!2!(f)
    BY Zenon, <2>4 DEF Duplicate
  <2>6. file[fd] # NoFile /\ f \in File
    BY <2>1, <2>4, <2>5 DEF Duplicate, Unused, TypeOK
  <2>7. fd # new
    BY <2>2, <2>6, Zenon
  <2> QED
    BY Zenon, <2>1, <2>2, <2>3, <2>5, <2>6, <2>7 DEF DupFile, Goto
<1>00. UNCHANGED <<live, wedged, flags>>
  BY Zenon DEF DupFile
<1>1. TypeOK'
  <2>1. Word(want[fd]) \in Entry /\ {} \in SUBSET Bit
    BY <1>0, EntryFacts DEF TypeOK
  <2>2. want' \in [FD -> Entry] /\ raced' \subseteq FD
    BY <1>0, <2>1, Zenon DEF Renew, TypeOK
  <2>3. Args(fd, new, NoFile, {}) \in Call
    BY <1>0, <2>1, CallFacts, Zenon
  <2>4. pc' \in [Thread -> PC] /\ call' \in [Thread -> Call]
    BY <1>0, <2>3, Zenon DEF TypeOK, PC, Renewing
  <2>5. file' \in [FD -> File \cup {NoFile}] /\ opened' \subseteq File /\ shared' \subseteq File
    BY <1>0, Zenon DEF TypeOK
  <2> QED
    BY <1>00, <2>2, <2>4, <2>5, Zenon DEF TypeOK
<1>2. ControlInv'
  BY <1>0, <1>00 DEF TypeOK, ControlInv, Call, Args, NoCall, Checked
<1>3. Frame(t)
  BY <1>0, <1>00, Zenon DEF TypeOK, Frame
<1>4. Tracked(t)
  BY <1>0, <1>00 DEF TypeOK, ControlInv, Renew, Tracked, Window, Args
<1>5. Settled(t)
  BY <1>0, <1>00 DEF TypeOK, ControlInv, Settled, Renew, Renewed, Args
<1>6. PendingWord(t)'
  BY <1>0, <1>00 DEF TypeOK, ControlInv, PendingWord, Renewed, Renew, Args
<1>7. FreeInv'
  <2>1. file'[new] # NoFile /\ \A fe \in FD : fe # new => file'[fe] = file[fe]
    BY <1>0, Zenon DEF TypeOK
  <2>2. \A fe \in FD \ raced' : file'[fe] = NoFile => want'[fe] = NoEntry
    BY <1>0, <2>1, Zenon DEF FreeInv, Renew, TypeOK
  <2>3. ASSUME NEW u \in Thread, pc'[u] \in Checked, call'[u].fd \notin raced'
        PROVE  file'[call'[u].fd] # NoFile
    <3>1. u # t /\ pc[u] \in Checked /\ call'[u] = call[u]
      BY <1>0, <2>3, Zenon DEF Checked, TypeOK
    <3>2. call[u].fd \in FD /\ call[u].fd \in Window(u)
      BY <3>1, CallFacts, Zenon DEF TypeOK, ControlInv, Checked, Window
    <3>3. call[u].fd \notin raced
      BY <1>0, <2>3, <3>1, <3>2, OthersFact DEF Renew
    <3> QED
      BY <2>1, <3>1, <3>2, <3>3, Zenon DEF FreeInv
  <2> QED
    BY <2>2, <2>3, Zenon DEF FreeInv
<1>8. FileInv'
  BY <1>0, <1>00 DEF TypeOK, ControlInv, FileInv, Unused, Args
<1>9. DescriptorUsable'
  BY <1>0, <1>00 DEF TypeOK, ControlInv, DescriptorUsable, Unused
<1>10. FilesReleased'
  BY <1>0, <1>00 DEF TypeOK, ControlInv, FilesReleased, Args
<1>11. LockHeldOnlyAfterDtor'
  BY <1>00, Zenon DEF LockHeldOnlyAfterDtor
<1> QED
  BY <1>1, <1>2, <1>3, <1>4, <1>5, <1>6, <1>7, <1>8, <1>9, <1>10, <1>11,
     RaceStep, PendingStep, FlagsStep, Zenon
     DEF DupFile, Duplicate, Renew, Goto

\* F_DUPFD copies the flag word.
LEMMA CopyStep ==
  ASSUME IndInv, NEW t \in Thread, Copy(t)
  PROVE  IndInv'
<1> USE FcntlAssumption DEF IndInv
<1>1. TypeOK'
  <2>1. call[t].fd \in FD /\ call[t].new \in FD
    BY CallFacts, Zenon DEF TypeOK, ControlInv, Copy
  <2>2. [flags EXCEPT ![call[t].new] = Word(flags[call[t].fd])] \in [FD -> Entry]
    BY <2>1, EntryFacts DEF TypeOK
  <2>3. raced' \subseteq FD
    BY <2>1, Zenon DEF Copy, TypeOK
  <2>4. Assign(t, [flags EXCEPT ![call[t].new] = Word(flags[call[t].fd])])
    BY Zenon DEF Copy
  <2>5. want' \in [FD -> Entry] /\ raced' \subseteq FD
    BY <2>3, Zenon DEF Copy, TypeOK
  <2> QED
    BY Zenon, <2>2, <2>3, <2>4, <2>5, AssignType DEF IndInv
<1>2. Frame(t)
  BY Zenon DEF Copy, Assign, Return, Goto, TypeOK, Frame
<1>3. Tracked(t)
  BY SMTT(20) DEF Copy, Assign, Return, Goto, TypeOK, ControlInv, Tracked, Window, Call, Args,
         NoCall, Checked
<1>4. Settled(t)
  <2> SUFFICES ASSUME live PROVE Settled(t)
    BY Zenon DEF Settled, Copy, Assign
  <2> DEFINE fd == call[t].fd  new == call[t].new
  <2>1. /\ fd \in FD /\ new \in FD /\ fd # new
        /\ fd \in Window(t) /\ Renewed(t) = {new}
    BY CallFacts, Zenon DEF TypeOK, ControlInv, Copy, Window, Renewed
  <2>2. fd \notin raced => flags[fd] = want[fd]
    BY <2>1, OwnExact, Zenon
  <2>3. fd \notin raced /\ new \notin raced => want[new] = Word(want[fd])
    BY <2>1, Zenon DEF PendingWanted, PendingWord, Copy
  <2>4. /\ flags' = [flags EXCEPT ![new] = Word(flags[fd])] /\ want' = want
        /\ raced' = IF fd \in raced THEN raced \cup {new} ELSE raced
    BY Zenon DEF Copy, Assign
  <2> QED
    BY <2>1, <2>2, <2>3, <2>4 DEF Settled, TypeOK
<1>5. /\ pc'[t] \in {"idle", "panicked"} /\ call'[t] = NoCall /\ pc[t] # "closeFile"
      /\ UNCHANGED <<file, opened, shared>> /\ raced \subseteq raced'
  BY Zenon DEF Copy, Assign, Return, Goto, TypeOK
<1>6. \A fd \in FD \ raced' : file[fd] = NoFile => want'[fd] = want[fd]
  BY Zenon DEF Copy
<1>7. LockHeldOnlyAfterDtor' /\ (live' => live)
  BY DEF Copy, Assign, Return, Goto, LockHeldOnlyAfterDtor
<1> QED
  BY <1>1, <1>2, <1>3, <1>4, <1>5, <1>6, <1>7, FinishStep, RaceStep, PendingStep, FlagsStep, Zenon

\* F_GETFD and F_GETFL only read.
LEMMA GetStep ==
  ASSUME IndInv, NEW t \in Thread, Get(t)
  PROVE  IndInv'
<1> USE FcntlAssumption DEF IndInv
<1>1. TypeOK'
  BY EntryFacts, CallFacts, NoCallType, Zenon
     DEF Get, Return, Goto, TypeOK, ControlInv, PC, Checked, Renewing, NoCall
<1>2. Frame(t)
  BY Zenon DEF Get, Return, Goto, TypeOK, Frame
<1>3. Tracked(t)
  BY Zenon DEF Get, Return, Goto, TypeOK, ControlInv, Tracked, Window, Call, Args, NoCall,
         Checked
<1>4. Settled(t)
  BY Zenon DEF Get, Return, Goto, TypeOK, ControlInv, PendingWanted, PendingWord, Settled,
         Renewed, FlagsExact, Window, Call, Args, NoCall, Checked
<1>5. /\ pc'[t] \in {"idle", "panicked"} /\ call'[t] = NoCall /\ pc[t] # "closeFile"
      /\ UNCHANGED <<file, opened, shared>> /\ raced \subseteq raced'
  BY Zenon DEF Get, Return, Goto, TypeOK
<1>6. \A fd \in FD \ raced' : file[fd] = NoFile => want'[fd] = want[fd]
  BY Zenon DEF Get
<1>7. LockHeldOnlyAfterDtor' /\ (live' => live)
  BY Zenon DEF Get, Return, Goto, LockHeldOnlyAfterDtor
<1> QED
  BY <1>1, <1>2, <1>3, <1>4, <1>5, <1>6, <1>7, FinishStep, RaceStep, PendingStep, FlagsStep, Zenon

\* F_SETFD and F_SETFL change the flag word.
LEMMA SetStep ==
  ASSUME IndInv, NEW t \in Thread, Set(t)
  PROVE  IndInv'
<1> USE FcntlAssumption DEF IndInv
<1>1. TypeOK'
  <2>1. call[t].fd \in FD
    BY CallFacts, Zenon DEF TypeOK, ControlInv, Set
  <2>2. \A e \in Entry : NewWord(t, e) \in Entry
    <3>1. call[t].arg \in SUBSET Bit
      BY CallFacts, Zenon DEF TypeOK
    <3>2. \A e \in Entry : Word(e) \cup {O_CLOEXEC} \in SUBSET Bit
      BY EntryFacts, Zenon
    <3> QED
      BY <3>1, <3>2, EntryFacts, Zenon DEF NewWord
  <2>3. [flags EXCEPT ![call[t].fd] = NewWord(t, flags[call[t].fd])] \in [FD -> Entry]
    BY <2>1, <2>2, Zenon DEF TypeOK
  <2>4. want' \in [FD -> Entry]
    BY <2>1, <2>2, Zenon DEF Set, TypeOK
  <2>5. Assign(t, [flags EXCEPT ![call[t].fd] = NewWord(t, flags[call[t].fd])])
    BY Zenon DEF Set
  <2>6. want' \in [FD -> Entry] /\ raced' \subseteq FD
    BY <2>4, Zenon DEF Set, TypeOK
  <2> QED
    BY Zenon, <2>3, <2>4, <2>5, <2>6, AssignType DEF IndInv
<1>2. Frame(t)
  BY Zenon DEF Set, Assign, Return, Goto, TypeOK, Frame
<1>3. Tracked(t)
  <2>1. call[t].fd \in FD /\ call[t].fd \in Window(t)
    BY CallFacts, Zenon DEF TypeOK, ControlInv, Set, Window
  <2>2. call[t].fd \in Others(t) => call[t].fd \in raced
    BY <2>1, OthersFact, Zenon DEF RaceRecorded
  <2>3. Window(t)' \subseteq Window(t)
    BY Zenon DEF Set, Assign, Return, Goto, Window, TypeOK
  <2>4. raced' = raced /\ \A fd \in FD : want'[fd] # want[fd] => fd = call[t].fd
    BY <2>1, Zenon DEF Set, TypeOK
  <2> QED
    BY <2>2, <2>3, <2>4, Zenon DEF Tracked
<1>4. Settled(t)
  <2> SUFFICES ASSUME live PROVE Settled(t)
    BY Zenon DEF Settled, Set, Assign
  <2>1. call[t].fd \in FD /\ call[t].fd \in Window(t) /\ Renewed(t) = {}
    BY CallFacts, Zenon DEF TypeOK, ControlInv, Set, Window, Renewed
  <2>2. call[t].fd \notin raced => flags[call[t].fd] = want[call[t].fd]
    BY <2>1, OwnExact, Zenon
  <2>3. /\ flags' = [flags EXCEPT ![call[t].fd] = NewWord(t, flags[call[t].fd])]
        /\ want' = [want EXCEPT ![call[t].fd] = NewWord(t, want[call[t].fd])]
        /\ raced' = raced
    BY Zenon DEF Set, Assign
  <2> QED
    BY <2>1, <2>2, <2>3, Zenon DEF Settled, TypeOK
<1>5. /\ pc'[t] \in {"idle", "panicked"} /\ call'[t] = NoCall /\ pc[t] # "closeFile"
      /\ UNCHANGED <<file, opened, shared>> /\ raced \subseteq raced'
  BY Zenon DEF Set, Assign, Return, Goto, TypeOK
<1>6. \A fd \in FD \ raced' : file[fd] = NoFile => want'[fd] = want[fd]
  BY CallFacts DEF Set, Checked, FreeInv, TypeOK, ControlInv
<1>7. LockHeldOnlyAfterDtor' /\ (live' => live)
  BY DEF Set, Assign, Return, Goto, LockHeldOnlyAfterDtor
<1> QED
  BY <1>1, <1>2, <1>3, <1>4, <1>5, <1>6, <1>7, FinishStep, RaceStep, PendingStep, FlagsStep, Zenon

\* dtor drops the flags map, and nothing is claimed of the words any more.
LEMMA DtorStep == IndInv /\ Dtor => IndInv'
<1> SUFFICES ASSUME IndInv, Dtor PROVE IndInv'
  BY Zenon
<1> USE DEF IndInv, Dtor
<1>1. TypeOK'
  BY Zenon, EntryFacts DEF TypeOK
<1>2. \A t \in Thread : Window(t)' = Window(t) /\ Renewed(t)' = Renewed(t)
  BY Zenon DEF Window, Renewed
<1>3. ControlInv' /\ FreeInv' /\ FileInv'
  BY Zenon DEF ControlInv, FreeInv, FileInv
<1>4. RaceRecorded'
  BY <1>2, Zenon DEF RaceRecorded
<1>5. PendingWanted'
  BY <1>2, Zenon DEF PendingWanted, PendingWord
<1>6. DescriptorUsable' /\ FilesReleased'
  BY Zenon DEF DescriptorUsable, FilesReleased
<1>7. FlagsExact' /\ LockHeldOnlyAfterDtor'
  BY Zenon DEF FlagsExact, LockHeldOnlyAfterDtor
<1> QED
  BY <1>1, <1>3, <1>4, <1>5, <1>6, <1>7, Zenon

\* No descriptor is in use when the kernel starts.
LEMMA InitInv == Init => IndInv
<1> SUFFICES ASSUME Init PROVE IndInv
  BY Zenon
<1>1. TypeOK
  BY Zenon, FcntlAssumption, EntryFacts, NoCallType DEF Init, TypeOK
<1>2. ControlInv
  BY FcntlAssumption, Zenon DEF Init, ControlInv, NoCall, Args
<1>3. \A t \in Thread : Window(t) = {} /\ Renewed(t) = {}
  BY Zenon DEF Init, Window, Renewed
<1> QED
  BY <1>1, <1>2, <1>3, Zenon
     DEF Init, IndInv, RaceRecorded, PendingWanted, PendingWord, FreeInv, FileInv, FlagsExact,
         DescriptorUsable, FilesReleased, LockHeldOnlyAfterDtor, Checked

\* Every step keeps the inductive invariant.
LEMMA NextStep == IndInv /\ [Next]_vars => IndInv'
<1> SUFFICES ASSUME IndInv, [Next]_vars PROVE IndInv'
  BY Zenon
<1>1. CASE UNCHANGED vars
  <2> USE <1>1 DEF vars, IndInv
  <2>1. TypeOK' /\ ControlInv' /\ FreeInv' /\ FileInv'
    BY Zenon DEF TypeOK, ControlInv, FreeInv, FileInv
  <2>2. \A t \in Thread : Window(t)' = Window(t) /\ Renewed(t)' = Renewed(t)
    BY Zenon DEF Window, Renewed
  <2>3. RaceRecorded'
    BY <2>2, Zenon DEF RaceRecorded
  <2>4. PendingWanted'
    BY <2>2, Zenon DEF PendingWanted, PendingWord
  <2>5. FlagsExact'
    BY <2>2, Zenon DEF FlagsExact
  <2>6. DescriptorUsable' /\ FilesReleased' /\ LockHeldOnlyAfterDtor'
    BY Zenon DEF DescriptorUsable, FilesReleased, LockHeldOnlyAfterDtor
  <2> QED
    BY <2>1, <2>3, <2>4, <2>5, <2>6, Zenon
<1>2. ASSUME NEW t \in Thread, Guest(t) PROVE IndInv'
  BY <1>2, OpenatStep, Pipe2Step, SocketStep, CloseStep, Dup3Step, FcntlStep, UnsupportedStep, Zenon
     DEF Guest
<1>3. ASSUME NEW t \in Thread, Step(t) PROVE IndInv'
  BY <1>3, OpenErrorStep, CreateStep, SetNewStep, PipeWriteEndStep, SetPipeStep, CloseFileStep,
     DeleteStep, DupClosedStep, DupFileStep, CopyStep, GetStep, SetStep, Zenon
     DEF Step
<1> QED
  BY <1>1, <1>2, <1>3, DtorStep, Zenon DEF Next

\* The inductive invariant, type correctness included, holds always.
THEOREM Inductive == Spec => []IndInv
<1> QED
  BY InitInv, NextStep, PTL DEF Spec

\* Two tables and no common lock: the flag word of a descriptor is the one of
\* the last call on it, unless calls on it overlapped, however many threads open,
\* close, duplicate and set flags.
THEOREM Flags == Spec => []FlagsExact
<1>1. IndInv => FlagsExact
  BY Zenon DEF IndInv
<1> QED
  BY <1>1, Inductive, PTL

\* close never leaves a closed file in the debugger's table, but for one that
\* was duplicated: the descriptor goes before the file.
THEOREM Usable == Spec => []DescriptorUsable
<1>1. IndInv => DescriptorUsable
  BY Zenon DEF IndInv
<1> QED
  BY <1>1, Inductive, PTL

\* close never leaves a file open without a descriptor, however many threads
\* close the same one.
THEOREM Files == Spec => []FilesReleased
<1>1. IndInv => FilesReleased
  BY Zenon DEF IndInv
<1> QED
  BY <1>1, Inductive, PTL

\* Until dtor has run, no handler leaves fcntl.rw locked behind it.
THEOREM Lock == Spec => []LockHeldOnlyAfterDtor
<1>1. IndInv => LockHeldOnlyAfterDtor
  BY Zenon DEF IndInv
<1> QED
  BY <1>1, Inductive, PTL
=============================================================================
