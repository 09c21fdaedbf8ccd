-------------------------------- MODULE Pipe -------------------------------
(***************************************************************************)
(* kernel/fcntl.go: read, write and writev on the two ends of a pipe that  *)
(* pipe2 has made, while other threads close them.                         *)
(*                                                                         *)
(* read is io.CopyN: it reads chunks until it has count bytes, and an end  *)
(* of file before that is an error although the data is gone. write is     *)
(* io.Copy of the guest's buffer, chunk by chunk, and writev one such copy *)
(* per buffer. Each call looks its descriptor up once, at the start; close *)
(* takes the descriptor out of the table and then closes the file.         *)
(*                                                                         *)
(* The pipe is external, an os.File at each end: a Write holds the file's  *)
(* lock until its chunk is in the pipe, waiting for room; a Read takes     *)
(* what there is; closing an end wakes whoever waits at it, a closed write *)
(* end is the end of file and a closed read end a broken pipe.             *)
(***************************************************************************)
EXTENDS Callers, Integers, Sequences

CONSTANTS
  Chunk,      \* words of the buffer in io.Copy
  Room,       \* words that the pipe holds
  MaxCount,   \* words that a read may ask for
  BufLists    \* lengths of the buffers that a write or writev may have

ASSUME PipeAssumption ==
  Chunk \in Nat \ {0} /\ Room \in Nat /\ MaxCount \in Nat /\ BufLists \subseteq Seq(Nat)

VARIABLES
  level,        \* words in the pipe
  rEnd, wEnd,   \* the ends: open -> gone from the table -> closed
  busy,         \* who holds the lock of the write end
  need,         \* of a read: words it still waits for
  bufs, rest,   \* of a write: buffers that are left, words left of its chunk
  last          \* history: the last word written: whose, and how many of its chunk follow

ioVars == <<need, bufs, rest, busy>>
pipeVars == <<level, rEnd, wEnd, step, ioVars, last>>

PipeInit ==
  /\ level = 0 /\ rEnd = "open" /\ wEnd = "open" /\ busy = NoCaller
  /\ step = [t \in Caller |-> "guest"] /\ need = [t \in Caller |-> 0]
  /\ bufs = [t \in Caller |-> <<>>] /\ rest = [t \in Caller |-> 0]
  /\ last = [by |-> NoCaller, left |-> 0]

Smaller(m, n) == IF m < n THEN m ELSE n

\* The call of t returns.
End(t) ==
  /\ GoTo(t, "guest") /\ need' = [need EXCEPT ![t] = 0]
  /\ bufs' = [bufs EXCEPT ![t] = <<>>] /\ rest' = [rest EXCEPT ![t] = 0]
  /\ busy' = IF busy = t THEN NoCaller ELSE busy

-----------------------------------------------------------------------------
(* read *)

\* A read of no words returns 0 at once, one of a descriptor that is not in the
\* table EBADF, and one of the write end, which is an io.Reader too, EIO from its
\* first Read, whatever the pipe holds: these three leave all as it is.
Read(t) ==
  /\ step[t] = "guest" /\ rEnd = "open"
  /\ \E n \in 1..MaxCount : need' = [need EXCEPT ![t] = n]
  /\ GoTo(t, "read")
  /\ UNCHANGED <<level, rEnd, wEnd, bufs, rest, busy, last>>

\* Mutant of Take: a Read is taken to fill its buffer.
TakeAll(t) ==
  LET n == Smaller(need[t], Chunk) IN
  /\ step[t] = "read" /\ rEnd # "closed" /\ level > 0
  /\ level' = level - n
  /\ IF need[t] = n THEN End(t)
     ELSE need' = [need EXCEPT ![t] = @ - n] /\ UNCHANGED <<step, bufs, rest, busy>>
  /\ UNCHANGED <<rEnd, wEnd, last>>

\* Mutant of Take: what a short Read has brought is not counted.
TakeUncounted(t) ==
  LET n == Smaller(level, Smaller(need[t], Chunk)) IN
  /\ step[t] = "read" /\ rEnd # "closed" /\ level > 0
  /\ level' = level - n
  /\ \/ need[t] > n /\ UNCHANGED <<step, need, bufs, rest, busy>>
     \/ End(t)
  /\ UNCHANGED <<rEnd, wEnd, last>>

\* A chunk is taken, and the call goes on until it has count words; it fails with
\* EIO if the chunk cannot be written to the guest.
Take(t) ==
  LET n == Smaller(level, Smaller(need[t], Chunk)) IN
  /\ step[t] = "read" /\ rEnd # "closed" /\ level > 0
  /\ level' = level - n
  /\ \/ /\ need[t] > n /\ need' = [need EXCEPT ![t] = @ - n]
        /\ UNCHANGED <<step, bufs, rest, busy>>
     \/ End(t)
  /\ UNCHANGED <<rEnd, wEnd, last>>

\* Mutant of TakeFails: the end of the file is not looked for.
TakeFailsClosed(t) ==
  /\ step[t] = "read" /\ rEnd = "closed"
  /\ End(t)
  /\ UNCHANGED <<level, rEnd, wEnd, last>>

\* The end of the file, or the file is closed: EIO, and what was taken is gone.
TakeFails(t) ==
  /\ step[t] = "read" /\ (rEnd = "closed" \/ (level = 0 /\ wEnd = "closed"))
  /\ End(t)
  /\ UNCHANGED <<level, rEnd, wEnd, last>>

-----------------------------------------------------------------------------
(* write and writev *)

\* A write or writev to the read end, which is an io.Writer too, returns EIO from
\* its first Write and leaves all as it is.
Write(t) ==
  /\ step[t] = "guest" /\ wEnd = "open"
  /\ \E b \in BufLists : bufs' = [bufs EXCEPT ![t] = b]
  /\ GoTo(t, "write")
  /\ UNCHANGED <<level, rEnd, wEnd, need, rest, busy, last>>

\* Between two chunks: the next one is read from the guest, which may fail with
\* EIO; after the last buffer the call returns.
NextChunk(t) ==
  /\ step[t] = "write" /\ rest[t] = 0
  /\ \/ End(t)
     \/ /\ bufs[t] # <<>>
        /\ LET b == Head(bufs[t])
               n == Smaller(b, Chunk)
           IN /\ rest' = [rest EXCEPT ![t] = n]
              /\ bufs' = [bufs EXCEPT ![t] = (IF b = n THEN <<>> ELSE <<b - n>>) \o Tail(@)]
        /\ UNCHANGED <<step, need, busy>>
  /\ UNCHANGED <<level, rEnd, wEnd, last>>

\* Mutant of Push: the lock is free while the chunk waits for room.
PushUnlocked(t) ==
  /\ step[t] = "write" /\ rest[t] > 0 /\ wEnd # "closed" /\ rEnd # "closed"
  /\ level < Room /\ level' = level + 1
  /\ last' = [by |-> t, left |-> rest[t] - 1]
  /\ rest' = [rest EXCEPT ![t] = @ - 1]
  /\ UNCHANGED <<rEnd, wEnd, step, need, bufs, busy>>

\* A word of the chunk goes into the pipe when there is room.
Push(t) ==
  /\ step[t] = "write" /\ rest[t] > 0 /\ wEnd # "closed" /\ rEnd # "closed"
  /\ busy \in {t, NoCaller} /\ level < Room
  /\ level' = level + 1
  /\ last' = [by |-> t, left |-> rest[t] - 1]
  /\ rest' = [rest EXCEPT ![t] = @ - 1]
  /\ busy' = IF rest[t] = 1 THEN NoCaller ELSE t
  /\ UNCHANGED <<rEnd, wEnd, step, need, bufs>>

\* The file is closed, or nobody can read any more: EIO, although earlier chunks
\* and buffers have been written.
PushFails(t) ==
  /\ step[t] = "write" /\ rest[t] > 0 /\ (wEnd = "closed" \/ rEnd = "closed")
  /\ End(t)
  /\ UNCHANGED <<level, rEnd, wEnd, last>>

-----------------------------------------------------------------------------
(* close *)

\* CloseFileDescriptor.
CloseRead(t) ==
  /\ step[t] = "guest" /\ rEnd = "open"
  /\ rEnd' = "gone" /\ GoTo(t, "closeRead")
  /\ UNCHANGED <<level, wEnd, ioVars, last>>

CloseWrite(t) ==
  /\ step[t] = "guest" /\ wEnd = "open"
  /\ wEnd' = "gone" /\ GoTo(t, "closeWrite")
  /\ UNCHANGED <<level, rEnd, ioVars, last>>

\* file.Close.
CloseFile(t) ==
  /\ \/ step[t] = "closeRead" /\ rEnd' = "closed" /\ UNCHANGED wEnd
     \/ step[t] = "closeWrite" /\ wEnd' = "closed" /\ UNCHANGED rEnd
  /\ GoTo(t, "guest")
  /\ UNCHANGED <<level, ioVars, last>>

-----------------------------------------------------------------------------

Going(t) ==
  Take(t) \/ TakeFails(t) \/ NextChunk(t) \/ Push(t) \/ PushFails(t) \/ CloseFile(t)

PipeNext ==
  \E t \in Caller :
    \/ Read(t) \/ Take(t) \/ TakeFails(t)
    \/ Write(t) \/ NextChunk(t) \/ Push(t) \/ PushFails(t)
    \/ CloseRead(t) \/ CloseWrite(t) \/ CloseFile(t)

PipeSpec == PipeInit /\ [][PipeNext]_pipeVars

\* A handler that can go on does; and one that can again and again, too, because
\* the lock of an os.File goes to its waiters in turn, for reading and for writing.
PipeFairSpec == PipeSpec /\ \A t \in Caller : SF_pipeVars(Going(t))

-----------------------------------------------------------------------------
(* Properties *)

\* The variables have their types.
PipeTypeOK ==
  /\ level \in 0..Room /\ busy \in Caller \cup {NoCaller}
  /\ rEnd \in {"open", "gone", "closed"} /\ wEnd \in {"open", "gone", "closed"}
  /\ step \in [Caller -> {"guest", "read", "write", "closeRead", "closeWrite"}]
  /\ need \in [Caller -> 0..MaxCount] /\ rest \in [Caller -> 0..Chunk]
  /\ bufs \in [Caller -> Seq(Nat)] /\ last \in [by : Caller \cup {NoCaller}, left : Nat]

\* The words of a chunk, so of a write or of a buffer of writev that is no longer
\* than one, are never mixed with those of another thread in the pipe, however
\* often the pipe is full on the way.
ChunksWhole ==
  [][level' > level /\ last.left > 0 =>
       last' = [by |-> last.by, left |-> last.left - 1]]_pipeVars

\* A write that has begun gets through, whatever other writers and readers there
\* are, unless the pipe is full for ever from some time on; and a read, unless the
\* pipe is empty for ever.
GetsThrough ==
  \A t \in Caller :
    /\ []<>(level < Room) => (step[t] = "write" ~> step[t] # "write")
    /\ []<>(level > 0) => (step[t] = "read" ~> step[t] # "read")

\* Whoever waits at the pipe returns once the read end is closed, a reader also
\* once the write end is: whatever the other threads do.
CloseReleases ==
  \A t \in Caller :
    /\ step[t] = "read" /\ wEnd = "closed" ~> step[t] # "read"
    /\ step[t] \in {"read", "write"} /\ rEnd = "closed" ~> step[t] \notin {"read", "write"}

\* The inductive invariant: the holder of the lock is in the middle of the chunk
\* that was last written to, and a chunk that is not whole has a holder until one
\* of the ends is closed.
PipeInv ==
  /\ PipeTypeOK
  /\ \A t \in Caller : rest[t] > 0 => step[t] = "write"
  /\ busy # NoCaller => rest[busy] > 0 /\ last = [by |-> busy, left |-> rest[busy]]
  /\ last.left > 0 =>
       last.by # NoCaller /\ (busy = last.by \/ "closed" \in {rEnd, wEnd})
=============================================================================
