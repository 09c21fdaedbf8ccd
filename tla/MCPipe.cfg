CONSTANTS
  Caller = {t1, t2, t3}
  NoCaller = NoCaller
  Chunk = 2
  Room = 2
  MaxCount = 3
  BufLists <- MCBufLists
SPECIFICATION PipeFairSpec
INVARIANTS PipeInv
PROPERTIES ChunksWhole CloseReleases GetsThrough
CHECK_DEADLOCK FALSE
