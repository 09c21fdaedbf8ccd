------------------------------- MODULE MCPipe ------------------------------
(* Buffers for TLC: chunks of two words in a pipe of two, so that a chunk   *)
(* may have to wait half way.                                               *)
EXTENDS Pipe

MCBufLists == {<<1>>, <<2, 1>>}
=============================================================================
