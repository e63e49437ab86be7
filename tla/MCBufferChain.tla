--------------------------- MODULE MCBufferChain ---------------------------
(* Small instances of BufferChain for TLC. *)
EXTENDS BufferChain

\* What the event loops do with a chain that carries data.
AppendOnly == {"append"}
AllChainOps == {"append", "reserve", "clear"}
=============================================================================
