----------------------------- MODULE MCBuffers -----------------------------
(* Small instances of BufferChain and BufRing for TLC.  The two share no   *)
(* state: each run moves one of them.                                      *)
EXTENDS MCBufferChain, BufRing

MCInit == Init /\ RInit

MCNext ==
  \/ Next /\ RInit /\ UNCHANGED rvars
  \/ RNext /\ Init /\ UNCHANGED vars

MCSpec == MCInit /\ [][MCNext]_<<vars, rvars>>
=============================================================================
