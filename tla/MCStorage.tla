---------------------------- MODULE MCStorage ----------------------------
(* Small instances of Storage for TLC. *)
EXTENDS StorageRefinement, TLC

CONSTANTS t1, t2, k1, k2

TwoThreads == {t1, t2}
OneKey == {k1}
TwoKeys == {k1, k2}

\* Threads and keys are interchangeable.  Keys are chosen with CHOOSE only for
\* the value of unused fields, so only threads are permuted.
ThreadSymmetry == Permutations(TwoThreads)

Everything ==
  {"get", "set", "add", "replace", "cas", "delete", "append", "incr", "flush", "cleanup"}
SetOnly == {"set"}
Conditional == {"set", "add", "replace", "cas", "incr"}
=============================================================================
