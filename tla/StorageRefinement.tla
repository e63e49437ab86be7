------------------------- MODULE StorageRefinement -------------------------
(***************************************************************************)
(* Storage implements Cache, for the operations that hold a lock from      *)
(* their decision to their effect.                                         *)
(***************************************************************************)
EXTENDS Storage

\* The operations that Cache specifies as atomic and Storage implements so.
AtomicOps == {"get", "set", "append", "delete", "flush"}

\* What a client could read: the token of a live item.
AbstractStore == [k \in Keys |-> IF Live(k) THEN data[k].cas ELSE 0]

\* The result is fixed once the item is written or removed, although
\* access_order is still to be updated.
PhaseOf(label) ==
  CASE label = "idle" -> "idle"
    [] label \in {"record", "delete_order", "return"} -> "done"
    [] OTHER -> "open"

StatusOf(label, status) ==
  CASE label = "record" -> "Stored"
    [] label = "delete_order" -> "Deleted"
    [] OTHER -> status

CallOf(label, frame) ==
  [phase |-> PhaseOf(label), op |-> frame.op, key |-> frame.key,
   token |-> frame.token, want |-> frame.keys, found |-> frame.found,
   status |-> StatusOf(label, frame.status)]

AbstractCall == [t \in Threads |-> CallOf(pc[t], loc[t])]

C == INSTANCE Cache WITH store <- AbstractStore, call <- AbstractCall

\* get, set, append, delete and flush_all take effect atomically: what a get
\* returns was in the cache at one instant during the call, an append that
\* answers Stored extended a live item, and a refusal was true at one instant,
\* although each call takes and drops the locks several times and evictions
\* and expiry run in between.
ImplementsCache == C!CSpec

=============================================================================
