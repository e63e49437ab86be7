------------------------------ MODULE BufRing ------------------------------
(***************************************************************************)
(* The provided buffer ring of an io_uring worker (uring/buf_ring.rs): an  *)
(* array of entries that the worker fills at the tail and the kernel       *)
(* empties at the head, while neither waits for the other.  The tail is a  *)
(* u16 that wraps.  The worker's stores become visible to the kernel in    *)
(* program order, as on x86.                                               *)
(***************************************************************************)
EXTENDS Naturals, FiniteSets

CONSTANTS
  RingEntries,  \* ring_entries
  TailModulus   \* 2^16, the number of values of the tail

\* BufRing::new refuses a number of entries that is not a power of two, and the
\* largest one in a u16 is half the number of its values.
ASSUME RingAssumption ==
  /\ RingEntries \in Nat \ {0}
  /\ TailModulus \in Nat /\ TailModulus > RingEntries
  /\ TailModulus % RingEntries = 0

Bids == 0 .. RingEntries - 1

None == RingEntries

VARIABLES
  entries,     \* the bid of each entry
  tail,        \* the tail in the ring header
  adding,      \* the bid that add_buffer has entered, before it moves the tail
  registered,  \* the kernel knows of the ring
  head,        \* the kernel's position
  held         \* the bids that are not in the ring

rvars == <<entries, tail, adding, registered, head, held>>

\* position & (ring_entries - 1), for a power of two.
Slot(position) == position % RingEntries

RInit ==
  /\ entries = [slot \in Bids |-> 0]
  /\ tail = 0 /\ head = 0
  /\ adding = None
  /\ registered = FALSE
  /\ held = Bids

\* add_buffer up to the new tail.  new adds the buffers in order; after that the
\* worker recycles what completions brought it.
WriteEntry(bid) ==
  /\ adding = None /\ bid \in held
  /\ registered \/ bid = tail
  /\ entries' = [entries EXCEPT ![Slot(tail)] = bid]
  /\ adding' = bid
  /\ UNCHANGED <<tail, registered, head, held>>

\* Mutant: the tail wraps where the entries do.
WriteTailAtEntries ==
  /\ adding # None
  /\ tail' = (tail + 1) % RingEntries
  /\ held' = held \ {adding}
  /\ adding' = None
  /\ UNCHANGED <<entries, registered, head>>

\* add_buffer publishes the new tail.
WriteTail ==
  /\ adding # None
  /\ tail' = (tail + 1) % TailModulus
  /\ held' = held \ {adding}
  /\ adding' = None
  /\ UNCHANGED <<entries, registered, head>>

\* new registers the ring once all buffers are in it.
Register ==
  /\ ~registered /\ adding = None /\ tail = RingEntries
  /\ registered' = TRUE
  /\ UNCHANGED <<entries, tail, adding, head, held>>

\* The kernel takes a buffer for a read.
Select ==
  /\ registered /\ head # tail
  /\ held' = held \cup {entries[Slot(head)]}
  /\ head' = (head + 1) % TailModulus
  /\ UNCHANGED <<entries, tail, adding, registered>>

RNext == WriteTail \/ Register \/ Select \/ \E bid \in Bids : WriteEntry(bid)

RSpec == RInit /\ [][RNext]_rvars

-----------------------------------------------------------------------------
(* Properties.                                                             *)

\* The number of entries between head and tail.
Occupancy == (tail + TailModulus - head) % TailModulus

\* The entries that the kernel will find, in order.
Provided == [i \in 1 .. Occupancy |-> entries[Slot(head + i - 1)]]

P == INSTANCE ProvidedBuffers WITH provided <- Provided

\* The ring is a first-in first-out queue that holds every buffer at most once,
\* although add_buffer overwrites an entry before it moves the tail, the kernel
\* reads at any time, and both positions wrap: no entry is overwritten before the
\* kernel has read it, and no full ring looks empty.
ImplementsQueue == P!PSpec
=============================================================================
