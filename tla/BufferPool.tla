----------------------------- MODULE BufferPool -----------------------------
(***************************************************************************)
(* The per-worker pool of fixed-size buffers (src/runtime/buffer.rs): its  *)
(* free list is a stack of buffer indices, and nothing but the callers'    *)
(* discipline keeps an index from being freed twice.                       *)
(***************************************************************************)
EXTENDS Sequences, FiniteSetsExt

\* BufferPool::new: the free list with all indices, the last one on top.
NewPool(count) == [i \in 1 .. count |-> i - 1]

\* alloc and alloc_many: the indices popped from the top, in the order popped,
\* and the free list that is left.
CanAlloc(free_list, count) == Len(free_list) >= count

AllocMany(free_list, count) ==
  [i \in 1 .. count |-> free_list[Len(free_list) - i + 1]]

AfterAlloc(free_list, count) == SubSeq(free_list, 1, Len(free_list) - count)

\* free and free_many.
FreeMany(free_list, indices) == free_list \o indices

\* The slabs of the event loops keep their vacant keys in such a list, at first
\* with the lowest key on top; this is what insert does to a slab, a function on
\* its occupied keys.
NewSlab(count) == [i \in 1 .. count |-> count - i]

Occupy(slab, key, value) ==
  [k \in DOMAIN slab \cup {key} |-> IF k = key THEN value ELSE slab[k]]

\* What a pool of `count` indices promises its callers, given the indices that
\* each owner holds: every index is in the free list or with one owner, once.
Partitioned(free_list, held, count) ==
  /\ IsInjective(free_list)
  /\ \A o \in DOMAIN held :
       IsInjective(held[o]) /\ Range(held[o]) \cap Range(free_list) = {}
  /\ \A o, p \in DOMAIN held : o # p => Range(held[o]) \cap Range(held[p]) = {}
  /\ Range(free_list) \cup UNION {Range(held[o]) : o \in DOMAIN held} = 0 .. count - 1

\* BufferChain::io_slices, for a chain of `count` buffers of `size` bytes that
\* holds `len` bytes: the positions of the bytes that are offered to a write,
\* byte i of buffer b having position (b - 1) * size + i.  A turn of its loop:
SliceTurn(acc, b, size) ==
  LET chunk_len == Min({acc.remaining, size})
  IN  IF acc.skip >= chunk_len
      THEN [acc EXCEPT !.skip = @ - chunk_len]
      ELSE [skip |-> 0, remaining |-> acc.remaining - chunk_len,
            slots |-> acc.slots \o [i \in 1 .. chunk_len - acc.skip |->
                                      (b - 1) * size + acc.skip + i]]

IoSlices(count, len, size, start_offset) ==
  LET turn[b \in 0 .. count] ==
        IF b = 0 THEN [skip |-> start_offset, remaining |-> len - start_offset, slots |-> <<>>]
        ELSE SliceTurn(turn[b - 1], b, size)
  IN  turn[count].slots

=============================================================================
