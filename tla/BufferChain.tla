---------------------------- MODULE BufferChain ----------------------------
(***************************************************************************)
(* A BufferChain (src/runtime/buffer.rs): a value spread over several      *)
(* buffers of the pool.  Bytes are numbered in the order in which they are *)
(* written, so that a byte at the wrong place is recognised; `value` is    *)
(* what the chain's user appended and should read back.                    *)
(***************************************************************************)
EXTENDS BufferPool, SequencesExt

CONSTANTS
  Count,       \* buffers in the pool
  BufferSize,  \* bytes in a buffer
  ChainOps,    \* the operations used, a subset of {"append", "reserve", "clear"}
  MaxBytes     \* bound on the bytes ever appended

ASSUME ChainAssumption ==
  /\ Count \in Nat \ {0} /\ BufferSize \in Nat \ {0} /\ MaxBytes \in Nat
  /\ ChainOps \subseteq {"append", "reserve", "clear"}

VARIABLES
  free_list,  \* the pool's free list
  memory,     \* the contents of the pool's buffers
  chain,      \* [buffers, len]
  value,      \* the bytes in the chain according to its user
  pending,    \* the part of append's data that is not copied yet
  next        \* the next byte to be appended

vars == <<free_list, memory, chain, value, pending, next>>

-----------------------------------------------------------------------------
(* Operations.                                                             *)

\* Mutant: the last buffer is reused when it is full.
NeedsBufferOnce(c) == c.buffers = <<>>

\* current_buffer_and_offset: a buffer is allocated when there is none or the
\* last one is full.
NeedsBuffer(c) == c.buffers = <<>> \/ (c.len % BufferSize = 0 /\ c.len > 0)

\* The bytes of the last buffer that are in use.
Offset(c) == c.len % BufferSize

\* Mutant: every chunk is copied to the start of its buffer.
WrittenAtStart(buffer, offset, chunk) ==
  [i \in 1 .. BufferSize |-> IF i \in 1 .. Len(chunk) THEN chunk[i] ELSE buffer[i]]

\* The buffer after chunk is copied to it at offset.
Written(buffer, offset, chunk) ==
  [i \in 1 .. BufferSize |->
     IF i \in offset + 1 .. offset + Len(chunk) THEN chunk[i - offset] ELSE buffer[i]]

\* append is called; AppendChunk and PoolExhausted are its loop, and no other
\* operation runs before it returns.
AppendData(n) ==
  /\ "append" \in ChainOps /\ pending = <<>> /\ next + n <= MaxBytes + 1
  /\ pending' = [i \in 1 .. n |-> next + i - 1]
  /\ next' = next + n
  /\ UNCHANGED <<free_list, memory, chain, value>>

\* One turn of append's loop: as much as fits in the last buffer is copied.
AppendChunk ==
  LET needs == NeedsBuffer(chain)
      buffers == IF needs THEN chain.buffers \o AllocMany(free_list, 1) ELSE chain.buffers
      available == BufferSize - Offset(chain)
      to_copy == IF available <= Len(pending) THEN available ELSE Len(pending)
      chunk == SubSeq(pending, 1, to_copy)
  IN  /\ pending # <<>> /\ (needs => CanAlloc(free_list, 1))
      /\ free_list' = IF needs THEN AfterAlloc(free_list, 1) ELSE free_list
      /\ chain' = [buffers |-> buffers, len |-> chain.len + to_copy]
      /\ memory' = [memory EXCEPT ![Last(buffers)] = Written(@, Offset(chain), chunk)]
      /\ value' = value \o chunk
      /\ pending' = SubSeq(pending, to_copy + 1, Len(pending))
      /\ UNCHANGED next

\* append fails; the bytes copied so far stay.
PoolExhausted ==
  /\ pending # <<>> /\ NeedsBuffer(chain) /\ ~CanAlloc(free_list, 1)
  /\ pending' = <<>>
  /\ UNCHANGED <<free_list, memory, chain, value, next>>

\* The bytes of buffer idx from position first to position last.
Slice(idx, first, last) == SubSeq(memory[idx], first, last)

\* Byte k of the chain, counted through its buffers from the first one.
ByteAt(k) ==
  memory[chain.buffers[((k - 1) \div BufferSize) + 1]][((k - 1) % BufferSize) + 1]

\* Mutant: the last buffer is not cut at the length of the chain.
assemble_whole ==
  FoldLeft(LAMBDA bytes, idx : bytes \o Slice(idx, 1, BufferSize), <<>>, chain.buffers)

\* assemble, chunks and as_contiguous: up to BufferSize bytes of each buffer.
assemble ==
  FoldLeft(LAMBDA acc, idx :
             LET chunk_len == Min({acc.remaining, BufferSize})
             IN  [remaining |-> acc.remaining - chunk_len,
                  bytes |-> acc.bytes \o Slice(idx, 1, chunk_len)],
           [remaining |-> chain.len, bytes |-> <<>>], chain.buffers).bytes

\* io_slices: what a vectored write that starts at start_offset hands over.
io_slices(start_offset) ==
  LET slots == IoSlices(Len(chain.buffers), chain.len, BufferSize, start_offset)
  IN  [i \in DOMAIN slots |-> ByteAt(slots[i])]

\* first_n_bytes: Some(bytes), or None as the empty set.
first_n_bytes(n) ==
  IF chain.len >= n /\ n <= BufferSize /\ chain.buffers # <<>>
  THEN {Slice(chain.buffers[1], 1, n)} ELSE {}

\* Mutant: the indices stay in the chain.
ReleaseKeeps ==
  /\ pending = <<>>
  /\ free_list' = FreeMany(free_list, chain.buffers)
  /\ chain' = [chain EXCEPT !.len = 0]
  /\ value' = <<>>
  /\ UNCHANGED <<memory, pending, next>>

Release ==
  /\ pending = <<>>
  /\ free_list' = FreeMany(free_list, chain.buffers)
  /\ chain' = [buffers |-> <<>>, len |-> 0]
  /\ value' = <<>>
  /\ UNCHANGED <<memory, pending, next>>

\* alloc_many, then push_buffer for each index, as the mio loop does for a value
\* that it expects.
Reserve(n) ==
  /\ "reserve" \in ChainOps /\ pending = <<>>
  /\ CanAlloc(free_list, n)
  /\ free_list' = AfterAlloc(free_list, n)
  /\ chain' = [chain EXCEPT !.buffers = @ \o AllocMany(free_list, n)]
  /\ UNCHANGED <<memory, value, pending, next>>

\* clear keeps the buffers for the next value.
Clear ==
  /\ "clear" \in ChainOps /\ pending = <<>>
  /\ chain' = [chain EXCEPT !.len = 0]
  /\ value' = <<>>
  /\ UNCHANGED <<free_list, memory, pending, next>>

-----------------------------------------------------------------------------
Init ==
  /\ free_list = NewPool(Count)
  /\ memory = [idx \in 0 .. Count - 1 |-> [i \in 1 .. BufferSize |-> 0]]
  /\ chain = [buffers |-> <<>>, len |-> 0]
  /\ value = <<>>
  /\ pending = <<>>
  /\ next = 1

Next ==
  \/ \E n \in 1 .. MaxBytes : AppendData(n)
  \/ AppendChunk
  \/ PoolExhausted
  \/ \E n \in 1 .. Count : Reserve(n)
  \/ Clear
  \/ Release

Spec == Init /\ [][Next]_vars

-----------------------------------------------------------------------------
(* Properties.                                                             *)

Indices == 0 .. Count - 1
Bytes == 0 .. MaxBytes

\* The free list and the chain are lists of buffer indices and the chain is not
\* longer than its buffers.
TypeOK ==
  /\ free_list \in Seq(Indices)
  /\ memory \in [Indices -> [1 .. BufferSize -> Bytes]]
  /\ chain \in [buffers : Seq(Indices), len : Nat]
  /\ chain.len <= Len(chain.buffers) * BufferSize
  /\ value \in Seq(Bytes) /\ pending \in Seq(Bytes)
  /\ next \in 1 .. MaxBytes + 1

\* Every buffer is either in the free list or in the chain, and in one place
\* only, also in the middle of an append and after one that ran out of buffers.
PoolIntact ==
  /\ IsInjective(free_list) /\ IsInjective(chain.buffers)
  /\ ToSet(free_list) \cap ToSet(chain.buffers) = {}
  /\ ToSet(free_list) \cup ToSet(chain.buffers) = Indices

\* No buffer of the chain is empty.
Dense == Len(chain.buffers) = (chain.len + BufferSize - 1) \div BufferSize

\* A chain whose buffers are all in use holds what was appended, each byte at its
\* place, across buffer boundaries, after a failed append and after a clear.
\* (append writes to the last buffer, so with buffers that reserve added or clear
\* kept, the bytes are elsewhere.)
ContentsKept ==
  /\ chain.len = Len(value)
  /\ Dense => \A k \in 1 .. chain.len : ByteAt(k) = value[k]

\* The ways to read a chain agree on its bytes, also for a chain that is not
\* dense: assembled, as slices from the start, and as a prefix.
ReadersAgree ==
  LET bytes == [k \in 1 .. chain.len |-> ByteAt(k)]
  IN  /\ assemble = bytes
      /\ io_slices(0) = bytes
      /\ \A n \in 0 .. BufferSize : \A prefix \in first_n_bytes(n) :
           prefix = SubSeq(bytes, 1, n)

\* "Returns slices starting from the given byte offset (for resuming partial
\* writes)": what io_slices leaves out is exactly what was written before.
ResumesWrite ==
  \A offset \in 0 .. chain.len :
    io_slices(offset) = SubSeq(value, offset + 1, chain.len)

=============================================================================
