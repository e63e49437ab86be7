----------------------------- MODULE MioWorker -----------------------------
(***************************************************************************)
(* One worker of the mio event loop (src/runtime/mio/event_loop.rs): an    *)
(* edge-triggered poll, a slab of connections that alternate between       *)
(* reading a request and writing its reply, and the worker's buffer pool.  *)
(* Workers share nothing but the storage.                                  *)
(***************************************************************************)
EXTENDS Network, BufferPool

CONSTANTS
  MaxConnections,  \* max_connections
  BatchSize,       \* the capacity of Events
  AcceptErrors     \* accept may fail

Listener == "listener"

ASSUME MioAssumption ==
  /\ MaxConnections \in Nat \ {0} /\ BatchSize \in Nat \ {0}
  /\ AcceptErrors \in BOOLEAN /\ Listener \notin Clients

VARIABLES
  connections,  \* the slab: a function on the occupied connection ids
  vacant,       \* its vacant ids, the next one to be used last
  free_list,    \* the pool's free list
  registry,     \* the registered clients, with token and interest
  ready,        \* the readiness that the kernel has yet to report
  events,       \* the events of this poll that are still to be handled
  accepting     \* accept_connections is in its loop

worker == <<connections, vacant, free_list, registry>>
vars == <<net, backlog, worker, ready, events, accepting>>

Ids == 0 .. MaxConnections - 1
pool_size == MaxConnections * 3

\* MioConnection.  `input` is the filled part of the read buffer, `out` the
\* reply in the write buffer or, if `chained`, in the write chain.
MioConnection ==
  [client : Clients, state : {"reading", "writing"}, input : Seq(Nat),
   out : Seq(Nat \X Nat), written : Nat, chained : BOOLEAN,
   read_buf_idx : Nat, write_buf_idx : Nat, read_chain : Seq(Nat), write_chain : Seq(Nat)]

-----------------------------------------------------------------------------
(* The kernel: mio registers with EPOLLET, so that readiness is reported   *)
(* when it arises and when a socket is registered, not while it lasts.     *)

Interested(c, kind) == c \in DOMAIN registry /\ registry[c].interest = kind

ClientConnect(c) == Connect(c) /\ ready' = ready \cup {Listener} /\ UNCHANGED <<worker, events, accepting>>

ClientSend(c) ==
  /\ Send(c)
  /\ ready' = IF Interested(c, "readable") THEN ready \cup {c} ELSE ready
  /\ UNCHANGED <<worker, events, accepting>>

ClientLeave(c) ==
  /\ Leave(c)
  /\ ready' = IF Interested(c, "readable") \/ (c \in DOMAIN registry /\ net'[c].peer = "reset")
              THEN ready \cup {c} ELSE ready
  /\ UNCHANGED <<worker, events, accepting>>

\* A socket becomes writable when it was full.
ClientReceive(c) ==
  /\ Receive(c)
  /\ ready' = IF Interested(c, "writable") /\ Room(c) = 0 THEN ready \cup {c} ELSE ready
  /\ UNCHANGED <<worker, events, accepting>>

\* Whether readiness is still there when it is reported.
Holds(x) ==
  IF x = Listener THEN backlog # <<>>
  ELSE \/ Interested(x, "readable") /\ ReadReady(x)
       \/ Interested(x, "writable") /\ WriteReady(x)

Event(x) ==
  IF x = Listener THEN [client |-> Listener]
  ELSE [client |-> x, token |-> registry[x].token, kind |-> registry[x].interest]

\* poll.poll, after all events of the last one were handled.
Poll ==
  /\ events = {} /\ ready # {}
  /\ \E reported \in IF Cardinality(ready) <= BatchSize THEN {ready} ELSE kSubset(BatchSize, ready) :
       /\ events' = {Event(x) : x \in {y \in reported : Holds(y)}}
       /\ ready' = ready \ reported
  /\ UNCHANGED <<net, backlog, worker, accepting>>

-----------------------------------------------------------------------------
(* accept_connections.                                                     *)

\* A connection is accepted, and dropped if there is no slot or no buffer for it.
AcceptOne ==
  LET c == Head(backlog)
      id == AllocMany(vacant, 1)[1]
      bufs == AllocMany(free_list, 2)
      conn == [client |-> c, state |-> "reading", input |-> <<>>, out |-> <<>>,
               written |-> 0, chained |-> FALSE, read_buf_idx |-> bufs[1],
               write_buf_idx |-> bufs[2], read_chain |-> <<>>, write_chain |-> <<>>]
      admitted == Cardinality(DOMAIN connections) < MaxConnections /\ CanAlloc(free_list, 2)
  IN  /\ backlog' = Tail(backlog)
      /\ \/ /\ ~admitted
            /\ net' = [net EXCEPT ![c].server = "closed", ![c].inbox = <<>>]
            /\ UNCHANGED <<worker, ready>>
         \/ /\ admitted
            /\ net' = [net EXCEPT ![c].server = "open"]
            /\ connections' = Occupy(connections, id, conn) /\ vacant' = AfterAlloc(vacant, 1)
            /\ free_list' = AfterAlloc(free_list, 2)
            /\ registry' = Occupy(registry, c, [token |-> id, interest |-> "readable"])
            /\ ready' = IF ReadReady(c) THEN ready \cup {c} ELSE ready

\* One turn of the loop, which ends when the backlog is empty, or at an error.
Accept ==
  /\ [client |-> Listener] \in events
  /\ \/ backlog # <<>> /\ AcceptOne /\ accepting' = TRUE /\ UNCHANGED events
     \/ /\ backlog = <<>> \/ AcceptErrors
        /\ accepting' = FALSE /\ events' = events \ {[client |-> Listener]}
        /\ UNCHANGED <<net, backlog, worker, ready>>

-----------------------------------------------------------------------------
(* handle_connection_event.                                                *)

\* reregister reports what is already there.
Reregister(id, interest) ==
  LET c == connections[id].client
  IN  /\ registry' = [registry EXCEPT ![c].interest = interest]
      /\ ready' = IF IF interest = "readable" THEN ReadReady(c) ELSE WriteReady(c)
                  THEN ready \cup {c} ELSE ready

\* Mutant: the socket is not deregistered.
CloseStaysRegistered(id, free, chained) ==
  LET conn == connections[id]
      c == conn.client
  IN  /\ connections' = Restrict(connections, DOMAIN connections \ {id})
      /\ vacant' = FreeMany(vacant, <<id>>)
      /\ free_list' = FreeMany(free, <<conn.read_buf_idx, conn.write_buf_idx>> \o chained)
      /\ net' = [net EXCEPT ![c].server = "closed", ![c].inbox = <<>>]
      /\ UNCHANGED <<registry, ready>>

\* Mutant: the slot of the slab is not given back.
CloseKeepsSlot(id, free, chained) ==
  LET conn == connections[id]
      c == conn.client
  IN  /\ connections' = Restrict(connections, DOMAIN connections \ {id})
      /\ UNCHANGED vacant
      /\ free_list' = FreeMany(free, <<conn.read_buf_idx, conn.write_buf_idx>> \o chained)
      /\ registry' = Restrict(registry, DOMAIN registry \ {c})
      /\ ready' = ready \ {c}
      /\ net' = [net EXCEPT ![c].server = "closed", ![c].inbox = <<>>]

\* close_connection, of a connection that holds the chain buffers `chained`.
Close(id, free, chained) ==
  LET conn == connections[id]
      c == conn.client
  IN  /\ connections' = Restrict(connections, DOMAIN connections \ {id})
      /\ vacant' = FreeMany(vacant, <<id>>)
      /\ free_list' = FreeMany(free, <<conn.read_buf_idx, conn.write_buf_idx>> \o chained)
      /\ registry' = Restrict(registry, DOMAIN registry \ {c})
      /\ ready' = ready \ {c}
      /\ net' = [net EXCEPT ![c].server = "closed", ![c].inbox = <<>>]

\* An Err that reaches worker_loop.
Fail(id) == Close(id, free_list, connections[id].read_chain \o connections[id].write_chain)

\* ProcessResult::NeedData.
KeepReading(id, input) ==
  /\ connections' = [connections EXCEPT ![id].input = input]
  /\ UNCHANGED <<vacant, free_list, registry, ready>>

\* ProcessResult::NeedChain: buffers are set aside for the value.
ToAlloc(id, result) ==
  LET total_needed == result.command_len + result.value_len + 2
      chain_bytes_needed == Max({total_needed, BufferSize}) - BufferSize
      chain_buffers_needed == (chain_bytes_needed + BufferSize - 1) \div BufferSize
      held == Len(connections[id].read_chain)
  IN  Max({chain_buffers_needed, held}) - held

ReserveChain(id, input, result) ==
  LET to_alloc == ToAlloc(id, result)
  IN  /\ result.value_len <= MaxValueSize /\ CanAlloc(free_list, to_alloc)
      /\ connections' = [connections EXCEPT
           ![id].input = input, ![id].read_chain = @ \o AllocMany(free_list, to_alloc)]
      /\ free_list' = AfterAlloc(free_list, to_alloc)
      /\ UNCHANGED <<vacant, registry, ready>>

NoReadChain(id, result) ==
  result.value_len > MaxValueSize \/ ~CanAlloc(free_list, ToAlloc(id, result))

\* The part of the read buffer that copy_within moves to the front.
Unconsumed(input, consumed) == SubSeq(input, consumed + 1, Len(input))

\* ProcessResult::Response.
StartWriting(id, input, result, out) ==
  LET conn == connections[id]
  IN  /\ connections' = [connections EXCEPT
           ![id] = [conn EXCEPT !.state = "writing", !.out = out, !.written = 0,
                                !.input = Unconsumed(input, result.consumed),
                                !.chained = FALSE, !.read_chain = <<>>]]
      /\ free_list' = FreeMany(free_list, conn.read_chain)
      /\ UNCHANGED vacant
      /\ Reregister(id, "writable")

\* ProcessResult::LargeResponse: the reply is appended to a fresh chain.
ChainLength(out) == (Len(out) + BufferSize - 1) \div BufferSize

StartWritingChain(id, input, result, out) ==
  LET conn == connections[id]
      freed == FreeMany(free_list, conn.read_chain)
  IN  /\ CanAlloc(freed, ChainLength(out))
      /\ connections' = [connections EXCEPT
           ![id] = [conn EXCEPT !.state = "writing", !.out = out, !.written = 0,
                                !.input = Unconsumed(input, result.consumed),
                                !.chained = TRUE, !.read_chain = <<>>,
                                !.write_chain = AllocMany(freed, ChainLength(out))]]
      /\ free_list' = AfterAlloc(freed, ChainLength(out))
      /\ UNCHANGED vacant
      /\ Reregister(id, "writable")

\* append takes every buffer there is and release puts them back.
NoWriteChain(id, out) ==
  LET freed == FreeMany(free_list, connections[id].read_chain)
  IN  /\ ~CanAlloc(freed, ChainLength(out))
      /\ Close(id, AllocMany(freed, Len(freed)), <<>>)

\* The match on the ProcessResult.
Dispatch(id, input, p) ==
  LET result == p.result
      taken == [net EXCEPT ![connections[id].client].inbox =
                  SubSeq(@, Len(input) - Len(connections[id].input) + 1, Len(@))]
  IN  \/ result.tag = "NeedData" /\ KeepReading(id, input) /\ net' = taken
      \/ result.tag = "NeedChain" /\ ReserveChain(id, input, result) /\ net' = taken
      \/ result.tag = "NeedChain" /\ NoReadChain(id, result) /\ Fail(id)
      \/ /\ result.tag = "Response" /\ net' = taken
         /\ \E out \in {Reply(p.request, result.reply)} : StartWriting(id, input, result, out)
      \/ /\ result.tag = "LargeResponse"
         /\ \E out \in {Reply(p.request, result.reply)} :
              \/ StartWritingChain(id, input, result, out) /\ net' = taken
              \/ NoWriteChain(id, out)
      \/ result.tag \in {"Quit", "Error"} /\ Fail(id)

\* handle_readable.  A read into a full buffer returns 0, like one at the end of
\* the stream.
Readable(id) ==
  LET conn == connections[id]
      inbox == net[conn.client].inbox
      space == BufferSize - Len(conn.input)
      n == Min({space, Len(inbox)})
  IN  \/ /\ conn.state # "reading" \/ (space > 0 /\ ~ReadReady(conn.client))
         /\ UNCHANGED <<net, worker, ready>>
      \/ /\ conn.state = "reading"
         /\ space = 0 \/ (inbox = <<>> /\ net[conn.client].peer # "open")
         /\ Fail(id)
      \/ /\ conn.state = "reading" /\ n > 0
         /\ \E input \in {conn.input \o SubSeq(inbox, 1, n)} :
              \E p \in Process(conn.client, input) : Dispatch(id, input, p)

\* Mutant: a write that continues starts again at the front of the buffer.
OfferedFromStart(conn) == conn.out

\* The bytes that handle_writable offers: of the write buffer, or of the slices
\* of the chain, which may lie beyond the end of the reply.
Offered(conn) ==
  IF conn.chained
  THEN LET slots == IoSlices(Len(conn.write_chain), Len(conn.out), BufferSize, conn.written)
       IN  [i \in DOMAIN slots |-> IF slots[i] <= Len(conn.out) THEN conn.out[slots[i]]
                                   ELSE <<0, 0>>]
  ELSE SubSeq(conn.out, conn.written + 1, Len(conn.out))

\* Mutant: the chain is dropped, not released.
WriteCompleteDropsChain(id) ==
  LET conn == connections[id]
  IN  /\ connections' = [connections EXCEPT
           ![id] = [conn EXCEPT !.state = "reading", !.input = <<>>, !.out = <<>>,
                                !.written = 0, !.chained = FALSE, !.write_chain = <<>>]]
      /\ UNCHANGED <<free_list, vacant>>
      /\ Reregister(id, "readable")

\* Mutant: the socket stays registered for writing.
WriteCompleteUnregistered(id) ==
  LET conn == connections[id]
  IN  /\ connections' = [connections EXCEPT
           ![id] = [conn EXCEPT !.state = "reading", !.input = <<>>, !.out = <<>>,
                                !.written = 0, !.chained = FALSE, !.write_chain = <<>>]]
      /\ free_list' = FreeMany(free_list, conn.write_chain)
      /\ UNCHANGED <<vacant, registry, ready>>

\* A completed write: what is left in the read buffer is forgotten.
WriteComplete(id) ==
  LET conn == connections[id]
  IN  /\ connections' = [connections EXCEPT
           ![id] = [conn EXCEPT !.state = "reading", !.input = <<>>, !.out = <<>>,
                                !.written = 0, !.chained = FALSE, !.write_chain = <<>>]]
      /\ free_list' = FreeMany(free_list, conn.write_chain)
      /\ UNCHANGED vacant
      /\ Reregister(id, "readable")

\* Mutant: a partial write is taken for a complete one.
FinishedAtOnce(conn, n) == TRUE

Finished(conn, n) == conn.written + n >= Len(conn.out)

\* handle_writable.  A write of nothing returns 0; without slices there is no
\* write.
Writable(id) ==
  \E conn \in {connections[id]} : \E bytes \in {Offered(conn)} :
    LET c == conn.client
        n == Min({Room(c), Len(bytes)})
        skipped == conn.chained /\ bytes = <<>>
    IN  \/ /\ \/ conn.state # "writing" \/ skipped
              \/ bytes # <<>> /\ ~WriteReady(c)
           /\ UNCHANGED <<net, worker, ready>>
        \/ /\ conn.state = "writing" /\ ~skipped
           /\ bytes = <<>> \/ net[c].peer = "reset"
           /\ Fail(id)
        \/ /\ conn.state = "writing" /\ n > 0 /\ net[c].peer # "reset"
           /\ net' = [net EXCEPT ![c].outbox = @ \o SubSeq(bytes, 1, n)]
           /\ \/ Finished(conn, n) /\ WriteComplete(id)
              \/ /\ ~Finished(conn, n)
                 /\ connections' = [connections EXCEPT ![id].written = @ + n]
                 /\ UNCHANGED <<vacant, free_list, registry, ready>>

\* handle_connection_event, for an event that is readable or writable.
HandleEvent(e) ==
  /\ e.client # Listener /\ ~accepting
  /\ events' = events \ {e}
  /\ UNCHANGED <<backlog, accepting>>
  /\ \/ e.token \notin DOMAIN connections /\ UNCHANGED <<net, worker, ready>>
     \/ e.token \in DOMAIN connections /\ e.kind = "readable" /\ Readable(e.token)
     \/ e.token \in DOMAIN connections /\ e.kind = "writable" /\ Writable(e.token)

-----------------------------------------------------------------------------
Init ==
  /\ InitNet
  /\ connections = <<>>
  /\ vacant = NewSlab(MaxConnections)
  /\ free_list = NewPool(pool_size)
  /\ registry = <<>>
  /\ ready = {}
  /\ events = {}
  /\ accepting = FALSE

Next ==
  \/ \E c \in Clients : ClientConnect(c)
  \/ \E c \in Clients : ClientSend(c)
  \/ \E c \in Clients : ClientLeave(c)
  \/ \E c \in Clients : ClientReceive(c)
  \/ Poll
  \/ Accept
  \/ \E e \in events : HandleEvent(e)

Spec == Init /\ [][Next]_vars

\* The worker's loop goes on while there is something to do, and clients read
\* what is sent to them.
FairSpec ==
  /\ Spec
  /\ WF_vars(Poll \/ Accept \/ \E e \in events : HandleEvent(e))
  /\ \A c \in Clients : WF_vars(ClientReceive(c))

-----------------------------------------------------------------------------
(* Properties.                                                             *)

Occupied == DOMAIN connections

BuffersOf(conn) == <<conn.read_buf_idx, conn.write_buf_idx>> \o conn.read_chain \o conn.write_chain

\* The slab holds at most MaxConnections connections, each with its part of the
\* buffers filled, and the kernel's tables speak of known clients.
TypeOK ==
  /\ net \in [Clients -> Socket] /\ backlog \in Seq(Clients)
  /\ Occupied \subseteq Ids /\ \A id \in Occupied : connections[id] \in MioConnection
  /\ \A id \in Occupied : Len(connections[id].input) <= BufferSize
  /\ IsInjective(vacant) /\ Range(vacant) = Ids \ Occupied
  /\ DOMAIN registry \subseteq Clients /\ ready \subseteq Clients \cup {Listener}
  /\ accepting \in BOOLEAN

\* Every buffer of the pool is free or belongs to one connection, once: accept,
\* chains and close_connection neither lose a buffer nor free it twice.
BuffersAccounted ==
  Partitioned(free_list, [id \in Occupied |-> BuffersOf(connections[id])], pool_size)

\* An event that waits to be handled reaches the connection it was reported for,
\* although ids are reused as soon as a connection is closed.
EventsCurrent ==
  \A e \in events : e.client # Listener =>
    e.token \in Occupied /\ connections[e.token].client = e.client

\* Edge-triggered readiness is never lost: bytes that a reading connection has
\* room for, and room that a writing connection waits for, are about to be
\* reported or handled.  (Not so for a chain that is partly written: io_slices
\* may offer less than the rest, and the write ends with room to spare.)
NoLostWakeup ==
  \A id \in Occupied :
    LET conn == connections[id]
        c == conn.client
    IN  (IF conn.state = "reading" THEN net[c].inbox # <<>> /\ Len(conn.input) < BufferSize
                                   ELSE WriteReady(c) /\ ~(conn.chained /\ conn.written > 0))
          => c \in ready \/ \E e \in events : e.client = c

\* Whether io_slices puts another byte than p at place p of a reply of `length`
\* bytes, for a write that is resumed.
Misplaced(length, p) ==
  \E offset \in 1 .. p - 1 :
    LET slots == IoSlices((length + BufferSize - 1) \div BufferSize, length, BufferSize, offset)
    IN  p - offset \in DOMAIN slots /\ slots[p - offset] # p

\* A client that waits for each reply receives the replies to its requests in the
\* order of the requests, nothing else, and each byte in its place, however the
\* socket cuts the writes.  The exception is what io_slices takes from the wrong
\* place of a chain (handle_writable at bytes_written > 0): these bytes, and no
\* others, may be wrong.
ResponsesInPlace ==
  \A c \in InStep \ Pipelining :
    LET received == net[c].got \o net[c].outbox
        right == Expected[c]
    IN  /\ Len(received) <= Len(right)
        /\ \A i \in DOMAIN received :
             LET length == ReplyLength(Script[c][right[i][1]])
             IN  received[i] = right[i]
                   \/ (length > BufferSize /\ Misplaced(length, right[i][2]))

\* The connection of c is at a place of its chain from which io_slices does not
\* offer the rest of the reply: the loop may then wait for ever.
Misoffered(c) ==
  \E id \in Occupied :
    LET conn == connections[id]
    IN  /\ conn.client = c /\ conn.chained
        /\ Offered(conn) # SubSeq(conn.out, conn.written + 1, Len(conn.out))

\* A client that waits for each reply gets its answers, whatever the others do,
\* up to a chain that io_slices cannot resume.
WaitersAnswered ==
  \A c \in InStep \ Pipelining : \A r \in DOMAIN Script[c] :
    Posed(c, r) ~> (Settled(c, r) \/ Misoffered(c))

=============================================================================
