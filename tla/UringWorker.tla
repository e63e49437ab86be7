---------------------------- MODULE UringWorker ----------------------------
(***************************************************************************)
(* One worker of the io_uring event loop (src/runtime/uring): operations   *)
(* are submitted with a token and answered by completions that carry it;   *)
(* the kernel picks a provided buffer for each read, and replies are       *)
(* written from the worker's pool.                                         *)
(***************************************************************************)
EXTENDS Network, Connections

CONSTANTS
  MaxConnections,  \* max_connections
  RingSize,        \* ring_size: entries of the submission queue
  BatchSize,       \* batch_size
  RingCap,         \* the most provided buffers there are: 4096
  PoolCap,         \* the most write buffers there are: 8192
  AcceptErrors     \* accept may fail

ASSUME UringAssumption ==
  /\ MaxConnections \in Nat \ {0} /\ RingSize \in Nat \ {0} /\ BatchSize \in Nat \ {0}
  /\ RingCap \in Nat \ {0} /\ PoolCap \in Nat \ {0} /\ AcceptErrors \in BOOLEAN

VARIABLES
  connections,  \* ConnectionRegistry: a function on the occupied ids
  vacant,       \* the vacant ids of its slab
  ops,          \* TokenAllocator: a function from the tokens in use to OpType
  spare,        \* the vacant tokens of its slab
  free_list,    \* the write pool's free list
  provided,     \* the ids in the provided buffer ring, in order
  submissions,  \* the submission queue
  inflight,     \* the operations the kernel works on
  completions,  \* the completion queue
  loop          \* the state of worker_loop

worker == <<connections, vacant, ops, spare, free_list, submissions, loop>>
vars == <<net, backlog, worker, provided, inflight, completions>>

Ids == 0 .. MaxConnections - 1
Tokens == 0 .. 2 * MaxConnections
Listener == "listener"

write_pool_size == Min({MaxConnections * 2, PoolCap})

\* The number of provided buffers.  The cast to u16 wraps, and in a release build
\* so does next_power_of_two of a value that has none.
next_power_of_two(n) == Min({p \in {2^i : i \in 0 .. 16} : p >= n}) % 2^16
ring_entries == Min({next_power_of_two(MaxConnections % 2^16), RingCap})

\* The type of a connection.
Connection ==
  [client : Clients, phase : {"reading", "writing"}, input : Seq(Nat),
   out : Seq(Nat \X Nat), written : Nat, buf_idx : Nat \cup {NoBuffer},
   read_buf_idx : Nat \cup {NoBuffer}]

\* OpType.
AcceptOp == [type |-> "Accept"]
ReadOp(conn_id) == [type |-> "Read", conn_id |-> conn_id]
WriteOp(conn_id, buf_idx) == [type |-> "Write", conn_id |-> conn_id, buf_idx |-> buf_idx]

-----------------------------------------------------------------------------
(* The kernel.                                                             *)

\* An operation in the kernel: its token, its kind, the socket, and the bytes to
\* write.  Its completion: the token, the result, and a provided buffer with
\* what was read into it.
Entry(token, kind, client, bytes) ==
  [token |-> token, kind |-> kind, client |-> client, bytes |-> bytes]

Completed(token, result, bid, bytes) ==
  [token |-> token, result |-> result, bid |-> bid, bytes |-> bytes]

Failed == -1

Complete(e, result, bid, bytes) ==
  /\ inflight' = inflight \ {e}
  /\ completions' = Append(completions, Completed(e.token, result, bid, bytes))

\* A new connection; the client is the file descriptor in the result.
CompleteAccept(e) ==
  /\ e.kind = "accept" /\ backlog # <<>>
  /\ UNCHANGED <<net, provided>>
  /\ \/ Complete(e, Head(backlog), NoBuffer, <<>>) /\ backlog' = Tail(backlog)
     \/ AcceptErrors /\ Complete(e, Failed, NoBuffer, <<>>) /\ UNCHANGED backlog

\* The first provided buffer takes what was sent.
CompleteRead(e) ==
  LET inbox == net[e.client].inbox
      n == Min({Len(inbox), BufferSize})
  IN  /\ e.kind = "recv" /\ inbox # <<>> /\ provided # <<>>
      /\ Complete(e, n, Head(provided), SubSeq(inbox, 1, n))
      /\ provided' = Tail(provided)
      /\ net' = [net EXCEPT ![e.client].inbox = SubSeq(@, n + 1, Len(@))]
      /\ UNCHANGED backlog

\* ENOBUFS, the end of the stream, and an error; a buffer may have been picked.
CompleteReadWithout(e) ==
  /\ e.kind = "recv" /\ ReadReady(e.client)
  /\ UNCHANGED <<net, backlog>>
  /\ \/ /\ net[e.client].inbox # <<>> /\ provided = <<>>
        /\ Complete(e, Failed, NoBuffer, <<>>)
        /\ UNCHANGED provided
     \/ /\ net[e.client].inbox = <<>>
        /\ LET result == IF net[e.client].peer = "reset" THEN Failed ELSE 0
           IN  \/ Complete(e, result, NoBuffer, <<>>) /\ UNCHANGED provided
               \/ /\ provided # <<>>
                  /\ Complete(e, result, Head(provided), <<>>)
                  /\ provided' = Tail(provided)

\* A write, which may be short.
CompleteWrite(e) ==
  LET c == e.client
  IN  /\ e.kind = "write"
      /\ UNCHANGED <<backlog, provided>>
      /\ \/ \E n \in 1 .. Min({Room(c), Len(e.bytes)}) :
              /\ net[c].peer # "reset"
              /\ Complete(e, n, NoBuffer, <<>>)
              /\ net' = [net EXCEPT ![c].outbox = @ \o SubSeq(e.bytes, 1, n)]
         \/ /\ e.bytes = <<>> /\ Complete(e, 0, NoBuffer, <<>>) /\ UNCHANGED net
         \/ /\ net[c].peer = "reset" /\ Complete(e, Failed, NoBuffer, <<>>) /\ UNCHANGED net

Kernel ==
  /\ \E e \in inflight :
       CompleteAccept(e) \/ CompleteRead(e) \/ CompleteReadWithout(e) \/ CompleteWrite(e)
  /\ UNCHANGED worker

-----------------------------------------------------------------------------
(* The functions that the handlers call, on the part w of the state that   *)
(* they change; w.ok is FALSE after an Err that ends the worker.           *)

\* TokenAllocator::alloc, the token it returns, and free.
AllocatedToken(w) == AllocMany(w.spare, 1)[1]

alloc_token(w, op) ==
  [w EXCEPT !.spare = AfterAlloc(@, 1), !.ops = Occupy(@, AllocatedToken(w), op)]

free_token(w, token) ==
  [w EXCEPT !.ops = Restrict(@, DOMAIN @ \ {token}), !.spare = FreeMany(@, <<token>>)]

\* A token and ring.submission().push.
Push(w, op, kind, client, bytes) ==
  IF Len(w.submissions) >= RingSize THEN [w EXCEPT !.ok = FALSE]
  ELSE [alloc_token(w, op) EXCEPT
          !.submissions = Append(@, Entry(AllocatedToken(w), kind, client, bytes))]

submit_accept(w) == Push(w, AcceptOp, "accept", Listener, <<>>)

submit_read(w, id) ==
  IF id \in DOMAIN w.connections
  THEN Push(w, ReadOp(id), "recv", w.connections[id].client, <<>>)
  ELSE [w EXCEPT !.ok = FALSE]

submit_write(w, id) ==
  LET conn == w.connections[id]
  IN  IF id \in DOMAIN w.connections /\ conn.phase = "writing"
      THEN Push(w, WriteOp(id, conn.buf_idx), "write", conn.client,
                SubSeq(conn.out, conn.written + 1, Len(conn.out)))
      ELSE [w EXCEPT !.ok = FALSE]

free(w, idx) == [w EXCEPT !.free_list = FreeMany(@, <<idx>>)]

recycle_buffer(w, bid) ==
  IF bid = NoBuffer THEN w ELSE [w EXCEPT !.provided = Append(@, bid)]

\* The buffers a connection gives back when it is closed.
Owned(conn) ==
  (IF conn.phase = "writing" THEN <<conn.buf_idx>> ELSE <<>>)
    \o (IF conn.read_buf_idx # NoBuffer THEN <<conn.read_buf_idx>> ELSE <<>>)

Disconnected(w, c) == [w EXCEPT !.net[c].server = "closed", !.net[c].inbox = <<>>]

close_connection(w, id) ==
  IF id \notin DOMAIN w.connections THEN w
  ELSE LET conn == w.connections[id]
       IN  Disconnected([remove(w, id) EXCEPT !.free_list = FreeMany(@, Owned(conn))],
                        conn.client)

-----------------------------------------------------------------------------
(* The handlers.                                                           *)

\* handle_accept; accept is always submitted again.
handle_accept(w, result) ==
  LET armed == submit_accept(w)
  IN  IF ~armed.ok \/ result = Failed THEN armed
      ELSE IF RegistryFull(w, MaxConnections) THEN Disconnected(armed, result)
      ELSE submit_read([insert(armed, NewConnection(result)) EXCEPT
                          !.net[result].server = "open"], InsertedId(w))

\* Mutant: no check against the size of the accumulation buffer.
AccumulatesTooMuch(w, cqe, id) ==
  /\ cqe.result > 0 /\ cqe.bid # NoBuffer /\ id \in DOMAIN w.connections
  /\ w.connections[id].read_buf_idx # NoBuffer \/ CanAlloc(w.free_list, 1)

\* handle_read, up to the copy into the accumulation buffer: whether there is
\* one with enough space, and the state after the copy.
Accumulates(w, cqe, id) ==
  /\ cqe.result > 0 /\ cqe.bid # NoBuffer /\ id \in DOMAIN w.connections
  /\ w.connections[id].read_buf_idx # NoBuffer \/ CanAlloc(w.free_list, 1)
  /\ Len(w.connections[id].input) + cqe.result <= BufferSize

\* Mutant: the provided buffer is not recycled after the copy.
AccumulatedKeepsBuffer(w, cqe, id) ==
  LET held == w.connections[id].read_buf_idx # NoBuffer
      owner == IF held THEN w
               ELSE [w EXCEPT !.connections[id].read_buf_idx = AllocMany(w.free_list, 1)[1],
                              !.free_list = AfterAlloc(@, 1)]
  IN  [owner EXCEPT !.connections[id].input = @ \o cqe.bytes]

Accumulated(w, cqe, id) ==
  LET held == w.connections[id].read_buf_idx # NoBuffer
      owner == IF held THEN w
               ELSE [w EXCEPT !.connections[id].read_buf_idx = AllocMany(w.free_list, 1)[1],
                              !.free_list = AfterAlloc(@, 1)]
  IN  recycle_buffer([owner EXCEPT !.connections[id].input = @ \o cqe.bytes], cqe.bid)

\* Mutant: the provided buffer is not recycled on this path.
AbandonReadKeepsBuffer(w, cqe, id) == close_connection(w, id)

\* Mutant: the connection stays open without a read.
AbandonReadStaysOpen(w, cqe, id) == recycle_buffer(w, cqe.bid)

\* A result of 0 or an error, no buffer, or too much data.
AbandonRead(w, cqe, id) == close_connection(recycle_buffer(w, cqe.bid), id)

\* The response is in write buffer idx, and the request is consumed.
Responding(conn, idx, result, out) ==
  [start_writing(conn, idx, out) EXCEPT !.input = SubSeq(@, result.consumed + 1, Len(@))]

Respond(w, id, idx, result, out) ==
  submit_write([w EXCEPT !.free_list = AfterAlloc(@, 1),
                         !.connections[id] = Responding(@, idx, result, out)], id)

\* handle_read, from the allocation of the write buffer.
Dispatch(w, id, p) ==
  LET result == p.result
  IN  IF ~CanAlloc(w.free_list, 1) THEN close_connection(w, id)
      ELSE CASE result.tag = "NeedData" -> submit_read(w, id)
             [] result.tag = "Response"
                \/ (result.tag = "LargeResponse" /\ result.reply <= BufferSize) ->
                  Respond(w, id, AllocMany(w.free_list, 1)[1], result,
                          Reply(p.request, result.reply))
             [] result.tag \in {"NeedChain", "Quit", "Error"}
                \/ (result.tag = "LargeResponse" /\ result.reply > BufferSize) ->
                  close_connection(w, id)

\* Mutant: the rest of a partial write is not submitted.
handle_write_stalls(w, cqe, id, buf_idx) ==
  LET conn == w.connections[id]
      written == conn.written + cqe.result
  IN  IF cqe.result <= 0 THEN close_connection(free(w, buf_idx), id)
      ELSE IF id \notin DOMAIN w.connections THEN free(w, buf_idx)
      ELSE IF written >= Len(conn.out)
      THEN submit_read([free(w, buf_idx) EXCEPT
             !.connections[id] = start_reading(@)], id)
      ELSE [w EXCEPT !.connections[id].written = written]

\* Mutant: the write buffer is freed before the write is complete.
handle_write_early(w, cqe, id, buf_idx) ==
  LET conn == w.connections[id]
      written == conn.written + cqe.result
  IN  IF cqe.result <= 0 THEN close_connection(free(w, buf_idx), id)
      ELSE IF id \notin DOMAIN w.connections THEN free(w, buf_idx)
      ELSE IF written >= Len(conn.out)
      THEN submit_read([free(w, buf_idx) EXCEPT
             !.connections[id] = start_reading(@)], id)
      ELSE submit_write([free(w, buf_idx) EXCEPT !.connections[id].written = written], id)

handle_write(w, cqe, id, buf_idx) ==
  LET conn == w.connections[id]
      written == conn.written + cqe.result
  IN  IF cqe.result <= 0 THEN close_connection(free(w, buf_idx), id)
      ELSE IF id \notin DOMAIN w.connections THEN free(w, buf_idx)
      ELSE IF conn.phase # "writing" THEN w
      ELSE IF written >= Len(conn.out)
      THEN submit_read([free(w, buf_idx) EXCEPT
             !.connections[id] = start_reading(@)], id)
      ELSE submit_write([w EXCEPT !.connections[id].written = written], id)

\* What a completion leads to: a set, since bytes that are not framed can mean
\* anything.  A completion with an unknown token is ignored.
Outcomes(w, cqe, op) ==
  CASE op.type = "Accept" -> {handle_accept(w, cqe.result)}
    [] op.type = "Write" -> {handle_write(w, cqe, op.conn_id, op.buf_idx)}
    [] op.type = "Read" /\ ~Accumulates(w, cqe, op.conn_id) -> {AbandonRead(w, cqe, op.conn_id)}
    [] op.type = "Read" /\ Accumulates(w, cqe, op.conn_id) ->
         UNION {LET conn == read.connections[op.conn_id]
                IN  {Dispatch(read, op.conn_id, p) : p \in Process(conn.client, conn.input)} :
                read \in {Accumulated(w, cqe, op.conn_id)}}

\* Mutant: a batch has no limit.
BatchOpenAlways == TRUE

\* The limit of the inner loop.
BatchOpen == loop.processed < BatchSize

\* One turn of the inner loop: the token is freed before the handler is called.
HandleCompletion ==
  LET cqe == Head(completions)
      known == cqe.token \in DOMAIN ops
      state == [connections |-> connections, vacant |-> vacant, ops |-> ops, spare |-> spare,
                free_list |-> free_list, submissions |-> submissions, provided |-> provided,
                net |-> net, ok |-> TRUE]
  IN  /\ loop.phase = "handling" /\ BatchOpen /\ completions # <<>>
      /\ \E freed \in {free_token(state, cqe.token)} :
         \E w \in IF known THEN Outcomes(freed, cqe, ops[cqe.token]) ELSE {state} :
           /\ connections' = w.connections /\ vacant' = w.vacant
           /\ ops' = w.ops /\ spare' = w.spare /\ free_list' = w.free_list
           /\ submissions' = w.submissions /\ provided' = w.provided /\ net' = w.net
           /\ loop' = [phase |-> IF w.ok THEN "handling" ELSE "failed",
                       processed |-> loop.processed + 1]
      /\ completions' = Tail(completions)
      /\ UNCHANGED <<backlog, inflight>>

\* ring.submit_and_wait(1), when the batch is done.
Submit ==
  /\ loop.phase = "handling" /\ (~BatchOpen \/ completions = <<>>)
  /\ inflight' = inflight \cup Range(submissions)
  /\ submissions' = <<>>
  /\ loop' = [phase |-> "waiting", processed |-> 0]
  /\ UNCHANGED <<net, backlog, connections, vacant, ops, spare, free_list, provided, completions>>

Wake ==
  /\ loop.phase = "waiting" /\ completions # <<>>
  /\ loop' = [loop EXCEPT !.phase = "handling"]
  /\ UNCHANGED <<net, backlog, connections, vacant, ops, spare, free_list, provided,
                 submissions, inflight, completions>>

-----------------------------------------------------------------------------
(* The clients, as far as the worker is concerned.                         *)

Client ==
  /\ \E c \in Clients : Connect(c) \/ Send(c) \/ Leave(c) \/ Receive(c)
  /\ UNCHANGED <<worker, provided, inflight, completions>>

\* worker_loop up to its loop, which is not entered without provided buffers.
Init ==
  /\ InitNet
  /\ connections = <<>> /\ vacant = NewSlab(MaxConnections)
  /\ ops = [t \in {0} |-> AcceptOp] /\ spare = AfterAlloc(NewSlab(Cardinality(Tokens)), 1)
  /\ free_list = NewPool(write_pool_size)
  /\ provided = NewPool(ring_entries)
  /\ submissions = <<Entry(0, "accept", Listener, <<>>)>>
  /\ inflight = {} /\ completions = <<>>
  /\ loop = [phase |-> IF ring_entries = 0 THEN "failed" ELSE "handling", processed |-> 0]

Next == Client \/ Kernel \/ HandleCompletion \/ Submit \/ Wake

Spec == Init /\ [][Next]_vars

\* The kernel completes what can be completed, the worker's loop goes on, and
\* clients read what is sent to them.
FairSpec ==
  /\ Spec
  /\ WF_vars(Kernel) /\ WF_vars(HandleCompletion \/ Submit \/ Wake)
  /\ \A c \in Clients :
       WF_vars(Receive(c) /\ UNCHANGED <<worker, provided, inflight, completions>>)

-----------------------------------------------------------------------------
(* Properties.                                                             *)

Occupied == DOMAIN connections

\* What the kernel and the queues hold of an operation.
Pending == Range(submissions) \cup inflight

\* The tokens of the operations under way: submitted, in the kernel, completed.
Submitted == {e.token : e \in Range(submissions)}
Working == {e.token : e \in inflight}
Answers == {cqe.token : cqe \in Range(completions)}

\* The slabs and queues hold what they are meant to hold, and an accumulation
\* buffer is never overfull.
TypeOK ==
  /\ net \in [Clients -> Socket] /\ backlog \in Seq(Clients)
  /\ Occupied \subseteq Ids
  /\ \A id \in Occupied :
       /\ connections[id] \in Connection
       /\ Len(connections[id].input) <= BufferSize
       /\ connections[id].written <= Len(connections[id].out)
  /\ IsInjective(vacant) /\ Range(vacant) = Ids \ Occupied
  /\ IsInjective(spare) /\ Range(spare) = Tokens \ DOMAIN ops
  /\ Len(submissions) <= RingSize /\ loop.processed \in Nat

\* Every token in use is that of one operation under way, in one place, and
\* there is one accept and one operation for each connection, on the socket of
\* that connection.  So a completion never meets a token or a connection id that
\* was reused.
TokensCurrent == loop.phase # "failed" =>
  /\ IsInjective([i \in DOMAIN submissions |-> submissions[i].token])
  /\ \A e, f \in inflight : e.token = f.token => e = f
  /\ IsInjective([i \in DOMAIN completions |-> completions[i].token])
  /\ Submitted \cap Working = {} /\ Submitted \cap Answers = {} /\ Working \cap Answers = {}
  /\ Submitted \cup Working \cup Answers = DOMAIN ops
  /\ \E t \in DOMAIN ops : \A u \in DOMAIN ops : ops[u].type = "Accept" <=> u = t
  /\ \A id \in Occupied : \E t \in DOMAIN ops : \A u \in DOMAIN ops :
       (ops[u].type # "Accept" /\ ops[u].conn_id = id) <=> u = t
  /\ \A e \in Pending : e.kind # "accept" =>
       /\ ops[e.token].conn_id \in Occupied
       /\ connections[ops[e.token].conn_id].client = e.client

\* Every buffer of the write pool is free or belongs to one connection, once, so
\* that the kernel never writes from a buffer that another reply is put into.
BuffersAccounted ==
  Partitioned(free_list, [id \in Occupied |-> Owned(connections[id])], write_pool_size)

\* Every provided buffer is in the ring or in one completion that is still to be
\* handled, once: handle_read recycles it on every path.
ProvidedOnce ==
  LET holding == {i \in DOMAIN completions : completions[i].bid # NoBuffer}
  IN  Partitioned(provided, [i \in holding |-> <<completions[i].bid>>], ring_entries)

\* As long as there are not more connections than provided buffers, there is a
\* buffer for every read that has data, however long completions wait in their
\* queue: no connection is closed for want of one.
ProvidedSuffice ==
  Cardinality(Occupied) <= ring_entries =>
    \A e \in inflight : (e.kind = "recv" /\ net[e.client].inbox # <<>>) => provided # <<>>

\* worker_loop never returns: the submission queue has room for what a batch of
\* completions submits, and no handler meets a missing connection.
WorkerRuns == loop.phase # "failed"

\* The completion that connection id waits for, if it is in the queue.
Completion(id) ==
  LET own == {cqe \in Range(completions) : ops[cqe.token].type # "Accept"
                                            /\ ops[cqe.token].conn_id = id}
  IN  IF own = {} THEN Completed(0, 0, NoBuffer, <<>>) ELSE CHOOSE cqe \in own : TRUE

\* Up to request r of its client, connection id has answered all: the replies to
\* these requests and no others are with the client, in the socket, or about to
\* be written; and all bytes that the client sent after them are, in their order,
\* in the accumulation buffer, in a completion or in the socket.
AnsweredUpTo(id, r) ==
  LET conn == connections[id]
      c == conn.client
      cqe == Completion(id)
      unwritten == IF conn.phase # "writing" THEN <<>>
                   ELSE SubSeq(conn.out, conn.written + Max({cqe.result, 0}) + 1, Len(conn.out))
  IN  /\ net[c].got \o net[c].outbox \o unwritten
           = SubSeq(Expected[c], 1, RepliedLength[c][r])
      /\ conn.input \o cqe.bytes \o net[c].inbox
           = [i \in 1 .. net[c].sent - SentLength[c][r] |-> SentLength[c][r] + i]

\* Whether a client waits for replies or not, it receives the replies to its
\* requests in their order and nothing else, and as long as it is connected every
\* byte it sent is either answered for or kept, once and in order: a request that
\* arrives with its predecessor is not lost (handle_read, handle_write).
ConversationKept ==
  \A c \in InStep :
    /\ \E n \in 0 .. Len(Expected[c]) : net[c].got \o net[c].outbox = SubSeq(Expected[c], 1, n)
    /\ \A id \in Occupied : connections[id].client = c /\ net[c].peer # "reset" =>
         \E r \in 0 .. Len(Script[c]) : AnsweredUpTo(id, r)

\* A client that waits for each reply gets its answers, whatever the others do.
\* (A request that was sent before is looked at only when more bytes arrive.)
WaitersAnswered ==
  \A c \in InStep \ Pipelining : \A r \in DOMAIN Script[c] : Posed(c, r) ~> Settled(c, r)

=============================================================================
