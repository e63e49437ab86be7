--------------------------- MODULE UringInvariant ---------------------------
(***************************************************************************)
(* The invariant of the io_uring worker that the proofs rest on, and what a *)
(* turn of its inner loop may do to the slabs and the queues.              *)
(***************************************************************************)
EXTENDS UringWorker, NetworkProofs

-----------------------------------------------------------------------------
(* The inductive invariant.                                                *)

\* A connection; a reply is in a buffer of the pool.
Live(conn) ==
  /\ conn \in Connection
  /\ Len(conn.input) <= BufferSize /\ conn.written <= Len(conn.out)
  /\ conn.phase = "writing" => conn.buf_idx \in Nat

Lives == {conn \in Connection : Live(conn)}

OpTypes ==
  {AcceptOp} \cup {ReadOp(id) : id \in Ids} \cup {WriteOp(id, b) : id \in Ids, b \in Nat}

Entries ==
  [token : Tokens, kind : {"accept"}, client : {Listener}, bytes : {<<>>}]
    \cup [token : Tokens, kind : {"recv", "write"}, client : Clients, bytes : Seq(Nat \X Nat)]

Cqes ==
  [token : Tokens, result : Clients \cup Int, bid : Nat \cup {NoBuffer}, bytes : Seq(Nat)]

\* The slabs and the queues.
Shape ==
  /\ Slots(connections, vacant, Ids, Lives)
  /\ Slots(ops, spare, Tokens, OpTypes)
  /\ free_list \in Seq(Nat)
  /\ submissions \in Seq(Entries) /\ Len(submissions) <= RingSize
  /\ inflight \subseteq Entries /\ completions \in Seq(Cqes)
  /\ loop \in [phase : {"handling", "waiting", "failed"}, processed : Nat]

\* An operation and the connection it is for.
Serves(op, conns) ==
  op.type # "Accept" =>
    /\ op.conn_id \in DOMAIN conns
    /\ op.type = "Read" => conns[op.conn_id].phase = "reading"
    /\ op.type = "Write" => /\ conns[op.conn_id].phase = "writing"
                            /\ conns[op.conn_id].buf_idx = op.buf_idx

\* An entry and its operation.
Carries(e, op, conns) ==
  /\ e.kind = "accept" <=> op.type = "Accept"
  /\ e.kind = "recv" <=> op.type = "Read"
  /\ e.kind = "write" <=> op.type = "Write"
  /\ op.type # "Accept" => conns[op.conn_id].client = e.client

\* A completion and its operation: only a read takes a provided buffer.
Reports(cqe, op) ==
  /\ op.type = "Accept" => cqe.result \in Clients \cup {Failed}
  /\ op.type # "Accept" => cqe.result \in Int
  /\ op.type # "Read" => cqe.bid = NoBuffer
  /\ (op.type = "Read" /\ cqe.result > 0) => Len(cqe.bytes) = cqe.result

\* An entry of the queue S, or of the set I, has token t.
Queued(S, t) == \E i \in DOMAIN S : S[i].token = t
Held(I, t) == \E e \in I : e.token = t

\* No two have the same.
Apart(S) == \A i, j \in DOMAIN S : S[i].token = S[j].token => i = j
ApartSet(I) == \A e, f \in I : e.token = f.token => e = f

\* Every token of D is that of one entry of the queues S and C or of the set I.
Queues(S, I, C, D) ==
  /\ Apart(S) /\ ApartSet(I) /\ Apart(C)
  /\ \A t : /\ ~ (Queued(S, t) /\ Held(I, t)) /\ ~ (Queued(S, t) /\ Queued(C, t))
           /\ ~ (Held(I, t) /\ Queued(C, t))
           /\ t \in D <=> (Queued(S, t) \/ Held(I, t) \/ Queued(C, t))

\* There is one accept, and one operation for each connection.
Roles(o, conns) ==
  /\ \E t \in DOMAIN o : o[t].type = "Accept"
  /\ \A t, u \in DOMAIN o : (o[t].type = "Accept" /\ o[u].type = "Accept") => t = u
  /\ \A id \in DOMAIN conns : \E t \in DOMAIN o : o[t].type # "Accept" /\ o[t].conn_id = id
  /\ \A t, u \in DOMAIN o :
       (o[t].type # "Accept" /\ o[u].type # "Accept" /\ o[t].conn_id = o[u].conn_id) => t = u
  /\ \A t \in DOMAIN o : Serves(o[t], conns)

\* The entries are about the operations with their tokens.
Links(S, I, C, o, conns) ==
  /\ \A i \in DOMAIN S : Carries(S[i], o[S[i].token], conns)
  /\ \A e \in I : Carries(e, o[e.token], conns)
  /\ \A j \in DOMAIN C : Reports(C[j], o[C[j].token])

\* TokensCurrent, with what every operation is about.
Current ==
  /\ Queues(submissions, inflight, completions, DOMAIN ops)
  /\ Roles(ops, connections)
  /\ Links(submissions, inflight, completions, ops, connections)

Flow == loop.phase # "failed" => Current

\* Buffer x is with a completion of C.
Lent(C, x) == x # NoBuffer /\ \E i \in DOMAIN C : C[i].bid = x
LentOnce(C) == \A i, j \in DOMAIN C : (C[i].bid # NoBuffer /\ C[i].bid = C[j].bid) => i = j

\* Every buffer of N is in the ring P, or with one completion of C.
RingOnce(P, C, N) ==
  /\ P \in Stack(Nat) /\ LentOnce(C)
  /\ \A x : ~ (x \in Range(P) /\ Lent(C, x)) /\ (x \in N <=> (x \in Range(P) \/ Lent(C, x)))

UringInv ==
  /\ NetType /\ Shape /\ Flow
  /\ RingOnce(provided, completions, 0 .. ring_entries - 1)

\* The writes that completed did so with bytes written.
WritesSucceed ==
  \A cqe \in Range(completions) :
    (cqe.token \in DOMAIN ops /\ ops[cqe.token].type = "Write") => cqe.result > 0

-----------------------------------------------------------------------------
(* What a turn of the inner loop does to the variables.                    *)

\* Token t is free, and nothing was submitted.
Released(t) ==
  /\ ops' = Restrict(ops, DOMAIN ops \ {t}) /\ spare' = FreeMany(spare, <<t>>)
  /\ submissions' = submissions

\* Token t, which was freed last, is used for the operation that is submitted.
Reused(t, op, e) ==
  /\ Len(submissions) < RingSize /\ Changed(ops, ops', t, op) /\ spare' = spare
  /\ submissions' = Append(submissions, e)

\* An operation is submitted, or the worker ends.
Continues(t, op, e) ==
  \/ Reused(t, op, e) /\ loop'.phase = "handling"
  \/ Released(t) /\ loop'.phase = "failed" /\ Len(submissions) >= RingSize

\* The connection is closed.
Closes(t, id) ==
  /\ Released(t) /\ loop'.phase = "handling"
  /\ connections' = Restrict(connections, DOMAIN connections \ {id})
  /\ vacant' = FreeMany(vacant, <<id>>)

\* The connection's next operation is submitted.
GoesOn(t, id) ==
  \E conn, op, kind, bytes :
    /\ Live(conn) /\ conn.client = connections[id].client /\ bytes \in Seq(Nat \X Nat)
    /\ \/ op = ReadOp(id) /\ kind = "recv" /\ conn.phase = "reading"
       \/ op = WriteOp(id, conn.buf_idx) /\ kind = "write" /\ conn.phase = "writing"
    /\ Changed(connections, connections', id, conn) /\ vacant' = vacant
    /\ Continues(t, op, Entry(t, kind, conn.client, bytes))

\* Accept is submitted again.
AcceptEntry(t) == Entry(t, "accept", Listener, <<>>)

Rearms(t) ==
  /\ connections' = connections /\ vacant' = vacant
  /\ Continues(t, AcceptOp, AcceptEntry(t))

\* There is a new connection, whose first read takes another token.
Admits(t, c) ==
  LET id == AllocMany(vacant, 1)[1]
      u == AllocMany(spare, 1)[1]
      armed == Append(submissions, AcceptEntry(t))
  IN  /\ Cardinality(DOMAIN connections) < MaxConnections
      /\ connections' = Occupy(connections, id, NewConnection(c)) /\ vacant' = AfterAlloc(vacant, 1)
      /\ Len(submissions) < RingSize
      /\ \/ /\ loop'.phase = "failed" /\ Len(armed) >= RingSize
            /\ Changed(ops, ops', t, AcceptOp) /\ spare' = spare /\ submissions' = armed
         \/ /\ loop'.phase = "handling" /\ ~ (Len(armed) >= RingSize)
            /\ \E mid : Changed(ops, mid, t, AcceptOp) /\ ops' = Occupy(mid, u, ReadOp(id))
            /\ spare' = AfterAlloc(spare, 1)
            /\ submissions' = Append(armed, Entry(u, "recv", c, <<>>))

\* A list of buffers; while BuffersAccounted is broken it may have repetitions.
IsPool(f) == f \in Seq(Nat)

\* A turn of the inner loop, which begins with a completion cqe with token t.
Turn(cqe, t) ==
  /\ cqe \in Cqes /\ t \in DOMAIN ops /\ t \in Tokens /\ t \in Nat
  /\ loop.phase = "handling" /\ completions # <<>> /\ completions' = Tail(completions)
  /\ backlog' = backlog /\ inflight' = inflight
  /\ loop' \in [phase : {"handling", "failed"}, processed : Nat]
  /\ loop'.processed = loop.processed + 1 /\ loop.processed < BatchSize
  /\ net' \in [Clients -> Socket] /\ IsPool(free_list')
  /\ provided' = IF cqe.bid = NoBuffer THEN provided ELSE Append(provided, cqe.bid)
  /\ \/ /\ ops[t].type = "Accept"
        /\ Rearms(t) \/ \E c \in Clients : Admits(t, c)
     \/ /\ ops[t].type # "Accept" /\ ops[t].conn_id \in DOMAIN connections
        /\ Closes(t, ops[t].conn_id) \/ GoesOn(t, ops[t].conn_id)

=============================================================================
