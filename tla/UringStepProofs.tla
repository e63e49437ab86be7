-------------------------- MODULE UringStepProofs ---------------------------
(***************************************************************************)
(* What the handlers of the io_uring worker compute: a completion closes its *)
(* connection, submits its next operation, or accepts, and the write buffers *)
(* of the connections stay accounted for.                                  *)
(***************************************************************************)
EXTENDS UringInvariant

\* A leaf that names no prover is for the SMT solver, then for Zenon, then for the
\* SMT solver again.
USE SMTT(25), ZenonT(25), SMTT(26), SMTT(27), SMTT(28)

-----------------------------------------------------------------------------
(* What the functions that the handlers call do to the part w of the state *)
(* that they are given.                                                    *)

IsState(w) ==
  w = [connections |-> w.connections, vacant |-> w.vacant, ops |-> w.ops, spare |-> w.spare,
       free_list |-> w.free_list, submissions |-> w.submissions, provided |-> w.provided,
       net |-> w.net, ok |-> w.ok]

\* Updates of one part.
LEMMA PutConnections ==
  ASSUME NEW w, IsState(w), NEW C, NEW x, x = [w EXCEPT !.connections = C]
  PROVE  /\ IsState(x) /\ x.connections = C
         /\ x.vacant = w.vacant /\ x.ops = w.ops /\ x.spare = w.spare
         /\ x.free_list = w.free_list /\ x.submissions = w.submissions
         /\ x.provided = w.provided /\ x.net = w.net /\ x.ok = w.ok
  BY ZenonT(40) DEF IsState

\* A handler that changes the write pool leaves the rest of its state.
LEMMA PutFreeList ==
  ASSUME NEW w, IsState(w), NEW F, NEW x, x = [w EXCEPT !.free_list = F]
  PROVE  /\ IsState(x) /\ x.free_list = F /\ x.connections = w.connections
         /\ x.vacant = w.vacant /\ x.ops = w.ops /\ x.spare = w.spare
         /\ x.submissions = w.submissions
         /\ x.provided = w.provided /\ x.net = w.net /\ x.ok = w.ok
  BY ZenonT(40) DEF IsState

\* v is w with an operation pushed, or after the failure to push it.
Pushed(w, v, op, kind, client, bytes) ==
  \/ /\ Len(w.submissions) >= RingSize /\ v.ok = FALSE
     /\ v.ops = w.ops /\ v.spare = w.spare /\ v.submissions = w.submissions
  \/ /\ ~ (Len(w.submissions) >= RingSize) /\ v.ok = w.ok
     /\ v.ops = Occupy(w.ops, AllocatedToken(w), op) /\ v.spare = AfterAlloc(w.spare, 1)
     /\ v.submissions = Append(w.submissions, Entry(AllocatedToken(w), kind, client, bytes))

\* A push changes the token slab and the submission queue only.
LEMMA PushIs ==
  ASSUME NEW w, IsState(w), NEW op, NEW kind, NEW client, NEW bytes,
         NEW v, v = Push(w, op, kind, client, bytes)
  PROVE  /\ IsState(v) /\ Pushed(w, v, op, kind, client, bytes)
         /\ v.connections = w.connections /\ v.vacant = w.vacant
         /\ v.free_list = w.free_list /\ v.provided = w.provided /\ v.net = w.net
  BY ZenonT(40) DEF IsState, Pushed, Push, alloc_token

\* v is w with the connection id removed.
Closed(w, v, id) ==
  /\ v.connections = Restrict(w.connections, DOMAIN w.connections \ {id})
  /\ v.vacant = FreeMany(w.vacant, <<id>>)
  /\ v.ops = w.ops /\ v.spare = w.spare /\ v.submissions = w.submissions /\ v.ok = w.ok

\* Closing a connection gives its buffers back.
LEMMA CloseIs ==
  ASSUME NEW w, IsState(w), NEW id \in DOMAIN w.connections,
         w.net \in [Clients -> Socket], w.connections[id].client \in Clients,
         NEW v, v = close_connection(w, id)
  PROVE  /\ IsState(v) /\ Closed(w, v, id) /\ v.provided = w.provided
         /\ v.free_list = FreeMany(w.free_list, Owned(w.connections[id]))
         /\ v.net \in [Clients -> Socket]
<1> DEFINE c == w.connections[id].client
           x == [remove(w, id) EXCEPT !.free_list = FreeMany(@, Owned(w.connections[id]))]
<1>1. v = Disconnected(x, c)
  BY ZenonT(40) DEF close_connection
<1>2. /\ IsState(x) /\ Closed(w, x, id) /\ x.provided = w.provided
      /\ x.free_list = FreeMany(w.free_list, Owned(w.connections[id])) /\ x.net = w.net
  <2> DEFINE C == Restrict(w.connections, DOMAIN w.connections \ {id})
             V == FreeMany(w.vacant, <<id>>)
             F == FreeMany(w.free_list, Owned(w.connections[id]))
             r == remove(w, id)
  <2>1. r = [w EXCEPT !.connections = C, !.vacant = V]
    BY ZenonT(40) DEF remove
  <2> HIDE DEF C, V, r
  <2>2. /\ IsState(r) /\ r.connections = C /\ r.vacant = V /\ r.free_list = w.free_list
        /\ r.ops = w.ops /\ r.spare = w.spare /\ r.submissions = w.submissions
        /\ r.provided = w.provided /\ r.net = w.net /\ r.ok = w.ok
    BY <2>1, ZenonT(40) DEF IsState
  <2>3. x = [r EXCEPT !.free_list = F]
    BY <2>2, ZenonT(40) DEF r
  <2> HIDE DEF F, x
  <2>4. /\ IsState(x) /\ x.connections = C /\ x.vacant = V /\ x.free_list = F
        /\ x.ops = w.ops /\ x.spare = w.spare /\ x.submissions = w.submissions
        /\ x.provided = w.provided /\ x.net = w.net /\ x.ok = w.ok
    BY <2>2, <2>3, ZenonT(40) DEF IsState
  <2>5. QED
    BY <2>4, ZenonT(40) DEF Closed, C, V, F
<1> HIDE DEF x
<1>3. v = [x EXCEPT !.net = [x.net EXCEPT ![c] = [x.net[c] EXCEPT !.server = "closed", !.inbox = <<>>]]]
  BY <1>1, <1>2, ZenonT(40) DEF IsState, Disconnected
<1>4. x.net[c] \in Socket /\ <<>> \in Seq(Nat)
  BY <1>2
<1>5. [x.net[c] EXCEPT !.server = "closed", !.inbox = <<>>] \in Socket
  BY <1>4, SocketUpdates, ZenonT(40)
<1>6. [x.net EXCEPT ![c] = [x.net[c] EXCEPT !.server = "closed", !.inbox = <<>>]]
        \in [Clients -> Socket]
  BY <1>2, <1>5, ZenonT(40)
<1>7. QED
  BY <1>2, <1>3, <1>6, ZenonT(40) DEF IsState, Closed

\* x is w with connection id changed, and buffers moved.
Revised(w, x, id, conn) ==
  /\ IsState(x) /\ Changed(w.connections, x.connections, id, conn)
  /\ x.vacant = w.vacant /\ x.ops = w.ops /\ x.spare = w.spare
  /\ x.submissions = w.submissions /\ x.net = w.net /\ x.ok = w.ok

\* v is w with connection id changed, and its next operation pushed.
Resubmitted(w, v, id, conn, op, kind, bytes) ==
  /\ Changed(w.connections, v.connections, id, conn)
  /\ v.vacant = w.vacant /\ v.net = w.net
  /\ Pushed(w, v, op, kind, conn.client, bytes)

\* What is still to be written.
Rest(conn) == SubSeq(conn.out, conn.written + 1, Len(conn.out))

\* The next read of a connection.
ReadNext(w, x, v, id, conn) ==
  /\ IsState(v) /\ Resubmitted(w, v, id, conn, ReadOp(id), "recv", <<>>)
  /\ v.free_list = x.free_list /\ v.provided = x.provided

\* submit_read arms the connection for its next read, or the queue is full.
LEMMA SubmitReadIs ==
  ASSUME NEW w, NEW x, NEW id \in DOMAIN w.connections, NEW conn, Revised(w, x, id, conn),
         NEW v, v = submit_read(x, id)
  PROVE  ReadNext(w, x, v, id, conn)
<1>1. IsState(x) /\ id \in DOMAIN x.connections /\ x.connections[id] = conn
  BY ZenonT(40) DEF Revised, Changed
<1>2. v = Push(x, ReadOp(id), "recv", conn.client, <<>>)
  BY <1>1, ZenonT(40) DEF submit_read
<1>3. /\ IsState(v) /\ Pushed(x, v, ReadOp(id), "recv", conn.client, <<>>)
      /\ v.connections = x.connections /\ v.vacant = x.vacant
      /\ v.free_list = x.free_list /\ v.provided = x.provided /\ v.net = x.net
  BY <1>1, <1>2, PushIs
<1>4. Pushed(w, v, ReadOp(id), "recv", conn.client, <<>>)
  BY <1>3, ZenonT(40) DEF Pushed, Revised, AllocatedToken
<1>5. QED
  BY <1>3, <1>4, ZenonT(40) DEF Revised, Resubmitted, ReadNext

\* The next write of a connection.
LEMMA SubmitWriteIs ==
  ASSUME NEW w, NEW x, NEW id \in DOMAIN w.connections, NEW conn, Revised(w, x, id, conn),
         conn.phase = "writing", NEW v, v = submit_write(x, id)
  PROVE  /\ IsState(v)
         /\ Resubmitted(w, v, id, conn, WriteOp(id, conn.buf_idx), "write", Rest(conn))
         /\ v.free_list = x.free_list /\ v.provided = x.provided
<1> DEFINE op == WriteOp(id, conn.buf_idx)
           bytes == Rest(conn)
<1>1. IsState(x) /\ id \in DOMAIN x.connections /\ x.connections[id] = conn
  BY ZenonT(40) DEF Revised, Changed
<1>2. v = Push(x, op, "write", conn.client, bytes)
  BY <1>1, ZenonT(40) DEF submit_write, Rest
<1> HIDE DEF op, bytes
<1>3. /\ IsState(v) /\ Pushed(x, v, op, "write", conn.client, bytes)
      /\ v.connections = x.connections /\ v.vacant = x.vacant
      /\ v.free_list = x.free_list /\ v.provided = x.provided /\ v.net = x.net
  BY <1>1, <1>2, PushIs
<1>4. Pushed(w, v, op, "write", conn.client, bytes)
  BY <1>3, ZenonT(40) DEF Pushed, Revised, AllocatedToken
<1>5. QED
  BY <1>3, <1>4, ZenonT(40) DEF Revised, Resubmitted, op, bytes

\* A short write.
LEMMA WriteMore ==
  ASSUME NEW w, IsState(w), NEW id \in DOMAIN w.connections, w.connections[id] \in Connection,
         w.connections[id].phase = "writing", NEW n \in Int,
         NEW v, v = submit_write([w EXCEPT !.connections[id].written = n], id)
  PROVE  LET more == [w.connections[id] EXCEPT !.written = n]
         IN  /\ IsState(v) /\ v.free_list = w.free_list /\ v.provided = w.provided
             /\ Resubmitted(w, v, id, more, WriteOp(id, more.buf_idx), "write", Rest(more))
<1> DEFINE x == [w EXCEPT !.connections[id].written = n]
           more == [w.connections[id] EXCEPT !.written = n]
<1>1. x = [w EXCEPT !.connections = [w.connections EXCEPT ![id] = more]]
  BY ZenonT(40) DEF IsState
<1>2. more.phase = "writing"
  BY ZenonT(40) DEF Connection
<1>3. v = submit_write(x, id)
  BY ZenonT(40)
<1> HIDE DEF x, more
<1>4. Revised(w, x, id, more) /\ x.free_list = w.free_list /\ x.provided = w.provided
  BY <1>1, ZenonT(40) DEF Revised, Changed, IsState
<1>5. /\ IsState(v) /\ Resubmitted(w, v, id, more, WriteOp(id, more.buf_idx), "write", Rest(more))
      /\ v.free_list = x.free_list /\ v.provided = x.provided
  BY <1>2, <1>3, <1>4, SubmitWriteIs
<1>6. QED
  BY <1>4, <1>5, ZenonT(40) DEF more

\* The three outcomes of a write for a connection that is writing: it failed and
\* the connection is closed, its buffer being given back twice; it is complete;
\* or the rest is to be written.
LEMMA WriteIs ==
  ASSUME NEW w, IsState(w), w.net \in [Clients -> Socket], NEW id \in DOMAIN w.connections,
         Live(w.connections[id]), w.connections[id].phase = "writing",
         NEW cqe, cqe.result \in Int, NEW buf_idx, NEW v, v = handle_write(w, cqe, id, buf_idx)
  PROVE  LET conn == w.connections[id]
             more == [conn EXCEPT !.written = conn.written + cqe.result]
         IN  /\ IsState(v) /\ v.provided = w.provided
             /\ \/ /\ cqe.result <= 0 /\ Closed(w, v, id) /\ v.net \in [Clients -> Socket]
                   /\ v.free_list = FreeMany(FreeMany(w.free_list, <<buf_idx>>), Owned(conn))
                \/ /\ cqe.result > 0 /\ v.free_list = FreeMany(w.free_list, <<buf_idx>>)
                   /\ Resubmitted(w, v, id, start_reading(conn), ReadOp(id), "recv", <<>>)
                \/ /\ cqe.result > 0 /\ v.free_list = w.free_list
                   /\ more.written < Len(conn.out)
                   /\ Resubmitted(w, v, id, more, WriteOp(id, more.buf_idx), "write", Rest(more))
<1> DEFINE conn == w.connections[id]
           more == [conn EXCEPT !.written = conn.written + cqe.result]
           f == free(w, buf_idx)
<1>1. /\ conn \in Connection /\ conn.client \in Clients /\ conn.written \in Nat
      /\ conn.out \in Seq(Nat \X Nat) /\ conn.phase = "writing"
  BY ZenonT(40) DEF Live, Connection
<1>2. /\ IsState(f) /\ f.connections = w.connections /\ f.vacant = w.vacant /\ f.ops = w.ops
      /\ f.spare = w.spare /\ f.submissions = w.submissions /\ f.provided = w.provided
      /\ f.net = w.net /\ f.ok = w.ok /\ f.free_list = FreeMany(w.free_list, <<buf_idx>>)
  BY DEF free, IsState
<1>3. /\ more.written = conn.written + cqe.result
      /\ more.out = conn.out /\ more.buf_idx = conn.buf_idx /\ more.phase = conn.phase
      /\ Len(conn.out) \in Nat
  BY <1>1 DEF Connection
<1> HIDE DEF f
<1>4. CASE cqe.result <= 0
  <2>1. v = close_connection(f, id)
    BY <1>4, ZenonT(40) DEF handle_write, f
  <2>2. /\ IsState(v) /\ Closed(f, v, id) /\ v.provided = f.provided
        /\ v.free_list = FreeMany(f.free_list, Owned(conn))
        /\ v.net \in [Clients -> Socket]
    BY <1>1, <1>2, <2>1, CloseIs
  <2>3. QED
    BY <1>2, <1>4, <2>2, ZenonT(40) DEF Closed
<1>5. CASE ~ (cqe.result <= 0) /\ more.written >= Len(conn.out)
  <2> DEFINE next == start_reading(conn)
             x == [f EXCEPT !.connections[id] = next]
  <2>1. v = submit_read(x, id)
    BY <1>1, <1>2, <1>3, <1>5, ZenonT(40) DEF handle_write, f
  <2> HIDE DEF next
  <2>2. Revised(w, x, id, next) /\ x.free_list = f.free_list /\ x.provided = f.provided
    BY <1>2 DEF Revised, Changed, IsState
  <2> HIDE DEF x
  <2>3. ReadNext(w, x, v, id, next)
    BY <2>1, <2>2, SubmitReadIs, ZenonT(40)
  <2>4. QED
    BY <1>2, <1>5, <2>2, <2>3 DEF next, ReadNext
<1>6. CASE ~ (cqe.result <= 0) /\ ~ (more.written >= Len(conn.out))
  <2>1. v = submit_write([w EXCEPT !.connections[id].written = conn.written + cqe.result], id)
    BY <1>1, <1>3, <1>6, ZenonT(40) DEF handle_write
  <2>3. conn.written + cqe.result \in Int
    BY <1>1
  <2>4. /\ IsState(v) /\ v.free_list = w.free_list /\ v.provided = w.provided
        /\ Resubmitted(w, v, id, more, WriteOp(id, more.buf_idx), "write", Rest(more))
    BY <1>1, <2>1, <2>3, WriteMore, ZenonT(40)
  <2>5. QED
    BY <1>1, <1>3, <1>6, <2>4
<1>7. QED
  BY <1>4, <1>5, <1>6, ZenonT(40)

\* A connection whose read is given up is closed, and the provided buffer is
\* put back.
LEMMA AbandonIs ==
  ASSUME NEW w, IsState(w), w.net \in [Clients -> Socket], NEW id \in DOMAIN w.connections,
         Live(w.connections[id]), NEW cqe, NEW v, v = AbandonRead(w, cqe, id)
  PROVE  /\ IsState(v) /\ Closed(w, v, id) /\ v.net \in [Clients -> Socket]
         /\ v.free_list = FreeMany(w.free_list, Owned(w.connections[id]))
         /\ v.provided = IF cqe.bid = NoBuffer THEN w.provided ELSE Append(w.provided, cqe.bid)
<1> DEFINE x == recycle_buffer(w, cqe.bid)
<1>1. /\ IsState(x) /\ x.connections = w.connections /\ x.vacant = w.vacant /\ x.ops = w.ops
      /\ x.spare = w.spare /\ x.submissions = w.submissions /\ x.free_list = w.free_list
      /\ x.net = w.net /\ x.ok = w.ok
      /\ x.provided = IF cqe.bid = NoBuffer THEN w.provided ELSE Append(w.provided, cqe.bid)
  BY ZenonT(40) DEF recycle_buffer, IsState
<1>2. v = close_connection(x, id)
  BY ZenonT(40) DEF AbandonRead
<1>3. w.connections[id].client \in Clients
  BY ZenonT(40) DEF Live, Connection
<1> HIDE DEF x
<1>4. /\ IsState(v) /\ Closed(x, v, id) /\ v.provided = x.provided
      /\ v.free_list = FreeMany(x.free_list, Owned(x.connections[id]))
      /\ v.net \in [Clients -> Socket]
  BY <1>1, <1>2, <1>3, CloseIs
<1>5. QED
  BY <1>1, <1>4, ZenonT(40) DEF Closed

\* What was read is in an accumulation buffer, which the connection has or gets,
\* and the provided buffer is put back.
Accumulating(w, r, id, cqe) ==
  LET conn == w.connections[id]
      after == r.connections[id]
  IN  /\ Revised(w, r, id, after) /\ r.provided = Append(w.provided, cqe.bid)
      /\ Live(after) /\ after.client = conn.client /\ after.phase = conn.phase
      /\ after.buf_idx = conn.buf_idx /\ r.free_list \in Seq(Nat)
      /\ \/ /\ conn.read_buf_idx # NoBuffer
            /\ after.read_buf_idx = conn.read_buf_idx /\ r.free_list = w.free_list
         \/ /\ conn.read_buf_idx = NoBuffer /\ CanAlloc(w.free_list, 1)
            /\ after.read_buf_idx = AllocMany(w.free_list, 1)[1]
            /\ after.read_buf_idx \in Nat
            /\ r.free_list = AfterAlloc(w.free_list, 1)

\* That is what Accumulated does.
LEMMA AccumulatedIs ==
  ASSUME NEW w, IsState(w), NEW id \in DOMAIN w.connections, Live(w.connections[id]),
         w.free_list \in Seq(Nat),
         NEW cqe, cqe.result \in Int, cqe.bytes \in Seq(Nat), Len(cqe.bytes) = cqe.result,
         Accumulates(w, cqe, id), NEW r, r = Accumulated(w, cqe, id)
  PROVE  Accumulating(w, r, id, cqe)
<1> DEFINE conn == w.connections[id]
           held == conn.read_buf_idx # NoBuffer
           idx == AllocMany(w.free_list, 1)[1]
           rest == AfterAlloc(w.free_list, 1)
           owner == IF held THEN w
                    ELSE [w EXCEPT !.connections[id].read_buf_idx = idx, !.free_list = rest]
           mid == IF held THEN conn ELSE [conn EXCEPT !.read_buf_idx = idx]
           new == [mid EXCEPT !.input = mid.input \o cqe.bytes]
<1>1. /\ conn \in Connection /\ Len(conn.input) <= BufferSize /\ conn.input \in Seq(Nat)
      /\ Len(conn.input) + cqe.result <= BufferSize /\ (held \/ CanAlloc(w.free_list, 1))
      /\ cqe.bid # NoBuffer
  BY ZenonT(40) DEF Live, Connection, Accumulates
<1>2. ~ held => idx \in Nat /\ rest \in Seq(Nat)
  BY <1>1, ListPop, ZenonT(40)
<1> HIDE DEF idx, rest
<1>3. /\ IsState(owner) /\ Changed(w.connections, owner.connections, id, mid)
      /\ owner.free_list = IF held THEN w.free_list ELSE rest
      /\ owner.vacant = w.vacant /\ owner.ops = w.ops /\ owner.spare = w.spare
      /\ owner.submissions = w.submissions /\ owner.net = w.net /\ owner.ok = w.ok
      /\ owner.provided = w.provided
  <2>1. CASE held
    BY <2>1, ZenonT(40) DEF IsState, Changed
  <2>2. CASE ~ held
    <3>1. owner = [w EXCEPT !.connections = [w.connections EXCEPT ![id] = mid], !.free_list = rest]
      BY <2>2, ZenonT(40) DEF IsState
    <3> HIDE DEF owner, mid
    <3>2. QED
      BY <2>2, <3>1, ZenonT(40) DEF IsState, Changed
  <2>3. QED
    BY <2>1, <2>2, ZenonT(40)
<1>4. r = recycle_buffer([owner EXCEPT !.connections[id].input = @ \o cqe.bytes], cqe.bid)
  BY ZenonT(40) DEF Accumulated, idx, rest
<1>5. mid \in Connection /\ mid.input = conn.input /\ mid.phase = conn.phase
      /\ mid.client = conn.client /\ mid.out = conn.out /\ mid.written = conn.written
      /\ mid.buf_idx = conn.buf_idx
      /\ mid.read_buf_idx = IF held THEN conn.read_buf_idx ELSE idx
  BY <1>1, <1>2, ZenonT(40) DEF Connection
<1> HIDE DEF owner, mid
<1>6. mid.input \o cqe.bytes \in Seq(Nat) /\ Len(mid.input \o cqe.bytes) <= BufferSize
  <2>1. mid.input \in Seq(Nat)
    BY <1>1, <1>5, ZenonT(40)
  <2>2. /\ mid.input \o cqe.bytes \in Seq(Nat)
        /\ Len(mid.input \o cqe.bytes) = Len(mid.input) + Len(cqe.bytes)
    BY <2>1, JoinIs, ZenonT(40)
  <2>3. QED
    BY <1>1, <1>5, <2>2, ZenonT(40)
<1>7. new \in Connection /\ new.input = mid.input \o cqe.bytes /\ new.phase = mid.phase
      /\ new.client = mid.client /\ new.out = mid.out /\ new.written = mid.written
      /\ new.buf_idx = mid.buf_idx /\ new.read_buf_idx = mid.read_buf_idx
  BY <1>5, <1>6, ZenonT(40) DEF Connection
<1>8. r = [owner EXCEPT !.connections = [owner.connections EXCEPT ![id] = new],
                        !.provided = Append(w.provided, cqe.bid)]
  BY <1>1, <1>3, <1>4, ZenonT(40) DEF recycle_buffer, IsState, Changed
<1> HIDE DEF new
<1>9. /\ Revised(w, r, id, new) /\ r.connections[id] = new
      /\ r.provided = Append(w.provided, cqe.bid) /\ r.free_list = owner.free_list
  BY <1>3, <1>8, ZenonT(40) DEF Revised, IsState, Changed
<1>10. Live(new)
  BY <1>5, <1>6, <1>7, ZenonT(40) DEF Live
<1>11. QED
  BY <1>1, <1>2, <1>3, <1>5, <1>7, <1>9, <1>10, ZenonT(40) DEF idx, rest, Accumulating

\* v is r with the response of connection id on its way.
Responded(w, r, v, id, next) ==
  /\ IsState(v) /\ v.free_list = AfterAlloc(r.free_list, 1) /\ v.provided = r.provided
  /\ Resubmitted(w, v, id, next, WriteOp(id, next.buf_idx), "write", Rest(next))

\* A response.
LEMMA RespondIs ==
  ASSUME NEW w, NEW r, NEW id \in DOMAIN w.connections, NEW conn \in Connection,
         Revised(w, r, id, conn), NEW idx \in Nat, NEW result, NEW out,
         NEW v, v = Respond(r, id, idx, result, out)
  PROVE  Responded(w, r, v, id, Responding(conn, idx, result, out))
<1> DEFINE next == Responding(conn, idx, result, out)
           F == AfterAlloc(r.free_list, 1)
           C == [r.connections EXCEPT ![id] = next]
           y == [r EXCEPT !.free_list = F]
           x == [y EXCEPT !.connections = C]
<1>1. IsState(r) /\ id \in DOMAIN r.connections /\ r.connections[id] = conn
  BY ZenonT(40) DEF Revised, Changed
<1>3. v = submit_write([r EXCEPT !.free_list = F,
                                 !.connections[id] = Responding(@, idx, result, out)], id)
  BY <1>1, ZenonT(40) DEF Respond, IsState
<1>4. next.phase = "writing"
  BY ZenonT(40) DEF Responding, start_writing, Connection
<1> HIDE DEF F
<1>5. /\ IsState(y) /\ y.connections = r.connections /\ y.free_list = F
      /\ y.provided = r.provided /\ y.vacant = r.vacant /\ y.ops = r.ops
      /\ y.spare = r.spare /\ y.submissions = r.submissions /\ y.net = r.net /\ y.ok = r.ok
  BY <1>1, PutFreeList
<1>a. v = submit_write([y EXCEPT !.connections[id] = Responding(@, idx, result, out)], id)
  BY <1>3, ZenonT(40)
<1> HIDE DEF y
<1>b. y.connections[id] = conn
  BY <1>1, <1>5, ZenonT(40)
<1>c. v = submit_write(x, id)
  BY <1>5, <1>a, <1>b, ZenonT(40) DEF IsState
<1> HIDE DEF next
<1>6. Changed(w.connections, C, id, next)
  BY ZenonT(40) DEF Revised, Changed
<1> HIDE DEF C
<1>7. /\ IsState(x) /\ x.connections = C /\ x.free_list = F /\ x.provided = r.provided
      /\ x.vacant = r.vacant /\ x.ops = r.ops /\ x.spare = r.spare
      /\ x.submissions = r.submissions /\ x.net = r.net /\ x.ok = r.ok
  BY <1>5, PutConnections
<1> HIDE DEF x
<1>8. Revised(w, x, id, next)
  BY <1>6, <1>7, ZenonT(40) DEF Revised
<1>9. /\ IsState(v) /\ v.free_list = x.free_list /\ v.provided = x.provided
      /\ Resubmitted(w, v, id, next, WriteOp(id, next.buf_idx), "write", Rest(next))
  BY <1>4, <1>c, <1>8, SubmitWriteIs
<1>10. QED
  BY <1>7, <1>9, ZenonT(40) DEF next, F, Responded

\* The outcomes of a read whose data was accumulated: the connection is closed, or
\* reads on, or writes a response from a buffer of the pool.
Dispatched(w, r, v, id, conn) ==
  /\ IsState(v) /\ v.provided = r.provided
  /\ \/ /\ Closed(w, v, id) /\ v.net \in [Clients -> Socket]
        /\ v.free_list = FreeMany(r.free_list, Owned(conn))
     \/ /\ v.free_list = r.free_list
        /\ Resubmitted(w, v, id, conn, ReadOp(id), "recv", <<>>)
     \/ \E next :
        /\ CanAlloc(r.free_list, 1) /\ v.free_list = AfterAlloc(r.free_list, 1)
        /\ Live(next) /\ next.client = conn.client /\ next.phase = "writing"
        /\ next.buf_idx = AllocMany(r.free_list, 1)[1]
        /\ next.read_buf_idx = conn.read_buf_idx
        /\ Resubmitted(w, v, id, next, WriteOp(id, next.buf_idx), "write", Rest(next))

\* What handle_read does with the result of process.
LEMMA DispatchIs ==
  ASSUME NEW w, NEW r, NEW id \in DOMAIN w.connections, NEW conn, Revised(w, r, id, conn),
         Live(conn), conn.phase = "reading",
         IsPool(r.free_list), w.net \in [Clients -> Socket],
         NEW p \in Process(conn.client, conn.input), NEW v, v = Dispatch(r, id, p)
  PROVE  Dispatched(w, r, v, id, conn)
<1> SUFFICES
         /\ IsState(v) /\ v.provided = r.provided
         /\ \/ /\ Closed(w, v, id) /\ v.net \in [Clients -> Socket]
               /\ v.free_list = FreeMany(r.free_list, Owned(conn))
            \/ /\ v.free_list = r.free_list
               /\ Resubmitted(w, v, id, conn, ReadOp(id), "recv", <<>>)
            \/ \E next :
               /\ CanAlloc(r.free_list, 1) /\ v.free_list = AfterAlloc(r.free_list, 1)
               /\ Live(next) /\ next.client = conn.client /\ next.phase = "writing"
               /\ next.buf_idx = AllocMany(r.free_list, 1)[1]
               /\ next.read_buf_idx = conn.read_buf_idx
               /\ Resubmitted(w, v, id, next, WriteOp(id, next.buf_idx), "write", Rest(next))
  BY ZenonT(40) DEF Dispatched
<1>1. /\ conn \in Connection /\ conn.client \in Clients /\ conn.input \in Seq(Nat)
      /\ Len(conn.input) <= BufferSize
  BY ZenonT(40) DEF Live, Connection
<1>2. p.request \in Nat /\ p.result \in ProcessResult
  BY <1>1, ProcessType, ZenonT(40)
<1>3. IsState(r) /\ id \in DOMAIN r.connections /\ r.connections[id] = conn /\ r.net = w.net
  BY ZenonT(40) DEF Revised, Changed
<1>4. ASSUME v = close_connection(r, id)
      PROVE  /\ IsState(v) /\ v.provided = r.provided
             /\ Closed(w, v, id) /\ v.net \in [Clients -> Socket]
             /\ v.free_list = FreeMany(r.free_list, Owned(conn))
  <2>1. /\ IsState(v) /\ Closed(r, v, id) /\ v.provided = r.provided
        /\ v.free_list = FreeMany(r.free_list, Owned(conn))
        /\ v.net \in [Clients -> Socket]
    BY <1>1, <1>3, <1>4, CloseIs, ZenonT(40)
  <2>2. Closed(w, v, id)
    BY <2>1, ZenonT(40) DEF Closed, Revised, Changed, Restrict
  <2>3. QED
    BY <2>1, <2>2, ZenonT(40)
<1>5. CASE ~ CanAlloc(r.free_list, 1)
  BY <1>4, <1>5, ZenonT(40) DEF Dispatch
<1>6. CASE CanAlloc(r.free_list, 1) /\ p.result.tag = "NeedData"
  <2>1. v = submit_read(r, id)
    BY <1>6, ZenonT(40) DEF Dispatch
  <2>2. ReadNext(w, r, v, id, conn)
    BY <2>1, SubmitReadIs, ZenonT(40)
  <2>3. QED
    BY <2>2, ZenonT(40) DEF ReadNext
<1>7. CASE /\ CanAlloc(r.free_list, 1)
           /\ \/ p.result.tag \in {"NeedChain", "Quit", "Error"}
              \/ p.result.tag = "LargeResponse" /\ p.result.reply > BufferSize
  <2>1. p.result.tag = "LargeResponse" => p.result.reply \in Nat
    BY <1>2 DEF ProcessResult, NeedData, Quit, Error
  <2>2. v = close_connection(r, id)
    BY <1>7, <2>1, ProcessingAssumption DEF Dispatch
  <2>3. QED
    BY <1>4, <2>2, ZenonT(40)
<1>8. CASE /\ CanAlloc(r.free_list, 1)
           /\ \/ p.result.tag = "Response"
              \/ p.result.tag = "LargeResponse" /\ p.result.reply <= BufferSize
  <2>1. p.result.reply \in Nat /\ p.result.consumed \in Nat
    BY <1>2, <1>8 DEF ProcessResult, NeedData, Quit, Error
  <2> DEFINE idx == AllocMany(r.free_list, 1)[1]
             out == Reply(p.request, p.result.reply)
             rest == SubSeq(conn.input, p.result.consumed + 1, Len(conn.input))
             next == Responding(conn, idx, p.result, out)
  <2>2. v = Respond(r, id, idx, p.result, out)
    BY <1>8, <2>1, ProcessingAssumption DEF Dispatch
  <2>4. idx \in Nat
    BY <1>8, ListPop, ZenonT(40) DEF IsPool
  <2>5. out \in Seq(Nat \X Nat)
    <3> DEFINE n == p.result.reply
    <3>1. \A i \in 1 .. n : <<p.request, i>> \in Nat \X Nat
      BY <1>2, <2>1
    <3>2. out \in [1 .. n -> Nat \X Nat]
      BY <3>1, ZenonT(40) DEF Reply
    <3> HIDE DEF out
    <3>3. QED
      BY <2>1, <3>2, SeqIs, ZenonT(40)
  <2>6. rest \in Seq(Nat) /\ Len(rest) <= BufferSize
    <3>1. /\ Len(conn.input) \in Nat /\ p.result.consumed + 1 \in 1 .. p.result.consumed + 1
          /\ \A i \in p.result.consumed + 1 .. Len(conn.input) : conn.input[i] \in Nat
      BY <1>1, <2>1
    <3>2. rest \in Seq(Nat)
      BY <1>1, <2>1, <3>1
    <3>3. Len(rest) <= Len(conn.input)
      BY <1>1, <2>1, <3>1
    <3> HIDE DEF rest
    <3>4. QED
      BY <1>1, <3>1, <3>2, <3>3, ProcessingAssumption
  <2> HIDE DEF idx, out, rest
  <2>7. /\ next \in Connection /\ next.phase = "writing" /\ next.out = out /\ next.written = 0
        /\ next.buf_idx = idx /\ next.input = rest /\ next.client = conn.client
        /\ next.read_buf_idx = conn.read_buf_idx
    BY <1>1, <2>4, <2>5, <2>6, ZenonT(40) DEF Connection, Responding, start_writing, rest
  <2>8. Live(next)
    <3> HIDE DEF next
    <3>1. QED
      BY <2>4, <2>5, <2>6, <2>7 DEF Live
  <2>9. Responded(w, r, v, id, next)
    <3>1. conn \in Connection
      BY <1>1, ZenonT(40)
    <3>2. QED
      BY <2>2, <2>4, <3>1, RespondIs, ZenonT(40)
  <2> HIDE DEF next
  <2>10. QED
    BY <1>8, <2>7, <2>8, <2>9, ZenonT(40) DEF idx, Responded
<1>9. /\ p.result.tag \in {"NeedData", "NeedChain", "Quit", "Error", "Response", "LargeResponse"}
      /\ p.result.tag = "LargeResponse" => p.result.reply \in Nat
  BY <1>2 DEF ProcessResult, NeedData, Quit, Error
<1>10. QED
  BY <1>5, <1>6, <1>7, <1>8, <1>9, ProcessingAssumption

\* v is w with a connection for client c, whose first read is pushed after the
\* accept that a has.
Admitted(w, a, v, c) ==
  /\ a.ok /\ ~ RegistryFull(w, MaxConnections)
  /\ v.connections = Occupy(w.connections, InsertedId(w), NewConnection(c))
  /\ v.vacant = AfterAlloc(w.vacant, 1)
  /\ Pushed(a, v, ReadOp(InsertedId(w)), "recv", c, <<>>)

\* The accept is armed again, and the connection is rejected or admitted.
Accepted(w, v, result) ==
  /\ IsState(v) /\ v.provided = w.provided /\ v.free_list = w.free_list
  /\ v.net \in [Clients -> Socket]
  /\ \/ /\ v.connections = w.connections /\ v.vacant = w.vacant
        /\ Pushed(w, v, AcceptOp, "accept", Listener, <<>>)
     \/ /\ result \in Clients
        /\ \E a : /\ Pushed(w, a, AcceptOp, "accept", Listener, <<>>)
                 /\ Admitted(w, a, v, result)

\* The outcomes of an accept: it is submitted again, and a connection is admitted
\* if there was one and there is room for it.
LEMMA AcceptIs ==
  ASSUME NEW w, IsState(w), w.net \in [Clients -> Socket],
         NEW result \in Clients \cup {Failed}, NEW v, v = handle_accept(w, result)
  PROVE  Accepted(w, v, result)
<1> DEFINE a == submit_accept(w)
           id == InsertedId(w)
           x == insert(a, NewConnection(result))
           y == [x EXCEPT !.net[result].server = "open"]
<1>1. /\ IsState(a) /\ Pushed(w, a, AcceptOp, "accept", Listener, <<>>)
      /\ a.connections = w.connections /\ a.vacant = w.vacant
      /\ a.free_list = w.free_list /\ a.provided = w.provided /\ a.net = w.net
  BY PushIs DEF submit_accept
<1> HIDE DEF a
<1>2. CASE ~ a.ok \/ result = Failed
  <2>1. v = a
    BY <1>2, ZenonT(40) DEF handle_accept, a
  <2>2. QED
    BY <1>1, <2>1, ZenonT(40) DEF Accepted
<1>3. CASE a.ok /\ result # Failed /\ RegistryFull(w, MaxConnections)
  <2>1. v = Disconnected(a, result) /\ result \in Clients
    BY <1>3, ZenonT(40) DEF handle_accept, a
  <2> DEFINE N == [a.net EXCEPT ![result] = [a.net[result] EXCEPT !.server = "closed", !.inbox = <<>>]]
  <2>2. v = [a EXCEPT !.net = N]
    BY <1>1, <2>1, ZenonT(40) DEF IsState, Disconnected
  <2>3. a.net[result] \in Socket /\ <<>> \in Seq(Nat)
    BY <1>1, <2>1
  <2>4. [a.net[result] EXCEPT !.server = "closed", !.inbox = <<>>] \in Socket
    BY <2>3, SocketUpdates, ZenonT(40)
  <2>5. N \in [Clients -> Socket]
    BY <1>1, <2>4, ZenonT(40)
  <2> HIDE DEF N
  <2>6. /\ IsState(v) /\ v.connections = a.connections /\ v.vacant = a.vacant /\ v.ops = a.ops
        /\ v.spare = a.spare /\ v.free_list = a.free_list /\ v.submissions = a.submissions
        /\ v.provided = a.provided /\ v.net = N /\ v.ok = a.ok
    BY <1>1, <2>2, ZenonT(40) DEF IsState
  <2>7. Pushed(w, v, AcceptOp, "accept", Listener, <<>>)
    BY <1>1, <2>6, ZenonT(40) DEF Pushed
  <2>8. QED
    BY <1>1, <2>5, <2>6, <2>7, ZenonT(40) DEF Accepted
<1>4. CASE a.ok /\ result # Failed /\ ~ RegistryFull(w, MaxConnections)
  <2>1. v = submit_read(y, id) /\ result \in Clients
    BY <1>4, ZenonT(40) DEF handle_accept, a
  <2> DEFINE C == Occupy(w.connections, InsertedId(w), NewConnection(result))
             V == AfterAlloc(w.vacant, 1)
  <2>2. InsertedId(a) = id
    BY <1>1, ZenonT(40) DEF InsertedId
  <2>3. x = [a EXCEPT !.connections = C, !.vacant = V]
    BY <1>1, <2>2, ZenonT(40) DEF insert
  <2>4. C[id] = NewConnection(result) /\ id \in DOMAIN C
    BY ZenonT(40) DEF Occupy
  <2> HIDE DEF C, V, id, x
  <2>5. /\ IsState(x) /\ x.connections = C /\ x.vacant = V /\ x.ops = a.ops
        /\ x.spare = a.spare /\ x.free_list = a.free_list /\ x.submissions = a.submissions
        /\ x.provided = a.provided /\ x.net = a.net /\ x.ok = a.ok
    BY <1>1, <2>3, ZenonT(40) DEF IsState
  <2> DEFINE N == [x.net EXCEPT ![result] = [x.net[result] EXCEPT !.server = "open"]]
  <2>6. y = [x EXCEPT !.net = N]
    BY <2>5, ZenonT(40) DEF IsState
  <2>7. N \in [Clients -> Socket]
    <3>1. x.net[result] \in Socket
      BY <1>1, <2>1, <2>5, ZenonT(40)
    <3>2. [x.net[result] EXCEPT !.server = "open"] \in Socket
      BY <3>1, SocketUpdates, ZenonT(40)
    <3>3. QED
      BY <1>1, <2>5, <3>2, ZenonT(40)
  <2> HIDE DEF N, y
  <2>8. /\ IsState(y) /\ y.connections = C /\ y.vacant = V /\ y.ops = a.ops
        /\ y.spare = a.spare /\ y.free_list = a.free_list /\ y.submissions = a.submissions
        /\ y.provided = a.provided /\ y.net = N /\ y.ok = a.ok
    BY <2>5, <2>6, ZenonT(40) DEF IsState
  <2>9. v = Push(y, ReadOp(id), "recv", result, <<>>)
    BY <2>1, <2>4, <2>8 DEF submit_read, NewConnection
  <2>10. /\ IsState(v) /\ Pushed(y, v, ReadOp(id), "recv", result, <<>>)
         /\ v.connections = y.connections /\ v.vacant = y.vacant
         /\ v.free_list = y.free_list /\ v.provided = y.provided /\ v.net = y.net
    BY <2>8, <2>9, PushIs
  <2>11. Pushed(a, v, ReadOp(id), "recv", result, <<>>)
    BY <2>8, <2>10, ZenonT(40) DEF Pushed, AllocatedToken
  <2>12. Admitted(w, a, v, result)
    BY <1>4, <2>8, <2>10, <2>11, ZenonT(40) DEF Admitted, C, V, id
  <2>13. QED
    BY <1>1, <2>1, <2>7, <2>8, <2>10, <2>12, ZenonT(40) DEF Accepted
<1>5. QED
  BY <1>2, <1>3, <1>4, ZenonT(40)

-----------------------------------------------------------------------------
(* The completion of a read or a write: the connection is closed, or its   *)
(* next operation is pushed.                                               *)

\* The next operation of connection id, for what the connection waits for.
Proceeds(w, v, id) ==
  \E conn, op, kind, bytes :
    /\ Live(conn) /\ conn.client = w.connections[id].client /\ bytes \in Seq(Nat \X Nat)
    /\ \/ op = ReadOp(id) /\ kind = "recv" /\ conn.phase = "reading"
       \/ op = WriteOp(id, conn.buf_idx) /\ kind = "write" /\ conn.phase = "writing"
    /\ Resubmitted(w, v, id, conn, op, kind, bytes)

\* What the handlers of reads and writes leave.
Served(w, v, id, cqe) ==
  /\ IsState(v) /\ v.net \in [Clients -> Socket] /\ IsPool(v.free_list)
  /\ v.provided = IF cqe.bid = NoBuffer THEN w.provided ELSE Append(w.provided, cqe.bid)
  /\ Closed(w, v, id) \/ Proceeds(w, v, id)

\* The buffers that a connection gives back are in the pool.
LEMMA OwnedType ==
  ASSUME NEW conn, Live(conn)
  PROVE  Owned(conn) \in Seq(Nat)
<1>1. /\ conn.phase \in {"reading", "writing"} /\ conn.phase = "writing" => conn.buf_idx \in Nat
      /\ conn.read_buf_idx \in Nat \cup {NoBuffer}
  BY ZenonT(40) DEF Live, Connection
<1> DEFINE a == IF conn.phase = "writing" THEN <<conn.buf_idx>> ELSE <<>>
           b == IF conn.read_buf_idx # NoBuffer THEN <<conn.read_buf_idx>> ELSE <<>>
<1>2. a \in Seq(Nat)
  BY <1>1
<1>3. b \in Seq(Nat)
  BY <1>1
<1>4. Owned(conn) = a \o b
  BY ZenonT(40) DEF Owned
<1> HIDE DEF a, b
<1>5. QED
  BY <1>2, <1>3, <1>4

\* Lists of buffers stay lists of buffers.
LEMMA PoolType ==
  ASSUME NEW f, IsPool(f)
  PROVE  /\ \A g \in Seq(Nat) : IsPool(FreeMany(f, g))
         /\ \A i \in Nat : IsPool(FreeMany(f, <<i>>))
         /\ CanAlloc(f, 1) => IsPool(AfterAlloc(f, 1)) /\ AllocMany(f, 1)[1] \in Nat
<1>1. \A g \in Seq(Nat) : IsPool(FreeMany(f, g))
  BY DEF IsPool, FreeMany
<1>2. \A i \in Nat : <<i>> \in Seq(Nat)
  OBVIOUS
<1>3. CanAlloc(f, 1) => IsPool(AfterAlloc(f, 1)) /\ AllocMany(f, 1)[1] \in Nat
  BY ListPop, ZenonT(40) DEF IsPool
<1>4. QED
  BY <1>1, <1>2, <1>3, ZenonT(40)

\* What is still to be written is a sequence of bytes.
LEMMA RestType ==
  ASSUME NEW conn, Live(conn)
  PROVE  Rest(conn) \in Seq(Nat \X Nat)
<1>1. conn.out \in Seq(Nat \X Nat) /\ conn.written \in Nat
  BY ZenonT(40) DEF Live, Connection
<1> DEFINE S == Nat \X Nat
           out == conn.out
           n == conn.written + 1
<1>2. out \in Seq(S) /\ n \in Nat /\ n >= 1
  BY <1>1
<1>3. Rest(conn) = SubSeq(out, n, Len(out))
  BY ZenonT(40) DEF Rest
<1> HIDE DEF S, out, n
<1>4. SubSeq(out, n, Len(out)) \in Seq(S)
  BY <1>2
<1>5. QED
  BY <1>3, <1>4, ZenonT(40) DEF S

\* A connection that goes back to reading.
LEMMA ReadingLive ==
  ASSUME NEW conn, Live(conn), NEW next, next = start_reading(conn)
  PROVE  Live(next) /\ next.client = conn.client /\ next.phase = "reading"
<1>1. /\ conn \in Connection /\ Len(conn.input) <= BufferSize
  BY ZenonT(40) DEF Live
<1>2. <<>> \in Seq(Nat \X Nat) /\ Len(<<>>) = 0
  OBVIOUS
<1>3. /\ next \in Connection /\ next.client = conn.client /\ next.phase = "reading"
      /\ next.input = conn.input /\ next.out = <<>> /\ next.written = 0
  BY <1>1, <1>2, ZenonT(40) DEF Connection, start_reading
<1>4. QED
  BY <1>1, <1>2, <1>3 DEF Live

\* A connection that has more to write.
LEMMA WritingLive ==
  ASSUME NEW conn, Live(conn), conn.phase = "writing", NEW n \in Nat, n < Len(conn.out),
         NEW next, next = [conn EXCEPT !.written = n]
  PROVE  Live(next) /\ next.client = conn.client /\ next.phase = "writing"
<1>1. /\ conn \in Connection /\ Len(conn.input) <= BufferSize /\ conn.buf_idx \in Nat
  BY ZenonT(40) DEF Live
<1>2. /\ next \in Connection /\ next.client = conn.client /\ next.phase = conn.phase
      /\ next.input = conn.input /\ next.out = conn.out /\ next.written = n
      /\ next.buf_idx = conn.buf_idx
  BY <1>1, ZenonT(40) DEF Connection
<1>3. conn.out \in Seq(Nat \X Nat)
  BY <1>1, ZenonT(40) DEF Connection
<1>4. QED
  BY <1>1, <1>2, <1>3 DEF Live

\* The completion of a write.
LEMMA WriteServed ==
  ASSUME NEW w, IsState(w), w.net \in [Clients -> Socket], IsPool(w.free_list),
         NEW id \in DOMAIN w.connections, Live(w.connections[id]),
         w.connections[id].phase = "writing", NEW cqe, cqe.result \in Int, cqe.bid = NoBuffer,
         NEW v, v = handle_write(w, cqe, id, w.connections[id].buf_idx)
  PROVE  Served(w, v, id, cqe)
<1> DEFINE conn == w.connections[id]
           idx == conn.buf_idx
           more == [conn EXCEPT !.written = conn.written + cqe.result]
<1>1. idx \in Nat /\ Owned(conn) \in Seq(Nat)
  BY OwnedType, ZenonT(40) DEF Live
<1>2. /\ IsState(v) /\ v.provided = w.provided
      /\ \/ /\ cqe.result <= 0 /\ Closed(w, v, id) /\ v.net \in [Clients -> Socket]
            /\ v.free_list = FreeMany(FreeMany(w.free_list, <<idx>>), Owned(conn))
         \/ /\ cqe.result > 0 /\ v.free_list = FreeMany(w.free_list, <<idx>>)
            /\ Resubmitted(w, v, id, start_reading(conn), ReadOp(id), "recv", <<>>)
         \/ /\ cqe.result > 0 /\ v.free_list = w.free_list
            /\ more.written < Len(conn.out)
            /\ Resubmitted(w, v, id, more, WriteOp(id, more.buf_idx), "write", Rest(more))
  BY WriteIs
<1>3. IsPool(FreeMany(w.free_list, <<idx>>))
      /\ IsPool(FreeMany(FreeMany(w.free_list, <<idx>>), Owned(conn)))
  BY <1>1, PoolType, ZenonT(40)
<1>4. CASE /\ Closed(w, v, id) /\ v.net \in [Clients -> Socket]
           /\ v.free_list = FreeMany(FreeMany(w.free_list, <<idx>>), Owned(conn))
  BY <1>2, <1>3, <1>4, ZenonT(40) DEF Served
<1>5. CASE /\ v.free_list = FreeMany(w.free_list, <<idx>>)
           /\ Resubmitted(w, v, id, start_reading(conn), ReadOp(id), "recv", <<>>)
  <2> DEFINE next == start_reading(conn)
  <2>1. Live(next) /\ next.client = conn.client /\ next.phase = "reading"
    BY ReadingLive, ZenonT(40)
  <2> HIDE DEF next
  <2>2. <<>> \in Seq(Nat \X Nat)
    OBVIOUS
  <2>3. Proceeds(w, v, id)
    BY <1>5, <2>1, <2>2, ZenonT(40) DEF Proceeds, next
  <2>4. v.net = w.net
    BY <1>5, ZenonT(40) DEF Resubmitted
  <2>5. QED
    BY <1>2, <1>3, <1>5, <2>3, <2>4, ZenonT(40) DEF Served
<1>6. CASE /\ cqe.result > 0 /\ v.free_list = w.free_list /\ more.written < Len(conn.out)
           /\ Resubmitted(w, v, id, more, WriteOp(id, more.buf_idx), "write", Rest(more))
  <2>1. Live(more) /\ more.client = conn.client /\ more.phase = "writing"
    <3> DEFINE n == conn.written + cqe.result
    <3>1. conn.written \in Nat /\ more.written = n
      BY ZenonT(40) DEF Live, Connection
    <3>2. n \in Nat /\ n < Len(conn.out)
      BY <1>6, <3>1
    <3> HIDE DEF n
    <3>3. more = [conn EXCEPT !.written = n]
      BY ZenonT(40) DEF n
    <3> HIDE DEF more
    <3>4. QED
      BY <3>2, <3>3, WritingLive, ZenonT(40)
  <2> HIDE DEF more
  <2>2. Rest(more) \in Seq(Nat \X Nat)
    BY <2>1, RestType, ZenonT(40)
  <2>3. Proceeds(w, v, id)
    BY <1>6, <2>1, <2>2, ZenonT(40) DEF Proceeds
  <2>4. v.net = w.net
    BY <1>6, ZenonT(40) DEF Resubmitted
  <2>5. QED
    BY <1>2, <1>6, <2>3, <2>4, ZenonT(40) DEF Served
<1>7. QED
  BY <1>2, <1>4, <1>5, <1>6, ZenonT(40)

\* The completion of a read.
LEMMA ReadServed ==
  ASSUME NEW w, IsState(w), w.net \in [Clients -> Socket], IsPool(w.free_list),
         NEW id \in DOMAIN w.connections, Live(w.connections[id]),
         w.connections[id].phase = "reading",
         NEW cqe, cqe.result \in Int, cqe.bytes \in Seq(Nat),
         cqe.result > 0 => Len(cqe.bytes) = cqe.result,
         NEW v, v \in Outcomes(w, cqe, ReadOp(id))
  PROVE  Served(w, v, id, cqe)
<1> DEFINE conn == w.connections[id]
           r == Accumulated(w, cqe, id)
           after == r.connections[id]
<1>1. CASE ~ Accumulates(w, cqe, id)
  <2>1. v = AbandonRead(w, cqe, id)
    BY <1>1, ZenonT(40) DEF Outcomes, ReadOp
  <2>2. /\ IsState(v) /\ Closed(w, v, id) /\ v.net \in [Clients -> Socket]
        /\ v.free_list = FreeMany(w.free_list, Owned(conn))
        /\ v.provided = IF cqe.bid = NoBuffer THEN w.provided ELSE Append(w.provided, cqe.bid)
    BY <2>1, AbandonIs
  <2>3. IsPool(v.free_list)
    BY <2>2, OwnedType, PoolType, ZenonT(40)
  <2>4. QED
    BY <2>2, <2>3, ZenonT(40) DEF Served
<1>2. CASE Accumulates(w, cqe, id)
  <2>1. PICK p \in Process(after.client, after.input) : v = Dispatch(r, id, p)
    BY <1>2 DEF Outcomes, ReadOp
  <2>2. /\ cqe.result > 0 /\ cqe.bid # NoBuffer /\ Len(cqe.bytes) = cqe.result
        /\ r = Accumulated(w, cqe, id) /\ w.free_list \in Seq(Nat)
    BY <1>2, ZenonT(40) DEF Accumulates, IsPool
  <2> HIDE DEF r
  <2>a. Accumulating(w, r, id, cqe)
    BY <1>2, <2>2, AccumulatedIs, ZenonT(40)
  <2>3. /\ Revised(w, r, id, after) /\ r.provided = Append(w.provided, cqe.bid)
        /\ Live(after) /\ after.client = conn.client /\ after.phase = conn.phase
        /\ IsPool(r.free_list)
    BY <2>a, ZenonT(40) DEF Accumulating, IsPool
  <2> HIDE DEF after
  <2>4. /\ IsState(v) /\ v.provided = r.provided
        /\ \/ /\ Closed(w, v, id) /\ v.net \in [Clients -> Socket]
              /\ v.free_list = FreeMany(r.free_list, Owned(after))
           \/ /\ v.free_list = r.free_list
              /\ Resubmitted(w, v, id, after, ReadOp(id), "recv", <<>>)
           \/ \E next :
              /\ CanAlloc(r.free_list, 1) /\ v.free_list = AfterAlloc(r.free_list, 1)
              /\ Live(next) /\ next.client = after.client /\ next.phase = "writing"
              /\ next.buf_idx = AllocMany(r.free_list, 1)[1]
              /\ next.read_buf_idx = after.read_buf_idx
              /\ Resubmitted(w, v, id, next, WriteOp(id, next.buf_idx), "write", Rest(next))
    <3>1. Dispatched(w, r, v, id, after)
      BY <2>1, <2>3, DispatchIs, ZenonT(40)
    <3>2. QED
      BY <3>1, ZenonT(40) DEF Dispatched
  <2>5. v.provided = IF cqe.bid = NoBuffer THEN w.provided ELSE Append(w.provided, cqe.bid)
    BY <2>2, <2>3, <2>4, ZenonT(40)
  <2>6. CASE /\ Closed(w, v, id) /\ v.net \in [Clients -> Socket]
             /\ v.free_list = FreeMany(r.free_list, Owned(after))
    <3>1. IsPool(v.free_list)
      BY <2>3, <2>6, OwnedType, PoolType, ZenonT(40)
    <3>2. QED
      BY <2>4, <2>5, <2>6, <3>1, ZenonT(40) DEF Served
  <2>7. CASE /\ v.free_list = r.free_list
             /\ Resubmitted(w, v, id, after, ReadOp(id), "recv", <<>>)
    <3>1. <<>> \in Seq(Nat \X Nat)
      OBVIOUS
    <3>2. Proceeds(w, v, id)
      BY <2>3, <2>7, <3>1, ZenonT(40) DEF Proceeds
    <3>3. v.net = w.net
      BY <2>7, ZenonT(40) DEF Resubmitted
    <3>4. QED
      BY <2>3, <2>4, <2>5, <2>7, <3>2, <3>3, ZenonT(40) DEF Served
  <2>8. CASE \E next :
              /\ CanAlloc(r.free_list, 1) /\ v.free_list = AfterAlloc(r.free_list, 1)
              /\ Live(next) /\ next.client = after.client /\ next.phase = "writing"
              /\ Resubmitted(w, v, id, next, WriteOp(id, next.buf_idx), "write", Rest(next))
    <3>1. PICK next :
              /\ CanAlloc(r.free_list, 1) /\ v.free_list = AfterAlloc(r.free_list, 1)
              /\ Live(next) /\ next.client = after.client /\ next.phase = "writing"
              /\ Resubmitted(w, v, id, next, WriteOp(id, next.buf_idx), "write", Rest(next))
      BY <2>8, ZenonT(40)
    <3>2. Rest(next) \in Seq(Nat \X Nat)
      BY <3>1, RestType, ZenonT(40)
    <3>3. Proceeds(w, v, id)
      BY <2>3, <3>1, <3>2, ZenonT(40) DEF Proceeds
    <3>4. v.net = w.net
      BY <3>1, ZenonT(40) DEF Resubmitted
    <3>5. IsPool(v.free_list)
      BY <2>3, <3>1, PoolType, ZenonT(40)
    <3>6. QED
      BY <2>4, <2>5, <3>3, <3>4, <3>5, ZenonT(40) DEF Served
  <2>9. QED
    BY <2>4, <2>6, <2>7, <2>8, ZenonT(40)
<1>3. QED
  BY <1>1, <1>2, ZenonT(40)

-----------------------------------------------------------------------------
(* The state that the handlers are given and leave.                        *)

\* The state that the handlers are given.
Given(w, t) ==
  /\ IsState(w) /\ w.connections = connections /\ w.vacant = vacant
  /\ w.ops = Restrict(ops, DOMAIN ops \ {t}) /\ w.spare = FreeMany(spare, <<t>>)
  /\ w.free_list = free_list /\ w.submissions = submissions /\ w.provided = provided
  /\ w.net = net /\ w.ok = TRUE

\* The state that they leave.
Left(v) ==
  /\ connections' = v.connections /\ vacant' = v.vacant /\ ops' = v.ops /\ spare' = v.spare
  /\ free_list' = v.free_list /\ submissions' = v.submissions /\ provided' = v.provided
  /\ net' = v.net
  /\ loop'.phase = IF v.ok THEN "handling" ELSE "failed"

\* v is the state after the push of an operation with token t, or without it.
Took(v, t, op, e) ==
  \/ /\ v.ok = FALSE /\ Len(submissions) >= RingSize
     /\ v.ops = Restrict(ops, DOMAIN ops \ {t}) /\ v.spare = FreeMany(spare, <<t>>)
     /\ v.submissions = submissions
  \/ /\ v.ok = TRUE /\ Len(submissions) < RingSize
     /\ Changed(ops, v.ops, t, op) /\ v.spare = spare
     /\ v.submissions = Append(submissions, e)

\* The first push takes the token that was freed.
LEMMA FirstPush ==
  ASSUME NEW t \in DOMAIN ops, t \in Nat, spare \in Seq(Nat), Len(submissions) \in Nat,
         NEW w, Given(w, t), NEW v, NEW op, NEW kind, NEW client, NEW bytes,
         Pushed(w, v, op, kind, client, bytes)
  PROVE  Took(v, t, op, Entry(t, kind, client, bytes))
<1>1. AllocMany(FreeMany(spare, <<t>>), 1)[1] = t /\ AfterAlloc(FreeMany(spare, <<t>>), 1) = spare
  BY PushPop, ZenonT(40)
<1>2. AllocatedToken(w) = t /\ AfterAlloc(w.spare, 1) = spare
  BY <1>1, ZenonT(40) DEF AllocatedToken, Given
<1>3. Changed(ops, Occupy(Restrict(ops, DOMAIN ops \ {t}), t, op), t, op)
  BY ZenonT(40) DEF Changed, Occupy, Restrict
<1>4. RingSize \in Nat
  BY UringAssumption, ZenonT(40)
<1>5. CASE /\ Len(w.submissions) >= RingSize /\ v.ok = FALSE
           /\ v.ops = w.ops /\ v.spare = w.spare /\ v.submissions = w.submissions
  BY <1>5, ZenonT(40) DEF Given, Took
<1>6. CASE /\ ~ (Len(w.submissions) >= RingSize) /\ v.ok = w.ok
           /\ v.ops = Occupy(w.ops, AllocatedToken(w), op) /\ v.spare = AfterAlloc(w.spare, 1)
           /\ v.submissions = Append(w.submissions, Entry(AllocatedToken(w), kind, client, bytes))
  <2>1. Len(submissions) < RingSize
    BY <1>4, <1>6 DEF Given
  <2>2. v.ok = TRUE /\ v.ops = Occupy(Restrict(ops, DOMAIN ops \ {t}), t, op) /\ v.spare = spare
        /\ v.submissions = Append(submissions, Entry(t, kind, client, bytes))
    BY <1>2, <1>6, ZenonT(40) DEF Given
  <2>3. QED
    BY <1>3, <2>1, <2>2, ZenonT(40) DEF Took
<1>7. QED
  BY <1>5, <1>6, ZenonT(40) DEF Pushed

\* The operations.
LEMMA OpIs ==
  ASSUME NEW op \in OpTypes
  PROVE  /\ op.type \in {"Accept", "Read", "Write"}
         /\ op.type = "Accept" => op = AcceptOp
         /\ op.type = "Read" => op = ReadOp(op.conn_id) /\ op.conn_id \in Ids
         /\ op.type = "Write" => /\ op = WriteOp(op.conn_id, op.buf_idx) /\ op.conn_id \in Ids
                                 /\ op.buf_idx \in Nat
  BY DEF OpTypes, AcceptOp, ReadOp, WriteOp

\* After the handler of a read or a write.
LEMMA ServedIs ==
  ASSUME NEW t \in DOMAIN ops, t \in Nat, spare \in Seq(Nat), Len(submissions) \in Nat,
         NEW w, Given(w, t), NEW v, Left(v), NEW id, NEW cqe, Served(w, v, id, cqe)
  PROVE  Closes(t, id) \/ GoesOn(t, id)
<1>1. CASE Closed(w, v, id)
  <2>1. v.ok = TRUE
    BY <1>1, ZenonT(40) DEF Closed, Given
  <2>2. Closes(t, id)
    BY <1>1, <2>1, ZenonT(40) DEF Closed, Given, Left, Closes, Released
  <2>3. QED
    BY <2>2, ZenonT(40)
<1>2. CASE Proceeds(w, v, id)
  <2>1. PICK conn, op, kind, bytes :
        /\ Live(conn) /\ conn.client = w.connections[id].client /\ bytes \in Seq(Nat \X Nat)
        /\ \/ op = ReadOp(id) /\ kind = "recv" /\ conn.phase = "reading"
           \/ op = WriteOp(id, conn.buf_idx) /\ kind = "write" /\ conn.phase = "writing"
        /\ Resubmitted(w, v, id, conn, op, kind, bytes)
    BY <1>2, ZenonT(40) DEF Proceeds
  <2>2. /\ Changed(connections, connections', id, conn) /\ vacant' = vacant
        /\ Pushed(w, v, op, kind, conn.client, bytes)
    BY <2>1, ZenonT(40) DEF Resubmitted, Given, Left
  <2>3. Took(v, t, op, Entry(t, kind, conn.client, bytes))
    BY <2>2, FirstPush, ZenonT(40)
  <2>4. Continues(t, op, Entry(t, kind, conn.client, bytes))
    BY <2>3, ZenonT(40) DEF Took, Left, Continues, Reused, Released
  <2>5. conn.client = connections[id].client
    BY <2>1, ZenonT(40) DEF Given
  <2>6. GoesOn(t, id)
    BY <2>1, <2>2, <2>4, <2>5, ZenonT(40) DEF GoesOn
  <2>7. QED
    BY <2>6, ZenonT(40)
<1>3. QED
  BY <1>1, <1>2, ZenonT(40) DEF Served

\* After the handler of an accept.
LEMMA AcceptServed ==
  ASSUME NEW t \in DOMAIN ops, t \in Nat, spare \in Seq(Nat), Len(submissions) \in Nat,
         Cardinality(DOMAIN connections) \in Nat,
         NEW w, Given(w, t), NEW v, Left(v),
         \/ /\ v.connections = w.connections /\ v.vacant = w.vacant
            /\ Pushed(w, v, AcceptOp, "accept", Listener, <<>>)
         \/ \E c \in Clients : \E a : /\ Pushed(w, a, AcceptOp, "accept", Listener, <<>>)
                                     /\ Admitted(w, a, v, c)
  PROVE  Rearms(t) \/ \E c \in Clients : Admits(t, c)
<1> DEFINE e == AcceptEntry(t)
<1>1. CASE /\ v.connections = w.connections /\ v.vacant = w.vacant
           /\ Pushed(w, v, AcceptOp, "accept", Listener, <<>>)
  <2>1. Took(v, t, AcceptOp, Entry(t, "accept", Listener, <<>>))
    BY <1>1, FirstPush, ZenonT(40)
  <2>2. Continues(t, AcceptOp, e)
    BY <2>1, ZenonT(40) DEF Took, Left, Continues, Reused, Released, AcceptEntry
  <2>3. connections' = connections /\ vacant' = vacant
    BY <1>1, ZenonT(40) DEF Left, Given
  <2>4. QED
    BY <2>2, <2>3, ZenonT(40) DEF Rearms
<1>2. CASE \E c \in Clients : \E a : /\ Pushed(w, a, AcceptOp, "accept", Listener, <<>>)
                                    /\ Admitted(w, a, v, c)
  <2>a. PICK c \in Clients : \E a : /\ Pushed(w, a, AcceptOp, "accept", Listener, <<>>)
                                   /\ Admitted(w, a, v, c)
    BY <1>2, ZenonT(40)
  <2>1. PICK a : /\ Pushed(w, a, AcceptOp, "accept", Listener, <<>>)
                 /\ Admitted(w, a, v, c)
    BY <2>a, ZenonT(40)
  <2> DEFINE id == AllocMany(vacant, 1)[1]
             u == AllocMany(spare, 1)[1]
             armed == Append(submissions, e)
  <2>2. a.ok
    BY <2>1, ZenonT(40) DEF Admitted
  <2>3. Took(a, t, AcceptOp, Entry(t, "accept", Listener, <<>>))
    BY <2>1, FirstPush, ZenonT(40)
  <2>4. /\ a.ok = TRUE /\ Len(submissions) < RingSize
        /\ Changed(ops, a.ops, t, AcceptOp) /\ a.spare = spare /\ a.submissions = armed
    BY <2>2, <2>3, ZenonT(40) DEF Took, AcceptEntry
  <2>5. InsertedId(w) = id /\ AllocatedToken(a) = u
    BY <2>4, ZenonT(40) DEF Given, InsertedId, AllocatedToken
  <2>6. Cardinality(DOMAIN connections) < MaxConnections
    BY <2>1, UringAssumption DEF Admitted, RegistryFull, Given
  <2>7. /\ connections' = Occupy(connections, id, NewConnection(c))
        /\ vacant' = AfterAlloc(vacant, 1)
        /\ Pushed(a, v, ReadOp(id), "recv", c, <<>>)
    BY <2>1, <2>5, ZenonT(40) DEF Admitted, Given, Left
  <2> HIDE DEF armed, id, u
  <2>8. CASE /\ Len(armed) >= RingSize /\ v.ok = FALSE
             /\ v.ops = a.ops /\ v.spare = a.spare /\ v.submissions = a.submissions
    <3>1. /\ loop'.phase = "failed" /\ Len(armed) >= RingSize
          /\ Changed(ops, ops', t, AcceptOp) /\ spare' = spare /\ submissions' = armed
      BY <2>4, <2>8, ZenonT(40) DEF Left
    <3>2. Admits(t, c)
      BY <2>4, <2>6, <2>7, <3>1, ZenonT(40) DEF Admits, armed, id
    <3>3. QED
      BY <3>2, ZenonT(40)
  <2>9. CASE /\ ~ (Len(armed) >= RingSize) /\ v.ok = a.ok
             /\ v.ops = Occupy(a.ops, u, ReadOp(id)) /\ v.spare = AfterAlloc(a.spare, 1)
             /\ v.submissions = Append(a.submissions, Entry(u, "recv", c, <<>>))
    <3>1. /\ loop'.phase = "handling" /\ ~ (Len(armed) >= RingSize)
          /\ Changed(ops, a.ops, t, AcceptOp) /\ ops' = Occupy(a.ops, u, ReadOp(id))
          /\ spare' = AfterAlloc(spare, 1)
          /\ submissions' = Append(armed, Entry(u, "recv", c, <<>>))
      BY <2>4, <2>9, ZenonT(40) DEF Left
    <3>2. Admits(t, c)
      BY <2>4, <2>6, <2>7, <3>1, ZenonT(40) DEF Admits, armed, id, u
    <3>3. QED
      BY <3>2, ZenonT(40)
  <2>10. QED
    BY <2>4, <2>5, <2>7, <2>8, <2>9, ZenonT(40) DEF Pushed
<1>3. QED
  BY <1>1, <1>2, ZenonT(40)

\* What is known of the completion that a turn begins with.
LEMMA HeadIs ==
  ASSUME UringInv, loop.phase # "failed", completions # <<>>
  PROVE  LET cqe == Head(completions)
             t == cqe.token
         IN  /\ cqe \in Cqes /\ t \in DOMAIN ops /\ t \in Tokens /\ t \in Nat
             /\ ops[t] \in OpTypes /\ Reports(cqe, ops[t]) /\ Serves(ops[t], connections)
             /\ cqe.bytes \in Seq(Nat)
<1> DEFINE cqe == Head(completions)
           t == cqe.token
<1>1. Current /\ Shape
  BY ZenonT(40) DEF UringInv, Flow
<1>2. cqe \in Cqes /\ 1 \in DOMAIN completions /\ cqe = completions[1]
  BY <1>1, TailIs, ZenonT(40) DEF Shape
<1>4. t \in DOMAIN ops
  BY <1>1, <1>2, ZenonT(40) DEF Current, Queues, Queued
<1>5. t \in Tokens /\ ops[t] \in OpTypes
  BY <1>1, <1>4, ZenonT(40) DEF Shape, Slots
<1>6. t \in Nat
  BY <1>5, UringAssumption DEF Tokens
<1>7. Reports(cqe, ops[t]) /\ Serves(ops[t], connections)
  BY <1>1, <1>2, <1>4 DEF Current, Links, Roles
<1>8. cqe.bytes \in Seq(Nat)
  BY <1>2, ZenonT(40) DEF Cqes
<1>9. QED
  BY <1>2, <1>4, <1>5, <1>6, <1>7, <1>8, ZenonT(40)

\* The token is free when the handler is called.
LEMMA GivenIs ==
  ASSUME NEW t, NEW state,
         state = [connections |-> connections, vacant |-> vacant, ops |-> ops,
                  spare |-> spare, free_list |-> free_list, submissions |-> submissions,
                  provided |-> provided, net |-> net, ok |-> TRUE]
  PROVE  Given(free_token(state, t), t)
<1> DEFINE O == Restrict(ops, DOMAIN ops \ {t})
           P == FreeMany(spare, <<t>>)
           w == free_token(state, t)
<1>1. w = [state EXCEPT !.ops = O, !.spare = P]
  BY ZenonT(40) DEF free_token
<1> HIDE DEF O, P
<1>2. w = [connections |-> connections, vacant |-> vacant, ops |-> O,
           spare |-> P, free_list |-> free_list, submissions |-> submissions,
           provided |-> provided, net |-> net, ok |-> TRUE]
  BY <1>1, ZenonT(40)
<1> HIDE DEF w
<1>3. /\ w.connections = connections /\ w.vacant = vacant /\ w.ops = O /\ w.spare = P
      /\ w.free_list = free_list /\ w.submissions = submissions /\ w.provided = provided
      /\ w.net = net /\ w.ok = TRUE
  BY <1>2, ZenonT(40)
<1>4. IsState(w)
  BY <1>2, <1>3, ZenonT(40) DEF IsState
<1>5. QED
  BY <1>3, <1>4, ZenonT(40) DEF Given, O, P, w

\* What HandleCompletion does.
LEMMA HandleIs ==
  ASSUME UringInv, HandleCompletion
  PROVE  Turn(Head(completions), Head(completions).token)
<1> DEFINE cqe == Head(completions)
           t == cqe.token
           op == ops[t]
           state == [connections |-> connections, vacant |-> vacant, ops |-> ops,
                     spare |-> spare, free_list |-> free_list, submissions |-> submissions,
                     provided |-> provided, net |-> net, ok |-> TRUE]
           w == free_token(state, t)
<1>1. loop.phase = "handling" /\ completions # <<>> /\ BatchOpen
      /\ completions' = Tail(completions) /\ backlog' = backlog /\ inflight' = inflight
  BY ZenonT(40) DEF HandleCompletion
<1>2. /\ cqe \in Cqes /\ t \in DOMAIN ops /\ t \in Tokens /\ t \in Nat
      /\ op \in OpTypes /\ Reports(cqe, op) /\ Serves(op, connections)
      /\ cqe.bytes \in Seq(Nat)
  BY <1>1, HeadIs, ZenonT(40)
<1>3. /\ spare \in Seq(Nat) /\ Len(submissions) \in Nat /\ IsPool(free_list)
      /\ net \in [Clients -> Socket] /\ DOMAIN connections \in SUBSET Ids
      /\ \A id \in DOMAIN connections : Live(connections[id])
      /\ loop.processed \in Nat
  BY DEF UringInv, Shape, NetType, IsPool, Stack, Slots, Lives
<1>4. Cardinality(DOMAIN connections) \in Nat
  BY <1>3, KeysFinite, UringAssumption, ZenonT(40) DEF Ids
<1>5. Given(w, t)
  BY GivenIs, ZenonT(40)
<1>6a. \E v \in IF t \in DOMAIN ops THEN Outcomes(w, cqe, op) ELSE {state} :
         /\ Left(v)
         /\ loop' = [phase |-> IF v.ok THEN "handling" ELSE "failed",
                     processed |-> loop.processed + 1]
  BY DEF HandleCompletion, Left
<1> HIDE DEF w, state
<1>6. PICK v \in Outcomes(w, cqe, op) :
        /\ Left(v)
        /\ loop' = [phase |-> IF v.ok THEN "handling" ELSE "failed",
                    processed |-> loop.processed + 1]
  BY <1>2, <1>6a, ZenonT(40)
<1>7. /\ loop' \in [phase : {"handling", "failed"}, processed : Nat]
      /\ loop'.processed = loop.processed + 1 /\ loop.processed < BatchSize
  <2> DEFINE ph == IF v.ok THEN "handling" ELSE "failed"
             n == loop.processed + 1
  <2>1. /\ loop' = [phase |-> ph, processed |-> n] /\ ph \in {"handling", "failed"}
        /\ loop.processed < BatchSize /\ loop.processed \in Nat
    BY <1>1, <1>3, <1>6, ZenonT(40) DEF BatchOpen
  <2>2. n \in Nat /\ n = loop.processed + 1
    BY <2>1
  <2> HIDE DEF ph, n
  <2>3. QED
    BY <2>1, <2>2, ZenonT(40)
<1>8. /\ IsState(w) /\ w.net = net /\ w.connections = connections /\ w.free_list = free_list
      /\ w.provided = provided
  BY <1>5, ZenonT(40) DEF Given
<1>9. ASSUME op.type = "Accept"
      PROVE  /\ net' \in [Clients -> Socket] /\ IsPool(free_list') /\ provided' = provided
             /\ Rearms(t) \/ \E c \in Clients : Admits(t, c)
  <2>1. v = handle_accept(w, cqe.result)
    BY <1>6, <1>9, ZenonT(40) DEF Outcomes
  <2>2. cqe.result \in Clients \cup {Failed}
    BY <1>2, <1>9, ZenonT(40) DEF Reports
  <2>3. Accepted(w, v, cqe.result)
    <3>1. w.net \in [Clients -> Socket] /\ IsState(w)
      BY <1>3, <1>8, ZenonT(40)
    <3>2. QED
      BY <2>1, <2>2, <3>1, AcceptIs, ZenonT(40)
  <2>4. Rearms(t) \/ \E c \in Clients : Admits(t, c)
    BY <1>2, <1>3, <1>4, <1>5, <1>6, <2>3, AcceptServed, ZenonT(40) DEF Accepted
  <2>5. QED
    BY <1>3, <1>6, <1>8, <2>3, <2>4, ZenonT(40) DEF Left, Accepted
<1>10. ASSUME op.type # "Accept"
       PROVE  /\ net' \in [Clients -> Socket] /\ IsPool(free_list')
              /\ provided' = IF cqe.bid = NoBuffer THEN provided ELSE Append(provided, cqe.bid)
              /\ op.conn_id \in DOMAIN connections
              /\ Closes(t, op.conn_id) \/ GoesOn(t, op.conn_id)
  <2> DEFINE id == op.conn_id
  <2>1. id \in DOMAIN w.connections /\ Live(w.connections[id]) /\ id \in DOMAIN connections
    BY <1>2, <1>3, <1>8, <1>10, ZenonT(40) DEF Serves
  <2>2. cqe.result \in Int
    BY <1>2, <1>10, ZenonT(40) DEF Reports
  <2>3. ASSUME op.type = "Write" PROVE Served(w, v, id, cqe)
    <3>1. w.connections[id].phase = "writing" /\ w.connections[id].buf_idx = op.buf_idx
      BY <1>2, <1>8, <2>3, ZenonT(40) DEF Serves
    <3>2. cqe.bid = NoBuffer
      BY <1>2, <2>3, ZenonT(40) DEF Reports
    <3>3. v = handle_write(w, cqe, id, w.connections[id].buf_idx)
      BY <1>6, <2>3, <3>1, ZenonT(40) DEF Outcomes
    <3>4. QED
      BY <1>3, <1>8, <2>1, <2>2, <3>1, <3>2, <3>3, WriteServed, ZenonT(40)
  <2>4. ASSUME op.type = "Read" PROVE Served(w, v, id, cqe)
    <3>1. w.connections[id].phase = "reading"
      BY <1>2, <1>8, <2>4, ZenonT(40) DEF Serves
    <3>2. cqe.result > 0 => Len(cqe.bytes) = cqe.result
      BY <1>2, <2>4, ZenonT(40) DEF Reports
    <3>3. op = ReadOp(id)
      BY <1>2, <2>4, OpIs, ZenonT(40)
    <3>4. v \in Outcomes(w, cqe, ReadOp(id))
      BY <1>6, <3>3, ZenonT(40)
    <3>5. QED
      BY <1>2, <1>3, <1>8, <2>1, <2>2, <3>1, <3>2, <3>4, ReadServed, ZenonT(40)
  <2>5. op.type \in {"Read", "Write"}
    BY <1>2, <1>10, OpIs, ZenonT(40)
  <2>6. Served(w, v, id, cqe)
    BY <2>3, <2>4, <2>5, ZenonT(40)
  <2>7. Closes(t, id) \/ GoesOn(t, id)
    BY <1>2, <1>3, <1>5, <1>6, <2>6, ServedIs, ZenonT(40)
  <2>8. QED
    BY <1>6, <1>8, <2>1, <2>6, <2>7, ZenonT(40) DEF Served, Left
<1>11. op.type = "Accept" => cqe.bid = NoBuffer
  BY <1>2, ZenonT(40) DEF Reports
<1> HIDE DEF cqe, t, op
<1>12. QED
  BY <1>1, <1>2, <1>7, <1>9, <1>10, <1>11, ZenonT(40) DEF Turn, op, cqe, t

-----------------------------------------------------------------------------
(* The write pool, as long as no write fails.                              *)

\* Every buffer of the pool is in the free list f or with one connection of conns.
Books(f, conns) ==
  Partitioned(f, [id \in DOMAIN conns |-> Owned(conns[id])], write_pool_size)

\* The buffers of a connection.
LEMMA OwnedIs ==
  ASSUME NEW conn, Live(conn)
  PROVE  LET b == conn.buf_idx
             r == conn.read_buf_idx
         IN  /\ \A x : x \in Range(Owned(conn)) <=>
                        (conn.phase = "writing" /\ x = b) \/ (r # NoBuffer /\ x = r)
             /\ IsInjective(Owned(conn)) <=> ~ (conn.phase = "writing" /\ r # NoBuffer /\ b = r)
<1> DEFINE b == conn.buf_idx
           r == conn.read_buf_idx
<1>1. CASE conn.phase = "writing" /\ r # NoBuffer
  <2> DEFINE q == <<b>> \o <<r>>
  <2>1. Owned(conn) = q /\ b \in Nat /\ r \in Nat
    BY <1>1, ZenonT(40) DEF Owned, Live, Connection
  <2> HIDE DEF b, r
  <2>2. q \in Seq(Nat) /\ Len(q) = 2 /\ q[1] = b /\ q[2] = r
    BY <2>1
  <2> HIDE DEF q
  <2>3. (\A x : x \in Range(q) <=> x = b \/ x = r) /\ (IsInjective(q) <=> b # r)
    <3>1. 1 .. 2 = {1, 2}
      OBVIOUS
    <3>2. /\ \A x : x \in Range(q) <=> \E i \in {1, 2} : q[i] = x
          /\ IsInjective(q) <=> \A i, j \in {1, 2} : q[i] = q[j] => i = j
      BY <2>2, <3>1, RangeIs
    <3>3. QED
      BY <2>2, <3>2
  <2>4. QED
    BY <1>1, <2>1, <2>3, ZenonT(40) DEF b, r
<1>2. CASE conn.phase = "writing" /\ r = NoBuffer
  <2>1. Owned(conn) = <<b>>
    BY <1>2 DEF Owned
  <2> HIDE DEF b, r
  <2>2. (\A x : x \in Range(<<b>>) <=> x = b) /\ IsInjective(<<b>>)
    BY DEF Range, IsInjective
  <2>3. QED
    BY <1>2, <2>1, <2>2, ZenonT(40) DEF b, r
<1>3. CASE conn.phase # "writing" /\ r # NoBuffer
  <2>1. Owned(conn) = <<r>>
    BY <1>3 DEF Owned
  <2> HIDE DEF b, r
  <2>2. (\A x : x \in Range(<<r>>) <=> x = r) /\ IsInjective(<<r>>)
    BY DEF Range, IsInjective
  <2>3. QED
    BY <1>3, <2>1, <2>2, ZenonT(40) DEF b, r
<1>4. CASE conn.phase # "writing" /\ r = NoBuffer
  <2>1. Owned(conn) = <<>>
    BY <1>4 DEF Owned
  <2>2. (\A x : x \notin Range(<<>>)) /\ IsInjective(<<>>)
    BY DEF Range, IsInjective
  <2>3. QED
    BY <1>4, <2>1, <2>2, ZenonT(40)
<1>5. QED
  BY <1>1, <1>2, <1>3, <1>4, ZenonT(40)

\* What the books say of one connection.
LEMMA BooksIs ==
  ASSUME NEW f \in Seq(Nat), NEW conns, Books(f, conns), NEW id \in DOMAIN conns
  PROVE  /\ f \in Stack(Nat) /\ IsInjective(Owned(conns[id]))
         /\ \A x : ~ (x \in Range(Owned(conns[id])) /\ x \in Range(f))
  BY ZenonT(40) DEF Books, Partitioned, Stack

\* Buffers move between the free list and one connection.
LEMMA BooksChange ==
  ASSUME NEW f, NEW conns, NEW d, NEW id \in DOMAIN conns, NEW conn, Books(f, conns),
         Changed(conns, d, id, conn), NEW g, IsInjective(g), IsInjective(Owned(conn)),
         \A x : ~ (x \in Range(Owned(conn)) /\ x \in Range(g)),
         \A x : (x \in Range(Owned(conn)) \/ x \in Range(g)) <=>
                (x \in Range(Owned(conns[id])) \/ x \in Range(f))
  PROVE  Books(g, d)
<1> DEFINE H == [i \in DOMAIN conns |-> Owned(conns[i])]
           K == [i \in DOMAIN d |-> Owned(d[i])]
           n == write_pool_size
<1>1. Partitioned(f, H, n)
  BY ZenonT(40) DEF Books
<1>2. DOMAIN K = DOMAIN H /\ id \in DOMAIN H /\ K[id] = Owned(conn) /\ H[id] = Owned(conns[id])
      /\ \A p \in DOMAIN H \ {id} : K[p] = H[p]
  BY ZenonT(40) DEF Changed
<1>3. K[id] = Owned(conn) /\ Range(K[id]) \cap Range(g) = {}
      /\ Range(g) \cup Range(K[id]) = Range(f) \cup Range(H[id])
  BY <1>2, ZenonT(40)
<1> HIDE DEF H, K, n
<1>4. Partitioned(g, K, n)
  BY ONLY <1>1, <1>2, <1>3, IsInjective(g), IsInjective(Owned(conn)), PartitionMove
<1>5. QED
  BY <1>4, ZenonT(40) DEF Books, K, n

\* A closed connection gives its buffers back.
LEMMA BooksClose ==
  ASSUME NEW f \in Seq(Nat), NEW conns, Books(f, conns), NEW id \in DOMAIN conns,
         Live(conns[id])
  PROVE  Books(FreeMany(f, Owned(conns[id])), Restrict(conns, DOMAIN conns \ {id}))
<1> DEFINE own == Owned(conns[id])
           d == Restrict(conns, DOMAIN conns \ {id})
           H == [i \in DOMAIN conns |-> Owned(conns[i])]
           K == [i \in DOMAIN d |-> Owned(d[i])]
           g == f \o own
           n == write_pool_size
<1>1. Partitioned(f, H, n)
  BY ZenonT(40) DEF Books
<1>2. f \in Stack(Nat) /\ own \in Stack(Nat) /\ Range(f) \cap Range(own) = {}
  BY BooksIs, OwnedType, ZenonT(40) DEF Stack
<1>3. g \in Stack(Nat) /\ Range(g) = Range(f) \cup Range(own)
  BY <1>2, StackFree
<1>4. /\ id \in DOMAIN H /\ id \notin DOMAIN K /\ DOMAIN K \ {id} = DOMAIN H \ {id}
      /\ \A p \in DOMAIN H \ {id} : K[p] = H[p]
      /\ H[id] = own
  BY ZenonT(40) DEF Restrict
<1>5. IsInjective(g)
  BY <1>3, ZenonT(40) DEF Stack
<1> HIDE DEF H, K, n, g, own
<1>a. Range(g) \cup (IF id \in DOMAIN K THEN Range(K[id]) ELSE {})
        = Range(f) \cup (IF id \in DOMAIN H THEN Range(H[id]) ELSE {})
  BY <1>3, <1>4, ZenonT(40)
<1>6. Partitioned(g, K, n)
  BY ONLY <1>1, <1>4, <1>5, <1>a, PartitionMove, ZenonT(40)
<1>7. QED
  BY <1>6, ZenonT(40) DEF Books, K, n, g, own, FreeMany

\* A connection that is admitted has none.
LEMMA BooksNew ==
  ASSUME NEW f, NEW conns, Books(f, conns), NEW id, id \notin DOMAIN conns, NEW c
  PROVE  Books(f, Occupy(conns, id, NewConnection(c)))
<1> DEFINE d == Occupy(conns, id, NewConnection(c))
           H == [i \in DOMAIN conns |-> Owned(conns[i])]
           K == [i \in DOMAIN d |-> Owned(d[i])]
           n == write_pool_size
<1>1. Partitioned(f, H, n) /\ IsInjective(f)
  BY ZenonT(40) DEF Books, Partitioned
<1>2. Owned(NewConnection(c)) = <<>>
  BY DEF Owned, NewConnection
<1>3. /\ id \notin DOMAIN H /\ id \in DOMAIN K /\ DOMAIN K \ {id} = DOMAIN H \ {id}
      /\ \A p \in DOMAIN H \ {id} : K[p] = H[p]
      /\ K[id] = <<>>
  BY <1>2, ZenonT(40) DEF Occupy
<1>4. IsInjective(K[id]) /\ Range(K[id]) = {}
  <2>1. IsInjective(<<>>) /\ Range(<<>>) = {}
    BY DEF IsInjective, Range
  <2>2. QED
    BY <1>3, <2>1, ZenonT(40)
<1> HIDE DEF H, K, n
<1>5. Partitioned(f, K, n)
  BY ONLY <1>1, <1>3, <1>4, PartitionMove, ZenonT(40)
<1>6. QED
  BY <1>5, ZenonT(40) DEF Books, K, n

\* A write is complete: its buffer goes back.
LEMMA BooksWritten ==
  ASSUME NEW f \in Seq(Nat), NEW conns, Books(f, conns), NEW id \in DOMAIN conns,
         Live(conns[id]), conns[id].phase = "writing",
         NEW next, next = start_reading(conns[id]), NEW d, Changed(conns, d, id, next)
  PROVE  Books(FreeMany(f, <<conns[id].buf_idx>>), d)
<1> DEFINE conn == conns[id]
           b == conn.buf_idx
           r == conn.read_buf_idx
           g == f \o <<b>>
<1>1. Live(next) /\ next.phase = "reading"
  BY ReadingLive, ZenonT(40)
<1>2. next.read_buf_idx = r /\ b \in Nat
  BY ZenonT(40) DEF start_reading, Live, Connection
<1>3. /\ f \in Stack(Nat) /\ IsInjective(Owned(conn))
      /\ \A x : ~ (x \in Range(Owned(conn)) /\ x \in Range(f))
  BY BooksIs, ZenonT(40)
<1>4. /\ \A x : x \in Range(Owned(conn)) <=> x = b \/ (r # NoBuffer /\ x = r)
      /\ ~ (r # NoBuffer /\ b = r)
  BY <1>3, OwnedIs, ZenonT(40)
<1>5. /\ \A x : x \in Range(Owned(next)) <=> r # NoBuffer /\ x = r
      /\ IsInjective(Owned(next))
  BY <1>1, <1>2, OwnedIs, ZenonT(40)
<1>6. g \in Stack(Nat) /\ \A x : x \in Range(g) <=> x \in Range(f) \/ x = b
  <2>1. <<b>> \in Stack(Nat) /\ Range(<<b>>) = {b}
    BY <1>2, StackShort, ZenonT(40)
  <2>2. Range(f) \cap Range(<<b>>) = {}
    BY <1>3, <1>4, <2>1, ZenonT(40)
  <2>3. QED
    BY <1>3, <2>1, <2>2, StackFree
<1>7. IsInjective(g)
  BY <1>6, ZenonT(40) DEF Stack
<1> HIDE DEF g, b, r
<1>8. /\ \A x : ~ (x \in Range(Owned(next)) /\ x \in Range(g))
      /\ \A x : (x \in Range(Owned(next)) \/ x \in Range(g)) <=>
                (x \in Range(Owned(conn)) \/ x \in Range(f))
  <2>1. ASSUME NEW x PROVE ~ (x \in Range(Owned(next)) /\ x \in Range(g))
    BY <1>3, <1>4, <1>5, <1>6, ZenonT(40)
  <2>2. ASSUME NEW x
        PROVE  (x \in Range(Owned(next)) \/ x \in Range(g)) <=>
               (x \in Range(Owned(conn)) \/ x \in Range(f))
    BY <1>4, <1>5, <1>6, ZenonT(40)
  <2>3. QED
    BY <2>1, <2>2, ZenonT(40)
<1>9. Books(g, d)
  BY <1>5, <1>7, <1>8, BooksChange, ZenonT(40)
<1>10. QED
  BY <1>9, ZenonT(40) DEF g, b, FreeMany

\* A connection takes a buffer from the top of the free list: as accumulation
\* buffer, or for a response.
LEMMA BooksTaken ==
  ASSUME NEW f \in Seq(Nat), NEW conns, Books(f, conns), NEW id \in DOMAIN conns,
         CanAlloc(f, 1), Live(conns[id]), conns[id].phase = "reading", NEW next, Live(next),
         \/ /\ conns[id].read_buf_idx = NoBuffer /\ next.phase = "reading"
            /\ next.read_buf_idx = AllocMany(f, 1)[1] /\ next.read_buf_idx # NoBuffer
         \/ /\ next.phase = "writing" /\ next.buf_idx = AllocMany(f, 1)[1]
            /\ next.read_buf_idx = conns[id].read_buf_idx,
         NEW d, Changed(conns, d, id, next)
  PROVE  Books(AfterAlloc(f, 1), d)
<1> DEFINE conn == conns[id]
           r == conn.read_buf_idx
           top == AllocMany(f, 1)[1]
           g == AfterAlloc(f, 1)
<1>1. /\ f \in Stack(Nat) /\ \A x : ~ (x \in Range(Owned(conn)) /\ x \in Range(f))
  BY BooksIs, ZenonT(40)
<1>2. top \in Range(f) /\ g \in Stack(Nat) /\ Range(g) = Range(f) \ {top}
  BY <1>1, StackPop, ZenonT(40)
<1>3. \A x : x \in Range(Owned(conn)) <=> r # NoBuffer /\ x = r
  BY OwnedIs, ZenonT(40)
<1> HIDE DEF g, top
<1>4. /\ \A x : x \in Range(Owned(next)) <=> x = top \/ (r # NoBuffer /\ x = r)
      /\ IsInjective(Owned(next))
  <2>1. CASE /\ r = NoBuffer /\ next.phase = "reading"
             /\ next.read_buf_idx = top /\ next.read_buf_idx # NoBuffer
    BY <2>1, OwnedIs, ZenonT(40)
  <2>2. CASE next.phase = "writing" /\ next.buf_idx = top /\ next.read_buf_idx = r
    <3>1. ~ (r # NoBuffer /\ top = r)
      BY <1>1, <1>2, <1>3, ZenonT(40)
    <3>2. QED
      BY <2>2, <3>1, OwnedIs, ZenonT(40)
  <2>3. QED
    BY <2>1, <2>2, ZenonT(40) DEF top
<1>5. IsInjective(g)
  BY <1>2, ZenonT(40) DEF Stack
<1>6. /\ \A x : ~ (x \in Range(Owned(next)) /\ x \in Range(g))
      /\ \A x : (x \in Range(Owned(next)) \/ x \in Range(g)) <=>
                (x \in Range(Owned(conn)) \/ x \in Range(f))
  <2>1. ASSUME NEW x PROVE ~ (x \in Range(Owned(next)) /\ x \in Range(g))
    BY <1>1, <1>2, <1>3, <1>4, ZenonT(40)
  <2>2. ASSUME NEW x
        PROVE  (x \in Range(Owned(next)) \/ x \in Range(g)) <=>
               (x \in Range(Owned(conn)) \/ x \in Range(f))
    BY <1>2, <1>3, <1>4, ZenonT(40)
  <2>3. QED
    BY <2>1, <2>2, ZenonT(40)
<1>7. Books(g, d)
  BY <1>4, <1>5, <1>6, BooksChange
<1>8. QED
  BY <1>7, ZenonT(40) DEF g

\* A connection keeps its buffers.
LEMMA BooksSame ==
  ASSUME NEW f \in Seq(Nat), NEW conns, Books(f, conns), NEW id \in DOMAIN conns,
         NEW next, Owned(next) = Owned(conns[id]), NEW d, Changed(conns, d, id, next)
  PROVE  Books(f, d)
<1>1. f \in Stack(Nat) /\ IsInjective(Owned(next))
      /\ \A x : ~ (x \in Range(Owned(next)) /\ x \in Range(f))
  BY BooksIs, ZenonT(40)
<1>2. IsInjective(f)
  BY <1>1, ZenonT(40) DEF Stack
<1>3. QED
  BY <1>1, <1>2, BooksChange, ZenonT(40)

\* The completion of a write of at least one byte.
LEMMA WriteBooks ==
  ASSUME NEW w, IsState(w), w.net \in [Clients -> Socket], w.free_list \in Seq(Nat),
         NEW id \in DOMAIN w.connections, Live(w.connections[id]),
         w.connections[id].phase = "writing", NEW cqe, cqe.result \in Int, cqe.result > 0,
         Books(w.free_list, w.connections),
         NEW v, v = handle_write(w, cqe, id, w.connections[id].buf_idx)
  PROVE  Books(v.free_list, v.connections)
<1> DEFINE conn == w.connections[id]
           idx == conn.buf_idx
           more == [conn EXCEPT !.written = conn.written + cqe.result]
<1>1. \/ /\ cqe.result <= 0 /\ Closed(w, v, id) /\ v.net \in [Clients -> Socket]
         /\ v.free_list = FreeMany(FreeMany(w.free_list, <<idx>>), Owned(conn))
      \/ /\ cqe.result > 0 /\ v.free_list = FreeMany(w.free_list, <<idx>>)
         /\ Resubmitted(w, v, id, start_reading(conn), ReadOp(id), "recv", <<>>)
      \/ /\ cqe.result > 0 /\ v.free_list = w.free_list
         /\ more.written < Len(conn.out)
         /\ Resubmitted(w, v, id, more, WriteOp(id, more.buf_idx), "write", Rest(more))
  BY WriteIs
<1>2. CASE /\ v.free_list = FreeMany(w.free_list, <<idx>>)
           /\ Resubmitted(w, v, id, start_reading(conn), ReadOp(id), "recv", <<>>)
  <2>1. Changed(w.connections, v.connections, id, start_reading(conn))
    BY <1>2, ZenonT(40) DEF Resubmitted
  <2>2. QED
    BY <1>2, <2>1, BooksWritten, ZenonT(40)
<1>3. CASE /\ v.free_list = w.free_list
           /\ Resubmitted(w, v, id, more, WriteOp(id, more.buf_idx), "write", Rest(more))
  <2>1. Changed(w.connections, v.connections, id, more)
    BY <1>3, ZenonT(40) DEF Resubmitted
  <2>2. Owned(more) = Owned(conn)
    BY ZenonT(40) DEF Owned, Live, Connection
  <2> HIDE DEF more
  <2>3. QED
    BY <1>3, <2>1, <2>2, BooksSame, ZenonT(40)
<1>4. QED
  BY <1>1, <1>2, <1>3

\* The completion of a read.
LEMMA ReadBooks ==
  ASSUME NEW w, IsState(w), w.net \in [Clients -> Socket], w.free_list \in Seq(Nat),
         NEW id \in DOMAIN w.connections, Live(w.connections[id]),
         w.connections[id].phase = "reading",
         NEW cqe, cqe.result \in Int, cqe.bytes \in Seq(Nat),
         cqe.result > 0 => Len(cqe.bytes) = cqe.result,
         Books(w.free_list, w.connections), NEW v, v \in Outcomes(w, cqe, ReadOp(id))
  PROVE  Books(v.free_list, v.connections)
<1> DEFINE conn == w.connections[id]
           r == Accumulated(w, cqe, id)
           after == r.connections[id]
<1>1. CASE ~ Accumulates(w, cqe, id)
  <2>1. v = AbandonRead(w, cqe, id)
    BY <1>1, ZenonT(40) DEF Outcomes, ReadOp
  <2>2. Closed(w, v, id) /\ v.free_list = FreeMany(w.free_list, Owned(conn))
    BY <2>1, AbandonIs, ZenonT(40)
  <2>3. v.connections = Restrict(w.connections, DOMAIN w.connections \ {id})
    BY <2>2, ZenonT(40) DEF Closed
  <2>4. QED
    BY <2>2, <2>3, BooksClose
<1>2. CASE Accumulates(w, cqe, id)
  <2>1. PICK p \in Process(after.client, after.input) : v = Dispatch(r, id, p)
    BY <1>2 DEF Outcomes, ReadOp
  <2>2. /\ cqe.result > 0 /\ cqe.bid # NoBuffer /\ Len(cqe.bytes) = cqe.result
        /\ r = Accumulated(w, cqe, id) /\ w.free_list \in Seq(Nat)
    BY <1>2, ZenonT(40) DEF Accumulates, IsPool
  <2> HIDE DEF r
  <2>a. Accumulating(w, r, id, cqe)
    BY <1>2, <2>2, AccumulatedIs, ZenonT(40)
  <2>3. /\ Revised(w, r, id, after) /\ Live(after) /\ after.phase = conn.phase
        /\ after.buf_idx = conn.buf_idx /\ r.free_list \in Seq(Nat)
        /\ \/ /\ conn.read_buf_idx # NoBuffer
              /\ after.read_buf_idx = conn.read_buf_idx /\ r.free_list = w.free_list
           \/ /\ conn.read_buf_idx = NoBuffer /\ CanAlloc(w.free_list, 1)
              /\ after.read_buf_idx = AllocMany(w.free_list, 1)[1]
              /\ after.read_buf_idx \in Nat
              /\ r.free_list = AfterAlloc(w.free_list, 1)
    BY <2>a, ZenonT(40) DEF Accumulating
  <2> HIDE DEF after
  <2>4. Changed(w.connections, r.connections, id, after) /\ after.phase = "reading"
    BY <2>3, ZenonT(40) DEF Revised
  <2>5. Books(r.free_list, r.connections)
    <3>1. CASE after.read_buf_idx = conn.read_buf_idx /\ r.free_list = w.free_list
      <4>1. Owned(after) = Owned(conn)
        BY <2>3, <3>1, ZenonT(40) DEF Owned
      <4>2. QED
        BY <2>4, <3>1, <4>1, BooksSame, ZenonT(40)
    <3>2. CASE /\ conn.read_buf_idx = NoBuffer /\ CanAlloc(w.free_list, 1)
               /\ after.read_buf_idx = AllocMany(w.free_list, 1)[1]
               /\ after.read_buf_idx \in Nat /\ r.free_list = AfterAlloc(w.free_list, 1)
      <4>1. after.read_buf_idx # NoBuffer
        BY ONLY <3>2 DEF NoBuffer
      <4>2. QED
        BY <2>3, <2>4, <3>2, <4>1, BooksTaken, ZenonT(40)
    <3>3. QED
      BY <2>3, <3>1, <3>2, ZenonT(40)
  <2>6. id \in DOMAIN r.connections /\ r.connections[id] = after
    BY <2>4, ZenonT(40) DEF Changed
  <2>7. /\ IsState(v) /\ v.provided = r.provided
        /\ \/ /\ Closed(w, v, id) /\ v.net \in [Clients -> Socket]
              /\ v.free_list = FreeMany(r.free_list, Owned(after))
           \/ /\ v.free_list = r.free_list
              /\ Resubmitted(w, v, id, after, ReadOp(id), "recv", <<>>)
           \/ \E next :
              /\ CanAlloc(r.free_list, 1) /\ v.free_list = AfterAlloc(r.free_list, 1)
              /\ Live(next) /\ next.client = after.client /\ next.phase = "writing"
              /\ next.buf_idx = AllocMany(r.free_list, 1)[1]
              /\ next.read_buf_idx = after.read_buf_idx
              /\ Resubmitted(w, v, id, next, WriteOp(id, next.buf_idx), "write", Rest(next))
    <3>1. /\ IsPool(r.free_list) /\ Revised(w, r, id, after) /\ Live(after)
          /\ after.phase = "reading" /\ w.net \in [Clients -> Socket]
          /\ id \in DOMAIN w.connections
      BY <2>3, <2>4, ZenonT(40) DEF IsPool
    <3>2. Dispatched(w, r, v, id, after)
      BY <2>1, <3>1, DispatchIs, ZenonT(40)
    <3>3. QED
      BY <3>2, ZenonT(40) DEF Dispatched
  <2>8. CASE Closed(w, v, id) /\ v.free_list = FreeMany(r.free_list, Owned(after))
    <3>1. v.connections = Restrict(r.connections, DOMAIN r.connections \ {id})
      BY <2>4, <2>8, ZenonT(40) DEF Closed, Changed, Restrict
    <3>2. QED
      <4>1. Live(r.connections[id]) /\ Owned(r.connections[id]) = Owned(after)
        BY <2>3, <2>6, ZenonT(40)
      <4>2. Books(FreeMany(r.free_list, Owned(r.connections[id])),
                  Restrict(r.connections, DOMAIN r.connections \ {id}))
        BY <2>3, <2>5, <2>6, <4>1, BooksClose, ZenonT(40)
      <4>3. QED
        BY <2>8, <3>1, <4>1, <4>2, ZenonT(40)
  <2>9. CASE /\ v.free_list = r.free_list
             /\ Resubmitted(w, v, id, after, ReadOp(id), "recv", <<>>)
    <3>1. Changed(r.connections, v.connections, id, after)
      BY <2>4, <2>9, ZenonT(40) DEF Resubmitted, Changed
    <3>2. QED
      BY <2>3, <2>5, <2>6, <2>9, <3>1, BooksSame, ZenonT(40)
  <2>10. CASE \E next :
              /\ CanAlloc(r.free_list, 1) /\ v.free_list = AfterAlloc(r.free_list, 1)
              /\ Live(next) /\ next.phase = "writing"
              /\ next.buf_idx = AllocMany(r.free_list, 1)[1]
              /\ next.read_buf_idx = after.read_buf_idx
              /\ Resubmitted(w, v, id, next, WriteOp(id, next.buf_idx), "write", Rest(next))
    <3>1. PICK next :
              /\ CanAlloc(r.free_list, 1) /\ v.free_list = AfterAlloc(r.free_list, 1)
              /\ Live(next) /\ next.phase = "writing"
              /\ next.buf_idx = AllocMany(r.free_list, 1)[1]
              /\ next.read_buf_idx = after.read_buf_idx
              /\ Resubmitted(w, v, id, next, WriteOp(id, next.buf_idx), "write", Rest(next))
      BY <2>10, ZenonT(40)
    <3>2. Changed(r.connections, v.connections, id, next)
      BY <2>4, <3>1, ZenonT(40) DEF Resubmitted, Changed
    <3>3. QED
      BY <2>3, <2>4, <2>5, <2>6, <3>1, <3>2, BooksTaken, ZenonT(40)
  <2>11. QED
    BY <2>7, <2>8, <2>9, <2>10, ZenonT(40)
<1>3. QED
  BY <1>1, <1>2, ZenonT(40)

=============================================================================
