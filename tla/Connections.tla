---------------------------- MODULE Connections ----------------------------
(***************************************************************************)
(* Connection and ConnectionRegistry (src/runtime/connection.rs), on the   *)
(* part w of a worker's state: `connections` is a function on the occupied *)
(* ids of the slab, `vacant` the stack of its vacant ids.  Connections are *)
(* always in the phase Established.                                        *)
(***************************************************************************)
EXTENDS BufferPool

NoBuffer == -1  \* None, for a buffer index or id

\* Connection::new; `input` is what was accumulated, `out` the reply being
\* written.
NewConnection(client) ==
  [client |-> client, phase |-> "reading", input |-> <<>>, out |-> <<>>,
   written |-> 0, buf_idx |-> NoBuffer, read_buf_idx |-> NoBuffer]

start_writing(conn, buf_idx, out) ==
  [conn EXCEPT !.phase = "writing", !.out = out, !.written = 0, !.buf_idx = buf_idx]

\* Mutant: what is left in the accumulation buffer is forgotten.
start_reading_afresh(conn) ==
  [conn EXCEPT !.phase = "reading", !.out = <<>>, !.written = 0, !.buf_idx = NoBuffer,
               !.input = <<>>]

start_reading(conn) ==
  [conn EXCEPT !.phase = "reading", !.out = <<>>, !.written = 0, !.buf_idx = NoBuffer]

\* insert returns None.
RegistryFull(w, max_connections) == Cardinality(DOMAIN w.connections) >= max_connections

\* The id that insert returns.
InsertedId(w) == AllocMany(w.vacant, 1)[1]

insert(w, conn) ==
  [w EXCEPT !.connections = Occupy(@, InsertedId(w), conn), !.vacant = AfterAlloc(@, 1)]

remove(w, id) ==
  [w EXCEPT !.connections = Restrict(@, DOMAIN @ \ {id}), !.vacant = FreeMany(@, <<id>>)]
=============================================================================
