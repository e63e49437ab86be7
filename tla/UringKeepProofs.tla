-------------------------- MODULE UringKeepProofs ---------------------------
(***************************************************************************)
(* Every kind of step keeps the invariant of the io_uring worker: what a turn *)
(* of the inner loop may do, a submission, the kernel and the clients.     *)
(***************************************************************************)
EXTENDS UringInvariant

\* A leaf that names no prover is for the SMT solver, then for Zenon, then for the
\* SMT solver again.
USE SMTT(25), ZenonT(25), SMTT(26), SMTT(27), SMTT(28)

-----------------------------------------------------------------------------
(* The queues.                                                             *)

\* A queue without its head.
LEMMA QueuedTail ==
  ASSUME NEW C \in Seq(Cqes), Apart(C), C # <<>>
  PROVE  /\ Apart(Tail(C)) /\ Queued(C, Head(C).token)
         /\ \A u : Queued(Tail(C), u) <=> (Queued(C, u) /\ u # Head(C).token)
<1> DEFINE T == Tail(C)
           t == Head(C).token
<1>1. /\ 1 \in DOMAIN C /\ Head(C) = C[1]
      /\ \A i \in DOMAIN T : i + 1 \in DOMAIN C /\ T[i] = C[i + 1]
      /\ \A i \in DOMAIN C : i # 1 => i - 1 \in DOMAIN T
      /\ DOMAIN C \subseteq Nat /\ DOMAIN T \subseteq Nat \ {0}
  BY TailIs
<1> HIDE DEF T
<1>2. Apart(T)
  <2>1. SUFFICES ASSUME NEW i \in DOMAIN T, NEW j \in DOMAIN T, T[i].token = T[j].token
                 PROVE  i = j
    BY ZenonT(40) DEF Apart
  <2>2. i + 1 = j + 1
    BY <1>1, <2>1 DEF Apart
  <2>3. QED
    BY <1>1, <2>2
<1>3. ASSUME NEW u, Queued(T, u) PROVE Queued(C, u) /\ u # t
  <2>1. PICK i \in DOMAIN T : T[i].token = u
    BY <1>3, ZenonT(40) DEF Queued
  <2>2. i + 1 \in DOMAIN C /\ i + 1 # 1 /\ C[i + 1].token = u
    BY <1>1, <2>1
  <2>3. QED
    BY <1>1, <2>2, ZenonT(40) DEF Queued, Apart
<1>4. ASSUME NEW u, Queued(C, u), u # t PROVE Queued(T, u)
  <2>1. PICK j \in DOMAIN C : C[j].token = u
    BY <1>4, ZenonT(40) DEF Queued
  <2>2. j # 1 /\ j - 1 \in DOMAIN T /\ j \in Nat
    BY <1>1, <1>4, <2>1, ZenonT(40)
  <2>3. (j - 1) + 1 = j
    BY <2>2
  <2>4. T[j - 1] = C[j]
    BY <1>1, <2>2, <2>3, ZenonT(40)
  <2>5. QED
    BY <2>1, <2>2, <2>4, ZenonT(40) DEF Queued
<1>5. Queued(C, t)
  BY <1>1, ZenonT(40) DEF Queued
<1>6. QED
  BY <1>2, <1>3, <1>4, <1>5, ZenonT(40) DEF T

\* A queue with an entry more.
LEMMA QueuedAppend ==
  ASSUME NEW E, NEW S \in Seq(E), NEW e \in E, Apart(S), ~ Queued(S, e.token)
  PROVE  /\ Apart(Append(S, e))
         /\ \A u : Queued(Append(S, e), u) <=> (Queued(S, u) \/ u = e.token)
<1>1. PICK n : Extends(S, Append(S, e), n, e)
  BY AppendIs, ZenonT(40)
<1> DEFINE A == Append(S, e)
<1> HIDE DEF A
<1>2. Extends(S, A, n, e)
  BY <1>1, ZenonT(40) DEF A
<1>3. Apart(A)
  BY <1>2, ZenonT(40) DEF Extends, Apart, Queued
<1>4. \A u : Queued(A, u) <=> (Queued(S, u) \/ u = e.token)
  BY <1>2, ZenonT(40) DEF Extends, Queued
<1>5. QED
  BY <1>3, <1>4, ZenonT(40) DEF A

\* A completion is taken from its queue.
LEMMA QueuesTake ==
  ASSUME NEW S, NEW I, NEW C \in Seq(Cqes), NEW D, Queues(S, I, C, D), C # <<>>
  PROVE  Queues(S, I, Tail(C), D \ {Head(C).token})
<1> DEFINE T == Tail(C)
           t == Head(C).token
<1>1. /\ Apart(T) /\ Queued(C, t)
      /\ \A u : Queued(T, u) <=> (Queued(C, u) /\ u # t)
  BY QueuedTail, ZenonT(40) DEF Queues
<1> HIDE DEF T, t
<1>2. Queues(S, I, T, D \ {t})
  BY <1>1, ZenonT(40) DEF Queues
<1>3. QED
  BY <1>2, ZenonT(40) DEF T, t

\* An entry is added to the submission queue.
LEMMA QueuesPush ==
  ASSUME NEW S \in Seq(Entries), NEW I, NEW C, NEW D, Queues(S, I, C, D),
         NEW e \in Entries, e.token \notin D
  PROVE  Queues(Append(S, e), I, C, D \cup {e.token})
<1> DEFINE A == Append(S, e)
           t == e.token
<1>1. ~ Queued(S, t) /\ ~ Held(I, t) /\ ~ Queued(C, t)
  BY ZenonT(40) DEF Queues
<1>2. Apart(A) /\ \A u : Queued(A, u) <=> (Queued(S, u) \/ u = t)
  BY <1>1, QueuedAppend, ZenonT(40) DEF Queues
<1> HIDE DEF A, t
<1>3. Queues(A, I, C, D \cup {t})
  BY <1>1, <1>2, ZenonT(40) DEF Queues
<1>4. QED
  BY <1>3, ZenonT(40) DEF A, t

\* What was submitted is in the kernel.
LEMMA QueuesSubmit ==
  ASSUME NEW S, NEW I, NEW C, NEW D, Queues(S, I, C, D)
  PROVE  Queues(<<>>, I \cup Range(S), C, D)
<1> DEFINE J == I \cup Range(S)
           E == <<>>
<1>1. \A e : e \in J <=> (e \in I \/ \E i \in DOMAIN S : e = S[i])
  BY ZenonT(40) DEF Range
<1>2. DOMAIN E = {}
  OBVIOUS
<1> HIDE DEF J, E
<1>3. \A t : Held(J, t) <=> (Held(I, t) \/ Queued(S, t))
  BY <1>1, ZenonT(40) DEF Held, Queued
<1>4. ApartSet(J)
  <2>1. \A t : ~ (Queued(S, t) /\ Held(I, t))
    BY ZenonT(40) DEF Queues
  <2>2. Apart(S) /\ ApartSet(I)
    BY ZenonT(40) DEF Queues
  <2>3. QED
    BY <1>1, <2>1, <2>2 DEF ApartSet, Apart, Queued, Held
<1>5. Apart(E) /\ \A t : ~ Queued(E, t)
  BY <1>2, ZenonT(40) DEF Apart, Queued
<1>6. Queues(E, J, C, D)
  BY <1>3, <1>4, <1>5, ZenonT(40) DEF Queues
<1>7. QED
  BY <1>6, ZenonT(40) DEF E, J

\* An operation of the kernel is completed.
LEMMA QueuesComplete ==
  ASSUME NEW S, NEW I, NEW C \in Seq(Cqes), NEW D, Queues(S, I, C, D), NEW e \in I,
         NEW cqe \in Cqes, cqe.token = e.token
  PROVE  Queues(S, I \ {e}, Append(C, cqe), D)
<1> DEFINE A == Append(C, cqe)
           J == I \ {e}
           t == e.token
<1>1. Held(I, t)
  BY ZenonT(40) DEF Held
<1>2. ~ Queued(S, t) /\ ~ Queued(C, t)
  BY <1>1, ZenonT(40) DEF Queues
<1>3. Apart(A) /\ \A u : Queued(A, u) <=> (Queued(C, u) \/ u = t)
  BY <1>2, QueuedAppend, ZenonT(40) DEF Queues
<1>4. ApartSet(J) /\ \A u : Held(J, u) <=> (Held(I, u) /\ u # t)
  BY ZenonT(40) DEF Queues, ApartSet, Held
<1> HIDE DEF A, J, t
<1>5. Queues(S, J, A, D)
  BY <1>1, <1>2, <1>3, <1>4, ZenonT(40) DEF Queues
<1>6. QED
  BY <1>5, ZenonT(40) DEF A, J

-----------------------------------------------------------------------------
(* The operations and the connections.                                     *)

\* An operation is about its own connection only.
LEMMA ServesSame ==
  ASSUME NEW op, NEW conns, NEW d, Serves(op, conns),
         op.type # "Accept" => op.conn_id \in DOMAIN d /\ d[op.conn_id] = conns[op.conn_id]
  PROVE  Serves(op, d)
  BY ZenonT(40) DEF Serves

\* g is f without k.
Lacks(f, g, k) == DOMAIN g = DOMAIN f \ {k} /\ \A u \in DOMAIN g : g[u] = f[u]

\* The operation of a connection is over, and the connection is closed.
LEMMA RolesClose ==
  ASSUME NEW o, NEW conns, Roles(o, conns), NEW t \in DOMAIN o, o[t].type # "Accept",
         NEW p, Lacks(o, p, t), NEW d, Lacks(conns, d, o[t].conn_id)
  PROVE  Roles(p, d)
<1> USE DEF Lacks
<1>1. /\ \E u \in DOMAIN p : p[u].type = "Accept"
      /\ \A u, x \in DOMAIN p : (p[u].type = "Accept" /\ p[x].type = "Accept") => u = x
  BY ZenonT(40) DEF Roles
<1>2. \A u, x \in DOMAIN p :
        (p[u].type # "Accept" /\ p[x].type # "Accept" /\ p[u].conn_id = p[x].conn_id) => u = x
  BY DEF Roles
<1>3. ASSUME NEW j \in DOMAIN d PROVE \E u \in DOMAIN p : p[u].type # "Accept" /\ p[u].conn_id = j
  <2>1. PICK u \in DOMAIN o : o[u].type # "Accept" /\ o[u].conn_id = j
    BY ZenonT(40) DEF Roles
  <2>2. u # t
    BY <2>1, ZenonT(40)
  <2>3. QED
    BY <2>1, <2>2, ZenonT(40)
<1>4. ASSUME NEW u \in DOMAIN p PROVE Serves(p[u], d)
  <2>1. Serves(o[u], conns) /\ p[u] = o[u] /\ u # t /\ u \in DOMAIN o
    BY ZenonT(40) DEF Roles
  <2>2. o[u].type # "Accept" => o[u].conn_id \in DOMAIN conns /\ o[u].conn_id # o[t].conn_id
    BY <2>1, ZenonT(40) DEF Roles, Serves
  <2>3. QED
    BY <2>1, <2>2, ServesSame, ZenonT(40)
<1>5. QED
  BY <1>1, <1>2, <1>3, <1>4, ZenonT(40) DEF Roles

\* The next operation of a connection.
LEMMA RolesGoOn ==
  ASSUME NEW o, NEW conns, Roles(o, conns), NEW t \in DOMAIN o, o[t].type # "Accept",
         NEW id, id = o[t].conn_id,
         NEW op, op.type # "Accept", op.conn_id = id, NEW p, Changed(o, p, t, op),
         NEW conn, NEW d, Changed(conns, d, id, conn), Serves(op, d)
  PROVE  Roles(p, d)
<1>1. /\ \E u \in DOMAIN p : p[u].type = "Accept"
      /\ \A u, x \in DOMAIN p : (p[u].type = "Accept" /\ p[x].type = "Accept") => u = x
  BY ZenonT(40) DEF Roles, Changed
<1>2. \A u, x \in DOMAIN p :
        (p[u].type # "Accept" /\ p[x].type # "Accept" /\ p[u].conn_id = p[x].conn_id) => u = x
  BY DEF Roles, Changed
<1>3. ASSUME NEW j \in DOMAIN d PROVE \E u \in DOMAIN p : p[u].type # "Accept" /\ p[u].conn_id = j
  <2>1. PICK u \in DOMAIN o : o[u].type # "Accept" /\ o[u].conn_id = j
    BY ZenonT(40) DEF Roles, Changed
  <2>2. QED
    BY <2>1, ZenonT(40) DEF Changed
<1>4. ASSUME NEW u \in DOMAIN p PROVE Serves(p[u], d)
  <2>1. CASE u = t
    BY <2>1, ZenonT(40) DEF Changed
  <2>2. CASE u # t
    <3>1. Serves(o[u], conns) /\ p[u] = o[u] /\ u \in DOMAIN o
      BY <2>2, ZenonT(40) DEF Roles, Changed
    <3>2. o[u].type # "Accept" => o[u].conn_id \in DOMAIN conns /\ o[u].conn_id # id
      BY <2>2, <3>1, ZenonT(40) DEF Roles, Serves
    <3>3. QED
      BY <3>1, <3>2, ServesSame DEF Changed
  <2>3. QED
    BY <2>1, <2>2, ZenonT(40)
<1>5. QED
  BY <1>1, <1>2, <1>3, <1>4, ZenonT(40) DEF Roles

\* The accept again.
LEMMA RolesRearm ==
  ASSUME NEW o, NEW conns, Roles(o, conns), NEW t \in DOMAIN o, o[t].type = "Accept",
         NEW p, Changed(o, p, t, AcceptOp)
  PROVE  Roles(p, conns)
<1>1. AcceptOp.type = "Accept"
  BY ZenonT(40) DEF AcceptOp
<1>2. DOMAIN p = DOMAIN o /\ \A u \in DOMAIN o : p[u].type = o[u].type /\ (u # t => p[u] = o[u])
  BY <1>1, ZenonT(40) DEF Changed
<1>3. \A u \in DOMAIN o : o[u].type # "Accept" => p[u] = o[u]
  BY <1>2, ZenonT(40)
<1>4. /\ \E u \in DOMAIN p : p[u].type = "Accept"
      /\ \A u, x \in DOMAIN p : (p[u].type = "Accept" /\ p[x].type = "Accept") => u = x
  BY <1>2, ZenonT(40) DEF Roles
<1>5. \A u, x \in DOMAIN p :
        (p[u].type # "Accept" /\ p[x].type # "Accept" /\ p[u].conn_id = p[x].conn_id) => u = x
  BY <1>2, <1>3 DEF Roles
<1>6. \A id \in DOMAIN conns : \E u \in DOMAIN p : p[u].type # "Accept" /\ p[u].conn_id = id
  BY <1>2, <1>3, ZenonT(40) DEF Roles
<1>7. ASSUME NEW u \in DOMAIN p PROVE Serves(p[u], conns)
  <2>1. CASE o[u].type = "Accept"
    BY <1>2, <2>1, ZenonT(40) DEF Serves
  <2>2. CASE o[u].type # "Accept"
    BY <1>2, <1>3, <2>2, ZenonT(40) DEF Roles
  <2>3. QED
    BY <2>1, <2>2, ZenonT(40)
<1>8. QED
  BY <1>4, <1>5, <1>6, <1>7, ZenonT(40) DEF Roles

\* A new connection and its first read.
LEMMA RolesAdmit ==
  ASSUME NEW o, NEW conns, Roles(o, conns), NEW u, u \notin DOMAIN o, NEW id, id \notin DOMAIN conns,
         NEW c
  PROVE  Roles(Occupy(o, u, ReadOp(id)), Occupy(conns, id, NewConnection(c)))
<1> DEFINE p == Occupy(o, u, ReadOp(id))
           d == Occupy(conns, id, NewConnection(c))
<1>1. DOMAIN p = DOMAIN o \cup {u} /\ p[u] = ReadOp(id) /\ \A x \in DOMAIN o : p[x] = o[x]
  BY ZenonT(40) DEF Occupy
<1>2. /\ DOMAIN d = DOMAIN conns \cup {id} /\ d[id] = NewConnection(c)
      /\ \A j \in DOMAIN conns : d[j] = conns[j]
  BY ZenonT(40) DEF Occupy
<1>3. ReadOp(id).type = "Read" /\ ReadOp(id).conn_id = id /\ NewConnection(c).phase = "reading"
  BY ZenonT(40) DEF ReadOp, NewConnection
<1> HIDE DEF p, d
<1>4. /\ \E x \in DOMAIN p : p[x].type = "Accept"
      /\ \A x, y \in DOMAIN p : (p[x].type = "Accept" /\ p[y].type = "Accept") => x = y
  BY <1>1, <1>3 DEF Roles
<1>5. ASSUME NEW x \in DOMAIN p PROVE Serves(p[x], d)
  <2>1. CASE x = u
    BY <1>1, <1>2, <1>3, <2>1, ZenonT(40) DEF Serves
  <2>2. CASE x # u
    <3>1. x \in DOMAIN o /\ p[x] = o[x] /\ Serves(o[x], conns)
      BY <1>1, <2>2, ZenonT(40) DEF Roles
    <3>2. o[x].type # "Accept" => o[x].conn_id \in DOMAIN conns
      BY <3>1, ZenonT(40) DEF Serves
    <3>3. QED
      BY <1>2, <3>1, <3>2, ServesSame, ZenonT(40)
  <2>3. QED
    BY <2>1, <2>2, ZenonT(40)
<1>6. \A x \in DOMAIN o : o[x].type # "Accept" => o[x].conn_id \in DOMAIN conns
  BY ZenonT(40) DEF Roles, Serves
<1>7. \A x, y \in DOMAIN p :
        (p[x].type # "Accept" /\ p[y].type # "Accept" /\ p[x].conn_id = p[y].conn_id) => x = y
  BY <1>1, <1>3, <1>6 DEF Roles
<1>8. ASSUME NEW j \in DOMAIN d PROVE \E x \in DOMAIN p : p[x].type # "Accept" /\ p[x].conn_id = j
  <2>1. CASE j = id
    BY <1>1, <1>3, <2>1, ZenonT(40)
  <2>2. CASE j # id
    <3>1. PICK x \in DOMAIN o : o[x].type # "Accept" /\ o[x].conn_id = j
      BY <1>2, <2>2, ZenonT(40) DEF Roles
    <3>2. QED
      BY <1>1, <3>1, ZenonT(40)
  <2>3. QED
    BY <2>1, <2>2, ZenonT(40)
<1>9. Roles(p, d)
  BY <1>4, <1>5, <1>7, <1>8, ZenonT(40) DEF Roles
<1>10. QED
  BY <1>9, ZenonT(40) DEF p, d

\* The operations with tokens in D stay as they are, and on the same sockets.
Kept(o, conns, p, d, D) ==
  \A x \in D :
    /\ p[x] = o[x]
    /\ o[x].type # "Accept" => d[o[x].conn_id].client = conns[o[x].conn_id].client

\* The entries of queues whose operations stay as they are.
LEMMA LinksKept ==
  ASSUME NEW S, NEW I, NEW C \in Seq(Cqes), NEW D, Queues(S, I, C, D), C # <<>>,
         NEW o, NEW conns, Links(S, I, C, o, conns),
         NEW p, NEW d, Kept(o, conns, p, d, D \ {Head(C).token})
  PROVE  Links(S, I, Tail(C), p, d)
<1> DEFINE T == Tail(C)
           t == Head(C).token
           R == D \ {t}
<1>1. Queues(S, I, T, R)
  BY QueuesTake, ZenonT(40)
<1>2. \A i \in DOMAIN T : i + 1 \in DOMAIN C /\ T[i] = C[i + 1]
  BY TailIs
<1> HIDE DEF T, t, R
<1>3. /\ \A i \in DOMAIN S : S[i].token \in R
      /\ \A e \in I : e.token \in R
      /\ \A i \in DOMAIN T : T[i].token \in R
  BY <1>1, ZenonT(40) DEF Queues, Queued, Held
<1>4. Kept(o, conns, p, d, R)
  BY ZenonT(40) DEF R, t
<1>5. ASSUME NEW i \in DOMAIN S PROVE Carries(S[i], p[S[i].token], d)
  <2>1. Carries(S[i], o[S[i].token], conns) /\ S[i].token \in R
    BY <1>3, ZenonT(40) DEF Links
  <2>2. QED
    BY <1>4, <2>1, ZenonT(40) DEF Carries, Kept
<1>6. ASSUME NEW e \in I PROVE Carries(e, p[e.token], d)
  <2>1. Carries(e, o[e.token], conns) /\ e.token \in R
    BY <1>3, ZenonT(40) DEF Links
  <2>2. QED
    BY <1>4, <2>1, ZenonT(40) DEF Carries, Kept
<1>7. ASSUME NEW i \in DOMAIN T PROVE Reports(T[i], p[T[i].token])
  <2>1. Reports(T[i], o[T[i].token])
    BY <1>2, ZenonT(40) DEF Links
  <2>2. p[T[i].token] = o[T[i].token]
    BY <1>3, <1>4, ZenonT(40) DEF Kept
  <2>3. QED
    BY <2>1, <2>2, ZenonT(40)
<1>8. Links(S, I, T, p, d)
  BY <1>5, <1>6, <1>7, ZenonT(40) DEF Links
<1>9. QED
  BY <1>8, ZenonT(40) DEF T

\* An entry more.
LEMMA LinksPush ==
  ASSUME NEW S \in Seq(Entries), NEW I, NEW C, NEW o, NEW conns, Links(S, I, C, o, conns),
         NEW e \in Entries, Carries(e, o[e.token], conns)
  PROVE  Links(Append(S, e), I, C, o, conns)
<1>1. PICK n : Extends(S, Append(S, e), n, e)
  BY AppendIs, ZenonT(40)
<1> DEFINE A == Append(S, e)
<1> HIDE DEF A
<1>2. Extends(S, A, n, e)
  BY <1>1, ZenonT(40) DEF A
<1>3. \A i \in DOMAIN A : Carries(A[i], o[A[i].token], conns)
  BY <1>2, ZenonT(40) DEF Extends, Links
<1>4. Links(A, I, C, o, conns)
  BY <1>3, ZenonT(40) DEF Links
<1>5. QED
  BY <1>4, ZenonT(40) DEF A

\* What was submitted is in the kernel.
LEMMA LinksSubmit ==
  ASSUME NEW S, NEW I, NEW C, NEW o, NEW conns, Links(S, I, C, o, conns)
  PROVE  Links(<<>>, I \cup Range(S), C, o, conns)
<1> DEFINE J == I \cup Range(S)
           E == <<>>
<1>1. \A e : e \in J <=> (e \in I \/ \E i \in DOMAIN S : e = S[i])
  BY ZenonT(40) DEF Range
<1>2. DOMAIN E = {}
  OBVIOUS
<1> HIDE DEF J, E
<1>3. \A e \in J : Carries(e, o[e.token], conns)
  BY <1>1 DEF Links
<1>4. Links(E, J, C, o, conns)
  BY <1>2, <1>3, ZenonT(40) DEF Links
<1>5. QED
  BY <1>4, ZenonT(40) DEF E, J

\* An operation of the kernel is completed.
LEMMA LinksComplete ==
  ASSUME NEW S, NEW I, NEW C \in Seq(Cqes), NEW o, NEW conns, Links(S, I, C, o, conns),
         NEW e \in I, NEW cqe \in Cqes, Reports(cqe, o[cqe.token])
  PROVE  Links(S, I \ {e}, Append(C, cqe), o, conns)
<1>1. PICK n : Extends(C, Append(C, cqe), n, cqe)
  BY AppendIs, ZenonT(40)
<1> DEFINE A == Append(C, cqe)
<1> HIDE DEF A
<1>2. Extends(C, A, n, cqe)
  BY <1>1, ZenonT(40) DEF A
<1>3. \A i \in DOMAIN A : Reports(A[i], o[A[i].token])
  BY <1>2, ZenonT(40) DEF Extends, Links
<1>4. Links(S, I \ {e}, A, o, conns)
  BY <1>3, ZenonT(40) DEF Links
<1>5. QED
  BY <1>4, ZenonT(40) DEF A

\* What an operation says.
LEMMA OpFields ==
  ASSUME NEW id, NEW b
  PROVE  /\ AcceptOp.type = "Accept"
         /\ ReadOp(id).type = "Read" /\ ReadOp(id).conn_id = id
         /\ WriteOp(id, b).type = "Write" /\ WriteOp(id, b).conn_id = id
         /\ WriteOp(id, b).buf_idx = b
         /\ AcceptOp \in OpTypes /\ (id \in Ids => ReadOp(id) \in OpTypes)
         /\ (id \in Ids /\ b \in Nat => WriteOp(id, b) \in OpTypes)
  BY DEF OpTypes, AcceptOp, ReadOp, WriteOp

\* The parts of entries.
LEMMA EntryIs ==
  ASSUME NEW t, NEW kind, NEW client, NEW bytes, NEW e, e = Entry(t, kind, client, bytes)
  PROVE  /\ e.token = t /\ e.kind = kind /\ e.client = client /\ e.bytes = bytes
         /\ (t \in Tokens /\ kind \in {"recv", "write"} /\ client \in Clients
               /\ bytes \in Seq(Nat \X Nat)) => e \in Entries
         /\ (t \in Tokens /\ kind = "accept" /\ client = Listener /\ bytes = <<>>) => e \in Entries
  BY ZenonT(40) DEF Entry, Entries

-----------------------------------------------------------------------------
(* There are keys left in the slabs when they are needed.                  *)

\* A token: there are fewer operations than tokens.
LEMMA SpareExists ==
  ASSUME Slots(ops, spare, Tokens, OpTypes), Roles(ops, connections),
         DOMAIN connections \in SUBSET Ids
  PROVE  CanAlloc(spare, 1)
<1>1. spare \in Stack(Nat) /\ Range(spare) = Tokens \ DOMAIN ops /\ DOMAIN ops \subseteq Tokens
  BY ZenonT(40) DEF Slots
<1>2. SUFFICES ASSUME Range(spare) = {} PROVE FALSE
  BY <1>1, StackEmpty, ZenonT(40)
<1>3. DOMAIN ops = Tokens
  BY <1>1, <1>2, ZenonT(40)
<1>4. PICK a \in DOMAIN ops : ops[a].type = "Accept"
  BY ZenonT(40) DEF Roles
<1> DEFINE N == Tokens \ {a}
           f == [x \in N |-> ops[x].conn_id]
<1>5. \A x \in N : ops[x].type # "Accept" /\ ops[x].conn_id \in Ids
  BY <1>3, <1>4, ZenonT(40) DEF Roles, Serves
<1>6. \A x, y \in N : ops[x].conn_id = ops[y].conn_id => x = y
  BY <1>3, <1>5, ZenonT(40) DEF Roles
<1>7. f \in Injection(N, Ids)
  BY <1>5, <1>6, ZenonT(40) DEF Injection, IsInjective
<1>8. MaxConnections \in Nat /\ MaxConnections > 0 /\ 2 * MaxConnections \in Nat
  BY UringAssumption
<1>9. IsFiniteSet(Tokens) /\ Cardinality(Tokens) = 2 * MaxConnections + 1
  BY <1>8, FS_Interval DEF Tokens
<1>10. a \in Tokens
  BY <1>1, ZenonT(40)
<1>11. IsFiniteSet(N) /\ Cardinality(N) = Cardinality(Tokens) - 1
  BY <1>9, <1>10, FS_RemoveElement, ZenonT(40)
<1>12. IsFiniteSet(Ids) /\ Cardinality(Ids) = MaxConnections
  BY <1>8, KeysFinite, ZenonT(40) DEF Ids
<1> HIDE DEF N, f
<1>13. Cardinality(N) <= Cardinality(Ids)
  BY <1>7, <1>12, FS_Injection, ZenonT(40)
<1>14. QED
  BY <1>8, <1>9, <1>11, <1>12, <1>13

-----------------------------------------------------------------------------
(* A turn of the inner loop keeps the slabs and the queues in order.       *)

Kit ==
  /\ Slots(connections, vacant, Ids, Lives) /\ Slots(ops, spare, Tokens, OpTypes)
  /\ submissions \in Seq(Entries) /\ Len(submissions) <= RingSize

\* A turn that closes a connection.
LEMMA CloseKeeps ==
  ASSUME UringInv, NEW cqe, cqe = Head(completions), NEW t, t = cqe.token, Turn(cqe, t),
         ops[t].type # "Accept", NEW id, id = ops[t].conn_id, id \in DOMAIN connections,
         Closes(t, id)
  PROVE  Kit' /\ Flow'
<1>1. /\ Shape /\ Current /\ t \in DOMAIN ops
      /\ completions # <<>> /\ completions' = Tail(completions) /\ inflight' = inflight
  BY ZenonT(40) DEF UringInv, Flow, Turn
<1>2. /\ ops' = Restrict(ops, DOMAIN ops \ {t}) /\ spare' = FreeMany(spare, <<t>>)
      /\ submissions' = submissions
      /\ connections' = Restrict(connections, DOMAIN connections \ {id})
      /\ vacant' = FreeMany(vacant, <<id>>)
  BY ZenonT(40) DEF Closes, Released
<1>3. Ids \in SUBSET Nat /\ Tokens \in SUBSET Nat
  BY UringAssumption DEF Ids, Tokens
<1>4. Slots(connections', vacant', Ids, Lives)
  BY <1>1, <1>2, <1>3, SlotsFree, ZenonT(40) DEF Shape
<1>5. Slots(ops', spare', Tokens, OpTypes)
  BY <1>1, <1>2, <1>3, SlotsFree, ZenonT(40) DEF Shape
<1>6. Kit'
  BY <1>1, <1>2, <1>4, <1>5, ZenonT(40) DEF Kit, Shape
<1>7. /\ DOMAIN ops' = DOMAIN ops \ {t} /\ \A u \in DOMAIN ops' : ops'[u] = ops[u]
      /\ DOMAIN connections' = DOMAIN connections \ {id}
      /\ \A j \in DOMAIN connections' : connections'[j] = connections[j]
  BY <1>2, ZenonT(40) DEF Restrict
<1>8. completions \in Seq(Cqes)
  BY <1>1, ZenonT(40) DEF Shape
<1>9. Queues(submissions', inflight', completions', DOMAIN ops')
  BY <1>1, <1>2, <1>7, <1>8, QueuesTake DEF Current
<1>10. Roles(ops', connections')
  <2> DEFINE p == ops'
             d == connections'
  <2>1. /\ Roles(ops, connections) /\ t \in DOMAIN ops /\ ops[t].type # "Accept"
        /\ Lacks(ops, p, t) /\ Lacks(connections, d, ops[t].conn_id)
    BY <1>1, <1>7, ZenonT(40) DEF Current, Lacks
  <2> HIDE DEF p, d
  <2>2. Roles(p, d)
    BY ONLY <2>1, RolesClose
  <2>3. QED
    BY <2>2, ZenonT(40) DEF p, d
<1>11. Kept(ops, connections, ops', connections', DOMAIN ops \ {t})
  <2>1. ASSUME NEW x \in DOMAIN ops \ {t}, ops[x].type # "Accept"
        PROVE  ops[x].conn_id \in DOMAIN connections'
    BY <1>1, <1>7, <2>1, ZenonT(40) DEF Current, Roles, Serves
  <2>2. QED
    BY <1>7, <2>1, ZenonT(40) DEF Kept
<1>12. Links(submissions', inflight', completions', ops', connections')
  BY <1>1, <1>2, <1>8, <1>11, LinksKept, ZenonT(40) DEF Current
<1>13. Flow'
  BY <1>9, <1>10, <1>12, ZenonT(40) DEF Flow, Current
<1>14. QED
  BY <1>6, <1>13, ZenonT(40)

\* The slabs after the next operation of a connection, or after the failure to
\* submit it.
LEMMA ContinueKit ==
  ASSUME Shape, NEW t \in DOMAIN ops, NEW op \in OpTypes, NEW e \in Entries,
         Continues(t, op, e)
  PROVE  /\ Slots(ops', spare', Tokens, OpTypes)
         /\ submissions' \in Seq(Entries) /\ Len(submissions') <= RingSize
<1>1. Slots(ops, spare, Tokens, OpTypes) /\ Tokens \in SUBSET Nat /\ RingSize \in Nat
  BY UringAssumption DEF Shape, Tokens
<1>2. CASE Reused(t, op, e)
  <2>1. Slots(ops', spare', Tokens, OpTypes)
    BY <1>1, <1>2, SlotsChange, ZenonT(40) DEF Reused
  <2>2. submissions \in Seq(Entries) /\ Len(submissions) < RingSize
        /\ submissions' = Append(submissions, e)
    BY <1>2, ZenonT(40) DEF Shape, Reused
  <2>3. submissions' \in Seq(Entries) /\ Len(submissions') <= RingSize
    BY <1>1, <2>2
  <2>4. QED
    BY <2>1, <2>3, ZenonT(40)
<1>3. CASE Released(t)
  <2>1. Slots(ops', spare', Tokens, OpTypes)
    BY <1>1, <1>3, SlotsFree, ZenonT(40) DEF Released
  <2>2. QED
    BY <1>3, <2>1, ZenonT(40) DEF Released, Shape
<1>4. QED
  BY <1>2, <1>3, ZenonT(40) DEF Continues

\* The queues after an operation is submitted with the token that was freed.
LEMMA ReuseQueues ==
  ASSUME Shape, Current, completions # <<>>, NEW t, t = Head(completions).token,
         t \in DOMAIN ops, NEW op, NEW e \in Entries, e.token = t, Reused(t, op, e),
         completions' = Tail(completions), inflight' = inflight,
         Kept(ops, connections, ops', connections', DOMAIN ops \ {t}),
         Carries(e, op, connections')
  PROVE  /\ Queues(submissions', inflight', completions', DOMAIN ops')
         /\ Links(submissions', inflight', completions', ops', connections')
<1> DEFINE T == Tail(completions)
           D == DOMAIN ops
           S == submissions
           I == inflight
<1>1. /\ S \in Seq(Entries) /\ completions \in Seq(Cqes)
      /\ Queues(S, I, completions, D) /\ Links(S, I, completions, ops, connections)
  BY ZenonT(40) DEF Shape, Current
<1>2. /\ DOMAIN ops' = D /\ ops'[t] = op /\ submissions' = Append(S, e)
  BY ZenonT(40) DEF Reused, Changed
<1>3. Queues(S, I, T, D \ {t})
  BY <1>1, QueuesTake, ZenonT(40)
<1>4. t \notin D \ {t} /\ (D \ {t}) \cup {t} = D
  BY ZenonT(40)
<1>5. Links(S, I, T, ops', connections')
  BY <1>1, LinksKept, ZenonT(40)
<1> HIDE DEF T, D, S, I
<1>6. Queues(Append(S, e), I, T, D)
  <2> DEFINE R == D \ {t}
  <2>1. Queues(S, I, T, R) /\ e.token \notin R /\ S \in Seq(Entries)
    BY <1>1, <1>3, <1>4, ZenonT(40)
  <2> HIDE DEF R
  <2>2. Queues(Append(S, e), I, T, R \cup {e.token})
    BY <2>1, QueuesPush, ZenonT(40)
  <2>3. QED
    BY <1>4, <2>2, ZenonT(40) DEF R
<1>7. Links(Append(S, e), I, T, ops', connections')
  <2> DEFINE p == ops'
             d == connections'
  <2>1. Links(S, I, T, p, d) /\ Carries(e, p[e.token], d) /\ S \in Seq(Entries) /\ e \in Entries
    BY <1>1, <1>2, <1>5, ZenonT(40)
  <2> HIDE DEF p, d
  <2>2. Links(Append(S, e), I, T, p, d)
    BY ONLY <2>1, LinksPush
  <2>3. QED
    BY <2>2, ZenonT(40) DEF p, d
<1>8. QED
  BY <1>2, <1>6, <1>7, ZenonT(40) DEF T, D, S, I

\* A turn after which the connection goes on.
LEMMA GoesOnKeeps ==
  ASSUME UringInv, NEW cqe, cqe = Head(completions), NEW t, t = cqe.token, Turn(cqe, t),
         ops[t].type # "Accept", NEW id, id = ops[t].conn_id, id \in DOMAIN connections,
         GoesOn(t, id)
  PROVE  Kit' /\ Flow'
<1>1. /\ Shape /\ Current /\ t \in DOMAIN ops /\ t \in Tokens
      /\ completions # <<>> /\ completions' = Tail(completions) /\ inflight' = inflight
  BY ZenonT(40) DEF UringInv, Flow, Turn
<1>2. PICK conn, op, kind, bytes :
        /\ Live(conn) /\ conn.client = connections[id].client /\ bytes \in Seq(Nat \X Nat)
        /\ \/ op = ReadOp(id) /\ kind = "recv" /\ conn.phase = "reading"
           \/ op = WriteOp(id, conn.buf_idx) /\ kind = "write" /\ conn.phase = "writing"
        /\ Changed(connections, connections', id, conn) /\ vacant' = vacant
        /\ Continues(t, op, Entry(t, kind, conn.client, bytes))
  BY ZenonT(40) DEF GoesOn
<1> DEFINE e == Entry(t, kind, conn.client, bytes)
<1>3. id \in Ids /\ conn \in Lives /\ conn.client \in Clients
      /\ (conn.phase = "writing" => conn.buf_idx \in Nat)
  BY <1>1, <1>2, ZenonT(40) DEF Shape, Slots, Lives, Live, Connection
<1>4. /\ op \in OpTypes /\ op.type # "Accept" /\ op.conn_id = id
      /\ op.type = "Read" <=> kind = "recv"
      /\ op.type = "Write" <=> kind = "write"
      /\ op.type = "Read" => conn.phase = "reading"
      /\ op.type = "Write" => conn.phase = "writing" /\ op.buf_idx = conn.buf_idx
      /\ kind \in {"recv", "write"}
  <2>1. CASE op = ReadOp(id) /\ kind = "recv" /\ conn.phase = "reading"
    <3>1. op.type = "Read" /\ op.conn_id = id /\ op \in OpTypes
      BY <1>3, <2>1, OpFields, ZenonT(40)
    <3>2. QED
      BY ONLY <2>1, <3>1
  <2>2. CASE op = WriteOp(id, conn.buf_idx) /\ kind = "write" /\ conn.phase = "writing"
    <3>1. op.type = "Write" /\ op.conn_id = id /\ op.buf_idx = conn.buf_idx /\ op \in OpTypes
      BY <1>3, <2>2, OpFields
    <3>2. QED
      BY ONLY <2>2, <3>1
  <2>3. QED
    BY <1>2, <2>1, <2>2, ZenonT(40)
<1>5. e \in Entries /\ e.token = t /\ e.kind = kind /\ e.client = conn.client
  <2>1. kind \in {"recv", "write"} /\ bytes \in Seq(Nat \X Nat) /\ conn.client \in Clients /\ t \in Tokens
    BY <1>1, <1>2, <1>3, <1>4, ZenonT(40)
  <2>2. QED
    BY ONLY <2>1, EntryIs
<1> HIDE DEF e
<1>6. Continues(t, op, e)
  BY <1>2, ZenonT(40) DEF e
<1>7. Slots(connections', vacant', Ids, Lives)
  BY <1>1, <1>2, <1>3, SlotsChange, ZenonT(40) DEF Shape
<1>8. Kit'
  BY <1>1, <1>4, <1>5, <1>6, <1>7, ContinueKit, ZenonT(40) DEF Kit
<1>9. ASSUME Reused(t, op, e) PROVE Current'
  <2>1. /\ DOMAIN connections' = DOMAIN connections /\ connections'[id] = conn
        /\ \A j \in DOMAIN connections : connections'[j].client = connections[j].client
    BY <1>2, ZenonT(40) DEF Changed
  <2>2. Serves(op, connections')
    BY <1>4, <2>1, ZenonT(40) DEF Serves
  <2>3. Changed(ops, ops', t, op)
    BY <1>9, ZenonT(40) DEF Reused
  <2>4. Roles(ops', connections')
    <3> DEFINE p == ops'
               d == connections'
    <3>1. /\ Roles(ops, connections) /\ t \in DOMAIN ops /\ ops[t].type # "Accept"
          /\ id = ops[t].conn_id /\ op.type # "Accept" /\ op.conn_id = id
          /\ Changed(ops, p, t, op) /\ Changed(connections, d, id, conn) /\ Serves(op, d)
      BY <1>1, <1>2, <1>4, <2>2, <2>3, ZenonT(40) DEF Current
    <3> HIDE DEF p, d
    <3>2. Roles(p, d)
      BY ONLY <3>1, RolesGoOn
    <3>3. QED
      BY <3>2, ZenonT(40) DEF p, d
  <2>5. Kept(ops, connections, ops', connections', DOMAIN ops \ {t})
    <3>1. ASSUME NEW x \in DOMAIN ops \ {t}, ops[x].type # "Accept"
          PROVE  ops[x].conn_id \in DOMAIN connections
      BY <1>1, <3>1, ZenonT(40) DEF Current, Roles, Serves
    <3>2. QED
      BY <2>1, <2>3, <3>1, ZenonT(40) DEF Kept, Changed
  <2>6. Carries(e, op, connections')
    BY <1>4, <1>5, <2>1, ZenonT(40) DEF Carries
  <2>7. /\ Queues(submissions', inflight', completions', DOMAIN ops')
        /\ Links(submissions', inflight', completions', ops', connections')
    BY <1>1, <1>5, <1>9, <2>5, <2>6, ReuseQueues, ZenonT(40)
  <2>8. QED
    BY <2>4, <2>7, ZenonT(40) DEF Current
<1>10. QED
  BY <1>6, <1>8, <1>9, ZenonT(40) DEF Continues, Flow

\* A turn that submits accept again.
LEMMA RearmKeeps ==
  ASSUME UringInv, NEW cqe, cqe = Head(completions), NEW t, t = cqe.token, Turn(cqe, t),
         ops[t].type = "Accept", Rearms(t)
  PROVE  Kit' /\ Flow'
<1>1. /\ Shape /\ Current /\ t \in DOMAIN ops /\ t \in Tokens
      /\ completions # <<>> /\ completions' = Tail(completions) /\ inflight' = inflight
      /\ connections' = connections /\ vacant' = vacant
  BY ZenonT(40) DEF UringInv, Flow, Turn, Rearms
<1> DEFINE e == AcceptEntry(t)
           op == AcceptOp
<1>2. op \in OpTypes /\ op.type = "Accept"
  BY OpFields, ZenonT(40)
<1>3. e \in Entries /\ e.token = t /\ e.kind = "accept"
  BY <1>1, EntryIs DEF AcceptEntry
<1>4. Continues(t, op, e)
  BY ZenonT(40) DEF Rearms
<1> HIDE DEF e, op
<1>5. Kit'
  BY <1>1, <1>2, <1>3, <1>4, ContinueKit, ZenonT(40) DEF Kit, Shape
<1>6. ASSUME Reused(t, op, e) PROVE Current'
  <2>1. Changed(ops, ops', t, op)
    BY <1>6, ZenonT(40) DEF Reused
  <2>2. Roles(ops', connections')
    <3> DEFINE p == ops'
    <3>1. /\ Roles(ops, connections) /\ t \in DOMAIN ops /\ ops[t].type = "Accept"
          /\ Changed(ops, p, t, AcceptOp)
      BY <1>1, <2>1, ZenonT(40) DEF Current, op
    <3> HIDE DEF p
    <3>2. Roles(p, connections)
      BY ONLY <3>1, RolesRearm
    <3>3. QED
      BY <1>1, <3>2, ZenonT(40) DEF p
  <2>3. Kept(ops, connections, ops', connections', DOMAIN ops \ {t})
    BY <1>1, <2>1, ZenonT(40) DEF Kept, Changed
  <2>4. Carries(e, op, connections')
    BY <1>2, <1>3, ZenonT(40) DEF Carries
  <2>5. /\ Queues(submissions', inflight', completions', DOMAIN ops')
        /\ Links(submissions', inflight', completions', ops', connections')
    BY <1>1, <1>3, <1>6, <2>3, <2>4, ReuseQueues, ZenonT(40)
  <2>6. QED
    BY <2>2, <2>5, ZenonT(40) DEF Current
<1>7. QED
  BY <1>4, <1>5, <1>6, ZenonT(40) DEF Continues, Flow

\* A turn that admits a connection.
LEMMA AdmitKeeps ==
  ASSUME UringInv, NEW cqe, cqe = Head(completions), NEW t, t = cqe.token, Turn(cqe, t),
         ops[t].type = "Accept", NEW c \in Clients, Admits(t, c)
  PROVE  Kit' /\ Flow'
<1> DEFINE id == AllocMany(vacant, 1)[1]
           u == AllocMany(spare, 1)[1]
           e == AcceptEntry(t)
           f == Entry(u, "recv", c, <<>>)
           armed == Append(submissions, e)
           D == DOMAIN ops
           T == Tail(completions)
<1>1. /\ Shape /\ Current /\ t \in D /\ t \in Tokens
      /\ completions # <<>> /\ completions' = T /\ inflight' = inflight
  BY ZenonT(40) DEF UringInv, Flow, Turn
<1>2. /\ Cardinality(DOMAIN connections) < MaxConnections
      /\ connections' = Occupy(connections, id, NewConnection(c)) /\ vacant' = AfterAlloc(vacant, 1)
      /\ Len(submissions) < RingSize
      /\ \/ /\ loop'.phase = "failed" /\ Len(armed) >= RingSize
            /\ Changed(ops, ops', t, AcceptOp) /\ spare' = spare /\ submissions' = armed
         \/ /\ loop'.phase = "handling" /\ ~ (Len(armed) >= RingSize)
            /\ \E mid : Changed(ops, mid, t, AcceptOp) /\ ops' = Occupy(mid, u, ReadOp(id))
            /\ spare' = AfterAlloc(spare, 1)
            /\ submissions' = Append(armed, f)
  BY ZenonT(40) DEF Admits
<1>3. /\ Slots(connections, vacant, Ids, Lives) /\ Slots(ops, spare, Tokens, OpTypes)
      /\ submissions \in Seq(Entries) /\ completions \in Seq(Cqes)
      /\ Queues(submissions, inflight, completions, D) /\ Roles(ops, connections)
      /\ Links(submissions, inflight, completions, ops, connections)
      /\ DOMAIN connections \in SUBSET Ids /\ D \in SUBSET Tokens
  BY <1>1, ZenonT(40) DEF Shape, Current, Slots
<1>4. Ids \in SUBSET Nat /\ Tokens \in SUBSET Nat /\ RingSize \in Nat
  BY UringAssumption DEF Ids, Tokens
<1>5. CanAlloc(vacant, 1) /\ CanAlloc(spare, 1)
  <2>1. MaxConnections \in Nat
    BY UringAssumption, ZenonT(40)
  <2>2. CanAlloc(vacant, 1)
    BY <1>2, <1>3, <2>1, SlotLeft, ZenonT(40) DEF Ids
  <2>3. QED
    BY <1>3, <2>2, SpareExists, ZenonT(40)
<1>6. NewConnection(c) \in Lives
  <2>1. <<>> \in Seq(Nat) /\ <<>> \in Seq(Nat \X Nat) /\ Len(<<>>) = 0 /\ BufferSize >= 0
    BY ProcessingAssumption
  <2>2. NewConnection(c) \in Connection
    BY <2>1, ZenonT(40) DEF NewConnection, Connection, NoBuffer
  <2>3. QED
    BY <2>1, <2>2 DEF Lives, Live, NewConnection
<1>7. id \in Ids \ DOMAIN connections /\ Slots(connections', vacant', Ids, Lives)
  BY <1>2, <1>3, <1>4, <1>5, <1>6, SlotsTake, ZenonT(40)
<1>8. u \in Tokens \ D
  <2>1. AcceptOp \in OpTypes
    BY OpFields, ZenonT(40)
  <2>2. QED
    BY <1>3, <1>4, <1>5, <2>1, SlotsTake, ZenonT(40)
<1> HIDE DEF id, u, T
<1>9. e \in Entries /\ e.token = t /\ e.kind = "accept"
  BY <1>1, EntryIs DEF AcceptEntry
<1>10. f \in Entries /\ f.token = u /\ f.kind = "recv" /\ f.client = c
  <2>1. <<>> \in Seq(Nat \X Nat) /\ u \in Tokens
    BY <1>8
  <2>2. QED
    BY <2>1, ZenonT(40) DEF Entry, Entries
<1> HIDE DEF e, f
<1>11. armed \in Seq(Entries) /\ Len(armed) <= RingSize
  <2>a. submissions \in Seq(Entries) /\ e \in Entries /\ Len(submissions) < RingSize
    BY <1>2, <1>3, <1>9, ZenonT(40)
  <2>1. armed \in Seq(Entries) /\ Len(armed) = Len(submissions) + 1
    BY <2>a
  <2>2. Len(submissions) \in Nat /\ Len(submissions) < RingSize
    BY <2>a
  <2> HIDE DEF armed
  <2>3. QED
    BY <1>4, <2>1, <2>2
<1> HIDE DEF armed, D
<1>12. AcceptOp \in OpTypes /\ ReadOp(id) \in OpTypes
  BY <1>7, OpFields, ZenonT(40)
<1>13. CASE /\ loop'.phase = "failed"
            /\ Changed(ops, ops', t, AcceptOp) /\ spare' = spare /\ submissions' = armed
  <2>1. Slots(ops', spare', Tokens, OpTypes)
    BY <1>1, <1>3, <1>12, <1>13, SlotsChange, ZenonT(40) DEF D
  <2>2. QED
    BY <1>7, <1>11, <1>13, <2>1, ZenonT(40) DEF Kit, Flow
<1>14. CASE /\ ~ (Len(armed) >= RingSize)
            /\ \E mid : Changed(ops, mid, t, AcceptOp) /\ ops' = Occupy(mid, u, ReadOp(id))
            /\ spare' = AfterAlloc(spare, 1)
            /\ submissions' = Append(armed, f)
  <2>1. PICK mid : Changed(ops, mid, t, AcceptOp) /\ ops' = Occupy(mid, u, ReadOp(id))
    BY <1>14, ZenonT(40)
  <2>2. Slots(mid, spare, Tokens, OpTypes) /\ DOMAIN mid = D
    BY <1>1, <1>3, <1>12, <2>1, SlotsChange, ZenonT(40) DEF D, Changed
  <2>3. Slots(ops', spare', Tokens, OpTypes)
    BY <1>4, <1>5, <1>12, <1>14, <2>1, <2>2, SlotsTake, ZenonT(40) DEF u
  <2>4. submissions' \in Seq(Entries) /\ Len(submissions') <= RingSize
    BY <1>4, <1>10, <1>11, <1>14
  <2>5. Kit'
    BY <1>7, <2>3, <2>4, ZenonT(40) DEF Kit
  <2>6. Roles(mid, connections)
    BY ONLY <1>1, <1>3, <2>1, RolesRearm, ops[t].type = "Accept", ZenonT(40) DEF D
  <2>7. Roles(ops', connections')
    <3>1. u \notin DOMAIN mid /\ id \notin DOMAIN connections
      BY <1>7, <1>8, <2>2, ZenonT(40)
    <3>2. QED
      BY <1>2, <2>1, <2>6, <3>1, RolesAdmit, ZenonT(40)
  <2>8. /\ DOMAIN ops' = D \cup {u} /\ ops'[u] = ReadOp(id) /\ ops'[t] = AcceptOp
        /\ \A x \in D \ {t} : ops'[x] = ops[x]
    BY <1>1, <1>8, <2>1, <2>2, ZenonT(40) DEF Occupy, Changed, D
  <2>9. /\ connections'[id] = NewConnection(c)
        /\ \A j \in DOMAIN connections : connections'[j] = connections[j]
    BY <1>2, <1>7, ZenonT(40) DEF Occupy
  <2>10. Queues(submissions', inflight', completions', DOMAIN ops')
    <3> DEFINE R == D \ {t}
    <3>1. Queues(submissions, inflight, T, R)
      BY <1>1, <1>3, QueuesTake, ZenonT(40) DEF T
    <3>2. R \cup {t} = D /\ t \notin R
      BY <1>1, ZenonT(40)
    <3> HIDE DEF R
    <3>3. Queues(armed, inflight, T, R \cup {t})
      BY <1>3, <1>9, <3>1, <3>2, QueuesPush, ZenonT(40) DEF armed
    <3>4. u \notin D
      BY <1>8, ZenonT(40)
    <3>5. Queues(Append(armed, f), inflight, T, D \cup {u})
      BY <1>10, <1>11, <3>2, <3>3, <3>4, QueuesPush, ZenonT(40)
    <3>6. QED
      BY <1>1, <1>14, <2>8, <3>5, ZenonT(40)
  <2>11. Kept(ops, connections, ops', connections', D \ {t})
    <3>1. ASSUME NEW x \in D \ {t}, ops[x].type # "Accept"
          PROVE  ops[x].conn_id \in DOMAIN connections
      BY <1>3, <3>1, ZenonT(40) DEF Roles, Serves, D
    <3>2. QED
      BY <2>8, <2>9, <3>1, ZenonT(40) DEF Kept
  <2>12. Links(submissions', inflight', completions', ops', connections')
    <3> DEFINE p == ops'
               d == connections'
               S == submissions
               I == inflight
    <3>1. Links(S, I, T, p, d)
      BY <1>1, <1>3, <2>11, LinksKept, ZenonT(40) DEF T
    <3>2. Carries(e, p[e.token], d)
      BY <1>9, <2>8, OpFields, ZenonT(40) DEF Carries
    <3>3. Carries(f, p[f.token], d)
      <4>1. NewConnection(c).client = c
        BY ZenonT(40) DEF NewConnection
      <4>2. ReadOp(id).type = "Read" /\ ReadOp(id).conn_id = id
        BY OpFields, ZenonT(40)
      <4>3. QED
        BY <1>10, <2>8, <2>9, <4>1, <4>2 DEF Carries
    <3> HIDE DEF p, d
    <3>4. Links(armed, I, T, p, d)
      BY ONLY <1>3, <1>9, <3>1, <3>2, LinksPush, ZenonT(40) DEF armed
    <3>5. Links(Append(armed, f), I, T, p, d)
      BY ONLY <1>10, <1>11, <3>3, <3>4, LinksPush
    <3>6. QED
      BY <1>1, <1>14, <3>5, ZenonT(40) DEF p, d
  <2>13. QED
    BY <2>5, <2>7, <2>10, <2>12, ZenonT(40) DEF Flow, Current
<1>15. QED
  BY <1>2, <1>13, <1>14, ZenonT(40)

-----------------------------------------------------------------------------
(* The provided buffers.                                                   *)

\* ProvidedOnce, in these terms.
LEMMA RingOnceIs ==
  ASSUME NEW P \in Seq(Nat), NEW C, NEW n,
         NEW H, H = [i \in {i \in DOMAIN C : C[i].bid # NoBuffer} |-> <<C[i].bid>>]
  PROVE  Partitioned(P, H, n) <=> RingOnce(P, C, 0 .. n - 1)
<1> DEFINE N == 0 .. n - 1
           G == {i \in DOMAIN C : C[i].bid # NoBuffer}
<1>1. /\ DOMAIN H = G
      /\ \A i \in G : Range(H[i]) = {C[i].bid} /\ IsInjective(H[i])
  BY DEF Range, IsInjective
<1>2. \A x : Lent(C, x) <=> \E i \in G : x \in Range(H[i])
  BY <1>1, ZenonT(40) DEF Lent
<1>3. LentOnce(C) <=> \A i, j \in G : i # j => Range(H[i]) \cap Range(H[j]) = {}
  <2>1. LentOnce(C) <=> \A i, j \in G : i # j => C[i].bid # C[j].bid
    BY ZenonT(40) DEF LentOnce
  <2>2. \A i, j \in G : Range(H[i]) \cap Range(H[j]) = {} <=> C[i].bid # C[j].bid
    <3>1. SUFFICES ASSUME NEW i \in G, NEW j \in G
                   PROVE  Range(H[i]) \cap Range(H[j]) = {} <=> C[i].bid # C[j].bid
      BY ZenonT(40)
    <3>2. Range(H[i]) = {C[i].bid} /\ Range(H[j]) = {C[j].bid}
      BY <1>1, ZenonT(40)
    <3>3. QED
      BY <3>2, ZenonT(40)
  <2> HIDE DEF G
  <2>3. QED
    BY <2>1, <2>2, ZenonT(40)
<1>u. \A x : x \in UNION {Range(H[i]) : i \in DOMAIN H} <=> \E i \in G : x \in Range(H[i])
  BY <1>1, ZenonT(40)
<1>4. P \in Stack(Nat) <=> IsInjective(P)
  BY ZenonT(40) DEF Stack
<1> HIDE DEF N, G
<1>5. ASSUME Partitioned(P, H, n) PROVE RingOnce(P, C, N)
  <2>1. /\ IsInjective(P) /\ \A i \in G : Range(H[i]) \cap Range(P) = {}
        /\ \A i, j \in G : i # j => Range(H[i]) \cap Range(H[j]) = {}
        /\ Range(P) \cup UNION {Range(H[i]) : i \in DOMAIN H} = N
    BY <1>1, <1>5, ZenonT(40) DEF Partitioned, N
  <2>2. \A x : ~ (x \in Range(P) /\ Lent(C, x))
    BY <1>2, <2>1, ZenonT(40)
  <2>3. \A x : x \in N <=> (x \in Range(P) \/ Lent(C, x))
    <3> DEFINE U == UNION {Range(H[i]) : i \in DOMAIN H}
    <3>1. Range(P) \cup U = N /\ \A x : x \in U <=> Lent(C, x)
      BY <1>2, <1>u, <2>1, ZenonT(40)
    <3> HIDE DEF U
    <3>2. QED
      BY <3>1, ZenonT(40)
  <2>4. QED
    BY <1>3, <1>4, <2>1, <2>2, <2>3, ZenonT(40) DEF RingOnce
<1>6. ASSUME RingOnce(P, C, N) PROVE Partitioned(P, H, n)
  <2>1. IsInjective(P) /\ \A i, j \in G : i # j => Range(H[i]) \cap Range(H[j]) = {}
    BY <1>3, <1>4, <1>6, ZenonT(40) DEF RingOnce
  <2>2. \A i \in G : Range(H[i]) \cap Range(P) = {}
    BY <1>2, <1>6, ZenonT(40) DEF RingOnce
  <2>3. Range(P) \cup UNION {Range(H[i]) : i \in DOMAIN H} = N
    <3> DEFINE U == UNION {Range(H[i]) : i \in DOMAIN H}
    <3>1. \A x : x \in U <=> Lent(C, x)
      BY <1>2, <1>u, ZenonT(40)
    <3> HIDE DEF U
    <3>2. Range(P) \cup U = N
      BY <1>6, <3>1, ZenonT(40) DEF RingOnce
    <3>3. QED
      BY <3>2, ZenonT(40) DEF U
  <2>4. /\ \A o \in DOMAIN H : IsInjective(H[o]) /\ Range(H[o]) \cap Range(P) = {}
        /\ \A o, p \in DOMAIN H : o # p => Range(H[o]) \cap Range(H[p]) = {}
    <3>1. DOMAIN H = G /\ \A i \in G : IsInjective(H[i])
      BY <1>1, ZenonT(40)
    <3>2. QED
      BY ONLY <2>1, <2>2, <3>1
  <2>5. IsInjective(P)
    BY <2>1, ZenonT(40)
  <2>6. QED
    BY ONLY <2>3, <2>4, <2>5 DEF Partitioned, N
<1>7. QED
  BY <1>5, <1>6, ZenonT(40) DEF N

\* A completion is handled, and its buffer is put back.
LEMMA RingTake ==
  ASSUME NEW P, NEW C \in Seq(Cqes), NEW N, RingOnce(P, C, N), C # <<>>,
         NEW b, b = Head(C).bid
  PROVE  RingOnce(IF b = NoBuffer THEN P ELSE Append(P, b), Tail(C), N)
<1> DEFINE T == Tail(C)
<1>1. /\ 1 \in DOMAIN C /\ Head(C) = C[1] /\ Head(C) \in Cqes
      /\ \A i \in DOMAIN T : i + 1 \in DOMAIN C /\ T[i] = C[i + 1]
      /\ \A i \in DOMAIN C : i # 1 => i - 1 \in DOMAIN T
      /\ DOMAIN C \subseteq Nat /\ DOMAIN T \subseteq Nat \ {0}
  BY TailIs
<1>2. b \in Nat \cup {NoBuffer}
  BY <1>1, ZenonT(40) DEF Cqes
<1> HIDE DEF T
<1>3. LentOnce(T)
  <2>1. SUFFICES ASSUME NEW i \in DOMAIN T, NEW j \in DOMAIN T, T[i].bid # NoBuffer,
                        T[i].bid = T[j].bid
                 PROVE  i = j
    BY ZenonT(40) DEF LentOnce
  <2>2. i + 1 = j + 1
    BY <1>1, <2>1 DEF RingOnce, LentOnce
  <2>3. QED
    BY <1>1, <2>2
<1>4. ASSUME NEW x, Lent(T, x) PROVE Lent(C, x) /\ x # b
  <2>1. PICK i \in DOMAIN T : T[i].bid = x
    BY <1>4, ZenonT(40) DEF Lent
  <2>2. i + 1 \in DOMAIN C /\ i + 1 # 1 /\ C[i + 1].bid = x /\ x # NoBuffer
    BY <1>1, <1>4, <2>1 DEF Lent
  <2>3. QED
    BY <1>1, <2>2, ZenonT(40) DEF Lent, LentOnce, RingOnce
<1>5. ASSUME NEW x, Lent(C, x), x # b PROVE Lent(T, x)
  <2>1. PICK j \in DOMAIN C : C[j].bid = x
    BY <1>5, ZenonT(40) DEF Lent
  <2>2. j # 1 /\ j - 1 \in DOMAIN T /\ j \in Nat
    BY <1>1, <1>5, <2>1, ZenonT(40)
  <2>3. (j - 1) + 1 = j
    BY <2>2
  <2>4. T[j - 1] = C[j]
    BY <1>1, <2>2, <2>3, ZenonT(40)
  <2>5. QED
    BY <1>5, <2>1, <2>2, <2>4, ZenonT(40) DEF Lent
<1>6. CASE b = NoBuffer
  <2>1. \A x : Lent(T, x) <=> Lent(C, x)
    BY <1>4, <1>5, <1>6, ZenonT(40) DEF Lent
  <2>2. RingOnce(P, T, N)
    BY <1>3, <2>1, ZenonT(40) DEF RingOnce
  <2>3. QED
    BY <1>6, <2>2, ZenonT(40) DEF T
<1>7. CASE b # NoBuffer
  <2>1. Lent(C, b)
    BY <1>1, <1>7, ZenonT(40) DEF Lent
  <2>2. P \in Stack(Nat) /\ b \in Nat \ Range(P)
    BY <1>2, <1>7, <2>1, ZenonT(40) DEF RingOnce
  <2> DEFINE Q == Append(P, b)
  <2>3. Q \in Stack(Nat) /\ Range(Q) = Range(P) \cup {b}
    BY <2>2, QueuePut
  <2> HIDE DEF Q
  <2>4. \A x : x \in Range(Q) <=> (x \in Range(P) \/ x = b)
    BY <2>3, ZenonT(40)
  <2>5. \A x : Lent(T, x) <=> (Lent(C, x) /\ x # b)
    BY <1>4, <1>5, ZenonT(40)
  <2>6. RingOnce(Q, T, N)
    BY <1>3, <2>1, <2>2, <2>3, <2>4, <2>5, ZenonT(40) DEF RingOnce
  <2>7. QED
    BY <1>7, <2>6, ZenonT(40) DEF T, Q
<1>8. QED
  BY <1>6, <1>7, ZenonT(40)

\* A completion without a buffer.
LEMMA RingNone ==
  ASSUME NEW P, NEW C \in Seq(Cqes), NEW N, RingOnce(P, C, N), NEW cqe \in Cqes,
         cqe.bid = NoBuffer
  PROVE  RingOnce(P, Append(C, cqe), N)
<1>1. PICK n : Extends(C, Append(C, cqe), n, cqe)
  BY AppendIs, ZenonT(40)
<1> DEFINE A == Append(C, cqe)
<1> HIDE DEF A
<1>2. Extends(C, A, n, cqe)
  BY <1>1, ZenonT(40) DEF A
<1>3. \A x : Lent(A, x) <=> Lent(C, x)
  BY <1>2, ZenonT(40) DEF Lent, Extends
<1>4. LentOnce(A)
  BY <1>2, ZenonT(40) DEF LentOnce, Extends, RingOnce
<1>5. RingOnce(P, A, N)
  BY <1>3, <1>4, ZenonT(40) DEF RingOnce
<1>6. QED
  BY <1>5, ZenonT(40) DEF A

\* A completion with the first buffer of the ring.
LEMMA RingGive ==
  ASSUME NEW P, NEW C \in Seq(Cqes), NEW N, RingOnce(P, C, N), P # <<>>, NEW cqe \in Cqes,
         cqe.bid = Head(P)
  PROVE  RingOnce(Tail(P), Append(C, cqe), N)
<1>1. PICK n : Extends(C, Append(C, cqe), n, cqe)
  BY AppendIs, ZenonT(40)
<1> DEFINE A == Append(C, cqe)
           Q == Tail(P)
           b == Head(P)
<1>2. P \in Stack(Nat)
  BY ZenonT(40) DEF RingOnce
<1>3. b \in Range(P) /\ b \in Nat /\ Q \in Stack(Nat) /\ Range(Q) = Range(P) \ {b}
  BY <1>2, QueueTake, ZenonT(40)
<1> HIDE DEF A, Q, b
<1>4. Extends(C, A, n, cqe)
  BY <1>1, ZenonT(40) DEF A
<1>5. b # NoBuffer
  BY <1>3 DEF NoBuffer
<1>6. cqe.bid = b
  BY ZenonT(40) DEF b
<1>7. \A x : Lent(A, x) <=> (Lent(C, x) \/ x = b)
  BY <1>4, <1>5, <1>6, ZenonT(40) DEF Lent, Extends
<1>8. ~ Lent(C, b)
  BY <1>3, ZenonT(40) DEF RingOnce
<1>9. LentOnce(A)
  BY <1>4, <1>5, <1>6, <1>8, ZenonT(40) DEF LentOnce, Lent, Extends, RingOnce
<1>10. \A x : x \in Range(Q) <=> (x \in Range(P) /\ x # b)
  BY <1>3, ZenonT(40)
<1>11. RingOnce(Q, A, N)
  BY <1>3, <1>7, <1>8, <1>9, <1>10, ZenonT(40) DEF RingOnce
<1>12. QED
  BY <1>11, ZenonT(40) DEF Q, A

-----------------------------------------------------------------------------
(* Every step keeps the invariant.                                         *)

\* The batch is submitted.
LEMMA SubmitKeeps ==
  ASSUME UringInv, Submit
  PROVE  UringInv'
<1>1. /\ loop.phase = "handling" /\ inflight' = inflight \cup Range(submissions)
      /\ submissions' = <<>> /\ loop' = [phase |-> "waiting", processed |-> 0]
      /\ net' = net /\ backlog' = backlog /\ connections' = connections /\ vacant' = vacant
      /\ ops' = ops /\ spare' = spare /\ free_list' = free_list /\ provided' = provided
      /\ completions' = completions
  BY ZenonT(40) DEF Submit
<1>2. Shape /\ Current /\ NetType /\ RingOnce(provided, completions, 0 .. ring_entries - 1)
  BY <1>1, ZenonT(40) DEF UringInv, Flow
<1>3. Range(submissions) \subseteq Entries
  BY <1>2, RangeIs, ZenonT(40) DEF Shape
<1>4. <<>> \in Seq(Entries) /\ Len(<<>>) <= RingSize
  BY UringAssumption
<1>5. Shape'
  BY <1>1, <1>2, <1>3, <1>4, ZenonT(40) DEF Shape
<1>6. Queues(submissions', inflight', completions', DOMAIN ops')
  BY <1>1, <1>2, QueuesSubmit, ZenonT(40) DEF Current
<1>7. Links(submissions', inflight', completions', ops', connections')
  BY <1>1, <1>2, LinksSubmit, ZenonT(40) DEF Current
<1>8. Current'
  BY <1>1, <1>2, <1>6, <1>7, ZenonT(40) DEF Current
<1>9. QED
  BY <1>1, <1>2, <1>5, <1>8, ZenonT(40) DEF UringInv, Flow, NetType

\* The worker wakes up.
LEMMA WakeKeeps ==
  ASSUME UringInv, Wake
  PROVE  UringInv'
<1>1. /\ loop.phase = "waiting" /\ loop' = [loop EXCEPT !.phase = "handling"]
      /\ net' = net /\ backlog' = backlog /\ connections' = connections /\ vacant' = vacant
      /\ ops' = ops /\ spare' = spare /\ free_list' = free_list /\ provided' = provided
      /\ completions' = completions /\ submissions' = submissions /\ inflight' = inflight
  BY ZenonT(40) DEF Wake
<1>2. Shape /\ Current /\ NetType /\ RingOnce(provided, completions, 0 .. ring_entries - 1)
  BY <1>1, ZenonT(40) DEF UringInv, Flow
<1>3. loop' \in [phase : {"handling", "waiting", "failed"}, processed : Nat]
  BY <1>1, <1>2, ZenonT(40) DEF Shape
<1>4. Shape'
  BY <1>1, <1>2, <1>3, ZenonT(40) DEF Shape
<1>5. Current'
  BY <1>1, <1>2, ZenonT(40) DEF Current
<1>6. QED
  BY <1>1, <1>2, <1>4, <1>5, ZenonT(40) DEF UringInv, Flow, NetType

\* Clients change the network only.
LEMMA ClientKeeps ==
  ASSUME UringInv, Client
  PROVE  UringInv'
<1>1. PICK c \in Clients : Connect(c) \/ Send(c) \/ Leave(c) \/ Receive(c)
  BY ZenonT(40) DEF Client
<1>2. NetType'
  BY <1>1, ConnectType, SendType, LeaveType, ReceiveType, ZenonT(40) DEF UringInv
<1>3. /\ connections' = connections /\ vacant' = vacant /\ loop' = loop
      /\ ops' = ops /\ spare' = spare /\ free_list' = free_list /\ provided' = provided
      /\ completions' = completions /\ submissions' = submissions /\ inflight' = inflight
  BY ZenonT(40) DEF Client, worker
<1>4. Shape' /\ Flow' /\ RingOnce(provided', completions', 0 .. ring_entries - 1)
  BY <1>3, ZenonT(40) DEF UringInv, Shape, Flow, Current
<1>5. QED
  BY <1>2, <1>4, ZenonT(40) DEF UringInv

\* The parts of an entry of a socket.
LEMMA EntryFields ==
  ASSUME NEW e \in Entries
  PROVE  /\ e.token \in Tokens
         /\ e.kind # "accept" => e.client \in Clients /\ e.bytes \in Seq(Nat \X Nat)
  BY ZenonT(40) DEF Entries

\* A completion.
Posted(e, cqe) ==
  /\ cqe \in Cqes /\ cqe.token = e.token
  /\ inflight' = inflight \ {e} /\ completions' = Append(completions, cqe)
  /\ \/ cqe.bid = NoBuffer /\ provided' = provided
     \/ provided # <<>> /\ cqe.bid = Head(provided) /\ provided' = Tail(provided)

\* A completion that the kernel posts for an operation in flight keeps the
\* invariant, if it reports what such an operation can report.
LEMMA PostedKeeps ==
  ASSUME UringInv, NEW e \in inflight, NEW cqe, Posted(e, cqe), UNCHANGED worker, NetType',
         loop.phase # "failed" => Reports(cqe, ops[e.token])
  PROVE  UringInv'
<1>1. /\ connections' = connections /\ vacant' = vacant /\ ops' = ops /\ spare' = spare
      /\ free_list' = free_list /\ submissions' = submissions /\ loop' = loop
  BY ZenonT(40) DEF worker
<1>2. /\ Shape /\ Flow /\ RingOnce(provided, completions, 0 .. ring_entries - 1)
      /\ completions \in Seq(Cqes)
  BY ZenonT(40) DEF UringInv, Shape
<1>3. /\ cqe \in Cqes /\ cqe.token = e.token
      /\ inflight' = inflight \ {e} /\ completions' = Append(completions, cqe)
  BY ZenonT(40) DEF Posted
<1>4. completions' \in Seq(Cqes)
  BY <1>2, <1>3
<1>5. Shape'
  BY <1>1, <1>2, <1>3, <1>4, ZenonT(40) DEF Shape
<1>6. RingOnce(provided', completions', 0 .. ring_entries - 1)
  <2>1. CASE cqe.bid = NoBuffer /\ provided' = provided
    BY <1>2, <1>3, <2>1, RingNone, ZenonT(40)
  <2>2. CASE provided # <<>> /\ cqe.bid = Head(provided) /\ provided' = Tail(provided)
    BY <1>2, <1>3, <2>2, RingGive, ZenonT(40)
  <2>3. QED
    BY <2>1, <2>2, ZenonT(40) DEF Posted
<1>7. ASSUME loop.phase # "failed" PROVE Current'
  <2>1. /\ Queues(submissions, inflight, completions, DOMAIN ops) /\ Roles(ops, connections)
        /\ Links(submissions, inflight, completions, ops, connections)
    BY <1>2, <1>7, ZenonT(40) DEF Flow, Current
  <2>2. Queues(submissions', inflight', completions', DOMAIN ops')
    BY <1>1, <1>2, <1>3, <2>1, QueuesComplete, ZenonT(40)
  <2>3. Links(submissions', inflight', completions', ops', connections')
    BY <1>1, <1>2, <1>3, <1>7, <2>1, LinksComplete, ZenonT(40)
  <2>4. QED
    BY <1>1, <2>1, <2>2, <2>3, ZenonT(40) DEF Current
<1>8. QED
  BY <1>1, <1>5, <1>6, <1>7, ZenonT(40) DEF UringInv, Flow

\* The kind of an operation that the kernel works on.
LEMMA KindIs ==
  ASSUME UringInv, NEW e \in inflight
  PROVE  /\ e \in Entries
         /\ loop.phase # "failed" => Carries(e, ops[e.token], connections)
  BY ZenonT(40) DEF UringInv, Shape, Flow, Current, Links

\* A connection is accepted, or accept fails.
LEMMA CompleteAcceptKeeps ==
  ASSUME UringInv, NEW e \in inflight, CompleteAccept(e), UNCHANGED worker
  PROVE  UringInv'
<1>1. e.token \in Tokens /\ e.kind = "accept"
      /\ (loop.phase # "failed" => Carries(e, ops[e.token], connections))
  BY KindIs, EntryFields, ZenonT(40) DEF CompleteAccept
<1>2. NetType /\ net' = net /\ provided' = provided /\ backlog # <<>> /\ backlog \in Seq(Clients)
  BY ZenonT(40) DEF UringInv, CompleteAccept, NetType
<1>3. Head(backlog) \in Clients /\ Tail(backlog) \in Seq(Clients)
  BY <1>2
<1>4. backlog' \in Seq(Clients)
  BY <1>2, <1>3, ZenonT(40) DEF CompleteAccept
<1>5. NetType'
  BY <1>2, <1>4, ZenonT(40) DEF NetType
<1>6. PICK result \in Clients \cup {Failed} : Complete(e, result, NoBuffer, <<>>)
  BY <1>3, ZenonT(40) DEF CompleteAccept
<1> DEFINE cqe == Completed(e.token, result, NoBuffer, <<>>)
<1>7. <<>> \in Seq(Nat) /\ result \in Clients \cup Int /\ NoBuffer \in Nat \cup {NoBuffer}
  BY <1>6 DEF Failed
<1>8. cqe \in Cqes /\ cqe.token = e.token /\ cqe.result = result /\ cqe.bid = NoBuffer
  BY <1>1, <1>7, ZenonT(40) DEF Completed, Cqes
<1>9. inflight' = inflight \ {e} /\ completions' = Append(completions, cqe)
  BY <1>6, ZenonT(40) DEF Complete
<1> HIDE DEF cqe
<1>10. Posted(e, cqe)
  BY <1>2, <1>8, <1>9, ZenonT(40) DEF Posted
<1>11. ASSUME loop.phase # "failed" PROVE Reports(cqe, ops[e.token])
  <2>1. ops[e.token].type = "Accept"
    BY <1>1, <1>11, ZenonT(40) DEF Carries
  <2>2. QED
    BY <1>6, <1>8, <2>1, ZenonT(40) DEF Reports
<1>12. QED
  BY <1>5, <1>10, <1>11, PostedKeeps, ZenonT(40)

\* A read without data.
LEMMA CompleteReadWithoutKeeps ==
  ASSUME UringInv, NEW e \in inflight, CompleteReadWithout(e), UNCHANGED worker
  PROVE  UringInv'
<1>1. e.token \in Tokens /\ e.kind = "recv"
      /\ (loop.phase # "failed" => Carries(e, ops[e.token], connections))
  BY KindIs, EntryFields, ZenonT(40) DEF CompleteReadWithout
<1>2. NetType'
  BY ZenonT(40) DEF UringInv, NetType, CompleteReadWithout
<1>3. PICK result \in {Failed, 0}, bid \in {NoBuffer, Head(provided)} :
        /\ Complete(e, result, bid, <<>>)
        /\ \/ bid = NoBuffer /\ provided' = provided
           \/ provided # <<>> /\ bid = Head(provided) /\ provided' = Tail(provided)
  BY ZenonT(40) DEF CompleteReadWithout
<1>4. provided \in Stack(Nat)
  BY ZenonT(40) DEF UringInv, RingOnce
<1>5. bid \in Nat \cup {NoBuffer}
  <2>1. ASSUME provided # <<>> PROVE Head(provided) \in Nat
    BY <1>4, <2>1, QueueTake, ZenonT(40)
  <2>2. QED
    BY <1>3, <2>1, ZenonT(40)
<1> DEFINE cqe == Completed(e.token, result, bid, <<>>)
<1>6. <<>> \in Seq(Nat) /\ result \in Int /\ result <= 0
  BY <1>3 DEF Failed
<1>7. cqe \in Cqes /\ cqe.token = e.token /\ cqe.result = result /\ cqe.bid = bid
  BY <1>1, <1>5, <1>6, ZenonT(40) DEF Completed, Cqes
<1>8. inflight' = inflight \ {e} /\ completions' = Append(completions, cqe)
  BY <1>3, ZenonT(40) DEF Complete
<1> HIDE DEF cqe
<1>9. Posted(e, cqe)
  BY <1>3, <1>7, <1>8, ZenonT(40) DEF Posted
<1>10. ASSUME loop.phase # "failed" PROVE Reports(cqe, ops[e.token])
  <2>1. ops[e.token].type = "Read"
    BY <1>1, <1>10, ZenonT(40) DEF Carries
  <2>2. QED
    BY <1>6, <1>7, <2>1 DEF Reports
<1>11. QED
  BY <1>2, <1>9, <1>10, PostedKeeps, ZenonT(40)

\* A read with data.
LEMMA CompleteReadKeeps ==
  ASSUME UringInv, NEW e \in inflight, CompleteRead(e), UNCHANGED worker
  PROVE  UringInv'
<1> DEFINE c == e.client
           inbox == net[c].inbox
           n == Min({Len(inbox), BufferSize})
           head == SubSeq(inbox, 1, n)
           rest == SubSeq(inbox, n + 1, Len(inbox))
<1>1. e.token \in Tokens /\ e.kind = "recv" /\ c \in Clients
      /\ (loop.phase # "failed" => Carries(e, ops[e.token], connections))
  BY KindIs, EntryFields, ZenonT(40) DEF CompleteRead
<1>2. /\ Complete(e, n, Head(provided), head) /\ provided # <<>> /\ provided' = Tail(provided)
      /\ net' = [net EXCEPT ![c].inbox = SubSeq(@, n + 1, Len(@))] /\ backlog' = backlog
  BY ZenonT(40) DEF CompleteRead
<1>3. NetType /\ net[c] \in Socket /\ inbox \in Seq(Nat)
  BY <1>1, SocketFields, ZenonT(40) DEF UringInv, NetType
<1>4. n \in Nat /\ n <= Len(inbox)
  <2>1. Len(inbox) \in Nat /\ BufferSize \in Nat
    BY <1>3, ProcessingAssumption
  <2>2. QED
    BY <2>1, MinOfTwo, ZenonT(40)
<1> HIDE DEF n
<1>5. /\ head \in Seq(Nat) /\ Len(head) = n /\ rest \in Seq(Nat)
  <2> HIDE DEF inbox
  <2>1. QED
    BY <1>3, <1>4
<1>6. net' = [net EXCEPT ![c] = [net[c] EXCEPT !.inbox = rest]]
  BY <1>2, <1>3, ZenonT(40) DEF NetType
<1> HIDE DEF head, rest, inbox
<1>7. [net[c] EXCEPT !.inbox = rest] \in Socket
  BY <1>3, <1>5, SocketUpdates, ZenonT(40)
<1>8. NetType'
  BY <1>1, <1>2, <1>3, <1>6, <1>7, ZenonT(40) DEF NetType
<1>9. provided \in Stack(Nat)
  BY ZenonT(40) DEF UringInv, RingOnce
<1>10. Head(provided) \in Nat
  BY <1>2, <1>9, QueueTake, ZenonT(40)
<1> DEFINE b == Head(provided)
           cqe == Completed(e.token, n, b, head)
<1>11. /\ cqe \in Cqes /\ cqe.token = e.token /\ cqe.result = n /\ cqe.bid = b
       /\ cqe.bytes = head
  <2>1. n \in Int
    BY <1>4
  <2>2. QED
    BY <1>1, <1>5, <1>10, <2>1, ZenonT(40) DEF Completed, Cqes
<1>12. inflight' = inflight \ {e} /\ completions' = Append(completions, cqe)
  BY <1>2, ZenonT(40) DEF Complete
<1> HIDE DEF cqe
<1>13. Posted(e, cqe)
  BY <1>2, <1>11, <1>12, ZenonT(40) DEF Posted
<1>14. ASSUME loop.phase # "failed" PROVE Reports(cqe, ops[e.token])
  <2>1. ops[e.token].type = "Read"
    BY <1>1, <1>14, ZenonT(40) DEF Carries
  <2>2. cqe.result \in Int /\ Len(cqe.bytes) = cqe.result
    BY <1>4, <1>5, <1>11
  <2>3. QED
    BY <2>1, <2>2, ZenonT(40) DEF Reports
<1>15. QED
  BY <1>8, <1>13, <1>14, PostedKeeps, ZenonT(40)

\* A write, or its failure.
LEMMA CompleteWriteKeeps ==
  ASSUME UringInv, NEW e \in inflight, CompleteWrite(e), UNCHANGED worker
  PROVE  UringInv'
<1> DEFINE c == e.client
<1>1. e.token \in Tokens /\ e.kind = "write" /\ c \in Clients /\ e.bytes \in Seq(Nat \X Nat)
      /\ (loop.phase # "failed" => Carries(e, ops[e.token], connections))
  BY KindIs, EntryFields, ZenonT(40) DEF CompleteWrite
<1>2. NetType /\ net[c] \in Socket /\ net[c].outbox \in Seq(Nat \X Nat)
  BY <1>1, SocketFields, ZenonT(40) DEF UringInv, NetType
<1>3. provided' = provided /\ backlog' = backlog
  BY ZenonT(40) DEF CompleteWrite
<1>4. \E result \in Int : Complete(e, result, NoBuffer, <<>>) /\ NetType'
  <2>1. CASE \E n \in 1 .. Min({Room(c), Len(e.bytes)}) :
               /\ Complete(e, n, NoBuffer, <<>>)
               /\ net' = [net EXCEPT ![c].outbox = @ \o SubSeq(e.bytes, 1, n)]
    <3>1. PICK n \in 1 .. Min({Room(c), Len(e.bytes)}) :
               /\ Complete(e, n, NoBuffer, <<>>)
               /\ net' = [net EXCEPT ![c].outbox = @ \o SubSeq(e.bytes, 1, n)]
      BY <2>1, ZenonT(40)
    <3> DEFINE more == SubSeq(e.bytes, 1, n)
               out == net[c].outbox \o more
    <3>2. n \in Nat /\ n <= Len(e.bytes)
      <4>1. Len(e.bytes) \in Nat /\ Room(c) \in Int
        <5>1. Len(net[c].outbox) \in Nat /\ SendBuffer \in Nat
          BY <1>2, NetworkAssumption
        <5>2. QED
          BY <1>1, <5>1 DEF Room
      <4> DEFINE r == Room(c)
                 k == Len(e.bytes)
                 m == Min({r, k})
      <4>2. \E x \in {r, k} : \A y \in {r, k} : x <= y
        BY <4>1
      <4>3. m \in {r, k} /\ m <= k
        BY <4>2, ZenonT(40) DEF Min
      <4> HIDE DEF m, r, k
      <4>4. n \in 1 .. m
        BY ZenonT(40) DEF m, r, k
      <4>5. r \in Int /\ k \in Nat
        BY <4>1, ZenonT(40) DEF r, k
      <4>6. n \in Nat /\ n <= k
        BY <4>3, <4>4, <4>5
      <4>7. QED
        BY <4>6, ZenonT(40) DEF k
    <3>3. more \in Seq(Nat \X Nat)
      <4> DEFINE S == Nat \X Nat
                 b == e.bytes
      <4>1. b \in Seq(S) /\ n \in Nat /\ n <= Len(b)
        BY <1>1, <3>2, ZenonT(40)
      <4> HIDE DEF S, b
      <4>2. SubSeq(b, 1, n) \in Seq(S)
        BY <4>1
      <4>3. QED
        BY <4>2, ZenonT(40) DEF S, b
    <3> HIDE DEF more
    <3>4. out \in Seq(Nat \X Nat)
      BY <1>2, <3>3
    <3>5. net' = [net EXCEPT ![c] = [net[c] EXCEPT !.outbox = out]]
      BY <1>2, <3>1, ZenonT(40) DEF NetType, more
    <3> HIDE DEF out
    <3>6. [net[c] EXCEPT !.outbox = out] \in Socket
      BY <1>2, <3>4, SocketUpdates, ZenonT(40)
    <3>7. NetType'
      BY <1>1, <1>2, <1>3, <3>5, <3>6, ZenonT(40) DEF NetType
    <3>8. n \in Int
      BY <3>2
    <3>9. QED
      BY <3>1, <3>7, <3>8, ZenonT(40)
  <2>2. CASE \E result \in {0, Failed} : Complete(e, result, NoBuffer, <<>>) /\ net' = net
    <3>1. PICK result \in {0, Failed} : Complete(e, result, NoBuffer, <<>>) /\ net' = net
      BY <2>2, ZenonT(40)
    <3>2. result \in Int
      BY DEF Failed
    <3>3. NetType'
      BY <1>2, <1>3, <3>1, ZenonT(40) DEF NetType
    <3>4. QED
      BY <3>1, <3>2, <3>3, ZenonT(40)
  <2>3. QED
    BY <2>1, <2>2, ZenonT(40) DEF CompleteWrite
<1>5. PICK result \in Int : Complete(e, result, NoBuffer, <<>>) /\ NetType'
  BY <1>4, ZenonT(40)
<1> DEFINE cqe == Completed(e.token, result, NoBuffer, <<>>)
<1>6. <<>> \in Seq(Nat)
  OBVIOUS
<1>7. cqe \in Cqes /\ cqe.token = e.token /\ cqe.result = result /\ cqe.bid = NoBuffer
  BY <1>1, <1>6, ZenonT(40) DEF Completed, Cqes
<1>8. inflight' = inflight \ {e} /\ completions' = Append(completions, cqe)
  BY <1>5, ZenonT(40) DEF Complete
<1> HIDE DEF cqe
<1>9. Posted(e, cqe)
  BY <1>3, <1>7, <1>8, ZenonT(40) DEF Posted
<1>10. ASSUME loop.phase # "failed" PROVE Reports(cqe, ops[e.token])
  <2>1. ops[e.token].type = "Write"
    BY <1>1, <1>10, ZenonT(40) DEF Carries
  <2>2. QED
    BY <1>7, <2>1, ZenonT(40) DEF Reports
<1>11. QED
  BY <1>5, <1>9, <1>10, PostedKeeps, ZenonT(40)

\* The kernel.
LEMMA KernelKeeps ==
  ASSUME UringInv, Kernel
  PROVE  UringInv'
  BY CompleteAcceptKeeps, CompleteReadKeeps, CompleteReadWithoutKeeps, CompleteWriteKeeps, ZenonT(40)
     DEF Kernel

\* Nothing.
LEMMA StutterKeeps ==
  ASSUME UringInv, UNCHANGED vars
  PROVE  UringInv'
<1>1. /\ connections' = connections /\ vacant' = vacant /\ loop' = loop /\ net' = net
      /\ backlog' = backlog
      /\ ops' = ops /\ spare' = spare /\ free_list' = free_list /\ provided' = provided
      /\ completions' = completions /\ submissions' = submissions /\ inflight' = inflight
  BY ZenonT(40) DEF vars, worker
<1>2. QED
  BY <1>1, ZenonT(40) DEF UringInv, Shape, Flow, Current, NetType

-----------------------------------------------------------------------------
(* The initial state.                                                      *)

\* The powers of two that next_power_of_two chooses from.
LEMMA PowerNat ==
  ASSUME NEW i \in 0 .. 16
  PROVE  2^i \in Nat
<1>1. \/ i = 0 \/ i = 1 \/ i = 2 \/ i = 3 \/ i = 4 \/ i = 5 \/ i = 6 \/ i = 7 \/ i = 8
      \/ i = 9 \/ i = 10 \/ i = 11 \/ i = 12 \/ i = 13 \/ i = 14 \/ i = 15 \/ i = 16
  OBVIOUS
<1>2. /\ 2^0 \in Nat /\ 2^1 \in Nat /\ 2^2 \in Nat /\ 2^3 \in Nat /\ 2^4 \in Nat
      /\ 2^5 \in Nat /\ 2^6 \in Nat /\ 2^7 \in Nat /\ 2^8 \in Nat /\ 2^9 \in Nat
      /\ 2^10 \in Nat /\ 2^11 \in Nat /\ 2^12 \in Nat /\ 2^13 \in Nat /\ 2^14 \in Nat
      /\ 2^15 \in Nat /\ 2^16 \in Nat
  OBVIOUS
<1>3. QED
  BY <1>1, <1>2, ZenonT(40)

\* The number of provided buffers, whatever wraps.
LEMMA RingEntriesNat == ring_entries \in Nat
<1> DEFINE n == MaxConnections % 2^16
           S == {p \in {2^i : i \in 0 .. 16} : p >= n}
<1>1. 2^16 = 65536
  OBVIOUS
<1>2. n \in Nat /\ n <= 65536
  BY <1>1, UringAssumption
<1>3. \A i \in 0 .. 16 : 2^i \in Nat
  BY PowerNat, ZenonT(40)
<1> HIDE DEF n
<1>4. S \in SUBSET Nat /\ 2^16 \in S
  <2>1. 2^16 >= n
    BY <1>1, <1>2
  <2>2. 16 \in 0 .. 16
    OBVIOUS
  <2>3. QED
    BY <1>3, <2>1, <2>2, ZenonT(40)
<1>5. \E x \in S : \A y \in S : x <= y
  <2> HIDE DEF S
  <2>1. QED
    BY <1>4, LeastNumber, ZenonT(40)
<1>6. Min(S) \in Nat
  <2> HIDE DEF S
  <2>1. QED
    BY <1>4, <1>5, ZenonT(40) DEF Min
<1>7. next_power_of_two(n) = Min(S) % 2^16
  BY DEF next_power_of_two
<1> HIDE DEF S
<1>8. next_power_of_two(n) \in Nat
  BY <1>1, <1>6, <1>7
<1>9. QED
  BY <1>8, MinOfTwo, UringAssumption DEF ring_entries, n

\* The initial state.
LEMMA InitKeeps ==
  ASSUME Init
  PROVE  UringInv
<1> DEFINE e == Entry(0, "accept", Listener, <<>>)
<1>1. MaxConnections \in Nat \ {0} /\ RingSize \in Nat \ {0} /\ PoolCap \in Nat
  BY UringAssumption, ZenonT(40)
<1>2. 0 \in Tokens /\ Cardinality(Tokens) = 2 * MaxConnections + 1
  BY <1>1, FS_Interval DEF Tokens
<1>3. Slots(connections, vacant, Ids, Lives)
  <2>1. NewSlab(MaxConnections) \in Stack(Nat) /\ Range(NewSlab(MaxConnections)) = Ids
    BY <1>1, StackSlab, ZenonT(40) DEF Ids
  <2>3. connections = <<>> /\ vacant = NewSlab(MaxConnections)
    BY ZenonT(40) DEF Init
  <2>4. DOMAIN connections = {}
    BY <2>3
  <2>5. QED
    BY <2>1, <2>3, <2>4, ZenonT(40) DEF Slots
<1>4. Slots(ops, spare, Tokens, OpTypes)
  <2> DEFINE n == 2 * MaxConnections + 1
             s == NewSlab(n)
  <2>1. n \in Nat \ {0} /\ 0 .. n - 1 = Tokens
    BY <1>1 DEF Tokens
  <2>2. spare = AfterAlloc(s, 1)
    BY <1>2, ZenonT(40) DEF Init
  <2> HIDE DEF n
  <2>4. /\ s \in Stack(Nat) /\ Range(s) = Tokens
        /\ CanAlloc(s, 1) /\ AllocMany(s, 1)[1] = 0
    BY <2>1, StackSlab
  <2> HIDE DEF s
  <2>6. spare \in Stack(Nat) /\ Range(spare) = Tokens \ {0}
    BY <2>2, <2>4, StackPop, ZenonT(40)
  <2>7. DOMAIN ops = {0} /\ ops[0] = AcceptOp
    BY ZenonT(40) DEF Init
  <2>8. AcceptOp \in OpTypes
    BY OpFields, ZenonT(40)
  <2>9. QED
    BY <1>2, <2>6, <2>7, <2>8, ZenonT(40) DEF Slots
<1>5. e \in Entries /\ e.token = 0 /\ e.kind = "accept"
  BY <1>2, ZenonT(40) DEF Entry, Entries
<1>6. free_list \in Seq(Nat)
  <2>1. write_pool_size \in Nat
    BY <1>1, MinOfTwo DEF write_pool_size
  <2>2. NewPool(write_pool_size) \in Stack(Nat)
    BY <2>1, StackNew, ZenonT(40)
  <2>3. QED
    BY <2>2, ZenonT(40) DEF Init, Stack
<1>7. submissions = <<e>> /\ inflight = {} /\ completions = <<>>
  BY ZenonT(40) DEF Init
<1> HIDE DEF e
<1>8. submissions \in Seq(Entries) /\ Len(submissions) <= RingSize /\ DOMAIN submissions = {1}
      /\ submissions[1] = e /\ completions \in Seq(Cqes) /\ DOMAIN completions = {}
  BY <1>1, <1>5, <1>7
<1>9. loop \in [phase : {"handling", "waiting", "failed"}, processed : Nat]
  BY ZenonT(40) DEF Init
<1>10. Shape
  BY <1>3, <1>4, <1>6, <1>7, <1>8, <1>9, ZenonT(40) DEF Shape
<1>11. DOMAIN ops = {0} /\ ops[0] = AcceptOp /\ DOMAIN connections = {} /\ AcceptOp.type = "Accept"
  BY OpFields DEF Init
<1>12. Queues(submissions, inflight, completions, DOMAIN ops)
  BY <1>5, <1>7, <1>8, <1>11, ZenonT(40) DEF Queues, Apart, ApartSet, Queued, Held
<1>13. Roles(ops, connections)
  BY <1>11, ZenonT(40) DEF Roles, Serves
<1>14. Links(submissions, inflight, completions, ops, connections)
  BY <1>5, <1>7, <1>8, <1>11, ZenonT(40) DEF Links, Carries
<1>15. RingOnce(provided, completions, 0 .. ring_entries - 1)
  <2>1. provided \in Stack(Nat) /\ Range(provided) = 0 .. ring_entries - 1
    BY RingEntriesNat, StackNew, ZenonT(40) DEF Init
  <2>2. LentOnce(completions) /\ \A x : ~ Lent(completions, x)
    BY <1>8, ZenonT(40) DEF LentOnce, Lent
  <2>3. QED
    BY <2>1, <2>2, ZenonT(40) DEF RingOnce
<1>16. NetType
  <2>1. <<>> \in Seq(Clients) /\ <<>> \in Seq(Nat) /\ <<>> \in Seq(Nat \X Nat)
    OBVIOUS
  <2>2. NewSocket \in Socket
    BY <2>1, ZenonT(40) DEF NewSocket, Socket
  <2>3. QED
    BY <2>1, <2>2, ZenonT(40) DEF Init, InitNet, NetType
<1>17. QED
  BY <1>10, <1>12, <1>13, <1>14, <1>15, <1>16, ZenonT(40) DEF UringInv, Flow, Current

=============================================================================
