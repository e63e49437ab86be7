---------------------------- MODULE UringProofs -----------------------------
(***************************************************************************)
(* The io_uring worker never confuses two operations, two connections or   *)
(* two buffers, for every number of clients, every script and every size   *)
(* of its slabs and queues.                                                *)
(***************************************************************************)
EXTENDS UringStepProofs, UringKeepProofs

\* A leaf that names no prover is for the SMT solver, then for Zenon, then for the
\* SMT solver again.
USE SMTT(25), ZenonT(25), SMTT(26), SMTT(27), SMTT(28)

-----------------------------------------------------------------------------
(* The invariant.                                                          *)

\* A turn of the inner loop.
LEMMA HandleKeeps ==
  ASSUME UringInv, HandleCompletion
  PROVE  UringInv'
<1> DEFINE cqe == Head(completions)
           t == cqe.token
<1>1. Turn(cqe, t)
  BY HandleIs, ZenonT(40)
<1>2. Kit' /\ Flow'
  <2> HIDE DEF cqe, t
  <2>1. cqe = Head(completions) /\ t = cqe.token
    BY ZenonT(40) DEF cqe, t
  <2>2. CASE ops[t].type = "Accept" /\ Rearms(t)
    BY <1>1, <2>1, <2>2, RearmKeeps, ZenonT(40)
  <2>3. CASE ops[t].type = "Accept" /\ \E c \in Clients : Admits(t, c)
    BY <1>1, <2>1, <2>3, AdmitKeeps, ZenonT(40)
  <2>4. CASE ops[t].type # "Accept" /\ ops[t].conn_id \in DOMAIN connections
             /\ Closes(t, ops[t].conn_id)
    BY <1>1, <2>1, <2>4, CloseKeeps, ZenonT(40)
  <2>5. CASE ops[t].type # "Accept" /\ ops[t].conn_id \in DOMAIN connections
             /\ GoesOn(t, ops[t].conn_id)
    BY <1>1, <2>1, <2>5, GoesOnKeeps, ZenonT(40)
  <2>6. QED
    BY <1>1, <2>2, <2>3, <2>4, <2>5, ZenonT(40) DEF Turn
<1>3. /\ completions \in Seq(Cqes) /\ completions # <<>> /\ completions' = Tail(completions)
      /\ inflight \subseteq Entries /\ inflight' = inflight /\ backlog' = backlog
      /\ backlog \in Seq(Clients) /\ net' \in [Clients -> Socket] /\ IsPool(free_list')
      /\ loop' \in [phase : {"handling", "failed"}, processed : Nat]
      /\ provided' = IF cqe.bid = NoBuffer THEN provided ELSE Append(provided, cqe.bid)
      /\ RingOnce(provided, completions, 0 .. ring_entries - 1)
  BY <1>1, ZenonT(40) DEF Turn, UringInv, Shape, NetType
<1>4. RingOnce(provided', completions', 0 .. ring_entries - 1)
  BY <1>3, RingTake, ZenonT(40)
<1>5. completions' \in Seq(Cqes)
  BY <1>3
<1>6. Shape'
  BY <1>2, <1>3, <1>5, ZenonT(40) DEF Shape, Kit, IsPool
<1>7. NetType'
  BY <1>3, ZenonT(40) DEF NetType
<1>8. QED
  BY <1>2, <1>4, <1>6, <1>7, ZenonT(40) DEF UringInv

\* The inductive invariant.
LEMMA Invariant == Spec => []UringInv
<1>1. Init => UringInv
  BY InitKeeps, ZenonT(40)
<1>2. UringInv /\ [Next]_vars => UringInv'
  BY ClientKeeps, KernelKeeps, HandleKeeps, SubmitKeeps, WakeKeeps, StutterKeeps, ZenonT(40) DEF Next
<1>3. QED
  BY <1>1, <1>2, PTL DEF Spec

\* The slabs and the queues hold what they are meant to hold, and what
\* handle_read accumulates never exceeds a buffer, whatever is sent.
THEOREM TypeCorrect == Spec => []TypeOK
<1>1. UringInv => TypeOK
  <2>1. SUFFICES ASSUME UringInv PROVE TypeOK
    BY ZenonT(40)
  <2>2. NetType /\ Shape
    BY <2>1, ZenonT(40) DEF UringInv
  <2>3. Slots(connections, vacant, Ids, Lives) /\ Slots(ops, spare, Tokens, OpTypes)
    BY <2>2, ZenonT(40) DEF Shape
  <2>4. /\ DOMAIN connections \subseteq Ids
        /\ IsInjective(vacant) /\ Range(vacant) = Ids \ DOMAIN connections
        /\ IsInjective(spare) /\ Range(spare) = Tokens \ DOMAIN ops
        /\ \A id \in DOMAIN connections : connections[id] \in Lives
    BY <2>3, ZenonT(40) DEF Slots, Stack
  <2>5. \A conn \in Lives :
          conn \in Connection /\ Len(conn.input) <= BufferSize /\ conn.written <= Len(conn.out)
    BY ZenonT(40) DEF Lives, Live
  <2>6. Len(submissions) <= RingSize /\ loop.processed \in Nat
    BY <2>2, ZenonT(40) DEF Shape
  <2>7. QED
    BY <2>2, <2>4, <2>5, <2>6, ZenonT(40) DEF TypeOK, Occupied, NetType
<1>2. QED
  BY <1>1, Invariant, PTL

\* The tokens of the entries of a queue.
LEMMA QueuedIs ==
  ASSUME NEW T, NEW q \in Seq(T), NEW t
  PROVE  Queued(q, t) <=> t \in {e.token : e \in Range(q)}
<1>1. \A x : x \in Range(q) <=> \E i \in DOMAIN q : q[i] = x
  BY ZenonT(40) DEF Range
<1>2. QED
  BY <1>1, ZenonT(40) DEF Queued

\* A completion that the worker handles is that of the operation its token was
\* allocated for, and the connection of that operation is the one that the
\* operation was submitted for: neither TokenAllocator nor ConnectionRegistry
\* gives a key out again while an operation of the ring can still name it.
THEOREM TokensCorrect == Spec => []TokensCurrent
<1>1. UringInv => TokensCurrent
  <2>1. SUFFICES ASSUME UringInv, loop.phase # "failed" PROVE TokensCurrent
    BY ZenonT(40) DEF TokensCurrent
  <2>2. Shape /\ Current
    BY <2>1, ZenonT(40) DEF UringInv, Flow
  <2>3. Queues(submissions, inflight, completions, DOMAIN ops) /\ Roles(ops, connections)
        /\ Links(submissions, inflight, completions, ops, connections)
    BY <2>2, ZenonT(40) DEF Current
  <2>4. submissions \in Seq(Entries) /\ completions \in Seq(Cqes)
    BY <2>2, ZenonT(40) DEF Shape
  <2>5. IsInjective([i \in DOMAIN submissions |-> submissions[i].token])
    BY <2>3, ZenonT(40) DEF Queues, Apart, IsInjective
  <2>6. IsInjective([i \in DOMAIN completions |-> completions[i].token])
    BY <2>3, ZenonT(40) DEF Queues, Apart, IsInjective
  <2>7. \A e, f \in inflight : e.token = f.token => e = f
    BY <2>3, ZenonT(40) DEF Queues, ApartSet
  <2>8. \A t : /\ t \in Submitted <=> Queued(submissions, t)
               /\ t \in Answers <=> Queued(completions, t)
               /\ t \in Working <=> Held(inflight, t)
    BY <2>4, QueuedIs, ZenonT(40) DEF Submitted, Answers, Working, Held
  <2>9. /\ Submitted \cap Working = {} /\ Submitted \cap Answers = {} /\ Working \cap Answers = {}
        /\ Submitted \cup Working \cup Answers = DOMAIN ops
    BY <2>3, <2>8, ZenonT(40) DEF Queues
  <2>10. \E t \in DOMAIN ops : \A u \in DOMAIN ops : ops[u].type = "Accept" <=> u = t
    BY <2>3, ZenonT(40) DEF Roles
  <2>11. \A id \in Occupied : \E t \in DOMAIN ops : \A u \in DOMAIN ops :
           (ops[u].type # "Accept" /\ ops[u].conn_id = id) <=> u = t
    BY <2>3 DEF Roles, Occupied
  <2>12. ASSUME NEW e \in Pending, e.kind # "accept"
         PROVE  /\ ops[e.token].conn_id \in Occupied
                /\ connections[ops[e.token].conn_id].client = e.client
    <3>1. e \in inflight \/ \E i \in DOMAIN submissions : submissions[i] = e
      BY <2>4, ZenonT(40) DEF Pending, Range
    <3>2. Carries(e, ops[e.token], connections)
      BY <3>1, <2>3, ZenonT(40) DEF Links
    <3>3. e.token \in DOMAIN ops
      BY <3>1, <2>3, ZenonT(40) DEF Queues, Queued, Held
    <3>4. ops[e.token].type # "Accept" /\ connections[ops[e.token].conn_id].client = e.client
      BY <3>2, <2>12, ZenonT(40) DEF Carries
    <3>5. QED
      BY <3>3, <3>4, <2>3, ZenonT(40) DEF Roles, Serves, Occupied
  <2>13. QED
    BY <2>5, <2>6, <2>7, <2>9, <2>10, <2>11, <2>12, ZenonT(40) DEF TokensCurrent
<1>2. QED
  BY <1>1, Invariant, PTL

\* handle_read recycles the provided buffer of a completion on every path, and
\* the ring never offers the kernel a buffer that is still being read from.
THEOREM ProvidedBuffers == Spec => []ProvidedOnce
<1>1. UringInv => ProvidedOnce
  <2>1. SUFFICES ASSUME UringInv PROVE ProvidedOnce
    BY ZenonT(40)
  <2> DEFINE H == [i \in {i \in DOMAIN completions : completions[i].bid # NoBuffer} |->
                     <<completions[i].bid>>]
  <2>2. RingOnce(provided, completions, 0 .. ring_entries - 1) /\ provided \in Seq(Nat)
    BY <2>1, ZenonT(40) DEF UringInv, RingOnce, Stack
  <2>3. Partitioned(provided, H, ring_entries)
    BY <2>2, RingOnceIs, ZenonT(40)
  <2>4. QED
    BY <2>3, ZenonT(40) DEF ProvidedOnce
<1>2. QED
  BY <1>1, Invariant, PTL

-----------------------------------------------------------------------------
(* The worker never stops by itself: the submission queue has room for all *)
(* that a batch submits.                                                   *)

\* An accept is waiting to be submitted.
Arming == \E i \in DOMAIN submissions : submissions[i].kind = "accept"

\* Every completion of the batch has led to one submission at most, except that of
\* an accept, of which there is one in a batch: it led to two.
QueueBounded ==
  /\ loop.phase # "failed" /\ loop.processed <= BatchSize
  /\ loop.phase = "waiting" => submissions = <<>> /\ loop.processed = 0
  /\ Len(submissions) <= loop.processed + 1
  /\ Arming \/ Len(submissions) <= loop.processed

\* The accept that completed is not one that is to be submitted.
LEMMA NotArming ==
  ASSUME UringInv, loop.phase # "failed", completions # <<>>,
         ops[Head(completions).token].type = "Accept"
  PROVE  ~ Arming
<1> DEFINE t == Head(completions).token
<1>1. /\ Queues(submissions, inflight, completions, DOMAIN ops) /\ Roles(ops, connections)
      /\ Links(submissions, inflight, completions, ops, connections)
      /\ completions \in Seq(Cqes)
  BY ZenonT(40) DEF UringInv, Flow, Current, Shape
<1>2. 1 \in DOMAIN completions /\ completions[1].token = t
  BY <1>1, TailIs, ZenonT(40)
<1>3. Queued(completions, t) /\ t \in DOMAIN ops
  BY <1>1, <1>2, ZenonT(40) DEF Queues, Queued
<1> HIDE DEF t
<1>4. SUFFICES ASSUME NEW i \in DOMAIN submissions, submissions[i].kind = "accept"
               PROVE  FALSE
  BY ZenonT(40) DEF Arming
<1> DEFINE u == submissions[i].token
<1>5. Queued(submissions, u) /\ u \in DOMAIN ops
  BY <1>1, ZenonT(40) DEF Queues, Queued
<1>6. Carries(submissions[i], ops[u], connections)
  BY <1>1, ZenonT(40) DEF Links
<1> HIDE DEF u
<1>7. ops[u].type = "Accept"
  BY <1>4, <1>6, ZenonT(40) DEF Carries
<1>8. u = t
  BY <1>1, <1>3, <1>5, <1>7, ZenonT(40) DEF Roles, t
<1>9. QED
  BY <1>1, <1>3, <1>5, <1>8, ZenonT(40) DEF Queues

\* An entry is appended to the submission queue.
LEMMA LengthAppend ==
  ASSUME NEW q \in Seq(Entries), NEW e, NEW r, r = Append(q, e)
  PROVE  /\ Len(q) \in Nat /\ Len(r) = Len(q) + 1
         /\ (\E i \in DOMAIN q : q[i].kind = "accept") => \E i \in DOMAIN r : r[i].kind = "accept"
         /\ e.kind = "accept" => \E i \in DOMAIN r : r[i].kind = "accept"
<1>1. DOMAIN q = 1 .. Len(q) /\ DOMAIN r = 1 .. Len(q) + 1 /\ Len(q) \in Nat
  OBVIOUS
<1>2. r[Len(q) + 1] = e /\ \A i \in DOMAIN q : r[i] = q[i]
  OBVIOUS
<1>3. DOMAIN q \subseteq DOMAIN r /\ Len(q) + 1 \in DOMAIN r
  BY <1>1
<1>4. Len(r) = Len(q) + 1
  OBVIOUS
<1>5. QED
  BY <1>1, <1>2, <1>3, <1>4, ZenonT(40)

\* A turn of the inner loop.
LEMMA HandleBounded ==
  ASSUME BatchSize < RingSize, UringInv, QueueBounded, HandleCompletion
  PROVE  QueueBounded'
<1> DEFINE cqe == Head(completions)
           t == cqe.token
           n == Len(submissions)
           k == loop.processed
<1>1. Turn(cqe, t)
  BY HandleIs, ZenonT(40)
<1>2. /\ loop.phase = "handling" /\ completions # <<>>
      /\ loop'.processed = k + 1 /\ k < BatchSize
      /\ \/ ops[t].type = "Accept" /\ (Rearms(t) \/ \E c \in Clients : Admits(t, c))
         \/ Closes(t, ops[t].conn_id) \/ GoesOn(t, ops[t].conn_id)
  BY <1>1, ZenonT(40) DEF Turn
<1>3. submissions \in Seq(Entries) /\ n \in Nat /\ k \in Nat
  BY DEF UringInv, Shape
<1>4. BatchSize \in Nat /\ RingSize \in Nat
  BY UringAssumption, ZenonT(40)
<1>5. n <= k + 1 /\ (Arming \/ n <= k)
  BY ZenonT(40) DEF QueueBounded
<1>6. SUFFICES /\ loop'.phase = "handling" /\ Len(submissions') <= k + 2
               /\ Arming' \/ Len(submissions') <= k + 1
  <2>1. k + 1 <= BatchSize /\ k + 1 + 1 = k + 2
    BY <1>2, <1>3, <1>4
  <2>2. QED
    BY <1>2, <1>6, <2>1, ZenonT(40) DEF QueueBounded
<1> HIDE DEF cqe, t
<1>7. CASE ops[t].type = "Accept" /\ (Rearms(t) \/ \E c \in Clients : Admits(t, c))
  <2>1. ~ Arming
    BY <1>2, <1>7, NotArming, ZenonT(40) DEF t, cqe
  <2>2. n <= k /\ n + 1 < RingSize /\ n < RingSize
    BY <1>2, <1>3, <1>4, <1>5, <2>1
  <2> DEFINE e == AcceptEntry(t)
             armed == Append(submissions, e)
  <2>3. e.kind = "accept"
    BY ZenonT(40) DEF AcceptEntry, Entry
  <2> HIDE DEF e
  <2>4. Len(armed) = n + 1 /\ \E i \in DOMAIN armed : armed[i].kind = "accept"
    <3>1. armed = Append(submissions, e)
      BY ZenonT(40)
    <3> HIDE DEF armed
    <3>2. QED
      BY ONLY <1>3, <2>3, <3>1, LengthAppend
  <2>5. CASE Rearms(t)
    <3>1. loop'.phase = "handling" /\ submissions' = armed
      BY <1>3, <1>4, <2>2, <2>5 DEF Rearms, Continues, Reused, Released, e
    <3>2. Len(submissions') = n + 1 /\ n + 1 <= k + 1 /\ n + 1 <= k + 2
      BY <1>3, <2>2, <2>4, <3>1
    <3>3. QED
      BY <3>1, <3>2, ZenonT(40)
  <2>6. CASE \E c \in Clients : Admits(t, c)
    <3>1. PICK c \in Clients : Admits(t, c)
      BY <2>6, ZenonT(40)
    <3>2. ~ (Len(armed) >= RingSize)
      BY <1>3, <1>4, <2>2, <2>4
    <3>3. PICK f : loop'.phase = "handling" /\ submissions' = Append(armed, f)
      BY <3>1, <3>2, ZenonT(40) DEF Admits, e
    <3>4. armed \in Seq(Entries)
      <4>1. e \in Entries
        <5>1. t \in Tokens
          BY <1>1, ZenonT(40) DEF Turn
        <5>2. QED
          BY <5>1, ZenonT(40) DEF e, AcceptEntry, Entry, Entries
      <4>2. QED
        BY <1>3, <4>1
    <3> HIDE DEF armed
    <3>5. /\ Len(submissions') = Len(armed) + 1
          /\ \E i \in DOMAIN submissions' : submissions'[i].kind = "accept"
      BY <2>4, <3>3, <3>4, LengthAppend
    <3>6. Arming' /\ Len(submissions') <= k + 2
      BY <1>3, <2>2, <2>4, <3>5 DEF Arming
    <3>7. QED
      BY <3>3, <3>6, ZenonT(40)
  <2>7. QED
    BY <1>7, <2>5, <2>6, ZenonT(40)
<1>8. CASE Closes(t, ops[t].conn_id)
  <2>1. loop'.phase = "handling" /\ submissions' = submissions
    BY <1>8, ZenonT(40) DEF Closes, Released
  <2>2. n <= k + 2 /\ n <= k + 1
    BY <1>3, <1>5
  <2>3. QED
    BY <2>1, <2>2, ZenonT(40)
<1>9. CASE GoesOn(t, ops[t].conn_id)
  <2>1. n < RingSize /\ ~ (n >= RingSize)
    BY <1>2, <1>3, <1>4, <1>5
  <2>2. PICK op, e : Continues(t, op, e)
    BY <1>9, ZenonT(40) DEF GoesOn
  <2>3. loop'.phase = "handling" /\ submissions' = Append(submissions, e)
    BY <2>1, <2>2, ZenonT(40) DEF Continues, Reused
  <2>4. Len(submissions') = n + 1 /\ (Arming => Arming')
    BY <1>3, <2>3, LengthAppend DEF Arming
  <2>5. n + 1 <= k + 2 /\ (n <= k => n + 1 <= k + 1)
    BY <1>3, <1>5
  <2>6. QED
    BY <1>5, <2>3, <2>4, <2>5, ZenonT(40)
<1>10. QED
  BY <1>2, <1>7, <1>8, <1>9, ZenonT(40)

\* The first batch has the accept that worker_loop submits.
LEMMA InitBounded ==
  ASSUME Init, ring_entries # 0
  PROVE  QueueBounded
<1> DEFINE e == Entry(0, "accept", Listener, <<>>)
<1>1. submissions = <<e>> /\ loop.phase = "handling" /\ loop.processed = 0
  BY ZenonT(40) DEF Init
<1>2. e.kind = "accept"
  BY ZenonT(40) DEF Entry
<1> HIDE DEF e
<1>3. Len(submissions) = 1 /\ 1 \in DOMAIN submissions /\ submissions[1] = e
  BY <1>1
<1>4. Arming
  BY <1>2, <1>3, ZenonT(40) DEF Arming
<1>5. QED
  BY <1>1, <1>3, <1>4, UringAssumption DEF QueueBounded

\* The other steps.
LEMMA OtherBounded ==
  ASSUME UringInv, QueueBounded,
         Client \/ Kernel \/ Submit \/ Wake \/ UNCHANGED vars
  PROVE  QueueBounded'
<1>1. CASE submissions' = submissions /\ loop' = loop
  BY <1>1, ZenonT(40) DEF QueueBounded, Arming
<1>2. CASE Submit
  <2>1. submissions' = <<>> /\ loop' = [phase |-> "waiting", processed |-> 0]
    BY <1>2, ZenonT(40) DEF Submit
  <2>2. loop'.phase = "waiting" /\ loop'.processed = 0 /\ Len(submissions') = 0
    BY <2>1, ZenonT(40)
  <2>3. QED
    BY <2>1, <2>2, UringAssumption DEF QueueBounded
<1>3. CASE Wake
  <2>1. /\ submissions' = submissions /\ loop' = [loop EXCEPT !.phase = "handling"]
        /\ loop \in [phase : {"handling", "waiting", "failed"}, processed : Nat]
    BY <1>3, ZenonT(40) DEF Wake, UringInv, Shape
  <2>2. loop'.phase = "handling" /\ loop'.processed = loop.processed
    BY <2>1, ZenonT(40)
  <2>3. QED
    BY <2>1, <2>2, ZenonT(40) DEF QueueBounded, Arming
<1>4. QED
  BY <1>1, <1>2, <1>3, ZenonT(40) DEF Client, Kernel, worker, vars

\* With a submission queue longer than a batch, and with provided buffers, the
\* worker never fails to submit and no handler misses its connection, so that
\* worker_loop does not return.
THEOREM WorkerSafe ==
  ASSUME BatchSize < RingSize, ring_entries # 0
  PROVE  Spec => []WorkerRuns
<1>1. Init => UringInv /\ QueueBounded
  BY InitKeeps, InitBounded, ZenonT(40)
<1>2. (UringInv /\ QueueBounded) /\ [Next]_vars => (UringInv /\ QueueBounded)'
  <2>1. UringInv /\ [Next]_vars => UringInv'
    BY ClientKeeps, KernelKeeps, HandleKeeps, SubmitKeeps, WakeKeeps, StutterKeeps, ZenonT(40) DEF Next
  <2>2. UringInv /\ QueueBounded /\ [Next]_vars => QueueBounded'
    BY HandleBounded, OtherBounded, ZenonT(40) DEF Next
  <2>3. QED
    BY <2>1, <2>2, ZenonT(40)
<1>3. QueueBounded => WorkerRuns
  BY ZenonT(40) DEF QueueBounded, WorkerRuns
<1>4. QED
  BY <1>1, <1>2, <1>3, PTL DEF Spec

-----------------------------------------------------------------------------
(* There is a provided buffer for every read that has data.                *)

\* If the ring were empty, every buffer would be with the completion of a read of
\* another connection than the one that waits: too few are open for that.
LEMMA RingHasBuffer ==
  ASSUME UringInv, loop.phase # "failed", Cardinality(Occupied) <= ring_entries,
         NEW e \in inflight, e.kind = "recv"
  PROVE  provided # <<>>
<1> DEFINE C == completions
           N == 0 .. ring_entries - 1
           k == ops[e.token].conn_id
<1>1. /\ Queues(submissions, inflight, C, DOMAIN ops) /\ Roles(ops, connections)
      /\ Links(submissions, inflight, C, ops, connections) /\ C \in Seq(Cqes)
      /\ DOMAIN connections \subseteq Ids /\ RingOnce(provided, C, N)
      /\ \A t \in DOMAIN ops : ops[t] \in OpTypes
  BY ZenonT(40) DEF UringInv, Flow, Current, Shape, Slots
<1>2. SUFFICES ASSUME provided = <<>> PROVE FALSE
  BY ZenonT(40)
<1>3. Range(provided) = {}
  BY <1>2 DEF Range
<1>4. \A x \in N : x # NoBuffer /\ \E i \in DOMAIN C : C[i].bid = x
  BY <1>1, <1>3, ZenonT(40) DEF RingOnce, Lent
<1>5. e.token \in DOMAIN ops /\ Held(inflight, e.token)
  BY <1>1, ZenonT(40) DEF Queues, Held
<1>6. ops[e.token].type = "Read"
  BY <1>1, ZenonT(40) DEF Links, Carries
<1>7. k \in Occupied
  BY <1>1, <1>5, <1>6, ZenonT(40) DEF Roles, Serves, Occupied
<1>8. ASSUME NEW i \in DOMAIN C, C[i].bid # NoBuffer
      PROVE  /\ C[i].token \in DOMAIN ops /\ ops[C[i].token].type = "Read"
             /\ ops[C[i].token].conn_id \in Occupied \ {k}
  <2>1. Queued(C, C[i].token) /\ C[i].token \in DOMAIN ops
    BY <1>1, ZenonT(40) DEF Queues, Queued
  <2>2. ops[C[i].token].type = "Read"
    BY <1>1, <1>8, ZenonT(40) DEF Links, Reports
  <2>3. ops[C[i].token].conn_id \in Occupied
    BY <1>1, <2>1, <2>2, ZenonT(40) DEF Roles, Serves, Occupied
  <2>4. C[i].token # e.token
    BY <1>1, <1>5, <2>1, ZenonT(40) DEF Queues
  <2>5. ops[C[i].token].conn_id # k
    BY <1>1, <1>5, <1>6, <2>1, <2>2, <2>4, ZenonT(40) DEF Roles
  <2>6. QED
    BY <2>1, <2>2, <2>3, <2>5, ZenonT(40)
<1> DEFINE at[x \in N] == CHOOSE i \in DOMAIN C : C[i].bid = x
           f == [x \in N |-> ops[C[at[x]].token].conn_id]
<1>9. \A x \in N : at[x] \in DOMAIN C /\ C[at[x]].bid = x /\ x # NoBuffer
  BY <1>4, ZenonT(40)
<1> HIDE DEF at, N, C, k
<1>10. f \in [N -> Occupied \ {k}]
  BY <1>8, <1>9, ZenonT(40)
<1>11. ASSUME NEW x \in N, NEW y \in N, f[x] = f[y] PROVE x = y
  <2>1. ops[C[at[x]].token].conn_id = ops[C[at[y]].token].conn_id
    BY <1>11, ZenonT(40)
  <2>2. C[at[x]].token = C[at[y]].token
    BY <1>1, <1>8, <1>9, <2>1 DEF Roles
  <2>3. at[x] = at[y]
    BY <1>1, <1>9, <2>2, ZenonT(40) DEF Queues, Apart
  <2>4. QED
    BY <1>9, <2>3, ZenonT(40)
<1> HIDE DEF f
<1>12. IsFiniteSet(N) /\ Cardinality(N) = ring_entries /\ ring_entries \in Nat
  <2>1. ring_entries \in Nat
    BY RingEntriesNat, ZenonT(40)
  <2>2. IsFiniteSet(0 .. ring_entries - 1) /\ Cardinality(0 .. ring_entries - 1) = ring_entries
    BY <2>1, FS_Interval
  <2>3. QED
    BY <2>1, <2>2, ZenonT(40) DEF N
<1>13. /\ IsFiniteSet(Occupied \ {k}) /\ Cardinality(Occupied) \in Nat
       /\ Cardinality(Occupied \ {k}) = Cardinality(Occupied) - 1
  <2>1. IsFiniteSet(Ids)
    BY UringAssumption, KeysFinite, ZenonT(40) DEF Ids
  <2>2. IsFiniteSet(Occupied)
    BY <1>1, <2>1, FS_Subset, ZenonT(40) DEF Occupied
  <2>3. Cardinality(Occupied) \in Nat
    BY <2>2, FS_CardinalityType, ZenonT(40)
  <2>4. QED
    BY <1>7, <2>2, <2>3, FS_RemoveElement, ZenonT(40)
<1>14. Cardinality(Occupied \ {k}) < Cardinality(N)
  BY <1>12, <1>13
<1>15. \E x, y \in N : x # y /\ f[x] = f[y]
  BY <1>10, <1>12, <1>13, <1>14, FS_PigeonHole
<1>16. QED
  BY <1>11, <1>15, ZenonT(40)

\* No read that has data ever finds the provided ring empty, however long the
\* completions wait, while no more connections are open than the ring has entries.
\* The server may accept more: the limit of the ring is not that of the registry.
THEOREM ReadsHaveBuffers ==
  ASSUME ring_entries # 0, BatchSize < RingSize
  PROVE  Spec => []ProvidedSuffice
<1>1. Spec => []WorkerRuns
  BY WorkerSafe, ZenonT(40)
<1>2. UringInv /\ WorkerRuns => ProvidedSuffice
  BY RingHasBuffer, ZenonT(40) DEF WorkerRuns, ProvidedSuffice
<1>3. QED
  BY <1>1, <1>2, Invariant, PTL

-----------------------------------------------------------------------------
(* The write pool, as long as no write fails.                              *)

\* A turn of the inner loop, with a completion that is not that of a failed write.
LEMMA HandleBooks ==
  ASSUME UringInv, WritesSucceed, BuffersAccounted, HandleCompletion
  PROVE  BuffersAccounted'
<1> DEFINE cqe == Head(completions)
           t == cqe.token
           op == ops[t]
           state == [connections |-> connections, vacant |-> vacant, ops |-> ops,
                     spare |-> spare, free_list |-> free_list, submissions |-> submissions,
                     provided |-> provided, net |-> net, ok |-> TRUE]
           w == free_token(state, t)
<1>1. loop.phase = "handling" /\ completions # <<>>
  BY ZenonT(40) DEF HandleCompletion
<1>2. /\ t \in DOMAIN ops /\ op \in OpTypes /\ Reports(cqe, op) /\ Serves(op, connections)
      /\ cqe.bytes \in Seq(Nat)
  BY <1>1, HeadIs, ZenonT(40)
<1>3. /\ free_list \in Seq(Nat) /\ net \in [Clients -> Socket]
      /\ \A id \in DOMAIN connections : Live(connections[id])
      /\ Slots(connections, vacant, Ids, Lives) /\ completions \in Seq(Cqes)
  BY ZenonT(40) DEF UringInv, Shape, NetType, Slots, Lives
<1>4. op.type = "Write" => cqe.result > 0
  <2>1. cqe \in Range(completions)
    BY <1>1, <1>3, TailIs, ZenonT(40) DEF Range
  <2>2. QED
    BY <1>2, <2>1, ZenonT(40) DEF WritesSucceed
<1>5. Given(w, t)
  BY GivenIs, ZenonT(40)
<1>6a. \E v \in IF t \in DOMAIN ops THEN Outcomes(w, cqe, op) ELSE {state} : Left(v)
  BY DEF HandleCompletion, Left
<1> HIDE DEF w, state
<1>6. PICK v \in Outcomes(w, cqe, op) : Left(v)
  BY <1>2, <1>6a, ZenonT(40)
<1>7. /\ IsState(w) /\ w.net = net /\ w.connections = connections /\ w.free_list = free_list
      /\ w.vacant = vacant
  BY <1>5, ZenonT(40) DEF Given
<1>8. Books(w.free_list, w.connections)
  BY <1>7, ZenonT(40) DEF BuffersAccounted, Books, Occupied
<1>9. SUFFICES Books(v.free_list, v.connections)
  BY <1>6, <1>9, ZenonT(40) DEF BuffersAccounted, Books, Occupied, Left
<1>10. CASE op.type = "Accept"
  <2>1. v = handle_accept(w, cqe.result)
    BY <1>6, <1>10, ZenonT(40) DEF Outcomes
  <2>2. cqe.result \in Clients \cup {Failed}
    BY <1>2, <1>10, ZenonT(40) DEF Reports
  <2>3. Accepted(w, v, cqe.result)
    <3>1. w.net \in [Clients -> Socket] /\ IsState(w)
      BY <1>3, <1>7, ZenonT(40)
    <3>2. QED
      BY <2>1, <2>2, <3>1, AcceptIs, ZenonT(40)
  <2>4. CASE v.connections = w.connections
    BY <1>8, <2>3, <2>4, ZenonT(40) DEF Accepted
  <2>5. CASE \E a : Admitted(w, a, v, cqe.result)
    <3> DEFINE id == AllocMany(vacant, 1)[1]
    <3>1. /\ ~ RegistryFull(w, MaxConnections)
          /\ v.connections = Occupy(w.connections, InsertedId(w), NewConnection(cqe.result))
      BY <2>5, ZenonT(40) DEF Admitted
    <3>2. InsertedId(w) = id
      BY <1>7, ZenonT(40) DEF InsertedId
    <3>3. DOMAIN connections \in SUBSET Ids
      BY <1>3, ZenonT(40) DEF Slots
    <3>4. Cardinality(DOMAIN connections) < MaxConnections
      BY <1>7, <3>1, <3>3, KeysFinite, UringAssumption DEF RegistryFull, Ids
    <3>5. CanAlloc(vacant, 1)
      BY <1>3, <3>4, SlotLeft, UringAssumption, ZenonT(40) DEF Ids
    <3>6. id \in Range(vacant)
      BY <1>3, <3>5, StackPop, ZenonT(40) DEF Slots
    <3>7. id \notin DOMAIN w.connections
      BY <1>3, <1>7, <3>6, ZenonT(40) DEF Slots
    <3> HIDE DEF id
    <3>8. QED
      BY <1>8, <2>3, <3>1, <3>2, <3>7, BooksNew, ZenonT(40) DEF Accepted
  <2>6. QED
    BY <2>3, <2>4, <2>5, ZenonT(40) DEF Accepted
<1>11. CASE op.type # "Accept"
  <2> DEFINE id == op.conn_id
  <2>1. id \in DOMAIN w.connections /\ Live(w.connections[id])
    BY <1>2, <1>3, <1>7, <1>11, ZenonT(40) DEF Serves
  <2>2. cqe.result \in Int
    BY <1>2, <1>11, ZenonT(40) DEF Reports
  <2>3. CASE op.type = "Write"
    <3>1. w.connections[id].phase = "writing" /\ w.connections[id].buf_idx = op.buf_idx
      BY <1>2, <1>7, <2>3, ZenonT(40) DEF Serves
    <3>2. v = handle_write(w, cqe, id, w.connections[id].buf_idx)
      BY <1>6, <2>3, <3>1, ZenonT(40) DEF Outcomes
    <3>3. QED
      BY <1>3, <1>4, <1>7, <1>8, <2>1, <2>2, <2>3, <3>1, <3>2, WriteBooks, ZenonT(40)
  <2>4. CASE op.type = "Read"
    <3>1. w.connections[id].phase = "reading"
      BY <1>2, <1>7, <2>4, ZenonT(40) DEF Serves
    <3>2. cqe.result > 0 => Len(cqe.bytes) = cqe.result
      BY <1>2, <2>4, ZenonT(40) DEF Reports
    <3>3. op = ReadOp(id)
      BY <1>2, <2>4, OpIs, ZenonT(40)
    <3>4. v \in Outcomes(w, cqe, ReadOp(id))
      BY <1>6, <3>3, ZenonT(40)
    <3>5. QED
      BY <1>2, <1>3, <1>7, <1>8, <2>1, <2>2, <3>1, <3>2, <3>4, ReadBooks, ZenonT(40)
  <2>5. QED
    BY <1>2, <1>11, <2>3, <2>4, OpIs, ZenonT(40)
<1>12. QED
  BY <1>10, <1>11, ZenonT(40)

\* All buffers are free at first.
LEMMA InitBooks ==
  ASSUME Init
  PROVE  BuffersAccounted
<1>1. write_pool_size \in Nat
  BY MinOfTwo, UringAssumption DEF write_pool_size
<1>2. free_list \in Stack(Nat) /\ Range(free_list) = 0 .. write_pool_size - 1
  BY <1>1, StackNew, ZenonT(40) DEF Init
<1>3. DOMAIN connections = {}
  BY DEF Init
<1>4. QED
  BY <1>2, <1>3, ZenonT(40) DEF BuffersAccounted, Partitioned, Occupied, Stack

\* As long as no write fails, every buffer of the write pool is free or belongs to
\* one connection, once, whatever clients send, and however requests, short
\* writes, closed connections and full pools follow each other.
THEOREM WriteBuffers == Spec /\ []WritesSucceed => []BuffersAccounted
<1>1. Init => BuffersAccounted
  BY InitBooks, ZenonT(40)
<1>2. UringInv /\ WritesSucceed /\ BuffersAccounted /\ [Next]_vars => BuffersAccounted'
  <2>1. ASSUME free_list' = free_list /\ connections' = connections, BuffersAccounted
        PROVE  BuffersAccounted'
    BY <2>1, ZenonT(40) DEF BuffersAccounted, Occupied
  <2>2. Client \/ Kernel \/ Submit \/ Wake \/ UNCHANGED vars =>
          free_list' = free_list /\ connections' = connections
    BY ZenonT(40) DEF Client, Kernel, Submit, Wake, worker, vars
  <2>3. QED
    BY <2>1, <2>2, HandleBooks, ZenonT(40) DEF Next
<1>3. QED
  BY <1>1, <1>2, Invariant, PTL DEF Spec

=============================================================================
