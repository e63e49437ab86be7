------------------------------ MODULE MioProofs ------------------------------
(***************************************************************************)
(* The worker of the mio event loop: its types, the fate of its buffers    *)
(* and that no readiness is lost, for every number of clients and          *)
(* connections, every script and every size of a buffer.                   *)
(***************************************************************************)
EXTENDS MioWorker, NetworkProofs

\* A leaf that names no prover is for the SMT solver, then for Zenon, then for the
\* SMT solver again.
USE SMTT(25), ZenonT(25), SMTT(26), SMTT(27), SMTT(28)

-----------------------------------------------------------------------------
(* The inductive invariant.                                                *)

\* A connection that is reading holds no write chain, and one that is writing no
\* read chain; a chain is there to be written.
Lives ==
  {conn \in MioConnection :
     /\ Len(conn.input) <= BufferSize /\ conn.written <= Len(conn.out)
     /\ conn.state = "reading" => conn.write_chain = <<>>
     /\ conn.state = "writing" => conn.read_chain = <<>>
     /\ conn.chained => Len(conn.out) > 0 /\ Len(conn.write_chain) > 0}

\* What a connection is registered for.
Awaits(conn) == IF conn.state = "reading" THEN "readable" ELSE "writable"

\* The registrations are those of the connections.
Registered ==
  /\ DOMAIN registry \subseteq Clients
  /\ \A id \in DOMAIN connections :
       /\ connections[id].client \in DOMAIN registry
       /\ registry[connections[id].client] = [token |-> id, interest |-> Awaits(connections[id])]
  /\ \A c \in DOMAIN registry :
       /\ net[c].server = "open" /\ registry[c].token \in DOMAIN connections
       /\ connections[registry[c].token].client = c

\* Who waits to be accepted waits once, and has no connection.
Waiting == IsInjective(backlog) /\ \A c \in Range(backlog) : net[c].server = "waiting"

\* A client is never sent more than its socket holds.
Roomy == \A c \in Clients : Len(net[c].outbox) <= SendBuffer

\* An event says what the registration says: there is one for a client at most.
EventsKnown ==
  \A e \in events : (e.client = Listener \/ e.client \in DOMAIN registry) /\ e = Event(e.client)

\* What has to be reported to a connection, given its socket.
Wakes(conn, s) ==
  IF conn.state = "reading" THEN s.inbox # <<>> /\ Len(conn.input) < BufferSize
  ELSE (SendBuffer - Len(s.outbox) > 0 \/ s.peer = "reset") /\ ~ (conn.chained /\ conn.written > 0)

Announced(c, reports, evs) == c \in reports \/ \E e \in evs : e.client = c

Awake ==
  \A id \in DOMAIN connections :
    Wakes(connections[id], net[connections[id].client])
      => Announced(connections[id].client, ready, events)

Books(f, conns) == Partitioned(f, [id \in DOMAIN conns |-> BuffersOf(conns[id])], pool_size)

Tables ==
  /\ Slots(connections, vacant, Ids, Lives) /\ free_list \in Stack(Nat)
  /\ ready \subseteq Clients \cup {Listener} /\ accepting \in BOOLEAN

MioInv ==
  /\ NetType /\ Tables /\ Registered /\ Waiting /\ Roomy /\ EventsKnown /\ Awake
  /\ Books(free_list, connections)

-----------------------------------------------------------------------------
(* A connection goes on, or is closed.                                     *)

\* The buffers of connection id become those of conn and the free list g.
Balanced(id, conn, g) ==
  /\ g \in Stack(Nat) /\ IsInjective(BuffersOf(conn))
  /\ \A x : ~ (x \in Range(BuffersOf(conn)) /\ x \in Range(g))
  /\ \A x : (x \in Range(BuffersOf(conn)) \/ x \in Range(g)) <=>
            (x \in Range(BuffersOf(connections[id])) \/ x \in Range(free_list))

\* An event is handled: the connection becomes conn and its socket s.
Goes(id, conn, s) ==
  /\ conn \in Lives /\ conn.client = connections[id].client
  /\ Changed(connections, connections', id, conn) /\ vacant' = vacant
  /\ s \in Socket /\ s.server = net[conn.client].server
  /\ net' = [net EXCEPT ![conn.client] = s]
  /\ s.outbox = net[conn.client].outbox \/ Len(s.outbox) <= SendBuffer
  /\ Changed(registry, registry', conn.client, [token |-> id, interest |-> Awaits(conn)])
  /\ ready \subseteq ready' /\ ready' \subseteq ready \cup {conn.client}
  /\ Wakes(conn, s) => conn.client \in ready'
  /\ Balanced(id, conn, free_list')

Closes(id) ==
  LET c == connections[id].client
  IN  /\ connections' = Restrict(connections, DOMAIN connections \ {id})
      /\ vacant' = FreeMany(vacant, <<id>>)
      /\ registry' = Restrict(registry, DOMAIN registry \ {c}) /\ ready' = ready \ {c}
      /\ net' = [net EXCEPT ![c].server = "closed", ![c].inbox = <<>>]
      /\ free_list' \in Stack(Nat)
      /\ \A x : x \in Range(free_list') <=>
                (x \in Range(BuffersOf(connections[id])) \/ x \in Range(free_list))

\* The event that is handled is the one for its connection.
Handled(e, id) ==
  /\ e \in events /\ id \in DOMAIN connections /\ e.client = connections[id].client
  /\ events' = events \ {e} /\ UNCHANGED <<backlog, accepting>>

\* Some facts about a connection.
LEMMA KnownIs ==
  ASSUME MioInv, NEW id \in DOMAIN connections
  PROVE  /\ id \in Ids /\ connections[id] \in Lives /\ connections[id].client \in Clients
         /\ connections[id].client \in DOMAIN registry
         /\ registry[connections[id].client] = [token |-> id, interest |-> Awaits(connections[id])]
         /\ net[connections[id].client] \in Socket
         /\ net[connections[id].client].server = "open"
         /\ \A i \in DOMAIN connections \ {id} : connections[i].client # connections[id].client
<1>1. id \in Ids /\ connections[id] \in Lives
  BY ZenonT(40) DEF MioInv, Tables, Slots
<1>2. connections[id].client \in Clients
  BY <1>1, ZenonT(40) DEF Lives, MioConnection
<1>3. \A i \in DOMAIN connections :
        /\ connections[i].client \in DOMAIN registry
        /\ registry[connections[i].client] = [token |-> i, interest |-> Awaits(connections[i])]
  BY ZenonT(40) DEF MioInv, Registered
<1>4. ASSUME NEW i \in DOMAIN connections PROVE registry[connections[i].client].token = i
  <2> DEFINE a == Awaits(connections[i])
             r == registry[connections[i].client]
  <2>1. r = [token |-> i, interest |-> a]
    BY <1>3, ZenonT(40)
  <2> HIDE DEF a, r
  <2>2. r.token = i
    BY <2>1, ZenonT(40)
  <2>3. QED
    BY <2>2, ZenonT(40) DEF r
<1>5. QED
  BY <1>1, <1>2, <1>3, <1>4, ZenonT(40) DEF MioInv, Registered, NetType

\* The slab and the books when a connection goes on.
LEMMA GoesTables ==
  ASSUME MioInv, NEW e, NEW id, Handled(e, id), NEW conn, NEW s, Goes(id, conn, s)
  PROVE  Tables' /\ Books(free_list, connections)' /\ NetType'
<1>1. id \in DOMAIN connections /\ connections[id].client \in Clients
  BY KnownIs, ZenonT(40) DEF Handled
<1>2. Slots(connections', vacant', Ids, Lives)
  <2>1. Slots(connections, vacant, Ids, Lives) /\ conn \in Lives /\ vacant' = vacant
        /\ Changed(connections, connections', id, conn)
    BY ZenonT(40) DEF MioInv, Tables, Goes
  <2> DEFINE f == connections
             g == connections'
             v == vacant
  <2>2. Slots(f, v, Ids, Lives) /\ id \in DOMAIN f /\ Changed(f, g, id, conn)
    BY <1>1, <2>1, ZenonT(40)
  <2> HIDE DEF f, g, v
  <2>3. Slots(g, v, Ids, Lives)
    BY ONLY <2>1, <2>2, SlotsChange
  <2>4. QED
    BY <2>1, <2>3, ZenonT(40) DEF g, v
<1>3. Tables'
  BY <1>1, <1>2, ZenonT(40) DEF Tables, MioInv, Goes, Balanced, Handled, Ids
<1>4. Books(free_list', connections')
  <2> DEFINE f == free_list
             g == free_list'
             H == [i \in DOMAIN connections |-> BuffersOf(connections[i])]
             K == [i \in DOMAIN connections' |-> BuffersOf(connections'[i])]
             own == BuffersOf(conn)
  <2>1. Partitioned(f, H, pool_size)
    BY ZenonT(40) DEF MioInv, Books
  <2>2. /\ DOMAIN K = DOMAIN H /\ id \in DOMAIN H /\ id \in DOMAIN K
        /\ K[id] = own /\ H[id] = BuffersOf(connections[id])
        /\ \A p \in DOMAIN H \ {id} : K[p] = H[p]
    BY <1>1, ZenonT(40) DEF Goes, Changed
  <2>3. /\ IsInjective(g) /\ IsInjective(own) /\ \A x : ~ (x \in Range(own) /\ x \in Range(g))
        /\ \A x : (x \in Range(own) \/ x \in Range(g)) <=>
                  (x \in Range(BuffersOf(connections[id])) \/ x \in Range(f))
    BY ZenonT(40) DEF Goes, Balanced, Stack
  <2> HIDE DEF f, g, H, K, own
  <2>4. /\ IsInjective(g) /\ IsInjective(K[id]) /\ Range(K[id]) \cap Range(g) = {}
        /\ Range(g) \cup (IF id \in DOMAIN K THEN Range(K[id]) ELSE {})
             = Range(f) \cup (IF id \in DOMAIN H THEN Range(H[id]) ELSE {})
    BY <2>2, <2>3, ZenonT(40)
  <2>5. Partitioned(g, K, pool_size)
    BY ONLY <2>1, <2>2, <2>4, PartitionMove
  <2>6. QED
    BY <2>5, ZenonT(40) DEF Books, g, K
<1>5. NetType'
  BY <1>1, ZenonT(40) DEF NetType, MioInv, Goes, Handled
<1>6. QED
  BY <1>3, <1>4, <1>5, ZenonT(40) DEF Books, pool_size

\* The registrations, the events and the readiness when a connection goes on.
LEMMA GoesKnown ==
  ASSUME MioInv, NEW e, NEW id, Handled(e, id), NEW conn, NEW s, Goes(id, conn, s)
  PROVE  Registered' /\ Waiting' /\ Roomy' /\ EventsKnown' /\ Awake'
<1> DEFINE c == connections[id].client
<1>1. /\ id \in DOMAIN connections /\ c \in Clients /\ c \in DOMAIN registry
      /\ net[c].server = "open" /\ conn.client = c
      /\ registry[c] = [token |-> id, interest |-> Awaits(connections[id])]
      /\ \A i \in DOMAIN connections \ {id} : connections[i].client # c
  BY KnownIs, ZenonT(40) DEF Handled, Goes
<1>2. /\ DOMAIN connections' = DOMAIN connections /\ connections'[id] = conn
      /\ \A i \in DOMAIN connections \ {id} : connections'[i] = connections[i]
      /\ DOMAIN registry' = DOMAIN registry
      /\ registry'[c] = [token |-> id, interest |-> Awaits(conn)]
      /\ \A d \in DOMAIN registry \ {c} : registry'[d] = registry[d]
  BY <1>1, ZenonT(40) DEF Goes, Changed
<1>3. /\ net'[c] = s /\ \A d \in Clients \ {c} : net'[d] = net[d]
      /\ s.server = "open" /\ \A d \in Clients : net'[d].server = net[d].server
  BY <1>1, ZenonT(40) DEF Goes, MioInv, NetType
<1>4. \A i \in DOMAIN connections \ {id} : connections[i].client \in Clients \ {c}
  BY <1>1, KnownIs, ZenonT(40)
<1> HIDE DEF c
<1>5. Registered'
  BY <1>1, <1>2, <1>3, <1>4 DEF Registered, MioInv
<1>6. Waiting'
  <2>1. Range(backlog) \subseteq Clients
    BY RangeIs, ZenonT(40) DEF MioInv, NetType
  <2>2. QED
    BY <1>3, <2>1, ZenonT(40) DEF Waiting, MioInv, Handled
<1>6a. Roomy'
  <2>1. Len(s.outbox) <= SendBuffer
    BY <1>1, ZenonT(40) DEF Goes, MioInv, Roomy
  <2>2. QED
    BY <1>3, <2>1, ZenonT(40) DEF Roomy, MioInv
<1>7. EventsKnown'
  <2>1. \A x \in events' : x.client # c
    BY ZenonT(40) DEF Handled, MioInv, EventsKnown, c
  <2>2. QED
    BY <1>2, <2>1 DEF EventsKnown, MioInv, Handled, Event
<1>8. Awake'
  <2>1. ASSUME NEW i \in DOMAIN connections, i # id, Wakes(connections'[i], net'[connections'[i].client])
        PROVE  Announced(connections'[i].client, ready', events')
    <3>1. Announced(connections[i].client, ready, events)
      BY <1>2, <1>3, <1>4, <2>1 DEF Awake, MioInv
    <3>2. connections[i].client # c /\ connections'[i] = connections[i]
      BY <1>2, <1>4, <2>1, ZenonT(40)
    <3>3. QED
      BY <3>1, <3>2, ZenonT(40) DEF Announced, Handled, Goes, c
  <2>2. Wakes(conn, s) => Announced(c, ready', events')
    BY <1>1, ZenonT(40) DEF Goes, Announced
  <2>3. QED
    BY <1>1, <1>2, <1>3, <2>1, <2>2, ZenonT(40) DEF Awake
<1>9. QED
  BY <1>5, <1>6, <1>6a, <1>7, <1>8, ZenonT(40)

\* An event is handled and the connection goes on.
LEMMA GoesKeeps ==
  ASSUME MioInv, NEW e, NEW id, Handled(e, id), NEW conn, NEW s, Goes(id, conn, s)
  PROVE  MioInv'
  BY GoesTables, GoesKnown, ZenonT(40) DEF MioInv

\* The slab and the books when a connection is closed.
LEMMA ClosesTables ==
  ASSUME MioInv, NEW e, NEW id, Handled(e, id), Closes(id)
  PROVE  Tables' /\ Books(free_list, connections)' /\ NetType'
<1> DEFINE c == connections[id].client
<1>1. id \in DOMAIN connections /\ c \in Clients /\ net[c] \in Socket
  BY KnownIs, ZenonT(40) DEF Handled
<1>2. Slots(connections', vacant', Ids, Lives)
  <2> DEFINE f == connections
             v == vacant
  <2>1. Slots(f, v, Ids, Lives) /\ id \in DOMAIN f /\ Ids \in SUBSET Nat
    BY <1>1, MioAssumption DEF MioInv, Tables, Ids
  <2> HIDE DEF f, v
  <2>2. Slots(Restrict(f, DOMAIN f \ {id}), FreeMany(v, <<id>>), Ids, Lives)
    BY ONLY <2>1, SlotsFree
  <2>3. QED
    BY <2>2, ZenonT(40) DEF f, v, Closes
<1>3. Tables'
  BY <1>1, <1>2, ZenonT(40) DEF Tables, MioInv, Closes, Handled, Ids
<1>4. Books(free_list', connections')
  <2> DEFINE f == free_list
             g == free_list'
             H == [i \in DOMAIN connections |-> BuffersOf(connections[i])]
             K == [i \in DOMAIN connections' |-> BuffersOf(connections'[i])]
             own == BuffersOf(connections[id])
  <2>1. Partitioned(f, H, pool_size)
    BY ZenonT(40) DEF MioInv, Books
  <2>2. /\ DOMAIN K \ {id} = DOMAIN H \ {id} /\ id \in DOMAIN H /\ id \notin DOMAIN K
        /\ H[id] = own /\ \A p \in DOMAIN H \ {id} : K[p] = H[p]
    BY <1>1, ZenonT(40) DEF Closes, Restrict
  <2>3. /\ IsInjective(g)
        /\ \A x : x \in Range(g) <=> (x \in Range(own) \/ x \in Range(f))
    BY ZenonT(40) DEF Closes, Stack
  <2> HIDE DEF f, g, H, K, own
  <2>4. Range(g) \cup (IF id \in DOMAIN K THEN Range(K[id]) ELSE {})
          = Range(f) \cup (IF id \in DOMAIN H THEN Range(H[id]) ELSE {})
    BY <2>2, <2>3, ZenonT(40)
  <2>5. Partitioned(g, K, pool_size)
    BY ONLY <2>1, <2>2, <2>3, <2>4, PartitionMove
  <2>6. QED
    BY <2>5, ZenonT(40) DEF Books, g, K
<1>5. NetType'
  <2>0. <<>> \in Seq(Nat)
    OBVIOUS
  <2>1. [net[c] EXCEPT !.server = "closed", !.inbox = <<>>] \in Socket
    BY <1>1, <2>0, SocketUpdates, ZenonT(40)
  <2>2. QED
    BY <1>1, <2>1, ZenonT(40) DEF NetType, MioInv, Closes, Handled
<1>6. QED
  BY <1>3, <1>4, <1>5, ZenonT(40) DEF Books, pool_size

\* The registrations, the events and the readiness when a connection is closed.
LEMMA ClosesKnown ==
  ASSUME MioInv, NEW e, NEW id, Handled(e, id), Closes(id)
  PROVE  Registered' /\ Waiting' /\ Roomy' /\ EventsKnown' /\ Awake'
<1> DEFINE c == connections[id].client
<1>1. /\ id \in DOMAIN connections /\ c \in Clients /\ c \in DOMAIN registry
      /\ net[c].server = "open" /\ registry[c].token = id
      /\ \A i \in DOMAIN connections \ {id} : connections[i].client # c
  <2> DEFINE a == Awaits(connections[id])
             r == registry[c]
  <2>1. r = [token |-> id, interest |-> a]
    BY KnownIs, ZenonT(40) DEF Handled
  <2> HIDE DEF a, r
  <2>2. r.token = id
    BY <2>1, ZenonT(40)
  <2>3. QED
    BY <2>2, KnownIs, ZenonT(40) DEF Handled, r
<1>2. /\ DOMAIN connections' = DOMAIN connections \ {id}
      /\ \A i \in DOMAIN connections \ {id} : connections'[i] = connections[i]
      /\ DOMAIN registry' = DOMAIN registry \ {c}
      /\ \A d \in DOMAIN registry \ {c} : registry'[d] = registry[d]
  BY <1>1, ZenonT(40) DEF Closes, Restrict
<1>3. \A d \in Clients \ {c} : net'[d] = net[d]
  BY <1>1, ZenonT(40) DEF Closes, MioInv, NetType
<1>4. \A i \in DOMAIN connections \ {id} : connections[i].client \in Clients \ {c}
  BY <1>1, KnownIs, ZenonT(40)
<1>5. Registered'
  <2>1. \A d \in DOMAIN registry \ {c} : registry[d].token # id
    BY <1>1, ZenonT(40) DEF Registered, MioInv
  <2> HIDE DEF c
  <2>2. QED
    BY <1>1, <1>2, <1>3, <1>4, <2>1 DEF Registered, MioInv
<1>6. Waiting'
  <2>1. Range(backlog) \subseteq Clients
    BY RangeIs, ZenonT(40) DEF MioInv, NetType
  <2>2. c \notin Range(backlog)
    BY <1>1, ZenonT(40) DEF MioInv, Waiting
  <2> HIDE DEF c
  <2>3. QED
    BY <1>3, <2>1, <2>2, ZenonT(40) DEF Waiting, MioInv, Handled
<1>6a. Roomy'
  <2>1. net'[c].outbox = net[c].outbox
    BY <1>1, ZenonT(40) DEF Closes, MioInv, NetType, Socket
  <2> HIDE DEF c
  <2>2. QED
    BY <1>1, <1>3, <2>1, ZenonT(40) DEF Roomy, MioInv
<1>7. EventsKnown'
  <2>1. \A x \in events' : x.client # c
    BY ZenonT(40) DEF Handled, MioInv, EventsKnown
  <2> HIDE DEF c
  <2>2. QED
    BY <1>2, <2>1, ZenonT(40) DEF EventsKnown, MioInv, Handled, Event
<1>8. Awake'
  <2>1. ASSUME NEW i \in DOMAIN connections, i # id, Wakes(connections'[i], net'[connections'[i].client])
        PROVE  Announced(connections'[i].client, ready', events')
    <3>1. Announced(connections[i].client, ready, events)
      BY <1>2, <1>3, <1>4, <2>1, ZenonT(40) DEF Awake, MioInv
    <3>2. connections[i].client # c /\ connections'[i] = connections[i]
      BY <1>2, <1>4, <2>1, ZenonT(40)
    <3>3. QED
      BY <3>1, <3>2, ZenonT(40) DEF Announced, Handled, Closes
  <2>2. QED
    BY <1>2, <2>1, ZenonT(40) DEF Awake
<1>9. QED
  BY <1>5, <1>6, <1>6a, <1>7, <1>8, ZenonT(40)

\* An event is handled and the connection is closed.
LEMMA ClosesKeeps ==
  ASSUME MioInv, NEW e, NEW id, Handled(e, id), Closes(id)
  PROVE  MioInv'
  BY ClosesTables, ClosesKnown, ZenonT(40) DEF MioInv

-----------------------------------------------------------------------------
(* What a write offers.                                                    *)

\* The bytes that a write offers: some at the start of a chain, and all that are
\* left of what is in the write buffer.
LEMMA OfferedIs ==
  ASSUME NEW conn \in Lives
  PROVE  /\ Offered(conn) \in Seq(Nat \X Nat)
         /\ conn.chained /\ conn.written = 0 => Offered(conn) # <<>>
         /\ ~ conn.chained => Len(Offered(conn)) = Len(conn.out) - conn.written
<1> DEFINE out == conn.out
           m == conn.written
           count == Len(conn.write_chain)
<1>1. /\ out \in Seq(Nat \X Nat) /\ Len(out) \in Nat /\ m \in 0 .. Len(out) /\ count \in Nat
      /\ conn.chained \in BOOLEAN /\ (conn.chained => Len(out) > 0 /\ count > 0)
  BY DEF Lives, MioConnection
<1>2. CASE conn.chained
  <2> DEFINE slots == IoSlices(count, Len(out), BufferSize, m)
             bytes == [i \in DOMAIN slots |-> IF slots[i] <= Len(out) THEN out[slots[i]] ELSE <<0, 0>>]
  <2>1. Offered(conn) = bytes
    BY <1>2, ZenonT(40) DEF Offered
  <2>2. slots \in Seq(Nat \ {0}) /\ (m = 0 => Len(slots) > 0)
    BY <1>1, <1>2, IoSlicesIs, ProcessingAssumption, ZenonT(40)
  <2> HIDE DEF out, m, count, slots
  <2>3. Len(slots) \in Nat /\ DOMAIN slots = 1 .. Len(slots)
        /\ \A i \in 1 .. Len(slots) : slots[i] \in Nat \ {0}
    BY <2>2
  <2>4. \A k \in Nat \ {0} : k <= Len(out) => out[k] \in Nat \X Nat
    BY <1>1
  <2>5. \A i \in 1 .. Len(slots) : bytes[i] \in Nat \X Nat
    BY <2>3, <2>4, ZenonT(40)
  <2>6. bytes \in Seq(Nat \X Nat) /\ Len(bytes) = Len(slots)
    BY <2>3, <2>5
  <2> HIDE DEF bytes
  <2>7. m = 0 => bytes # <<>>
    BY <2>2, <2>6
  <2>8. QED
    BY <1>2, <2>1, <2>6, <2>7, ZenonT(40) DEF m
<1>3. CASE ~ conn.chained
  <2>1. Offered(conn) = SubSeq(out, m + 1, Len(out))
    BY <1>3, ZenonT(40) DEF Offered
  <2> HIDE DEF out, m
  <2>2. SubSeq(out, m + 1, Len(out)) \in Seq(Nat \X Nat) /\ Len(SubSeq(out, m + 1, Len(out))) = Len(out) - m
    BY <1>1
  <2>3. QED
    BY <1>3, <2>1, <2>2, ZenonT(40) DEF out, m
<1>4. QED
  BY <1>2, <1>3, ZenonT(40)

-----------------------------------------------------------------------------
(* The buffers of a connection.                                            *)

\* The chain of a connection: one of the two is empty.
Chain(conn) == IF conn.state = "reading" THEN conn.read_chain ELSE conn.write_chain

\* The buffers of a connection are its two buffers and its chain.
LEMMA BuffersIs ==
  ASSUME NEW conn \in Lives
  PROVE  LET r == conn.read_buf_idx
             w == conn.write_buf_idx
             k == Chain(conn)
         IN  /\ r \in Nat /\ w \in Nat /\ k \in Seq(Nat)
             /\ \A x : x \in Range(BuffersOf(conn)) <=> x = r \/ x = w \/ x \in Range(k)
             /\ IsInjective(BuffersOf(conn)) <=>
                  r # w /\ IsInjective(k) /\ r \notin Range(k) /\ w \notin Range(k)
<1> DEFINE r == conn.read_buf_idx
           w == conn.write_buf_idx
           f == conn.read_chain
           g == conn.write_chain
           k == Chain(conn)
           q == <<r, w>> \o f \o g
<1>1. /\ r \in Nat /\ w \in Nat /\ f \in Seq(Nat) /\ g \in Seq(Nat)
      /\ (k = f /\ g = <<>>) \/ (k = g /\ f = <<>>)
  BY ZenonT(40) DEF Lives, MioConnection, Chain
<1>2. BuffersOf(conn) = q
  BY ZenonT(40) DEF BuffersOf
<1> HIDE DEF r, w, f, g, k
<1>3. /\ \A x : x \in Range(q) <=> x = r \/ x = w \/ x \in Range(f) \/ x \in Range(g)
      /\ IsInjective(q) <=>
           /\ r # w /\ IsInjective(f) /\ IsInjective(g)
           /\ r \notin Range(f) /\ w \notin Range(f)
           /\ r \notin Range(g) /\ w \notin Range(g)
           /\ \A x : ~ (x \in Range(f) /\ x \in Range(g))
  BY <1>1, OwnIs
<1> HIDE DEF q
<1>4. \A e : e = <<>> => IsInjective(e) /\ \A x : x \notin Range(e)
  BY DEF IsInjective, Range
<1>5. k \in Seq(Nat) /\ \A x : x \in Range(q) <=> x = r \/ x = w \/ x \in Range(k)
  BY <1>1, <1>3, <1>4, ZenonT(40)
<1>6. IsInjective(q) <=>
        r # w /\ IsInjective(k) /\ r \notin Range(k) /\ w \notin Range(k)
  <2>1. CASE k = f /\ g = <<>>
    BY <1>3, <1>4, <2>1, ZenonT(40)
  <2>2. CASE k = g /\ f = <<>>
    BY <1>3, <1>4, <2>2, ZenonT(40)
  <2>3. QED
    BY <1>1, <2>1, <2>2, ZenonT(40)
<1>7. QED
  BY <1>1, <1>2, <1>5, <1>6, ZenonT(40) DEF r, w, k

\* What the books say of one connection.
LEMMA HeldIs ==
  ASSUME MioInv, NEW id \in DOMAIN connections
  PROVE  LET r == connections[id].read_buf_idx
             w == connections[id].write_buf_idx
             k == Chain(connections[id])
         IN  /\ r \in Nat /\ w \in Nat /\ k \in Stack(Nat) /\ free_list \in Stack(Nat)
             /\ r # w /\ r \notin Range(k) /\ w \notin Range(k)
             /\ r \notin Range(free_list) /\ w \notin Range(free_list)
             /\ \A x : ~ (x \in Range(k) /\ x \in Range(free_list))
             /\ \A x : x \in Range(BuffersOf(connections[id])) <=> x = r \/ x = w \/ x \in Range(k)
<1>1. /\ IsInjective(BuffersOf(connections[id])) /\ free_list \in Stack(Nat)
      /\ \A x : ~ (x \in Range(BuffersOf(connections[id])) /\ x \in Range(free_list))
  BY ZenonT(40) DEF MioInv, Books, Partitioned, Tables
<1> DEFINE r == connections[id].read_buf_idx
           w == connections[id].write_buf_idx
           k == Chain(connections[id])
           q == BuffersOf(connections[id])
<1>2. connections[id] \in Lives
  BY KnownIs, ZenonT(40)
<1>3. /\ r \in Nat /\ w \in Nat /\ k \in Seq(Nat)
      /\ \A x : x \in Range(q) <=> x = r \/ x = w \/ x \in Range(k)
      /\ IsInjective(q) <=> r # w /\ IsInjective(k) /\ r \notin Range(k) /\ w \notin Range(k)
  BY <1>2, BuffersIs, ZenonT(40)
<1> HIDE DEF r, w, k, q
<1>4. /\ r # w /\ r \notin Range(k) /\ w \notin Range(k) /\ k \in Stack(Nat)
      /\ r \notin Range(free_list) /\ w \notin Range(free_list)
      /\ \A x : ~ (x \in Range(k) /\ x \in Range(free_list))
  BY <1>1, <1>3, ZenonT(40) DEF q, Stack
<1>5. QED
  BY <1>1, <1>3, <1>4, ZenonT(40) DEF r, w, k, q

\* A connection keeps its two buffers, and its chain changes.
LEMMA BalancedIs ==
  ASSUME MioInv, NEW id \in DOMAIN connections, NEW conn \in Lives,
         conn.read_buf_idx = connections[id].read_buf_idx,
         conn.write_buf_idx = connections[id].write_buf_idx,
         NEW g \in Stack(Nat), IsInjective(Chain(conn)),
         \A x : ~ (x \in Range(Chain(conn)) /\ x \in Range(g)),
         \A x : (x \in Range(Chain(conn)) \/ x \in Range(g)) <=>
                (x \in Range(Chain(connections[id])) \/ x \in Range(free_list))
  PROVE  Balanced(id, conn, g)
<1> DEFINE r == connections[id].read_buf_idx
           w == connections[id].write_buf_idx
           k == Chain(connections[id])
           q == BuffersOf(connections[id])
           l == Chain(conn)
           p == BuffersOf(conn)
<1>1. /\ r # w /\ r \notin Range(k) /\ w \notin Range(k)
      /\ r \notin Range(free_list) /\ w \notin Range(free_list)
      /\ \A x : x \in Range(q) <=> x = r \/ x = w \/ x \in Range(k)
  BY HeldIs, ZenonT(40)
<1>2. /\ \A x : x \in Range(p) <=> x = r \/ x = w \/ x \in Range(l)
      /\ IsInjective(p) <=> r # w /\ IsInjective(l) /\ r \notin Range(l) /\ w \notin Range(l)
  BY BuffersIs, ZenonT(40)
<1>3. /\ IsInjective(l) /\ \A x : ~ (x \in Range(l) /\ x \in Range(g))
      /\ \A x : (x \in Range(l) \/ x \in Range(g)) <=> (x \in Range(k) \/ x \in Range(free_list))
  BY ZenonT(40)
<1> HIDE DEF r, w, k, l, p, q
<1>4. IsInjective(p)
  BY <1>1, <1>2, <1>3, ZenonT(40)
<1>5. \A x : ~ (x \in Range(p) /\ x \in Range(g))
  BY <1>1, <1>2, <1>3, ZenonT(40)
<1>6. \A x : (x \in Range(p) \/ x \in Range(g)) <=> (x \in Range(q) \/ x \in Range(free_list))
  BY <1>1, <1>2, <1>3, ZenonT(40)
<1>7. QED
  BY <1>4, <1>5, <1>6, ZenonT(40) DEF Balanced, p, q

\* close_connection, when it is given the chain.
LEMMA CloseIs ==
  ASSUME MioInv, NEW id \in DOMAIN connections, NEW F \in Stack(Nat), NEW l \in Stack(Nat),
         \A x : ~ (x \in Range(l) /\ x \in Range(F)),
         \A x : (x \in Range(l) \/ x \in Range(F)) <=>
                (x \in Range(Chain(connections[id])) \/ x \in Range(free_list)),
         Close(id, F, l)
  PROVE  Closes(id)
<1> DEFINE r == connections[id].read_buf_idx
           w == connections[id].write_buf_idx
           k == Chain(connections[id])
           q == BuffersOf(connections[id])
           p == <<r, w>>
           pl == p \o l
           g == F \o pl
<1>1. /\ r \in Nat /\ w \in Nat /\ r # w /\ r \notin Range(k) /\ w \notin Range(k)
      /\ r \notin Range(free_list) /\ w \notin Range(free_list)
      /\ \A x : x \in Range(q) <=> x = r \/ x = w \/ x \in Range(k)
  BY HeldIs, ZenonT(40)
<1>2. /\ \A x : (x \in Range(l) \/ x \in Range(F)) <=> (x \in Range(k) \/ x \in Range(free_list))
      /\ l \in Seq(Nat) /\ IsInjective(l) /\ F \in Seq(Nat) /\ IsInjective(F)
  BY ZenonT(40) DEF Stack
<1>3. free_list' = g
  BY ZenonT(40) DEF Close, FreeMany
<1> HIDE DEF r, w, k, q
<1>4. p \in Seq(Nat) /\ (\A x : x \in Range(p) <=> x = r \/ x = w) /\ (IsInjective(p) <=> r # w)
  BY <1>1, PairIs, ZenonT(40)
<1> HIDE DEF p
<1>5. /\ pl \in Seq(Nat) /\ \A x : x \in Range(pl) <=> x \in Range(p) \/ x \in Range(l)
      /\ IsInjective(pl) <=>
           IsInjective(p) /\ IsInjective(l) /\ \A x : ~ (x \in Range(p) /\ x \in Range(l))
  BY ONLY <1>2, <1>4, ConcatIs
<1> HIDE DEF pl
<1>6. /\ g \in Seq(Nat) /\ \A x : x \in Range(g) <=> x \in Range(F) \/ x \in Range(pl)
      /\ IsInjective(g) <=>
           IsInjective(F) /\ IsInjective(pl) /\ \A x : ~ (x \in Range(F) /\ x \in Range(pl))
  BY ONLY <1>2, <1>5, ConcatIs
<1> HIDE DEF g
<1>7. \A x : x \in Range(g) <=> (x \in Range(q) \/ x \in Range(free_list))
  BY <1>1, <1>2, <1>4, <1>5, <1>6, ZenonT(40)
<1>8. \A x : ~ (x \in Range(p) /\ x \in Range(l))
  BY <1>1, <1>2, <1>4, ZenonT(40)
<1>9. IsInjective(pl)
  BY <1>1, <1>2, <1>4, <1>5, <1>8, ZenonT(40)
<1>10. \A x : ~ (x \in Range(F) /\ x \in Range(pl))
  BY <1>1, <1>2, <1>4, <1>5, ZenonT(40)
<1>11. g \in Stack(Nat)
  BY <1>2, <1>6, <1>9, <1>10, ZenonT(40) DEF Stack
<1>12. QED
  BY <1>3, <1>7, <1>11, ZenonT(40) DEF Close, Closes, q

\* An error closes the connection.
LEMMA FailIs ==
  ASSUME MioInv, NEW id \in DOMAIN connections, Fail(id)
  PROVE  Closes(id)
<1> DEFINE f == connections[id].read_chain
           g == connections[id].write_chain
           k == Chain(connections[id])
           l == f \o g
<1>1. /\ k \in Stack(Nat) /\ free_list \in Stack(Nat)
      /\ \A x : ~ (x \in Range(k) /\ x \in Range(free_list))
  BY HeldIs, ZenonT(40)
<1>2. /\ f \in Seq(Nat) /\ g \in Seq(Nat)
      /\ (k = f /\ g = <<>>) \/ (k = g /\ f = <<>>)
  <2>1. connections[id] \in Lives
    BY KnownIs, ZenonT(40)
  <2>2. QED
    BY <2>1, ZenonT(40) DEF Lives, MioConnection, Chain
<1>3. Close(id, free_list, l)
  BY ZenonT(40) DEF Fail
<1> HIDE DEF f, g, k
<1>4. l = k
  <2>1. \A s \in Seq(Nat) : s \o <<>> = s /\ <<>> \o s = s
    OBVIOUS
  <2>2. QED
    BY <1>2, <2>1, ZenonT(40)
<1> HIDE DEF l
<1>5. QED
  BY <1>1, <1>3, <1>4, CloseIs, ZenonT(40) DEF k

-----------------------------------------------------------------------------
(* handle_readable.                                                        *)

\* A connection stays registered as it is.
LEMMA SameRegistration ==
  ASSUME MioInv, NEW id \in DOMAIN connections, NEW conn,
         conn.client = connections[id].client, Awaits(conn) = Awaits(connections[id]),
         registry' = registry
  PROVE  Changed(registry, registry', conn.client, [token |-> id, interest |-> Awaits(conn)])
  BY KnownIs, ZenonT(40) DEF Changed

\* reregister reports what is there.
LEMMA ReregisterIs ==
  ASSUME MioInv, NEW id \in DOMAIN connections, NEW conn,
         conn.client = connections[id].client, Reregister(id, Awaits(conn))
  PROVE  /\ Changed(registry, registry', conn.client, [token |-> id, interest |-> Awaits(conn)])
         /\ ready \subseteq ready' /\ ready' \subseteq ready \cup {conn.client}
         /\ conn.state = "reading" /\ ReadReady(conn.client) => conn.client \in ready'
         /\ conn.state # "reading" /\ WriteReady(conn.client) => conn.client \in ready'
<1> DEFINE c == connections[id].client
           a == Awaits(connections[id])
           b == Awaits(conn)
<1>1. c \in DOMAIN registry /\ registry[c] = [token |-> id, interest |-> a]
  BY KnownIs, ZenonT(40)
<1>2. registry' = [registry EXCEPT ![c].interest = b]
  BY ZenonT(40) DEF Reregister
<1>3. /\ ready' = IF IF b = "readable" THEN ReadReady(c) ELSE WriteReady(c) THEN ready \cup {c} ELSE ready
  BY ZenonT(40) DEF Reregister
<1>4. b = IF conn.state = "reading" THEN "readable" ELSE "writable"
  BY ZenonT(40) DEF Awaits
<1> HIDE DEF a, b, c
<1>5. Changed(registry, registry', c, [token |-> id, interest |-> b])
  BY <1>1, <1>2 DEF Changed
<1>6. /\ ready \subseteq ready' /\ ready' \subseteq ready \cup {c}
      /\ conn.state = "reading" /\ ReadReady(c) => c \in ready'
      /\ conn.state # "reading" /\ WriteReady(c) => c \in ready'
  BY <1>3, <1>4, ZenonT(40)
<1>7. QED
  BY <1>5, <1>6, ZenonT(40) DEF b, c

\* Reading gives the connection `input`, and leaves its socket as s.
Reads(id, input, s) ==
  LET c == connections[id].client
  IN  /\ connections[id].state = "reading" /\ input \in Seq(Nat) /\ Len(input) <= BufferSize
      /\ s \in Socket /\ s.server = net[c].server /\ s.outbox = net[c].outbox
      /\ s.peer = net[c].peer /\ (s.inbox = <<>> \/ Len(input) = BufferSize)

\* The sockets when the bytes that were added to make `input` are read.
Taken(id, input) ==
  [net EXCEPT ![connections[id].client].inbox =
     SubSeq(@, Len(input) - Len(connections[id].input) + 1, Len(@))]

\* A read of n bytes makes the filled part of the buffer `input`.
Gets(id, n, input) ==
  /\ n = Min({BufferSize - Len(connections[id].input), Len(net[connections[id].client].inbox)})
  /\ n > 0 /\ input = connections[id].input \o SubSeq(net[connections[id].client].inbox, 1, n)

\* What a read takes from the socket.
LEMMA ReadIs ==
  ASSUME MioInv, NEW id \in DOMAIN connections, connections[id].state = "reading",
         NEW n, NEW input, Gets(id, n, input)
  PROVE  \E s : Reads(id, input, s) /\ Taken(id, input) = [net EXCEPT ![connections[id].client] = s]
<1> DEFINE c == connections[id].client
           old == connections[id].input
           inbox == net[c].inbox
           space == BufferSize - Len(old)
           rest == SubSeq(inbox, n + 1, Len(inbox))
           s == [net[c] EXCEPT !.inbox = rest]
<1>1. /\ old \in Seq(Nat) /\ Len(old) \in Nat /\ Len(old) <= BufferSize /\ c \in Clients
      /\ net[c] \in Socket /\ inbox \in Seq(Nat) /\ Len(inbox) \in Nat
  <2>1. connections[id] \in Lives /\ c \in Clients /\ net[c] \in Socket
    BY KnownIs, ZenonT(40)
  <2>2. QED
    BY <2>1, SocketFields DEF Lives, MioConnection
<1>2. n = Min({space, Len(inbox)}) /\ n > 0 /\ input = old \o SubSeq(inbox, 1, n)
  BY ZenonT(40) DEF Gets
<1> HIDE DEF old, inbox, c
<1>3. space \in Nat
  BY <1>1, ProcessingAssumption
<1> DEFINE m == Len(inbox)
<1>4. n \in Nat /\ n \in {space, m} /\ n <= space /\ n <= m
  <2> HIDE DEF space, m
  <2>1. m \in Nat
    BY <1>1, ZenonT(40) DEF m
  <2>2. n = Min({space, m})
    BY <1>2, ZenonT(40) DEF m
  <2>3. QED
    BY ONLY <1>3, <2>1, <2>2, MinOfTwo
<1>5. SubSeq(inbox, 1, n) \in Seq(Nat) /\ Len(SubSeq(inbox, 1, n)) = n
      /\ rest \in Seq(Nat) /\ (n = Len(inbox) => rest = <<>>)
  <2>1. inbox \in Seq(Nat) /\ n \in Nat /\ n <= Len(inbox) /\ Len(inbox) \in Nat
    BY <1>1, <1>4, ZenonT(40)
  <2>2. SubSeq(inbox, 1, n) \in Seq(Nat) /\ Len(SubSeq(inbox, 1, n)) = n
    BY ONLY <2>1
  <2>3. rest \in Seq(Nat) /\ Len(rest) = Len(inbox) - n
    BY ONLY <2>1
  <2>4. n = Len(inbox) => Len(rest) = 0
    BY ONLY <2>1, <2>3
  <2> HIDE DEF rest
  <2>5. Len(rest) = 0 => rest = <<>>
    BY ONLY <2>3
  <2>6. QED
    BY <2>2, <2>3, <2>4, <2>5, ZenonT(40)
<1>6. input \in Seq(Nat) /\ Len(input) = Len(old) + n
  <2> DEFINE t == SubSeq(inbox, 1, n)
  <2>1. t \in Seq(Nat) /\ Len(t) = n
    BY <1>5, ZenonT(40)
  <2> HIDE DEF t
  <2>2. old \in Seq(Nat)
    BY <1>1, ZenonT(40)
  <2>3. old \o t \in Seq(Nat) /\ Len(old \o t) = Len(old) + Len(t)
    BY ONLY <2>1, <2>2, JoinIs, ZenonT(40)
  <2>4. QED
    BY <1>2, <2>1, <2>3, ZenonT(40) DEF t
<1> HIDE DEF rest
<1>7. s \in Socket /\ s.inbox = rest /\ s.server = net[c].server /\ s.outbox = net[c].outbox
      /\ s.peer = net[c].peer
  BY <1>1, <1>5, ZenonT(40) DEF Socket
<1>8. Len(input) <= BufferSize /\ (rest = <<>> \/ Len(input) = BufferSize)
      /\ Len(input) - Len(old) + 1 = n + 1
  <2> DEFINE i == Len(input)
             o == Len(old)
  <2>2. i = o + n /\ o \in Nat /\ o <= BufferSize /\ BufferSize \in Nat
    BY <1>1, <1>6, ProcessingAssumption, ZenonT(40)
  <2>3. n \in Nat /\ n <= BufferSize - o /\ (n = BufferSize - o \/ n = m)
    BY <1>4, ZenonT(40)
  <2> HIDE DEF i, o, m
  <2>4. i <= BufferSize /\ i - o + 1 = n + 1 /\ (i = BufferSize \/ n = m)
    BY ONLY <2>2, <2>3
  <2>5. QED
    BY <1>5, <2>4, ZenonT(40) DEF i, o, m
<1>9. Reads(id, input, s)
  <2> HIDE DEF s
  <2>1. QED
    BY <1>6, <1>7, <1>8, ZenonT(40) DEF Reads, c
<1>10. [net EXCEPT ![c].inbox = SubSeq(@, Len(input) - Len(old) + 1, Len(@))] = [net EXCEPT ![c] = s]
  BY <1>8, ZenonT(40) DEF rest, inbox
<1> HIDE DEF s
<1>11. QED
  BY <1>9, <1>10, ZenonT(40) DEF c, old, Taken

\* NeedData: the socket is empty, or the buffer is full.
LEMMA KeepReadingIs ==
  ASSUME MioInv, NEW id \in DOMAIN connections, NEW input, NEW s, Reads(id, input, s),
         KeepReading(id, input), net' = [net EXCEPT ![connections[id].client] = s]
  PROVE  \E conn : Goes(id, conn, s)
<1> DEFINE old == connections[id]
           conn == [old EXCEPT !.input = input]
<1>1. old \in Lives
  BY KnownIs, ZenonT(40)
<1>2. old.state = "reading" /\ input \in Seq(Nat) /\ Len(input) <= BufferSize
  BY ZenonT(40) DEF Reads
<1>3. /\ connections' = [connections EXCEPT ![id] = conn]
      /\ vacant' = vacant /\ free_list' = free_list /\ registry' = registry /\ ready' = ready
  BY ZenonT(40) DEF KeepReading
<1>4. Changed(connections, connections', id, conn)
  BY <1>3, ZenonT(40) DEF Changed
<1> HIDE DEF old
<1>5. /\ conn \in Lives /\ conn.client = old.client /\ conn.state = "reading"
      /\ conn.read_buf_idx = old.read_buf_idx /\ conn.write_buf_idx = old.write_buf_idx
      /\ conn.read_chain = old.read_chain /\ conn.input = input
  BY <1>1, <1>2, ZenonT(40) DEF Lives, MioConnection
<1> HIDE DEF conn
<1>6. Awaits(conn) = Awaits(old) /\ Chain(conn) = Chain(old)
  BY <1>2, <1>5, ZenonT(40) DEF Awaits, Chain
<1>7. Changed(registry, registry', conn.client, [token |-> id, interest |-> Awaits(conn)])
  BY <1>3, <1>5, <1>6, SameRegistration, ZenonT(40) DEF old
<1>8. ~ Wakes(conn, s)
  BY <1>2, <1>5, ProcessingAssumption DEF Wakes, Reads
<1>9. Balanced(id, conn, free_list')
  <2>1. /\ Chain(old) \in Stack(Nat) /\ free_list \in Stack(Nat)
        /\ \A x : ~ (x \in Range(Chain(old)) /\ x \in Range(free_list))
    BY HeldIs, ZenonT(40) DEF old
  <2>2. QED
    BY <1>3, <1>5, <1>6, <2>1, BalancedIs, ZenonT(40) DEF Stack, old
<1>10. Goes(id, conn, s)
  BY <1>3, <1>4, <1>5, <1>7, <1>8, <1>9, ZenonT(40) DEF Goes, Reads, old
<1>11. QED
  BY <1>10, ZenonT(40)

\* NeedChain: the buffers for the value.
LEMMA ToAllocNat ==
  ASSUME MioInv, NEW id \in DOMAIN connections, NEW result, result.command_len \in Nat,
         result.value_len \in Nat
  PROVE  ToAlloc(id, result) \in Nat
<1> DEFINE total_needed == result.command_len + result.value_len + 2
           most == Max({total_needed, BufferSize})
           chain_bytes_needed == most - BufferSize
           chain_buffers_needed == (chain_bytes_needed + BufferSize - 1) \div BufferSize
           held == Len(connections[id].read_chain)
<1>1. BufferSize \in Nat /\ BufferSize > 0 /\ total_needed \in Nat
  BY ProcessingAssumption
<1>2. held \in Nat
  <2>1. connections[id] \in Lives
    BY KnownIs, ZenonT(40)
  <2>2. QED
    BY <2>1 DEF Lives, MioConnection
<1>3. ToAlloc(id, result) = Max({chain_buffers_needed, held}) - held
  BY ZenonT(40) DEF ToAlloc
<1> HIDE DEF total_needed, held
<1>4. most \in Nat /\ most >= BufferSize
  BY ONLY <1>1, MaxOfTwo
<1> HIDE DEF most
<1> DEFINE a == chain_bytes_needed + BufferSize - 1
<1>5. a \in Nat /\ BufferSize \in Nat \ {0}
  BY ONLY <1>1, <1>4
<1> HIDE DEF a
<1>6. a \div BufferSize \in Nat
  BY ONLY <1>5, Split
<1>7. chain_buffers_needed = a \div BufferSize
  BY ZenonT(40) DEF a
<1> HIDE DEF chain_buffers_needed
<1>8. chain_buffers_needed \in Nat
  BY <1>6, <1>7, ZenonT(40)
<1> DEFINE big == Max({chain_buffers_needed, held})
<1>9. big \in Nat /\ big >= held
  BY ONLY <1>2, <1>8, MaxOfTwo
<1>10. ToAlloc(id, result) = big - held
  BY <1>3, ZenonT(40)
<1> HIDE DEF big
<1>11. QED
  BY <1>2, <1>9, <1>10

\* NeedChain with room in the pool: the connection gets the buffers that its read
\* chain lacks, and goes on reading.
LEMMA ReserveChainIs ==
  ASSUME MioInv, NEW id \in DOMAIN connections, NEW input, NEW s, Reads(id, input, s),
         NEW result, result.command_len \in Nat, result.value_len \in Nat,
         ReserveChain(id, input, result), net' = [net EXCEPT ![connections[id].client] = s]
  PROVE  \E conn : Goes(id, conn, s)
<1> DEFINE old == connections[id]
           n == ToAlloc(id, result)
           new == AllocMany(free_list, n)
           chain == old.read_chain \o new
           conn == [old EXCEPT !.input = input, !.read_chain = chain]
           g == AfterAlloc(free_list, n)
<1>1. old \in Lives
  BY KnownIs, ZenonT(40)
<1>2. old.state = "reading" /\ input \in Seq(Nat) /\ Len(input) <= BufferSize
  BY ZenonT(40) DEF Reads
<1>3. n \in Nat /\ CanAlloc(free_list, n)
  BY ToAllocNat, ZenonT(40) DEF ReserveChain
<1>4. /\ connections' = [connections EXCEPT ![id] = conn]
      /\ vacant' = vacant /\ free_list' = g /\ registry' = registry /\ ready' = ready
  BY ZenonT(40) DEF ReserveChain
<1>5. Changed(connections, connections', id, conn)
  BY <1>4, ZenonT(40) DEF Changed
<1>6. /\ Chain(old) \in Stack(Nat) /\ free_list \in Stack(Nat)
      /\ \A x : ~ (x \in Range(Chain(old)) /\ x \in Range(free_list))
      /\ Chain(old) = old.read_chain
  BY <1>2, HeldIs, ZenonT(40) DEF Chain
<1> HIDE DEF n
<1>7. /\ g \in Stack(Nat) /\ new \in Stack(Nat)
      /\ Range(g) \cap Range(new) = {} /\ Range(g) \cup Range(new) = Range(free_list)
  BY <1>3, <1>6, StackAlloc, ZenonT(40)
<1> HIDE DEF new, g
<1>8. /\ chain \in Stack(Nat) /\ Range(chain) = Range(old.read_chain) \cup Range(new)
  <2>1. old.read_chain \in Stack(Nat) /\ Range(old.read_chain) \cap Range(new) = {}
    BY <1>6, <1>7, ZenonT(40)
  <2>2. QED
    BY <1>7, <2>1, StackFree
<1> HIDE DEF old, chain
<1>9. /\ conn \in Lives /\ conn.client = old.client /\ conn.state = "reading"
      /\ conn.read_buf_idx = old.read_buf_idx /\ conn.write_buf_idx = old.write_buf_idx
      /\ conn.read_chain = chain /\ conn.input = input
  <2>1. chain \in Seq(Nat)
    BY <1>8, ZenonT(40) DEF Stack
  <2>2. QED
    BY <1>1, <1>2, <2>1, ZenonT(40) DEF Lives, MioConnection
<1> HIDE DEF conn
<1>10. Awaits(conn) = Awaits(old) /\ Chain(conn) = chain
  BY <1>2, <1>9, ZenonT(40) DEF Awaits, Chain
<1>11. Changed(registry, registry', conn.client, [token |-> id, interest |-> Awaits(conn)])
  BY <1>4, <1>9, <1>10, SameRegistration, ZenonT(40) DEF old
<1>12. ~ Wakes(conn, s)
  BY <1>2, <1>9, ProcessingAssumption DEF Wakes, Reads
<1>13. Balanced(id, conn, free_list')
  <2>1. /\ IsInjective(Chain(conn)) /\ \A x : ~ (x \in Range(Chain(conn)) /\ x \in Range(g))
    BY <1>6, <1>7, <1>8, <1>10, ZenonT(40) DEF Stack
  <2>2. \A x : (x \in Range(Chain(conn)) \/ x \in Range(g)) <=>
               (x \in Range(Chain(old)) \/ x \in Range(free_list))
    BY <1>6, <1>7, <1>8, <1>10, ZenonT(40)
  <2>3. QED
    BY <1>4, <1>7, <1>9, <2>1, <2>2, BalancedIs, ZenonT(40) DEF old
<1>14. Goes(id, conn, s)
  BY <1>4, <1>5, <1>9, <1>11, <1>12, <1>13, ZenonT(40) DEF Goes, Reads, old
<1>15. QED
  BY <1>14, ZenonT(40)

\* A reply, and what is left in the read buffer.
LEMMA ReplyIs ==
  ASSUME NEW r \in Nat, NEW length \in Nat
  PROVE  Reply(r, length) \in Seq(Nat \X Nat) /\ Len(Reply(r, length)) = length
  BY DEF Reply

\* What process left of the read buffer is no longer than the buffer.
LEMMA UnconsumedIs ==
  ASSUME NEW input \in Seq(Nat), NEW consumed \in Nat, Len(input) <= BufferSize
  PROVE  Unconsumed(input, consumed) \in Seq(Nat) /\ Len(Unconsumed(input, consumed)) <= BufferSize
<1> DEFINE n == Len(input)
           q == SubSeq(input, consumed + 1, n)
<1>1. n \in Nat /\ n <= BufferSize
  OBVIOUS
<1>2. CASE consumed <= n
  <2>1. q \in Seq(Nat) /\ Len(q) = n - consumed
    BY <1>1, <1>2
  <2> HIDE DEF q, n
  <2>2. Len(q) <= BufferSize
    BY <1>1, <1>2, <2>1, ProcessingAssumption
  <2>3. QED
    BY <2>1, <2>2, ZenonT(40) DEF Unconsumed, q, n
<1>3. CASE consumed > n
  <2>1. q \in Seq(Nat) /\ Len(q) = 0
    BY <1>1, <1>3
  <2> HIDE DEF q, n
  <2>2. Len(q) <= BufferSize
    BY <2>1, ProcessingAssumption
  <2>3. QED
    BY <2>1, <2>2, ZenonT(40) DEF Unconsumed, q, n
<1>4. QED
  BY <1>1, <1>2, <1>3

\* Response: the chain of the request goes back.
LEMMA StartWritingIs ==
  ASSUME MioInv, NEW id \in DOMAIN connections, NEW input, NEW s, Reads(id, input, s),
         NEW result, result.consumed \in Nat, NEW out \in Seq(Nat \X Nat),
         StartWriting(id, input, result, out),
         net' = [net EXCEPT ![connections[id].client] = s]
  PROVE  \E conn : Goes(id, conn, s)
<1> DEFINE old == connections[id]
           left == Unconsumed(input, result.consumed)
           conn == [old EXCEPT !.state = "writing", !.out = out, !.written = 0, !.input = left,
                               !.chained = FALSE, !.read_chain = <<>>]
           g == free_list \o old.read_chain
<1>1. old \in Lives
  BY KnownIs, ZenonT(40)
<1>2. old.state = "reading" /\ input \in Seq(Nat) /\ Len(input) <= BufferSize
  BY ZenonT(40) DEF Reads
<1>3. left \in Seq(Nat) /\ Len(left) <= BufferSize
  BY <1>2, UnconsumedIs, ZenonT(40)
<1>4. /\ connections' = [connections EXCEPT ![id] = conn]
      /\ vacant' = vacant /\ free_list' = g /\ Reregister(id, "writable")
  BY ZenonT(40) DEF StartWriting, FreeMany
<1>5. Changed(connections, connections', id, conn)
  BY <1>4, ZenonT(40) DEF Changed
<1>6. /\ Chain(old) \in Stack(Nat) /\ free_list \in Stack(Nat)
      /\ \A x : ~ (x \in Range(Chain(old)) /\ x \in Range(free_list))
      /\ Chain(old) = old.read_chain
  BY <1>2, HeldIs, ZenonT(40) DEF Chain
<1> HIDE DEF old, left
<1>7. g \in Stack(Nat) /\ Range(g) = Range(free_list) \cup Range(Chain(old))
  <2>1. Range(free_list) \cap Range(Chain(old)) = {}
    BY <1>6, ZenonT(40)
  <2>2. QED
    BY <1>6, <2>1, StackFree
<1> HIDE DEF g
<1>8. /\ conn \in Lives /\ conn.client = old.client /\ conn.state = "writing"
      /\ conn.read_buf_idx = old.read_buf_idx /\ conn.write_buf_idx = old.write_buf_idx
      /\ conn.write_chain = <<>>
  <2>1. 0 <= Len(out)
    OBVIOUS
  <2>2. QED
    BY <1>1, <1>2, <1>3, <2>1, ZenonT(40) DEF Lives, MioConnection
<1> HIDE DEF conn
<1>9. Awaits(conn) = "writable" /\ Chain(conn) = <<>>
  BY <1>8, ZenonT(40) DEF Awaits, Chain
<1>10. /\ Changed(registry, registry', conn.client, [token |-> id, interest |-> Awaits(conn)])
       /\ ready \subseteq ready' /\ ready' \subseteq ready \cup {conn.client}
       /\ conn.state # "reading" /\ WriteReady(conn.client) => conn.client \in ready'
  BY <1>4, <1>8, <1>9, ReregisterIs, ZenonT(40) DEF old
<1>11. Wakes(conn, s) => conn.client \in ready'
  BY <1>8, <1>10, ZenonT(40) DEF Wakes, Reads, WriteReady, Room, old
<1>12. Balanced(id, conn, free_list')
  <2>1. IsInjective(Chain(conn)) /\ \A x : x \notin Range(Chain(conn))
    BY <1>9 DEF IsInjective, Range
  <2>2. \A x : (x \in Range(Chain(conn)) \/ x \in Range(g)) <=>
               (x \in Range(Chain(old)) \/ x \in Range(free_list))
    BY <1>7, <2>1, ZenonT(40)
  <2>3. QED
    BY <1>4, <1>7, <1>8, <2>1, <2>2, BalancedIs, ZenonT(40) DEF old
<1>13. Goes(id, conn, s)
  BY <1>4, <1>5, <1>8, <1>10, <1>11, <1>12, ZenonT(40) DEF Goes, Reads, old
<1>14. QED
  BY <1>13, ZenonT(40)

\* A reply takes at least one buffer.
LEMMA ChainLengthIs ==
  ASSUME NEW out \in Seq(Nat \X Nat)
  PROVE  ChainLength(out) \in Nat /\ (Len(out) > 0 => ChainLength(out) > 0)
<1> DEFINE n == Len(out)
           d == BufferSize
           a == n + d - 1
           q == a \div d
           r == a % d
<1>1. n \in Nat /\ d \in Nat \ {0} /\ ChainLength(out) = q
  BY ProcessingAssumption DEF ChainLength
<1> HIDE DEF n, d
<1>2. a \in Nat
  BY ONLY <1>1
<1> HIDE DEF a
<1>3. q \in Nat /\ r \in 0 .. d - 1 /\ a = q * d + r
  BY ONLY <1>1, <1>2, Split, ZenonT(40)
<1>4. a = n + d - 1
  BY ZenonT(40) DEF a
<1> HIDE DEF q, r
<1>5. ASSUME n > 0 PROVE q > 0
  <2>1. CASE q = 0
    <3>1. q * d = 0
      BY ONLY <1>1, <2>1
    <3>2. QED
      BY ONLY <1>1, <1>3, <1>4, <1>5, <3>1
  <2>2. QED
    BY <1>3, <2>1
<1>6. QED
  BY <1>1, <1>3, <1>5, ZenonT(40) DEF n

\* LargeResponse: the chain of the request goes back, and one for the reply is taken.
LEMMA StartWritingChainIs ==
  ASSUME MioInv, NEW id \in DOMAIN connections, NEW input, NEW s, Reads(id, input, s),
         NEW result, result.consumed \in Nat, NEW out \in Seq(Nat \X Nat), Len(out) > 0,
         StartWritingChain(id, input, result, out),
         net' = [net EXCEPT ![connections[id].client] = s]
  PROVE  \E conn : Goes(id, conn, s)
<1> DEFINE old == connections[id]
           left == Unconsumed(input, result.consumed)
           freed == free_list \o old.read_chain
           n == ChainLength(out)
           chain == AllocMany(freed, n)
           conn == [old EXCEPT !.state = "writing", !.out = out, !.written = 0, !.input = left,
                               !.chained = TRUE, !.read_chain = <<>>, !.write_chain = chain]
           g == AfterAlloc(freed, n)
<1>1. old \in Lives
  BY KnownIs, ZenonT(40)
<1>2. old.state = "reading" /\ input \in Seq(Nat) /\ Len(input) <= BufferSize
  BY ZenonT(40) DEF Reads
<1>3. left \in Seq(Nat) /\ Len(left) <= BufferSize /\ n \in Nat /\ n > 0
  BY <1>2, UnconsumedIs, ChainLengthIs, ZenonT(40)
<1>4. /\ connections' = [connections EXCEPT ![id] = conn] /\ CanAlloc(freed, n)
      /\ vacant' = vacant /\ free_list' = g /\ Reregister(id, "writable")
  BY ZenonT(40) DEF StartWritingChain, FreeMany
<1>5. Changed(connections, connections', id, conn)
  BY <1>4, ZenonT(40) DEF Changed
<1>6. /\ Chain(old) \in Stack(Nat) /\ free_list \in Stack(Nat)
      /\ \A x : ~ (x \in Range(Chain(old)) /\ x \in Range(free_list))
      /\ Chain(old) = old.read_chain
  BY <1>2, HeldIs, ZenonT(40) DEF Chain
<1> HIDE DEF old, left, n
<1>7. freed \in Stack(Nat) /\ Range(freed) = Range(free_list) \cup Range(Chain(old))
  <2> DEFINE k == Chain(old)
  <2>1. /\ free_list \in Stack(Nat) /\ k \in Stack(Nat) /\ Range(free_list) \cap Range(k) = {}
        /\ freed = free_list \o k
    BY <1>6, ZenonT(40)
  <2> HIDE DEF k, freed
  <2>2. freed \in Stack(Nat) /\ Range(freed) = Range(free_list) \cup Range(k)
    BY ONLY <2>1, StackFree
  <2>3. QED
    BY <2>2, ZenonT(40) DEF k
<1> HIDE DEF freed
<1>8. /\ g \in Stack(Nat) /\ chain \in Stack(Nat) /\ Len(chain) = n
      /\ Range(g) \cap Range(chain) = {} /\ Range(g) \cup Range(chain) = Range(freed)
  BY <1>3, <1>4, <1>7, StackAlloc
<1> HIDE DEF g, chain
<1>9. /\ conn \in Lives /\ conn.client = old.client /\ conn.state = "writing"
      /\ conn.read_buf_idx = old.read_buf_idx /\ conn.write_buf_idx = old.write_buf_idx
      /\ conn.write_chain = chain
  <2>1. 0 <= Len(out) /\ chain \in Seq(Nat) /\ Len(chain) > 0
    BY <1>3, <1>8 DEF Stack
  <2>2. QED
    BY <1>1, <1>2, <1>3, <2>1, ZenonT(40) DEF Lives, MioConnection
<1> HIDE DEF conn
<1>10. Awaits(conn) = "writable" /\ Chain(conn) = chain
  BY <1>9, ZenonT(40) DEF Awaits, Chain
<1>11. /\ Changed(registry, registry', conn.client, [token |-> id, interest |-> Awaits(conn)])
       /\ ready \subseteq ready' /\ ready' \subseteq ready \cup {conn.client}
       /\ conn.state # "reading" /\ WriteReady(conn.client) => conn.client \in ready'
  BY <1>4, <1>9, <1>10, ReregisterIs, ZenonT(40) DEF old
<1>12. Wakes(conn, s) => conn.client \in ready'
  BY <1>9, <1>11, ZenonT(40) DEF Wakes, Reads, WriteReady, Room, old
<1>13. Balanced(id, conn, free_list')
  <2>1. IsInjective(Chain(conn)) /\ \A x : ~ (x \in Range(Chain(conn)) /\ x \in Range(g))
    BY <1>8, <1>10, ZenonT(40) DEF Stack
  <2>2. \A x : (x \in Range(Chain(conn)) \/ x \in Range(g)) <=>
               (x \in Range(Chain(old)) \/ x \in Range(free_list))
    BY <1>7, <1>8, <1>10, ZenonT(40)
  <2>3. QED
    BY <1>4, <1>8, <1>9, <2>1, <2>2, BalancedIs, ZenonT(40) DEF old
<1>14. Goes(id, conn, s)
  BY <1>4, <1>5, <1>9, <1>11, <1>12, <1>13, ZenonT(40) DEF Goes, Reads, old
<1>15. QED
  BY <1>14, ZenonT(40)

\* There are no buffers for the reply.
LEMMA NoWriteChainIs ==
  ASSUME MioInv, NEW id \in DOMAIN connections, connections[id].state = "reading",
         NEW out, NoWriteChain(id, out)
  PROVE  Closes(id)
<1> DEFINE k == Chain(connections[id])
           freed == free_list \o connections[id].read_chain
           F == AllocMany(freed, Len(freed))
<1>1. /\ k \in Stack(Nat) /\ free_list \in Stack(Nat)
      /\ \A x : ~ (x \in Range(k) /\ x \in Range(free_list)) /\ k = connections[id].read_chain
  BY HeldIs, ZenonT(40) DEF Chain
<1>2. Close(id, F, <<>>)
  BY ZenonT(40) DEF NoWriteChain, FreeMany
<1>3. freed \in Stack(Nat) /\ Range(freed) = Range(free_list) \cup Range(k)
  <2> HIDE DEF k
  <2>1. Range(free_list) \cap Range(k) = {}
    BY <1>1, ZenonT(40)
  <2>2. QED
    BY <1>1, <2>1, StackFree
<1> HIDE DEF freed
<1>4. F \in Stack(Nat) /\ Range(F) = Range(freed)
  BY <1>3, StackAll, ZenonT(40)
<1> DEFINE l == <<>>
<1>5. l \in Stack(Nat) /\ \A x : x \notin Range(l)
  BY DEF Stack, IsInjective, Range
<1>6. Close(id, F, l)
  BY <1>2, ZenonT(40)
<1> HIDE DEF F, l
<1>7. \A x : (x \in Range(l) \/ x \in Range(F)) <=> (x \in Range(k) \/ x \in Range(free_list))
  BY <1>3, <1>4, <1>5, ZenonT(40)
<1>8. QED
  BY <1>4, <1>5, <1>6, <1>7, CloseIs, ZenonT(40)

\* A result has the fields that its tag promises.
LEMMA ResultIs ==
  ASSUME NEW result \in ProcessResult
  PROVE  /\ result.tag = "NeedChain" => result.command_len \in Nat /\ result.value_len \in Nat
         /\ result.tag \in {"Response", "LargeResponse"} =>
              result.consumed \in Nat /\ result.reply \in Nat
         /\ result.tag = "LargeResponse" => result.reply > 0
  BY DEF ProcessResult, NeedData, Quit, Error

\* The match on the result: the connection goes on, or is closed.
LEMMA DispatchIs ==
  ASSUME MioInv, NEW id \in DOMAIN connections, NEW input, NEW s, Reads(id, input, s),
         Taken(id, input) = [net EXCEPT ![connections[id].client] = s],
         NEW p, p.request \in Nat, p.result \in ProcessResult, Dispatch(id, input, p)
  PROVE  Closes(id) \/ \E conn : Goes(id, conn, s)
<1> DEFINE result == p.result
           next == net' = [net EXCEPT ![connections[id].client] = s]
           out == Reply(p.request, result.reply)
<1>1. \/ result.tag = "NeedData" /\ KeepReading(id, input) /\ next
      \/ result.tag = "NeedChain" /\ ReserveChain(id, input, result) /\ next
      \/ Fail(id)
      \/ result.tag = "Response" /\ StartWriting(id, input, result, out) /\ next
      \/ result.tag = "LargeResponse" /\ StartWritingChain(id, input, result, out) /\ next
      \/ NoWriteChain(id, out)
  BY ZenonT(40) DEF Dispatch, Taken
<1>2. /\ result.tag = "NeedChain" => result.command_len \in Nat /\ result.value_len \in Nat
      /\ result.tag \in {"Response", "LargeResponse"} =>
           result.consumed \in Nat /\ result.reply \in Nat
      /\ result.tag = "LargeResponse" => result.reply > 0
  BY ResultIs, ZenonT(40)
<1>3. result.tag \in {"Response", "LargeResponse"} =>
        out \in Seq(Nat \X Nat) /\ Len(out) = result.reply
  BY <1>2, ReplyIs, ZenonT(40)
<1>4. connections[id].state = "reading"
  BY ZenonT(40) DEF Reads
<1> HIDE DEF result, out
<1>5. CASE KeepReading(id, input) /\ next
  BY <1>5, KeepReadingIs, ZenonT(40)
<1>6. CASE result.tag = "NeedChain" /\ ReserveChain(id, input, result) /\ next
  BY <1>2, <1>6, ReserveChainIs, ZenonT(40)
<1>7. CASE Fail(id)
  BY <1>7, FailIs, ZenonT(40)
<1>8. CASE result.tag = "Response" /\ StartWriting(id, input, result, out) /\ next
  BY <1>2, <1>3, <1>8, StartWritingIs, ZenonT(40)
<1>9. CASE result.tag = "LargeResponse" /\ StartWritingChain(id, input, result, out) /\ next
  BY <1>2, <1>3, <1>9, StartWritingChainIs, ZenonT(40)
<1>10. CASE NoWriteChain(id, out)
  BY <1>4, <1>10, NoWriteChainIs, ZenonT(40)
<1>11. QED
  BY <1>1, <1>5, <1>6, <1>7, <1>8, <1>9, <1>10, ZenonT(40)

\* Nothing happens to a connection.
LEMMA IdleIs ==
  ASSUME MioInv, NEW id \in DOMAIN connections, UNCHANGED <<net, worker, ready>>,
         ~ Wakes(connections[id], net[connections[id].client])
  PROVE  Goes(id, connections[id], net[connections[id].client])
<1> DEFINE old == connections[id]
           s == net[old.client]
<1>1. old \in Lives /\ old.client \in Clients /\ s \in Socket
  BY KnownIs, ZenonT(40)
<1>2. /\ connections' = connections /\ vacant' = vacant /\ free_list' = free_list
      /\ registry' = registry /\ ready' = ready /\ net' = net
  BY ZenonT(40) DEF worker
<1>3. Changed(connections, connections', id, old)
  BY <1>2, ZenonT(40) DEF Changed
<1>4. Changed(registry, registry', old.client, [token |-> id, interest |-> Awaits(old)])
  BY <1>2, SameRegistration, ZenonT(40)
<1>5. Balanced(id, old, free_list')
  <2>1. /\ Chain(old) \in Stack(Nat) /\ free_list \in Stack(Nat)
        /\ \A x : ~ (x \in Range(Chain(old)) /\ x \in Range(free_list))
    BY HeldIs, ZenonT(40)
  <2>2. QED
    BY <1>1, <1>2, <2>1, BalancedIs, ZenonT(40) DEF Stack
<1>6. net' = [net EXCEPT ![old.client] = s]
  BY <1>1, <1>2, ZenonT(40) DEF MioInv, NetType
<1>7. ~ Wakes(old, s)
  BY ZenonT(40)
<1> HIDE DEF old, s
<1>8. Goes(id, old, s)
  BY <1>1, <1>2, <1>3, <1>4, <1>5, <1>6, <1>7, ZenonT(40) DEF Goes, old, s
<1>9. QED
  BY <1>8, ZenonT(40) DEF old, s

\* handle_readable.
LEMMA ReadableIs ==
  ASSUME MioInv, NEW id \in DOMAIN connections, connections[id].state = "reading", Readable(id)
  PROVE  Closes(id) \/ \E conn, s : Goes(id, conn, s)
<1> DEFINE old == connections[id]
           inbox == net[old.client].inbox
           space == BufferSize - Len(old.input)
           n == Min({space, Len(inbox)})
<1>1. \/ space > 0 /\ ~ ReadReady(old.client) /\ UNCHANGED <<net, worker, ready>>
      \/ Fail(id)
      \/ n > 0 /\ \E p \in Process(old.client, old.input \o SubSeq(inbox, 1, n)) :
                    Dispatch(id, old.input \o SubSeq(inbox, 1, n), p)
  BY ZenonT(40) DEF Readable
<1>2. CASE space > 0 /\ ~ ReadReady(old.client) /\ UNCHANGED <<net, worker, ready>>
  <2>1. ~ Wakes(old, net[old.client])
    BY <1>2, ZenonT(40) DEF Wakes, ReadReady
  <2>2. QED
    BY <1>2, <2>1, IdleIs, ZenonT(40)
<1>3. CASE Fail(id)
  BY <1>3, FailIs, ZenonT(40)
<1>4. ASSUME n > 0, NEW p \in Process(old.client, old.input \o SubSeq(inbox, 1, n)),
             Dispatch(id, old.input \o SubSeq(inbox, 1, n), p)
      PROVE  Closes(id) \/ \E conn, s : Goes(id, conn, s)
  <2> DEFINE input == old.input \o SubSeq(inbox, 1, n)
             m == n
  <2>1. Gets(id, m, input)
    BY <1>4, ZenonT(40) DEF Gets
  <2>2. p \in Process(old.client, input) /\ Dispatch(id, input, p)
    BY <1>4, ZenonT(40)
  <2> HIDE DEF input, m
  <2>3. PICK s : Reads(id, input, s) /\ Taken(id, input) = [net EXCEPT ![old.client] = s]
    BY <2>1, ReadIs, ZenonT(40)
  <2>4. old.client \in Clients /\ input \in Seq(Nat)
    BY <2>3, KnownIs, ZenonT(40) DEF Reads
  <2>5. p.request \in Nat /\ p.result \in ProcessResult
    BY <2>2, <2>4, ProcessType, ZenonT(40)
  <2>6. QED
    BY <2>2, <2>3, <2>5, DispatchIs, ZenonT(40)
<1>5. QED
  BY <1>1, <1>2, <1>3, <1>4, ZenonT(40)

-----------------------------------------------------------------------------
(* handle_writable.                                                        *)

\* A write leaves the socket as s.
Sends(id, s) ==
  LET c == connections[id].client
  IN  /\ connections[id].state = "writing" /\ s \in Socket /\ s.server = net[c].server
      /\ s.inbox = net[c].inbox /\ s.peer = net[c].peer /\ Len(s.outbox) <= SendBuffer

\* The connection waits for the next request, and the chain of the reply goes back.
LEMMA WriteCompleteIs ==
  ASSUME MioInv, NEW id \in DOMAIN connections, NEW s, Sends(id, s), WriteComplete(id),
         net' = [net EXCEPT ![connections[id].client] = s]
  PROVE  \E conn : Goes(id, conn, s)
<1> DEFINE old == connections[id]
           l == <<>>
           conn == [old EXCEPT !.state = "reading", !.input = l, !.out = l, !.written = 0,
                               !.chained = FALSE, !.write_chain = l]
           g == free_list \o old.write_chain
<1>1. old \in Lives /\ old.state = "writing"
  BY KnownIs, ZenonT(40) DEF Sends
<1>2. /\ connections' = [connections EXCEPT ![id] = conn]
      /\ vacant' = vacant /\ free_list' = g /\ Reregister(id, "readable")
  BY ZenonT(40) DEF WriteComplete, FreeMany
<1>3. Changed(connections, connections', id, conn)
  BY <1>2, ZenonT(40) DEF Changed
<1>4. /\ Chain(old) \in Stack(Nat) /\ free_list \in Stack(Nat)
      /\ \A x : ~ (x \in Range(Chain(old)) /\ x \in Range(free_list))
      /\ Chain(old) = old.write_chain
  BY <1>1, HeldIs, ZenonT(40) DEF Chain
<1>5. l \in Seq(Nat) /\ l \in Seq(Nat \X Nat) /\ Len(l) = 0 /\ IsInjective(l)
      /\ \A x : x \notin Range(l)
  BY DEF IsInjective, Range
<1> HIDE DEF old, l
<1>6. g \in Stack(Nat) /\ Range(g) = Range(free_list) \cup Range(Chain(old))
  <2> DEFINE k == Chain(old)
  <2>1. /\ free_list \in Stack(Nat) /\ k \in Stack(Nat) /\ Range(free_list) \cap Range(k) = {}
        /\ g = free_list \o k
    BY <1>4, ZenonT(40)
  <2> HIDE DEF k, g
  <2>2. g \in Stack(Nat) /\ Range(g) = Range(free_list) \cup Range(k)
    BY ONLY <2>1, StackFree
  <2>3. QED
    BY <2>2, ZenonT(40) DEF k
<1> HIDE DEF g
<1>7. /\ conn \in Lives /\ conn.client = old.client /\ conn.state = "reading"
      /\ conn.read_buf_idx = old.read_buf_idx /\ conn.write_buf_idx = old.write_buf_idx
      /\ conn.read_chain = l
  <2>1. conn \in MioConnection /\ conn.client = old.client /\ conn.state = "reading"
        /\ conn.read_buf_idx = old.read_buf_idx /\ conn.write_buf_idx = old.write_buf_idx
        /\ conn.read_chain = old.read_chain /\ conn.input = l /\ conn.out = l /\ conn.written = 0
        /\ conn.write_chain = l /\ conn.chained = FALSE
    BY <1>1, <1>5, ZenonT(40) DEF Lives, MioConnection
  <2>2. old.read_chain = l
    BY <1>1, ZenonT(40) DEF Lives, l
  <2> HIDE DEF conn
  <2>3. Len(l) <= BufferSize /\ 0 <= Len(l)
    BY <1>5, ProcessingAssumption
  <2>4. QED
    BY <2>1, <2>2, <2>3, ZenonT(40) DEF Lives, l
<1> HIDE DEF conn
<1>8. Awaits(conn) = "readable" /\ Chain(conn) = l
  BY <1>7, ZenonT(40) DEF Awaits, Chain
<1>9. /\ Changed(registry, registry', conn.client, [token |-> id, interest |-> Awaits(conn)])
      /\ ready \subseteq ready' /\ ready' \subseteq ready \cup {conn.client}
      /\ conn.state = "reading" /\ ReadReady(conn.client) => conn.client \in ready'
  BY <1>2, <1>7, <1>8, ReregisterIs, ZenonT(40) DEF old
<1>10. Wakes(conn, s) => conn.client \in ready'
  BY <1>7, <1>9, ZenonT(40) DEF Wakes, Sends, ReadReady, old
<1>11. Balanced(id, conn, free_list')
  <2>1. IsInjective(Chain(conn)) /\ \A x : x \notin Range(Chain(conn))
    BY <1>5, <1>8, ZenonT(40)
  <2>2. \A x : (x \in Range(Chain(conn)) \/ x \in Range(g)) <=>
               (x \in Range(Chain(old)) \/ x \in Range(free_list))
    BY <1>6, <2>1, ZenonT(40)
  <2>3. QED
    BY <1>2, <1>6, <1>7, <2>1, <2>2, BalancedIs, ZenonT(40) DEF old
<1>12. Goes(id, conn, s)
  BY <1>2, <1>3, <1>7, <1>9, <1>10, <1>11, ZenonT(40) DEF Goes, Sends, old
<1>13. QED
  BY <1>12, ZenonT(40)

\* A part of the reply is written: the socket is full, or the rest waits for slices.
LEMMA PartlyWrittenIs ==
  ASSUME MioInv, NEW id \in DOMAIN connections, NEW s, Sends(id, s), s.peer # "reset",
         NEW n \in Nat, n > 0, ~ Finished(connections[id], n),
         connections[id].chained \/ SendBuffer - Len(s.outbox) = 0,
         connections' = [connections EXCEPT ![id].written = @ + n],
         UNCHANGED <<vacant, free_list, registry, ready>>,
         net' = [net EXCEPT ![connections[id].client] = s]
  PROVE  \E conn : Goes(id, conn, s)
<1> DEFINE old == connections[id]
           m == old.written + n
           conn == [old EXCEPT !.written = m]
<1>1. old \in Lives /\ old.state = "writing"
  BY KnownIs, ZenonT(40) DEF Sends
<1>2. connections' = [connections EXCEPT ![id] = conn]
  BY ZenonT(40)
<1>3. Changed(connections, connections', id, conn)
  BY <1>2, ZenonT(40) DEF Changed
<1>4. m \in Nat /\ m > 0 /\ m <= Len(old.out)
  <2>1. old.written \in Nat /\ Len(old.out) \in Nat /\ ~ (old.written + n >= Len(old.out))
    BY <1>1 DEF Lives, MioConnection, Finished
  <2>2. QED
    BY <2>1
<1>5. old.chained \/ SendBuffer - Len(s.outbox) = 0
  BY ZenonT(40)
<1> HIDE DEF old, m
<1>6. /\ conn \in Lives /\ conn.client = old.client /\ conn.state = "writing"
      /\ conn.read_buf_idx = old.read_buf_idx /\ conn.write_buf_idx = old.write_buf_idx
      /\ conn.write_chain = old.write_chain /\ conn.written = m /\ conn.chained = old.chained
  BY <1>1, <1>4, ZenonT(40) DEF Lives, MioConnection
<1> HIDE DEF conn
<1>7. Awaits(conn) = Awaits(old) /\ Chain(conn) = Chain(old)
  BY <1>1, <1>6, ZenonT(40) DEF Awaits, Chain
<1>8. Changed(registry, registry', conn.client, [token |-> id, interest |-> Awaits(conn)])
  BY <1>6, <1>7, SameRegistration, ZenonT(40) DEF old
<1>9. ~ Wakes(conn, s)
  BY <1>4, <1>5, <1>6 DEF Wakes
<1>10. Balanced(id, conn, free_list')
  <2>1. /\ Chain(old) \in Stack(Nat) /\ free_list \in Stack(Nat)
        /\ \A x : ~ (x \in Range(Chain(old)) /\ x \in Range(free_list))
    BY HeldIs, ZenonT(40) DEF old
  <2>2. QED
    BY <1>6, <1>7, <2>1, BalancedIs, ZenonT(40) DEF Stack, old
<1>11. Goes(id, conn, s)
  BY <1>3, <1>6, <1>8, <1>9, <1>10, ZenonT(40) DEF Goes, Sends, old
<1>12. QED
  BY <1>11, ZenonT(40)

\* The sockets after a write of n bytes.
Put(id, bytes, n) ==
  [net EXCEPT ![connections[id].client].outbox = @ \o SubSeq(bytes, 1, n)]

\* How many of the bytes there is room for.
Fits(id, bytes, n) == n > 0 /\ n = Min({Room(connections[id].client), Len(bytes)})

\* A write puts the n bytes that there is room for into the socket.
LEMMA WriteIs ==
  ASSUME MioInv, NEW id \in DOMAIN connections, connections[id].state = "writing",
         NEW bytes \in Seq(Nat \X Nat), NEW n, Fits(id, bytes, n)
  PROVE  /\ n \in Nat /\ n <= Len(bytes)
         /\ \E s : /\ Sends(id, s)
                   /\ Put(id, bytes, n) = [net EXCEPT ![connections[id].client] = s]
                   /\ n < Len(bytes) => SendBuffer - Len(s.outbox) = 0
<1> DEFINE c == connections[id].client
           outbox == net[c].outbox
           k == SendBuffer - Len(outbox)
           m == Len(bytes)
           t == SubSeq(bytes, 1, n)
           u == outbox \o t
           s == [net[c] EXCEPT !.outbox = u]
<1>1. /\ c \in Clients /\ net[c] \in Socket /\ outbox \in Seq(Nat \X Nat)
      /\ Len(outbox) \in Nat /\ m \in Nat /\ SendBuffer \in Nat
  <2>5. m \in Nat
    OBVIOUS
  <2>6. c \in Clients /\ net[c] \in Socket
    BY KnownIs, ZenonT(40)
  <2>1. c \in Clients /\ net[c] \in Socket /\ m \in Nat /\ SendBuffer \in Nat
    BY <2>5, <2>6, NetworkAssumption, ZenonT(40)
  <2>2. outbox \in Seq(Nat \X Nat)
    BY <2>1, SocketFields, ZenonT(40)
  <2> HIDE DEF outbox
  <2>3. Len(outbox) \in Nat
    BY <2>2
  <2>4. QED
    BY <2>1, <2>2, <2>3, ZenonT(40)
<1>2. n = Min({k, m}) /\ n > 0
  BY ZenonT(40) DEF Room, Fits
<1> HIDE DEF c, outbox
<1>3. k \in Int
  BY <1>1
<1>4. n \in Nat /\ n <= m /\ n <= k /\ (n < m => n = k)
  <2> HIDE DEF k, m
  <2>3. m \in Int
    BY <1>1
  <2>1. n \in {k, m} /\ n <= k /\ n <= m
    BY ONLY <1>2, <1>3, <2>3, LesserIs, ZenonT(40)
  <2>4. n > 0
    BY <1>2, ZenonT(40)
  <2>2. QED
    BY ONLY <1>3, <2>1, <2>3, <2>4
<1>5. t \in Seq(Nat \X Nat) /\ Len(t) = n
  <2>1. bytes \in Seq(Nat \X Nat) /\ n \in Nat /\ n <= Len(bytes)
    BY <1>4, ZenonT(40)
  <2>2. QED
    BY ONLY <2>1
<1> HIDE DEF t
<1>6. u \in Seq(Nat \X Nat) /\ Len(u) = Len(outbox) + Len(t)
  BY ONLY <1>1, <1>5, JoinIs, ZenonT(40)
<1>7. Len(u) = Len(outbox) + n
  BY <1>5, <1>6, ZenonT(40)
<1> HIDE DEF u
<1>8. /\ s \in Socket /\ s.server = net[c].server /\ s.inbox = net[c].inbox
      /\ s.peer = net[c].peer /\ s.outbox = u
  BY <1>1, <1>6, ZenonT(40) DEF Socket
<1>9. Put(id, bytes, n) = [net EXCEPT ![c] = s]
  BY ZenonT(40) DEF t, u, outbox, c, Put
<1> HIDE DEF s
<1>10. Sends(id, s)
  <2> DEFINE j == Len(outbox)
             l == Len(s.outbox)
  <2>1. j \in Nat /\ l = j + n /\ n <= SendBuffer - j
    BY <1>1, <1>4, <1>7, <1>8, ZenonT(40)
  <2> HIDE DEF j, l
  <2>2. l <= SendBuffer
    BY ONLY <1>1, <1>4, <2>1
  <2>3. QED
    BY <1>8, <2>2, ZenonT(40) DEF Sends, c, l
<1>11. n < m => SendBuffer - Len(s.outbox) = 0
  <2> DEFINE j == Len(outbox)
  <2>1. j \in Nat /\ Len(s.outbox) = j + n
    BY <1>1, <1>7, <1>8, ZenonT(40)
  <2>2. n < m => n = SendBuffer - j
    BY <1>4, ZenonT(40)
  <2> HIDE DEF j, m
  <2>3. QED
    BY ONLY <1>1, <1>4, <2>1, <2>2
<1>12. QED
  BY <1>4, <1>9, <1>10, <1>11, ZenonT(40) DEF c

\* What handle_writable does.
LEMMA WritableIs ==
  ASSUME MioInv, NEW id \in DOMAIN connections, connections[id].state = "writing", Writable(id)
  PROVE  Closes(id) \/ \E conn, s : Goes(id, conn, s)
<1> DEFINE old == connections[id]
           c == old.client
           bytes == Offered(old)
           n == Min({Room(c), Len(bytes)})
<1>1. \/ /\ (old.chained /\ bytes = <<>>) \/ (bytes # <<>> /\ ~ WriteReady(c))
         /\ UNCHANGED <<net, worker, ready>>
      \/ Fail(id)
      \/ /\ n > 0 /\ net[c].peer # "reset" /\ net' = Put(id, bytes, n)
         /\ \/ WriteComplete(id)
            \/ /\ ~ Finished(old, n) /\ connections' = [connections EXCEPT ![id].written = @ + n]
               /\ UNCHANGED <<vacant, free_list, registry, ready>>
  BY DEF Writable, Put
<1>2. old \in Lives
  BY KnownIs, ZenonT(40)
<1>3. /\ bytes \in Seq(Nat \X Nat) /\ (old.chained /\ old.written = 0 => bytes # <<>>)
      /\ ~ old.chained => Len(bytes) = Len(old.out) - old.written
  BY <1>2, OfferedIs, ZenonT(40)
<1>4. old.written \in Nat /\ Len(old.out) \in Nat
  BY <1>2 DEF Lives, MioConnection
<1> HIDE DEF bytes
<1>5. CASE /\ (old.chained /\ bytes = <<>>) \/ (bytes # <<>> /\ ~ WriteReady(c))
           /\ UNCHANGED <<net, worker, ready>>
  <2>1. ~ Wakes(old, net[c])
    BY <1>3, <1>4, <1>5 DEF Wakes, WriteReady, Room
  <2>2. QED
    BY <1>5, <2>1, IdleIs, ZenonT(40)
<1>6. CASE Fail(id)
  BY <1>6, FailIs, ZenonT(40)
<1> DEFINE k == n
<1>7. k = Min({Room(c), Len(bytes)})
  BY ZenonT(40)
<1> HIDE DEF k
<1>8. ASSUME k > 0, net[c].peer # "reset", net' = Put(id, bytes, k),
             \/ WriteComplete(id)
             \/ /\ ~ Finished(old, k) /\ connections' = [connections EXCEPT ![id].written = @ + k]
                /\ UNCHANGED <<vacant, free_list, registry, ready>>
      PROVE  Closes(id) \/ \E conn, s : Goes(id, conn, s)
  <2>7. Fits(id, bytes, k)
    BY <1>7, <1>8, ZenonT(40) DEF Fits
  <2>1. k \in Nat /\ k <= Len(bytes)
    BY <1>3, <2>7, WriteIs, ZenonT(40)
  <2>2. PICK s : /\ Sends(id, s) /\ Put(id, bytes, k) = [net EXCEPT ![c] = s]
                 /\ k < Len(bytes) => SendBuffer - Len(s.outbox) = 0
    BY <1>3, <2>7, WriteIs
  <2>3. net' = [net EXCEPT ![c] = s] /\ s.peer # "reset"
    BY <1>8, <2>2, ZenonT(40) DEF Sends
  <2>4. CASE WriteComplete(id)
    BY <2>2, <2>3, <2>4, WriteCompleteIs, ZenonT(40)
  <2>5. CASE /\ ~ Finished(old, k) /\ connections' = [connections EXCEPT ![id].written = @ + k]
             /\ UNCHANGED <<vacant, free_list, registry, ready>>
    <3>1. old.chained \/ SendBuffer - Len(s.outbox) = 0
      <4>1. CASE ~ old.chained
        <5>1. k < Len(bytes)
          BY <1>3, <1>4, <2>1, <2>5, <4>1 DEF Finished
        <5>2. QED
          BY <2>2, <5>1, ZenonT(40)
      <4>2. QED
        BY <4>1, ZenonT(40)
    <3>2. QED
      BY <1>8, <2>1, <2>2, <2>3, <2>5, <3>1, PartlyWrittenIs, ZenonT(40)
  <2>6. QED
    BY <1>8, <2>4, <2>5, ZenonT(40)
<1>9. QED
  BY <1>1, <1>5, <1>6, <1>8, ZenonT(40) DEF k

-----------------------------------------------------------------------------
(* The steps.                                                              *)

\* handle_connection_event: the event is the one that the connection waits for.
LEMMA HandleEventKeeps ==
  ASSUME MioInv, NEW e \in events, HandleEvent(e)
  PROVE  MioInv'
<1> DEFINE c == e.client
           id == registry[c].token
<1>1. c \in DOMAIN registry /\ e = Event(c) /\ c # Listener
  BY ZenonT(40) DEF HandleEvent, MioInv, EventsKnown
<1>2. /\ e.token = id /\ e.kind = registry[c].interest
      /\ id \in DOMAIN connections /\ connections[id].client = c
  <2>1. id \in DOMAIN connections /\ connections[id].client = c
    BY <1>1, ZenonT(40) DEF MioInv, Registered
  <2> DEFINE t == registry[c].token
             k == registry[c].interest
  <2>2. e = [client |-> c, token |-> t, kind |-> k]
    BY <1>1, ZenonT(40) DEF Event
  <2> HIDE DEF t, k
  <2>3. e.token = t /\ e.kind = k
    BY <2>2
  <2>4. QED
    BY <2>1, <2>3, ZenonT(40) DEF t, k
<1>3. e.kind = Awaits(connections[id])
  <2> DEFINE a == Awaits(connections[id])
  <2>1. registry[c] = [token |-> id, interest |-> a]
    BY <1>2, KnownIs, ZenonT(40)
  <2> HIDE DEF a
  <2>2. registry[c].interest = a
    <3> DEFINE r == registry[c]
               j == id
    <3>1. r = [token |-> j, interest |-> a]
      BY <2>1, ZenonT(40)
    <3> HIDE DEF r, j
    <3>2. r.interest = a
      BY <3>1, ZenonT(40)
    <3>3. QED
      BY <3>2, ZenonT(40) DEF r
  <2>3. QED
    BY <1>2, <2>2, ZenonT(40) DEF a
<1> HIDE DEF id
<1>4. Handled(e, id)
  BY <1>2, ZenonT(40) DEF Handled, HandleEvent
<1>5. connections[id].state \in {"reading", "writing"}
  <2>1. connections[id] \in Lives
    BY <1>2, KnownIs, ZenonT(40)
  <2>2. QED
    BY <2>1, ZenonT(40) DEF Lives, MioConnection
<1>6. \/ connections[id].state = "reading" /\ Readable(id)
      \/ connections[id].state = "writing" /\ Writable(id)
  BY <1>2, <1>3, <1>5, ZenonT(40) DEF HandleEvent, Awaits
<1>7. Closes(id) \/ \E conn, s : Goes(id, conn, s)
  BY <1>2, <1>6, ReadableIs, WritableIs, ZenonT(40)
<1>8. QED
  BY <1>4, <1>7, GoesKeeps, ClosesKeeps, ZenonT(40)

-----------------------------------------------------------------------------
(* The clients.                                                            *)

\* A connection's client is registered for what the connection waits for.
LEMMA InterestIs ==
  ASSUME MioInv, NEW id \in DOMAIN connections
  PROVE  Interested(connections[id].client, Awaits(connections[id]))
<1> DEFINE c == connections[id].client
           a == Awaits(connections[id])
           r == registry[c]
<1>1. r = [token |-> id, interest |-> a] /\ c \in DOMAIN registry
  BY KnownIs, ZenonT(40)
<1> HIDE DEF a, r
<1>2. r.interest = a
  BY <1>1, ZenonT(40)
<1>3. QED
  BY <1>1, <1>2, ZenonT(40) DEF Interested, a, r

\* One socket becomes s, and the worker's tables stay as they are.
Moves(c, s) ==
  /\ net[c].server # "open" \/ s.server = net[c].server
  /\ net' = [net EXCEPT ![c] = s] /\ UNCHANGED <<worker, events>> /\ accepting' \in BOOLEAN
  /\ Len(s.outbox) <= SendBuffer
  /\ ready \subseteq ready' /\ ready' \subseteq ready \cup {c, Listener}
  /\ \A id \in DOMAIN connections :
       connections[id].client = c /\ Wakes(connections[id], s)
         => c \in ready' \/ Wakes(connections[id], net[c])

\* A socket may change outside the worker as long as the kernel reports what
\* becomes possible.
LEMMA MovesKeeps ==
  ASSUME MioInv, NEW c \in Clients, NEW s, Moves(c, s), NetType', Waiting'
  PROVE  MioInv'
<1>1. /\ connections' = connections /\ vacant' = vacant /\ free_list' = free_list
      /\ registry' = registry /\ events' = events /\ accepting' \in BOOLEAN
      /\ ready \subseteq ready' /\ ready' \subseteq ready \cup {c, Listener}
  BY ZenonT(40) DEF Moves, worker
<1>2. net'[c] = s /\ \A d \in Clients \ {c} : net'[d] = net[d]
  BY ZenonT(40) DEF Moves, MioInv, NetType
<1>3. Tables'
  BY <1>1, ZenonT(40) DEF Tables, MioInv, Ids
<1>4. Books(free_list, connections)'
  BY <1>1, ZenonT(40) DEF Books, MioInv, pool_size
<1>5. Registered'
  <2>1. \A d \in DOMAIN registry : d \in Clients /\ net'[d].server = "open"
    BY <1>2, ZenonT(40) DEF MioInv, Registered, Moves
  <2>2. QED
    BY <1>1, <2>1, ZenonT(40) DEF MioInv, Registered
<1>6. Roomy'
  BY <1>2, ZenonT(40) DEF Roomy, MioInv, Moves
<1>7. EventsKnown'
  BY <1>1, ZenonT(40) DEF EventsKnown, MioInv, Event
<1>8. Awake'
  <2>1. SUFFICES ASSUME NEW id \in DOMAIN connections,
                        Wakes(connections[id], net'[connections[id].client])
                 PROVE  Announced(connections[id].client, ready', events)
    BY <1>1, ZenonT(40) DEF Awake
  <2>2. connections[id].client \in Clients
    BY KnownIs, ZenonT(40)
  <2>3. Wakes(connections[id], net[connections[id].client])
          => Announced(connections[id].client, ready, events)
    BY ZenonT(40) DEF MioInv, Awake
  <2>4. CASE connections[id].client = c
    BY <1>1, <1>2, <2>1, <2>3, <2>4, ZenonT(40) DEF Moves, Announced
  <2>5. CASE connections[id].client # c
    BY <1>1, <1>2, <2>1, <2>2, <2>3, <2>5, ZenonT(40) DEF Announced
  <2>6. QED
    BY <2>4, <2>5, ZenonT(40)
<1>9. QED
  BY <1>3, <1>4, <1>5, <1>6, <1>7, <1>8, ZenonT(40) DEF MioInv

\* A client that waits goes on waiting, whatever others do to their sockets.
LEMMA StillWaiting ==
  ASSUME MioInv, NEW c \in Clients, NEW s, s.server = net[c].server,
         net' = [net EXCEPT ![c] = s], backlog' = backlog
  PROVE  Waiting'
<1>1. Range(backlog) \subseteq Clients
  BY RangeIs, ZenonT(40) DEF MioInv, NetType
<1>2. \A d \in Clients : net'[d].server = net[d].server
  BY ZenonT(40) DEF MioInv, NetType
<1>3. QED
  BY <1>1, <1>2, ZenonT(40) DEF Waiting, MioInv

\* A client connects.
LEMMA ConnectKeeps ==
  ASSUME MioInv, NEW c \in Clients, ClientConnect(c)
  PROVE  MioInv'
<1> DEFINE s == [net[c] EXCEPT !.server = "waiting"]
<1>1. /\ net[c] \in Socket /\ net[c].server = "new" /\ net' = [net EXCEPT ![c] = s]
      /\ backlog' = Append(backlog, c) /\ net \in [Clients -> Socket]
      /\ ready' = ready \cup {Listener} /\ UNCHANGED <<worker, events, accepting>>
  BY ZenonT(40) DEF ClientConnect, Connect, MioInv, NetType
<1>2. s.server = "waiting" /\ s.outbox = net[c].outbox
  BY <1>1, ZenonT(40) DEF Socket
<1> HIDE DEF s
<1>3. NetType'
  BY ConnectType, ZenonT(40) DEF ClientConnect, MioInv
<1>4. c \notin Range(backlog) /\ backlog \in Stack(Clients)
  BY <1>1, ZenonT(40) DEF MioInv, Waiting, NetType, Stack
<1>5. Append(backlog, c) \in Stack(Clients) /\ Range(Append(backlog, c)) = Range(backlog) \cup {c}
  BY <1>4, QueuePut
<1>6. Waiting'
  <2>1. IsInjective(backlog') /\ Range(backlog') = Range(backlog) \cup {c}
    BY <1>1, <1>5, ZenonT(40) DEF Stack
  <2>2. Range(backlog) \subseteq Clients
    BY RangeIs, ZenonT(40) DEF MioInv, NetType
  <2>3. \A d \in Range(backlog) \cup {c} : net'[d].server = "waiting"
    BY <1>1, <1>2, <2>2, ZenonT(40) DEF MioInv, Waiting
  <2>4. QED
    BY <2>1, <2>3, ZenonT(40) DEF Waiting
<1>7. \A id \in DOMAIN connections : connections[id].client # c
  BY <1>1, KnownIs, ZenonT(40)
<1>8. Moves(c, s)
  BY <1>1, <1>2, <1>7, ZenonT(40) DEF Moves, MioInv, Roomy, Tables
<1>9. QED
  BY <1>3, <1>6, <1>8, MovesKeeps, ZenonT(40)

\* A client sends: a connection that is reading is told of it.
LEMMA SendKeeps ==
  ASSUME MioInv, NEW c \in Clients, ClientSend(c)
  PROVE  MioInv'
<1>1. net[c] \in Socket /\ NetType
  BY ZenonT(40) DEF MioInv, NetType
<1>2. PICK s : /\ net' = [net EXCEPT ![c] = s] /\ s.server = net[c].server
               /\ s.peer = net[c].peer /\ s.outbox = net[c].outbox
  <2>1. PICK upto, b : net' = [net EXCEPT ![c].sent = upto, ![c].inbox = b]
    BY <1>1, ZenonT(40) DEF ClientSend, Send, NetType
  <2> DEFINE s == [net[c] EXCEPT !.sent = upto, !.inbox = b]
  <2>2. net' = [net EXCEPT ![c] = s]
    BY <2>1, ZenonT(40)
  <2>3. s.server = net[c].server /\ s.peer = net[c].peer /\ s.outbox = net[c].outbox
    BY <1>1, ZenonT(40) DEF Socket
  <2>4. QED
    BY <2>2, <2>3, ZenonT(40)
<1>3. /\ ready' = IF Interested(c, "readable") THEN ready \cup {c} ELSE ready
      /\ UNCHANGED <<worker, events, accepting>> /\ backlog' = backlog
  BY ZenonT(40) DEF ClientSend, Send
<1>4. NetType'
  BY <1>1, SendType, ZenonT(40) DEF ClientSend
<1>5. Waiting'
  BY <1>2, <1>3, StillWaiting, ZenonT(40)
<1>6. ASSUME NEW id \in DOMAIN connections, connections[id].client = c, Wakes(connections[id], s)
      PROVE  c \in ready' \/ Wakes(connections[id], net[c])
  <2>1. Interested(c, Awaits(connections[id]))
    BY <1>6, InterestIs, ZenonT(40)
  <2>2. CASE connections[id].state = "reading"
    BY <1>3, <2>1, <2>2, ZenonT(40) DEF Awaits
  <2>3. CASE connections[id].state # "reading"
    BY <1>2, <1>6, <2>3, ZenonT(40) DEF Wakes
  <2>4. QED
    BY <2>2, <2>3, ZenonT(40)
<1>7. Moves(c, s)
  BY <1>2, <1>3, <1>6, ZenonT(40) DEF Moves, MioInv, Roomy, Tables
<1>8. QED
  BY <1>4, <1>5, <1>7, MovesKeeps, ZenonT(40)

\* A client closes its side: a connection that is reading is told of it, and one
\* that is writing if nothing more can be written.
LEMMA LeaveKeeps ==
  ASSUME MioInv, NEW c \in Clients, ClientLeave(c)
  PROVE  MioInv'
<1>1. net[c] \in Socket /\ NetType
  BY ZenonT(40) DEF MioInv, NetType
<1>2. PICK s : /\ net' = [net EXCEPT ![c] = s] /\ s.server = net[c].server
               /\ s.outbox = net[c].outbox /\ net'[c] = s
  <2>1. PICK how, b : net' = [net EXCEPT ![c].peer = how, ![c].inbox = b]
    BY <1>1, ZenonT(40) DEF ClientLeave, Leave, NetType
  <2> DEFINE s == [net[c] EXCEPT !.peer = how, !.inbox = b]
  <2>2. net' = [net EXCEPT ![c] = s] /\ net'[c] = s
    BY <1>1, <2>1, ZenonT(40) DEF NetType
  <2>3. s.server = net[c].server /\ s.outbox = net[c].outbox
    BY <1>1, ZenonT(40) DEF Socket
  <2>4. QED
    BY <2>2, <2>3, ZenonT(40)
<1>3. /\ ready' = IF Interested(c, "readable") \/ (c \in DOMAIN registry /\ s.peer = "reset")
                  THEN ready \cup {c} ELSE ready
      /\ UNCHANGED <<worker, events, accepting>> /\ backlog' = backlog
  BY <1>2, ZenonT(40) DEF ClientLeave, Leave
<1>4. NetType'
  BY <1>1, LeaveType, ZenonT(40) DEF ClientLeave
<1>5. Waiting'
  BY <1>2, <1>3, StillWaiting, ZenonT(40)
<1>6. ASSUME NEW id \in DOMAIN connections, connections[id].client = c, Wakes(connections[id], s)
      PROVE  c \in ready' \/ Wakes(connections[id], net[c])
  <2>1. Interested(c, Awaits(connections[id])) /\ c \in DOMAIN registry
    BY <1>6, InterestIs, ZenonT(40) DEF Interested
  <2>2. CASE connections[id].state = "reading"
    BY <1>3, <2>1, <2>2, ZenonT(40) DEF Awaits
  <2>3. CASE connections[id].state # "reading"
    BY <1>2, <1>3, <1>6, <2>1, <2>3, ZenonT(40) DEF Wakes
  <2>4. QED
    BY <2>2, <2>3, ZenonT(40)
<1>7. Moves(c, s)
  BY <1>2, <1>3, <1>6, ZenonT(40) DEF Moves, MioInv, Roomy, Tables
<1>8. QED
  BY <1>4, <1>5, <1>7, MovesKeeps, ZenonT(40)

\* A client reads some of what there is: a connection that is writing is told of it if
\* there was no room before.
LEMMA ReceiveKeeps ==
  ASSUME MioInv, NEW c \in Clients, ClientReceive(c)
  PROVE  MioInv'
<1>1. net[c] \in Socket /\ NetType /\ net[c].outbox \in Seq(Nat \X Nat)
  BY SocketFields, ZenonT(40) DEF MioInv, NetType
<1>2. PICK s : /\ net' = [net EXCEPT ![c] = s] /\ s.server = net[c].server
               /\ s.inbox = net[c].inbox
               /\ Len(s.outbox) \in Nat /\ Len(s.outbox) <= Len(net[c].outbox)
  <2> DEFINE out == net[c].outbox
             rest(n) == SubSeq(out, n + 1, Len(out))
  <2>1. PICK n \in 1 .. Len(out) :
          \E g : net' = [net EXCEPT ![c].got = g, ![c].outbox = rest(n)]
    BY <1>1, ZenonT(40) DEF ClientReceive, Receive, NetType
  <2>g. PICK g : net' = [net EXCEPT ![c].got = g, ![c].outbox = rest(n)]
    BY <2>1, ZenonT(40)
  <2>2. Len(rest(n)) = Len(out) - n
    BY <1>1, CutType, ZenonT(40)
  <2>3. Len(rest(n)) \in Nat /\ Len(rest(n)) <= Len(out)
    <3>1. Len(out) \in Nat
      BY <1>1
    <3> HIDE DEF rest
    <3>2. QED
      BY <2>1, <2>2, <3>1
  <2> DEFINE s == [net[c] EXCEPT !.got = g, !.outbox = rest(n)]
  <2>4. net' = [net EXCEPT ![c] = s]
    BY <2>g, ZenonT(40)
  <2>5. s.server = net[c].server /\ s.inbox = net[c].inbox /\ s.outbox = rest(n)
    BY <1>1, ZenonT(40) DEF Socket
  <2> HIDE DEF s, rest
  <2>6. QED
    BY <2>3, <2>4, <2>5, ZenonT(40)
<1>3. /\ ready' = IF Interested(c, "writable") /\ Room(c) = 0 THEN ready \cup {c} ELSE ready
      /\ UNCHANGED <<worker, events, accepting>> /\ backlog' = backlog
  BY ZenonT(40) DEF ClientReceive, Receive
<1>4. NetType'
  BY <1>1, ReceiveType, ZenonT(40) DEF ClientReceive
<1>5. Waiting'
  BY <1>2, <1>3, StillWaiting, ZenonT(40)
<1>6. ASSUME NEW id \in DOMAIN connections, connections[id].client = c, Wakes(connections[id], s)
      PROVE  c \in ready' \/ Wakes(connections[id], net[c])
  <2>1. Interested(c, Awaits(connections[id]))
    BY <1>6, InterestIs, ZenonT(40)
  <2>2. CASE connections[id].state = "reading"
    BY <1>2, <1>6, <2>2, ZenonT(40) DEF Wakes
  <2>3. CASE connections[id].state # "reading"
    <3>1. Len(net[c].outbox) \in Nat /\ Len(net[c].outbox) <= SendBuffer /\ SendBuffer \in Nat
      BY <1>1, NetworkAssumption DEF MioInv, Roomy
    <3>2. Room(c) = 0 \/ SendBuffer - Len(net[c].outbox) > 0
      BY <3>1 DEF Room
    <3>3. CASE Room(c) = 0
      BY <1>3, <2>1, <2>3, <3>3, ZenonT(40) DEF Awaits
    <3>4. CASE SendBuffer - Len(net[c].outbox) > 0
      BY <1>6, <2>3, <3>4, ZenonT(40) DEF Wakes
    <3>5. QED
      BY <3>2, <3>3, <3>4, ZenonT(40)
  <2>4. QED
    BY <2>2, <2>3, ZenonT(40)
<1>7. Moves(c, s)
  <2>1. Len(s.outbox) <= SendBuffer
    <3>1. Len(net[c].outbox) \in Nat /\ Len(net[c].outbox) <= SendBuffer /\ SendBuffer \in Nat
      BY <1>1, NetworkAssumption DEF MioInv, Roomy
    <3>2. QED
      BY <1>2, <3>1
  <2>2. QED
    BY <1>2, <1>3, <1>6, <2>1, ZenonT(40) DEF Moves, MioInv, Tables
<1>8. QED
  BY <1>4, <1>5, <1>7, MovesKeeps, ZenonT(40)

-----------------------------------------------------------------------------
(* The poll.                                                               *)

\* What an event is about.
LEMMA EventIs ==
  ASSUME NEW x
  PROVE  Event(x).client = x
<1> DEFINE t == registry[x].token
           k == registry[x].interest
<1>1. Event(x) = IF x = Listener THEN [client |-> Listener]
                 ELSE [client |-> x, token |-> t, kind |-> k]
  BY ZenonT(40) DEF Event
<1> HIDE DEF t, k
<1>2. QED
  BY <1>1

\* What is ready is reported, if it still holds; a connection's wake-up does.
LEMMA PollKeeps ==
  ASSUME MioInv, Poll
  PROVE  MioInv'
<1>1. PICK reported : /\ reported \subseteq ready
                      /\ events' = {Event(x) : x \in {y \in reported : Holds(y)}}
                      /\ ready' = ready \ reported
  BY ZenonT(40) DEF Poll, kSubset
<1>2. /\ connections' = connections /\ vacant' = vacant /\ free_list' = free_list
      /\ registry' = registry /\ net' = net /\ backlog' = backlog /\ accepting' = accepting
      /\ events = {}
  BY ZenonT(40) DEF Poll, worker
<1>3. NetType' /\ Tables' /\ Registered' /\ Waiting' /\ Roomy' /\ Books(free_list, connections)'
  <2>1. NetType' /\ Registered' /\ Waiting' /\ Roomy'
    BY <1>2, ZenonT(40) DEF MioInv, NetType, Registered, Waiting, Roomy
  <2>2. Tables'
    BY <1>1, <1>2, ZenonT(40) DEF MioInv, Tables, Ids
  <2>3. Books(free_list, connections)'
    BY <1>2, ZenonT(40) DEF MioInv, Books, pool_size
  <2>4. QED
    BY <2>1, <2>2, <2>3, ZenonT(40)
<1>4. EventsKnown'
  <2>1. SUFFICES ASSUME NEW e \in events'
                 PROVE  (e.client = Listener \/ e.client \in DOMAIN registry) /\ e = Event(e.client)
    BY <1>2, ZenonT(40) DEF EventsKnown, Event
  <2>2. PICK x \in reported : Holds(x) /\ e = Event(x)
    BY <1>1, <2>1, ZenonT(40)
  <2>3. e.client = x
    BY <2>2, EventIs, ZenonT(40)
  <2>4. x = Listener \/ x \in DOMAIN registry
    BY <2>2, ZenonT(40) DEF Holds, Interested
  <2>5. QED
    BY <2>2, <2>3, <2>4, ZenonT(40)
<1>5. Awake'
  <2>1. SUFFICES ASSUME NEW id \in DOMAIN connections,
                        Wakes(connections[id], net[connections[id].client])
                 PROVE  Announced(connections[id].client, ready', events')
    BY <1>2, ZenonT(40) DEF Awake
  <2> DEFINE c == connections[id].client
  <2>2. c \in ready
    BY <1>2, <2>1, ZenonT(40) DEF MioInv, Awake, Announced
  <2>3. Holds(c)
    <3>1. c # Listener /\ Interested(c, Awaits(connections[id]))
      BY KnownIs, InterestIs, MioAssumption, ZenonT(40)
    <3>2. QED
      BY <2>1, <3>1, ZenonT(40) DEF Holds, Wakes, Awaits, ReadReady, WriteReady, Room
  <2>4. CASE c \in reported
    <3>1. Event(c) \in events' /\ Event(c).client = c
      BY <1>1, <2>3, <2>4, EventIs, ZenonT(40)
    <3>2. QED
      BY <3>1, ZenonT(40) DEF Announced
  <2>5. CASE c \notin reported
    BY <1>1, <2>2, <2>5, ZenonT(40) DEF Announced
  <2>6. QED
    BY <2>4, <2>5, ZenonT(40)
<1>6. QED
  BY <1>3, <1>4, <1>5, ZenonT(40) DEF MioInv

-----------------------------------------------------------------------------
(* accept_connections.                                                     *)

\* The connection of a client that is admitted, with its two buffers.
Fresh(c, bufs) ==
  [client |-> c, state |-> "reading", input |-> <<>>, out |-> <<>>,
   written |-> 0, chained |-> FALSE, read_buf_idx |-> bufs[1],
   write_buf_idx |-> bufs[2], read_chain |-> <<>>, write_chain |-> <<>>]

\* It is one of those the slab is meant for, and holds what the free list lost.
LEMMA FreshIs ==
  ASSUME NEW c \in Clients, NEW f \in Stack(Nat), CanAlloc(f, 2)
  PROVE  LET conn == Fresh(c, AllocMany(f, 2))
         IN  /\ conn \in Lives /\ conn.client = c /\ conn.state = "reading"
             /\ AfterAlloc(f, 2) \in Stack(Nat) /\ IsInjective(BuffersOf(conn))
             /\ \A x : ~ (x \in Range(BuffersOf(conn)) /\ x \in Range(AfterAlloc(f, 2)))
             /\ \A x : (x \in Range(BuffersOf(conn)) \/ x \in Range(AfterAlloc(f, 2)))
                         <=> x \in Range(f)
<1> DEFINE b == AllocMany(f, 2)
           g == AfterAlloc(f, 2)
           conn == Fresh(c, b)
<1>1. /\ g \in Stack(Nat) /\ b \in Stack(Nat) /\ Len(b) = 2
      /\ Range(g) \cap Range(b) = {} /\ Range(g) \cup Range(b) = Range(f)
  BY StackAlloc, ZenonT(40)
<1> HIDE DEF b, g
<1>2. b \in Seq(Nat) /\ IsInjective(b)
  BY <1>1, ZenonT(40) DEF Stack
<1>3. /\ b[1] \in Nat /\ b[2] \in Nat /\ b[1] # b[2]
      /\ \A x : x \in Range(b) <=> x = b[1] \/ x = b[2]
  <2>1. /\ DOMAIN b = 1 .. 2 /\ \A i \in 1 .. 2 : b[i] \in Nat
        /\ \A x : x \in Range(b) <=> \E i \in 1 .. 2 : b[i] = x
        /\ \A i, k \in 1 .. 2 : b[i] = b[k] => i = k
    BY <1>1, <1>2, RangeIs, ZenonT(40)
  <2>2. 1 \in 1 .. 2 /\ 2 \in 1 .. 2 /\ \A i \in 1 .. 2 : i = 1 \/ i = 2
    OBVIOUS
  <2>3. QED
    BY <2>1, <2>2
<1>4. /\ conn \in Lives /\ conn.client = c /\ conn.state = "reading"
      /\ conn.read_buf_idx = b[1] /\ conn.write_buf_idx = b[2] /\ conn.read_chain = <<>>
  <2>1. <<>> \in Seq(Nat) /\ <<>> \in Seq(Nat \X Nat) /\ Len(<<>>) = 0 /\ BufferSize >= 0
    BY ProcessingAssumption
  <2>2. conn \in MioConnection
    BY <1>3, <2>1, ZenonT(40) DEF Fresh, MioConnection
  <2>3. QED
    BY <2>1, <2>2 DEF Fresh, Lives
<1> HIDE DEF conn
<1>5. /\ IsInjective(BuffersOf(conn))
      /\ \A x : x \in Range(BuffersOf(conn)) <=> x \in Range(b)
  <2> DEFINE k == Chain(conn)
  <2>1. IsInjective(k) /\ \A x : x \notin Range(k)
    BY <1>4 DEF Chain, IsInjective, Range
  <2>2. /\ \A x : x \in Range(BuffersOf(conn)) <=> x = b[1] \/ x = b[2] \/ x \in Range(k)
        /\ IsInjective(BuffersOf(conn)) <=>
             b[1] # b[2] /\ IsInjective(k) /\ b[1] \notin Range(k) /\ b[2] \notin Range(k)
    BY <1>4, BuffersIs, ZenonT(40)
  <2> HIDE DEF k
  <2>3. QED
    BY <1>3, <2>1, <2>2, ZenonT(40)
<1>6. QED
  BY <1>1, <1>4, <1>5, ZenonT(40) DEF b, g, conn

\* The backlog's first client leaves it.
LEMMA BacklogIs ==
  ASSUME MioInv, backlog # <<>>
  PROVE  LET c == Head(backlog)
         IN  /\ c \in Clients /\ net[c] \in Socket /\ net[c].server = "waiting"
             /\ c \notin DOMAIN registry
             /\ \A id \in DOMAIN connections : connections[id].client \in Clients \ {c}
             /\ Tail(backlog) \in Seq(Clients) /\ IsInjective(Tail(backlog))
             /\ \A d \in Range(Tail(backlog)) : d \in Clients \ {c} /\ net[d].server = "waiting"
<1> DEFINE c == Head(backlog)
<1>1. backlog \in Stack(Clients)
  BY ZenonT(40) DEF MioInv, NetType, Waiting, Stack
<1>2. /\ c \in Range(backlog) /\ c \in Clients /\ Tail(backlog) \in Stack(Clients)
      /\ Range(Tail(backlog)) = Range(backlog) \ {c}
  BY <1>1, QueueTake, ZenonT(40)
<1>3. Range(backlog) \subseteq Clients
  BY RangeIs, ZenonT(40) DEF MioInv, NetType
<1> HIDE DEF c
<1>4. net[c].server = "waiting" /\ net[c] \in Socket
  BY <1>2, ZenonT(40) DEF MioInv, Waiting, NetType
<1>5. c \notin DOMAIN registry
  BY <1>4, ZenonT(40) DEF MioInv, Registered
<1>6. \A id \in DOMAIN connections : connections[id].client \in Clients \ {c}
  BY <1>4, KnownIs, ZenonT(40)
<1>7. \A d \in Range(Tail(backlog)) : d \in Clients \ {c} /\ net[d].server = "waiting"
  BY <1>2, <1>3, ZenonT(40) DEF MioInv, Waiting
<1>8. QED
  BY <1>2, <1>4, <1>5, <1>6, <1>7, ZenonT(40) DEF c, Stack

\* The sockets and the backlog after accept, which changes one socket.
LEMMA AcceptedNet ==
  ASSUME MioInv, backlog # <<>>, NEW s \in Socket, backlog' = Tail(backlog),
         net' = [net EXCEPT ![Head(backlog)] = s]
  PROVE  NetType' /\ Waiting'
<1> DEFINE c == Head(backlog)
<1>1. /\ c \in Clients /\ Tail(backlog) \in Seq(Clients) /\ IsInjective(Tail(backlog))
      /\ \A d \in Range(Tail(backlog)) : d \in Clients \ {c} /\ net[d].server = "waiting"
  BY BacklogIs, ZenonT(40)
<1> HIDE DEF c
<1>2. \A d \in Clients \ {c} : net'[d] = net[d]
  BY ZenonT(40) DEF MioInv, NetType, c
<1>3. NetType'
  BY <1>1, ZenonT(40) DEF MioInv, NetType, c
<1>4. Waiting'
  BY <1>1, <1>2, ZenonT(40) DEF Waiting
<1>5. QED
  BY <1>3, <1>4, ZenonT(40)

\* A client is turned away.
LEMMA DropKeeps ==
  ASSUME MioInv, backlog # <<>>, backlog' = Tail(backlog),
         net' = [net EXCEPT ![Head(backlog)].server = "closed", ![Head(backlog)].inbox = <<>>],
         UNCHANGED <<worker, ready, events>>, accepting' \in BOOLEAN
  PROVE  MioInv'
<1> DEFINE c == Head(backlog)
           s == [net[c] EXCEPT !.server = "closed", !.inbox = <<>>]
<1>1. /\ c \in Clients /\ net[c] \in Socket /\ net[c].server = "waiting"
      /\ \A id \in DOMAIN connections : connections[id].client \in Clients \ {c}
  BY BacklogIs, ZenonT(40)
<1>2. net' = [net EXCEPT ![c] = s]
  BY ZenonT(40)
<1> HIDE DEF c
<1>3. s \in Socket /\ s.outbox = net[c].outbox
  <2>1. <<>> \in Seq(Nat)
    OBVIOUS
  <2>2. s \in Socket
    BY <1>1, <2>1, SocketUpdates, ZenonT(40)
  <2>3. QED
    BY <1>1, <2>2, ZenonT(40) DEF Socket
<1> HIDE DEF s
<1>4. NetType' /\ Waiting'
  BY <1>2, <1>3, AcceptedNet, ZenonT(40) DEF c
<1>5. Len(s.outbox) <= SendBuffer
  BY <1>1, <1>3, ZenonT(40) DEF MioInv, Roomy
<1>6. Moves(c, s)
  BY <1>1, <1>2, <1>5, ZenonT(40) DEF Moves, worker
<1>7. QED
  BY <1>1, <1>4, <1>6, MovesKeeps, ZenonT(40)

\* A client is admitted as connection id.
Admits(c, id, conn) ==
  /\ CanAlloc(free_list, 2) /\ Cardinality(DOMAIN connections) < MaxConnections
  /\ id = AllocMany(vacant, 1)[1] /\ conn = Fresh(c, AllocMany(free_list, 2))
  /\ net' = [net EXCEPT ![c].server = "open"]
  /\ connections' = Occupy(connections, id, conn) /\ vacant' = AfterAlloc(vacant, 1)
  /\ free_list' = AfterAlloc(free_list, 2)
  /\ registry' = Occupy(registry, c, [token |-> id, interest |-> "readable"])
  /\ ready' = IF ReadReady(c) THEN ready \cup {c} ELSE ready

\* The slab and the books when a client is admitted.
LEMMA AdmitTables ==
  ASSUME MioInv, NEW c \in Clients, NEW id, NEW conn, Admits(c, id, conn), accepting' \in BOOLEAN
  PROVE  /\ Tables' /\ Books(free_list, connections)' /\ id \notin DOMAIN connections
         /\ conn \in Lives /\ conn.client = c /\ conn.state = "reading"
<1>1. /\ conn \in Lives /\ conn.client = c /\ conn.state = "reading"
      /\ free_list' \in Stack(Nat) /\ IsInjective(BuffersOf(conn))
      /\ \A x : ~ (x \in Range(BuffersOf(conn)) /\ x \in Range(free_list'))
      /\ \A x : (x \in Range(BuffersOf(conn)) \/ x \in Range(free_list')) <=> x \in Range(free_list)
  BY FreshIs, ZenonT(40) DEF MioInv, Tables, Admits
<1>2. /\ id \in Ids \ DOMAIN connections /\ Slots(connections', vacant', Ids, Lives)
  <2> DEFINE f == connections
             v == vacant
  <2>1. Slots(f, v, Ids, Lives) /\ Ids \in SUBSET Nat /\ MaxConnections \in Nat
    BY MioAssumption DEF MioInv, Tables, Ids
  <2>2. /\ Cardinality(DOMAIN f) < MaxConnections /\ id = AllocMany(v, 1)[1]
        /\ connections' = Occupy(f, id, conn) /\ vacant' = AfterAlloc(v, 1)
    BY ZenonT(40) DEF Admits
  <2> HIDE DEF f, v
  <2>3. CanAlloc(v, 1)
    BY <2>1, <2>2, SlotLeft, ZenonT(40) DEF Ids
  <2>4. id \in Ids \ DOMAIN f /\ Slots(Occupy(f, id, conn), AfterAlloc(v, 1), Ids, Lives)
    BY <1>1, <2>1, <2>2, <2>3, SlotsTake, ZenonT(40)
  <2>5. QED
    BY <2>2, <2>4, ZenonT(40) DEF f
<1>3. Tables'
  BY <1>1, <1>2, ZenonT(40) DEF Tables, MioInv, Admits, Ids
<1>4. Books(free_list', connections')
  <2> DEFINE f == free_list
             g == free_list'
             H == [i \in DOMAIN connections |-> BuffersOf(connections[i])]
             K == [i \in DOMAIN connections' |-> BuffersOf(connections'[i])]
             own == BuffersOf(conn)
  <2>1. Partitioned(f, H, pool_size)
    BY ZenonT(40) DEF MioInv, Books
  <2>2. /\ DOMAIN K \ {id} = DOMAIN H \ {id} /\ id \in DOMAIN K /\ id \notin DOMAIN H
        /\ K[id] = own /\ \A p \in DOMAIN H \ {id} : K[p] = H[p]
    BY <1>2, ZenonT(40) DEF Admits, Occupy
  <2>3. /\ IsInjective(g) /\ IsInjective(own) /\ \A x : ~ (x \in Range(own) /\ x \in Range(g))
        /\ \A x : (x \in Range(own) \/ x \in Range(g)) <=> x \in Range(f)
    BY <1>1, ZenonT(40) DEF Stack
  <2> HIDE DEF f, g, H, K, own
  <2>4. /\ IsInjective(g) /\ IsInjective(K[id]) /\ Range(K[id]) \cap Range(g) = {}
        /\ Range(g) \cup (IF id \in DOMAIN K THEN Range(K[id]) ELSE {})
             = Range(f) \cup (IF id \in DOMAIN H THEN Range(H[id]) ELSE {})
    BY <2>2, <2>3, ZenonT(40)
  <2>5. Partitioned(g, K, pool_size)
    BY ONLY <2>1, <2>2, <2>4, PartitionMove, ZenonT(40)
  <2>6. QED
    BY <2>5, ZenonT(40) DEF Books, g, K
<1>5. QED
  BY <1>1, <1>2, <1>3, <1>4, ZenonT(40) DEF Books, pool_size

\* The registrations, the events and the readiness when a client is admitted:
\* bytes that arrived before the registration are reported with it.
LEMMA AdmitKnown ==
  ASSUME MioInv, backlog # <<>>, NEW c, c = Head(backlog), NEW id, NEW conn,
         Admits(c, id, conn), events' = events, id \notin DOMAIN connections,
         conn.client = c, conn.state = "reading"
  PROVE  Registered' /\ Roomy' /\ EventsKnown' /\ Awake'
<1> DEFINE r == [token |-> id, interest |-> "readable"]
<1>1. /\ c \in Clients /\ net[c] \in Socket /\ c \notin DOMAIN registry
      /\ \A i \in DOMAIN connections : connections[i].client \in Clients \ {c}
  BY BacklogIs, ZenonT(40)
<1>2. /\ DOMAIN connections' = DOMAIN connections \cup {id} /\ connections'[id] = conn
      /\ \A i \in DOMAIN connections : connections'[i] = connections[i]
  BY ZenonT(40) DEF Admits, Occupy
<1>3. /\ DOMAIN registry' = DOMAIN registry \cup {c} /\ registry'[c] = r
      /\ \A d \in DOMAIN registry : registry'[d] = registry[d]
  BY <1>1, ZenonT(40) DEF Admits, Occupy
<1>4. /\ net'[c].server = "open" /\ net'[c].inbox = net[c].inbox
      /\ net'[c].outbox = net[c].outbox /\ \A d \in Clients \ {c} : net'[d] = net[d]
  <2> DEFINE s == [net[c] EXCEPT !.server = "open"]
  <2>1. net' = [net EXCEPT ![c] = s] /\ net \in [Clients -> Socket]
    BY ZenonT(40) DEF Admits, MioInv, NetType
  <2>2. s.server = "open" /\ s.inbox = net[c].inbox /\ s.outbox = net[c].outbox
    BY <1>1, ZenonT(40) DEF Socket
  <2> HIDE DEF s
  <2>3. QED
    BY <1>1, <2>1, <2>2, ZenonT(40)
<1>5. r.token = id /\ r = [token |-> id, interest |-> Awaits(conn)]
  BY ZenonT(40) DEF Awaits
<1> HIDE DEF r
<1>6. Registered'
  <2>1. DOMAIN registry' \subseteq Clients
    BY <1>1, <1>3, ZenonT(40) DEF MioInv, Registered
  <2>2. ASSUME NEW i \in DOMAIN connections'
        PROVE  /\ connections'[i].client \in DOMAIN registry'
               /\ registry'[connections'[i].client]
                    = [token |-> i, interest |-> Awaits(connections'[i])]
    <3>1. CASE i = id
      BY <1>2, <1>3, <1>5, <3>1, ZenonT(40)
    <3>2. CASE i # id
      BY <1>2, <1>3, <2>2, <3>2 DEF MioInv, Registered
    <3>3. QED
      BY <3>1, <3>2, ZenonT(40)
  <2>3. ASSUME NEW d \in DOMAIN registry'
        PROVE  /\ net'[d].server = "open" /\ registry'[d].token \in DOMAIN connections'
               /\ connections'[registry'[d].token].client = d
    <3>1. CASE d = c
      BY <1>2, <1>3, <1>4, <1>5, <3>1, ZenonT(40)
    <3>2. CASE d # c
      <4>1. d \in DOMAIN registry /\ registry'[d] = registry[d]
        BY <1>3, <2>3, <3>2, ZenonT(40)
      <4>2. /\ d \in Clients /\ net[d].server = "open"
            /\ registry[d].token \in DOMAIN connections
            /\ connections[registry[d].token].client = d
        BY <4>1, ZenonT(40) DEF MioInv, Registered
      <4>3. QED
        BY <1>2, <1>4, <3>2, <4>1, <4>2, ZenonT(40)
    <3>3. QED
      BY <3>1, <3>2, ZenonT(40)
  <2>4. QED
    BY <2>1, <2>2, <2>3, ZenonT(40) DEF Registered
<1>7. Roomy'
  BY <1>1, <1>4, ZenonT(40) DEF MioInv, Roomy
<1>8. EventsKnown'
  BY <1>1, <1>3, ZenonT(40) DEF MioInv, EventsKnown, Event
<1>9. Awake'
  <2>1. SUFFICES ASSUME NEW i \in DOMAIN connections',
                        Wakes(connections'[i], net'[connections'[i].client])
                 PROVE  Announced(connections'[i].client, ready', events)
    BY ZenonT(40) DEF Awake
  <2>2. /\ ready' = IF ReadReady(c) THEN ready \cup {c} ELSE ready
    BY ZenonT(40) DEF Admits
  <2>3. CASE i = id
    BY <1>2, <1>4, <2>1, <2>2, <2>3, ZenonT(40) DEF Wakes, ReadReady, Announced
  <2>4. CASE i # id
    BY <1>1, <1>2, <1>4, <2>1, <2>2, <2>4, ZenonT(40) DEF MioInv, Awake, Announced
  <2>5. QED
    BY <2>3, <2>4, ZenonT(40)
<1>10. QED
  BY <1>6, <1>7, <1>8, <1>9, ZenonT(40)

\* A client is admitted.
LEMMA AdmitKeeps ==
  ASSUME MioInv, backlog # <<>>, NEW c, c = Head(backlog), NEW id, NEW conn,
         Admits(c, id, conn), backlog' = Tail(backlog), events' = events, accepting' \in BOOLEAN
  PROVE  MioInv'
<1>1. c \in Clients /\ net[c] \in Socket
  BY BacklogIs, ZenonT(40)
<1>2. /\ Tables' /\ Books(free_list, connections)' /\ id \notin DOMAIN connections
      /\ conn.client = c /\ conn.state = "reading"
  BY <1>1, AdmitTables, ZenonT(40)
<1>3. Registered' /\ Roomy' /\ EventsKnown' /\ Awake'
  BY <1>2, AdmitKnown, ZenonT(40)
<1>4. NetType' /\ Waiting'
  <2> DEFINE s == [net[c] EXCEPT !.server = "open"]
  <2>1. s \in Socket
    BY <1>1, SocketUpdates, ZenonT(40)
  <2>2. net' = [net EXCEPT ![c] = s]
    BY ZenonT(40) DEF Admits
  <2> HIDE DEF s
  <2>3. QED
    BY <2>1, <2>2, AcceptedNet, ZenonT(40)
<1>5. QED
  BY <1>2, <1>3, <1>4, ZenonT(40) DEF MioInv

\* A turn of the loop of accept_connections, or its end.
LEMMA AcceptKeeps ==
  ASSUME MioInv, Accept
  PROVE  MioInv'
<1>1. CASE backlog # <<>> /\ AcceptOne /\ accepting' = TRUE /\ events' = events
  <2> DEFINE c == Head(backlog)
             id == AllocMany(vacant, 1)[1]
             conn == Fresh(c, AllocMany(free_list, 2))
  <2>1. backlog' = Tail(backlog)
    BY <1>1, ZenonT(40) DEF AcceptOne
  <2>2. \/ /\ net' = [net EXCEPT ![c].server = "closed", ![c].inbox = <<>>]
           /\ UNCHANGED <<worker, ready>>
        \/ Admits(c, id, conn)
    BY <1>1, ZenonT(40) DEF AcceptOne, Admits, Fresh
  <2>3. CASE /\ net' = [net EXCEPT ![c].server = "closed", ![c].inbox = <<>>]
             /\ UNCHANGED <<worker, ready>>
    BY <1>1, <2>1, <2>3, DropKeeps, ZenonT(40)
  <2> HIDE DEF c, id, conn
  <2>4. CASE Admits(c, id, conn)
    BY <1>1, <2>1, <2>4, AdmitKeeps, ZenonT(40) DEF c
  <2>5. QED
    BY <2>2, <2>3, <2>4, ZenonT(40) DEF c
<1>2. CASE /\ accepting' = FALSE /\ events' = events \ {[client |-> Listener]}
           /\ UNCHANGED <<net, backlog, worker, ready>>
  <2>1. /\ connections' = connections /\ vacant' = vacant /\ free_list' = free_list
        /\ registry' = registry /\ net' = net /\ backlog' = backlog /\ ready' = ready
        /\ accepting' \in BOOLEAN
    BY <1>2, ZenonT(40) DEF worker
  <2>2. NetType' /\ Registered' /\ Waiting' /\ Roomy'
    BY <2>1, ZenonT(40) DEF MioInv, NetType, Registered, Waiting, Roomy
  <2>3. Tables'
    BY <2>1, ZenonT(40) DEF MioInv, Tables, Ids
  <2>4. Books(free_list, connections)'
    BY <2>1, ZenonT(40) DEF MioInv, Books, pool_size
  <2>5. EventsKnown'
    BY <1>2, <2>1, ZenonT(40) DEF MioInv, EventsKnown, Event
  <2>6. Awake'
    <3>1. ASSUME NEW id \in DOMAIN connections PROVE connections[id].client # Listener
      BY KnownIs, MioAssumption, ZenonT(40)
    <3>2. \A e \in events : e.client # Listener => e \in events'
      BY <1>2
    <3>3. QED
      BY <2>1, <3>1, <3>2, ZenonT(40) DEF MioInv, Awake, Announced
  <2>7. QED
    BY <2>2, <2>3, <2>4, <2>5, <2>6, ZenonT(40) DEF MioInv
<1>3. QED
  BY <1>1, <1>2, ZenonT(40) DEF Accept

-----------------------------------------------------------------------------
(* The theorems.                                                           *)

\* A worker that starts.
LEMMA InitKeeps ==
  ASSUME Init
  PROVE  MioInv
<1>1. MaxConnections \in Nat /\ pool_size \in Nat
  BY MioAssumption DEF pool_size
<1>2. /\ connections = <<>> /\ registry = <<>> /\ ready = {} /\ events = {} /\ backlog = <<>>
      /\ accepting = FALSE /\ net = [c \in Clients |-> NewSocket]
      /\ vacant = NewSlab(MaxConnections) /\ free_list = NewPool(pool_size)
  BY ZenonT(40) DEF Init, InitNet
<1>3. DOMAIN connections = {} /\ DOMAIN registry = {}
  BY <1>2
<1>4. NetType
  <2>1. NewSocket \in Socket
    BY DEF NewSocket, Socket
  <2>2. QED
    BY <1>2, <2>1 DEF NetType
<1>5. Tables
  <2>1. vacant \in Stack(Nat) /\ Range(vacant) = 0 .. MaxConnections - 1
    BY <1>1, <1>2, StackSlab, ZenonT(40)
  <2>2. free_list \in Stack(Nat)
    BY <1>1, <1>2, StackNew, ZenonT(40)
  <2>3. QED
    BY <1>2, <1>3, <2>1, <2>2, ZenonT(40) DEF Tables, Slots, Ids
<1>6. Registered /\ EventsKnown /\ Awake
  BY <1>2, <1>3, ZenonT(40) DEF Registered, EventsKnown, Awake
<1>7. Waiting
  BY <1>2 DEF Waiting, IsInjective, Range
<1>8. Roomy
  BY <1>2, NetworkAssumption DEF Roomy, NewSocket
<1>9. Books(free_list, connections)
  <2>1. IsInjective(free_list) /\ Range(free_list) = 0 .. pool_size - 1
    BY <1>1, <1>2, StackNew, ZenonT(40) DEF Stack
  <2>2. QED
    BY <1>3, <2>1, ZenonT(40) DEF Books, Partitioned
<1>10. QED
  BY <1>4, <1>5, <1>6, <1>7, <1>8, <1>9, ZenonT(40) DEF MioInv

\* Nothing happens.
LEMMA StutterKeeps ==
  ASSUME MioInv, UNCHANGED vars
  PROVE  MioInv'
<1>1. /\ connections' = connections /\ vacant' = vacant /\ free_list' = free_list
      /\ registry' = registry /\ net' = net /\ backlog' = backlog /\ ready' = ready
      /\ events' = events /\ accepting' = accepting
  BY ZenonT(40) DEF vars, worker
<1>2. NetType' /\ Registered' /\ Waiting' /\ Roomy' /\ EventsKnown' /\ Awake'
  BY <1>1, ZenonT(40) DEF MioInv, NetType, Registered, Waiting, Roomy, EventsKnown, Event, Awake
<1>3. Tables' /\ Books(free_list, connections)'
  BY <1>1, ZenonT(40) DEF MioInv, Tables, Ids, Books, pool_size
<1>4. QED
  BY <1>2, <1>3, ZenonT(40) DEF MioInv

\* The invariant holds throughout.
LEMMA Invariant == Spec => []MioInv
<1>1. Init => MioInv
  BY InitKeeps, ZenonT(40)
<1>2. MioInv /\ [Next]_vars => MioInv'
  <2> SUFFICES ASSUME MioInv, [Next]_vars PROVE MioInv'
    BY ZenonT(40)
  <2>1. ASSUME NEW c \in Clients, ClientConnect(c) PROVE MioInv'
    BY <2>1, ConnectKeeps, ZenonT(40)
  <2>2. ASSUME NEW c \in Clients, ClientSend(c) PROVE MioInv'
    BY <2>2, SendKeeps, ZenonT(40)
  <2>3. ASSUME NEW c \in Clients, ClientLeave(c) PROVE MioInv'
    BY <2>3, LeaveKeeps, ZenonT(40)
  <2>4. ASSUME NEW c \in Clients, ClientReceive(c) PROVE MioInv'
    BY <2>4, ReceiveKeeps, ZenonT(40)
  <2>5. CASE Poll
    BY <2>5, PollKeeps, ZenonT(40)
  <2>6. CASE Accept
    BY <2>6, AcceptKeeps, ZenonT(40)
  <2>7. ASSUME NEW e \in events, HandleEvent(e) PROVE MioInv'
    BY <2>7, HandleEventKeeps, ZenonT(40)
  <2>8. CASE UNCHANGED vars
    BY <2>8, StutterKeeps, ZenonT(40)
  <2>9. QED
    BY <2>1, <2>2, <2>3, <2>4, <2>5, <2>6, <2>7, <2>8, ZenonT(40) DEF Next
<1>3. QED
  BY <1>1, <1>2, PTL DEF Spec

\* For every number of clients and connections, every script and every size of a
\* buffer: the slab's free keys are those that are not in use, a read buffer is
\* never filled beyond its size, and the tables speak of known clients.
THEOREM TypeCorrect == Spec => []TypeOK
<1>1. MioInv => TypeOK
  BY ZenonT(40) DEF MioInv, NetType, Tables, Slots, Stack, Lives, Registered, TypeOK, Occupied
<1>2. QED
  BY <1>1, Invariant, PTL

\* No buffer of the pool is lost, shared or freed twice, whatever clients send and
\* however connections end: accept_connections, the chains of large requests and
\* replies and close_connection keep the books.
THEOREM BuffersSafe == Spec => []BuffersAccounted
<1>1. MioInv => BuffersAccounted
  BY ZenonT(40) DEF MioInv, Books, BuffersAccounted, Occupied
<1>2. QED
  BY <1>1, Invariant, PTL

\* handle_connection_event never meets a connection other than the one its event
\* was reported for, although close_connection frees the id in the same poll.
THEOREM EventsReach == Spec => []EventsCurrent
<1>1. MioInv => EventsCurrent
  <2> SUFFICES ASSUME MioInv, NEW e \in events, e.client # Listener
               PROVE  e.token \in Occupied /\ connections[e.token].client = e.client
    BY ZenonT(40) DEF EventsCurrent
  <2> DEFINE c == e.client
             t == registry[c].token
             k == registry[c].interest
  <2>1. e = [client |-> c, token |-> t, kind |-> k] /\ c \in DOMAIN registry
    BY ZenonT(40) DEF MioInv, EventsKnown, Event
  <2>2. t \in DOMAIN connections /\ connections[t].client = c
    BY <2>1, ZenonT(40) DEF MioInv, Registered
  <2> HIDE DEF t, k
  <2>3. e.token = t
    BY <2>1
  <2>4. QED
    BY <2>2, <2>3, ZenonT(40) DEF Occupied
<1>2. QED
  BY <1>1, Invariant, PTL

\* Edge-triggered readiness is never lost: what handle_readable or handle_writable
\* left undone is reported again, by reregister or by the kernel.
THEOREM WakeupsKept == Spec => []NoLostWakeup
<1>1. MioInv => NoLostWakeup
  <2> SUFFICES ASSUME MioInv, NEW id \in DOMAIN connections,
                      LET conn == connections[id]
                          c == conn.client
                      IN  IF conn.state = "reading"
                          THEN net[c].inbox # <<>> /\ Len(conn.input) < BufferSize
                          ELSE WriteReady(c) /\ ~ (conn.chained /\ conn.written > 0)
               PROVE  Announced(connections[id].client, ready, events)
    BY ZenonT(40) DEF NoLostWakeup, Occupied, Announced
  <2>1. Wakes(connections[id], net[connections[id].client])
    BY ZenonT(40) DEF Wakes, WriteReady, Room
  <2>2. QED
    BY <2>1, ZenonT(40) DEF MioInv, Awake
<1>2. QED
  BY <1>1, Invariant, PTL
=============================================================================
