------------------------------ MODULE Network ------------------------------
(***************************************************************************)
(* The clients of one worker and the kernel's side of their sockets.  This *)
(* is the environment of the event loops: nothing here is in src/.         *)
(***************************************************************************)
EXTENDS Processing

CONSTANTS
  Clients,
  Script,      \* the requests of each client
  SendBuffer,  \* bytes the kernel holds for a client that does not read
  Pipelining,  \* the clients that send without waiting for replies
  Departures   \* how each client may leave: a subset of {"shutdown", "reset"}

ASSUME NetworkAssumption ==
  /\ \A c \in Clients : Script[c] \in Seq(Request)
  /\ SendBuffer \in Nat \ {0} /\ Pipelining \subseteq Clients
  /\ \A c \in Clients : Departures[c] \subseteq {"shutdown", "reset"}

-----------------------------------------------------------------------------
(* A client's script is the sequence of its requests.  The bytes it sends  *)
(* are numbered from 1, and byte i of the reply to request r is <<r, i>>.  *)

\* The bytes sent, and those expected, up to and including request r.
SentLength == [c \in Clients |-> [r \in 0 .. Len(Script[c]) |->
                 SumFunction([q \in 1 .. r |-> Length(Script[c][q])])]]
RepliedLength == [c \in Clients |-> [r \in 0 .. Len(Script[c]) |->
                    SumFunction([q \in 1 .. r |-> ReplyLength(Script[c][q])])]]

Reply(r, length) == [i \in 1 .. length |-> <<r, i>>]

\* What client c expects to read: its replies, one after the other.
Expected ==
  [c \in Clients |->
     LET upto[r \in 0 .. Len(Script[c])] ==
           IF r = 0 THEN <<>> ELSE upto[r - 1] \o Reply(r, ReplyLength(Script[c][r]))
     IN  upto[Len(Script[c])]]

\* What process_... returns for the bytes `input` of client c, with the request
\* they begin with, or 0.
Process(c, input) ==
  LET n == Len(input)
      framed == {r \in DOMAIN Script[c] :
                   \A i \in 1 .. n : input[i] = SentLength[c][r - 1] + i}
  IN  IF framed # {}
      THEN {[request |-> r, result |-> Processed(Script[c][r], n)] : r \in framed}
      ELSE {[request |-> 0, result |-> result] : result \in Unframed(n)}

-----------------------------------------------------------------------------
VARIABLES
  net,     \* the socket of each client
  backlog  \* the clients waiting to be accepted, in their order of arrival

\* server: what the server did with the socket; peer: what the client did with
\* it; sent: bytes sent so far; inbox: bytes the server has not read; outbox:
\* bytes the client has not read; got: what the client has read.
Socket == [server : {"new", "waiting", "open", "closed"},
           peer : {"open", "shutdown", "reset"},
           sent : Nat, inbox : Seq(Nat),
           outbox : Seq(Nat \X Nat), got : Seq(Nat \X Nat)]

NewSocket == [server |-> "new", peer |-> "open", sent |-> 0,
              inbox |-> <<>>, outbox |-> <<>>, got |-> <<>>]

InitNet == net = [c \in Clients |-> NewSocket] /\ backlog = <<>>

Room(c) == SendBuffer - Len(net[c].outbox)

\* A read returns: there are bytes, or the end of the stream, or an error.
ReadReady(c) == net[c].inbox # <<>> \/ net[c].peer # "open"

\* A write returns: there is room, or an error.
WriteReady(c) == Room(c) > 0 \/ net[c].peer = "reset"

-----------------------------------------------------------------------------
Connect(c) ==
  /\ net[c].server = "new"
  /\ net' = [net EXCEPT ![c].server = "waiting"]
  /\ backlog' = Append(backlog, c)

\* How far client c may send: to the end of the first request whose
\* predecessors have not all been answered.
SendLimit(c) ==
  LET answered == {r \in DOMAIN Script[c] :
                     Len(net[c].got) >= RepliedLength[c][r - 1]}
  IN  IF c \in Pipelining THEN SentLength[c][Len(Script[c])]
      ELSE Max({0} \cup {SentLength[c][r] : r \in answered})

Send(c) ==
  \E upto \in net[c].sent + 1 .. SendLimit(c) :
    /\ net[c].server \in {"waiting", "open"} /\ net[c].peer = "open"
    /\ net' = [net EXCEPT
         ![c].sent = upto,
         ![c].inbox = @ \o [i \in 1 .. upto - net[c].sent |-> net[c].sent + i]]
    /\ UNCHANGED backlog

\* The client closes its side; after "reset" it reads nothing more either, and
\* what it sent may not be read.
Leave(c) ==
  \E how \in Departures[c] :
    /\ net[c].server \in {"waiting", "open"} /\ net[c].peer = "open"
    /\ net' = [net EXCEPT ![c].peer = how,
                          ![c].inbox = IF how = "reset" THEN <<>> ELSE @]
    /\ UNCHANGED backlog

\* The client reads some of what there is.
Receive(c) ==
  \E n \in 1 .. Len(net[c].outbox) :
    /\ net[c].peer # "reset"
    /\ net' = [net EXCEPT ![c].got = @ \o SubSeq(net[c].outbox, 1, n),
                          ![c].outbox = SubSeq(@, n + 1, Len(@))]
    /\ UNCHANGED backlog

-----------------------------------------------------------------------------
(* Properties of the conversation, shared by the two event loops.          *)

\* Request r of c was sent completely, and its reply was received completely.
Asked(c, r) == net[c].sent >= SentLength[c][r]

Answered(c, r) == Len(net[c].got) >= RepliedLength[c][r]

\* A request or a reply that does not fit a buffer needs a chain.
Oversized(q) == Max({Length(q), ReplyLength(q)}) > BufferSize

\* The clients that stay in step with the server: a value above the limit, and an
\* invalid line that others follow, make the server look for the next request
\* where there is none; and a request without a reply closes the connection.
InStep ==
  {c \in Clients : \A r \in DOMAIN Script[c] :
     /\ Script[c][r].value <= MaxValueSize
     /\ Script[c][r].kind \in {"bad", "garbled"} \/ ReplyLength(Script[c][r]) = 0
          => r = Len(Script[c])}

\* Request r of c is with the server.
Posed(c, r) == Asked(c, r) /\ net[c].server = "open"

\* It is answered, unless its client leaves, was turned away when it connected,
\* or asked for what takes a chain, for which there may be no buffers.
Settled(c, r) ==
  \/ Answered(c, r) \/ net[c].peer # "open"
  \/ net[c].server = "closed" /\ \E q \in 1 .. r : Oversized(Script[c][q])

\* Every request that is sent completely is answered, also when it is sent before
\* the reply to its predecessor.
RequestsAnswered ==
  \A c \in Clients : \A r \in DOMAIN Script[c] : Posed(c, r) ~> Settled(c, r)

=============================================================================
