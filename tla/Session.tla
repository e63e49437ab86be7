------------------------------ MODULE Session -------------------------------
(***************************************************************************)
(* A server from its command line to the answers one client gets: the      *)
(* configuration is loaded, a runtime started, and a client sends requests *)
(* whose bytes arrive cut in any way.  After each read the runtime calls   *)
(* the process_ operator of the protocol and acts on the result; the pool, *)
(* the sockets and the other connections are the subject of MioWorker and  *)
(* UringWorker.                                                            *)
(*                                                                         *)
(* A request of the client's script is a record                            *)
(*   text   its symbols                                                    *)
(*   asks   the request of Processing it stands for, if it is one          *)
(*   means  the calls it asks for, if it asks for some                     *)
(* where asks and means are Options.                                       *)
(***************************************************************************)
EXTENDS Config, Requests

CONSTANTS
  BufferSize,             \* buffer_size, in symbols
  Setups,                 \* the command lines, each with the file it may name
  Scripts(_, _),          \* what a client sends, by protocol and max_value_size
  Answers                 \* the sizes of the storage's answers

ASSUME SessionAssumption == BufferSize \in Nat \ {0} /\ Answers \subseteq Nat \ {0}

VARIABLES
  setup,    \* the command line and the file
  config,   \* the configuration, once loaded
  phase,    \* of the server, then of the connection
  script,   \* the client's requests
  sent,     \* symbols of the script that have been read
  input,    \* the read buffer, as positions of the script's symbols
  served,   \* the calls made for each request that was served
  reply     \* the size of the reply that is being written

vars == <<setup, config, phase, script, sent, input, served, reply>>

P(Protocol, MaxValueSize, MaxReply) == INSTANCE Processing

stream == FlattenSeq([i \in DOMAIN script |-> script[i].text])
Begin(i) == Len(FlattenSeq([j \in 1 .. i - 1 |-> script[j].text]))

\* The calls of process_ by the event loops.
Processes(text, answer) ==
  CASE config.protocol = "memcached" ->
         process_memcached(text, BufferSize, config.max_value_size, answer)
    [] config.protocol = "resp" -> process_resp(text, BufferSize, config.max_value_size, answer)
    [] config.protocol = "ping" -> process_ping(text, BufferSize)
    [] config.protocol = "echo" -> process_echo(text, BufferSize, config.max_value_size)

\* The next n symbols, after those in the buffer.
Held(n) == input \o [i \in 1 .. n |-> sent + i]
TextOf(positions) ==
  LET all == stream
  IN  [i \in DOMAIN positions |-> all[positions[i]]]

\* A client of the mio runtime sends a request when the one before is answered.
Sendable ==
  IF config.runtime = "uring" THEN Len(stream)
  ELSE Begin(Min({Len(served) + 1, Len(script)}) + 1)

-----------------------------------------------------------------------------
\* main.
Start ==
  /\ phase = "starting"
  /\ config' = run(load(setup.cli, setup.file))
  /\ phase' = IF "error" \in DOMAIN config' THEN "failed" ELSE "listening"
  /\ UNCHANGED <<setup, script, sent, input, served, reply>>

Connect ==
  /\ phase = "listening"
  /\ script' \in Scripts(config.protocol, config.max_value_size)
  /\ phase' = "reading"
  /\ UNCHANGED <<setup, config, sent, input, served, reply>>

\* Mutant: the bytes that are held already are not counted.
FitsAlone(n) == n <= BufferSize

\* The space for n more bytes: mio reads no more than fits, io_uring closes the
\* connection when it does not fit.
Fits(n) == Len(input) + n <= BufferSize

\* Mutant: what was consumed is not removed.
RestKept(held, consumed) == held

\* copy_within, when something is left.
Rest(held, consumed) == Drop(held, consumed)

Close ==
  /\ phase' = "closed" /\ input' = <<>> /\ reply' = 0

\* The match on the ProcessResult of the symbols held.  io_uring has no chains;
\* mio keeps reading when a chain is needed, and closes when it has no buffers.
\* A panic ends the worker, with its connections.
Dispatch(held, outcome) ==
  LET result == outcome.result
  IN  \/ /\ result.tag = "NeedData" \/ (result.tag = "NeedChain" /\ config.runtime = "mio")
         /\ input' = held
         /\ UNCHANGED <<phase, served, reply>>
      \/ /\ result.tag \in {"NeedChain", "Quit", "Error"}
         /\ Close /\ UNCHANGED served
      \/ /\ result.tag = "Response" \/ (result.tag = "LargeResponse" /\ config.runtime = "mio")
         /\ input' = Rest(held, result.consumed)
         /\ phase' = "writing" /\ reply' = result.reply
         /\ served' = Append(served, outcome.calls)
      \/ /\ result.tag = "Panic"
         /\ phase' = "crashed" /\ UNCHANGED <<input, served, reply>>
      \/ /\ result.tag = "LargeResponse"
         /\ Close /\ served' = Append(served, outcome.calls)

\* handle_readable and handle_read, with n more bytes.
Read(n, answer) ==
  /\ phase = "reading" /\ sent + n <= Sendable
  /\ sent' = sent + n
  /\ \/ /\ Fits(n)
        /\ \E held \in {Held(n)} : Dispatch(held, Processes(TextOf(held), answer))
     \/ /\ ~Fits(n) /\ config.runtime = "uring"
        /\ Close /\ UNCHANGED served
  /\ UNCHANGED <<setup, config, script>>

\* A read into a full buffer returns 0, which mio takes for the end.
ReadFull ==
  /\ phase = "reading" /\ config.runtime = "mio" /\ ~Fits(1)
  /\ Close
  /\ UNCHANGED <<setup, config, script, sent, served>>

\* What is left in the read buffer after a reply: mio forgets it.
AfterWrite(held) == IF config.runtime = "mio" THEN <<>> ELSE held

\* The reply is written.  A write of nothing returns 0 and the connection is
\* closed.
Write ==
  /\ phase = "writing"
  /\ \/ reply = 0 /\ Close
     \/ /\ reply > 0
        /\ phase' = "reading" /\ reply' = 0 /\ input' = AfterWrite(input)
  /\ UNCHANGED <<setup, config, script, sent, served>>

Init ==
  /\ setup \in Setups
  /\ config = [error |-> "not loaded"] /\ phase = "starting"
  /\ script = <<>> /\ sent = 0 /\ input = <<>> /\ served = <<>> /\ reply = 0

Next ==
  \/ Start
  \/ Connect
  \/ \E n \in 1 .. BufferSize, answer \in Answers : Read(n, answer)
  \/ ReadFull
  \/ Write

Spec == Init /\ [][Next]_vars

-----------------------------------------------------------------------------
(* Properties.                                                             *)

\* The read buffer holds symbols that were sent, in their order, and not more
\* than fit in it.
TypeOK ==
  /\ setup \in Setups
  /\ phase \in {"starting", "failed", "listening", "reading", "writing", "closed", "crashed"}
  /\ sent \in 0 .. Len(stream) /\ reply \in Nat
  /\ Len(input) <= BufferSize
  /\ \A i \in DOMAIN input : input[i] \in 1 .. sent
  /\ \A i, j \in DOMAIN input : i < j => input[i] < input[j]

\* The limit the operator asked for: on the command line, else in the file.
Limit ==
  LET file == IF setup.cli.config = "ok" THEN setup.file ELSE NoFile
  IN  unwrap_or(setup.cli.max_value_size,
                unwrap_or(file.max_value_size, default_max_value_size))

\* The calls a client expects for a request.
Expected(request) ==
  IF request.asks[1].kind = "store" /\ request.asks[1].value > Limit THEN <<TooLarge>>
  ELSE request.means[1]

\* After these the rest of a request is taken for the next one: memcached and
\* echo refuse a value before it is there, and ping and echo keep a line that is
\* not valid.
OutOfStep(calls) ==
  calls = <<Invalid>> \/ (calls = <<TooLarge>> /\ config.protocol # "resp")

\* However the bytes are cut into reads, and whatever the data blocks hold, the
\* server makes the calls that the client's requests ask for, in their order, and
\* refuses the values above the limit that was configured, until a request puts
\* the two out of step (process_memcached, process_resp, process_ping and
\* process_echo after each read).
ServedAsSent ==
  \A i \in DOMAIN served :
    (\A j \in 1 .. i - 1 : ~OutOfStep(served[j])) =>
      i \in DOMAIN script
        /\ (script[i].means # <<>> => served[i] = Expected(script[i]))

\* The most symbols the next read can bring.
MostRead ==
  IF phase = "reading" THEN Min({BufferSize - Len(input), Sendable - sent}) ELSE 0

\* What the parsers find in a text, but that it is not complete.
Verdicts(text) ==
  CASE config.protocol = "memcached" ->
         {M!parse(text), M!parse_with_data(text)} \ {M!Error("Incomplete")}
    [] config.protocol = "resp" -> {R!parse(text)} \ {R!Incomplete}
    [] config.protocol = "ping" -> {G!parse(text)} \ {G!Incomplete}
    [] config.protocol = "echo" -> {E!parse(text)} \ {E!Incomplete}

\* More bytes never change what a parser has found: a command that is complete
\* stays the same command, and an error stays that error, so that no prefix of a
\* valid request is refused.
VerdictsStable ==
  MostRead > 0 =>
    LET text == TextOf(Held(MostRead))
        verdicts == [n \in Len(input) .. Len(text) |-> Verdicts(Take(text, n))]
    IN  \A n \in Len(input) .. Len(text) - 1 : verdicts[n] \subseteq verdicts[n + 1]

\* The two parses of a storage command agree: once the first asks for the data
\* block and it is there, the second either gives the command with as many bytes,
\* or finds that the block does not end in CRLF, and nothing else.
ParsesAgree ==
  MostRead > 0 /\ config.protocol = "memcached" =>
    \A n \in 1 .. MostRead :
      LET text == TextOf(Held(n))
          p == M!parse(text)
          q == M!parse_with_data(text)
          data_end == p.command_bytes + p.data_bytes
      IN  p.tag = "NeedData" /\ Len(text) >= data_end + 2 =>
            IF SubSeq(text, data_end + 1, data_end + 2) = CRLF
            THEN q.tag = "Complete" /\ q.command.bytes = p.data_bytes
                 /\ q.consumed = data_end + 2
            ELSE q = M!Error("InvalidCommand")

\* Encoding a frame and parsing it gives the frame back, with every byte
\* consumed, for every frame the parser accepts.
RoundTrip ==
  MostRead > 0 /\ config.protocol = "resp" =>
    \A n \in 1 .. MostRead :
      LET p == R!parse(TextOf(Held(n)))
          text == R!encode(p.frame)
      IN  p.tag = "Complete" => R!parse(text) = R!Complete(p.frame, Len(text))

\* The request that begins where the buffer does, when it is one of Processing.
Framed(held) ==
  {i \in DOMAIN script : held[1] = Begin(i) + 1 /\ script[i].asks # <<>>
                         /\ \A j \in DOMAIN held : held[j] = Begin(i) + j}

\* The request of Processing, with the answer of the storage.
Asked(request, answer) ==
  IF config.protocol \in {"memcached", "resp"}
  THEN [request.asks[1] EXCEPT !.reply = @ * answer] ELSE request.asks[1]

\* The result as the event loops use it: of n bytes no more than n are removed.
Capped(result, n) ==
  IF result.tag \in {"Response", "LargeResponse"}
  THEN [result EXCEPT !.consumed = Min({@, n})] ELSE result

\* The abstraction on which MioWorker and UringWorker rest: what request.rs and
\* the parsers make of the bytes of a request is what Processing says of it, and
\* what they make of other bytes is among what Processing allows for these, with
\* the same lengths, unless the parser panics.
ProcessingSound ==
  \A m \in 1 .. MostRead, answer \in Answers :
    LET held == Held(m)
        n == Len(held)
        framed == Framed(held)
        result == Processes(TextOf(held), answer).result
    IN  IF framed # {}
        THEN \A i \in framed :
               result = P(config.protocol, Limit, Max(Answers))!Processed(Asked(script[i], answer), n)
        ELSE result # R!Panic =>
               Capped(result, n) \in P(config.protocol, Limit, Max(Answers))!Unframed(n)

=============================================================================
