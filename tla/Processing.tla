----------------------------- MODULE Processing -----------------------------
(***************************************************************************)
(* Request processing (src/request.rs over the parsers of src/protocols):  *)
(* what the event loops are told after each read.  A request is a record   *)
(*                                                                         *)
(*   kind    "get"      a read: its reply may be larger than a buffer      *)
(*           "other"    any other command without a data block             *)
(*           "store"    a command followed by a data block                 *)
(*           "garbled"  a "store" whose second parse fails                 *)
(*           "quit"     quit                                               *)
(*           "bad"      a line the parser rejects                          *)
(*   header  the bytes of its command line                                 *)
(*   value   the bytes of its data block                                   *)
(*   reply   the bytes of its reply; 0 with noreply                        *)
(*                                                                         *)
(* What a command does to the cache is the subject of Storage.             *)
(***************************************************************************)
EXTENDS Sequences, FiniteSetsExt

CONSTANTS
  Protocol,     \* "memcached", "resp", "ping" or "echo"
  BufferSize,   \* bytes in a buffer
  MaxValueSize, \* max_value_size
  MaxReply      \* bound on the replies to bytes that are no request

ASSUME ProcessingAssumption ==
  /\ Protocol \in {"memcached", "resp", "ping", "echo"}
  /\ BufferSize \in Nat \ {0} /\ MaxValueSize \in Nat /\ MaxReply \in Nat

Kinds == {"get", "other", "store", "garbled", "quit", "bad"}

Request == [kind : Kinds, header : Nat \ {0}, value : Nat, reply : Nat]

\* The size of an error reply, of which copy_response keeps what fits.
ErrorReply == 1

\* The bytes of a request on the wire; memcached ends a data block with CRLF.
Length(q) ==
  q.header + (IF q.kind \in {"store", "garbled"}
              THEN q.value + (IF Protocol = "memcached" THEN 2 ELSE 0) ELSE 0)

\* ProcessResult.
NeedData == [tag |-> "NeedData"]
Quit == [tag |-> "Quit"]
Error == [tag |-> "Error"]
NeedChain(command_len, value_len) ==
  [tag |-> "NeedChain", command_len |-> command_len, value_len |-> value_len]
Response(consumed, reply) ==
  [tag |-> "Response", consumed |-> consumed, reply |-> reply]
LargeResponse(consumed, reply) ==
  [tag |-> "LargeResponse", consumed |-> consumed, reply |-> reply]

\* copy_response truncates; the other replies are moved to a chain.
Truncated(consumed, reply) == Response(consumed, Min({reply, BufferSize}))
Whole(consumed, reply) ==
  IF reply > BufferSize THEN LargeResponse(consumed, reply) ELSE Response(consumed, reply)

\* An incomplete data block.
Missing(q) == IF q.value > BufferSize THEN NeedChain(q.header, q.value) ELSE NeedData

\* Each of the following is the result for request q of which n bytes are there.
process_memcached(q, n) ==
  CASE n < q.header -> NeedData
    [] n >= q.header /\ q.kind = "quit" -> Quit
    [] n >= q.header /\ q.kind = "bad" -> Error
    [] n >= q.header /\ q.kind = "get" -> Whole(q.header, q.reply)
    [] n >= q.header /\ q.kind = "other" -> Truncated(q.header, q.reply)
    [] n >= q.header /\ q.kind \in {"store", "garbled"} ->
         IF q.value > MaxValueSize THEN Truncated(q.header + 2, ErrorReply)
         ELSE IF n < Length(q) THEN Missing(q)
         ELSE IF q.kind = "garbled" THEN NeedData
         ELSE Truncated(Length(q), q.reply)

\* quit is a command like the others; a frame is looked at when it is complete.
process_resp(q, n) ==
  CASE n < q.header \/ (n < Length(q) /\ q.kind # "bad") -> NeedData
    [] n >= q.header /\ q.kind = "bad" -> Error
    [] n >= Length(q) /\ q.kind # "bad" ->
         IF q.kind = "store" /\ q.value > MaxValueSize
         THEN Truncated(Length(q), ErrorReply) ELSE Whole(Length(q), q.reply)

\* "get" is PING with a message.
process_ping(q, n) ==
  CASE n < q.header -> NeedData
    [] n >= q.header /\ q.kind = "quit" -> Quit
    [] n >= q.header /\ q.kind = "bad" -> Truncated(0, ErrorReply)
    [] n >= q.header /\ q.kind = "get" ->
         IF q.reply > BufferSize THEN Error ELSE Response(q.header, q.reply)
    [] n >= q.header /\ q.kind \in {"other", "store", "garbled"} ->
         Truncated(q.header, q.reply)

process_echo(q, n) ==
  CASE n < q.header -> NeedData
    [] n >= q.header /\ q.kind = "quit" -> Quit
    [] n >= q.header /\ q.kind = "bad" -> Truncated(0, ErrorReply)
    [] n >= q.header /\ q.kind \notin {"quit", "bad"} ->
         IF q.value > MaxValueSize THEN Truncated(q.header, ErrorReply)
         ELSE IF n < Length(q) THEN Missing(q)
         ELSE Whole(Length(q), q.reply)

Processed(q, n) ==
  CASE Protocol = "memcached" -> process_memcached(q, n)
    [] Protocol = "resp" -> process_resp(q, n)
    [] Protocol = "ping" -> process_ping(q, n)
    [] Protocol = "echo" -> process_echo(q, n)

\* Bytes that do not begin with a request can mean anything to a parser: any
\* result with lengths that n bytes can give.
Unframed(n) ==
  {NeedData, Quit, Error}
    \cup [tag : {"NeedChain"}, command_len : 1 .. n, value_len : BufferSize + 1 .. MaxValueSize]
    \cup [tag : {"Response"}, consumed : 0 .. n, reply : 0 .. BufferSize]
    \cup [tag : {"LargeResponse"}, consumed : 1 .. n, reply : BufferSize + 1 .. MaxReply]

\* The reply a client expects to a request.
ReplyLength(q) ==
  CASE q.kind = "bad" -> IF Protocol \in {"ping", "echo"} THEN ErrorReply ELSE 0
    [] q.kind = "quit" -> IF Protocol = "resp" THEN q.reply ELSE 0
    [] q.kind \notin {"bad", "quit"} ->
         IF q.kind = "store" /\ q.value > MaxValueSize THEN ErrorReply ELSE q.reply

=============================================================================
