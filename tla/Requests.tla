------------------------------ MODULE Requests ------------------------------
(***************************************************************************)
(* src/request.rs over the parsers: what becomes of the bytes a connection *)
(* has read.  Each operator gives the ProcessResult and the calls that     *)
(* were made on the way; the storage is the subject of Storage, and the    *)
(* size of its answer is a parameter.  output is the size of the buffer    *)
(* for the reply.                                                          *)
(***************************************************************************)
EXTENDS Text

M == INSTANCE MemcachedParser
R == INSTANCE RespParser
G == INSTANCE PingParser
E == INSTANCE EchoParser

ErrorReply == 1

Call(op, keys, value) == [op |-> op, keys |-> keys, value |-> value]
TooLarge == Call("value too large", <<>>, <<>>)
Invalid == Call("invalid", <<>>, <<>>)

Outcome(result, calls) == [result |-> result, calls |-> calls]
Needs(result) == Outcome(result, <<>>)
NeedData == [tag |-> "NeedData"]
Quit == [tag |-> "Quit"]
Error == [tag |-> "Error"]
NeedChain(command_len, value_len) ==
  [tag |-> "NeedChain", command_len |-> command_len, value_len |-> value_len]
Response(consumed, reply) == [tag |-> "Response", consumed |-> consumed, reply |-> reply]

\* copy_response, and the replies that may become a LargeResponse.
copy_response(consumed, reply, output) == Response(consumed, Min({reply, output}))
Whole(consumed, reply, output) ==
  IF reply > output THEN [tag |-> "LargeResponse", consumed |-> consumed, reply |-> reply]
  ELSE Response(consumed, reply)

\* A data block of n bytes that is not there yet.
Missing(header, n, output) == IF n > output THEN NeedChain(header, n) ELSE NeedData

-----------------------------------------------------------------------------
\* incr and decr are one call: a get and a set.
execute_command(command) ==
  CASE command.name \in {"get", "gets"} -> <<Call(command.name, command.keys, <<>>)>>
    [] command.name = "delete" -> <<Call("delete", <<command.key>>, <<>>)>>
    [] command.name \in {"incr", "decr"} ->
         <<Call(command.name, <<command.key>>, <<to_string(command.value)>>)>>
    [] command.name \in {"flush_all", "stats", "version"} -> <<Call(command.name, <<>>, <<>>)>>

\* The flags, the time and the token of cas go with the call.
execute_storage_command(command, data) ==
  <<[op |-> command.name, keys |-> <<command.key>>, value |-> data,
     args |-> IF command.name \in {"append", "prepend"} THEN <<>>
              ELSE <<command.flags, command.exptime, command.cas_unique>>]>>

\* Parser::parse gives no storage command, so that process_memcached's branch for
\* one is never taken.
process_memcached(input, output, max_value_size, answer) ==
  LET p == M!parse(input)
      q == M!parse_with_data(input)
      reply(command) ==
        IF "noreply" \in DOMAIN command /\ command.noreply THEN 0 ELSE answer
      total_needed == (p.command_bytes + p.data_bytes + 2) % Word
      data == SubSeq(input, p.command_bytes + 1, p.command_bytes + p.data_bytes)
  IN  IF p.tag = "Complete"
      THEN IF p.command.name = "quit" THEN Needs(Quit)
           ELSE Outcome(IF p.command.name \in {"get", "gets"}
                        THEN Whole(p.consumed, answer, output)
                        ELSE copy_response(p.consumed, reply(p.command), output),
                        execute_command(p.command))
      ELSE IF p.tag = "Error" THEN Needs(IF p.why = "Incomplete" THEN NeedData ELSE Error)
      ELSE IF p.data_bytes > max_value_size
      THEN Outcome(copy_response(p.command_bytes + 2, ErrorReply, output), <<TooLarge>>)
      ELSE IF Len(input) < total_needed THEN Needs(Missing(p.command_bytes, p.data_bytes, output))
      ELSE IF q.tag # "Complete" THEN Needs(NeedData)
      ELSE Outcome(copy_response(q.consumed, reply(q.command), output),
                   execute_storage_command(q.command, data))

-----------------------------------------------------------------------------
IsBulk(frame) == frame.type = "$" /\ frame.data # <<>>

\* The arguments of a frame that is a command: an array whose first element is a
\* bulk string.
IsCommand(frame) ==
  frame.type = "*" /\ frame.frames \notin {<<>>, <<<<>>>>} /\ IsBulk(frame.frames[1][1])
Args(frame) == frame.frames[1]
Name(frame) == Args(frame)[1].data[1]

\* The calls of execute_resp_command; PING, QUIT and the errors make none.
execute_resp_command(frame) ==
  LET args == Args(frame)
      n == Len(args)
      bulks == SelectSeq(Tail(args), IsBulk)
      each(op) == [i \in DOMAIN bulks |-> Call(op, bulks[i].data, <<>>)]
  IN  IF ~IsCommand(frame) THEN <<>>
      ELSE CASE Name(frame) = <<"get">> ->
                  IF n # 2 \/ ~IsBulk(args[2]) THEN <<>> ELSE <<Call("get", args[2].data, <<>>)>>
             [] Name(frame) = <<"set">> ->
                  IF n < 3 \/ ~IsBulk(args[2]) \/ ~IsBulk(args[3]) THEN <<>>
                  ELSE <<Call("set", args[2].data, args[3].data[1])>>
             [] Name(frame) = <<"del">> -> each("delete")
             [] Name(frame) = <<"exists">> -> each("get")
             [] Name(frame) \in {<<"flushall">>, <<"flushdb">>} -> <<Call("flush_all", <<>>, <<>>)>>
             [] Name(frame) = <<"dbsize">> -> <<Call("stats", <<>>, <<>>)>>
             [] OTHER -> <<>>

process_resp(input, output, max_value_size, answer) ==
  LET p == R!parse(input)
      too_large == /\ IsCommand(p.frame) /\ Name(p.frame) = <<"set">>
                   /\ Len(Args(p.frame)) >= 3 /\ IsBulk(Args(p.frame)[3])
                   /\ Len(Args(p.frame)[3].data[1]) > max_value_size
  IN  IF p.tag = "Incomplete" THEN Needs(NeedData)
      ELSE IF p.tag = "Error" THEN Needs(Error)
      ELSE IF p.tag = "Panic" THEN Needs(R!Panic)
      ELSE IF too_large
      THEN Outcome(copy_response(p.consumed, ErrorReply, output), <<TooLarge>>)
      ELSE Outcome(Whole(p.consumed, answer, output), execute_resp_command(p.frame))

-----------------------------------------------------------------------------
\* PONG and CRLF are three symbols.
process_ping(input, output) ==
  LET p == G!parse(input)
      pong == IF p.command.name = "ping" THEN Min({3, output})
              ELSE G!response_pong_msg(p.command.msg, output)
      msg == IF p.command.name = "ping" THEN <<>> ELSE p.command.msg
  IN  IF p.tag = "Incomplete" THEN Needs(NeedData)
      ELSE IF p.tag = "Error"
      THEN Outcome(copy_response(0, ErrorReply, output), <<Invalid>>)
      ELSE IF p.command.name = "quit" THEN Needs(Quit)
      ELSE IF pong = 0 THEN Needs(Error)
      ELSE Outcome(Response(p.consumed, pong), <<Call("pong", <<>>, msg)>>)

process_echo(input, output, max_value_size) ==
  LET p == E!parse(input)
      length == p.command.length
      header_len == p.command.header_len
      total_needed == (header_len + length) % Word
  IN  IF p.tag = "Incomplete" THEN Needs(NeedData)
      ELSE IF p.tag = "InvalidLength"
      THEN Outcome(copy_response(0, ErrorReply, output), <<Invalid>>)
      ELSE IF p.command.name = "quit" THEN Needs(Quit)
      ELSE IF length > max_value_size
      THEN Outcome(copy_response(header_len, ErrorReply, output), <<TooLarge>>)
      ELSE IF Len(input) < total_needed THEN Needs(Missing(header_len, length, output))
      ELSE Outcome(Whole(total_needed, E!response_header(output) + length, output),
                   <<Call("echo", <<>>, SubSeq(input, header_len + 1, total_needed))>>)

=============================================================================
