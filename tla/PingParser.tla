----------------------------- MODULE PingParser -----------------------------
(* src/protocols/ping/parser.rs. *)
EXTENDS Text

Complete(command, consumed) == [tag |-> "Complete", command |-> command, consumed |-> consumed]
Incomplete == [tag |-> "Incomplete"]
Error == [tag |-> "Error"]

\* A message follows PING and a space, which a CR or an LF is not.
HasMessage(line) == Len(line) > 1 /\ line[1] = "ping" /\ line[2] \notin {CR, LF}

parse(input) ==
  LET line_end == find_crlf(input)
      line == Take(input, line_end)
  IN  CASE line_end = None -> Incomplete
        [] line_end # None /\ line = <<"ping">> -> Complete([name |-> "ping"], line_end + 2)
        [] line_end # None /\ line = <<"quit">> -> Complete([name |-> "quit"], line_end + 2)
        [] line_end # None /\ HasMessage(line) ->
             Complete([name |-> "pingmsg", msg |-> Tail(line)], line_end + 2)
        [] line_end # None /\ line \notin {<<"ping">>, <<"quit">>} /\ ~HasMessage(line) -> Error

\* response_pong_msg: the size of PONG, the message and CRLF; 0 when it does not fit.
response_pong_msg(msg, output) == IF output < 1 + Len(msg) + 2 THEN 0 ELSE 1 + Len(msg) + 2

=============================================================================
