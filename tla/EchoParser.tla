----------------------------- MODULE EchoParser -----------------------------
(* src/protocols/echo/parser.rs. *)
EXTENDS Text

Complete(command) == [tag |-> "Complete", command |-> command]
Incomplete == [tag |-> "Incomplete"]
InvalidLength == [tag |-> "InvalidLength"]

\* Mutant: the end of the line is not counted in the header.
parse_short_header(input) ==
  LET line_end == find_crlf(input)
      line == Take(input, line_end)
  IN  IF line_end = None THEN Incomplete
      ELSE IF line = <<"quit">> THEN Complete([name |-> "quit"])
      ELSE IF Len(line) # 1 \/ ~Parses(line[1], U64) THEN InvalidLength
      ELSE Complete([name |-> "echo", length |-> Numerals[line[1]], header_len |-> line_end])

parse(input) ==
  LET line_end == find_crlf(input)
      line == Take(input, line_end)
  IN  IF line_end = None THEN Incomplete
      ELSE IF line = <<"quit">> THEN Complete([name |-> "quit"])
      ELSE IF Len(line) # 1 \/ ~Parses(line[1], U64) THEN InvalidLength
      ELSE Complete([name |-> "echo", length |-> Numerals[line[1]], header_len |-> line_end + 2])

\* response_header: the size of the length and CRLF; 0 when it does not fit.
response_header(output) == IF output < 3 THEN 0 ELSE 3

=============================================================================
