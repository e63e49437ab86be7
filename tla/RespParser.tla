----------------------------- MODULE RespParser -----------------------------
(***************************************************************************)
(* src/protocols/resp/parser.rs: the frames of RESP, their encoding and    *)
(* the parser.  An Option is a sequence of at most one element.            *)
(***************************************************************************)
EXTENDS Text

Simple(text) == [type |-> "+", text |-> text]
Error(text) == [type |-> "-", text |-> text]
Integer(n) == [type |-> ":", n |-> n]
Bulk(data) == [type |-> "$", data |-> data]
Array(frames) == [type |-> "*", frames |-> frames]

\* ParseResult.
Complete(frame, consumed) == [tag |-> "Complete", frame |-> frame, consumed |-> consumed]
Incomplete == [tag |-> "Incomplete"]
Failed == [tag |-> "Error"]
Panic == [tag |-> "Panic"]

\* Mutant: the null bulk string is written as an empty one.
RECURSIVE encode_null_as_empty(_)
encode_null_as_empty(frame) ==
  CASE frame.type \in {"+", "-"} -> <<frame.type>> \o frame.text \o CRLF
    [] frame.type = ":" -> <<":", to_string(frame.n)>> \o CRLF
    [] frame.type = "$" /\ frame.data = <<>> -> <<"$", "0">> \o CRLF \o CRLF
    [] frame.type = "$" /\ frame.data # <<>> ->
         <<"$", to_string(Len(frame.data[1]))>> \o CRLF \o frame.data[1] \o CRLF
    [] frame.type = "*" /\ frame.frames = <<>> -> <<"*", "-1">> \o CRLF
    [] frame.type = "*" /\ frame.frames # <<>> ->
         LET frames == frame.frames[1]
         IN  <<"*", to_string(Len(frames))>> \o CRLF
               \o FlattenSeq([i \in DOMAIN frames |-> encode_null_as_empty(frames[i])])

RECURSIVE encode(_)
encode(frame) ==
  CASE frame.type \in {"+", "-"} -> <<frame.type>> \o frame.text \o CRLF
    [] frame.type = ":" -> <<":", to_string(frame.n)>> \o CRLF
    [] frame.type = "$" /\ frame.data = <<>> -> <<"$", "-1">> \o CRLF
    [] frame.type = "$" /\ frame.data # <<>> ->
         <<"$", to_string(Len(frame.data[1]))>> \o CRLF \o frame.data[1] \o CRLF
    [] frame.type = "*" /\ frame.frames = <<>> -> <<"*", "-1">> \o CRLF
    [] frame.type = "*" /\ frame.frames # <<>> ->
         LET frames == frame.frames[1]
         IN  <<"*", to_string(Len(frames))>> \o CRLF
               \o FlattenSeq([i \in DOMAIN frames |-> encode(frames[i])])

\* The line after the type marker, when it is there and is UTF-8.
Line(buffer) == SubSeq(buffer, 2, find_crlf(buffer))
LineEnd(buffer) == find_crlf(buffer) + 2

parse_simple_string(buffer) ==
  IF find_crlf(buffer) = None THEN Incomplete
  ELSE IF ~from_utf8(Line(buffer)) THEN Failed
  ELSE Complete(Simple(Line(buffer)), LineEnd(buffer))

parse_error(buffer) ==
  IF find_crlf(buffer) = None THEN Incomplete
  ELSE IF ~from_utf8(Line(buffer)) THEN Failed
  ELSE Complete(Error(Line(buffer)), LineEnd(buffer))

\* The number on the line: a single numeral of type i64.
IsNumber(line) == Len(line) = 1 /\ Parses(line[1], I64)

parse_integer(buffer) ==
  IF find_crlf(buffer) = None THEN Incomplete
  ELSE IF ~IsNumber(Line(buffer)) THEN Failed
  ELSE Complete(Integer(Numerals[Line(buffer)[1]]), LineEnd(buffer))

\* Mutant: data that is not all there is an error.
parse_bulk_string_at_once(buffer) ==
  LET len == Numerals[Line(buffer)[1]]
      data_start == LineEnd(buffer)
      total == (data_start + len + 2) % Word
  IN  IF find_crlf(buffer) = None THEN Incomplete
      ELSE IF ~IsNumber(Line(buffer)) THEN Failed
      ELSE IF len < 0 THEN Complete(Bulk(<<>>), data_start)
      ELSE IF Len(buffer) < total \/ SubSeq(buffer, total - 1, total) # CRLF THEN Failed
      ELSE Complete(Bulk(<<SubSeq(buffer, data_start + 1, data_start + len)>>), total)

parse_bulk_string(buffer) ==
  LET len == Numerals[Line(buffer)[1]]
      data_start == LineEnd(buffer)
      total == (data_start + len + 2) % Word
  IN  IF find_crlf(buffer) = None THEN Incomplete
      ELSE IF ~IsNumber(Line(buffer)) THEN Failed
      ELSE IF len < 0 THEN Complete(Bulk(<<>>), data_start)
      ELSE IF Len(buffer) < total THEN Incomplete
      ELSE IF SubSeq(buffer, total - 1, total) # CRLF THEN Failed
      ELSE Complete(Bulk(<<SubSeq(buffer, data_start + 1, data_start + len)>>), total)

RECURSIVE parse(_)
RECURSIVE parse_elements(_, _, _, _)

\* The loop of parse_array: left elements are missing at offset.
parse_elements(buffer, offset, left, frames) ==
  IF left = 0 THEN Complete(Array(<<frames>>), offset)
  ELSE IF offset >= Len(buffer) THEN Incomplete
  ELSE LET element == parse(Drop(buffer, offset))
       IN  IF element.tag # "Complete" THEN element
           ELSE parse_elements(buffer, offset + element.consumed, left - 1,
                               Append(frames, element.frame))

\* The most elements that Vec::with_capacity can reserve memory for.
MaxElements == Large

parse_array(buffer) ==
  LET len == Numerals[Line(buffer)[1]]
  IN  IF find_crlf(buffer) = None THEN Incomplete
      ELSE IF ~IsNumber(Line(buffer)) THEN Failed
      ELSE IF len < 0 THEN Complete(Array(<<>>), LineEnd(buffer))
      ELSE IF len > MaxElements THEN Panic
      ELSE parse_elements(buffer, LineEnd(buffer), len, <<>>)

parse(buffer) ==
  IF buffer = <<>> THEN Incomplete
  ELSE CASE buffer[1] = "+" -> parse_simple_string(buffer)
         [] buffer[1] = "-" -> parse_error(buffer)
         [] buffer[1] = ":" -> parse_integer(buffer)
         [] buffer[1] = "$" -> parse_bulk_string(buffer)
         [] buffer[1] = "*" -> parse_array(buffer)
         [] OTHER -> Failed

=============================================================================
