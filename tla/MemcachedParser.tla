--------------------------- MODULE MemcachedParser ---------------------------
(***************************************************************************)
(* src/protocols/memcached/parser.rs: the first parse of a command line,   *)
(* and the second one of a storage command with its data block.            *)
(***************************************************************************)
EXTENDS Text

\* ParseResult and ParseError.
Complete(command, consumed) == [tag |-> "Complete", command |-> command, consumed |-> consumed]
NeedData(command_bytes, data_bytes) ==
  [tag |-> "NeedData", command_bytes |-> command_bytes, data_bytes |-> data_bytes]
Error(why) == [tag |-> "Error", why |-> why]

StorageCommands == {"set", "add", "replace", "append", "prepend"}

\* The word at position i (from 0, as in the code) is noreply.
Noreply(parts, i) == Len(parts) > i /\ parts[i + 1] = "noreply"

parse_get(parts, n) ==
  IF Len(parts) < 2 THEN Error("InvalidCommand")
  ELSE IF Contains(Tail(parts), LongKey) THEN Error("KeyTooLong")
  ELSE Complete([name |-> parts[1], keys |-> Tail(parts)], n)

parse_storage(parts, n) ==
  IF Len(parts) < 5 THEN Error("InvalidCommand")
  ELSE IF parts[2] = LongKey THEN Error("KeyTooLong")
  ELSE IF ~Parses(parts[3], U32) \/ ~Parses(parts[4], U64) \/ ~Parses(parts[5], U64)
  THEN Error("InvalidNumber")
  ELSE NeedData(n, Numerals[parts[5]])

\* The flags and the time are not looked at.
parse_cas(parts, n) ==
  IF Len(parts) < 6 THEN Error("InvalidCommand")
  ELSE IF parts[2] = LongKey THEN Error("KeyTooLong")
  ELSE IF ~Parses(parts[5], U64) THEN Error("InvalidNumber")
  ELSE NeedData(n, Numerals[parts[5]])

parse_delete(parts, n) ==
  IF Len(parts) < 2 THEN Error("InvalidCommand")
  ELSE IF parts[2] = LongKey THEN Error("KeyTooLong")
  ELSE Complete([name |-> "delete", key |-> parts[2], noreply |-> Noreply(parts, 2)], n)

parse_incr_decr(parts, n) ==
  IF Len(parts) < 3 THEN Error("InvalidCommand")
  ELSE IF parts[2] = LongKey THEN Error("KeyTooLong")
  ELSE IF ~Parses(parts[3], U64) THEN Error("InvalidNumber")
  ELSE Complete([name |-> parts[1], key |-> parts[2], value |-> Numerals[parts[3]],
                 noreply |-> Noreply(parts, 3)], n)

\* A delay that is not a number is 0.
parse_flush_all(parts, n) ==
  Complete([name |-> "flush_all",
            delay |-> IF Len(parts) > 1 THEN ParseOr(parts[2], U64, 0) ELSE 0,
            noreply |-> Noreply(parts, 1) \/ Noreply(parts, 2)], n)

\* Parser::parse.
parse(buffer) ==
  LET line_end == find_crlf(buffer)
      parts == split_whitespace(Take(buffer, line_end))
      n == line_end + 2
  IN  IF line_end = None THEN Error("Incomplete")
      ELSE IF ~from_utf8(Take(buffer, line_end)) \/ parts = <<>> THEN Error("InvalidCommand")
      ELSE CASE parts[1] \in {"get", "gets"} -> parse_get(parts, n)
             [] parts[1] \in StorageCommands -> parse_storage(parts, n)
             [] parts[1] = "cas" -> parse_cas(parts, n)
             [] parts[1] = "delete" -> parse_delete(parts, n)
             [] parts[1] \in {"incr", "decr"} -> parse_incr_decr(parts, n)
             [] parts[1] = "flush_all" -> parse_flush_all(parts, n)
             [] parts[1] \in {"stats", "version", "quit"} ->
                  Complete([name |-> parts[1]], n)
             [] OTHER -> Error("UnknownCommand")

\* Mutant: the CRLF after the data block is counted in its bytes.
StorageCommandWithCrlf(parts, bytes) ==
  [name |-> parts[1], key |-> parts[2],
   flags |-> ParseOr(parts[3], U32, 0), exptime |-> ParseOr(parts[4], U64, 0),
   bytes |-> bytes + 2,
   cas_unique |-> IF parts[1] = "cas" THEN ParseOr(parts[6], U64, 0) ELSE 0,
   noreply |-> Noreply(parts, IF parts[1] = "cas" THEN 6 ELSE 5)]

\* The command that parse_with_data builds; cas_unique is 0 but for cas.
StorageCommand(parts, bytes) ==
  [name |-> parts[1], key |-> parts[2],
   flags |-> ParseOr(parts[3], U32, 0), exptime |-> ParseOr(parts[4], U64, 0),
   bytes |-> bytes,
   cas_unique |-> IF parts[1] = "cas" THEN ParseOr(parts[6], U64, 0) ELSE 0,
   noreply |-> Noreply(parts, IF parts[1] = "cas" THEN 6 ELSE 5)]

\* Parser::parse_with_data.
parse_with_data(buffer) ==
  LET line_end == find_crlf(buffer)
      parts == split_whitespace(Take(buffer, line_end))
      required == IF parts[1] = "cas" THEN 6 ELSE 5
      data_end == (line_end + 2 + Numerals[parts[5]]) % Word
      total_needed == (data_end + 2) % Word
  IN  IF line_end = None THEN Error("Incomplete")
      ELSE IF ~from_utf8(Take(buffer, line_end)) \/ parts = <<>>
              \/ parts[1] \notin StorageCommands \cup {"cas"} \/ Len(parts) < required
      THEN Error("InvalidCommand")
      ELSE IF ~Parses(parts[5], U64) THEN Error("InvalidNumber")
      ELSE IF Len(buffer) < total_needed THEN Error("Incomplete")
      ELSE IF SubSeq(buffer, data_end + 1, data_end + 2) # CRLF THEN Error("InvalidCommand")
      ELSE IF parts[2] = LongKey THEN Error("KeyTooLong")
      ELSE Complete(StorageCommand(parts, Numerals[parts[5]]), total_needed)

=============================================================================
