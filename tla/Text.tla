-------------------------------- MODULE Text --------------------------------
(***************************************************************************)
(* What the parsers of src/protocols see of the bytes of a connection: a   *)
(* sequence of symbols, each as long as every other.  A symbol is a word   *)
(* (a command, a key, a numeral, with the space before it), a RESP type    *)
(* marker, CR, LF, or a byte that is not UTF-8.  Every cut between two     *)
(* symbols is a cut a read can make; the case of words is left out.        *)
(***************************************************************************)
EXTENDS Integers, SequencesExt

CONSTANTS
  Word,    \* 2^64, scaled down
  Word32,  \* 2^32, scaled down
  Large    \* a number that is larger than a buffer

ASSUME TextAssumption ==
  /\ Word32 \in 10 .. Word \div 2 - 1 /\ Word % 2 = 0
  /\ Large \in 10 .. Word \div 2 - 2

\* The integer types the parsers convert words to.
U32 == 0 .. Word32 - 1
U64 == 0 .. Word - 1
I64 == -(Word \div 2) .. Word \div 2 - 1

CR == "CR"
LF == "LF"
CRLF == <<CR, LF>>
NotUtf8 == "FF"
LongKey == "long"   \* a word longer than MAX_KEY_LENGTH

Digits == <<"0", "1", "2", "3", "4", "5", "6", "7", "8", "9">>

\* The numerals: the digits, -1, a value larger than a buffer, and the largest
\* values of i64 and of u64.
Numerals ==
  [s \in ToSet(Digits) \cup {"-1", "large", "i64max", "u64max"} |->
     CASE s = "-1" -> -1
       [] s = "large" -> Large
       [] s = "i64max" -> Word \div 2 - 1
       [] s = "u64max" -> Word - 1
       [] s \in ToSet(Digits) -> (CHOOSE i \in DOMAIN Digits : Digits[i] = s) - 1]

\* word.parse::<type>(), and the word that to_string makes of a number.
Parses(word, type) == word \in DOMAIN Numerals /\ Numerals[word] \in type
ParseOr(word, type, default) == IF Parses(word, type) THEN Numerals[word] ELSE default
to_string(n) == CHOOSE word \in DOMAIN Numerals : Numerals[word] = n

from_utf8(text) == ~Contains(text, NotUtf8)

\* A CR or an LF alone is white space.
split_whitespace(text) == SelectSeq(text, LAMBDA s : s \notin {CR, LF})

\* The symbols before the first CRLF; None when there is none.
None == -1
find_crlf(buffer) ==
  LET ends == {i \in 1 .. Len(buffer) - 1 : buffer[i] = CR /\ buffer[i + 1] = LF}
  IN  IF ends = {} THEN None ELSE Min(ends) - 1

Take(text, n) == SubSeq(text, 1, n)
Drop(text, n) == SubSeq(text, n + 1, Len(text))

=============================================================================
