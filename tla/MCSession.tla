----------------------------- MODULE MCSession ------------------------------
(***************************************************************************)
(* Sessions of each protocol on each runtime: requests of every kind, data *)
(* blocks that look like requests, and texts that are hardly requests.     *)
(***************************************************************************)
EXTENDS Session

Asks(kind, header, value, size) ==
  <<[kind |-> kind, header |-> header, value |-> value, reply |-> size]>>
Sends(text, asks, means) == [text |-> text, asks |-> asks, means |-> means]

\* A text of which nothing is said.
Noise(text) == Sends(text, <<>>, <<>>)
Noises(alphabet, n) == {Noise(text) : text \in UNION {[1 .. m -> alphabet] : m \in 1 .. n}}

\* Data blocks: one of them reads like a line, one is not UTF-8.
Data == {<<>>, <<"a">>, CRLF, <<"get", CR, LF>>, <<NotUtf8, CR, CR, LF>>}
LargeData == [i \in 1 .. Large |-> "a"]

-----------------------------------------------------------------------------
(* memcached                                                               *)

Line(words, kind, size, calls) ==
  Sends(words \o CRLF, Asks(kind, Len(words) + 2, 0, size), <<calls>>)

\* The arguments of set, add, replace and cas that go to the storage.
Store(name, tail, data, size) ==
  LET line == <<name, "k", "1", "2", to_string(Len(data))>> \o tail \o CRLF
      args == CASE name \in {"append", "prepend"} -> <<>>
                [] name = "cas" -> <<1, 2, Numerals[tail[1]]>>
                [] name \notin {"append", "prepend", "cas"} -> <<1, 2, 0>>
  IN  Sends(line \o data \o CRLF, Asks("store", Len(line), Len(data), size),
            <<<<[op |-> name, keys |-> <<"k">>, value |-> data, args |-> args]>>>>)

\* A data block that is longer than announced, and one that is never sent.
Garbled ==
  Sends(<<"set", "k", "0", "0", "1", CR, LF, "a", "a", CR, LF>>, Asks("garbled", 7, 1, 1), <<>>)
Announced(bytes) ==
  Sends(<<"set", "k", "0", "0", bytes, CR, LF>>, Asks("store", 7, Numerals[bytes], 1), <<<<>>>>)

Gets == Line(<<"gets", "k", "l">>, "get", 1, <<Call("gets", <<"k", "l">>, <<>>)>>)
Delete == Line(<<"delete", "k", "noreply">>, "other", 0, <<Call("delete", <<"k">>, <<>>)>>)
Incr == Line(<<"incr", "k", "u64max">>, "other", 1, <<Call("incr", <<"k">>, <<"u64max">>)>>)
FlushAll == Line(<<"flush_all", "1", "noreply">>, "other", 0, <<Call("flush_all", <<>>, <<>>)>>)
Version == Line(<<"version">>, "other", 1, <<Call("version", <<>>, <<>>)>>)

MemcachedStores ==
  {Store(name, <<>>, data, 1) : name \in {"set", "append"}, data \in Data}
    \cup {Store("add", <<"noreply">>, <<"a">>, 0), Store("replace", <<"x">>, <<"a">>, 1),
          Store("cas", <<"u64max">>, <<"a">>, 1), Store("cas", <<"5", "noreply">>, <<"a">>, 0),
          Store("set", <<>>, LargeData, 1)}

MemcachedRequests ==
  MemcachedStores \cup {Gets, Delete, Incr, FlushAll, Version, Garbled,
    Announced("u64max"), Announced("i64max"), Line(<<"quit">>, "quit", 0, <<>>),
    Line(<<"get", LongKey>>, "bad", 0, <<>>), Line(<<"incr", "k", "-1">>, "bad", 0, <<>>),
    Line(<<NotUtf8>>, "bad", 0, <<>>)}

\* Lines of storage commands with words of every sort in every place.
MemcachedNoise ==
  Noises({"get", "flush_all", "k", CR, LF, NotUtf8}, 3)
    \cup {Noise(<<name, key, flags, exptime, bytes, tail, CR, LF, "a", CR, LF>>) :
            name \in {"set", "cas"}, key \in {"k", LongKey}, flags \in {"0", "u64max", "x"},
            exptime \in {"0", "-1"}, bytes \in {"1", "x", CR}, tail \in {"1", "noreply"}}

-----------------------------------------------------------------------------
(* resp                                                                    *)

Some(data) == R!Bulk(<<data>>)
Command(kind, args, calls) ==
  LET text == R!encode(R!Array(<<args>>))
  IN  Sends(text, Asks(kind, Len(text), 0, 1), <<calls>>)

\* The value of a SET is the last thing of the frame but CRLF.
Set(data) ==
  LET text == R!encode(R!Array(<<<<Some(<<"set">>), Some(<<"k">>), Some(data)>>>>))
  IN  Sends(text, Asks("store", Len(text) - Len(data), Len(data), 1),
            <<<<Call("set", <<<<"k">>>>, data)>>>>)

RespRequests ==
  {Set(data) : data \in Data} \cup
  {Command("get", <<Some(<<"get">>), Some(<<"k">>)>>, <<Call("get", <<<<"k">>>>, <<>>)>>),
   Command("other", <<Some(<<"get">>)>>, <<>>),
   Command("other", <<Some(<<"set">>), Some(<<"k">>), R!Bulk(<<>>)>>, <<>>),
   Command("other", <<Some(<<"del">>), R!Integer(1), Some(<<"k">>)>>,
           <<Call("delete", <<<<"k">>>>, <<>>)>>),
   Command("other", <<Some(<<"exists">>), Some(<<"k">>), R!Bulk(<<>>)>>,
           <<Call("get", <<<<"k">>>>, <<>>)>>),
   Command("other", <<Some(<<"flushdb">>)>>, <<Call("flush_all", <<>>, <<>>)>>),
   Command("other", <<Some(<<"dbsize">>)>>, <<Call("stats", <<>>, <<>>)>>),
   Command("quit", <<Some(<<"quit">>)>>, <<>>),
   Command("other", <<R!Array(<<<<R!Simple(<<"a", CR>>), R!Array(<<>>)>>>>)>>, <<>>)}

RespNoise ==
  Noises({"+", "*", "$", "1", "-1", CR, LF}, 3)
    \cup {Noise(<<"$", bytes, CR, LF, "a">> \o tail) :
            bytes \in {"0", "1", "2", "i64max", "u64max"}, tail \in {CRLF, <<LF, CR>>, <<CR, CR, LF>>}}
    \cup {Noise(<<"*", "2", CR, LF, element, word, CR, LF, ":", word, CR, LF>>) :
            element \in {"+", "-", ":", "$"}, word \in {"1", NotUtf8, "-1"}}
    \cup {Noise(outer \o <<"*", length, CR, LF, ":", "1", CR, LF>>) :
            outer \in {<<>>, <<"*", "1", CR, LF>>}, length \in {"1", "2", "large", "i64max", "u64max"}}

-----------------------------------------------------------------------------
(* ping and echo                                                           *)

Ping(msg) ==
  Sends(<<"ping">> \o msg \o CRLF,
        Asks(IF msg = <<>> THEN "other" ELSE "get", 3 + Len(msg), 0, 3 + Len(msg)),
        <<<<Call("pong", <<>>, msg)>>>>)

PingRequests ==
  {Ping(<<>>), Ping(<<"a", CR, "ping">>), Ping([i \in 1 .. BufferSize - 3 |-> "a"]),
   Line(<<"quit">>, "quit", 0, <<>>), Line(<<"x">>, "bad", 0, <<Invalid>>)}

Echo(data) ==
  Sends(<<to_string(Len(data))>> \o CRLF \o data, Asks("store", 3, Len(data), 3 + Len(data)),
        <<<<Call("echo", <<>>, data)>>>>)

EchoRequests ==
  {Echo(data) : data \in Data \cup {LargeData}} \cup
  {Line(<<"quit">>, "quit", 0, <<>>), Line(<<"-1">>, "bad", 0, <<Invalid>>),
   Sends(<<"u64max", CR, LF>>, Asks("store", 3, Word - 1, 0), <<<<>>>>)}

-----------------------------------------------------------------------------
Catalogue ==
  [memcached |-> MemcachedRequests, resp |-> RespRequests, ping |-> PingRequests,
   echo |-> EchoRequests]

\* The requests that are sent after another one.
Followers ==
  [memcached |-> {Version, Store("set", <<>>, <<"a">>, 1)}, resp |-> {Set(<<"a">>)},
   ping |-> {Ping(<<"a">>)}, echo |-> {Echo(<<"a">>), Echo(CRLF)}]

NoiseOf ==
  [memcached |-> MemcachedNoise, resp |-> RespNoise,
   ping |-> Noises({"ping", "quit", CR, LF, NotUtf8}, 3),
   echo |-> Noises({"1", "-1", "quit", CR, LF, NotUtf8}, 3)]

\* Noise is sent to servers with the default limit, which changes nothing for it.
ClientScripts(protocol, max_value_size) ==
  {<<r>> : r \in Catalogue[protocol]}
    \cup {<<r, s>> : r \in Catalogue[protocol], s \in Followers[protocol]}
    \cup (IF max_value_size = default_max_value_size
          THEN {<<r>> : r \in NoiseOf[protocol]} ELSE {})

NoArgs ==
  [config |-> "none", listen |-> <<>>, max_memory |-> <<>>, default_ttl |-> <<>>,
   workers |-> <<>>, log_level |-> <<>>, protocol |-> <<>>, runtime |-> <<>>,
   max_value_size |-> <<>>]

\* The limit from the command line, from the file, from both and from neither;
\* the protocol from either; and the ways in which the start fails.
SomeSetups ==
  {[cli |-> [NoArgs EXCEPT !.protocol = <<p>>, !.runtime = <<r>>, !.max_value_size = m],
    file |-> NoFile] :
      p \in {"memcached", "resp", "ping", "echo"}, r \in {"mio", "uring"}, m \in {<<>>, <<60>>}}
    \cup
  {[cli |-> [NoArgs EXCEPT !.config = "ok", !.runtime = <<r>>, !.max_value_size = m],
    file |-> [NoFile EXCEPT !.protocol = <<p>>, !.max_value_size = <<1>>]] :
      p \in {"memcached", "resp", "echo"}, r \in {"mio", "uring"}, m \in {<<>>, <<2>>}}
    \cup
  {[cli |-> [NoArgs EXCEPT !.config = f, !.listen = a], file |-> [NoFile EXCEPT !.listen = <<"ip">>]] :
      f \in {"unreadable", "malformed", "ok"}, a \in {<<>>, <<"name:port">>, <<"ip:word">>}}

=============================================================================
