------------------------------- MODULE MCMio -------------------------------
(* Small instances of MioWorker for TLC. *)
EXTENDS MioWorker, TLC

CONSTANTS c1, c2

OneClient == {c1}
TwoClients == {c1, c2}

Ask(kind, header, value, reply) ==
  [kind |-> kind, header |-> header, value |-> value, reply |-> reply]

GetShort == Ask("get", 1, 0, 2)
\* A reply that fills a buffer of three bytes and not the socket, one that takes
\* a chain of two such buffers and is resumed in the middle of the first, a line
\* that fills a buffer, and a value that takes, with its command, all the chain
\* buffers of a pool.
GetBuffer == Ask("get", 1, 0, 3)
GetLarge == Ask("get", 1, 0, 4)
GetFilling == Ask("get", 3, 0, 1)
SetHuge == Ask("store", 1, 6, 1)
Wrong == Ask("bad", 1, 0, 0)

\* A client that waits for each reply, beside one that does not.
Mixed == (c1 :> <<GetBuffer, GetLarge, Wrong>>) @@ (c2 :> <<GetFilling, SetHuge>>)
MixedDepartures == (c1 :> {"shutdown"}) @@ (c2 :> {"reset"})
Second == {c2}

TwoGets == c1 :> <<GetShort, GetShort>>
NoDepartures == [c \in Clients |-> {}]
=============================================================================
