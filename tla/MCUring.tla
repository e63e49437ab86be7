------------------------------ MODULE MCUring ------------------------------
(* Small instances of UringWorker for TLC. *)
EXTENDS UringWorker, TLC

CONSTANTS c1, c2

OneClient == {c1}
TwoClients == {c1, c2}

Ask(kind, header, value, reply) ==
  [kind |-> kind, header |-> header, value |-> value, reply |-> reply]

\* Requests of an echo client and of a memcached client.
Echo == Ask("store", 1, 1, 2)
Leaving == Ask("quit", 1, 0, 0)
GetShort == Ask("get", 1, 0, 1)
\* A line longer than a buffer.
GetOverlong == Ask("get", 6, 0, 1)
SetNoreply == Ask("store", 1, 1, 0)

AnyDeparture == [c \in Clients |-> {"shutdown", "reset"}]
NoDepartures == [c \in Clients |-> {}]

\* One client waits for each reply; the other does not, and its requests together
\* are more than a buffer of three bytes holds.
Echoes == (c1 :> <<Echo, Echo>>) @@ (c2 :> <<Echo, Echo>>)
Second == {c2}
Failures == (c1 :> <<GetShort, GetOverlong>>) @@ (c2 :> <<SetNoreply>>)
OneNoreply == c1 :> <<SetNoreply>>
=============================================================================
