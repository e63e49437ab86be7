-------------------------- MODULE ProvidedBuffers --------------------------
(***************************************************************************)
(* What the provided buffer ring promises to UringWorker: a queue.  The    *)
(* kernel takes the buffer that has been in it longest, and a buffer that  *)
(* was taken comes back when it is recycled.                               *)
(***************************************************************************)
EXTENDS Sequences

CONSTANT Bids  \* the ids of the buffers

VARIABLES
  provided,  \* the ids in the queue, in order
  held       \* the ids that are not

pvars == <<provided, held>>

PInit == provided = <<>> /\ held = Bids

Give(bid) ==
  /\ bid \in held
  /\ provided' = Append(provided, bid)
  /\ held' = held \ {bid}

Take ==
  /\ provided # <<>>
  /\ provided' = Tail(provided)
  /\ held' = held \cup {Head(provided)}

PNext == Take \/ \E bid \in Bids : Give(bid)

PSpec == PInit /\ [][PNext]_pvars
=============================================================================
