------------------------------- MODULE LossyFifo -------------------------------
(***************************************************************************)
(* What the pubsub receive queue of libmio promises: packets come out in   *)
(* the order in which they went in, each at most once, and a packet is     *)
(* lost only when a newer one pushes it out as the oldest.                 *)
(***************************************************************************)
EXTENDS Naturals, Sequences

CONSTANTS
  Packets,   \* what the queue holds
  Capacity,  \* MIO_PUBSUB_RX_QUEUE_MAX_LEN
  Nothing    \* no packet taken yet

VARIABLES
  buffer,    \* the packets in the queue, oldest first
  out        \* the packet taken last

fifoVars == <<buffer, out>>

Init == buffer = <<>> /\ out = Nothing

Put(p) ==
  /\ Len(buffer) < Capacity
  /\ buffer' = Append(buffer, p)
  /\ UNCHANGED out

\* The oldest packet makes room for p.
PutDropOldest(p) ==
  /\ buffer # <<>>
  /\ buffer' = Append(Tail(buffer), p)
  /\ UNCHANGED out

Take ==
  /\ buffer # <<>>
  /\ out' = Head(buffer)
  /\ buffer' = Tail(buffer)

Next == Take \/ \E p \in Packets : Put(p) \/ PutDropOldest(p)

Spec == Init /\ [][Next]_fifoVars
===============================================================================
