------------------------------- MODULE ByteStream -------------------------------
(***************************************************************************)
(* What the send queue of a connection promises: a stream.  Bytes are put  *)
(* in and come out once each, in the order in which they were put in, with *)
(* none left out; once the stream is closed nothing comes out any more.    *)
(***************************************************************************)
EXTENDS Sequences, SequencesExt

VARIABLES
  input,   \* all bytes that have been put in so far
  output,  \* all bytes that have come out so far
  closed   \* the stream has been closed

Init == output = <<>> /\ closed = FALSE

Put ==
  /\ IsPrefix(input, input')
  /\ UNCHANGED <<output, closed>>

Take ==
  /\ ~closed
  /\ IsPrefix(output, output') /\ IsPrefix(output', input)
  /\ UNCHANGED <<input, closed>>

Close ==
  /\ closed' = TRUE
  /\ UNCHANGED <<input, output>>

Next == Put \/ Take \/ Close

Spec == Init /\ [][Next]_<<input, output, closed>>
===============================================================================
