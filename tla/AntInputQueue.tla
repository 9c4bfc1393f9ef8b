---------------------------- MODULE AntInputQueue ----------------------------
(***************************************************************************)
(* What the console buffer of AIDE promises: what the user typed reaches   *)
(* the program once and in the order it was typed, unless it is flushed.   *)
(***************************************************************************)
EXTENDS Integers, Sequences

CONSTANT Inputs  \* the pieces of input that can arrive at once

VARIABLE queue   \* what was typed and not yet read

Init == queue = <<>>

Enqueue(str) == queue' = queue \o str

Dequeue(n) ==
  /\ n \in 0 .. Len(queue)
  /\ queue' = SubSeq(queue, n + 1, Len(queue))

Flush == queue' = <<>>

Next ==
  \/ \E str \in Inputs : Enqueue(str)
  \/ \E n \in 0 .. Len(queue) : Dequeue(n)
  \/ Flush

Spec == Init /\ [][Next]_queue
=============================================================================
