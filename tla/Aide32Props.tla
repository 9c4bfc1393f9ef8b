----------------------------- MODULE Aide32Props -----------------------------
(***************************************************************************)
(* What AIDE-32 keeps to: nothing the program printed and nothing it read  *)
(* is left behind between callbacks, and a run comes to an end.            *)
(***************************************************************************)
EXTENDS Aide32

(* The types of the variables; a character that is tagged is there.        *)
Aide32TypeOK ==
  /\ mem \in Programs \cup {NoProgram} /\ pc \in Addr
  /\ console \in [in_new : BOOLEAN, out_new : BOOLEAN, typed : 0 .. MaxTyped, sent : BOOLEAN]
  /\ console.sent => console.typed > 0
  /\ console.in_new => console.sent
  /\ result \in Result /\ old_pc \in {{}} \cup {{a} : a \in Addr}
  /\ running \in BOOLEAN /\ enabled \in BOOLEAN
  /\ breakpoints \subseteq Breaks /\ watching \subseteq Watches /\ silent \in BOOLEAN
  /\ stack \in Seq({"head", "pause"}) /\ Len(stack) <= MaxDepth

(* Between callbacks, and whenever the only run is about to execute, the   *)
(* last character printed was shown and the last one read was deleted:     *)
(* otherwise the next `cout` would replace the one and prepare_input would *)
(* offer the other again.  do_run's `break` after an exception and an      *)
(* error in update_display skip handle_output, and are the only ways       *)
(* around it, as `console` is looked at before and after each instruction. *)
CaughtUp ==
  (stack = <<>> \/ (Len(stack) = 1 /\ AtHead)) =>
     \/ ~console.out_new /\ (console.sent => console.in_new)
     \/ result \in {"exception", "error"}

(* Stop, a halt, a breakpoint or a watchpoint ends every run in progress,  *)
(* not only the newest, unless Run is pressed again.                       *)
StopReturns == ~running ~> (stack = <<>> \/ running)
=============================================================================
