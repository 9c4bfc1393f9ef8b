------------------------------ MODULE Aide8Props ------------------------------
(***************************************************************************)
(* What AIDE-8 must get right whatever the user clicks while a callback    *)
(* of his last click is still in an `update`.                              *)
(***************************************************************************)
EXTENDS Aide8, FiniteSets

(* The button says Stop exactly as long as a program runs, and no second   *)
(* run loop ever starts on top of the first: reconfig_run_button and the   *)
(* callbacks it installs, debug.tcl.                                       *)
OneRunLoop ==
  LET loops == {i \in 1 .. Len(stack) : stack[i].proc = "run"}
  IN  /\ \A i, j \in loops : i = j
      /\ runButton = IF loops = {} THEN "Run" ELSE "Stop"

(* While an instruction waits for input the newest callback waits with it, *)
(* ant_single_step, or is the Run that is about to pass it by: no loop     *)
(* goes on to pause, to look at breakpoints or to the next instruction.    *)
StallHasWaiter ==
  status = "input" => stack # <<>> /\ Top.at \in {"wait", "start"}

(* No instruction waits while there is something for it to read: whoever   *)
(* puts input into the buffer finishes the stalled instruction,            *)
(* gantBufferInput, and whoever flushes it ends the stall.                 *)
NobodyWaitsForTyped == status = "input" => queue = <<>>

(* A running program never executes the instruction a breakpoint is at,    *)
(* but for the first one after Run, wherever Step, Reset or a new program  *)
(* moved the pc and whenever the breakpoint was set: ant_run_loop looks    *)
(* for it after the pause.                                                 *)
BreakObserved == [][RunStep /\ Top.at = "head" => pc \notin breakpoints]_vars

(* Stop ends the run: the callbacks on top of it return one by one and the *)
(* loop sees INTERRUPTED, unless the user makes one of them wait again.    *)
StopEnds ==
  (runButton = "Stop" /\ INTERRUPTED) ~> (runButton = "Run" \/ status = "input")
=============================================================================
