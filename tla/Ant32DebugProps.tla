--------------------------- MODULE Ant32DebugProps ---------------------------
(***************************************************************************)
(* What the Ant-32 debugger promises to its user.                          *)
(***************************************************************************)
EXTENDS Ant32Debug

(* Execution never goes past a breakpoint, however it got there: by        *)
(* falling through, by a jump, through the exception handler, while        *)
(* tracing, or in the middle of the expansion of a source line.            *)
BreakpointsHonoured ==
  Looping /\ executed => ~CheckBreakpoint(breakpoints, cpu.pc)

(* The table of slots implements the set of addresses the user sees: after *)
(* any sequence of set, clear and clear-all commands, setting adds what    *)
(* there is room for and is refused only when the table is full of other   *)
(* addresses, and an address that is cleared is gone.                      *)
Points == INSTANCE AntBreakpoints
            WITH Requests <- {Range(args) : args \in BpArgs},
                 Capacity <- MaxBreakpoints,
                 points   <- Range(breakpoints) \ {Free}

BreakpointSet == Points!Spec

(* The debugger is discreet: but for the instructions it executes and a    *)
(* reload, it leaves the flags, the timer, the handler address, the        *)
(* exception context and all but the dirty bits of the TLB to the program, *)
(* even if the user stops it inside an exception handler and looks at      *)
(* memory that is not there.  The program counter changes by command only. *)
(* (Register e3 is another matter: a look that fails is caught in it.)     *)
DebuggerDiscreet ==
  [][\/ Reload
     \/ ExecInstDbg
     \/ /\ \A f \in {"mode", "eh", "exc_disable", "int_disable", "timer", "timer_set"} :
             cpu'[f] = cpu[f]
        /\ \A i \in TlbIndex :
             cpu'.tlb[i] \in {cpu.tlb[i], [cpu.tlb[i] EXCEPT !.attr = @ \cup {"DIRTY"}]}
        /\ cpu'.tlb # cpu.tlb => Store
        /\ \A f \in {"e0", "e1", "e2"} : cpu'[f] # cpu[f] => LoadConst
        /\ cpu'.pc # cpu.pc => Run \/ Jump]_dvars

(* `g' and `r' always get somewhere: they come back without having         *)
(* executed an instruction only if the user has interrupted that very      *)
(* command.                                                                *)
RunExecutes ==
  [][loc = "run" /\ loc' = "show" /\ ~signalled => executed']_dvars

(* The user gets the debugger back: a SIGINT that arrives while the        *)
(* program runs, or while `n' steps through an expansion, stops it.        *)
InterruptStops == (Looping /\ interrupted) ~> (loc = "prompt")
=============================================================================
