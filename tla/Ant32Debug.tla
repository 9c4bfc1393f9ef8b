------------------------------ MODULE Ant32Debug ------------------------------
(***************************************************************************)
(* The Ant-32 debugger ad32: the command loop ant_debug (ad32_util.c), the *)
(* loops that run the processor under it, its breakpoints and the SIGINT   *)
(* flag (Lib32/ant32_dbg.c), composed with the processor of Ant32Cpu.      *)
(*                                                                         *)
(* ant_debug shows the instruction at the program counter, reads a command *)
(* and carries it out, over and over.  The signal handler may run between  *)
(* any two steps.                                                          *)
(***************************************************************************)
EXTENDS Ant32Cpu, SequencesExt

CONSTANTS
  MaxBreakpoints,   \* MAX_BREAKPOINTS
  BpArgs,           \* argument lists of the `b' and `c' commands
  Synthetic         \* addresses whose instruction continues an expansion

VARIABLES
  loc,          \* where ant_debug is
  shown,        \* the trace of the coming instruction has been printed
  trace,        \* showTrace
  surface,      \* showSurface
  interrupted,  \* Interrupted, written by the signal handler
  breakpoints,  \* the table: an address, or Free
  orig_pc,      \* where `r' starts
  stmnt,        \* the command at hand, if it is about breakpoints
  executed,     \* the command at hand has executed an instruction (history)
  signalled     \* SIGINT has arrived since the command was given (history)

ctl  == <<trace, surface, breakpoints, orig_pc, stmnt>>
hist == <<executed, signalled>>
dvars == <<cpu, rc, raised, loc, shown, interrupted, ctl, hist>>

Free == -1

ASSUME DebugAssumption ==
  /\ MaxBreakpoints \in Nat \ {0}
  /\ BpArgs \subseteq Seq(Word)
  /\ Synthetic \subseteq Word

Loc == {"show", "prompt", "run", "next", "quit"}

(* Of the parsed command only what it asks of the breakpoints is kept, from *)
(* the time it is carried out until ant_asm_stmnt_clear.                    *)
Stmnt(op, addrs) == [op |-> op, addrs |-> addrs]
NoStmnt == Stmnt("none", {})

----------------------------------------------------------------------------
(* The breakpoint table *)

CheckBreakpoint(bps, pc) == \E i \in 1 .. MaxBreakpoints : bps[i] = pc

\* The slot the first loop over the table that looks for x stops at.
FirstSlot(bps, x) ==
  CHOOSE i \in 1 .. MaxBreakpoints :
    bps[i] = x /\ \A j \in 1 .. i - 1 : bps[j] # x

\* Seeded fault: an address that is already there is set again.
SetBreakpointTwice(bps, pc) ==
  IF ~CheckBreakpoint(bps, Free)
  THEN bps
  ELSE [bps EXCEPT ![FirstSlot(bps, Free)] = pc]

SetBreakpoint(bps, pc) ==
  IF CheckBreakpoint(bps, pc) \/ ~CheckBreakpoint(bps, Free)
  THEN bps
  ELSE [bps EXCEPT ![FirstSlot(bps, Free)] = pc]

ClearBreakpoint(bps, pc) ==
  IF CheckBreakpoint(bps, pc) THEN [bps EXCEPT ![FirstSlot(bps, pc)] = Free] ELSE bps

NoBreakpoints == [i \in 1 .. MaxBreakpoints |-> Free]

----------------------------------------------------------------------------
(* A memory access on behalf of the user: e2 is not latched, but a failing *)
(* access is caught in e3 like any other.                                  *)
\* Seeded fault: e2 is latched.
DbgAccessLatches(m, v, size, access) == DoLoadStore(m, v, size, access, TRUE).m

DbgAccess(m, v, size, access) == DoLoadStore(m, v, size, access, FALSE).m

(* ant_dbg_show_curr_inst, at the top of the command loop. *)
Show ==
  /\ loc = "show"
  /\ cpu' = DbgAccess(cpu, cpu.pc, InstSize, "EXEC")
  /\ loc' = "prompt"
  /\ executed' = FALSE
  /\ stmnt' = NoStmnt
  /\ UNCHANGED <<rc, raised, shown, trace, surface, breakpoints, orig_pc,
                 interrupted, signalled>>

(* A command that is over at once: back to the top of the loop. *)
Command ==
  /\ loc = "prompt"
  /\ loc' = "show"
  /\ UNCHANGED <<shown, interrupted, hist>>

(* ant_exec_dbg: `r' and `g'.  An interrupt that came before is forgotten. *)
\* Seeded fault: it is not.
StartKeepsInterrupt ==
  /\ loc = "prompt"
  /\ loc' = "run"
  /\ signalled' = FALSE
  /\ UNCHANGED <<rc, raised, shown, ctl, executed, interrupted>>

Start ==
  /\ loc = "prompt"
  /\ loc' = "run"
  /\ interrupted' = FALSE
  /\ signalled' = FALSE
  /\ UNCHANGED <<rc, raised, shown, ctl, executed>>

Run == Start /\ \E v \in Values \cup {orig_pc} : cpu' = [cpu EXCEPT !.pc = v]

Go == Start /\ UNCHANGED cpu

(* `n': exec_next. *)
NextInst ==
  /\ loc = "prompt"
  /\ loc' = "next"
  /\ signalled' = FALSE
  /\ UNCHANGED <<cpu, rc, raised, shown, interrupted, ctl, executed>>

(* `rl': the program is loaded anew and the processor reset.               *)
Reload ==
  /\ Command
  /\ Reset
  /\ orig_pc' = cpu'.pc
  /\ UNCHANGED <<trace, surface, breakpoints, stmnt>>

(* `q', the end of the input, and an `rl' whose file cannot be loaded.     *)
Quit ==
  /\ loc = "prompt"
  /\ loc' = "quit"
  /\ UNCHANGED <<cpu, rc, raised, shown, interrupted, ctl, hist>>

(* `j' refuses a misaligned address. *)
Jump ==
  /\ Command
  /\ \E v \in Values :
       cpu' = IF v % InstSize = 0 THEN [cpu EXCEPT !.pc = v] ELSE cpu
  /\ UNCHANGED <<rc, raised, ctl>>

Trace ==
  /\ Command
  /\ trace' \in BOOLEAN
  /\ UNCHANGED <<cpu, rc, raised, surface, breakpoints, orig_pc, stmnt>>

InstMode ==
  /\ Command
  /\ surface' = ~surface
  /\ UNCHANGED <<cpu, rc, raised, trace, breakpoints, orig_pc, stmnt>>

(* `pw', `pb' and `pi' of one item; several items leave the processor as   *)
(* several commands do.  `pi' reads the word it disassembles as data       *)
(* (ant32_dump_vmem_insts, ant32_debug.c 576).                             *)
Look ==
  /\ Command
  /\ \E v \in Values, size \in {1, 4} : cpu' = DbgAccess(cpu, v, size, "READ")
  /\ UNCHANGED <<rc, raised, ctl>>

(* `v': translate only. *)
Translate ==
  /\ Command
  /\ \E v \in Values : cpu' = V2P(cpu, v, cpu.mode, {}, FALSE).m
  /\ UNCHANGED <<rc, raised, ctl>>

(* `st4' and `st1'. *)
Store ==
  /\ Command
  /\ \E v \in Values, size \in {1, 4} : cpu' = DbgAccess(cpu, v, size, "WRITE")
  /\ UNCHANGED <<rc, raised, ctl>>

(* `lc' on the exception registers; e3 is left out. *)
LoadConst ==
  /\ Command
  /\ \E v \in Values, b \in BOOLEAN :
       cpu' \in {[cpu EXCEPT !.e0 = v], [cpu EXCEPT !.e1 = b], [cpu EXCEPT !.e2 = v]}
  /\ UNCHANGED <<rc, raised, ctl>>

SetBreakpoints ==
  /\ Command
  /\ \E args \in BpArgs :
       /\ breakpoints' = FoldLeft(SetBreakpoint, breakpoints, args)
       /\ stmnt' = Stmnt("set", Range(args))
  /\ UNCHANGED <<cpu, rc, raised, trace, surface, orig_pc>>

ClearBreakpoints ==
  /\ Command
  /\ \/ \E args \in BpArgs :
          /\ breakpoints' = FoldLeft(ClearBreakpoint, breakpoints, args)
          /\ stmnt' = Stmnt("clear", Range(args))
     \/ /\ breakpoints' = NoBreakpoints
        /\ stmnt' = Stmnt("clear all", {})
  /\ UNCHANGED <<cpu, rc, raised, trace, surface, orig_pc>>

----------------------------------------------------------------------------
(* Running under the debugger: ant_exec_dbg for `r' and `g', exec_next for *)
(* `n', both on top of ant_exec_inst_dbg.                                  *)
Looping == loc \in {"run", "next"}

TracePeek ==
  /\ Looping /\ trace /\ ~shown
  /\ cpu' = DbgAccess(cpu, cpu.pc, InstSize, "EXEC")
  /\ shown' = TRUE
  /\ UNCHANGED <<rc, raised, loc, interrupted, ctl, hist>>

(* `n' stops after one instruction, or while it shows source lines when it *)
(* has left the expansion of one.                                          *)
GoesOn(pc) == loc = "run" \/ (surface /\ pc \in Synthetic)

(* What is left of ant_exec_inst_dbg after the trace: the flag the signal  *)
(* handler sets, one instruction whatever the last one returned, and the   *)
(* breakpoint at the program counter it leaves.                            *)
\* Seeded fault: breakpoints are looked up before the instruction.
StepLooksBefore ==
  IF interrupted
  THEN /\ loc' = "show"
       /\ UNCHANGED <<cpu, rc, raised, executed>>
  ELSE /\ ExecInst
       /\ executed' = TRUE
       /\ loc' = IF rc' = "OK" /\ ~CheckBreakpoint(breakpoints, cpu.pc) /\ GoesOn(cpu'.pc)
                 THEN loc ELSE "show"

\* Seeded fault: the flag is not looked at.
StepUninterruptible ==
  /\ ExecInst
  /\ executed' = TRUE
  /\ loc' = IF rc' = "OK" /\ ~CheckBreakpoint(breakpoints, cpu'.pc) /\ GoesOn(cpu'.pc)
            THEN loc ELSE "show"

Step ==
  IF interrupted
  THEN /\ loc' = "show"
       /\ UNCHANGED <<cpu, rc, raised, executed>>
  ELSE /\ ExecInst
       /\ executed' = TRUE
       /\ loc' = IF rc' = "OK" /\ ~CheckBreakpoint(breakpoints, cpu'.pc) /\ GoesOn(cpu'.pc)
                 THEN loc ELSE "show"

ExecInstDbg ==
  /\ Looping /\ (trace => shown)
  /\ Step
  /\ shown' = FALSE
  /\ UNCHANGED <<interrupted, ctl, signalled>>

(* ant32_dbg_catch_intr, the handler of SIGINT. *)
Signal ==
  /\ loc # "quit"
  /\ interrupted' = TRUE
  /\ signalled' = TRUE
  /\ UNCHANGED <<cpu, rc, raised, loc, shown, ctl, executed>>

----------------------------------------------------------------------------
(* ad32: reset the processor, clear the breakpoints, enter ant_debug. *)
DbgInit ==
  /\ Init
  /\ loc = "show"
  /\ shown = FALSE
  /\ trace = FALSE
  /\ surface = TRUE
  /\ interrupted = FALSE
  /\ breakpoints = NoBreakpoints
  /\ orig_pc = cpu.pc
  /\ stmnt = NoStmnt
  /\ executed = FALSE
  /\ signalled = FALSE

Commands ==
  \/ Run
  \/ Go
  \/ NextInst
  \/ Reload
  \/ Quit
  \/ Jump
  \/ Trace
  \/ InstMode
  \/ Look
  \/ Translate
  \/ Store
  \/ LoadConst
  \/ SetBreakpoints
  \/ ClearBreakpoints

DbgNext ==
  \/ Show
  \/ Commands
  \/ TracePeek
  \/ ExecInstDbg
  \/ Signal

DbgSpec == DbgInit /\ [][DbgNext]_dvars

(* The debugger's own code keeps running; what the user does need not.     *)
FairDbgSpec == DbgSpec /\ WF_dvars(Show \/ TracePeek \/ ExecInstDbg)
=============================================================================
