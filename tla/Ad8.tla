--------------------------------- MODULE Ad8 ---------------------------------
(***************************************************************************)
(* The Ant-8 debugger ad8: the command loop ant_debug (ad8_util.c), the    *)
(* loop that runs the program (Lib8/ant8_dbg.c), its breakpoints, the      *)
(* table of watchpoints (Lib8/ant8_watch.c) and loading (ant8_load.c).     *)
(*                                                                         *)
(* The program is any program: an instruction goes on or jumps, stores a   *)
(* byte, reads a line, halts or faults.  The program and the user share    *)
(* one memory, and one standard input.  SIGINT may arrive at any time.     *)
(***************************************************************************)
EXTENDS Integers, SequencesExt

CONSTANTS
  NAddr,      \* ANT_INST_ADDR_RANGE, ANT_DATA_ADDR_RANGE
  Byte,       \* values of a byte
  MaxWp,      \* MAX_N_WP
  BpArgs,     \* argument lists of `b' and `c'
  WpArgs,     \* argument lists of `w' and `u'
  Images      \* what loading the file may give: the bytes, and whether they load

Addr == 0 .. NAddr - 1

ASSUME Ad8Assumption ==
  /\ NAddr \in Nat /\ NAddr > 0 /\ NAddr % 2 = 0
  /\ 0 \in Byte
  /\ MaxWp \in Nat \ {0}
  /\ BpArgs \subseteq Seq(Int) /\ WpArgs \subseteq Seq(Int)
  /\ Images \subseteq [bytes : Seq(Byte), ok : BOOLEAN]

VARIABLES
  pc, data,     \* ant_t
  loc,          \* where the debugger is
  trace,        \* trace mode
  interrupted,  \* Interrupted
  breakpoints,  \* the addresses with a breakpoint
  watchpoints,  \* the table, its n_wp entries
  said,         \* the watchpoint the last instruction announced
  executed      \* the last step executed an instruction (history)

vars == <<pc, data, loc, trace, interrupted, breakpoints, watchpoints, said, executed>>

Loc == {"prompt", "run", "next", "hung", "quit"}
-----------------------------------------------------------------------------
(* ant8_watch.c                                                            *)

Watching(wp, a) == \E i \in DOMAIN wp : wp[i].addr = a
IndexOf(wp, a)  == CHOOSE i \in DOMAIN wp : wp[i].addr = a

WpSet(wp, a) ==
  IF Len(wp) >= MaxWp \/ Watching(wp, a) THEN wp
  ELSE Append(wp, [addr |-> a, val |-> data[a]])

\* Seeded fault: the value stays behind when the last entry fills the hole.
WpClearMixed(wp, a) ==
  IF ~Watching(wp, a) THEN wp
  ELSE Front([wp EXCEPT ![IndexOf(wp, a)].addr = Last(wp).addr])

(* The last entry fills the hole.                                          *)
WpClear(wp, a) ==
  IF ~Watching(wp, a) THEN wp ELSE Front([wp EXCEPT ![IndexOf(wp, a)] = Last(wp)])

(* The first entry whose value is not what memory holds.                   *)
Different(wp, mem) == {i \in DOMAIN wp : mem[wp[i].addr] # wp[i].val}
FirstDifferent(wp, mem) ==
  {i \in Different(wp, mem) : \A j \in Different(wp, mem) : i <= j}

WpCycle(wp, mem) ==
  [i \in DOMAIN wp |-> IF i \in FirstDifferent(wp, mem)
                       THEN [wp[i] EXCEPT !.val = mem[wp[i].addr]] ELSE wp[i]]

WpUpdate(wp, mem) == [i \in DOMAIN wp |-> [wp[i] EXCEPT !.val = mem[wp[i].addr]]]

Announced(wp, mem) ==
  {[addr |-> wp[i].addr, old |-> wp[i].val, new |-> mem[wp[i].addr]]
     : i \in FirstDifferent(wp, mem)}
-----------------------------------------------------------------------------
(* ant_load_text, ant_clear                                                *)

Loaded(image) == [a \in Addr |-> IF a < Len(image.bytes) THEN image.bytes[a + 1] ELSE 0]
-----------------------------------------------------------------------------
(* The program: ant_exec_inst.                                             *)

NextPc == (pc + 2) % NAddr

(* Its outcome: the program counter, memory, and whether it halted.        *)
Outcome(p, mem, stops) == [pc |-> p, data |-> mem, stops |-> stops]

Outcomes ==
  IF pc % 2 # 0 THEN {Outcome(pc, data, TRUE)}
  ELSE {Outcome(p, data, FALSE) : p \in Addr}
       \cup {Outcome(NextPc, data, TRUE)}
       \cup {Outcome(NextPc, [data EXCEPT ![a] = v], FALSE) : a \in Addr, v \in Byte}
-----------------------------------------------------------------------------
(* ant_debug: what a command that is over at once leaves alone.            *)
Command ==
  /\ loc = "prompt"
  /\ loc' = "prompt"
  /\ said' = {}
  /\ executed' = FALSE
  /\ UNCHANGED interrupted

(* check_addr_arg: every argument in range counts, the others are          *)
(* complained of.                                                          *)
InRange(args) == ToSet(args) \cap Addr

SetArg(wp, a)   == IF a \in Addr THEN WpSet(wp, a) ELSE wp
ClearArg(wp, a) == IF a \in Addr THEN WpClear(wp, a) ELSE wp

Break ==
  /\ Command
  /\ \E args \in BpArgs : breakpoints' = breakpoints \cup InRange(args)
  /\ UNCHANGED <<pc, data, trace, watchpoints>>

ClearBp ==
  /\ Command
  /\ \/ breakpoints' = {}
     \/ \E args \in BpArgs : breakpoints' = breakpoints \ InRange(args)
  /\ UNCHANGED <<pc, data, trace, watchpoints>>

(* `w' says that the watchpoint is set, whatever ant8_wp_set returns.      *)
Watch ==
  /\ Command
  /\ \E args \in WpArgs :
       watchpoints' = FoldLeft(SetArg, watchpoints, args)
  /\ UNCHANGED <<pc, data, trace, breakpoints>>

ClearWp ==
  /\ Command
  /\ \/ watchpoints' = <<>>
     \/ \E args \in WpArgs :
          watchpoints' = FoldLeft(ClearArg, watchpoints, args)
  /\ UNCHANGED <<pc, data, trace, breakpoints>>

(* `z': the end may be one past memory, the byte after it is not used.     *)
Zero ==
  /\ Command
  /\ \E first \in Addr, last \in 0 .. NAddr :
       /\ first <= last
       /\ data' = [a \in Addr |-> IF a \in first .. last THEN 0 ELSE data[a]]
  /\ UNCHANGED <<pc, trace, breakpoints, watchpoints>>

(* `s' into memory.                                                        *)
Store ==
  /\ Command
  /\ \E a \in Addr, v \in Byte : data' = [data EXCEPT ![a] = v]
  /\ UNCHANGED <<pc, trace, breakpoints, watchpoints>>

Jump ==
  /\ Command
  /\ \E a \in Addr : pc' = a
  /\ UNCHANGED <<data, trace, breakpoints, watchpoints>>

Trace ==
  /\ Command
  /\ trace' \in BOOLEAN
  /\ UNCHANGED <<pc, data, breakpoints, watchpoints>>

(* `R' clears memory and registers, loads, and forgets what was watched.   *)
Reload ==
  /\ Command
  /\ \E image \in Images : image.ok /\ data' = Loaded(image)
  /\ pc' = 0
  /\ watchpoints' = WpUpdate(watchpoints, data')
  /\ UNCHANGED <<trace, breakpoints>>

(* `q', the end of the input, and a file that does not load.               *)
Quit ==
  /\ loc = "prompt"
  /\ loc' = "quit"
  /\ UNCHANGED <<pc, data, trace, interrupted, breakpoints, watchpoints, said, executed>>

(* `r', `g': ant_exec_dbg.  `n' goes straight to ant_exec_inst_dbg.        *)
Start ==
  /\ loc = "prompt"
  /\ loc' = "run"
  /\ interrupted' = FALSE
  /\ said' = {}
  /\ executed' = FALSE
  /\ UNCHANGED <<data, trace, breakpoints, watchpoints>>

Run == Start /\ pc' \in Addr
Go  == Start /\ UNCHANGED pc

NextInst ==
  /\ loc = "prompt"
  /\ loc' = "next"
  /\ said' = {}
  /\ executed' = FALSE
  /\ UNCHANGED <<pc, data, trace, interrupted, breakpoints, watchpoints>>
-----------------------------------------------------------------------------
(* ant_exec_inst_dbg                                                       *)

Running == loc \in {"run", "next"}

(* Back in ant_debug, or in the loop of ant_exec_dbg.                      *)
Back(stops) == IF stops \/ loc # "run" THEN "prompt" ELSE "run"

Refuse ==
  /\ Running /\ interrupted
  /\ loc' = "prompt"
  /\ said' = {}
  /\ executed' = FALSE
  /\ UNCHANGED <<pc, data, trace, interrupted, breakpoints, watchpoints>>

\* Seeded fault: the breakpoint is looked for at the instruction just executed.
FinishLate(o) ==
  IF o.stops
  THEN /\ loc' = "prompt" /\ said' = {}
       /\ UNCHANGED watchpoints
  ELSE /\ said' = Announced(watchpoints, o.data)
       /\ watchpoints' = WpCycle(watchpoints, o.data)
       /\ loc' = Back(pc \in breakpoints \/ said' # {})

\* Seeded fault: the watchpoints are not looked at behind a breakpoint.
FinishEarly(o) ==
  IF o.stops \/ o.pc \in breakpoints
  THEN /\ loc' = "prompt" /\ said' = {}
       /\ UNCHANGED watchpoints
  ELSE /\ said' = Announced(watchpoints, o.data)
       /\ watchpoints' = WpCycle(watchpoints, o.data)
       /\ loc' = Back(said' # {})

(* A breakpoint and a watchpoint met at the same time are both announced.  *)
Finish(o) ==
  IF o.stops
  THEN /\ loc' = "prompt" /\ said' = {}
       /\ UNCHANGED watchpoints
  ELSE /\ said' = Announced(watchpoints, o.data)
       /\ watchpoints' = WpCycle(watchpoints, o.data)
       /\ loc' = Back(o.pc \in breakpoints \/ said' # {})

ExecInst ==
  /\ Running /\ ~interrupted
  /\ \E o \in Outcomes : pc' = o.pc /\ data' = o.data /\ Finish(o)
  /\ executed' = TRUE
  /\ UNCHANGED <<trace, interrupted, breakpoints>>

(* IN: the program takes the rest of a line from the user.  At the end of  *)
(* the input a character is read at once, but a number is looked for until *)
(* the end of its line, which never comes.                                 *)
Input ==
  /\ Running /\ ~interrupted /\ pc % 2 = 0
  /\ pc' = NextPc
  /\ \/ Finish(Outcome(NextPc, data, FALSE)) /\ executed' = TRUE
     \/ /\ loc' = "hung" /\ executed' = FALSE
        /\ said' = {} /\ UNCHANGED watchpoints
  /\ UNCHANGED <<data, trace, interrupted, breakpoints>>

(* ant8_dbg_catch_intr                                                     *)
Signal ==
  /\ loc # "quit"
  /\ interrupted' = TRUE
  /\ UNCHANGED <<pc, data, loc, trace, breakpoints, watchpoints, said, executed>>
-----------------------------------------------------------------------------
Init ==
  /\ pc = 0
  /\ data \in {Loaded(image) : image \in {i \in Images : i.ok}}
  /\ loc = "prompt"
  /\ trace = FALSE
  /\ interrupted = FALSE
  /\ breakpoints = {}
  /\ watchpoints = <<>>
  /\ said = {}
  /\ executed = FALSE

Commands ==
  Break \/ ClearBp \/ Watch \/ ClearWp \/ Zero \/ Store \/ Jump \/ Trace \/ Reload \/ Quit
  \/ Run \/ Go \/ NextInst

Next == Commands \/ Refuse \/ ExecInst \/ Input \/ Signal

Spec == Init /\ [][Next]_vars
=============================================================================
