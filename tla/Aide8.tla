-------------------------------- MODULE Aide8 --------------------------------
(***************************************************************************)
(* AIDE-8, the graphical development environment of the Ant-8: the machine *)
(* (Ant8/Lib8/ant8_exec.c), the commands the interface calls it with       *)
(* (Ant8/aide8_wish.c) and the callbacks of its buttons (Ant8/Tcl8).       *)
(*                                                                         *)
(* Everything runs in one thread, but a callback that calls Tk's `update`  *)
(* lets the user start another on top of it: `stack` holds the callbacks   *)
(* that are in an `update`, the newest last, and only the newest goes on.  *)
(* A callback whose `update` is the last thing it does is not kept there.  *)
(*                                                                         *)
(* The machine's data is left out: an operation that depends on it may     *)
(* take any course, and of the registers only r0 is kept.                  *)
(***************************************************************************)
EXTENDS Ant8InBuf

CONSTANTS
  Words,       \* the number of instructions in memory, 128 in the code
  Programs,    \* what the user can assemble
  Stored,      \* the instructions a store can leave in memory
  Lines,       \* the lines the user can type, newline included
  Breaks,      \* where the user sets breakpoints
  Clicks,      \* what else the user does: "step", "reset", "eot", "speed"
  MaxPending,  \* a bound on what is typed ahead
  MaxDepth     \* a bound on the callbacks in progress

Registers == {"r0", "r1", "other"}
Inst == [op : {"hlt", "alu", "jump", "load", "store", "out"}]
          \cup [op : {"in"}, reg : Registers, format : Formats]

Addr    == 0 .. 2 * Words - 1
Program == [0 .. Words - 1 -> Inst]

ASSUME WordsAssumption    == Words \in Nat \ {0}
ASSUME ProgramsAssumption == Programs \subseteq Program
ASSUME StoredAssumption   == Stored \subseteq Inst
ASSUME BreaksAssumption   == Breaks \subseteq Addr
ASSUME DepthAssumption    == MaxDepth \in Nat

VARIABLES
  mem, pc, reg0,         \* the machine
  status,                \* CurrentAntStatus
  inputReg, inputType,   \* gantCurrentAntInputReg, gantCurrentAntInputType
  result,                \* what gantExecSingleStep last returned
  queue, prev_char,      \* the console: what is pending, the last one read
  lastGoodAnt,           \* the program Reset loads, if there is one: a set
  consoleBuffer,         \* the line being typed, if it began with ^D
  breakpoints,           \* gantBreakPoints
  runButton,             \* the label of the Run button
  INTERRUPTED,
  paused,                \* StepPauseMilliSec > 0
  stack                  \* the callbacks in progress

machine == <<mem, pc, reg0, status, inputReg, inputType, result, queue, prev_char>>
user    == <<lastGoodAnt, consoleBuffer, breakpoints, paused>>
tcl     == <<runButton, INTERRUPTED, stack>>
vars    == <<machine, user, tcl>>

Status == {"OK", "input", "halt", "fault"}
(* A run loop is about to execute its first ("start") or another ("head")  *)
(* instruction, waits for input, pauses, or shows why it ended.            *)
Frame == [proc : {"run"}, at : {"start", "head", "wait", "pause", "check", "leave"}]
           \cup [proc : {"step"}, at : {"wait"}]

NoProgram == [a \in 0 .. Words - 1 |-> [op |-> "hlt"]]

Init ==
  /\ mem = NoProgram /\ pc = 0 /\ reg0 = 0
  /\ status = "OK" /\ result = "OK"
  /\ inputReg = "r0" /\ inputType = "number"
  /\ queue = <<>> /\ prev_char = Newline
  /\ lastGoodAnt = {}
  /\ consoleBuffer = <<>>
  /\ breakpoints = {}
  /\ runButton = "Run" /\ INTERRUPTED = FALSE
  /\ paused = TRUE
  /\ stack = <<>>
-----------------------------------------------------------------------------
(* ant_exec_inst, with what it reads from the console and r0 before it.    *)

Goes(addr, newStatus) == pc' = addr /\ status' = newStatus /\ result' = newStatus

ReadsNothing(con) == queue' = con.queue /\ prev_char' = con.prev
KeepsR0(con)      == reg0' = con.reg0
NoStall           == UNCHANGED <<inputReg, inputType>>

(* What ant8_do_in_buf leaves, and what r0 holds if `in` writes it.        *)
InputFrom(con, format) ==
  LET n == Taken(format, con.queue, con.prev)
  IN  [queue |-> SubSeq(con.queue, n + 1, Len(con.queue)),
       prev  |-> LastRead(format, con.queue, con.prev),
       reg0  |-> IF NonZero(format, con.queue, con.prev) THEN 1 ELSE 0]

NextPc == (pc + 2) % (2 * Words)  \* ant_pc_t is eight bits wide

\* Seeded fault: a single pending character is overlooked.
ExecInOneShort(con, inst) ==
  /\ mem' = mem
  /\ KeepsR0(con)
  /\ IF Len(con.queue) <= 1
     THEN /\ Goes(NextPc, "input")
          /\ inputReg' = inst.reg /\ inputType' = inst.format
          /\ ReadsNothing(con)
     ELSE /\ Goes(NextPc, "OK")
          /\ ReadsNothing(InputFrom(con, inst.format))
          /\ NoStall

ExecIn(con, inst) ==
  /\ mem' = mem
  /\ KeepsR0(con)  \* ant_assign_des_reg
  /\ IF con.queue = <<>>
     THEN /\ Goes(NextPc, "input")
          /\ inputReg' = inst.reg /\ inputType' = inst.format
          /\ ReadsNothing(con)
     ELSE /\ Goes(NextPc, "OK")
          /\ ReadsNothing(InputFrom(con, inst.format))
          /\ NoStall

ExecOther(con, op) ==
  /\ ReadsNothing(con) /\ KeepsR0(con) /\ NoStall
  /\ \/ op \in {"alu", "jump", "load", "out"} /\ Goes(NextPc, "OK") /\ mem' = mem
     \/ op = "jump" /\ mem' = mem /\ \E target \in Addr : Goes(target, "OK")
     \/ op \in {"load", "store"} /\ Goes(NextPc, "fault") /\ mem' = mem
     \/ /\ op = "store" /\ Goes(NextPc, "OK")
        /\ \E a \in 0 .. Words - 1, i \in Stored : mem' = [mem EXCEPT ![a] = i]
     \/ op = "hlt" /\ Goes(NextPc, "halt") /\ mem' = mem

OddPc(con) ==
  /\ ReadsNothing(con) /\ KeepsR0(con) /\ NoStall
  /\ Goes(pc, "fault") /\ mem' = mem

ExecInst(con) ==
  IF pc % 2 # 0 THEN OddPc(con)
  ELSE LET inst == mem[pc \div 2]
       IN  IF inst.op = "in" THEN ExecIn(con, inst) ELSE ExecOther(con, inst.op)

Console == [queue |-> queue, prev |-> prev_char, reg0 |-> reg0]

(* gantBufferInput: the console and r0 after str arrived.  A stalled `in`  *)
(* is finished here, and writes its register whichever it is.              *)
BufferInput(str) ==
  LET typed == [Console EXCEPT !.queue = queue \o str]
      read  == InputFrom(typed, inputType)
  IN  IF status # "input" THEN typed
      ELSE IF inputReg = "r0" THEN read ELSE [read EXCEPT !.reg0 = reg0]

(* force_input                                                             *)
ForceInput == IF status = "input" THEN BufferInput(<<Newline>>) ELSE Console
-----------------------------------------------------------------------------
(* The callbacks.                                                          *)

Top == stack[Len(stack)]
InUpdate == stack # <<>> => Top.at \in {"wait", "pause", "leave"}

Push(frame) == stack' = Append(stack, frame)
Pop         == stack' = SubSeq(stack, 1, Len(stack) - 1)
Go(label)   == stack' = [stack EXCEPT ![Len(stack)].at = label]

GantBufferInput(str) ==
  LET con == BufferInput(str)
  IN  /\ ReadsNothing(con) /\ KeepsR0(con)
      /\ status' = "OK"
      /\ UNCHANGED <<mem, pc, inputReg, inputType, result>>

\* Seeded fault: the button still starts a run while one is going on.
PressRunTwice ==
  /\ InUpdate /\ Len(stack) < MaxDepth
  /\ runButton' = "Stop"
  /\ INTERRUPTED' = FALSE
  /\ Push([proc |-> "run", at |-> "start"])
  /\ UNCHANGED <<machine, user>>

PressRun ==
  /\ InUpdate /\ Len(stack) < MaxDepth
  /\ runButton = "Run"
  /\ runButton' = "Stop"
  /\ INTERRUPTED' = FALSE
  /\ Push([proc |-> "run", at |-> "start"])
  /\ UNCHANGED <<machine, user>>

PressStop ==
  /\ InUpdate
  /\ runButton = "Stop"
  /\ INTERRUPTED' = TRUE
  /\ IF status = "input" THEN GantBufferInput(<<Newline>>) ELSE UNCHANGED machine
  /\ UNCHANGED <<user, runButton, stack>>

PressStep ==
  /\ "step" \in Clicks
  /\ InUpdate /\ Len(stack) < MaxDepth
  /\ ExecInst(ForceInput)
  /\ IF status' = "input" THEN Push([proc |-> "step", at |-> "wait"])
                          ELSE UNCHANGED stack
  /\ UNCHANGED <<user, runButton, INTERRUPTED>>

(* gantLoadLastGoodAnt, then consoleClearInput                             *)
PressReset ==
  /\ "reset" \in Clicks
  /\ InUpdate
  /\ IF lastGoodAnt = {}
     THEN UNCHANGED <<mem, pc, reg0>>
     ELSE mem' \in lastGoodAnt /\ pc' = 0 /\ reg0' = 0
  /\ status' = "OK"
  /\ queue' = <<>>
  /\ consoleBuffer' = <<>>
  /\ UNCHANGED <<inputReg, inputType, result, prev_char>>
  /\ UNCHANGED <<lastGoodAnt, breakpoints, paused, tcl>>

(* gantLoadFromAssembler, after an assembly without errors                 *)
Assemble(program) ==
  /\ InUpdate
  /\ mem' = program /\ pc' = 0 /\ reg0' = 0
  /\ lastGoodAnt' = {program}
  /\ UNCHANGED <<status, inputReg, inputType, result, queue, prev_char>>
  /\ UNCHANGED <<consoleBuffer, breakpoints, paused, tcl>>

TypeLine(line) ==
  /\ InUpdate
  /\ Len(queue) + Len(consoleBuffer) + Len(line) <= MaxPending
  /\ GantBufferInput(consoleBuffer \o line)
  /\ consoleBuffer' = <<>>
  /\ UNCHANGED <<lastGoodAnt, breakpoints, paused, tcl>>

TypeEot ==
  /\ "eot" \in Clicks
  /\ InUpdate
  /\ consoleBuffer = <<>> /\ Len(queue) < MaxPending
  /\ consoleBuffer' = <<Eot>>
  /\ GantBufferInput(<<Eot>>)
  /\ UNCHANGED <<lastGoodAnt, breakpoints, paused, tcl>>

(* Backspace does not take back what was passed on already.                *)
EraseEot ==
  /\ InUpdate
  /\ consoleBuffer # <<>>
  /\ consoleBuffer' = <<>>
  /\ UNCHANGED <<machine, lastGoodAnt, breakpoints, paused, tcl>>

ToggleBreakPoint(addr) ==
  /\ InUpdate
  /\ breakpoints' = (breakpoints \ {addr}) \cup ({addr} \ breakpoints)
  /\ UNCHANGED <<machine, lastGoodAnt, consoleBuffer, paused, tcl>>

ClearBreaks ==
  /\ InUpdate /\ breakpoints # {}
  /\ breakpoints' = {}
  /\ UNCHANGED <<machine, lastGoodAnt, consoleBuffer, paused, tcl>>

SetStepPause ==
  /\ "speed" \in Clicks
  /\ InUpdate
  /\ paused' = ~paused
  /\ UNCHANGED <<machine, lastGoodAnt, consoleBuffer, breakpoints, tcl>>
-----------------------------------------------------------------------------
(* The newest callback goes on.                                            *)

Running(labels) == stack # <<>> /\ Top.proc = "run" /\ Top.at \in labels

(* Where a run loop is once the instruction and its input are over.        *)
AfterStep == IF paused THEN "pause" ELSE "check"

\* Seeded fault: the loop does not look at INTERRUPTED.
RunStepUninterrupted ==
  /\ Running({"start", "head"})
  /\ ExecInst(Console)
  /\ Go(IF status' = "input" THEN "wait" ELSE AfterStep)
  /\ UNCHANGED <<user, runButton, INTERRUPTED>>

RunStep ==
  /\ Running({"start", "head"})
  /\ ~INTERRUPTED
  /\ ExecInst(Console)
  /\ Go(IF status' = "input" THEN "wait" ELSE AfterStep)
  /\ UNCHANGED <<user, runButton, INTERRUPTED>>

RunInterrupted ==
  /\ Running({"start", "head"})
  /\ INTERRUPTED
  /\ runButton' = "Run"
  /\ Pop
  /\ UNCHANGED <<machine, user, INTERRUPTED>>

\* Seeded fault: the wait ends when INTERRUPTED is set, input or not.
InputArrivedOrStop ==
  /\ stack # <<>> /\ Top.at = "wait"
  /\ status # "input" \/ INTERRUPTED
  /\ IF Top.proc = "run" THEN Go(AfterStep) ELSE Pop
  /\ UNCHANGED <<machine, user, runButton, INTERRUPTED>>

InputArrived ==
  /\ stack # <<>> /\ Top.at = "wait"
  /\ status # "input"
  /\ IF Top.proc = "run" THEN Go(AfterStep) ELSE Pop
  /\ UNCHANGED <<machine, user, runButton, INTERRUPTED>>

\* Seeded fault: after a pause the loop goes on at once.
RunPausedGoesOn ==
  /\ Running({"pause"})
  /\ Go(IF status # "OK" THEN "leave" ELSE "head")
  /\ UNCHANGED <<machine, user, runButton, INTERRUPTED>>

RunPaused ==
  /\ Running({"pause"})
  /\ Go("check")
  /\ UNCHANGED <<machine, user, runButton, INTERRUPTED>>

RunCheck ==
  /\ Running({"check"})
  /\ Go(IF status # "OK" \/ pc \in breakpoints THEN "leave" ELSE "head")
  /\ UNCHANGED <<machine, user, runButton, INTERRUPTED>>

RunReturns ==
  /\ Running({"leave"})
  /\ runButton' = "Run"
  /\ Pop
  /\ UNCHANGED <<machine, user, INTERRUPTED>>

Tcl == RunStep \/ RunInterrupted \/ InputArrived \/ RunPaused \/ RunCheck \/ RunReturns

User ==
  \/ PressRun \/ PressStop \/ PressStep \/ PressReset
  \/ \E program \in Programs : Assemble(program)
  \/ \E line \in Lines : TypeLine(line)
  \/ TypeEot \/ EraseEot
  \/ \E addr \in Breaks : ToggleBreakPoint(addr)
  \/ ClearBreaks
  \/ SetStepPause

Next == Tcl \/ User

Spec     == Init /\ [][Next]_vars
FairSpec == Spec /\ WF_vars(Tcl)
=============================================================================
