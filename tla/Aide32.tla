-------------------------------- MODULE Aide32 -------------------------------
(***************************************************************************)
(* AIDE-32, the graphical environment of the Ant-32: the callbacks of its  *)
(* buttons (Ant32/Tcl32/aide32_control.tcl) and the commands they give the *)
(* machine (Ant32/aide32_wish.c).                                          *)
(*                                                                         *)
(* Program and user share a console of one character each way.  A callback *)
(* offers the program a character before it executes an instruction        *)
(* (prepare_input) and collects what it printed, and deletes what it read, *)
(* afterwards (handle_output).  Between the two a run lets Tk handle       *)
(* events, and the user may start other callbacks on top of it: `stack`    *)
(* says where each run is, the newest last, and only the newest goes on.   *)
(*                                                                         *)
(* The machine's data is left out: an instruction that depends on it may   *)
(* take any course.  A character is not told from another; the last word   *)
(* of a program stands for the rest of memory.                             *)
(***************************************************************************)
EXTENDS Integers, Sequences

CONSTANTS
  Words,     \* the words of a program
  Programs,  \* the programs the user has
  Breaks,    \* where the user sets breakpoints
  Watches,   \* the instructions that touch what the user may watch
  Clicks,    \* what else the user does: "speed", "delete"
  MaxTyped,  \* a bound on the characters in the input window
  MaxDepth   \* a bound on the runs in progress

Addr == 0 .. Words - 1
Op   == {"alu", "jump", "cin", "cout", "halt", "trap", "unmapped"}

ASSUME WordsAssumption    == Words \in Nat \ {0}
ASSUME ProgramsAssumption == Programs \subseteq [Addr -> Op]
ASSUME UserAssumption     == Breaks \subseteq Addr /\ Watches \subseteq Op
ASSUME BoundsAssumption   == MaxTyped \in Nat /\ MaxDepth \in Nat

VARIABLES
  mem, pc,
  console,      \* ant->console, and the text of the input window
  result,       \* what became of the last instruction
  old_pc,       \* the last instruction executed, if there was one: a set
  running,      \* what do_run's loop looks at; the button says Stop
  enabled,      \* the buttons Run and Step
  breakpoints, watching,
  silent,       \* the speed is Silent
  stack         \* the runs in progress

user == <<breakpoints, watching, silent>>
vars == <<mem, pc, console, result, old_pc, running, enabled, user, stack>>

NoProgram == [a \in Addr |-> "trap"]
Empty     == [in_new |-> FALSE, out_new |-> FALSE, typed |-> 0, sent |-> FALSE]
Result    == {"OK", "halted", "exception", "error"}

Init ==
  /\ mem = NoProgram /\ pc = 0
  /\ console = Empty
  /\ result = "OK" /\ old_pc = {}
  /\ running = FALSE /\ enabled = FALSE
  /\ breakpoints = {} /\ watching = {} /\ silent = FALSE
  /\ stack = <<>>
-----------------------------------------------------------------------------
(* prepare_input: the first character typed is put where cin finds it, and *)
(* tagged.                                                                 *)
Prepared == IF ~console.in_new /\ console.typed > 0
            THEN [console EXCEPT !.in_new = TRUE, !.sent = TRUE]
            ELSE console

(* ... and it returns 0.                                                   *)
Starved == ~Prepared.in_new /\ mem[pc] = "cin"

\* Seeded fault: the input is looked at only if there was no output.
HandledEither(con) ==
  IF con.out_new THEN [con EXCEPT !.out_new = FALSE]
  ELSE IF con.sent /\ ~con.in_new
       THEN [con EXCEPT !.typed = @ - 1, !.sent = FALSE]
       ELSE con

(* handle_output                                                           *)
Handled(con) ==
  LET got == [con EXCEPT !.out_new = FALSE]
  IN  IF got.sent /\ ~got.in_new
      THEN [got EXCEPT !.typed = @ - 1, !.sent = FALSE]
      ELSE got

NextPc == IF pc + 1 \in Addr THEN pc + 1 ELSE pc

(* ant32_cin, ant32_cout                                                   *)
Performed(con, op) ==
  CASE op = "cin"  -> [con EXCEPT !.in_new = FALSE]
    [] op = "cout" -> [con EXCEPT !.out_new = TRUE]
    [] OTHER       -> con

(* The command `step`: "exception" when an exception or a timer interrupt  *)
(* was thrown while exceptions were disabled.                              *)
Outcome == {"OK", "halted", "exception"}

Step(outcome) ==
  LET op == mem[pc]
  IN  /\ old_pc' = {pc}
      /\ \/ op \notin {"halt", "trap", "unmapped"} /\ pc' = NextPc /\ outcome = "OK"
         \/ op = "jump" /\ pc' \in Addr /\ outcome = "OK"
         \/ op = "halt" /\ pc' = NextPc /\ outcome = "halted"
         \/ op # "halt" /\ pc' \in Addr /\ outcome # "halted"

(* What update_display finds out about the last instruction: it ends the   *)
(* run if a register or word that is watched was touched, and raises an    *)
(* error if the instruction cannot be read.                                *)
Watched(last)    == \E a \in last : mem[a] \in watching
Unreadable(last) == \E a \in last : mem[a] = "unmapped"
-----------------------------------------------------------------------------
(* The callbacks.                                                          *)

Top == stack[Len(stack)]
InUpdate == stack # <<>> => Top = "pause"

Pop       == stack' = SubSeq(stack, 1, Len(stack) - 1)
Go(label) == stack' = [stack EXCEPT ![Len(stack)] = label]

PressRun ==  \* do_run
  /\ InUpdate /\ Len(stack) < MaxDepth
  /\ enabled /\ ~running
  /\ running' = TRUE
  /\ stack' = Append(stack, "head")
  /\ UNCHANGED <<mem, pc, console, result, old_pc, enabled, user>>

PressStop ==  \* do_stop
  /\ InUpdate /\ enabled /\ running
  /\ running' = FALSE
  /\ UNCHANGED <<mem, pc, console, result, old_pc, enabled, user, stack>>

PressStep ==  \* do_step
  /\ InUpdate /\ enabled
  /\ ~Starved
  /\ \E outcome \in Outcome :
       /\ Step(outcome)
       /\ enabled' = (outcome # "halted")
       /\ LET done == Performed(Prepared, mem[pc])
          IN  IF Unreadable({pc})  \* get_mem
              THEN /\ result' = "error"
                   /\ console' = done
                   /\ running' = running
              ELSE /\ result' = outcome
                   /\ console' = Handled(done)
                   /\ running' = (running /\ ~Watched({pc}))
  /\ UNCHANGED <<mem, user, stack>>

(* The command `load`, after clear_console.                                *)
Load(program) ==
  /\ mem' = program /\ pc' = 0
  /\ console' = Empty
  /\ old_pc' = {}
  /\ enabled' = TRUE

PressReset ==  \* do_reset: the `running` it sets is its own
  /\ InUpdate
  /\ mem # NoProgram
  /\ Load(mem)
  /\ UNCHANGED <<result, running, user, stack>>

OpenFile(program) ==  \* open_a32, do_assemble
  /\ InUpdate
  /\ Load(program)
  /\ breakpoints' = {} /\ watching' = {}
  /\ UNCHANGED <<result, running, silent, stack>>

TypeChar ==
  /\ InUpdate
  /\ console.typed < MaxTyped
  /\ console' = [console EXCEPT !.typed = @ + 1]
  /\ UNCHANGED <<mem, pc, result, old_pc, running, enabled, user, stack>>

DeleteChar ==  \* not the one that is tagged
  /\ "delete" \in Clicks
  /\ InUpdate
  /\ console.typed > (IF console.sent THEN 1 ELSE 0)
  /\ console' = [console EXCEPT !.typed = @ - 1]
  /\ UNCHANGED <<mem, pc, result, old_pc, running, enabled, user, stack>>

ToggleBreakpoint(addr) ==
  /\ InUpdate
  /\ breakpoints' = (breakpoints \ {addr}) \cup ({addr} \ breakpoints)
  /\ UNCHANGED <<mem, pc, console, result, old_pc, running, enabled, watching, silent, stack>>

ToggleWatch(op) ==  \* add_watchpoint, remove_watchpoint
  /\ InUpdate
  /\ watching' = (watching \ {op}) \cup ({op} \ watching)
  /\ UNCHANGED <<mem, pc, console, result, old_pc, running, enabled, breakpoints, silent, stack>>

SetSpeed ==
  /\ "speed" \in Clicks
  /\ InUpdate
  /\ silent' = ~silent
  /\ UNCHANGED <<mem, pc, console, result, old_pc, running, enabled, breakpoints, watching, stack>>
-----------------------------------------------------------------------------
(* The newest run goes on.                                                 *)

AtHead == stack # <<>> /\ Top = "head"

(* The loop is left: update_display.  Its update_line calls update for     *)
(* each line that a window lacks, that is while a window is filled for the *)
(* first time; what the user does just then is left out.                   *)
Leave(last, why, goesOn) ==
  /\ result'  = IF Unreadable(last) THEN "error" ELSE why
  /\ running' = (goesOn /\ ~Watched(last))
  /\ Pop

RunStarved ==
  /\ AtHead /\ running
  /\ Starved
  /\ Leave(old_pc, result, FALSE)
  /\ UNCHANGED <<mem, pc, console, old_pc, enabled, user>>

RunException ==
  /\ AtHead /\ running
  /\ ~Starved
  /\ Step("exception")
  /\ console' = Performed(Prepared, mem[pc])
  /\ Leave({pc}, "exception", TRUE)
  /\ UNCHANGED <<mem, enabled, user>>

(* The loop comes to its end without an update.                            *)
RunStops ==
  /\ AtHead /\ running
  /\ ~Starved
  /\ \E outcome \in {"OK", "halted"} :
       /\ Step(outcome)
       /\ result' = outcome
       /\ enabled' = (enabled /\ outcome # "halted")
       /\ outcome = "halted" \/ pc' \in breakpoints \/ silent
       /\ running' = (outcome # "halted" /\ pc' \notin breakpoints)
  /\ console' = Handled(Performed(Prepared, mem[pc]))
  /\ UNCHANGED <<mem, user, stack>>

RunShows ==
  /\ AtHead /\ running
  /\ ~Starved
  /\ Step("OK")
  /\ pc' \notin breakpoints /\ ~silent
  /\ console' = Performed(Prepared, mem[pc])
  /\ IF Unreadable({pc})
     THEN Leave({pc}, "error", TRUE)
     ELSE /\ result' = "OK"
          /\ running' = ~Watched({pc})
          /\ Go("pause")
  /\ UNCHANGED <<mem, enabled, user>>

\* Seeded fault: Stop takes back the timer the run waits for.
RunWakesRunning ==
  /\ stack # <<>> /\ Top = "pause"
  /\ running
  /\ console' = Handled(console)
  /\ Go("head")
  /\ UNCHANGED <<mem, pc, result, old_pc, running, enabled, user>>

RunWakes ==
  /\ stack # <<>> /\ Top = "pause"
  /\ console' = Handled(console)
  /\ Go("head")
  /\ UNCHANGED <<mem, pc, result, old_pc, running, enabled, user>>

RunReturns ==
  /\ AtHead /\ ~running
  /\ Leave(old_pc, result, FALSE)
  /\ UNCHANGED <<mem, pc, console, old_pc, enabled, user>>

Tcl == RunStarved \/ RunException \/ RunStops \/ RunShows \/ RunWakes \/ RunReturns

User ==
  \/ PressRun \/ PressStop \/ PressStep \/ PressReset
  \/ \E program \in Programs : OpenFile(program)
  \/ TypeChar \/ DeleteChar
  \/ \E addr \in Breaks : ToggleBreakpoint(addr)
  \/ \E op \in Watches : ToggleWatch(op)
  \/ SetSpeed

Next == Tcl \/ User

Spec     == Init /\ [][Next]_vars
FairSpec == Spec /\ WF_vars(Tcl)
=============================================================================
