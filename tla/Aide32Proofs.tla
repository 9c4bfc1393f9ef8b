---------------------------- MODULE Aide32Proofs -----------------------------
(***************************************************************************)
(* The console between the callbacks of AIDE-32: for every memory size,    *)
(* program, typing and depth of runs.                                      *)
(***************************************************************************)
EXTENDS Aide32Props, SequenceTheorems, TLAPS

Label == {"head", "pause"}

(* Only the newest run can be anywhere but in an `update`.                 *)
StackOK(s) ==
  /\ s \in Seq(Label) /\ Len(s) <= MaxDepth
  /\ \A i \in 1 .. Len(s) - 1 : s[i] = "pause"

ConsoleOK(c) ==
  /\ c \in [in_new : BOOLEAN, out_new : BOOLEAN, typed : 0 .. MaxTyped, sent : BOOLEAN]
  /\ c.sent => c.typed > 0
  /\ c.in_new => c.sent

(* What was printed was shown, and what was read was deleted.              *)
Settled(c) == ~c.out_new /\ (c.sent => c.in_new)

(* Where an instruction is executed next, or none is.                      *)
Between(s) == s = <<>> \/ (Len(s) = 1 /\ s[1] = "head")

MachineOK ==
  /\ mem \in Programs \cup {NoProgram} /\ pc \in Addr
  /\ result \in Result /\ old_pc \in {{}} \cup {{a} : a \in Addr}
  /\ running \in BOOLEAN /\ enabled \in BOOLEAN
  /\ breakpoints \subseteq Breaks /\ watching \subseteq Watches /\ silent \in BOOLEAN

IInv ==
  /\ MachineOK
  /\ ConsoleOK(console)
  /\ StackOK(stack)
  /\ Between(stack) => Settled(console) \/ result \in {"exception", "error"}
-----------------------------------------------------------------------------
(* What the callbacks do to the stack.                                     *)

LEMMA PushStack ==
  ASSUME NEW s, StackOK(s), s # <<>> => s[Len(s)] = "pause", Len(s) < MaxDepth
  PROVE  /\ StackOK(Append(s, "head"))
         /\ Between(Append(s, "head")) => s = <<>>
  <1> DEFINE t == Append(s, "head")
  <1>1. s \in Seq(Label) /\ Len(s) \in Nat /\ "head" \in Label
    BY DEF StackOK, Label
  <1>2. /\ t \in Seq(Label) /\ Len(t) = Len(s) + 1
        /\ \A i \in 1 .. Len(s) : t[i] = s[i]
    BY <1>1, AppendProperties
  <1> HIDE DEF t
  <1>3. Len(t) <= MaxDepth
    BY <1>1, <1>2, BoundsAssumption
  <1>4. ASSUME NEW i \in 1 .. Len(t) - 1 PROVE t[i] = "pause"
    <2>1. i \in 1 .. Len(s) /\ t[i] = s[i]
      BY <1>1, <1>2
    <2>2. CASE i = Len(s)
      <3>1. s # <<>>
        BY <1>1, <2>1
      <3> QED
        BY <2>1, <2>2, <3>1
    <2>3. CASE i # Len(s)
      <3>1. i \in 1 .. Len(s) - 1
        BY <1>1, <2>1, <2>3
      <3> QED
        BY <2>1, <3>1 DEF StackOK
    <2> QED
      BY <2>2, <2>3
  <1>5. ASSUME Between(t) PROVE s = <<>>
    <2>1. Len(t) = 0 \/ Len(t) = 1
      BY <1>5 DEF Between
    <2>2. Len(s) = 0
      BY <1>1, <1>2, <2>1
    <2> QED
      BY <1>1, <2>2, EmptySeq
  <1> QED
    BY <1>2, <1>3, <1>4, <1>5 DEF t, StackOK

LEMMA PopStack ==
  ASSUME NEW s, StackOK(s), s # <<>>
  PROVE  LET t == SubSeq(s, 1, Len(s) - 1)
         IN  StackOK(t) /\ (Between(t) => Len(s) = 1)
  <1> DEFINE t == SubSeq(s, 1, Len(s) - 1)
  <1>1. s \in Seq(Label) /\ Len(s) \in Nat \ {0} /\ Len(s) <= MaxDepth
    BY EmptySeq DEF StackOK
  <1>2. /\ t \in Seq(Label) /\ Len(t) = Len(s) - 1
        /\ \A i \in 1 .. Len(s) - 1 : t[i] = s[i]
    <2>1. \A i \in 1 .. Len(s) - 1 : s[i] \in Label
      BY <1>1, ElementOfSeq
    <2>2. Len(s) - 1 \in Int /\ 1 \in Int
      BY <1>1
    <2>3. /\ t \in Seq(Label)
          /\ Len(t) = IF 1 <= Len(s) - 1 THEN Len(s) - 1 - 1 + 1 ELSE 0
          /\ \A i \in 1 .. Len(s) - 1 - 1 + 1 : t[i] = s[1 + i - 1]
      BY <2>1, <2>2, SubSeqProperties
    <2> HIDE DEF t
    <2>4. Len(s) \in Nat \ {0}
      BY <1>1
    <2>5. Len(t) = Len(s) - 1
      <3>1. \A n \in Nat \ {0} : (IF 1 <= n - 1 THEN n - 1 - 1 + 1 ELSE 0) = n - 1
        OBVIOUS
      <3> QED
        BY <2>3, <2>4, <3>1
    <2>6. ASSUME NEW i \in 1 .. Len(s) - 1 PROVE t[i] = s[i]
      <3>1. i \in 1 .. Len(s) - 1 - 1 + 1 /\ 1 + i - 1 = i
        BY <2>4
      <3> QED
        BY <2>3, <3>1
    <2> QED
      BY <2>3, <2>5, <2>6
  <1> HIDE DEF t
  <1>3. \A i \in 1 .. Len(t) : t[i] = "pause"
    BY <1>1, <1>2 DEF StackOK
  <1>4. Len(t) <= MaxDepth
    BY <1>1, <1>2, BoundsAssumption
  <1>5. ASSUME Between(t) PROVE Len(s) = 1
    <2>1. CASE t = <<>>
      <3>1. Len(t) = 0
        BY <2>1
      <3> QED
        BY <1>1, <1>2, <3>1
    <2>2. CASE Len(t) = 1 /\ t[1] = "head"
      <3>1. t[1] = "pause"
        BY <1>3, <2>2
      <3> QED
        BY <2>2, <3>1
    <2> QED
      BY <1>5, <2>1, <2>2 DEF Between
  <1>6. \A i \in 1 .. Len(t) - 1 : t[i] = "pause"
    BY <1>1, <1>2, <1>3
  <1> QED
    BY <1>2, <1>4, <1>5, <1>6 DEF t, StackOK

LEMMA GoStack ==
  ASSUME NEW s, StackOK(s), s # <<>>, NEW label \in Label
  PROVE  LET t == [s EXCEPT ![Len(s)] = label]
         IN  StackOK(t) /\ (Between(t) => label = "head")
  <1> DEFINE t == [s EXCEPT ![Len(s)] = label]
  <1>1. s \in Seq(Label) /\ Len(s) \in Nat \ {0}
    BY EmptySeq DEF StackOK
  <1>2. /\ t \in Seq(Label) /\ Len(t) = Len(s)
        /\ \A i \in 1 .. Len(s) - 1 : t[i] = s[i]
        /\ t[Len(s)] = label
    BY <1>1, ExceptSeq
  <1> HIDE DEF t
  <1>3. StackOK(t)
    BY <1>1, <1>2 DEF StackOK
  <1>4. t # <<>>
    BY <1>1, <1>2
  <1>5. Between(t) => label = "head"
    BY <1>2, <1>4 DEF Between
  <1> QED
    BY <1>3, <1>5 DEF t
-----------------------------------------------------------------------------
(* What the callbacks do to the console.                                   *)

LEMMA PreparedOK == ConsoleOK(console) => ConsoleOK(Prepared)
  BY BoundsAssumption DEF ConsoleOK, Prepared

LEMMA PerformedOK ==
  \A c, op : ConsoleOK(c) => ConsoleOK(Performed(c, op))
  BY DEF ConsoleOK, Performed

LEMMA HandledOK ==
  \A c : ConsoleOK(c) => ConsoleOK(Handled(c)) /\ Settled(Handled(c))
  <1> SUFFICES ASSUME NEW c, ConsoleOK(c)
               PROVE  ConsoleOK(Handled(c)) /\ Settled(Handled(c))
    OBVIOUS
  <1> DEFINE got == [c EXCEPT !.out_new = FALSE]
  <1>1. ConsoleOK(got) /\ ~got.out_new
    BY DEF ConsoleOK
  <1>2. Handled(c) = IF got.sent /\ ~got.in_new
                     THEN [got EXCEPT !.typed = @ - 1, !.sent = FALSE] ELSE got
    BY DEF Handled
  <1> HIDE DEF got
  <1>3. CASE got.sent /\ ~got.in_new
    <2>1. got.typed - 1 \in 0 .. MaxTyped
      BY <1>1, <1>3, BoundsAssumption DEF ConsoleOK
    <2> QED
      BY <1>1, <1>2, <1>3, <2>1 DEF ConsoleOK, Settled
  <1>4. CASE ~(got.sent /\ ~got.in_new)
    BY <1>1, <1>2, <1>4 DEF Settled
  <1> QED
    BY <1>3, <1>4

LEMMA EmptyOK == ConsoleOK(Empty) /\ Settled(Empty)
  BY BoundsAssumption DEF ConsoleOK, Settled, Empty
-----------------------------------------------------------------------------
(* What they do to the machine.                                            *)

LEMMA MachineTypes ==
  MachineOK => /\ pc \in Addr /\ mem[pc] \in Op /\ NextPc \in Addr
               /\ mem \in [Addr -> Op]
  <1>1. NoProgram \in [Addr -> Op]
    BY DEF NoProgram, Op
  <1>2. 0 \in Addr /\ \A a \in Addr : a + 1 \in Addr \/ a + 1 \notin Addr
    BY WordsAssumption DEF Addr
  <1> QED
    BY <1>1, <1>2, ProgramsAssumption DEF MachineOK, NextPc

LEMMA StepTypes ==
  ASSUME MachineOK, NEW outcome \in Outcome, Step(outcome)
  PROVE  pc' \in Addr /\ old_pc' = {pc} /\ outcome \in Result
  BY MachineTypes DEF Step, Outcome, Result

(* A callback of the user leaves the console settled or as it was, and the *)
(* stack too unless it is do_run's.                                        *)
LEMMA PressRunInv == IInv /\ PressRun => IInv'
  <1> SUFFICES ASSUME IInv, PressRun PROVE IInv'
    OBVIOUS
  <1>1. StackOK(stack) /\ (stack # <<>> => stack[Len(stack)] = "pause")
        /\ Len(stack) < MaxDepth /\ stack' = Append(stack, "head")
    BY DEF IInv, PressRun, InUpdate, Top
  <1>2. StackOK(stack') /\ (Between(stack') => stack = <<>>)
    BY <1>1, PushStack
  <1>3. Between(stack') => Settled(console) \/ result \in {"exception", "error"}
    BY <1>2 DEF IInv, Between
  <1>4. UNCHANGED <<console, result>> /\ MachineOK'
    BY DEF IInv, MachineOK, PressRun, user
  <1> QED
    BY <1>2, <1>3, <1>4 DEF IInv

LEMMA PressStopInv == IInv /\ PressStop => IInv'
  BY DEF IInv, MachineOK, PressStop, user

LEMMA PressStepInv == IInv /\ PressStep => IInv'
  <1> SUFFICES ASSUME IInv, PressStep PROVE IInv'
    OBVIOUS
  <1> USE DEF IInv
  <1>1. PICK outcome \in Outcome :
          /\ Step(outcome)
          /\ enabled' = (outcome # "halted")
          /\ LET done == Performed(Prepared, mem[pc])
             IN  IF Unreadable({pc})
                 THEN /\ result' = "error"
                      /\ console' = done
                      /\ running' = running
                 ELSE /\ result' = outcome
                      /\ console' = Handled(done)
                      /\ running' = (running /\ ~Watched({pc}))
    BY DEF PressStep
  <1>2. pc' \in Addr /\ old_pc' = {pc} /\ outcome \in Result
    BY <1>1, StepTypes
  <1>3. ConsoleOK(Performed(Prepared, mem[pc]))
    BY PreparedOK, PerformedOK
  <1>4. ConsoleOK(Handled(Performed(Prepared, mem[pc])))
        /\ Settled(Handled(Performed(Prepared, mem[pc])))
    BY <1>3, HandledOK
  <1>5. UNCHANGED <<mem, breakpoints, watching, silent, stack>>
    BY DEF PressStep, user
  <1>6. MachineOK'
    BY <1>1, <1>2, <1>5 DEF MachineOK, Result, Watched
  <1>7. ConsoleOK(console') /\ (Settled(console') \/ result' = "error")
    BY <1>1, <1>3, <1>4
  <1> QED
    BY <1>5, <1>6, <1>7

LEMMA LoadInv ==
  ASSUME IInv, NEW program \in Programs \cup {NoProgram}, Load(program),
         breakpoints' \subseteq Breaks, watching' \subseteq Watches,
         UNCHANGED <<result, running, silent, stack>>
  PROVE  IInv'
  <1>1. 0 \in Addr
    BY WordsAssumption DEF Addr
  <1>2. MachineOK'
    BY <1>1 DEF IInv, MachineOK, Load
  <1>3. console' = Empty
    BY DEF Load
  <1> QED
    BY <1>2, <1>3, EmptyOK DEF IInv

LEMMA PressResetInv == IInv /\ PressReset => IInv'
  BY LoadInv DEF IInv, MachineOK, PressReset, user

LEMMA OpenFileInv == ASSUME IInv, NEW p \in Programs, OpenFile(p) PROVE IInv'
  BY LoadInv DEF OpenFile

LEMMA TypingInv == IInv /\ (TypeChar \/ DeleteChar) => IInv'
  <1> SUFFICES ASSUME IInv, TypeChar \/ DeleteChar PROVE IInv'
    OBVIOUS
  <1>1. UNCHANGED <<mem, pc, result, old_pc, running, enabled, user, stack>>
    BY DEF TypeChar, DeleteChar
  <1>2. ConsoleOK(console') /\ (Settled(console) => Settled(console'))
    BY BoundsAssumption DEF IInv, ConsoleOK, Settled, TypeChar, DeleteChar
  <1> QED
    BY <1>1, <1>2 DEF IInv, MachineOK, user

LEMMA SettingsInv ==
  ASSUME IInv,
         \/ \E addr \in Breaks : ToggleBreakpoint(addr)
         \/ \E op \in Watches : ToggleWatch(op)
         \/ SetSpeed
  PROVE  IInv'
  <1>1. UNCHANGED <<mem, pc, console, result, old_pc, running, enabled, stack>>
    BY DEF ToggleBreakpoint, ToggleWatch, SetSpeed
  <1>2. breakpoints' \subseteq Breaks /\ watching' \subseteq Watches /\ silent' \in BOOLEAN
    BY DEF IInv, MachineOK, ToggleBreakpoint, ToggleWatch, SetSpeed
  <1> QED
    BY <1>1, <1>2 DEF IInv, MachineOK
-----------------------------------------------------------------------------
(* The newest run goes on.                                                 *)

(* It leaves an older one behind in its `update`, or none.                 *)
LEMMA LeaveInv ==
  ASSUME IInv, AtHead, NEW last, NEW why \in Result, NEW goesOn \in BOOLEAN,
         Leave(last, why, goesOn)
  PROVE  /\ StackOK(stack') /\ result' \in Result /\ running' \in BOOLEAN
         /\ Between(stack') => Len(stack) = 1
         /\ result' \in {why, "error"}
  <1>1. StackOK(stack) /\ stack # <<>> /\ stack' = SubSeq(stack, 1, Len(stack) - 1)
    BY DEF IInv, AtHead, Leave, Pop
  <1>2. StackOK(stack') /\ (Between(stack') => Len(stack) = 1)
    BY <1>1, PopStack
  <1>3. result' \in {why, "error"} /\ running' \in BOOLEAN
    BY DEF Leave, Watched
  <1> QED
    BY <1>2, <1>3 DEF Result

LEMMA RunEndsInv == IInv /\ (RunStarved \/ RunReturns) => IInv'
  <1> SUFFICES ASSUME IInv, RunStarved \/ RunReturns PROVE IInv'
    OBVIOUS
  <1>1. AtHead /\ Leave(old_pc, result, FALSE)
        /\ UNCHANGED <<mem, pc, console, old_pc, enabled, user>>
    BY DEF RunStarved, RunReturns
  <1>2. /\ StackOK(stack') /\ result' \in Result /\ running' \in BOOLEAN
        /\ Between(stack') => Len(stack) = 1
        /\ result' \in {result, "error"}
    BY <1>1, LeaveInv DEF IInv, MachineOK
  <1>3. Len(stack) = 1 => Between(stack)
    BY <1>1 DEF AtHead, Top, Between
  <1>4. MachineOK' /\ ConsoleOK(console')
    BY <1>1, <1>2 DEF IInv, MachineOK, user
  <1>5. Between(stack') => Settled(console') \/ result' \in {"exception", "error"}
    BY <1>1, <1>2, <1>3 DEF IInv
  <1> QED
    BY <1>2, <1>4, <1>5 DEF IInv

LEMMA RunExceptionInv == IInv /\ RunException => IInv'
  <1> SUFFICES ASSUME IInv, RunException PROVE IInv'
    OBVIOUS
  <1>1. AtHead /\ Step("exception") /\ Leave({pc}, "exception", TRUE)
        /\ UNCHANGED <<mem, enabled, user>>
    BY DEF RunException
  <1>2. /\ StackOK(stack') /\ result' \in {"exception", "error"}
        /\ running' \in BOOLEAN /\ result' \in Result
    BY <1>1, LeaveInv DEF Result
  <1>3. pc' \in Addr /\ old_pc' = {pc}
    BY <1>1, StepTypes DEF IInv, Outcome
  <1>4. ConsoleOK(console')
    BY PreparedOK, PerformedOK DEF IInv, RunException
  <1>5. MachineOK'
    BY <1>1, <1>2, <1>3 DEF IInv, MachineOK, user
  <1> QED
    BY <1>2, <1>4, <1>5 DEF IInv

LEMMA RunStopsInv == IInv /\ RunStops => IInv'
  <1> SUFFICES ASSUME IInv, RunStops PROVE IInv'
    OBVIOUS
  <1>1. PICK outcome \in {"OK", "halted"} :
          /\ Step(outcome)
          /\ result' = outcome
          /\ enabled' = (enabled /\ outcome # "halted")
          /\ outcome = "halted" \/ pc' \in breakpoints \/ silent
          /\ running' = (outcome # "halted" /\ pc' \notin breakpoints)
    BY DEF RunStops
  <1>2. pc' \in Addr /\ old_pc' = {pc} /\ outcome \in Result
    BY <1>1, StepTypes DEF IInv, Outcome
  <1>3. ConsoleOK(console') /\ Settled(console')
    BY PreparedOK, PerformedOK, HandledOK DEF IInv, RunStops
  <1>4. UNCHANGED <<mem, breakpoints, watching, silent, stack>>
    BY DEF RunStops, user
  <1>5. MachineOK'
    BY <1>1, <1>2, <1>4 DEF IInv, MachineOK
  <1> QED
    BY <1>3, <1>4, <1>5 DEF IInv

LEMMA RunShowsInv == IInv /\ RunShows => IInv'
  <1> SUFFICES ASSUME IInv, RunShows PROVE IInv'
    OBVIOUS
  <1>1. AtHead /\ Step("OK") /\ UNCHANGED <<mem, enabled, user>>
    BY DEF RunShows
  <1>2. pc' \in Addr /\ old_pc' = {pc}
    BY <1>1, StepTypes DEF IInv, Outcome
  <1>3. ConsoleOK(console')
    BY PreparedOK, PerformedOK DEF IInv, RunShows
  <1>4. CASE Unreadable({pc})
    <2>1. Leave({pc}, "error", TRUE)
      BY <1>4 DEF RunShows
    <2>2. /\ StackOK(stack') /\ result' = "error" /\ running' \in BOOLEAN
      BY <1>1, <2>1, LeaveInv DEF Result
    <2> QED
      BY <1>1, <1>2, <1>3, <2>2 DEF IInv, MachineOK, user, Result
  <1>5. CASE ~Unreadable({pc})
    <2>1. result' = "OK" /\ running' = ~Watched({pc}) /\ Go("pause")
      BY <1>5 DEF RunShows
    <2>2. running' \in BOOLEAN
      BY <2>1 DEF Watched
    <2>3. StackOK(stack') /\ ~Between(stack')
      BY <1>1, <2>1, GoStack DEF IInv, AtHead, Go, Label
    <2> QED
      BY <1>1, <1>2, <1>3, <2>1, <2>2, <2>3 DEF IInv, MachineOK, user, Result
  <1> QED
    BY <1>4, <1>5

LEMMA RunWakesInv == IInv /\ RunWakes => IInv'
  <1> SUFFICES ASSUME IInv, RunWakes PROVE IInv'
    OBVIOUS
  <1>1. StackOK(stack')
    BY GoStack DEF IInv, RunWakes, Go, Label
  <1>2. ConsoleOK(console') /\ Settled(console')
    BY HandledOK DEF IInv, RunWakes
  <1> QED
    BY <1>1, <1>2 DEF IInv, MachineOK, RunWakes, user
-----------------------------------------------------------------------------
THEOREM Aide32InitInv == Init => IInv
  <1> SUFFICES ASSUME Init PROVE IInv
    OBVIOUS
  <1>1. MachineOK
    <2>1. 0 \in Addr
      BY WordsAssumption DEF Addr
    <2>2. mem = NoProgram /\ pc = 0 /\ result = "OK" /\ old_pc = {}
          /\ breakpoints = {} /\ watching = {}
          /\ running = FALSE /\ enabled = FALSE /\ silent = FALSE
      BY DEF Init
    <2> QED
      BY <2>1, <2>2 DEF MachineOK, Result
  <1>2. ConsoleOK(console) /\ Settled(console)
    BY EmptyOK DEF Init
  <1>3. StackOK(stack)
    BY EmptySeq, BoundsAssumption DEF Init, StackOK
  <1> QED
    BY <1>1, <1>2, <1>3 DEF IInv

THEOREM Aide32NextInv == IInv /\ [Next]_vars => IInv'
  <1> SUFFICES ASSUME IInv, [Next]_vars PROVE IInv'
    OBVIOUS
  <1>1. CASE Tcl
    BY <1>1, RunEndsInv, RunExceptionInv, RunStopsInv, RunShowsInv, RunWakesInv DEF Tcl
  <1>2. CASE PressRun \/ PressStop \/ PressStep \/ PressReset
    BY <1>2, PressRunInv, PressStopInv, PressStepInv, PressResetInv
  <1>3. CASE \E p \in Programs : OpenFile(p)
    BY <1>3, OpenFileInv
  <1>4. CASE TypeChar \/ DeleteChar
    BY <1>4, TypingInv
  <1>5. CASE \/ \E addr \in Breaks : ToggleBreakpoint(addr)
             \/ \E op \in Watches : ToggleWatch(op)
             \/ SetSpeed
    BY <1>5, SettingsInv
  <1>6. CASE UNCHANGED vars
    BY <1>6 DEF vars, user, IInv, MachineOK
  <1> QED
    BY <1>1, <1>2, <1>3, <1>4, <1>5, <1>6 DEF Next, User

(* The variables keep their types, in particular a character offered to    *)
(* the program is the first one of the input window.                       *)
THEOREM Aide32TypeCorrect == Spec => []Aide32TypeOK
  <1>1. IInv => Aide32TypeOK
    BY DEF IInv, MachineOK, ConsoleOK, StackOK, Label, Aide32TypeOK
  <1> QED
    BY <1>1, Aide32InitInv, Aide32NextInv, PTL DEF Spec

(* Whatever callbacks the user starts on top of a run, when none is in     *)
(* progress, or only one about to execute, the console has been dealt with *)
(* (handle_output), unless an exception or an error broke off the last.    *)
THEOREM Aide32CaughtUp == Spec => []CaughtUp
  <1>1. IInv => CaughtUp
    BY DEF IInv, Between, Settled, CaughtUp, AtHead, Top
  <1> QED
    BY <1>1, Aide32InitInv, Aide32NextInv, PTL DEF Spec
=============================================================================
