----------------------------- MODULE Aide8Proofs -----------------------------
(***************************************************************************)
(* The callbacks of AIDE-8 do not trip over each other: for every memory   *)
(* size, program, typing and depth of callbacks.                           *)
(***************************************************************************)
EXTENDS Aide8Props, SequenceTheorems, TLAPS

Updating == {"wait", "pause", "leave"}

(* Only the newest callback can be anywhere but in an `update`.            *)
StackOK(s) ==
  s \in Seq(Frame) /\ \A i \in 1 .. Len(s) - 1 : s[i].at \in Updating

(* A Run starts before the user can press Stop.                            *)
StartsUninterrupted == stack # <<>> /\ Top.at = "start" => ~INTERRUPTED

(* A loop that goes on was not at a breakpoint.                            *)
HeadChecked == stack # <<>> /\ Top.at = "head" => pc \notin breakpoints

Loops(s) == {i \in 1 .. Len(s) : s[i].proc = "run"}
OneLoop(s, button) ==
  /\ \A i, j \in Loops(s) : i = j
  /\ button = IF Loops(s) = {} THEN "Run" ELSE "Stop"

IInv ==
  /\ StackOK(stack)
  /\ OneLoop(stack, runButton)
  /\ StallHasWaiter
  /\ NobodyWaitsForTyped
  /\ StartsUninterrupted
  /\ HeadChecked
-----------------------------------------------------------------------------
(* Facts about the three things a callback does to the stack.              *)

LEMMA PushStack ==
  ASSUME NEW s, StackOK(s), s # <<>> => s[Len(s)].at \in Updating,
         NEW f \in Frame
  PROVE  /\ StackOK(Append(s, f))
         /\ Append(s, f) # <<>>
         /\ Append(s, f)[Len(Append(s, f))] = f
         /\ Loops(Append(s, f)) =
              Loops(s) \cup (IF f.proc = "run" THEN {Len(s) + 1} ELSE {})
  <1> DEFINE t == Append(s, f)
  <1>1. s \in Seq(Frame) /\ Len(s) \in Nat
    BY DEF StackOK
  <1>2. /\ t \in Seq(Frame) /\ Len(t) = Len(s) + 1
        /\ \A i \in 1 .. Len(s) : t[i] = s[i]
        /\ t[Len(s) + 1] = f
    BY <1>1, AppendProperties
  <1> HIDE DEF t
  <1>3. \A i \in 1 .. Len(t) - 1 : t[i].at \in Updating
    <2> SUFFICES ASSUME NEW i \in 1 .. Len(t) - 1 PROVE t[i].at \in Updating
      OBVIOUS
    <2>1. i \in 1 .. Len(s) /\ t[i] = s[i]
      BY <1>1, <1>2
    <2>2. CASE i = Len(s)
      <3>1. s # <<>>
        BY <1>1, <2>1
      <3> QED
        BY <2>1, <2>2, <3>1
    <2>3. CASE i # Len(s)
      <3>1. i \in 1 .. Len(s) - 1
        BY <1>1, <2>1, <2>3
      <3> QED
        BY <2>1, <3>1 DEF StackOK
    <2> QED
      BY <2>2, <2>3
  <1>4. t # <<>>
    BY <1>1, <1>2
  <1>5. Loops(t) = Loops(s) \cup (IF f.proc = "run" THEN {Len(s) + 1} ELSE {})
    BY <1>1, <1>2 DEF Loops
  <1> QED
    BY <1>2, <1>3, <1>4, <1>5 DEF t, StackOK

LEMMA PopStack ==
  ASSUME NEW s, StackOK(s), s # <<>>
  PROVE  LET t == SubSeq(s, 1, Len(s) - 1)
         IN  /\ StackOK(t)
             /\ t # <<>> => t[Len(t)].at \in Updating
             /\ Loops(t) = Loops(s) \ {Len(s)}
  <1> DEFINE t == SubSeq(s, 1, Len(s) - 1)
  <1>1. s \in Seq(Frame) /\ Len(s) \in Nat \ {0}
    BY EmptySeq DEF StackOK
  <1>2. /\ t \in Seq(Frame) /\ Len(t) = Len(s) - 1
        /\ \A i \in 1 .. Len(s) - 1 : t[i] = s[i]
    <2>1. \A i \in 1 .. Len(s) - 1 : s[i] \in Frame
      BY <1>1, ElementOfSeq
    <2>2. Len(s) - 1 \in Int /\ 1 \in Int
      BY <1>1
    <2>3. /\ t \in Seq(Frame)
          /\ Len(t) = IF 1 <= Len(s) - 1 THEN Len(s) - 1 - 1 + 1 ELSE 0
          /\ \A i \in 1 .. Len(s) - 1 - 1 + 1 : t[i] = s[1 + i - 1]
      BY <2>1, <2>2, SubSeqProperties
    <2> HIDE DEF t
    <2>4. Len(s) \in Nat \ {0}
      BY <1>1
    <2>5. Len(t) = Len(s) - 1
      <3>1. \A n \in Nat \ {0} : (IF 1 <= n - 1 THEN n - 1 - 1 + 1 ELSE 0) = n - 1
        OBVIOUS
      <3> QED
        BY <2>3, <2>4, <3>1
    <2>6. ASSUME NEW i \in 1 .. Len(s) - 1 PROVE t[i] = s[i]
      <3>1. i \in 1 .. Len(s) - 1 - 1 + 1 /\ 1 + i - 1 = i
        BY <2>4
      <3> QED
        BY <2>3, <3>1
    <2> QED
      BY <2>3, <2>5, <2>6
  <1> HIDE DEF t
  <1>3. \A i \in 1 .. Len(t) : t[i].at \in Updating
    BY <1>1, <1>2 DEF StackOK
  <1>4. t # <<>> => Len(t) \in 1 .. Len(t)
    BY <1>1, <1>2
  <1>5. Loops(t) = Loops(s) \ {Len(s)}
    BY <1>1, <1>2 DEF Loops
  <1> QED
    BY <1>1, <1>2, <1>3, <1>4, <1>5 DEF t, StackOK

Gone(s, l) == [s EXCEPT ![Len(s)].at = l]

WentTo(s, t, l) ==
  StackOK(t) /\ t # <<>> /\ t[Len(t)].at = l /\ Loops(t) = Loops(s)

LEMMA GoStack ==
  \A s : \A l \in {"head", "wait", "pause", "check", "leave"} :
    StackOK(s) /\ s # <<>> /\ s[Len(s)].proc = "run" => WentTo(s, Gone(s, l), l)
  <1> SUFFICES
        ASSUME NEW s, NEW l \in {"head", "wait", "pause", "check", "leave"},
               StackOK(s), s # <<>>, s[Len(s)].proc = "run"
        PROVE  WentTo(s, Gone(s, l), l)
    OBVIOUS
  <1> DEFINE t == [s EXCEPT ![Len(s)].at = l]
  <1>1. s \in Seq(Frame) /\ Len(s) \in Nat \ {0} /\ DOMAIN s = 1 .. Len(s)
    BY EmptySeq DEF StackOK
  <1>2. s[Len(s)] \in Frame
    BY <1>1, ElementOfSeq
  <1> DEFINE f == [s[Len(s)] EXCEPT !.at = l]
  <1>3. f \in Frame /\ f.at = l /\ f.proc = "run"
    BY <1>2 DEF Frame
  <1>4. t = [s EXCEPT ![Len(s)] = f]
    OBVIOUS
  <1> HIDE DEF f
  <1>5. /\ t \in Seq(Frame) /\ Len(t) = Len(s)
        /\ \A i \in 1 .. Len(s) - 1 : t[i] = s[i]
        /\ t[Len(s)] = f
    BY <1>1, <1>3, <1>4, ExceptSeq
  <1> HIDE DEF t
  <1>6. \A i \in 1 .. Len(t) - 1 : t[i].at \in Updating
    BY <1>1, <1>5 DEF StackOK
  <1>7. \A i \in 1 .. Len(s) : t[i].proc = s[i].proc
    <2> SUFFICES ASSUME NEW i \in 1 .. Len(s) PROVE t[i].proc = s[i].proc
      OBVIOUS
    <2>1. CASE i = Len(s)
      BY <1>3, <1>5, <2>1
    <2>2. CASE i # Len(s)
      <3>1. Len(s) \in Nat
        BY <1>1
      <3>2. i \in 1 .. Len(s) - 1
        BY <2>2, <3>1
      <3> QED
        BY <3>2, <1>5, <3>1
    <2> QED
      BY <2>1, <2>2
  <1>8. Loops(t) = Loops(s)
    BY <1>5, <1>7 DEF Loops
  <1>9. t # <<>>
    BY <1>1, <1>5
  <1> QED
    BY <1>3, <1>5, <1>6, <1>8, <1>9 DEF t, StackOK, WentTo, Gone
-----------------------------------------------------------------------------
LEMMA InitIInv == Init => IInv
  <1> SUFFICES ASSUME Init PROVE IInv
    OBVIOUS
  <1>1. stack = <<>> /\ Len(stack) = 0 /\ stack \in Seq(Frame)
    BY EmptySeq DEF Init
  <1>2. StackOK(stack)
    BY <1>1 DEF StackOK
  <1>3. Loops(stack) = {}
    BY <1>1 DEF Loops
  <1> QED
    BY <1>1, <1>2, <1>3 DEF Init, IInv, OneLoop, StallHasWaiter,
       NobodyWaitsForTyped, StartsUninterrupted, HeadChecked

(* An instruction stalls only when nothing was pending.                    *)
LEMMA ExecStalls ==
  ASSUME NEW con, ExecInst(con)
  PROVE  status' = "input" => queue' = <<>>
  <1>1. CASE pc % 2 # 0
    BY <1>1 DEF ExecInst, OddPc, Goes
  <1>2. CASE ~(pc % 2 # 0)
    <2> DEFINE inst == mem[pc \div 2]
    <2>1. CASE inst.op = "in"
      <3>1. ExecIn(con, inst)
        BY <1>2, <2>1 DEF ExecInst
      <3> QED
        BY <3>1 DEF ExecIn, Goes, ReadsNothing
    <2>2. CASE inst.op # "in"
      <3>1. ExecOther(con, inst.op)
        BY <1>2, <2>2 DEF ExecInst
      <3> QED
        BY <3>1 DEF ExecOther, Goes
    <2> QED
      BY <2>1, <2>2
  <1> QED
    BY <1>1, <1>2

(* What the user does that starts no callback: the newest one stays in its *)
(* `update`, and an instruction waits on only if nothing was typed.        *)
LEMMA StaysInUpdate ==
  ASSUME IInv, InUpdate, UNCHANGED <<stack, runButton>>,
         status' # "input" \/ UNCHANGED <<status, queue>>
  PROVE  IInv'
  <1>1. StackOK(stack)' /\ OneLoop(stack, runButton)'
    BY DEF IInv, StackOK, OneLoop, Loops
  <1>2. StallHasWaiter' /\ NobodyWaitsForTyped'
    BY DEF IInv, StallHasWaiter, NobodyWaitsForTyped, Top
  <1>3. StartsUninterrupted' /\ HeadChecked'
    BY DEF InUpdate, StartsUninterrupted, HeadChecked, Top
  <1> QED
    BY <1>1, <1>2, <1>3 DEF IInv

(* A callback starts on top of the others.                                 *)
LEMMA Starts ==
  ASSUME IInv, InUpdate, NEW f \in Frame, Push(f),
         f.proc = "run" => runButton = "Run" /\ runButton' = "Stop",
         f.proc # "run" => runButton' = runButton,
         f.at \in {"wait", "start"},
         f.at = "start" => ~INTERRUPTED',
         status' = "input" => queue' = <<>>
  PROVE  IInv'
  <1>1. /\ StackOK(stack')
        /\ stack' # <<>>
        /\ stack'[Len(stack')] = f
        /\ Loops(stack') =
             Loops(stack) \cup (IF f.proc = "run" THEN {Len(stack) + 1} ELSE {})
    BY PushStack DEF Push, IInv, InUpdate, Top, Updating
  <1>2. OneLoop(stack', runButton')
    BY <1>1 DEF IInv, OneLoop
  <1>3. Top' = f
    BY <1>1 DEF Top
  <1> QED
    BY <1>1, <1>2, <1>3 DEF IInv, StallHasWaiter, NobodyWaitsForTyped,
       StartsUninterrupted, HeadChecked

(* The newest callback returns.                                            *)
LEMMA Returns ==
  ASSUME IInv, stack # <<>>, Pop, status' # "input",
         Top.proc = "run" => runButton' = "Run",
         Top.proc # "run" => runButton' = runButton
  PROVE  IInv'
  <1>1. /\ StackOK(stack')
        /\ stack' # <<>> => stack'[Len(stack')].at \in Updating
        /\ Loops(stack') = Loops(stack) \ {Len(stack)}
    BY PopStack DEF Pop, IInv
  <1>2. Len(stack) \in 1 .. Len(stack)
    BY EmptySeq DEF IInv, StackOK
  <1>3. OneLoop(stack', runButton')
    <2>1. CASE Top.proc = "run"
      <3>1. Len(stack) \in Loops(stack)
        BY <1>2, <2>1 DEF Loops, Top
      <3>2. Loops(stack') = {}
        BY <1>1, <3>1 DEF IInv, OneLoop
      <3> QED
        BY <2>1, <3>2 DEF OneLoop
    <2>2. CASE Top.proc # "run"
      <3>1. Loops(stack') = Loops(stack)
        BY <1>1, <2>2 DEF Loops, Top
      <3> QED
        BY <2>2, <3>1 DEF IInv, OneLoop
    <2> QED
      BY <2>1, <2>2
  <1>4. stack' # <<>> => Top'.at \in Updating
    BY <1>1 DEF Top
  <1> QED
    BY <1>1, <1>3, <1>4 DEF IInv, StallHasWaiter, NobodyWaitsForTyped,
       StartsUninterrupted, HeadChecked, Updating

(* A run loop goes on.                                                     *)
LEMMA GoesOn ==
  ASSUME IInv, stack # <<>>, Top.proc = "run",
         NEW l \in {"head", "wait", "pause", "check", "leave"}, Go(l),
         runButton' = runButton,
         status' = "input" => l = "wait" /\ queue' = <<>>,
         l = "head" => pc' \notin breakpoints'
  PROVE  IInv'
  <1>1. /\ StackOK(stack')
        /\ stack' # <<>>
        /\ stack'[Len(stack')].at = l
        /\ Loops(stack') = Loops(stack)
    <2>1. StackOK(stack) /\ stack[Len(stack)].proc = "run"
      BY DEF IInv, Top
    <2>2. WentTo(stack, Gone(stack, l), l)
      BY <2>1, GoStack
    <2>3. stack' = Gone(stack, l)
      BY DEF Go, Gone
    <2> QED
      BY <2>2, <2>3 DEF WentTo
  <1>2. OneLoop(stack', runButton')
    BY <1>1 DEF IInv, OneLoop
  <1>3. Top'.at = l
    BY <1>1 DEF Top
  <1> QED
    BY <1>1, <1>2, <1>3 DEF IInv, StallHasWaiter, NobodyWaitsForTyped,
       StartsUninterrupted, HeadChecked
-----------------------------------------------------------------------------
LEMMA UserKeepsIInv == ASSUME IInv, User PROVE IInv'
  <1>1. CASE PressRun
    <2> DEFINE f == [proc |-> "run", at |-> "start"]
    <2>1. f \in Frame /\ f.proc = "run" /\ f.at = "start"
      BY DEF Frame
    <2>2. /\ InUpdate /\ Push(f) /\ ~INTERRUPTED'
          /\ runButton = "Run" /\ runButton' = "Stop"
          /\ status' = "input" => queue' = <<>>
      BY <1>1 DEF PressRun, machine, IInv, NobodyWaitsForTyped
    <2> QED
      BY <2>1, <2>2, Starts
  <1>2. CASE PressStop
    <2>1. status' # "input"
      BY <1>2 DEF PressStop, GantBufferInput, machine
    <2> QED
      BY <1>2, <2>1, StaysInUpdate DEF PressStop
  <1>3. CASE PressStep
    <2>1. status' = "input" => queue' = <<>>
      BY <1>3, ExecStalls DEF PressStep
    <2>2. CASE status' = "input"
      <3> DEFINE f == [proc |-> "step", at |-> "wait"]
      <3>1. f \in Frame /\ f.proc = "step" /\ f.at = "wait"
        BY DEF Frame
      <3>2. InUpdate /\ Push(f) /\ runButton' = runButton
        BY <1>3, <2>2 DEF PressStep
      <3> QED
        BY <2>1, <3>1, <3>2, Starts
    <2>3. CASE status' # "input"
      BY <1>3, <2>3, StaysInUpdate DEF PressStep
    <2> QED
      BY <2>2, <2>3
  <1>4. CASE PressReset
    BY <1>4, StaysInUpdate DEF PressReset, tcl
  <1>5. ASSUME NEW program \in Programs, Assemble(program) PROVE IInv'
    BY <1>5, StaysInUpdate DEF Assemble, tcl
  <1>6. ASSUME NEW line \in Lines, TypeLine(line) PROVE IInv'
    BY <1>6, StaysInUpdate DEF TypeLine, GantBufferInput, tcl
  <1>7. CASE TypeEot
    BY <1>7, StaysInUpdate DEF TypeEot, GantBufferInput, tcl
  <1>8. CASE EraseEot
    BY <1>8, StaysInUpdate DEF EraseEot, machine, tcl
  <1>9. ASSUME NEW addr \in Breaks, ToggleBreakPoint(addr) PROVE IInv'
    BY <1>9, StaysInUpdate DEF ToggleBreakPoint, machine, tcl
  <1>10. CASE ClearBreaks
    BY <1>10, StaysInUpdate DEF ClearBreaks, machine, tcl
  <1>11. CASE SetStepPause
    BY <1>11, StaysInUpdate DEF SetStepPause, machine, tcl
  <1> QED
    BY <1>1, <1>2, <1>3, <1>4, <1>5, <1>6, <1>7, <1>8, <1>9, <1>10, <1>11 DEF User

LEMMA TclKeepsIInv == ASSUME IInv, Tcl PROVE IInv'
  <1>1. CASE RunStep
    <2> DEFINE l == IF status' = "input" THEN "wait" ELSE AfterStep
    <2>1. l \in {"wait", "pause", "check"} /\ (status' = "input" => l = "wait")
      BY DEF AfterStep
    <2>2. status' = "input" => queue' = <<>>
      BY <1>1, ExecStalls DEF RunStep
    <2>3. /\ stack # <<>> /\ Top.proc = "run" /\ Go(l)
          /\ runButton' = runButton
      BY <1>1 DEF RunStep, Running
    <2> HIDE DEF l
    <2> QED
      BY <2>1, <2>2, <2>3, GoesOn
  <1>2. CASE RunInterrupted
    <2>1. stack # <<>> /\ Top.proc = "run" /\ Top.at = "head"
      BY <1>2 DEF RunInterrupted, Running, IInv, StartsUninterrupted
    <2>2. status' # "input"
      BY <1>2, <2>1 DEF RunInterrupted, machine, IInv, StallHasWaiter
    <2> QED
      BY <1>2, <2>1, <2>2, Returns DEF RunInterrupted
  <1>3. CASE InputArrived
    <2>1. stack # <<>> /\ status' # "input" /\ runButton' = runButton
      BY <1>3 DEF InputArrived, machine
    <2>2. CASE Top.proc = "run"
      <3>1. AfterStep \in {"pause", "check"}
        BY DEF AfterStep
      <3> QED
        BY <1>3, <2>1, <2>2, <3>1, GoesOn DEF InputArrived
    <2>3. CASE Top.proc # "run"
      BY <1>3, <2>1, <2>3, Returns DEF InputArrived
    <2> QED
      BY <2>2, <2>3
  <1>4. CASE RunPaused
    <2>1. stack # <<>> /\ Top.proc = "run" /\ Top.at = "pause"
      BY <1>4 DEF RunPaused, Running
    <2>2. status' # "input"
      BY <1>4, <2>1 DEF RunPaused, machine, IInv, StallHasWaiter
    <2> QED
      BY <1>4, <2>1, <2>2, GoesOn DEF RunPaused
  <1>5. CASE RunCheck
    <2> DEFINE l == IF status # "OK" \/ pc \in breakpoints THEN "leave" ELSE "head"
    <2>1. /\ stack # <<>> /\ Top.proc = "run" /\ Top.at = "check"
          /\ Go(l) /\ runButton' = runButton
          /\ UNCHANGED <<pc, breakpoints, status>>
      BY <1>5 DEF RunCheck, Running, machine, user
    <2>2. status' # "input"
      BY <2>1 DEF IInv, StallHasWaiter
    <2>3. l \in {"leave", "head"} /\ (l = "head" => pc' \notin breakpoints')
      BY <2>1
    <2> HIDE DEF l
    <2> QED
      BY <2>1, <2>2, <2>3, GoesOn
  <1>6. CASE RunReturns
    <2>1. stack # <<>> /\ Top.proc = "run" /\ Top.at = "leave"
      BY <1>6 DEF RunReturns, Running
    <2>2. status' # "input"
      BY <1>6, <2>1 DEF RunReturns, machine, IInv, StallHasWaiter
    <2> QED
      BY <1>6, <2>1, <2>2, Returns DEF RunReturns
  <1> QED
    BY <1>1, <1>2, <1>3, <1>4, <1>5, <1>6 DEF Tcl

LEMMA NextIInv == IInv /\ [Next]_vars => IInv'
  <1> SUFFICES ASSUME IInv, [Next]_vars PROVE IInv'
    OBVIOUS
  <1>1. CASE User
    BY <1>1, UserKeepsIInv
  <1>2. CASE Tcl
    BY <1>2, TclKeepsIInv
  <1>3. CASE UNCHANGED vars
    BY <1>3 DEF vars, machine, user, tcl, IInv, StackOK, OneLoop, Loops, Top,
       StallHasWaiter, NobodyWaitsForTyped, StartsUninterrupted, HeadChecked
  <1> QED
    BY <1>1, <1>2, <1>3 DEF Next

(* The inductive invariant: where the callbacks on the stack can be.       *)
THEOREM AideIInv == Spec => []IInv
  BY InitIInv, NextIInv, PTL DEF Spec

(* No click starts a second run loop, and the button says whether there is *)
(* one, however deep the callbacks are nested.                             *)
THEOREM OneLoopAtATime == Spec => []OneRunLoop
  <1>1. IInv => OneRunLoop
    BY DEF IInv, OneLoop, Loops, OneRunLoop
  <1> QED
    BY <1>1, AideIInv, PTL

(* While an instruction waits for input nothing else executes.             *)
THEOREM StallWaitedFor == Spec => []StallHasWaiter
  <1>1. IInv => StallHasWaiter
    BY DEF IInv
  <1> QED
    BY <1>1, AideIInv, PTL

(* No instruction waits for what was already typed.                        *)
THEOREM TypedIsRead == Spec => []NobodyWaitsForTyped
  <1>1. IInv => NobodyWaitsForTyped
    BY DEF IInv
  <1> QED
    BY <1>1, AideIInv, PTL

(* A run loop never goes on past a breakpoint, whatever the user did in    *)
(* the pause before it looked.                                             *)
THEOREM BreaksObserved == Spec => BreakObserved
  <1>1. IInv /\ [Next]_vars => [RunStep /\ Top.at = "head" => pc \notin breakpoints]_vars
    BY DEF IInv, HeadChecked, RunStep, Running
  <1> QED
    BY <1>1, AideIInv, PTL DEF Spec, BreakObserved
=============================================================================
