--------------------------- MODULE AntBreakpoints ---------------------------
(***************************************************************************)
(* What the breakpoint table of the Ant-32 debugger promises: a set of     *)
(* addresses that holds up to Capacity of them.  Setting some adds as many *)
(* of the new ones as there is room for, clearing some removes them all.   *)
(***************************************************************************)
EXTENDS Integers, FiniteSets

CONSTANTS
  Requests,   \* the sets of addresses a command can name
  Capacity    \* MAX_BREAKPOINTS

VARIABLES
  points,     \* the addresses at which execution stops
  stmnt       \* the command that was just carried out, if it was about them

NoStmnt == [op |-> "none", addrs |-> {}]

Init == points = {} /\ stmnt = NoStmnt

Set(addrs) ==
  /\ stmnt' = [op |-> "set", addrs |-> addrs]
  /\ \E kept \in SUBSET (addrs \ points) :
       /\ points' = points \cup kept
       /\ \/ kept = addrs \ points
          \/ Cardinality(points') = Capacity

Clear(addrs) ==
  /\ stmnt' = [op |-> "clear", addrs |-> addrs]
  /\ points' = points \ addrs

ClearAll ==
  /\ stmnt' = [op |-> "clear all", addrs |-> {}]
  /\ points' = {}

Done == stmnt' = NoStmnt /\ UNCHANGED points

Next ==
  \/ \E addrs \in Requests : Set(addrs) \/ Clear(addrs)
  \/ ClearAll
  \/ Done

Spec == Init /\ [][Next]_<<points, stmnt>>
=============================================================================
