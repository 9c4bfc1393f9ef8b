----------------------------- MODULE MCAnt32Regs -----------------------------
(* Bytes of two bits: a word of eight bits has its digits, its carries and *)
(* its extreme values, and every pair of extreme operands fits.            *)
EXTENDS Ant32RegsProps

MCFields ==
  {<<2, 1, 2>>, <<2, 1, 0>>, <<0, 1, 2>>, <<3, 1, 2>>, <<4, 1, 2>>, <<2, 4, 1>>, <<2, 1, 4>>,
   <<100, 2, 2>>, <<240, 1, 240>>, <<246, 2, 1>>, <<248, 1, 2>>, <<2, 250, 1>>, <<1, 2, 251>>,
   <<252, 1, 2>>, <<2, 255, 1>>, <<1, 2, 254>>}

MCEdge == {MinInt, MinInt + 1, -16, -1, 16, MaxInt}

MCEdgeRegs(a, b) ==
  [r \in RegNum |-> CASE r = 1 -> a [] r = 2 -> b [] r = 3 -> 6
                     [] r \in SupReg -> 9 [] r \in ExcReg -> 10 [] OTHER -> 0]

(* Every pair of operands in user mode; every mode, flag and alignment of  *)
(* the program counter, its largest value too, with a few of them.         *)
MCControl(mode, pc, i, e) ==
  [mode |-> mode, pc |-> pc, eh |-> 64, int_disable |-> i, exc_disable |-> e]

MCSeeds ==
  {[cpu |-> MCControl("USER", 20, FALSE, FALSE), reg |-> MCEdgeRegs(a, b)] : a, b \in MCEdge}
  \cup {[cpu |-> c, reg |-> MCEdgeRegs(a, 16)] : a \in {MinInt, -1},
         c \in {MCControl("USER", pc, i, FALSE) : pc \in {-4, 22}, i \in BOOLEAN}
               \cup {MCControl("SUPER", pc, i, e) : pc \in {MaxInt - 3, 22}, i, e \in BOOLEAN}}

MCImm8  == {-8, -1, 0, 1, 7}
MCImm16 == {-8, 5}
MCGiven == {0, 3, -1}
=============================================================================
