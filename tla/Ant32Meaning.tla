----------------------------- MODULE Ant32Meaning -----------------------------
(***************************************************************************)
(* What the operations that the assembler expands are for, and what the    *)
(* instructions made of them do (Lib32/ant32_exec.c).  Sums and            *)
(* differences are computed; of the other arithmetic it only counts which  *)
(* operation was applied to which operands in which order.                 *)
(***************************************************************************)
EXTENDS Ant32Expand

(* A machine: its registers, the words it has stored, pc and the handler.  *)
Machine(reg, mem, pc, eh) == [reg |-> reg, mem |-> mem, pc |-> pc, eh |-> eh]

Alu(op, a, b) ==
  CASE op = "ADD" -> Truncate(a + b)
    [] op = "SUB" -> Truncate(a - b)
    [] OTHER      -> Truncate(7 * a + 31 * b + Code(op))

(* The high word of the operations that have one.                          *)
High(op, a, b) == Truncate(11 * a + 17 * b + Code(op))

BaseOp ==
  [ADDI |-> "ADD", SUBI |-> "SUB", MULI |-> "MUL", DIVI |-> "DIV", MODI |-> "MOD",
   SHRI |-> "SHR", SHRUI |-> "SHRU", SHLI |-> "SHL", ADDIO |-> "ADDO", SUBIO |-> "SUBO",
   MULIO |-> "MULO", ORI |-> "OR", NORI |-> "NOR", XORI |-> "XOR", ANDI |-> "AND",
   LTS |-> "GTS", LES |-> "GES", LTU |-> "GTU", LEU |-> "GEU"]

Wide == {"ADDO", "SUBO", "MULO"}

Put(reg, r, v)  == IF r = 0 THEN reg ELSE [reg EXCEPT ![r] = v]
SetReg(m, r, v) == [m EXCEPT !.reg = Put(@, r, v)]
SetAlu(m, op, des, a, b) ==
  LET low == SetReg(m, des, Alu(op, a, b))
  IN  IF op \in Wide THEN SetReg(low, des + 1, High(op, a, b)) ELSE low

(* A word that was not stored is some word that depends on where it is.    *)
Read(m, addr)     == IF addr \in DOMAIN m.mem THEN m.mem[addr] ELSE Truncate(3 * addr + 1)
Write(m, addr, v) == [m EXCEPT !.mem = (addr :> v) @@ @]
-----------------------------------------------------------------------------
(* One instruction: its opcode and three more bytes.                       *)
Execute(m, i) ==
  LET op == Opcode(i[1])
      r  == m.reg
      c8 == Signed(i[4], ByteSize)
      c16 == i[3] * ByteSize + i[4]
      n  == [m EXCEPT !.pc = Truncate(@ + 4)]
      To(taken, target) == [SetReg(n, i[2], m.pc) EXCEPT !.pc = IF taken THEN target ELSE @]
      By(taken) ==
        [n EXCEPT !.pc = IF taken THEN Truncate(m.pc + 4 * Signed(c16, HwordSize)) ELSE @]
  IN  CASE op = "LCL"  -> SetReg(n, i[2], Signed(c16, HwordSize))
        [] op = "LCH"  -> SetReg(n, i[2], Truncate(Lower(r[i[2]], HwordSize) + HwordSize * c16))
        [] op = "LD4"  -> SetReg(n, i[2], Read(m, Truncate(r[i[3]] + c8)))
        [] op = "ST4"  -> Write(n, Truncate(r[i[3]] + c8), r[i[2]])
        [] op = "LEH"  -> [n EXCEPT !.eh = r[i[3]]]
        [] op = "JEZ"  -> To(r[i[3]] = 0, r[i[4]])
        [] op = "JNZ"  -> To(r[i[3]] # 0, r[i[4]])
        [] op = "BEZ"  -> To(r[i[3]] = 0, Truncate(m.pc + r[i[4]]))
        [] op = "BEZI" -> By(r[i[2]] = 0)
        [] op = "BNZI" -> By(r[i[2]] # 0)
        [] op \in {"ADDI", "SUBI", "MULI", "DIVI", "MODI", "SHRI", "SHRUI", "SHLI",
                   "ADDIO", "SUBIO", "MULIO"} -> SetAlu(n, BaseOp[op], i[2], r[i[3]], c8)
        [] OTHER       -> SetAlu(n, op, i[2], r[i[3]], r[i[4]])

(* One instruction after the other.                                        *)
Run(m, insts) ==
  LET after[k \in 0 .. Len(insts)] == IF k = 0 THEN m ELSE Execute(after[k - 1], insts[k])
  IN  after[Len(insts)]
-----------------------------------------------------------------------------
(* The operation s, of used bytes, with what its labels stand for.         *)
Meaning(m, s, used, ValueIn(_)) ==
  LET x(i) == IF s.args[i].type = "REG" THEN m.reg[s.args[i].reg]
              ELSE Truncate(IF s.args[i].type = "LABEL" THEN ValueIn(s.args[i].label) ELSE s.args[i].val)
      des  == s.args[1].reg
      n    == [m EXCEPT !.pc = Truncate(@ + used)]
      sp   == m.reg[2]
      fp   == m.reg[3]
      Sp(k) == Truncate(sp + k)
      Fp(k) == Truncate(fp + k)
      Goto(taken, target) == [n EXCEPT !.pc = IF taken THEN target ELSE @]
  IN  CASE s.op \in {"LTS", "LES", "LTU", "LEU"} -> SetAlu(n, BaseOp[s.op], des, x(3), x(2))
        [] s.op \in DOMAIN BaseOp \ {"LTS", "LES", "LTU", "LEU"} ->
             SetAlu(n, BaseOp[s.op], des, x(2), x(3))
        [] s.op \in {"LC", "MOV"} -> SetReg(n, des, x(2))
        [] s.op = "PUSH"  -> SetReg(Write(n, Sp(-4), x(1)), 2, Sp(-4))
        [] s.op = "POP"   -> SetReg(SetReg(n, des, Read(m, sp)), 2, Sp(4))
        [] s.op = "J"     -> Goto(TRUE, x(1))
        [] s.op = "JEZI"  -> Goto(x(1) = 0, x(2))
        [] s.op = "JNZI"  -> Goto(x(1) # 0, x(2))
        [] s.op = "BEZI"  -> Goto(x(1) = 0, Truncate(m.pc + 4 * x(2)))
        [] s.op = "BNZI"  -> Goto(x(1) # 0, Truncate(m.pc + 4 * x(2)))
        [] s.op = "B"     -> Goto(TRUE, Truncate(m.pc + x(1)))
        [] s.op = "LEH"   -> [n EXCEPT !.eh = x(1)]
        [] s.op = "CALL"  -> [SetReg(n, 1, Truncate(m.pc + (used - 4))) EXCEPT !.pc = x(1)]
        [] s.op = "ENTRY" ->
             SetReg(SetReg(Write(Write(n, Sp(-4), fp), Sp(-8), m.reg[1]), 3, Sp(-8)),
                    2, Truncate((sp - 8) - x(1)))
        [] s.op = "RETURN" ->
             LET back == Truncate(Read(m, fp) + 4)
                 left == SetReg(SetReg(SetReg(n, 1, back), 2, Fp(8)), 3, Read(m, Fp(4)))
             IN  [IF s.args = <<>> THEN left ELSE SetReg(left, 4, x(1)) EXCEPT !.pc = back]

(* Alike but for the register the assembler keeps for itself.              *)
SameMachine(m, n) == [m EXCEPT !.reg[Reserved] = 0] = [n EXCEPT !.reg[Reserved] = 0]
=============================================================================
