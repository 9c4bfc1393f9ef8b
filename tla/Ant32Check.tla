------------------------------ MODULE Ant32Check ------------------------------
(***************************************************************************)
(* What the Ant-32 assembler accepts as the operands of each operation     *)
(* (Lib32/ant32_check.c).  Operations that are expanded are let through:   *)
(* their operands are matched with the forms of Ant32Expand later.         *)
(***************************************************************************)
EXTENDS AntParse, Ant32Opcodes

CONSTANT NReg       \* AntParameters.n_reg

ASSUME CheckAssumption == NReg \in Nat

MinCycleReg == 240

HasReg(r)  == r < NReg \/ r >= MinCycleReg
RegArg(a)  == a.type = "REG" /\ HasReg(a.reg)
ConstArg(a) == a.type \in {"INT", "LABEL"}

CheckDesReg(s) == RegArg(Arg0(s))
CheckNoArgs(s) == s.args = <<>>
Check1Reg(s)   == Len(s.args) = 1 /\ RegArg(Arg0(s))

(* Its second operand is not looked at: the first is, twice.               *)
Check2Reg(s)   == Len(s.args) = 2 /\ RegArg(Arg0(s))
Check3Reg(s)   == Len(s.args) = 3 /\ \A i \in 1 .. 3 : RegArg(s.args[i])

(* The value of a label in the third place is not known yet.               *)
Check2RegConst8(s) ==
  /\ Len(s.args) = 3
  /\ Arg0(s).type = "REG" /\ Arg1(s).type = "REG"
  /\ ConstArg(Arg2(s))
  /\ Arg2(s).type = "INT" => Arg2(s).val \in 0 .. ByteSize - 1

ByteConst(a) == a.type = "INT" /\ a.val \in -(ByteSize \div 2) .. ByteSize - 1

CheckConst(s, Illegal(_)) ==
  /\ Len(s.args) \in 1 .. MaxArgs
  /\ \A i \in DOMAIN s.args : ~Illegal(s.args[i])

CheckBytes(s)  == CheckConst(s, LAMBDA a : ~ByteConst(a))
CheckWords(s)  == CheckConst(s, LAMBDA a : ~ConstArg(a))
CheckString(s) == Len(s.args) = 1 /\ Arg0(s).type = "STRING"

CheckImm32(s) == Len(s.args) = 2 /\ Arg0(s).type = "REG" /\ ConstArg(Arg1(s))
CheckImm16(s) ==
  /\ CheckImm32(s)
  /\ Arg1(s).type = "INT" => Arg1(s).val \in -(HwordSize \div 2) .. HwordSize - 1

ArgsCheck(s) ==
  CASE s.op \in {"TEXT", "DATA"}     -> CheckNoArgs(s)
    [] s.op = "BYTE"                 -> CheckBytes(s)
    [] s.op = "WORD"                 -> CheckWords(s)
    [] s.op \in {"ASCII", "ASCIIZ"}  -> CheckString(s)
    [] s.op \in {"ALIGN", "ADDR"}    -> Len(s.args) <= 1 /\ CheckWords(s)
    [] s.op \in ThreeReg \cup {"LTS", "LES", "LTU", "LEU"} -> CheckDesReg(s) /\ Check3Reg(s)
    [] s.op \in {"LD1", "LD4", "EX4"} -> CheckDesReg(s) /\ Check2RegConst8(s)
    [] s.op \in {"ST1", "ST4"}       -> Check2RegConst8(s)
    [] s.op = "LC"                   -> CheckDesReg(s) /\ CheckImm32(s)
    [] s.op \in {"LCL", "LCH", "INFO"} -> CheckDesReg(s) /\ CheckImm16(s)
    [] s.op \in Flags \cup {"TRAP"}  -> CheckNoArgs(s) \/ CheckBytes(s)
    [] s.op = "RAND"                 -> CheckDesReg(s)
    [] s.op \in {"SRAND", "RFE"}     -> Check3Reg(s)
    [] s.op \in {"CIN", "COUT"}      -> Check1Reg(s)
    [] s.op \in {"TLBPI", "TLBLE", "TLBSE", "TIMER"} -> Check2Reg(s)
    [] OTHER                         -> TRUE
=============================================================================
