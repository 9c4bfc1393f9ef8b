------------------------------ MODULE Ant32Expand ------------------------------
(***************************************************************************)
(* The operations the Ant-32 assembler expands (Lib32/ant32_expand_op.c):  *)
(* the table of forms, the choice of the first form that fits, the bytes.  *)
(* Branches take no labels, so references relative to the program counter  *)
(* are never made.                                                         *)
(***************************************************************************)
EXTENDS Ant32Check

(* Registers the expansions use.                                           *)
R0 == <<"num", 0>>
RA == <<"num", 1>>
SP == <<"num", 2>>
FP == <<"num", 3>>
RV == <<"num", 4>>
Reserved == 60
RR == <<"num", Reserved>>

(* The bytes of an instruction to be made: an opcode, a number, the        *)
(* register or a byte of the constant that is an operand.                  *)
Op(op)       == <<"op", op>>
Num(n)       == <<"num", n>>
RegOf(i)     == <<"reg", i>>
Byte(i, k)   == <<"const", i, k>>

(* The instructions that load operand i in register r.                     *)
Lcl(r, i) == <<Op("LCL"), r, Byte(i, 1), Byte(i, 0)>>
Lch(r, i) == <<Op("LCH"), r, Byte(i, 3), Byte(i, 2)>>
Load16(r, i) == <<Lcl(r, i)>>
Load32(r, i) == <<Lcl(r, i), Lch(r, i)>>

(* A form: what the operands must be, the instructions, and how many bytes *)
(* are made: the whole instructions, but for one form.                     *)
Form(op, args, insts) == [op |-> op, args |-> args, insts |-> insts, size |-> 4 * Len(insts)]

\* An operation with a constant as its last operand, and as its middle one.
Using(op)  == <<<<Op(op), RegOf(1), RegOf(2), RR>>>>
Using2(op) == <<<<Op(op), RegOf(1), RR, RegOf(3)>>>>

RRC(size) == <<"REG", "REG", size>>
RCR(size) == <<"REG", size, "REG">>

Wider(op, imm) ==
  <<Form(imm, RRC("CONST16"), Load16(RR, 3) \o Using(op)),
    Form(imm, RRC("CONST_ANY"), Load32(RR, 3) \o Using(op))>>

Narrow(op, imm) ==
  <<Form(imm, RRC("CONST8"), <<<<Op(imm), RegOf(1), RegOf(2), Byte(3, 0)>>>>)>> \o Wider(op, imm)

Middle(op, imm) ==
  <<Form(imm, RCR("CONST16"), Load16(RR, 2) \o Using2(op)),
    Form(imm, RCR("CONST_ANY"), Load32(RR, 2) \o Using2(op))>>

(* The shifts take the constant in the middle from the wrong operand when  *)
(* it has 16 bits; one of them does not know the other constants there.    *)
MiddleShift(op, imm) ==
  <<Form(imm, RCR("CONST16"), Load16(RR, 3) \o Using2(op)),
    Form(imm, IF imm = "SHRI" THEN RRC("CONST_ANY") ELSE RCR("CONST_ANY"),
         Load32(RR, 2) \o Using2(op))>>

Swapped(op, native) ==
  <<Form(op, <<"REG", "REG", "REG">>, <<<<Op(native), RegOf(1), RegOf(3), RegOf(2)>>>>)>>

Branch16(op) ==
  <<Form(op, <<"REG", "CONST16">>, <<<<Op(op), RegOf(1), Byte(2, 1), Byte(2, 0)>>>>)>>

Jump(op, native) ==
  <<Form(op, <<"REG", "CONST_ANY">>, Load32(RR, 2) \o <<<<Op(native), R0, RegOf(1), RR>>>>)>>

Inst(op, a, b, c) == <<Op(op), a, b, c>>

PushInsts(r) == <<Inst("SUBI", SP, SP, Num(4)), Inst("ST4", r, SP, Num(0))>>

EntryInsts ==
  <<Inst("SUBI", SP, SP, Num(8)), Inst("ST4", FP, SP, Num(4)), Inst("ST4", RA, SP, Num(0)),
    Inst("ADDI", FP, SP, Num(0))>>
  \o Load32(RR, 1) \o <<Inst("SUB", SP, SP, RR)>>

\* Seeded fault: the saved registers are taken from each other's places.
ReturnSwapped ==
  <<Inst("ADDI", SP, FP, Num(0)), Inst("LD4", RA, SP, Num(4)), Inst("ADDI", RA, RA, Num(4)),
    Inst("LD4", FP, SP, Num(0)), Inst("ADDI", SP, SP, Num(8)), Inst("JEZ", R0, R0, RA)>>

ReturnInsts ==
  <<Inst("ADDI", SP, FP, Num(0)), Inst("LD4", RA, SP, Num(0)), Inst("ADDI", RA, RA, Num(4)),
    Inst("LD4", FP, SP, Num(4)), Inst("ADDI", SP, SP, Num(8)), Inst("JEZ", R0, R0, RA)>>

(* pseudo_op                                                               *)
IntegerForms ==
     Narrow("ADD", "ADDI") \o Narrow("SUB", "SUBI") \o Narrow("MUL", "MULI")
  \o Narrow("DIV", "DIVI") \o Middle("DIV", "DIVI")
  \o Narrow("MOD", "MODI") \o Middle("MOD", "MODI")

ShiftForms ==
     Narrow("SHR", "SHRI") \o MiddleShift("SHR", "SHRI")
  \o Narrow("SHRU", "SHRUI") \o MiddleShift("SHRU", "SHRUI")
  \o Narrow("SHL", "SHLI") \o MiddleShift("SHL", "SHLI")

OtherForms ==
     Narrow("ADDO", "ADDIO") \o Narrow("SUBO", "SUBIO") \o Narrow("MULO", "MULIO")
  \o Wider("OR", "ORI") \o Wider("NOR", "NORI") \o Wider("XOR", "XORI") \o Wider("AND", "ANDI")

OrderForms ==
     Branch16("BEZI") \o Branch16("BNZI")
  \o Swapped("LTS", "GTS") \o Swapped("LES", "GES") \o Swapped("LTU", "GTU") \o Swapped("LEU", "GEU")

MoveForms ==
  <<Form("LC", <<"REG", "CONST16">>, Load16(RegOf(1), 2)),
    Form("LC", <<"REG", "CONST_ANY">>, Load32(RegOf(1), 2)),
    Form("MOV", <<"REG", "REG">>, <<Inst("ADD", RegOf(1), RegOf(2), R0)>>),
    Form("PUSH", <<"REG">>, PushInsts(RegOf(1))),
    Form("PUSH", <<"CONST16">>, Load16(RR, 1) \o PushInsts(RR)),
    Form("PUSH", <<"CONST_ANY">>, Load32(RR, 1) \o PushInsts(RR)),
    Form("POP", <<"REG">>, <<Inst("LD4", RegOf(1), SP, Num(0)), Inst("ADDI", SP, SP, Num(4))>>),
    Form("J", <<"REG">>, <<Inst("JEZ", R0, R0, RegOf(1))>>),
    Form("J", <<"CONST_ANY">>, Load32(RR, 1) \o <<Inst("JEZ", R0, R0, RR)>>)>>

CallForms ==
  <<[Form("B", <<"CONST_ANY">>, <<Inst("BEZI", R0, Byte(2, 1), Byte(2, 0))>>) EXCEPT !.size = 12],
    Form("B", <<"REG">>, <<Inst("BEZ", R0, R0, RegOf(1))>>),
    Form("LEH", <<"REG">>, <<Inst("LEH", Num(0), RegOf(1), Num(0))>>),
    Form("LEH", <<"CONST_ANY">>, Load32(RR, 1) \o <<Inst("LEH", Num(0), RR, Num(0))>>),
    Form("CALL", <<"REG">>, <<Inst("JEZ", RA, R0, RegOf(1))>>),
    Form("CALL", <<"CONST_ANY">>, Load32(RR, 1) \o <<Inst("JEZ", RA, R0, RR)>>),
    Form("ENTRY", <<"CONST_ANY">>, EntryInsts),
    Form("RETURN", <<>>, ReturnInsts),
    Form("RETURN", <<"REG">>, <<Inst("ADDI", RV, RegOf(1), Num(0))>> \o ReturnInsts),
    Form("RETURN", <<"CONST16">>, Load16(RV, 1) \o ReturnInsts),
    Form("RETURN", <<"CONST_ANY">>, Load32(RV, 1) \o ReturnInsts)>>

Forms ==
  IntegerForms \o ShiftForms \o OtherForms \o OrderForms \o MoveForms
  \o Jump("JEZI", "JEZ") \o Jump("JNZI", "JNZ") \o CallForms
-----------------------------------------------------------------------------
(* match_types                                                             *)

Fits(val, size) == val \in -(size \div 2) .. size \div 2 - 1

Matches(a, wanted) ==
  CASE wanted = "REG"       -> a.type = "REG"
    [] wanted = "CONST_ANY" -> ConstArg(a)
    [] wanted = "CONST16"   -> a.type = "INT" /\ Fits(a.val, HwordSize)
    [] OTHER                -> a.type = "INT" /\ Fits(a.val, ByteSize)

MatchTypes(s, form) ==
  /\ s.op = form.op
  /\ Len(s.args) = Len(form.args)
  /\ \A i \in DOMAIN s.args : Matches(s.args[i], form.args[i])

Fitting(s)   == {i \in DOMAIN Forms : MatchTypes(s, Forms[i])}
CanExpand(s) == Fitting(s) # {}
FormOf(s)    == Forms[Min(Fitting(s))]
-----------------------------------------------------------------------------
(* asm_expand_op: byte j of the form, for statement s.                     *)

ArgAt(s, i) == IF i \in DOMAIN s.args THEN s.args[i] ELSE UnknownArg

(* Byte k of a word, 0 the lowest.                                         *)
ByteOf(val, k) == Lower(val \div Weight[k + 1], ByteSize)

Template(form, j) ==
  IF j < 4 * Len(form.insts) THEN form.insts[(j \div 4) + 1][(j % 4) + 1] ELSE Num(0)

\* The label a byte of the form waits for, or none.
LabelAt(s, t) ==
  IF t[1] = "const" /\ ArgAt(s, t[2]).type = "LABEL" THEN ArgAt(s, t[2]).label ELSE NoName

Made(s, t, known) ==
  CASE t[1] = "op"  -> Code(t[2])
    [] t[1] = "num" -> t[2]
    [] t[1] = "reg" -> ArgAt(s, t[2]).reg
    [] LabelAt(s, t) # NoName -> ByteOf(ValueOf(known, LabelAt(s, t)), t[3])
    [] OTHER        -> ByteOf(ArgAt(s, t[2]).val, t[3])
=============================================================================
