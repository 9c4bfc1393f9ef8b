------------------------------ MODULE MCAnt32Asm ------------------------------
(* Bytes of five bits: a word has twenty, and the 8 the expansions add to  *)
(* an address still is a byte.  Short programs of lines that meet: labels  *)
(* used before and after they are bound, data and text in turn, constants  *)
(* bound twice, gaps; and each expanded operation between two lines.       *)
EXTENDS Ant32AsmProps

Tok(kind, num)  == [Bad EXCEPT !.kind = kind, !.num = num]
Reg(n)          == [Tok("reg", n) EXCEPT !.convention = "r", !.name = "r"]
GReg(n)         == [Tok("reg", n + 6) EXCEPT !.convention = "g", !.name = "g"]
IntT(n)         == [Tok("int", Abs(n)) EXCEPT !.neg = n < 0]
Lab(name)       == [Tok("label", 0) EXCEPT !.name = name]
Name(name)      == [Tok("symbol", 0) EXCEPT !.name = name]
Str(chars, cut) == [Tok("string", 0) EXCEPT !.chars = chars, !.hash = cut]

At(label, op, args) == [label |-> label, op |-> op, args |-> args, rest |-> NoName]
Plain(op, args)     == At(NoName, op, args)

(* Ordinary lines.                                                         *)
MCText ==
  {At("x", "NONE", <<>>), At("x", "ADD", <<Reg(5), Reg(6), Reg(7)>>),
   Plain("LC", <<Reg(5), Lab("x")>>), Plain("LCH", <<Reg(5), Lab("x")>>),
   Plain("J", <<Lab("x")>>), Plain("WORD", <<IntT(70000), Lab("x")>>),
   Plain("ADDI", <<Reg(5), Reg(6), Name("k")>>)}

MCForms ==
  MCText \cup
  {At(Data_, "BYTE", <<IntT(7)>>), At("y", "BYTE", <<IntT(3), IntT(-1)>>),
   At("x", "WORD", <<Lab("y")>>),
   Plain("ASCIIZ", <<Str(<<1, 2, 3>>, FALSE)>>),
   Plain("ALIGN", <<IntT(4)>>), Plain("DATA", <<>>), Plain("TEXT", <<>>),
   Plain("DEFINE", <<Name("k"), IntT(5)>>), Plain("DEFINE", <<Name("k"), IntT(700)>>),
   Plain("ADD", <<GReg(0), GReg(1), GReg(2)>>), Plain("ADDR", <<IntT(MinInt + 12)>>)}

(* Every operation that is expanded, in each of its forms.                 *)
MCConsts == {-17, -16, 15, 16, 511, 512, -512, -513, MaxInt, MinInt}
MCOperand == {IntT(n) : n \in MCConsts} \cup {Lab("x"), Lab("y")}

(* Among them those the expansions use.                                    *)
MCRegister == {Reg(n) : n \in {0, 1, 2, 3, 5, Reserved}}

RegReg == {"ADDI", "SUBI", "MULI", "DIVI", "MODI", "SHRI", "SHRUI", "SHLI", "ADDIO", "SUBIO",
           "MULIO", "ORI", "NORI", "XORI", "ANDI"}
MCExpanded ==
  {Plain(op, <<Reg(5), Reg(6), c>>) : op \in RegReg, c \in MCOperand}
  \cup {Plain(op, <<Reg(5), c, Reg(6)>>) : op \in {"DIVI", "MODI", "SHRI"}, c \in MCOperand}
  \cup {Plain(op, <<Reg(5), c>>) : op \in {"LC", "JEZI", "JNZI", "BEZI", "BNZI"}, c \in MCOperand}
  \cup {Plain(op, <<c>>) : op \in {"PUSH", "POP", "J", "B", "LEH", "CALL", "ENTRY", "RETURN"},
                           c \in MCOperand \cup MCRegister}
  \cup {Plain(op, <<r, q, IntT(512)>>) : op \in {"SUBI", "ADDIO"}, r, q \in MCRegister}
  \cup {Plain(op, <<Reg(5), Reg(6), Reg(7)>>) : op \in {"LTS", "LES", "LTU", "LEU"}}
  \cup {Plain("MOV", <<Reg(5), Reg(6)>>), Plain("RETURN", <<>>)}

MCPrograms ==
  {<<a, b, c>> : a, b, c \in MCForms}
  \cup {<<At("x", "NONE", <<>>), e, At("y", "BYTE", <<IntT(3)>>)>> : e \in MCExpanded}
  \cup {<<e, At("x", "NONE", <<>>), Plain("DATA", <<>>), At("y", "BYTE", <<IntT(3), IntT(-1)>>)>>
           : e \in MCExpanded}

MCLchPrograms == {<<Plain("LCL", <<Reg(5), c>>), Plain("LCH", <<Reg(5), c>>)>> : c \in MCOperand}

MCBase     == MinInt
MCPhysical == {MinInt + 4 * i : i \in 0 .. (MaxBytes \div 4) - 1} \cup {ResetPc}
MCOptions ==
  {[labels |-> <<>>, words |-> <<>>, oddEnd |-> FALSE, boot |-> TRUE],
   [labels |-> <<Symbol("y", 1000, 0)>>, words |-> <<FileLine(MinInt + 1000, <<1, 2, 3, 4>>, 3)>>,
    oddEnd |-> TRUE, boot |-> TRUE],
   [labels |-> <<Symbol("y", 1000, 0)>>, words |-> <<FileLine(MinInt + 1000, <<1, 2, 3, 4>>, 3)>>,
    oddEnd |-> FALSE, boot |-> FALSE]}

MCMnemonics == Instructions

MCRegs(a, b) ==
  [r \in (0 .. 12) \cup {Reserved} |->
     CASE r = 0 -> 0 [] r = 2 -> 400 [] r = 3 -> 600 [] r = 5 -> a [] r = 6 -> b [] OTHER -> 100 + r]
MCRegFiles == {MCRegs(0, 3), MCRegs(MaxInt, MinInt), MCRegs(-5, 0)}
=============================================================================
