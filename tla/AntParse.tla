------------------------------- MODULE AntParse -------------------------------
(***************************************************************************)
(* Parsing a line of assembler (AntCommon/ant_parse.c): the comment goes,  *)
(* then there is a label, an operation and its operands; the names bound   *)
(* by .define give way to their values.  The spelling is left out: a line  *)
(* is a label, a mnemonic, operand tokens and what is left behind them.    *)
(*                                                                         *)
(* A name of a register belongs to a naming convention (ant32_reg.c): plain *)
(* numbers, or g, c or the names these two share; they must not be mixed.  *)
(***************************************************************************)
EXTENDS AntSymtab, Ant32Arith

CONSTANTS
  Mnemonics,  \* what ant_parse_setup was given
  MaxArgs     \* ANT_ASM_MAX_ARGS

ASSUME ParseAssumption == MaxArgs \in Nat

(* A token: its kind, the number it stands for, its sign, its name, the    *)
(* characters of a string and whether '#' is one of them, and the naming   *)
(* convention a register belongs to.  A label has a name                   *)
(* (check_label_name).                                                     *)
Kind == {"reg", "int", "char", "string", "label", "symbol", "sys", "bad"}
Conventions == {"r", "g", "c", "s", "special"}

Token ==
  {t \in [kind : Kind, num : Nat, neg : BOOLEAN, name : Spelling, chars : Seq(Nat),
          hash : BOOLEAN, convention : Conventions] : t.kind = "label" => t.name # NoName}

Bad == [kind |-> "bad", num |-> 0, neg |-> FALSE, name |-> NoName, chars |-> <<>>,
        hash |-> FALSE, convention |-> "special"]

(* A line of the source, and what is behind its last operand.              *)
Line == [label : Spelling, op : STRING, args : Seq(Token), rest : Spelling]

(* What a statement has of an operand.                                     *)
Arg(type, val, reg, label, string) ==
  [type |-> type, val |-> val, reg |-> reg, label |-> label, string |-> string]

UnknownArg == Arg("UNKNOWN", 0, 0, NoName, <<>>)

Stmnt(label, op, args) == [label |-> label, op |-> op, args |-> args]
Arg0(s) == IF Len(s.args) > 0 THEN s.args[1] ELSE UnknownArg
Arg1(s) == IF Len(s.args) > 1 THEN s.args[2] ELSE UnknownArg
Arg2(s) == IF Len(s.args) > 2 THEN s.args[3] ELSE UnknownArg

EmptyStmnt == Stmnt(NoName, "NONE", <<>>)
-----------------------------------------------------------------------------
(* remove_comments: a '#' between quotes stays, one in a string does not.  *)

Cut(tok) == tok.kind = "string" /\ tok.hash

RemoveComments(line) ==
  LET cut == {i \in DOMAIN line.args : Cut(line.args[i])} IN
  IF cut = {} THEN line
  ELSE [line EXCEPT !.rest = NoName,
                    !.args = Append(SubSeq(@, 1, Min(cut) - 1), Bad)]
-----------------------------------------------------------------------------
(* ant_find_reg, check_names: seen is the set of conventions met; the      *)
(* first change of convention is refused, later ones go unnoticed.         *)

Mixed(seen, c) ==
  \/ c = "r" /\ seen \cap {"g", "s", "c"} # {}
  \/ c = "s" /\ "r" \in seen
  \/ c = "g" /\ seen \cap {"r", "c"} # {}
  \/ c = "c" /\ seen \cap {"r", "g"} # {}

FindReg(names, c) ==
  IF names.barked \/ c = "special" THEN names
  ELSE [seen |-> names.seen \cup {c}, barked |-> Mixed(names.seen, c)]

Barks(names, c) == FindReg(names, c).barked # names.barked
-----------------------------------------------------------------------------
(* ant_asm_get_integer: cut to a word; a negative number must fit.         *)

Integer(tok) == Signed(IF tok.neg THEN -tok.num ELSE tok.num, WordSize)
IntegerOK(tok) == tok.neg => (tok.num % WordSize) \in 1 .. -MinInt

ArgOK(tok) == tok.kind # "bad" /\ (tok.kind = "int" => IntegerOK(tok))

(* find_arg, find_char, find_string.                                       *)
FindArg(names, tok) ==
  CASE tok.kind = "reg" /\ ~Barks(names, tok.convention) -> Arg("REG", 0, tok.num, NoName, <<>>)
    [] tok.kind = "reg" /\ Barks(names, tok.convention) -> Arg("SYMBOL", 0, 0, tok.name, <<>>)
    [] tok.kind = "int"    -> Arg("INT", Integer(tok), 0, NoName, <<>>)
    [] tok.kind = "char"   -> Arg("INT", tok.num, 0, NoName, <<>>)
    [] tok.kind = "string" -> Arg("STRING", 0, 0, NoName, tok.chars)
    [] tok.kind = "label"  -> Arg("LABEL", 0, 0, tok.name, <<>>)
    [] tok.kind = "sys"    -> Arg("SYS_CONST", tok.num, 0, NoName, <<>>)
    [] OTHER               -> Arg("SYMBOL", 0, 0, tok.name, <<>>)

(* The operands in order: each register is seen after those before it.     *)
FindNext(st, tok) ==
  [args  |-> Append(st.args, FindArg(st.names, tok)),
   names |-> IF tok.kind = "reg" THEN FindReg(st.names, tok.convention) ELSE st.names]

FindArgs(names, toks) == FoldLeft(FindNext, [args |-> <<>>, names |-> names], toks)
-----------------------------------------------------------------------------
(* parse_stmnt                                                             *)

Directives ==
  {"NONE", "BYTE", "WORD", "DEFINE", "ALIGN", "ASCII", "ASCIIZ", "TEXT", "DATA", "ADDR"}

StmntOK(line) ==
  /\ line.label # "bad"
  /\ line.op \in Mnemonics \cup Directives
  /\ \A i \in DOMAIN line.args : ArgOK(line.args[i])
  /\ Len(line.args) <= MaxArgs
  /\ line.rest = NoName

(* make_const: a constant may be defined again, from another one too.      *)
ConstOK(s, constants) ==
  /\ Arg0(s).type = "SYMBOL"
  /\ \/ Arg1(s).type = "INT"
     \/ Arg1(s).type = "SYMBOL" /\ Defined(constants, Arg1(s).label)

ConstValue(s, constants) ==
  IF Arg1(s).type = "INT" THEN Arg1(s).val ELSE ValueOf(constants, Arg1(s).label)

MakeConst(s, constants) ==
  AddSymbol(DelSymbol(constants, Arg0(s).label), Arg0(s).label, ConstValue(s, constants))

(* subst_const                                                             *)
\* Seeded fault: a constant that is defined only later counts as 0.
SubstLate(s, constants) == TRUE

SubstOK(s, constants) ==
  \A i \in DOMAIN s.args : s.args[i].type = "SYMBOL" => Defined(constants, s.args[i].label)

SubstConst(s, constants) ==
  [s EXCEPT !.args = [i \in DOMAIN @ |->
     IF @[i].type = "SYMBOL"
     THEN [@[i] EXCEPT !.type = "INT", !.val = ValueOf(constants, s.args[i].label)]
     ELSE @[i]]]

(* ant_asm_parse_str: the statement, and the bindings it leaves.           *)
Parsed(ok, s, constants, names) ==
  [ok |-> ok, stmnt |-> s, constants |-> constants, names |-> names]

ParseStr(raw, constants, names) ==
  LET line  == RemoveComments(raw)
      found == FindArgs(names, line.args)
      s     == Stmnt(line.label, line.op, found.args)
  IN  IF ~StmntOK(line)
      THEN Parsed(FALSE, EmptyStmnt, constants, names)
      ELSE IF line.op = "DEFINE" /\ ConstOK(s, constants)
      THEN Parsed(TRUE, s, MakeConst(s, constants), found.names)
      ELSE IF line.op # "DEFINE" /\ SubstOK(s, constants)
      THEN Parsed(TRUE, SubstConst(s, constants), constants, found.names)
      ELSE Parsed(FALSE, s, constants, found.names)
=============================================================================
