---------------------------- MODULE Ant32AsmProps ----------------------------
(***************************************************************************)
(* What the assembled and loaded program has to do with its source.        *)
(***************************************************************************)
EXTENDS Ant32Load, Ant32Meaning

CONSTANT RegFiles     \* the registers to try the expansions with

ASSUME PropsAssumption ==
  /\ \A m \in RegFiles : /\ m \in [DOMAIN m -> Word] /\ m[0] = 0
                         /\ 0 .. 4 \subseteq DOMAIN m /\ Reserved \in DOMAIN m
  /\ ByteSize > 16      \* the 4 and the 8 of the expansions are signed bytes
-----------------------------------------------------------------------------
Items == {placed[i] : i \in DOMAIN placed}
Room(item) == item.at .. item.at + item.used - 1

(* Type invariant: the state of the assembler is what its parts are made   *)
(* of; neither list binds a name twice, although a constant may be bound   *)
(* again, from its own value too, every pass binds all constants anew, and *)
(* a ROM brings labels of its own (ant_symtab.c:20, ant_parse.c:297,       *)
(* ant32_load.c:277); and a place that waits for a label, to be patched in *)
(* the end, is a byte of something assembled.                              *)
NamesOnce == UniqueNames(knownList) /\ UniqueNames(constantList)
PatchesInItems ==
  \A i \in DOMAIN unknownInstList :
    LET e == unknownInstList[i]
    IN  e.type \in 0 .. 3 /\ \E item \in Items : e.value \in Room(item)

AsmTypeOK ==
  /\ phase \in Phase
  /\ line \in 1 .. Len(program) + 1
  /\ segment \in {"inst", "data"}
  /\ curr_offset \in Int /\ inst_cnt \in Int
  /\ DOMAIN memTable = Offset
  /\ NamesOnce
  /\ PatchesInItems
  /\ loaded \in BOOLEAN
-----------------------------------------------------------------------------
Final(label) == ValueOf(knownList, label)

(* The bytes the machine has in memory from an offset on.                  *)
MachineBytes(at, n) == [i \in 1 .. n |-> memTable[Host(at + i - 1)]]

(* Known departures of the code: a word of data that is not aligned is     *)
(* copied to the host's memory as it is, alignment in the text puts its    *)
(* zeros where the number of instructions says, .addr may go back over     *)
(* what is there and cut the file short, or into the middle of a word, and *)
(* neither .addr nor the number of bytes of data is held to the memory.    *)
WordAstray(item)  == item.stmnt.op = "WORD" /\ item.at % 4 # 0
AlignAstray(item) == item.stmnt.op = "ALIGN" /\ item.text /\ item.used > 0
InstAstray(item)  == item.text /\ item.used > 0 /\ item.at % 4 # 0
InMemory(item)    == item.at >= 0 /\ item.at + item.used <= MaxBytes
Placed(item)      == InMemory(item) /\ ~WordAstray(item) /\ ~AlignAstray(item) /\ ~InstAstray(item)
NoAddr  == \A i \in DOMAIN program : program[i].op # "ADDR"
InOrder ==
  \A i \in DOMAIN placed :
    LET end == placed[i].at + placed[i].used
    IN  end <= IF i = Len(placed) THEN curr_offset ELSE placed[i + 1].at

Orderly ==
  /\ NoAddr \/ InOrder
  /\ \A item \in Items : Placed(item)

(* What the data of a statement is to be, with the labels as they are in   *)
(* the end.                                                                *)
DataOf(s) ==
  LET Value(a) == IF a.type = "LABEL" THEN Final(a.label) ELSE a.val
  IN  IF s.op # "WORD" THEN DataBytes(s)
      ELSE [j \in 1 .. 4 * Len(s.args) |->
              WordOf(Value(s.args[((j - 1) \div 4) + 1]))[((j - 1) % 4) + 1]]

(* What an instruction is to be, or the instructions of an operation, with *)
(* the labels as they are in the end.  LCH takes the wrong half of a label *)
(* and, when it waits for it, has other bytes of its own patched.          *)
LchAstray(s) == s.op = "LCH" /\ Arg1(s).type = "LABEL"

InstOf(s) ==
  IF s.op \in Expanded
  THEN [j \in 1 .. FormOf(s).size |-> Made(s, Template(FormOf(s), j - 1), knownList)]
  ELSE <<Code(s.op)>> \o InstBytes(s)

(* ItemsInPlace: when the assembler is done, every byte, string, word and  *)
(* instruction of the source is in memory where the Ant-32 reads it, the   *)
(* highest byte of a word first, with the values its labels have got in    *)
(* the end, although its bytes, and the places that wait for labels, were  *)
(* noted in the order of the host's (ant32_expand_op.c:597): nothing put   *)
(* there later, and no patch of another one (ant32_backpatch.c:26), has    *)
(* changed it.                                                             *)
ItemsInPlace ==
  phase = "done" /\ Orderly =>
    \A item \in Items :
      LET s == item.stmnt
      IN  /\ s.op \in {"BYTE", "WORD", "ASCII", "ASCIIZ"} =>
               MachineBytes(item.at, item.used) = DataOf(s)
          /\ s.op \in Instructions /\ ~LchAstray(s) =>
               MachineBytes(item.at, item.used) = InstOf(s)

(* The first item to take room from the i-th on.                           *)
NextItem(i) == {j \in i .. Len(placed) :
                  placed[j].used > 0 /\ \A k \in i .. j - 1 : placed[k].used = 0}

(* LabelsName: the value of a label is the address of what is assembled    *)
(* first behind it, be it on its own line or a later one, in the text or,  *)
(* past the end of the text, in the data (ant32_core.c:146-248).           *)
LabelsName ==
  phase = "done" /\ NoAddr =>
    \A i \in DOMAIN placed :
      placed[i].stmnt.label # NoName =>
        \A j \in NextItem(i) :
          Final(placed[i].stmnt.label) = Truncate(BaseAddress + placed[j].at)

(* The instructions at an offset.                                          *)
InstsAt(at, n) == [i \in 1 .. n |-> MachineBytes(at + 4 * (i - 1), 4)]

(* The forms whose table entries are wrong.                                *)
WrongForm(s) ==
  \/ s.op = "B" /\ Arg0(s).type # "REG"
  \/ s.op \in {"SHRI", "SHRUI", "SHLI"} /\ Arg1(s).type = "INT"

(* The stack pointer is moved before it is pushed and after it is popped.  *)
StackClash(s) == s.op \in {"PUSH", "POP"} /\ s.args[1].type = "REG" /\ s.args[1].reg = 2

(* Operands that the machine has and the assembler does not need itself.   *)
OwnRegs(s, reg) ==
  \A i \in DOMAIN s.args :
    s.args[i].type = "REG" => s.args[i].reg \in DOMAIN reg \ {Reserved}

(* ExpansionMeans: whatever the registers hold, running the instructions   *)
(* an operation was expanded to does what the operation is for, with the   *)
(* labels as they are in the end, and changes nothing else but the         *)
(* register reserved for it (pseudo_op, ant32_expand_op.c:86); but for     *)
(* the wrong forms, pushing or popping the stack pointer, and operands     *)
(* that are that register.                                                 *)
ExpansionMeans ==
  phase = "done" /\ Orderly =>
    \A item \in Items :
      item.stmnt.op \in Expanded /\ ~WrongForm(item.stmnt) /\ ~StackClash(item.stmnt) =>
      \A reg \in RegFiles : OwnRegs(item.stmnt, reg) =>
        LET m == Machine(reg, <<>>, Truncate(BaseAddress + item.at), 0)
        IN  SameMachine(Run(m, InstsAt(item.at, item.used \div 4)),
                        Meaning(m, item.stmnt, item.used, Final))

(* Where the loader is to put a line of the file: a `+` goes on from the   *)
(* last line with an address.                                              *)
Starts(k, i)   == out[k].addr # Plus /\ \A j \in k + 1 .. i : out[j].addr = Plus
FileAddress(i) == LET k == CHOOSE k \in 1 .. i : Starts(k, i) IN Truncate(out[k].addr + 4 * (i - k))

(* Known departures: .addr may make the file longer than memory, a word    *)
(* whose address is not mapped is passed over, and the jump to the program *)
(* or the ROM behind it may be written over it.                            *)
Loadable ==
  /\ curr_offset <= MaxBytes
  /\ \A i \in 1 .. WordsWritten :
       /\ FileAddress(i) \in Physical
       /\ \A j \in WordsWritten + 1 .. Len(out) : FileAddress(j) # FileAddress(i)

(* LoadedAsBuilt: once the file is loaded, every label has its value,      *)
(* every word that holds a byte of the program is in the machine, the      *)
(* partial word at the end too, and the line shown for an instruction is   *)
(* its own: as written for the first word, as made up for the others       *)
(* (ant32_load.c:44-144, aa32.c:297-360).                                  *)
LabelsLoaded ==
  \A name \in {knownList[i].string : i \in DOMAIN knownList} :
    Defined(labels, name) /\ ValueOf(labels, name) = Final(name)

WordsLoaded(item) ==
  \A a \in Room(item) :
    LET addr == Truncate(BaseAddress + Lowest(a))
    IN  addr \in DOMAIN pmem /\ pmem[addr] = HostWord(a \div 4)

LinesLoaded(item) ==
  codeLines # <<>> /\ item.stmnt.op \in Instructions =>
    \A k \in 0 .. (item.used \div 4) - 1 :
      codeLines[Truncate(BaseAddress + item.at + 4 * k)] =
        CodeLine32(item.line, IF k = 0 THEN "LITERAL" ELSE "SYNTHETIC")

LoadedAsBuilt ==
  loaded =>
    /\ LabelsLoaded
    /\ Orderly /\ Loadable => \A item \in Items : WordsLoaded(item) /\ LinesLoaded(item)

(* PassesAgree: a line that is assembled has the meaning that was checked  *)
(* in the first pass, although constants and the naming of registers are   *)
(* bound anew by every pass (ant32_core.c:111-327).                        *)
Assembled == phase \in {"text", "data"} /\ placed' # placed
PassesAgree == [][Assembled => S = checked[line]]_<<vars, loadVars>>

(* LchLoads: `lch` loads its constant in the upper half of the register    *)
(* (Documentation/t32-inst.tex:116): the half word of the instruction is   *)
(* the constant.                                                           *)
LchLoads ==
  phase = "done" =>
    \A item \in Items :
      item.stmnt.op = "LCH" /\ Arg1(item.stmnt).type = "INT" =>
        SubSeq(MachineBytes(item.at, 4), 3, 4) =
          <<ByteOf(Arg1(item.stmnt).val, 1), ByteOf(Arg1(item.stmnt).val, 0)>>
=============================================================================
