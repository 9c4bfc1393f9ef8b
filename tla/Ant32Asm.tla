------------------------------- MODULE Ant32Asm -------------------------------
(***************************************************************************)
(* The Ant-32 assembler (aa32.c, Lib32/ant32_core.c, ant32_backpatch.c).   *)
(* Every line is parsed three times: to check it, to assemble the text, to *)
(* assemble the data; then the places that waited for labels are patched   *)
(* and the file is written.  A step is one line of one pass.               *)
(*                                                                         *)
(* Memory is kept as the host keeps it: the bytes of a word in little-     *)
(* endian order, while the Ant-32 is big-endian.                           *)
(***************************************************************************)
EXTENDS Ant32Expand

CONSTANTS
  Programs,     \* the sources: sequences of lines that fit in the memory
  Options,      \* -l, and -r: the labels and words of a ROM, and how it ends
  BaseAddress,  \* -a
  MaxBytes      \* ANT_MAX_INSTS

ASSUME AsmAssumption ==
  /\ MaxBytes \in Nat /\ MaxBytes % 4 = 0
  /\ BaseAddress \in Word /\ BaseAddress % 4 = 0
  /\ MaxBytes <= WordSize

(* A line of the file that is loaded: where its word goes, the word and    *)
(* the source it was made from.  One without an address goes on from the   *)
(* line before, one without a source is of the operation before.           *)
FileLine(addr, word, code) == [addr |-> addr, word |-> word, code |-> code]

Plus == WordSize
NoCode == 0
BootIt == -1

IsFile(lines) ==
  /\ lines \in Seq([addr : Int, word : Seq(Int), code : Int])
  /\ \A i \in DOMAIN lines : lines[i].addr \in Word \/ lines[i].addr = Plus

(* ant32_code_line_insert: a table with an entry more, or another one.     *)
Entered(table, key, value) ==
  [k \in DOMAIN table \cup {key} |-> IF k = key THEN value ELSE table[k]]

(* What the operands are spelled like.                                     *)
Tokens        == UNION {UNION {ToSet(p[i].args) : i \in DOMAIN p} : p \in Programs}
NamesOf(kind) == {t.name : t \in {u \in Tokens : u.kind = kind}}

(* A token spelled like a register is not taken for another name before    *)
(* ant_find_reg has seen it; ant_load_labels adds a label only once.       *)
ASSUME SourceAssumption ==
  /\ Programs \subseteq Seq(Line)
  /\ NamesOf("reg") \cap NamesOf("symbol") = {}
  /\ \A o \in Options : o.labels \in SymbolLists /\ IsFile(o.words)

VARIABLES
  phase,            \* the pass
  program,          \* lines
  options,          \* AddBootJump, BootRomFile
  line,             \* the line to be assembled next
  constantList, knownList, unknownInstList,
  names,            \* the conventions of register names met
  segment,
  curr_offset,
  inst_cnt,
  memTable,
  codeHash,         \* the line whose text is kept for an offset
  out,              \* the file written, its words in order
  symbols,          \* the symbol table written behind them
  checked,          \* the statements as the first pass saw them (history)
  placed            \* the statements assembled, and where (history)

vars == <<phase, program, options, line, constantList, knownList, unknownInstList, names, segment,
          curr_offset, inst_cnt, memTable, codeHash, out, symbols, checked, placed>>

Phase == {"check", "text", "data", "patch", "write", "done", "failed"}
Data_ == "_data_"
ResetPc == -4

Offset == 0 .. MaxBytes - 1
-----------------------------------------------------------------------------
(* Memory.                                                                 *)

(* Where the host has the byte at offset a.                                *)
Host(a) == 4 * (a \div 4) + 3 - (a % 4)

(* Four bytes, the first the highest, as the word at the offset.           *)
PutWord(mem, at, bytes) ==
  [a \in Offset |-> IF a \in at .. at + 3 THEN bytes[4 - (a - at)] ELSE mem[a]]

PutBytes(mem, at, bytes) ==
  [a \in Offset |-> IF \E i \in DOMAIN bytes : a = Host(at + i - 1)
                    THEN bytes[CHOOSE i \in DOMAIN bytes : a = Host(at + i - 1)] ELSE mem[a]]

(* What assembling a statement gives.                                      *)
Result(mem, used, unknown) == [ok |-> TRUE, mem |-> mem, used |-> used, unknown |-> unknown]
Fails == [ok |-> FALSE, mem |-> memTable, used |-> 0, unknown |-> unknownInstList]
-----------------------------------------------------------------------------
(* ant32_asm_align; a size of 0 ends the assembler too.                    *)
Alignable(s) == Arg0(s).type = "INT" /\ Arg0(s).val > 0

Gap(offset, size) == IF offset % size = 0 THEN 0 ELSE size - (offset % size)

Align(s, offset) ==
  IF ~Alignable(s) THEN Fails
  ELSE Result(PutBytes(memTable, offset, [i \in 1 .. Gap(offset, Arg0(s).val) |-> 0]),
              Gap(offset, Arg0(s).val), unknownInstList)
-----------------------------------------------------------------------------
(* ant32_asm_word: the bytes go from the lowest up, whatever the offset.   *)
WordByte(a, k, known) == ByteOf(IF a.type = "LABEL" THEN ValueOf(known, a.label) ELSE a.val, k)

Waits(a, known) == a.type = "LABEL" /\ ~Defined(known, a.label)

WaitFor(unknown, label, at) ==
  LET Add(l, k) == AddUnresolved(l, label, at + k, k)
  IN  Add(Add(Add(Add(unknown, 0), 1), 2), 3)

WordWaits(s, offset, known, l, i) ==
  IF Waits(s.args[i], known) THEN WaitFor(l, s.args[i].label, offset + 4 * (i - 1)) ELSE l

WordsWait(s, offset, known) ==
  FoldLeftDomain(LAMBDA l, i : WordWaits(s, offset, known, l, i), unknownInstList, s.args)

Words(s, offset, known) ==
  Result([a \in Offset |-> IF a \in offset .. offset + 4 * Len(s.args) - 1
                           THEN WordByte(s.args[((a - offset) \div 4) + 1], (a - offset) % 4, known)
                           ELSE memTable[a]],
         4 * Len(s.args), WordsWait(s, offset, known))
-----------------------------------------------------------------------------
(* asm_expand_op                                                           *)

LabelIn(s, j) == LabelAt(s, Template(FormOf(s), j))
Waiting(s, j, known) == LabelIn(s, j) # NoName /\ ~Defined(known, LabelIn(s, j))

\* The byte of a label that is not known stays as it is.
MadeAt(s, j, a, known) ==
  IF Waiting(s, j, known) THEN memTable[a] ELSE Made(s, Template(FormOf(s), j), known)

\* Seeded fault: the place that waits is counted from the highest byte of the word.
ByteWaitsUnturned(s, offset, known, l, j) ==
  IF Waiting(s, j, known)
  THEN AddUnresolved(l, LabelIn(s, j), offset + j, Template(FormOf(s), j)[3]) ELSE l

ByteWaits(s, offset, known, l, j) ==
  IF Waiting(s, j, known)
  THEN AddUnresolved(l, LabelIn(s, j), offset + Host(j), Template(FormOf(s), j)[3]) ELSE l

ExpandWaits(s, offset, known) ==
  FoldLeft(LAMBDA l, j : ByteWaits(s, offset, known, l, j),
           unknownInstList, [i \in 1 .. FormOf(s).size |-> i - 1])

(* The room that remains is an unsigned number in the code.  If .addr, or  *)
(* data, which is bounded in statements, has led past the end of the       *)
(* memory, it wraps and the code writes outside its buffer: what comes of  *)
(* that is undefined, and the assembler of the model fails.  So it does in *)
(* AssembleInst and AssembleData.                                          *)
Expand(s, offset, known) ==
  IF ~CanExpand(s) \/ MaxBytes - offset < FormOf(s).size THEN Fails
  ELSE Result([a \in Offset |-> IF a \in offset .. offset + FormOf(s).size - 1
                                THEN MadeAt(s, Host(a - offset), a, known) ELSE memTable[a]],
              FormOf(s).size, ExpandWaits(s, offset, known))
-----------------------------------------------------------------------------
(* ant_asm_assemble_inst: the operations that are one instruction.         *)

Lowest(offset) == 4 * (offset \div 4)

InstBytes(s) ==
  LET r0 == Arg0(s).reg  r1 == Arg1(s).reg  r2 == Arg2(s).reg
      B(a, k) == ByteOf(a.val, k)
  IN  CASE s.op \in ThreeReg \cup {"SRAND", "RFE"} -> <<r0, r1, r2>>
        [] s.op \in LoadStore          -> <<r0, r1, B(Arg2(s), 0)>>
        [] s.op \in {"LCL", "INFO"}    -> <<r0, B(Arg1(s), 1), B(Arg1(s), 0)>>
        [] s.op = "LCH"                -> <<r0, B(Arg1(s), 3), B(Arg1(s), 2)>>
        [] s.op = "TRAP"               -> <<B(Arg0(s), 0), B(Arg1(s), 0), B(Arg2(s), 0)>>
        [] s.op \in {"RAND", "CIN"}    -> <<r0, 0, 0>>
        [] s.op = "COUT"               -> <<0, r0, 0>>
        [] s.op \in {"TLBPI", "TLBLE", "TIMER"} -> <<r0, r1, 0>>
        [] s.op = "TLBSE"              -> <<0, r0, r1>>
        [] OTHER                       -> <<0, 0, 0>>

(* Of a label LCH takes the low half, when it knows it; when it does not,  *)
(* the opcode and the register are patched.                                *)
LchOfLabel(s, offset, known) ==
  LET label == Arg1(s).label
      Inst4(b1, b0) == PutWord(memTable, Lowest(offset), <<Code("LCH"), Arg0(s).reg, b1, b0>>)
  IN  IF Defined(known, label)
      THEN Result(Inst4(ByteOf(ValueOf(known, label), 1), ByteOf(ValueOf(known, label), 0)), 4,
                  unknownInstList)
      ELSE Result(Inst4(0, 0), 4,
                  AddUnresolved(AddUnresolved(unknownInstList, label, offset + 2, 1),
                                label, offset + 3, 0))

AssembleInst(s, offset, known) ==
  IF s.op = "NONE" THEN Result(memTable, 0, unknownInstList)
  ELSE IF s.op \in {"BYTE", "ASCII", "ASCIIZ"} THEN Fails
  ELSE IF s.op = "ALIGN" THEN Align(s, offset \div 4)
  ELSE IF s.op \in Expanded THEN Expand(s, offset, known)
  ELSE IF s.op = "WORD" THEN Words(s, offset, known)
  ELSE IF s.op = "LCL" /\ Arg1(s).type = "LABEL" THEN Fails
  ELSE IF MaxBytes - offset < 1 THEN Fails
  ELSE IF s.op = "LCH" /\ Arg1(s).type = "LABEL" THEN LchOfLabel(s, offset, known)
  ELSE Result(PutWord(memTable, Lowest(offset), <<Code(s.op)>> \o InstBytes(s)), 4, unknownInstList)

(* ant_asm_assemble_data                                                   *)
DataBytes(s) ==
  CASE s.op = "BYTE"   -> [i \in DOMAIN s.args |-> ByteOf(s.args[i].val, 0)]
    [] s.op = "ASCIIZ" -> Append(Arg0(s).string, 0)
    [] OTHER           -> Arg0(s).string

AssembleData(s, offset, known) ==
  IF s.op = "NONE" THEN Result(memTable, 0, unknownInstList)
  ELSE IF s.op \notin {"BYTE", "WORD", "ALIGN", "ASCII", "ASCIIZ"} THEN Fails
  ELSE IF MaxBytes - offset < Len(s.args) THEN Fails
  ELSE IF s.op = "WORD" THEN Words(s, offset, known)
  ELSE IF s.op = "ALIGN" THEN Align(s, offset)
  ELSE Result(PutBytes(memTable, offset, DataBytes(s)), Len(DataBytes(s)), unknownInstList)
-----------------------------------------------------------------------------
(* ant_asm_lines                                                           *)

AtLine(p) == phase = p /\ line <= Len(program)
Here      == ParseStr(program[line], constantList, names)
S         == Here.stmnt

(* Parsing is done anew, and binds constants anew.                         *)
Reads == constantList' = Here.constants /\ names' = Here.names
Fail  == phase' = "failed" /\ UNCHANGED <<line>>
Go    == line' = line + 1 /\ UNCHANGED phase

CheckLine ==
  /\ AtLine("check")
  /\ Reads
  /\ IF Here.ok /\ ArgsCheck(S) THEN Go ELSE Fail
  /\ checked' = Append(checked, S)
  /\ UNCHANGED <<program, options, knownList, unknownInstList, segment, curr_offset, inst_cnt,
                 memTable, codeHash, out, symbols, placed>>

(* A line that is only about the segment; its label is not looked at.      *)
Directive == S.op \in {"TEXT", "DATA", "DEFINE"} \/ (S.op = "ADDR" /\ phase = "text")
IsData    == ~Directive /\ S.label = Data_

SegmentNow ==
  CASE S.op = "TEXT" -> "inst"
    [] S.op = "DATA" \/ IsData -> "data"
    [] OTHER -> segment

InstCntNow == IF IsData THEN curr_offset \div 4 ELSE inst_cnt

(* A line that cannot be parsed after all.                                 *)
Unparsed ==
  /\ ~Here.ok /\ Fail
  /\ UNCHANGED <<knownList, memTable, unknownInstList, curr_offset, codeHash, placed>>

(* A line that is not assembled in this pass.                              *)
Pass == Go /\ UNCHANGED <<knownList, memTable, unknownInstList, curr_offset, codeHash, placed>>

\* Seeded fault: the label is bound to where the line ends.
BindLate(r) == curr_offset + r.used

Bind(r) == curr_offset

Labelled(value) == IF S.label = NoName THEN knownList ELSE AddSymbol(knownList, S.label, value)
LabelOK == S.label # NoName => CanAdd(knownList, S.label)

(* The label is bound to the address reached, so that the line finds it.   *)
Place(Assemble(_, _, _)) ==
  LET known == Labelled(Truncate(BaseAddress + curr_offset))
      r     == Assemble(S, curr_offset, known)
  IN  IF ~LabelOK \/ ~r.ok
      THEN Fail /\ UNCHANGED <<knownList, memTable, unknownInstList, curr_offset, placed>>
      ELSE /\ Go
           /\ knownList' = Labelled(Truncate(BaseAddress + Bind(r)))
           /\ memTable' = r.mem
           /\ unknownInstList' = r.unknown
           /\ curr_offset' = curr_offset + r.used
           /\ placed' = Append(placed, [stmnt |-> S, at |-> curr_offset, used |-> r.used,
                                        line |-> line, text |-> phase = "text"])

(* The text of an instruction is kept for the offset.                      *)
CodeLine ==
  codeHash' = IF S.op \in Instructions \cup {"WORD"} THEN Entered(codeHash, curr_offset, line)
              ELSE codeHash

TextLine ==
  /\ AtLine("text")
  /\ Reads
  /\ segment' = SegmentNow /\ inst_cnt' = InstCntNow
  /\ IF ~Here.ok THEN Unparsed
     ELSE \/ /\ S.op = "ADDR"
             /\ Go
             /\ curr_offset' = Truncate(Arg0(S).val - BaseAddress)
             /\ UNCHANGED <<knownList, memTable, unknownInstList, codeHash, placed>>
          \/ S.op # "ADDR" /\ (Directive \/ SegmentNow # "inst") /\ Pass
          \/ ~Directive /\ SegmentNow = "inst" /\ CodeLine /\ Place(AssembleInst)
  /\ UNCHANGED <<program, options, out, symbols, checked>>

DataLine ==
  /\ AtLine("data")
  /\ Reads
  /\ segment' = SegmentNow /\ inst_cnt' = InstCntNow
  /\ IF ~Here.ok THEN Unparsed
     ELSE \/ (Directive \/ SegmentNow # "data") /\ Pass
          \/ /\ ~Directive /\ SegmentNow = "data"
             /\ UNCHANGED codeHash /\ Place(AssembleData)
  /\ UNCHANGED <<program, options, out, symbols, checked>>

(* Every pass begins in the text; data is put behind it.                   *)
EndPass ==
  /\ line > Len(program)
  /\ \/ phase = "check" /\ phase' = "text"  /\ UNCHANGED inst_cnt
     \/ phase = "text"  /\ phase' = "data"  /\ inst_cnt' = curr_offset \div 4
     \/ phase = "data"  /\ phase' = "patch" /\ UNCHANGED inst_cnt
  /\ line' = IF phase = "data" THEN line ELSE 1
  /\ segment' = "inst"
  /\ UNCHANGED <<program, options, constantList, knownList, unknownInstList, names, curr_offset,
                 memTable, codeHash, out, symbols, checked, placed>>

(* ant32_backpatch                                                         *)
Patch(mem, e) == [mem EXCEPT ![e.value] = ByteOf(ValueOf(knownList, e.string), e.type)]

Patched == FoldLeft(Patch, memTable, unknownInstList)

Backpatch ==
  /\ phase = "patch"
  /\ IF \A i \in DOMAIN unknownInstList : Defined(knownList, unknownInstList[i].string)
     THEN phase' = "write" /\ memTable' = Patched
     ELSE phase' = "failed" /\ UNCHANGED memTable
  /\ UNCHANGED <<program, options, line, constantList, knownList, unknownInstList, names, segment,
                 curr_offset, inst_cnt, codeHash, out, symbols, checked, placed>>
-----------------------------------------------------------------------------
(* ant_asm_write_exec, and what main does with the ROM.                    *)

HostWord(i) == <<memTable[4 * i + 3], memTable[4 * i + 2], memTable[4 * i + 1], memTable[4 * i]>>
WordOf(val) == <<ByteOf(val, 3), ByteOf(val, 2), ByteOf(val, 1), ByteOf(val, 0)>>

CodeAt(offset) == IF offset \in DOMAIN codeHash THEN codeHash[offset] ELSE NoCode

\* Seeded fault: a word that is not full is not written.
WordsWrittenFull == curr_offset \div 4

(* Behind an offset below the base address, where only .addr leads, the    *)
(* code counts without a sign and writes on past its buffer; the model has *)
(* an empty image.                                                         *)
WordsWritten == (curr_offset + 3) \div 4

Image ==
  [i \in 1 .. WordsWritten |->
     FileLine(IF i = 1 THEN BaseAddress ELSE Plus, HostWord(i - 1), CodeAt(4 * (i - 1)))]

Boot == IF curr_offset > 0 /\ options.boot
        THEN <<FileLine(ResetPc, WordOf(BaseAddress), BootIt)>> ELSE <<>>

(* How the last line of the ROM is read decides whether the file stays.    *)
WriteExec ==
  /\ phase = "write"
  /\ IF options.oddEnd
     THEN phase' = "failed" /\ UNCHANGED <<out, symbols>>
     ELSE /\ phase' = "done"
          /\ out' = Image \o Boot \o options.words
          /\ symbols' = knownList
  /\ UNCHANGED <<program, options, line, constantList, knownList, unknownInstList, names, segment,
                 curr_offset, inst_cnt, memTable, codeHash, checked, placed>>
-----------------------------------------------------------------------------
(* aa32_parse_args, ant_asm_init, ant_load_labels.                         *)
Init ==
  /\ phase = "check"
  /\ program \in Programs
  /\ options \in Options
  /\ line = 1
  /\ constantList = <<>> /\ unknownInstList = <<>>
  /\ knownList = options.labels
  /\ names = [seen |-> {}, barked |-> FALSE]
  /\ segment = "inst"
  /\ curr_offset = 0
  /\ inst_cnt = 0
  /\ memTable = [a \in Offset |-> 0]
  /\ codeHash = <<>>
  /\ out = <<>> /\ symbols = <<>>
  /\ checked = <<>> /\ placed = <<>>

Next == CheckLine \/ TextLine \/ DataLine \/ EndPass \/ Backpatch \/ WriteExec

Spec == Init /\ [][Next]_vars
=============================================================================
