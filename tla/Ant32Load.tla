------------------------------- MODULE Ant32Load -------------------------------
(***************************************************************************)
(* Loading what the assembler wrote into an Ant-32 (Lib32/ant32_load.c):   *)
(* the words go to memory, their lines of source to the table the debugger *)
(* shows them from (ant32_code.c), the symbols to a list.  A word without  *)
(* source is taken for one more of the operation before it.                *)
(***************************************************************************)
EXTENDS Ant32Asm

CONSTANT Physical     \* the word addresses that are mapped for the supervisor

ASSUME LoadAssumption == Physical \subseteq Word

VARIABLES
  loaded,       \* the file has been loaded
  pmem,         \* the words stored
  codeLines,    \* the source of an address
  labels        \* the symbols

loadVars == <<loaded, pmem, codeLines, labels>>

CodeLine32(code, lcode) == [code |-> code, lcode |-> lcode]

(* One line of the file.  There is no mapping for some addresses: this is  *)
(* complained of, and the line is passed over.                             *)
Stored(m, addr, word) == IF addr \in Physical THEN Entered(m, addr, word) ELSE m

LineOf(prev, code) ==
  IF code = NoCode THEN CodeLine32(prev, "SYNTHETIC") ELSE CodeLine32(code, "LITERAL")

GoesOn(addr) == Truncate(addr + 4)

LoadLine(st, l, save) ==
  LET addr == IF l.addr = Plus THEN st.next ELSE l.addr
      text == LineOf(st.prev, l.code)
  IN  [pmem  |-> Stored(st.pmem, addr, l.word),
       codes |-> IF save THEN Entered(st.codes, addr, text) ELSE st.codes,
       prev  |-> IF save THEN text.code ELSE st.prev,
       next  |-> GoesOn(addr)]

(* ant_pmem_clear, ant32_code_init, and the lines in order.                *)
LoadText(file, save) ==
  FoldLeft(LAMBDA st, l : LoadLine(st, l, save),
           [pmem |-> <<>>, codes |-> <<>>, prev |-> NoCode, next |-> MinInt], file)

(* ant_load_labels: the last one written comes first.                      *)
LoadLabels(list) == FoldLeft(LAMBDA l, sym : AddSymbol(l, sym.string, sym.value), <<>>, list)

Load ==
  /\ phase = "done"
  /\ \E save \in BOOLEAN :
       /\ pmem' = LoadText(out, save).pmem
       /\ codeLines' = LoadText(out, save).codes
  /\ labels' = LoadLabels(symbols)
  /\ loaded' = TRUE
  /\ UNCHANGED vars

BuildInit == Init /\ loaded = FALSE /\ pmem = <<>> /\ codeLines = <<>> /\ labels = <<>>

Assemble == Next /\ UNCHANGED loadVars

BuildNext == Assemble \/ Load

Build == BuildInit /\ [][BuildNext]_<<vars, loadVars>>
=============================================================================
