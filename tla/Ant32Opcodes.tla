----------------------------- MODULE Ant32Opcodes -----------------------------
(***************************************************************************)
(* The operations of the Ant-32 assembler (ant32_external.h, the table of  *)
(* aa32.c): those of the machine with their opcodes, those it makes up.    *)
(***************************************************************************)
EXTENDS Integers, TLC, Functions

(* The groups, in the order of their opcodes from the prefix on.            *)
(* A dash is an opcode that is not used.                                  *)
Group(prefix, ops) == [op \in Range(ops) \ {"-"} |-> prefix + (CHOOSE i \in DOMAIN ops : ops[i] = op) - 1]

Groups ==
  {Group(128, <<"ADD", "SUB", "MUL", "DIV", "MOD", "OR", "NOR", "XOR", "AND", "-", "-", "-",
                "SHR", "SHRU", "SHL">>),
   Group(144, <<"ADDI", "SUBI", "MULI", "DIVI", "MODI", "-", "-", "-", "-", "-", "-", "-",
                "SHRI", "SHRUI", "SHLI">>),
   Group(160, <<"ADDO", "SUBO", "MULO">>),
   Group(176, <<"ADDIO", "SUBIO", "MULIO">>),
   Group(192, <<"-", "GTS", "EQ", "GES", "-", "GTU", "-", "GEU">>),
   Group(208, <<"BEZ", "JEZ", "BNZ", "JNZ", "BEZI", "-", "BNZI">>),
   Group(224, <<"LD1", "-", "LD4", "-", "ST1", "-", "ST4", "-", "-", "-", "EX4">>),
   Group(240, <<"LCL", "LCH">>),
   Group(16, <<"TRAP", "INFO">>),
   Group(32, <<"RAND", "-", "-", "-", "CIN", "COUT">>),
   Group(96, <<"-", "SRAND">>),
   Group(64, <<"TLBPI", "TLBLE", "TLBSE", "-", "LEH", "RFE", "-", "-", "STI", "CLI", "STE",
                "CLE", "-", "TIMER", "IDLE", "HALT">>)}

Native ==
  [op \in UNION {DOMAIN g : g \in Groups} |->
     LET g == CHOOSE g \in Groups : op \in DOMAIN g IN g[op]]

Code(op) == Native[op]

Opcode(code) == CHOOSE op \in DOMAIN Native : Native[op] = code
IsOpcode(code) == code \in Range(Native)

(* Pseudo-operations, which only the assembler knows.                      *)
Pseudo ==
  {"LTS", "LES", "LTU", "LEU", "B", "J", "JEZI", "JNZI", "LC", "MOV", "PUSH", "POP", "CALL",
   "RETURN", "ENTRY", "ORI", "NORI", "XORI", "ANDI"}

Instructions == DOMAIN Native \cup Pseudo

(* By what they take.                                                      *)
ThreeReg  == {"ADD", "SUB", "MUL", "DIV", "MOD", "OR", "NOR", "XOR", "AND", "SHR", "SHRU", "SHL",
              "ADDO", "SUBO", "MULO", "EQ", "GTS", "GES", "GTU", "GEU",
              "BEZ", "JEZ", "BNZ", "JNZ"}
LoadStore == {"LD1", "LD4", "ST1", "ST4", "EX4"}
Expanded  == {"ORI", "NORI", "XORI", "ANDI", "ADDI", "SUBI", "MULI", "DIVI", "MODI",
              "SHRI", "SHRUI", "SHLI", "ADDIO", "SUBIO", "MULIO", "BEZI", "BNZI", "LEH"} \cup Pseudo
Flags     == {"HALT", "IDLE", "STI", "CLI", "STE", "CLE"}
=============================================================================
