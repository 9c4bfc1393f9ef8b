-------------------------- MODULE Ant32ExpandProofs --------------------------
(***************************************************************************)
(* Proofs about the operations the Ant-32 assembler makes of several       *)
(* instructions, for every value of the registers and every operand: what  *)
(* is in memory in the end, when it runs, does what the operation is for.  *)
(* First the machine, an instruction at a time; then each form of the      *)
(* table, by its instructions; then that the form chosen is a right one;   *)
(* and in the end that the form is what is in memory.                      *)
(***************************************************************************)
EXTENDS Ant32AsmProofs

(***************************************************************************)
(* The opcodes: the machine takes the first byte of an instruction for the *)
(* operation it was made of.                                               *)
(***************************************************************************)

(* The operations of a group of opcodes.                                   *)
OpsFrom ==
  [p \in {128, 144, 160, 176, 192, 208, 224, 240, 16, 32, 96, 64} |->
     CASE p = 128 -> <<"ADD", "SUB", "MUL", "DIV", "MOD", "OR", "NOR", "XOR", "AND", "-", "-", "-",
                       "SHR", "SHRU", "SHL">>
       [] p = 144 -> <<"ADDI", "SUBI", "MULI", "DIVI", "MODI", "-", "-", "-", "-", "-", "-", "-",
                       "SHRI", "SHRUI", "SHLI">>
       [] p = 160 -> <<"ADDO", "SUBO", "MULO">>
       [] p = 176 -> <<"ADDIO", "SUBIO", "MULIO">>
       [] p = 192 -> <<"-", "GTS", "EQ", "GES", "-", "GTU", "-", "GEU">>
       [] p = 208 -> <<"BEZ", "JEZ", "BNZ", "JNZ", "BEZI", "-", "BNZI">>
       [] p = 224 -> <<"LD1", "-", "LD4", "-", "ST1", "-", "ST4", "-", "-", "-", "EX4">>
       [] p = 240 -> <<"LCL", "LCH">>
       [] p = 16  -> <<"TRAP", "INFO">>
       [] p = 32  -> <<"RAND", "-", "-", "-", "CIN", "COUT">>
       [] p = 96  -> <<"-", "SRAND">>
       [] p = 64  -> <<"TLBPI", "TLBLE", "TLBSE", "-", "LEH", "RFE", "-", "-", "STI", "CLI", "STE",
                       "CLE", "-", "TIMER", "IDLE", "HALT">>]

(* The opcodes come in these groups.                                       *)
LEMMA GroupsAre ==
  /\ \A g \in Groups : \E p \in DOMAIN OpsFrom : g = Group(p, OpsFrom[p])
  /\ \A p \in DOMAIN OpsFrom : Group(p, OpsFrom[p]) \in Groups
  <1>1. DOMAIN OpsFrom = {128, 144, 160, 176, 192, 208, 224, 240, 16, 32, 96, 64}
    BY DEF OpsFrom
  <1>2. Groups = {Group(128, OpsFrom[128]), Group(144, OpsFrom[144]), Group(160, OpsFrom[160]),
                  Group(176, OpsFrom[176]), Group(192, OpsFrom[192]), Group(208, OpsFrom[208]),
                  Group(224, OpsFrom[224]), Group(240, OpsFrom[240]), Group(16, OpsFrom[16]),
                  Group(32, OpsFrom[32]), Group(96, OpsFrom[96]), Group(64, OpsFrom[64])}
    BY DEF Groups, OpsFrom
  <1> QED
    BY <1>1, <1>2

(* A group has sixteen opcodes at most, from a multiple of sixteen on.     *)
LEMMA OpsFromShort ==
  \A p \in DOMAIN OpsFrom :
    /\ p \in Int /\ p % 16 = 0
    /\ DOMAIN OpsFrom[p] \subseteq 1 .. 16
  BY DEF OpsFrom

Listed(op, p, i) == p \in DOMAIN OpsFrom /\ i \in DOMAIN OpsFrom[p] /\ OpsFrom[p][i] = op

(* An opcode is where its group has the operation.                         *)
LEMMA CodeListed ==
  ASSUME NEW op \in DOMAIN Native
  PROVE  \E p, i : Listed(op, p, i) /\ Code(op) = p + i - 1
  <1> DEFINE h == CHOOSE g \in Groups : op \in DOMAIN g
  <1>1. \E g \in Groups : op \in DOMAIN g
    BY DEF Native
  <1>2. h \in Groups /\ op \in DOMAIN h /\ Code(op) = h[op]
    BY <1>1 DEF Native, Code
  <1> HIDE DEF h
  <1>3. PICK p \in DOMAIN OpsFrom : h = Group(p, OpsFrom[p])
    BY <1>2, GroupsAre
  <1> DEFINE ops == OpsFrom[p]
             i   == CHOOSE k \in DOMAIN ops : ops[k] = op
  <1>4. op \in Range(ops) \ {"-"} /\ h[op] = p + i - 1
    BY <1>2, <1>3 DEF Group
  <1>5. i \in DOMAIN ops /\ ops[i] = op
    BY <1>4 DEF Range
  <1> HIDE DEF i
  <1> QED
    BY <1>2, <1>4, <1>5 DEF Listed

(* No two operations have the same opcode.                                 *)
LEMMA OpcodeOfCode ==
  ASSUME NEW op \in DOMAIN Native
  PROVE  Opcode(Code(op)) = op
  <1>1. ASSUME NEW a \in DOMAIN Native, NEW b \in DOMAIN Native, Code(a) = Code(b) PROVE a = b
    <2>1. PICK p, i : Listed(a, p, i) /\ Code(a) = p + i - 1
      BY CodeListed
    <2>2. PICK q, j : Listed(b, q, j) /\ Code(b) = q + j - 1
      BY CodeListed
    <2>3. /\ p \in Int /\ q \in Int /\ p % 16 = 0 /\ q % 16 = 0
          /\ i \in 1 .. 16 /\ j \in 1 .. 16
      BY <2>1, <2>2, OpsFromShort DEF Listed
    <2>4. p + i - 1 = q + j - 1
      BY <1>1, <2>1, <2>2
    <2>5. p = q /\ i = j
      BY <2>3, <2>4
    <2> QED
      BY <2>1, <2>2, <2>5 DEF Listed
  <1>2. Native[op] = Code(op) /\ \A o \in DOMAIN Native : Native[o] = Code(o)
    BY DEF Code
  <1> QED
    BY <1>1, <1>2 DEF Opcode

(* What a group has is an operation of the machine.                        *)
LEMMA ListedNative ==
  ASSUME NEW op, NEW p, NEW i, Listed(op, p, i), op # "-"
  PROVE  op \in DOMAIN Native
  <1>1. op \in DOMAIN Group(p, OpsFrom[p])
    BY DEF Listed, Group, Range
  <1> QED
    BY <1>1, GroupsAre DEF Native, Listed

(* The operations the expansions are made of.                              *)
Used ==
  {"LCL", "LCH", "LD4", "ST4", "LEH", "JEZ", "JNZ", "BEZ", "BEZI", "BNZI",
   "ADD", "SUB", "MUL", "DIV", "MOD", "OR", "NOR", "XOR", "AND", "SHR", "SHRU", "SHL",
   "ADDO", "SUBO", "MULO", "GTS", "GES", "GTU", "GEU",
   "ADDI", "SUBI", "MULI", "DIVI", "MODI", "SHRI", "SHRUI", "SHLI", "ADDIO", "SUBIO", "MULIO"}

(* The machine has what the expansions are made of, and reads it as it was *)
(* written.                                                                *)
LEMMA UsedNative == \A op \in Used : op \in DOMAIN Native
  <1>2. /\ Listed("ADD", 128, 1) /\ Listed("SUB", 128, 2) /\ Listed("MUL", 128, 3)
        /\ Listed("DIV", 128, 4) /\ Listed("MOD", 128, 5) /\ Listed("OR", 128, 6)
        /\ Listed("NOR", 128, 7) /\ Listed("XOR", 128, 8) /\ Listed("AND", 128, 9)
        /\ Listed("SHR", 128, 13) /\ Listed("SHRU", 128, 14) /\ Listed("SHL", 128, 15)
    BY DEF Listed, OpsFrom
  <1>3. /\ Listed("ADDI", 144, 1) /\ Listed("SUBI", 144, 2) /\ Listed("MULI", 144, 3)
        /\ Listed("DIVI", 144, 4) /\ Listed("MODI", 144, 5)
        /\ Listed("SHRI", 144, 13) /\ Listed("SHRUI", 144, 14) /\ Listed("SHLI", 144, 15)
    BY DEF Listed, OpsFrom
  <1>4. /\ Listed("ADDO", 160, 1) /\ Listed("SUBO", 160, 2) /\ Listed("MULO", 160, 3)
        /\ Listed("ADDIO", 176, 1) /\ Listed("SUBIO", 176, 2) /\ Listed("MULIO", 176, 3)
        /\ Listed("GTS", 192, 2) /\ Listed("GES", 192, 4) /\ Listed("GTU", 192, 6) /\ Listed("GEU", 192, 8)
    BY DEF Listed, OpsFrom
  <1>5. /\ Listed("BEZ", 208, 1) /\ Listed("JEZ", 208, 2) /\ Listed("JNZ", 208, 4)
        /\ Listed("BEZI", 208, 5) /\ Listed("BNZI", 208, 7)
        /\ Listed("LD4", 224, 3) /\ Listed("ST4", 224, 7) /\ Listed("LCL", 240, 1) /\ Listed("LCH", 240, 2)
        /\ Listed("LEH", 64, 5)
    BY DEF Listed, OpsFrom
  <1> DEFINE Has(op) == \E p, i : Listed(op, p, i)
  <1>6. /\ Has("ADD") /\ Has("SUB") /\ Has("MUL") /\ Has("DIV") /\ Has("MOD") /\ Has("OR")
        /\ Has("NOR") /\ Has("XOR") /\ Has("AND") /\ Has("SHR") /\ Has("SHRU") /\ Has("SHL")
    BY <1>2
  <1>7. /\ Has("ADDI") /\ Has("SUBI") /\ Has("MULI") /\ Has("DIVI") /\ Has("MODI")
        /\ Has("SHRI") /\ Has("SHRUI") /\ Has("SHLI")
    BY <1>3
  <1>8. /\ Has("ADDO") /\ Has("SUBO") /\ Has("MULO") /\ Has("ADDIO") /\ Has("SUBIO") /\ Has("MULIO")
        /\ Has("GTS") /\ Has("GES") /\ Has("GTU") /\ Has("GEU")
    BY <1>4
  <1>9. /\ Has("BEZ") /\ Has("JEZ") /\ Has("JNZ") /\ Has("BEZI") /\ Has("BNZI")
        /\ Has("LD4") /\ Has("ST4") /\ Has("LCL") /\ Has("LCH") /\ Has("LEH")
    BY <1>5
  <1>10. \A op : Has(op) /\ op # "-" => op \in DOMAIN Native
    BY ListedNative
  <1> HIDE DEF Has
  <1>11. \A op \in Used : Has(op) /\ op # "-"
    BY <1>6, <1>7, <1>8, <1>9 DEF Used
  <1> QED
    BY <1>10, <1>11

LEMMA UsedOpcodes == \A op \in Used : Opcode(Code(op)) = op
  BY UsedNative, OpcodeOfCode

(* What is expanded is an instruction to the assembler.                    *)
LEMMA ExpandedInsts == \A op \in Expanded : op \in Instructions
  <1>1. \A op \in Expanded : op \in Used \/ op \in Pseudo
    BY DEF Used, Expanded, Pseudo
  <1> QED
    BY <1>1, UsedNative DEF Instructions
-----------------------------------------------------------------------------
(***************************************************************************)
(* What one instruction does to the machine.                               *)
(***************************************************************************)

(* What memory holds, and memory with a word more.                         *)
Fetch(mem, addr)    == Read(Machine(<<>>, mem, 0, 0), addr)
Store(mem, addr, v) == Write(Machine(<<>>, mem, 0, 0), addr, v).mem

PutAlu(reg, op, des, a, b) ==
  LET low == Put(reg, des, Alu(op, a, b))
  IN  IF op \in Wide THEN Put(low, des + 1, High(op, a, b)) ELSE low

(* The parts of a machine, and what changes one of them.                   *)
LEMMA MachineParts ==
  ASSUME NEW R, NEW M, NEW P, NEW H
  PROVE  LET m == Machine(R, M, P, H) IN
         /\ m.reg = R /\ m.mem = M /\ m.pc = P /\ m.eh = H
         /\ \A p : [m EXCEPT !.pc = p] = Machine(R, M, p, H)
         /\ \A h : [m EXCEPT !.eh = h] = Machine(R, M, P, h)
         /\ \A r, v : SetReg(m, r, v) = Machine(Put(R, r, v), M, P, H)
         /\ \A op, des, a, b : SetAlu(m, op, des, a, b) = Machine(PutAlu(R, op, des, a, b), M, P, H)
         /\ \A addr : Read(m, addr) = Fetch(M, addr)
         /\ \A addr, v : Write(m, addr, v) = Machine(R, Store(M, addr, v), P, H)
  <1> DEFINE m == Machine(R, M, P, H)
  <1>1. m.reg = R /\ m.mem = M /\ m.pc = P /\ m.eh = H
    BY DEF Machine
  <1>2. \A p : [m EXCEPT !.pc = p] = Machine(R, M, p, H)
    BY DEF Machine
  <1>3. \A h : [m EXCEPT !.eh = h] = Machine(R, M, P, h)
    BY DEF Machine
  <1>4. \A r, v : SetReg(m, r, v) = Machine(Put(R, r, v), M, P, H)
    BY DEF Machine, SetReg
  <1>5. \A A, r, v : SetReg(Machine(A, M, P, H), r, v) = Machine(Put(A, r, v), M, P, H)
    BY DEF Machine, SetReg
  <1>6. \A op, des, a, b : SetAlu(m, op, des, a, b) = Machine(PutAlu(R, op, des, a, b), M, P, H)
    BY <1>5 DEF SetAlu, PutAlu
  <1>7. \A addr : Read(m, addr) = Fetch(M, addr)
    BY DEF Read, Fetch, Machine
  <1>8. \A addr, v : Write(m, addr, v) = Machine(R, Store(M, addr, v), P, H)
    BY DEF Write, Store, Machine
  <1> QED
    BY <1>1, <1>2, <1>3, <1>4, <1>6, <1>7, <1>8

(* What a register or a branch is given.                                   *)
c8Of(b)  == Signed(b[4], ByteSize)
c16Of(b) == b[3] * ByteSize + b[4]

(* Loading constants, loading and storing words, and the exception         *)
(* handler.                                                                *)
LEMMA Executed ==
  ASSUME NEW R, NEW M, NEW P, NEW H, NEW b
  PROVE  LET m == Machine(R, M, P, H)
             x == Execute(m, b)
             op == Opcode(b[1])
             n == Truncate(P + 4)
         IN  /\ op = "LCL" => x = Machine(Put(R, b[2], Signed(c16Of(b), HwordSize)), M, n, H)
             /\ op = "LCH" => x = Machine(Put(R, b[2], Truncate(Lower(R[b[2]], HwordSize) + HwordSize * c16Of(b))), M, n, H)
             /\ op = "LD4" => x = Machine(Put(R, b[2], Fetch(M, Truncate(R[b[3]] + c8Of(b)))), M, n, H)
             /\ op = "ST4" => x = Machine(R, Store(M, Truncate(R[b[3]] + c8Of(b)), R[b[2]]), n, H)
             /\ op = "LEH" => x = Machine(R, M, n, R[b[3]])
  <1> DEFINE m == Machine(R, M, P, H)
             n == Truncate(P + 4)
             k == [m EXCEPT !.pc = Truncate(@ + 4)]
             op == Opcode(b[1])
             x == Execute(m, b)
  <1>1. k = Machine(R, M, n, H)
    BY MachineParts
  <1>2. m.reg = R /\ m.mem = M /\ m.pc = P
    BY MachineParts
  <1>3. \A A, N, p, addr : Read(Machine(A, N, p, H), addr) = Fetch(N, addr)
    BY MachineParts
  <1>4. op = "LCL" => x = SetReg(k, b[2], Signed(c16Of(b), HwordSize))
    BY DEF Execute, c16Of
  <1>5. op = "LCH" => x = SetReg(k, b[2], Truncate(Lower(R[b[2]], HwordSize) + HwordSize * c16Of(b)))
    BY <1>2 DEF Execute, c16Of
  <1>6. op = "LD4" => x = SetReg(k, b[2], Read(m, Truncate(R[b[3]] + c8Of(b))))
    BY <1>2 DEF Execute, c8Of
  <1>7. op = "ST4" => x = Write(k, Truncate(R[b[3]] + c8Of(b)), R[b[2]])
    BY <1>2 DEF Execute, c8Of
  <1>8. op = "LEH" => x = Machine(R, M, n, R[b[3]])
    <2> DEFINE h == R[b[3]]
    <2>1. op = "LEH" => x = [k EXCEPT !.eh = h]
      BY <1>2 DEF Execute
    <2> HIDE DEF h, k, x, op, n, m
    <2>2. [Machine(R, M, n, H) EXCEPT !.eh = h] = Machine(R, M, n, h)
      BY MachineParts
    <2>3. [k EXCEPT !.eh = h] = Machine(R, M, n, h)
      BY <1>1, <2>2, Zenon
    <2> QED
      BY <2>1, <2>3, Zenon DEF h
  <1> HIDE DEF k, x, m, n, op
  <1>9. /\ \A r, v : SetReg(k, r, v) = Machine(Put(R, r, v), M, n, H)
        /\ \A addr, v : Write(k, addr, v) = Machine(R, Store(M, addr, v), n, H)
        /\ \A addr : Read(m, addr) = Fetch(M, addr)
    BY <1>1, MachineParts DEF m
  <1> QED
    BY <1>4, <1>5, <1>6, <1>7, <1>8, <1>9 DEF k, x, m, n, op

(* Jumps and branches.                                                     *)
LEMMA Branched ==
  ASSUME NEW R, NEW M, NEW P, NEW H, NEW b
  PROVE  LET m == Machine(R, M, P, H)
             x == Execute(m, b)
             op == Opcode(b[1])
             n == Truncate(P + 4)
             By == Truncate(P + 4 * Signed(c16Of(b), HwordSize))
         IN  /\ op = "JEZ"  => x = Machine(Put(R, b[2], P), M, IF R[b[3]] = 0 THEN R[b[4]] ELSE n, H)
             /\ op = "JNZ"  => x = Machine(Put(R, b[2], P), M, IF R[b[3]] # 0 THEN R[b[4]] ELSE n, H)
             /\ op = "BEZ"  => x = Machine(Put(R, b[2], P), M,
                                           IF R[b[3]] = 0 THEN Truncate(P + R[b[4]]) ELSE n, H)
             /\ op = "BEZI" => x = Machine(R, M, IF R[b[2]] = 0 THEN By ELSE n, H)
             /\ op = "BNZI" => x = Machine(R, M, IF R[b[2]] # 0 THEN By ELSE n, H)
  <1> DEFINE m == Machine(R, M, P, H)
             n == Truncate(P + 4)
             k == [m EXCEPT !.pc = Truncate(@ + 4)]
             op == Opcode(b[1])
             x == Execute(m, b)
             To(taken, target) == [SetReg(k, b[2], P) EXCEPT !.pc = IF taken THEN target ELSE @]
             By == Truncate(P + 4 * Signed(c16Of(b), HwordSize))
             Near(taken) == [k EXCEPT !.pc = IF taken THEN By ELSE @]
  <1>1. k = Machine(R, M, n, H)
    BY MachineParts
  <1>2. m.reg = R /\ m.pc = P
    BY MachineParts
  <1> HIDE DEF n, By
  <1>3. \A taken, target : To(taken, target) = Machine(Put(R, b[2], P), M, IF taken THEN target ELSE n, H)
    <2>1. SetReg(k, b[2], P) = Machine(Put(R, b[2], P), M, n, H)
      BY <1>1, MachineParts
    <2>2. Machine(Put(R, b[2], P), M, n, H).pc = n
      BY MachineParts
    <2>3. \A taken, target :
             To(taken, target) = [Machine(Put(R, b[2], P), M, n, H) EXCEPT !.pc = IF taken THEN target ELSE n]
      BY <2>1, <2>2
    <2> HIDE DEF To
    <2>4. \A p : [Machine(Put(R, b[2], P), M, n, H) EXCEPT !.pc = p] = Machine(Put(R, b[2], P), M, p, H)
      BY MachineParts
    <2> QED
      BY <2>3, <2>4
  <1>4. \A taken : Near(taken) = Machine(R, M, IF taken THEN By ELSE n, H)
    <2>0. Machine(R, M, n, H).pc = n
      BY MachineParts
    <2>1. \A taken : Near(taken) = [Machine(R, M, n, H) EXCEPT !.pc = IF taken THEN By ELSE n]
      BY <1>1, <2>0
    <2> HIDE DEF Near
    <2>2. \A p : [Machine(R, M, n, H) EXCEPT !.pc = p] = Machine(R, M, p, H)
      BY MachineParts
    <2> QED
      BY <2>1, <2>2
  <1>5. op = "JEZ" => x = To(R[b[3]] = 0, R[b[4]])
    BY <1>2 DEF Execute, n
  <1>6. op = "JNZ" => x = To(R[b[3]] # 0, R[b[4]])
    BY <1>2 DEF Execute
  <1>7. op = "BEZ" => x = To(R[b[3]] = 0, Truncate(P + R[b[4]]))
    BY <1>2 DEF Execute
  <1>8. op = "BEZI" => x = Near(R[b[2]] = 0)
    BY <1>2 DEF Execute, c16Of, By
  <1>9. op = "BNZI" => x = Near(R[b[2]] # 0)
    BY <1>2 DEF Execute, c16Of, By
  <1> HIDE DEF m, k, x, op, To, Near
  <1> QED
    BY <1>3, <1>4, <1>5, <1>6, <1>7, <1>8, <1>9 DEF m, x, op, n, By

Immediate == {"ADDI", "SUBI", "MULI", "DIVI", "MODI", "SHRI", "SHRUI", "SHLI", "ADDIO", "SUBIO", "MULIO"}
ThreeRegister ==
  {"ADD", "SUB", "MUL", "DIV", "MOD", "OR", "NOR", "XOR", "AND", "SHR", "SHRU", "SHL",
   "ADDO", "SUBO", "MULO", "GTS", "GES", "GTU", "GEU"}

(* Arithmetic on registers, and on a register and a signed byte.           *)
LEMMA Computed ==
  ASSUME NEW R, NEW M, NEW P, NEW H, NEW b
  PROVE  LET m == Machine(R, M, P, H)
             x == Execute(m, b)
             op == Opcode(b[1])
             n == Truncate(P + 4)
         IN  /\ op \in Immediate => x = Machine(PutAlu(R, BaseOp[op], b[2], R[b[3]], c8Of(b)), M, n, H)
             /\ op \in ThreeRegister => x = Machine(PutAlu(R, op, b[2], R[b[3]], R[b[4]]), M, n, H)
  <1> DEFINE m == Machine(R, M, P, H)
             n == Truncate(P + 4)
             k == [m EXCEPT !.pc = Truncate(@ + 4)]
             op == Opcode(b[1])
             x == Execute(m, b)
  <1>1. k = Machine(R, M, n, H)
    BY MachineParts
  <1>2. m.reg = R /\ m.pc = P
    BY MachineParts
  <1>3. op \in Immediate => x = SetAlu(k, BaseOp[op], b[2], R[b[3]], c8Of(b))
    BY <1>2 DEF Execute, Immediate, c8Of
  <1>4. op \in ThreeRegister => x = SetAlu(k, op, b[2], R[b[3]], R[b[4]])
    BY <1>2 DEF Execute, ThreeRegister
  <1>5. \A o, des, u, v : SetAlu(k, o, des, u, v) = Machine(PutAlu(R, o, des, u, v), M, n, H)
    BY <1>1, MachineParts
  <1> HIDE DEF k, x, m, n, op
  <1> QED
    BY <1>3, <1>4, <1>5 DEF k, x, m, n, op
-----------------------------------------------------------------------------
(***************************************************************************)
(* Numbers: a constant cut into bytes is put together again by the         *)
(* instructions that take it apart.                                        *)
(***************************************************************************)

(* There is one way to divide.                                             *)
LEMMA Division ==
  ASSUME NEW m \in Nat, m > 0, NEW x \in Int, NEW q \in Int, NEW r \in 0 .. m - 1, x = m * q + r
  PROVE  x \div m = q /\ x % m = r
  <1> DEFINE d == x \div m
             u == x % m
  <1>1. d \in Int /\ u \in 0 .. m - 1 /\ x = m * d + u
    OBVIOUS
  <1> HIDE DEF d, u
  <1>2. m * (d - q) = m * d - m * q /\ d - q \in Int /\ m * d \in Int /\ m * q \in Int
    BY <1>1
  <1>3. d - q >= 1 => m * (d - q) >= m
    BY <1>2
  <1>4. d - q <= -1 => m * (d - q) <= -m
    BY <1>2
  <1>5. m * d - m * q = r - u /\ r - u < m /\ u - r < m
    BY <1>1, <1>2
  <1>6. d - q = 0
    <2> DEFINE k == d - q
               p == m * k
    <2>1. k \in Int /\ p \in Int /\ p < m /\ -m < p
      BY <1>1, <1>2, <1>5
    <2>2. (k >= 1 => p >= m) /\ (k <= -1 => p <= -m)
      BY <1>3, <1>4
    <2> HIDE DEF k, p
    <2>3. k = 0
      BY <2>1, <2>2
    <2> QED
      BY <2>3 DEF k
  <1>7. d = q
    BY <1>1, <1>6
  <1> QED
    BY <1>1, <1>5, <1>7 DEF d, u

(* Dividing in two steps.                                                  *)
LEMMA TwoDigits ==
  ASSUME NEW a \in Nat, NEW b \in Nat, a > 0, b > 0, NEW x \in Int
  PROVE  /\ x \div (a * b) = (x \div a) \div b
         /\ x % (a * b) = ((x \div a) % b) * a + (x % a)
         /\ ((x \div a) % b) * a + (x % a) \in Int
  <1> DEFINE d == x \div a
             u == x % a
             e == d \div b
             w == d % b
  <1>1. d \in Int /\ u \in 0 .. a - 1 /\ x = a * d + u
    OBVIOUS
  <1> HIDE DEF d, u
  <1>2. e \in Int /\ w \in 0 .. b - 1 /\ d = b * e + w
    BY <1>1
  <1> HIDE DEF e, w
  <1>3. a * d = a * (b * e) + a * w
    BY <1>1, <1>2
  <1>4. a * (b * e) = (a * b) * e /\ a * w = w * a
    BY <1>1, <1>2
  <1>5. w * a >= 0 /\ w * a <= (b - 1) * a
    BY <1>2
  <1>6. (b - 1) * a = a * b - a
    OBVIOUS
  <1>7. w * a + u \in 0 .. a * b - 1
    BY <1>1, <1>2, <1>5, <1>6
  <1>8. x = (a * b) * e + (w * a + u)
    BY <1>1, <1>2, <1>3, <1>4
  <1>9. a * b \in Nat /\ a * b > 0
    OBVIOUS
  <1>10. x \div (a * b) = e /\ x % (a * b) = w * a + u
    BY <1>2, <1>7, <1>8, <1>9, Division
  <1> QED
    BY <1>7, <1>10 DEF e, w, d, u

(* A word is two half words, a half word two bytes, and 8 is a signed      *)
(* byte.                                                                   *)
LEMMA Sizes ==
  /\ ByteSize \in Nat /\ ByteSize > 16 /\ ByteSize % 2 = 0
  /\ HwordSize = ByteSize * ByteSize /\ HwordSize \in Nat /\ HwordSize > 16 /\ HwordSize % 2 = 0
  /\ WordSize = HwordSize * HwordSize /\ WordSize \in Nat /\ WordSize > 16
  /\ HwordSize < WordSize \div 2 /\ ByteSize < WordSize \div 2
  <1>1. ByteSize \in Nat /\ ByteSize > 16 /\ ByteSize % 2 = 0
    BY ByteAssumption, PropsAssumption
  <1>2. PICK h \in Nat : ByteSize = 2 * h /\ h > 8
    <2>1. ByteSize = 2 * (ByteSize \div 2) /\ ByteSize \div 2 \in Nat /\ ByteSize \div 2 > 8
      BY <1>1
    <2> QED
      BY <2>1
  <1>3. HwordSize = ByteSize * ByteSize /\ HwordSize \in Nat /\ HwordSize = 2 * (h * ByteSize) /\ h * ByteSize \in Nat
    BY <1>1, <1>2 DEF HwordSize
  <1>4. h * ByteSize >= 8 * ByteSize
    BY <1>1, <1>2
  <1>5. HwordSize > ByteSize /\ HwordSize > 16 /\ HwordSize % 2 = 0
    BY <1>1, <1>3, <1>4
  <1> DEFINE k == h * ByteSize
  <1>6. k \in Nat /\ k > 16 /\ HwordSize = 2 * k
    BY <1>1, <1>3, <1>4
  <1> HIDE DEF k
  <1>7. WordSize = HwordSize * HwordSize /\ WordSize = 2 * (k * HwordSize) /\ k * HwordSize \in Nat
    BY <1>3, <1>6 DEF WordSize
  <1>8. k * HwordSize >= 2 * HwordSize
    BY <1>3, <1>6
  <1>9. WordSize \div 2 = k * HwordSize
    BY <1>7
  <1> QED
    BY <1>1, <1>3, <1>5, <1>7, <1>8, <1>9

(* A number that fits in a field is what its low part stands for.          *)
LEMMA FieldSigned ==
  ASSUME NEW n \in Nat, n > 0, n % 2 = 0, NEW v \in Int, Fits(v, n)
  PROVE  Signed(v % n, n) = v
  <1>1. n = 2 * (n \div 2) /\ n \div 2 \in Nat
    OBVIOUS
  <1> DEFINE h == n \div 2
  <1>2. v >= -h /\ v <= h - 1
    BY <1>1 DEF Fits
  <1> HIDE DEF h
  <1>3. h \in Nat /\ n = 2 * h
    BY <1>1 DEF h
  <1>4. CASE v >= 0
    <2>1. v = n * 0 + v /\ v \in 0 .. n - 1
      BY <1>2, <1>3, <1>4
    <2>2. v % n = v
      BY <2>1, Division
    <2> QED
      BY <1>2, <1>3, <1>4, <2>2 DEF Signed, h
  <1>5. CASE v < 0
    <2>1. v = n * (-1) + (v + n) /\ v + n \in 0 .. n - 1
      BY <1>2, <1>3, <1>5
    <2>2. v % n = v + n
      BY <2>1, Division
    <2>3. v + n = n * 0 + (v + n)
      BY <1>2
    <2>4. (v + n) % n = v + n
      BY <2>1, <2>3, Division
    <2> QED
      BY <1>2, <1>3, <1>5, <2>2, <2>4 DEF Signed, h
  <1> QED
    BY <1>4, <1>5

(* The low part of what is signed.                                         *)
LEMMA SignedLow ==
  ASSUME NEW n \in Nat, n > 0, NEW x \in Int
  PROVE  Signed(x, n) % n = x % n /\ (x % n) % n = x % n /\ Signed(x, n) \in Int
  <1> DEFINE u == x % n
  <1>1. u \in 0 .. n - 1 /\ u \in Int
    OBVIOUS
  <1> HIDE DEF u
  <1>2. u = n * 0 + u /\ u - n = n * (-1) + u
    BY <1>1
  <1>3. u % n = u /\ (u - n) % n = u
    BY <1>1, <1>2, Division
  <1>4. Signed(x, n) = u \/ Signed(x, n) = u - n
    BY DEF Signed, u
  <1> QED
    BY <1>1, <1>3, <1>4 DEF u

(* Cutting to a word can wait.                                             *)
LEMMA TruncateLate ==
  ASSUME NEW x \in Int, NEW y \in Int
  PROVE  Truncate(Truncate(x) + y) = Truncate(x + y) /\ Truncate(x + y) \in Word
  <1>1. PICK p \in Int : Truncate(x) = x + WordSize * p
    BY SignedPlus
  <1>2. WordSize \in Nat
    BY WordRange
  <1>3. Truncate(x) \in Int /\ Truncate(x) + y \in Int /\ x + y \in Int
    BY TruncateInt
  <1>4. PICK q \in Int : Truncate(Truncate(x) + y) = (Truncate(x) + y) + WordSize * q
                         /\ Truncate(Truncate(x) + y) \in Word
    BY <1>3, SignedPlus
  <1>5. PICK r \in Int : Truncate(x + y) = (x + y) + WordSize * r /\ Truncate(x + y) \in Word
    BY <1>3, SignedPlus
  <1> DEFINE a == Truncate(Truncate(x) + y)
             b == Truncate(x + y)
  <1>6. WordSize * p \in Int /\ WordSize * q \in Int /\ WordSize * r \in Int
    BY <1>2
  <1>7. (p + q) - r \in Int /\ WordSize * ((p + q) - r) = (WordSize * p + WordSize * q) - WordSize * r
    BY <1>2
  <1>8. a = b + WordSize * ((p + q) - r)
    BY <1>1, <1>3, <1>4, <1>5, <1>6, <1>7
  <1> QED
    BY <1>4, <1>5, <1>7, <1>8, SameWord

(* The bytes of a number are its halves, and its halves the number in a    *)
(* word.                                                                   *)
LEMMA ByteValues ==
  ASSUME NEW v \in Int
  PROVE  /\ ByteOf(v, 0) = v % ByteSize
         /\ ByteOf(v, 1) * ByteSize + ByteOf(v, 0) = v % HwordSize
         /\ ByteOf(v, 3) * ByteSize + ByteOf(v, 2) = (v \div HwordSize) % HwordSize
         /\ (v % HwordSize) + HwordSize * ((v \div HwordSize) % HwordSize) = v % WordSize
  <1> DEFINE B == ByteSize
             H == HwordSize
             W == WordSize
  <1>0. /\ B \in Nat /\ B > 0 /\ H \in Nat /\ H > 0 /\ H = B * B /\ W = H * H
    BY Sizes
  <1>1. /\ ByteOf(v, 0) = (v \div 1) % B /\ ByteOf(v, 1) = (v \div B) % B
        /\ ByteOf(v, 2) = (v \div H) % B /\ ByteOf(v, 3) = (v \div (B * H)) % B
    BY DEF ByteOf, Weight, Lower
  <1>2. v \div 1 = v /\ B * H = H * B /\ v \div H \in Int
    BY <1>0
  <1>3. v % H = ((v \div B) % B) * B + (v % B)
    BY <1>0, TwoDigits
  <1>4. v \div (H * B) = (v \div H) \div B
    BY <1>0, TwoDigits
  <1>5. (v \div H) % H = (((v \div H) \div B) % B) * B + ((v \div H) % B)
    BY <1>0, <1>2, TwoDigits
  <1>6. v % W = ((v \div H) % H) * H + (v % H)
    BY <1>0, TwoDigits
  <1>7. (v \div H) % H \in Int /\ v % H \in Int
    BY <1>0
  <1>8. ((v \div H) % H) * H + (v % H) = (v % H) + H * ((v \div H) % H)
    BY <1>0, <1>7
  <1> QED
    BY <1>1, <1>2, <1>3, <1>4, <1>5, <1>6, <1>8

(* What the bytes of a constant load.                                      *)
LEMMA Constants ==
  ASSUME NEW v \in Int
  PROVE  /\ Fits(v, ByteSize) => Signed(ByteOf(v, 0), ByteSize) = v /\ v \in Word
         /\ Fits(v, HwordSize) =>
              Signed(ByteOf(v, 1) * ByteSize + ByteOf(v, 0), HwordSize) = v /\ v \in Word
         /\ Truncate(Lower(Signed(ByteOf(v, 1) * ByteSize + ByteOf(v, 0), HwordSize), HwordSize)
                     + HwordSize * (ByteOf(v, 3) * ByteSize + ByteOf(v, 2))) = Truncate(v)
  <1>1. ASSUME NEW n \in Nat, n < WordSize \div 2, n % 2 = 0, Fits(v, n) PROVE v \in Word
    <2>1. WordSize \in Nat /\ 2 * (WordSize \div 2) = WordSize /\ n \div 2 \in Nat /\ n \div 2 <= n
      BY WordRange, <1>1
    <2>2. v >= -(n \div 2) /\ v <= n \div 2 - 1
      BY <1>1 DEF Fits
    <2> QED
      BY <1>1, <2>1, <2>2, WordRange DEF Word
  <1>2. Fits(v, ByteSize) => Signed(ByteOf(v, 0), ByteSize) = v /\ v \in Word
    BY <1>1, Sizes, FieldSigned, ByteValues
  <1>3. Fits(v, HwordSize) =>
          Signed(ByteOf(v, 1) * ByteSize + ByteOf(v, 0), HwordSize) = v /\ v \in Word
    BY <1>1, Sizes, FieldSigned, ByteValues
  <1> DEFINE u == v % HwordSize
             w == (v \div HwordSize) % HwordSize
  <1>4. HwordSize \in Nat /\ HwordSize > 0 /\ WordSize \in Nat /\ WordSize > 0
    BY Sizes
  <1>5. u \in Int /\ w \in Int
    BY <1>4
  <1>6. ByteOf(v, 1) * ByteSize + ByteOf(v, 0) = u /\ ByteOf(v, 3) * ByteSize + ByteOf(v, 2) = w
        /\ u + HwordSize * w = v % WordSize
    BY ByteValues
  <1>7. u % HwordSize = u
    BY <1>4, SignedLow
  <1> HIDE DEF u, w
  <1>8. Lower(Signed(u, HwordSize), HwordSize) = u
    BY <1>4, <1>5, <1>7, SignedLow DEF Lower
  <1>9. Truncate(v % WordSize) = Truncate(v)
    <2>1. (v % WordSize) % WordSize = v % WordSize
      BY <1>4, SignedLow
    <2> QED
      BY <2>1 DEF Truncate, Signed
  <1> QED
    BY <1>2, <1>3, <1>6, <1>8, <1>9

(* The 4 and the 8 of the expansions.                                      *)
LEMMA SmallNumbers ==
  Signed(0, ByteSize) = 0 /\ Signed(4, ByteSize) = 4 /\ Signed(8, ByteSize) = 8
  <1> DEFINE B == ByteSize
  <1>1. B \in Nat /\ B > 16 /\ B \div 2 > 8
    BY Sizes
  <1>2. 0 = B * 0 + 0 /\ 4 = B * 0 + 4 /\ 8 = B * 0 + 8
    BY <1>1
  <1>3. 0 % B = 0 /\ 4 % B = 4 /\ 8 % B = 8
    BY <1>1, <1>2, Division
  <1> QED
    BY <1>1, <1>3 DEF Signed
-----------------------------------------------------------------------------
(***************************************************************************)
(* What instructions do one after the other.                               *)
(***************************************************************************)

(* The states of a machine along its instructions.                         *)
Along(c, m, insts) ==
  c[0] = m /\ \A k \in 1 .. Len(insts) : c[k] = Execute(c[k - 1], insts[k])

(* There is a chain of states along any instructions, and it ends where    *)
(* running them does.                                                      *)
LEMMA RunChain ==
  ASSUME NEW m, NEW insts, Len(insts) \in Nat
  PROVE  /\ \E c : Along(c, m, insts)
         /\ \A c : Along(c, m, insts) => Run(m, insts) = c[Len(insts)]
  <1> DEFINE n == Len(insts)
             Upto(f, k) == f = [j \in 0 .. k |-> IF j = 0 THEN m ELSE Execute(f[j - 1], insts[j])]
             U == {k \in 0 .. n : \E f : Upto(f, k)}
             h == CHOOSE f : Upto(f, n)
  <1>1. Run(m, insts) = h[n]
    BY DEF Run
  <1>2. 0 \in U
    <2> DEFINE f == [j \in 0 .. 0 |-> m]
               g == [j \in 0 .. 0 |-> IF j = 0 THEN m ELSE Execute(f[j - 1], insts[j])]
    <2>0. f = g
      <3>1. \A j \in 0 .. 0 : j = 0
        OBVIOUS
      <3>2. \A j \in 0 .. 0 : f[j] = g[j]
        BY <3>1
      <3>3. f = [j \in 0 .. 0 |-> f[j]] /\ g = [j \in 0 .. 0 |-> g[j]]
        OBVIOUS
      <3> HIDE DEF f, g
      <3> QED
        BY <3>2, <3>3
    <2> HIDE DEF f
    <2>1. Upto(f, 0)
      BY <2>0
    <2> QED
      BY <2>1
  <1>3. ASSUME NEW k \in 1 .. n, k - 1 \in U PROVE k \in U
    <2>1. PICK f : Upto(f, k - 1)
      BY <1>3
    <2> DEFINE g == [j \in 0 .. k |-> IF j = k THEN Execute(f[k - 1], insts[k]) ELSE f[j]]
    <2>2. \A j \in 0 .. k - 1 : g[j] = f[j] /\ f[j] = IF j = 0 THEN m ELSE Execute(f[j - 1], insts[j])
      BY <2>1
    <2>3. ASSUME NEW j \in 0 .. k PROVE g[j] = IF j = 0 THEN m ELSE Execute(g[j - 1], insts[j])
      <3>1. CASE j = k
        <4>1. k - 1 \in 0 .. k - 1 /\ g[k - 1] = f[k - 1] /\ k # 0
          BY <2>2
        <4> QED
          BY <3>1, <4>1
      <3>2. CASE j # k
        <4>1. j \in 0 .. k - 1 /\ (j # 0 => j - 1 \in 0 .. k - 1)
          BY <3>2
        <4> QED
          BY <2>2, <4>1
      <3> QED
        BY <3>1, <3>2
    <2>4. g = [j \in 0 .. k |-> g[j]]
      OBVIOUS
    <2> HIDE DEF g
    <2>5. g = [j \in 0 .. k |-> IF j = 0 THEN m ELSE Execute(g[j - 1], insts[j])]
      BY <2>3, <2>4
    <2> QED
      BY <2>5
  <1> HIDE DEF U
  <1>4. n \in U
    <2>1. \A k \in 0 .. n : k \in U
      BY <1>2, <1>3, BoundedInduction
    <2> QED
      BY <2>1
  <1>5. Upto(h, n)
    BY <1>4 DEF U
  <1> HIDE DEF h
  <1>6. Along(h, m, insts)
    BY <1>5 DEF Along
  <1>7. ASSUME NEW c, Along(c, m, insts) PROVE h[n] = c[n]
    <2> DEFINE V == {k \in 0 .. n : h[k] = c[k]}
    <2>1. 0 \in V
      BY <1>6, <1>7 DEF Along
    <2>2. ASSUME NEW k \in 1 .. n, k - 1 \in V PROVE k \in V
      BY <1>6, <1>7, <2>2 DEF Along
    <2> HIDE DEF V
    <2>3. \A k \in 0 .. n : k \in V
      BY <2>1, <2>2, BoundedInduction
    <2> QED
      BY <2>3 DEF V
  <1> QED
    BY <1>1, <1>6, <1>7

(* The bytes of an instruction of a form, and what the instructions do.    *)
Bytes(s, inst)  == [j \in 1 .. 4 |-> Made(s, inst[j], knownList)]
Coded(s, insts) == [k \in 1 .. Len(insts) |-> Bytes(s, insts[k])]
Do(s, m, inst)  == Execute(m, Bytes(s, inst))
Leads(s, m, insts, n) == (\E V : insts \in Seq(V)) /\ Run(m, Coded(s, insts)) = n

(* The instructions of a form, one by one.                                 *)
LEMMA CodedIs ==
  ASSUME NEW s, NEW V, NEW insts \in Seq(V)
  PROVE  Len(Coded(s, insts)) = Len(insts) /\ Len(insts) \in Nat
         /\ \A k \in 1 .. Len(insts) : Coded(s, insts)[k] = Bytes(s, insts[k])
  BY DEF Coded

(* One instruction, and instructions after others.                         *)
LEMMA LeadsOne ==
  ASSUME NEW s, NEW m, NEW a
  PROVE  Leads(s, m, <<a>>, Do(s, m, a))
  <1> DEFINE x == <<a>>
             c == [k \in 0 .. 1 |-> IF k = 0 THEN m ELSE Do(s, m, a)]
  <1>1. x \in Seq({a}) /\ Len(x) = 1 /\ x[1] = a
    OBVIOUS
  <1> HIDE DEF x
  <1>2. Len(Coded(s, x)) = 1 /\ Coded(s, x)[1] = Bytes(s, a)
    BY <1>1, CodedIs
  <1>3. c[0] = m /\ c[1] = Execute(m, Bytes(s, a))
    BY DEF Do
  <1> HIDE DEF c
  <1>4. Along(c, m, Coded(s, x))
    <2> SUFFICES ASSUME NEW k \in 1 .. Len(Coded(s, x))
                 PROVE  c[k] = Execute(c[k - 1], Coded(s, x)[k])
      BY <1>3 DEF Along
    <2>1. k = 1 /\ k - 1 = 0
      BY <1>2
    <2> QED
      BY <1>2, <1>3, <2>1
  <1>5. Run(m, Coded(s, x)) = c[1]
    <2> DEFINE X == Coded(s, x)
    <2>1. Len(X) = 1 /\ Len(X) \in Nat /\ Along(c, m, X)
      BY <1>2, <1>4
    <2> HIDE DEF X
    <2>2. \A d : Along(d, m, X) => Run(m, X) = d[Len(X)]
      BY <2>1, RunChain
    <2> QED
      BY <2>1, <2>2 DEF X
  <1> QED
    BY <1>1, <1>3, <1>5 DEF Leads, x, Do

LEMMA LeadsOn ==
  ASSUME NEW s, NEW m, NEW n, NEW p, NEW x, NEW y, Leads(s, m, x, n), Leads(s, n, y, p)
  PROVE  Leads(s, m, x \o y, p)
  <1>1. PICK V, W : x \in Seq(V) /\ y \in Seq(W)
    BY DEF Leads
  <1> DEFINE z == x \o y
             a == Len(x)
             b == Len(y)
             X == Coded(s, x)
             Y == Coded(s, y)
             Z == Coded(s, z)
  <1>2. z \in Seq(V \cup W)
    BY <1>1, SeqJoins
  <1>3. /\ a \in Nat /\ b \in Nat /\ Len(z) = a + b
        /\ \A k \in 1 .. a : z[k] = x[k]
        /\ \A k \in a + 1 .. a + b : z[k] = y[k - a]
    BY <1>1
  <1> HIDE DEF z, a, b
  <1>4. Len(X) = a /\ Len(Y) = b /\ Len(Z) = a + b
    BY <1>1, <1>2, <1>3, CodedIs DEF a, b
  <1>5. /\ \A k \in 1 .. a : Z[k] = X[k]
        /\ \A k \in a + 1 .. a + b : Z[k] = Y[k - a]
    BY <1>3 DEF Coded, a, b
  <1> HIDE DEF X, Y, Z
  <1>6. PICK c : Along(c, m, X)
    BY <1>3, <1>4, RunChain
  <1>7. PICK d : Along(d, n, Y)
    BY <1>3, <1>4, RunChain
  <1>8. n = c[a] /\ p = d[b]
    BY <1>3, <1>4, <1>6, <1>7, RunChain DEF Leads, X, Y
  <1> DEFINE e == [k \in 0 .. a + b |-> IF k <= a THEN c[k] ELSE d[k - a]]
  <1>9. Along(e, m, Z)
    <2>1. e[0] = m
      BY <1>3, <1>6 DEF Along
    <2>2. ASSUME NEW k \in 1 .. a + b PROVE e[k] = Execute(e[k - 1], Z[k])
      <3>1. CASE k <= a
        <4>1. k \in 1 .. a /\ e[k] = c[k] /\ e[k - 1] = c[k - 1]
          BY <1>3, <3>1
        <4> QED
          BY <1>4, <1>5, <1>6, <4>1 DEF Along
      <3>2. CASE k > a
        <4>1. k \in a + 1 .. a + b /\ k - a \in 1 .. b /\ e[k] = d[k - a]
          BY <1>3, <3>2
        <4>2. e[k - 1] = d[(k - a) - 1]
          <5>1. CASE k = a + 1
            <6>1. (k - a) - 1 = 0 /\ k - 1 = a /\ e[a] = c[a]
              BY <1>3, <5>1
            <6> QED
              BY <1>7, <1>8, <6>1 DEF Along
          <5>2. CASE k # a + 1
            BY <1>3, <3>2, <5>2
          <5> QED
            BY <5>1, <5>2
        <4>3. d[k - a] = Execute(d[(k - a) - 1], Y[k - a])
          BY <1>4, <1>7, <4>1 DEF Along
        <4> QED
          BY <1>5, <4>1, <4>2, <4>3
      <3> QED
        BY <1>3, <3>1, <3>2
    <2> HIDE DEF e
    <2> QED
      BY <1>4, <2>1, <2>2 DEF Along
  <1>10. e[a + b] = p
    <2>1. CASE b = 0
      <3>1. e[a + b] = c[a]
        BY <1>3, <2>1
      <3> QED
        BY <1>7, <1>8, <2>1, <3>1 DEF Along
    <2>2. CASE b # 0
      BY <1>3, <1>8, <2>2
    <2> QED
      BY <2>1, <2>2
  <1> HIDE DEF e
  <1>11. Run(m, Z) = p
    <2>1. a + b \in Nat
      BY <1>3
    <2> QED
      BY <1>4, <1>9, <1>10, <2>1, RunChain
  <1> QED
    BY <1>2, <1>11 DEF Leads, z, Z

(* Tuples in pieces.                                                       *)
LEMMA JoinedTuples ==
  /\ \A a, b : <<a, b>> = <<a>> \o <<b>>
  /\ \A a, b, c, d : <<a, b, c, d>> = <<a, b>> \o <<c, d>>
  /\ \A a, b, c, d, e, f : <<a, b, c, d, e, f>> = <<a, b, c, d>> \o <<e, f>>
  <1>1. ASSUME NEW a, NEW b PROVE <<a, b>> = <<a>> \o <<b>>
    <2> DEFINE V == {a, b}
    <2>1. <<a>> \in Seq(V) /\ <<b>> \in Seq(V) /\ <<a, b>> \in Seq(V)
      OBVIOUS
    <2> HIDE DEF V
    <2> DEFINE x == <<a>>
               y == <<b>>
    <2>2. Len(x) = 1 /\ Len(y) = 1 /\ x[1] = a /\ y[1] = b
      OBVIOUS
    <2> HIDE DEF x, y
    <2>3. x \o y \in Seq(V) /\ Len(x \o y) = 2 /\ (x \o y)[1] = a /\ (x \o y)[2] = b
      BY <2>1, <2>2 DEF x, y
    <2>4. \A z \in Seq(V) : Len(z) = 2 => z = <<z[1], z[2]>>
      OBVIOUS
    <2> QED
      BY <2>3, <2>4 DEF x, y
  <1>2. ASSUME NEW a, NEW b, NEW c, NEW d PROVE <<a, b, c, d>> = <<a, b>> \o <<c, d>>
    <2> DEFINE V == {a, b, c, d}
    <2>1. <<a, b>> \in Seq(V) /\ <<c, d>> \in Seq(V) /\ <<a, b, c, d>> \in Seq(V)
      OBVIOUS
    <2> QED
      BY <2>1
  <1>3. ASSUME NEW a, NEW b, NEW c, NEW d, NEW e, NEW f
        PROVE  <<a, b, c, d, e, f>> = <<a, b, c, d>> \o <<e, f>>
    <2> DEFINE V == {a, b, c, d, e, f}
    <2>1. <<a, b, c, d>> \in Seq(V) /\ <<e, f>> \in Seq(V) /\ <<a, b, c, d, e, f>> \in Seq(V)
      OBVIOUS
    <2> QED
      BY <2>1
  <1> QED
    BY <1>1, <1>2, <1>3

(* Two instructions.                                                       *)
LEMMA LeadsTwo ==
  ASSUME NEW s, NEW m, NEW a, NEW b
  PROVE  Leads(s, m, <<a, b>>, Do(s, Do(s, m, a), b))
  <1>1. Leads(s, m, <<a>> \o <<b>>, Do(s, Do(s, m, a), b))
    BY LeadsOne, LeadsOn
  <1> QED
    BY <1>1, JoinedTuples
-----------------------------------------------------------------------------
(***************************************************************************)
(* What the bytes of a form are for a statement, and what an instruction of*)
(* a form does with its operands.                                          *)
(***************************************************************************)

(* Registers as the machine has them, and an operation whose operands are  *)
(* among them.                                                             *)
RegFile(R) ==
  /\ R \in [DOMAIN R -> Word] /\ R[0] = 0
  /\ 0 .. 4 \subseteq DOMAIN R /\ Reserved \in DOMAIN R

Ready(s, R) ==
  /\ s \in StmntRec /\ knownList \in SymbolLists
  /\ RegFile(R) /\ OwnRegs(s, R)
  /\ ~WrongForm(s) /\ ~StackClash(s)

(* A place of an instruction filled in; the constant that is an operand;   *)
(* and what an operand stands for.                                         *)
At(s, t) == Made(s, t, knownList)
Constant(s, i) == IF s.args[i].type = "LABEL" THEN Final(s.args[i].label) ELSE s.args[i].val
OperandIs(s, R, i) ==
  IF s.args[i].type = "REG" THEN R[s.args[i].reg] ELSE Truncate(Constant(s, i))

(* Every place of an instruction is filled in with what it names.          *)
LEMMA PlacesMade ==
  ASSUME NEW s, NEW R, Ready(s, R)
  PROVE  /\ \A x : At(s, Op(x)) = Code(x)
         /\ \A n : At(s, Num(n)) = n
         /\ At(s, R0) = 0 /\ At(s, RA) = 1 /\ At(s, SP) = 2 /\ At(s, FP) = 3 /\ At(s, RV) = 4
         /\ At(s, RR) = Reserved
         /\ \A i \in DOMAIN s.args : At(s, RegOf(i)) = s.args[i].reg
         /\ \A i \in DOMAIN s.args : \A k \in 0 .. 3 : At(s, Byte(i, k)) = ByteOf(Constant(s, i), k)
         /\ \A i \in DOMAIN s.args : Constant(s, i) \in Int
  <1>1. /\ \A n : At(s, <<"num", n>>) = n
        /\ \A x : At(s, <<"op", x>>) = Code(x)
        /\ \A i : At(s, <<"reg", i>>) = ArgAt(s, i).reg
    <2>1. ASSUME NEW t
          PROVE  /\ t[1] = "num" => At(s, t) = t[2]
                 /\ t[1] = "op" => At(s, t) = Code(t[2])
                 /\ t[1] = "reg" => At(s, t) = ArgAt(s, t[2]).reg
      <3>1. LabelAt(s, t) # NoName => t[1] = "const"
        BY DEF LabelAt
      <3> QED
        BY <3>1 DEF At, Made
    <2>2. \A k, x : <<k, x>>[1] = k /\ <<k, x>>[2] = x
      OBVIOUS
    <2> QED
      BY <2>1, <2>2
  <1>2. \A i \in DOMAIN s.args : ArgAt(s, i) = s.args[i] /\ s.args[i] \in ArgRec
    BY DEF ArgAt, Ready, StmntRec
  <1>3. ASSUME NEW i \in DOMAIN s.args, NEW k \in 0 .. 3
        PROVE  At(s, <<"const", i, k>>) = ByteOf(Constant(s, i), k)
    <2> DEFINE t == <<"const", i, k>>
               a == s.args[i]
    <2>1. t[1] = "const" /\ t[2] = i /\ t[3] = k
      OBVIOUS
    <2>2. a.type = "LABEL" => a.label # NoName
      BY <1>2 DEF ArgRec
    <2> HIDE DEF t
    <2>3. LabelAt(s, t) = IF a.type = "LABEL" THEN a.label ELSE NoName
      BY <1>2, <2>1 DEF LabelAt
    <2>4. Made(s, t, knownList) = IF LabelAt(s, t) # NoName THEN ByteOf(ValueOf(knownList, LabelAt(s, t)), k)
                                  ELSE ByteOf(ArgAt(s, i).val, k)
      BY <2>1 DEF Made
    <2> QED
      BY <1>2, <2>2, <2>3, <2>4 DEF At, Constant, Final, t
  <1>4. ASSUME NEW i \in DOMAIN s.args PROVE Constant(s, i) \in Int
    <2>1. s.args[i].val \in Int
      BY <1>2 DEF ArgRec
    <2>2. Final(s.args[i].label) \in Int
      BY ValueInt DEF Final, Ready
    <2> QED
      BY <2>1, <2>2 DEF Constant
  <1>5. At(s, R0) = 0 /\ At(s, RA) = 1 /\ At(s, SP) = 2 /\ At(s, FP) = 3 /\ At(s, RV) = 4
    BY <1>1 DEF R0, RA, SP, FP, RV
  <1>6. At(s, RR) = Reserved /\ \A n : At(s, Num(n)) = n
    BY <1>1 DEF RR, Num
  <1>7. ASSUME NEW x PROVE At(s, Op(x)) = Code(x)
    <2>1. Op(x) = <<"op", x>>
      BY DEF Op
    <2> QED
      BY <1>1, <2>1
  <1>8. ASSUME NEW i \in DOMAIN s.args PROVE At(s, RegOf(i)) = s.args[i].reg
    <2>1. RegOf(i) = <<"reg", i>>
      BY DEF RegOf
    <2> QED
      BY <1>1, <1>2, <2>1
  <1>9. \A i \in DOMAIN s.args : \A k \in 0 .. 3 : At(s, Byte(i, k)) = ByteOf(Constant(s, i), k)
    BY <1>3 DEF Byte
  <1> QED
    BY <1>4, <1>5, <1>6, <1>7, <1>8, <1>9

(* The register files: what is put in one.                                 *)
LEMMA PutIs ==
  ASSUME NEW R, RegFile(R), NEW r \in DOMAIN R, NEW v
  PROVE  /\ DOMAIN Put(R, r, v) = DOMAIN R
         /\ Put(R, r, v) = [q \in DOMAIN R |-> IF q = r /\ r # 0 THEN v ELSE R[q]]
         /\ v \in Word => RegFile(Put(R, r, v))
  <1>1. DOMAIN Put(R, r, v) = DOMAIN R
    BY DEF Put
  <1>2. Put(R, r, v) = [q \in DOMAIN R |-> IF q = r /\ r # 0 THEN v ELSE R[q]]
    BY DEF Put, RegFile
  <1>3. v \in Word => RegFile(Put(R, r, v))
    BY <1>1, <1>2 DEF RegFile
  <1> QED
    BY <1>1, <1>2, <1>3

(* What one instruction of a form does.                                    *)
LEMMA BytesAre ==
  ASSUME NEW s, NEW R, Ready(s, R), NEW op, NEW a, NEW b, NEW c
  PROVE  LET x == Bytes(s, Inst(op, a, b, c))
         IN  x[1] = Code(op) /\ x[2] = At(s, a) /\ x[3] = At(s, b) /\ x[4] = At(s, c)
  <1> DEFINE i == Inst(op, a, b, c)
  <1>1. i[1] = Op(op) /\ i[2] = a /\ i[3] = b /\ i[4] = c
    BY DEF Inst
  <1> HIDE DEF i
  <1>2. \A j \in 1 .. 4 : Bytes(s, i)[j] = At(s, i[j])
    BY DEF Bytes, At
  <1>3. At(s, Op(op)) = Code(op)
    BY PlacesMade
  <1>4. Bytes(s, i)[1] = At(s, i[1]) /\ Bytes(s, i)[2] = At(s, i[2])
        /\ Bytes(s, i)[3] = At(s, i[3]) /\ Bytes(s, i)[4] = At(s, i[4])
    BY <1>2
  <1> QED
    BY <1>1, <1>3, <1>4 DEF i

(* The instructions of a form, with the places filled in.                  *)
LEMMA Moves ==
  ASSUME NEW s, NEW Q, Ready(s, Q), NEW R, NEW M, NEW P, NEW H, NEW op \in Used, NEW a, NEW b, NEW c
  PROVE  LET x == Do(s, Machine(R, M, P, H), Inst(op, a, b, c))
             u == At(s, a)
             v == At(s, b)
             w == At(s, c)
             n == Truncate(P + 4)
         IN  /\ op = "LCL" => x = Machine(Put(R, u, Signed(v * ByteSize + w, HwordSize)), M, n, H)
             /\ op = "LCH" => x = Machine(Put(R, u, Truncate(Lower(R[u], HwordSize)
                                                             + HwordSize * (v * ByteSize + w))), M, n, H)
             /\ op = "LD4" => x = Machine(Put(R, u, Fetch(M, Truncate(R[v] + Signed(w, ByteSize)))), M, n, H)
             /\ op = "ST4" => x = Machine(R, Store(M, Truncate(R[v] + Signed(w, ByteSize)), R[u]), n, H)
             /\ op = "LEH" => x = Machine(R, M, n, R[v])
  <1> DEFINE i == Bytes(s, Inst(op, a, b, c))
  <1>1. Opcode(i[1]) = op /\ i[2] = At(s, a) /\ i[3] = At(s, b) /\ i[4] = At(s, c)
    BY BytesAre, UsedOpcodes
  <1> HIDE DEF i
  <1>2. Do(s, Machine(R, M, P, H), Inst(op, a, b, c)) = Execute(Machine(R, M, P, H), i)
    BY DEF Do, i
  <1> QED
    BY <1>1, <1>2, Executed DEF c8Of, c16Of

LEMMA Jumps ==
  ASSUME NEW s, NEW Q, Ready(s, Q), NEW R, NEW M, NEW P, NEW H, NEW op \in Used, NEW a, NEW b, NEW c
  PROVE  LET x == Do(s, Machine(R, M, P, H), Inst(op, a, b, c))
             u == At(s, a)
             v == At(s, b)
             w == At(s, c)
             n == Truncate(P + 4)
             By == Truncate(P + 4 * Signed(v * ByteSize + w, HwordSize))
         IN  /\ op = "JEZ"  => x = Machine(Put(R, u, P), M, IF R[v] = 0 THEN R[w] ELSE n, H)
             /\ op = "JNZ"  => x = Machine(Put(R, u, P), M, IF R[v] # 0 THEN R[w] ELSE n, H)
             /\ op = "BEZ"  => x = Machine(Put(R, u, P), M, IF R[v] = 0 THEN Truncate(P + R[w]) ELSE n, H)
             /\ op = "BEZI" => x = Machine(R, M, IF R[u] = 0 THEN By ELSE n, H)
             /\ op = "BNZI" => x = Machine(R, M, IF R[u] # 0 THEN By ELSE n, H)
  <1> DEFINE i == Bytes(s, Inst(op, a, b, c))
  <1>1. Opcode(i[1]) = op /\ i[2] = At(s, a) /\ i[3] = At(s, b) /\ i[4] = At(s, c)
    BY BytesAre, UsedOpcodes
  <1> HIDE DEF i
  <1>2. Do(s, Machine(R, M, P, H), Inst(op, a, b, c)) = Execute(Machine(R, M, P, H), i)
    BY DEF Do, i
  <1> QED
    BY <1>1, <1>2, Branched DEF c16Of

LEMMA Computes ==
  ASSUME NEW s, NEW Q, Ready(s, Q), NEW R, NEW M, NEW P, NEW H, NEW op \in Used, NEW a, NEW b, NEW c
  PROVE  LET x == Do(s, Machine(R, M, P, H), Inst(op, a, b, c))
             u == At(s, a)
             v == At(s, b)
             w == At(s, c)
             n == Truncate(P + 4)
         IN  /\ op \in Immediate =>
                  x = Machine(PutAlu(R, BaseOp[op], u, R[v], Signed(w, ByteSize)), M, n, H)
             /\ op \in ThreeRegister => x = Machine(PutAlu(R, op, u, R[v], R[w]), M, n, H)
  <1> DEFINE i == Bytes(s, Inst(op, a, b, c))
  <1>1. Opcode(i[1]) = op /\ i[2] = At(s, a) /\ i[3] = At(s, b) /\ i[4] = At(s, c)
    BY BytesAre, UsedOpcodes
  <1> HIDE DEF i
  <1>2. Do(s, Machine(R, M, P, H), Inst(op, a, b, c)) = Execute(Machine(R, M, P, H), i)
    BY DEF Do, i
  <1> QED
    BY <1>1, <1>2, Computed DEF c8Of

(* Loading a constant.                                                     *)
LEMMA Loading16 ==
  ASSUME NEW s, NEW Q, Ready(s, Q), NEW R, NEW M, NEW P, NEW H, NEW r,
         NEW i \in DOMAIN s.args, s.args[i].type = "INT", Fits(s.args[i].val, HwordSize)
  PROVE  Leads(s, Machine(R, M, P, H), Load16(r, i),
               Machine(Put(R, At(s, r), Truncate(Constant(s, i))), M, Truncate(P + 4), H))
  <1> DEFINE V == Constant(s, i)
  <1>1. V \in Int /\ Fits(V, HwordSize)
    BY PlacesMade DEF Constant
  <1>2. At(s, Byte(i, 1)) = ByteOf(V, 1) /\ At(s, Byte(i, 0)) = ByteOf(V, 0)
    BY PlacesMade
  <1> HIDE DEF V
  <1>3. Signed(ByteOf(V, 1) * ByteSize + ByteOf(V, 0), HwordSize) = V /\ V \in Word
    BY <1>1, Constants
  <1>4. Truncate(V) = V
    BY <1>3, TruncateNear
  <1>5. Do(s, Machine(R, M, P, H), Inst("LCL", r, Byte(i, 1), Byte(i, 0)))
          = Machine(Put(R, At(s, r), Truncate(V)), M, Truncate(P + 4), H)
    <2>1. "LCL" \in Used
      BY DEF Used
    <2> QED
      BY <1>2, <1>3, <1>4, <2>1, Moves
  <1> QED
    BY <1>5, LeadsOne DEF Load16, Lcl, Inst, V

(* Two instructions load any constant (lcl, then lch).                     *)
LEMMA Loading32 ==
  ASSUME NEW s, NEW Q, Ready(s, Q), NEW R, RegFile(R), NEW M, NEW P \in Int, NEW H, NEW r, At(s, r) \in DOMAIN R,
         NEW i \in DOMAIN s.args
  PROVE  Leads(s, Machine(R, M, P, H), Load32(r, i),
               Machine(Put(R, At(s, r), Truncate(Constant(s, i))), M, Truncate(P + 8), H))
  <1> DEFINE V == Constant(s, i)
             u == At(s, r)
             a == Signed(ByteOf(V, 1) * ByteSize + ByteOf(V, 0), HwordSize)
             h == ByteOf(V, 3) * ByteSize + ByteOf(V, 2)
             R1 == Put(R, u, a)
             b == Truncate(Lower(R1[u], HwordSize) + HwordSize * h)
             n == Truncate(P + 4)
  <1>1. V \in Int /\ At(s, Byte(i, 1)) = ByteOf(V, 1) /\ At(s, Byte(i, 0)) = ByteOf(V, 0)
        /\ At(s, Byte(i, 3)) = ByteOf(V, 3) /\ At(s, Byte(i, 2)) = ByteOf(V, 2)
    BY PlacesMade
  <1>2. "LCL" \in Used /\ "LCH" \in Used
    BY DEF Used
  <1>3. Do(s, Machine(R, M, P, H), Inst("LCL", r, Byte(i, 1), Byte(i, 0))) = Machine(R1, M, n, H)
    BY <1>1, <1>2, Moves
  <1>4. Do(s, Machine(R1, M, n, H), Inst("LCH", r, Byte(i, 3), Byte(i, 2)))
          = Machine(Put(R1, u, b), M, Truncate(n + 4), H)
    BY <1>1, <1>2, Moves
  <1>5. Truncate(n + 4) = Truncate(P + 8)
    <2>1. Truncate(Truncate(P + 4) + 4) = Truncate((P + 4) + 4) /\ (P + 4) + 4 = P + 8
      BY TruncateLate
    <2> QED
      BY <2>1
  <1>6. Put(R1, u, b) = Put(R, u, Truncate(V))
    <2>1. CASE u = 0
      BY <2>1 DEF Put
    <2>2. CASE u # 0
      <3>1. u \in DOMAIN R /\ R1 = [q \in DOMAIN R |-> IF q = u THEN a ELSE R[q]]
        BY <2>2, PutIs
      <3>2. R1[u] = a
        BY <3>1
      <3>3. b = Truncate(V)
        BY <1>1, <3>2, Constants
      <3> HIDE DEF a, b
      <3>4. Put(R1, u, b) = [q \in DOMAIN R |-> IF q = u THEN b ELSE R[q]]
        BY <2>2, <3>1 DEF Put
      <3>5. Put(R, u, b) = [q \in DOMAIN R |-> IF q = u THEN b ELSE R[q]]
        BY <2>2, PutIs
      <3> QED
        BY <3>3, <3>4, <3>5
    <2> QED
      BY <2>1, <2>2
  <1> DEFINE m == Machine(R, M, P, H)
             z == Machine(Put(R, u, Truncate(V)), M, Truncate(P + 8), H)
             c == Inst("LCL", r, Byte(i, 1), Byte(i, 0))
             d == Inst("LCH", r, Byte(i, 3), Byte(i, 2))
  <1>7. Do(s, Do(s, m, c), d) = z
    BY <1>3, <1>4, <1>5, <1>6
  <1>8. Load32(r, i) = <<c, d>>
    BY DEF Load32, Lcl, Lch, Inst
  <1> HIDE DEF m, z, c, d
  <1>9. Leads(s, m, Load32(r, i), z)
    BY <1>7, <1>8, LeadsTwo
  <1> QED
    BY <1>9 DEF m, z
-----------------------------------------------------------------------------
(***************************************************************************)
(* When two machines are the same, and what an operation is for.           *)
(***************************************************************************)

(* Registers that are the same but for the one the assembler keeps.        *)
SameRegs(R, Q) ==
  /\ R = [q \in DOMAIN R |-> R[q]] /\ Q = [q \in DOMAIN Q |-> Q[q]]
  /\ DOMAIN R = DOMAIN Q
  /\ \A q \in DOMAIN R : q # Reserved => R[q] = Q[q]

(* Machines with the same registers are the same, and remain so.           *)
LEMMA SameIs ==
  ASSUME NEW R, NEW Q, SameRegs(R, Q)
  PROVE  /\ \A M, P, H : SameMachine(Machine(R, M, P, H), Machine(Q, M, P, H))
         /\ \A r, v : SameRegs(Put(R, r, v), Put(Q, r, v))
         /\ \A op, des, a, b : SameRegs(PutAlu(R, op, des, a, b), PutAlu(Q, op, des, a, b))
  <1>1. ASSUME NEW M, NEW P, NEW H PROVE SameMachine(Machine(R, M, P, H), Machine(Q, M, P, H))
    <2> DEFINE x == [R EXCEPT ![Reserved] = 0]
               y == [Q EXCEPT ![Reserved] = 0]
    <2>1. x = y
      <3>1. x = [q \in DOMAIN R |-> IF q = Reserved THEN 0 ELSE R[q]]
        BY DEF SameRegs
      <3>2. y = [q \in DOMAIN R |-> IF q = Reserved THEN 0 ELSE Q[q]]
        BY DEF SameRegs
      <3> HIDE DEF x, y
      <3> QED
        BY <3>1, <3>2 DEF SameRegs
    <2>2. [Machine(R, M, P, H) EXCEPT !.reg[Reserved] = 0] = Machine(x, M, P, H)
      BY DEF Machine
    <2>3. [Machine(Q, M, P, H) EXCEPT !.reg[Reserved] = 0] = Machine(y, M, P, H)
      BY DEF Machine
    <2> HIDE DEF x, y
    <2> QED
      BY <2>1, <2>2, <2>3 DEF SameMachine
  <1>2. ASSUME NEW A, NEW B, SameRegs(A, B), NEW r, NEW v PROVE SameRegs(Put(A, r, v), Put(B, r, v))
    <2>1. CASE r = 0
      BY <1>2, <2>1 DEF Put
    <2>2. CASE r # 0
      <3>1. Put(A, r, v) = [q \in DOMAIN A |-> IF q = r THEN v ELSE A[q]]
        BY <1>2, <2>2 DEF Put, SameRegs
      <3>2. Put(B, r, v) = [q \in DOMAIN A |-> IF q = r THEN v ELSE B[q]]
        BY <1>2, <2>2 DEF Put, SameRegs
      <3> QED
        BY <1>2, <3>1, <3>2 DEF SameRegs
    <2> QED
      BY <2>1, <2>2
  <1>3. ASSUME NEW op, NEW des, NEW a, NEW b
        PROVE  SameRegs(PutAlu(R, op, des, a, b), PutAlu(Q, op, des, a, b))
    <2>1. SameRegs(Put(R, des, Alu(op, a, b)), Put(Q, des, Alu(op, a, b)))
      BY <1>2
    <2>2. SameRegs(Put(Put(R, des, Alu(op, a, b)), des + 1, High(op, a, b)),
                   Put(Put(Q, des, Alu(op, a, b)), des + 1, High(op, a, b)))
      BY <1>2, <2>1
    <2> QED
      BY <2>1, <2>2 DEF PutAlu
  <1> QED
    BY <1>1, <1>2, <1>3

(* The register the assembler keeps does not count.                        *)
LEMMA SameKept ==
  ASSUME NEW R, RegFile(R)
  PROVE  SameRegs(R, R) /\ \A v : SameRegs(Put(R, Reserved, v), R)
  <1>1. SameRegs(R, R)
    BY DEF SameRegs, RegFile
  <1>2. ASSUME NEW v PROVE SameRegs(Put(R, Reserved, v), R)
    <2>1. Reserved \in DOMAIN R
      BY DEF RegFile
    <2>2. Put(R, Reserved, v) = [q \in DOMAIN R |-> IF q = Reserved /\ Reserved # 0 THEN v ELSE R[q]]
      BY <2>1, PutIs
    <2> QED
      BY <1>1, <2>2 DEF SameRegs
  <1> QED
    BY <1>1, <1>2

Logical == {"ORI", "NORI", "XORI", "ANDI"}
Orders == {"LTS", "LES", "LTU", "LEU"}

(* What an operation named for another is for: that one, on its operands.  *)
LEMMA MeansBase ==
  ASSUME NEW m, NEW s, NEW used, s.op \in DOMAIN BaseOp,
         s.op # "LTS", s.op # "LES", s.op # "LTU", s.op # "LEU", s.op # "LC", s.op # "MOV",
         s.op # "PUSH", s.op # "POP", s.op # "J", s.op # "JEZI", s.op # "JNZI", s.op # "BEZI",
         s.op # "BNZI", s.op # "B", s.op # "LEH", s.op # "CALL", s.op # "ENTRY", s.op # "RETURN"
  PROVE  LET Y(i) == IF s.args[i].type = "REG" THEN m.reg[s.args[i].reg]
                     ELSE Truncate(IF s.args[i].type = "LABEL" THEN Final(s.args[i].label) ELSE s.args[i].val)
         IN  Meaning(m, s, used, Final)
               = SetAlu([m EXCEPT !.pc = Truncate(@ + used)], BaseOp[s.op], s.args[1].reg, Y(2), Y(3))
  BY SMT DEF Meaning

(* What a comparison the other way round is for: the one it is named after,*)
(* on its operands exchanged.                                              *)
LEMMA MeansOrder ==
  ASSUME NEW m, NEW s, NEW used, s.op \in Orders
  PROVE  LET Y(i) == IF s.args[i].type = "REG" THEN m.reg[s.args[i].reg]
                     ELSE Truncate(IF s.args[i].type = "LABEL" THEN Final(s.args[i].label) ELSE s.args[i].val)
         IN  Meaning(m, s, used, Final)
               = SetAlu([m EXCEPT !.pc = Truncate(@ + used)], BaseOp[s.op], s.args[1].reg, Y(3), Y(2))
  BY Zenon DEF Meaning, Orders

(* What LC and MOV are for: the register is given the operand.             *)
LEMMA MeansMove ==
  ASSUME NEW m, NEW s, NEW used, s.op = "LC" \/ s.op = "MOV"
  PROVE  LET Y(i) == IF s.args[i].type = "REG" THEN m.reg[s.args[i].reg]
                     ELSE Truncate(IF s.args[i].type = "LABEL" THEN Final(s.args[i].label) ELSE s.args[i].val)
         IN  Meaning(m, s, used, Final)
               = SetReg([m EXCEPT !.pc = Truncate(@ + used)], s.args[1].reg, Y(2))
  <1>1. s.op = "LC" => s.op \notin DOMAIN BaseOp
    BY DEF BaseOp
  <1>2. s.op = "MOV" => s.op \notin DOMAIN BaseOp
    BY DEF BaseOp
  <1>3. CASE s.op = "LC"
    BY <1>1, <1>3, SMT DEF Meaning
  <1>4. CASE s.op = "MOV"
    BY <1>2, <1>4, SMT DEF Meaning
  <1> QED
    BY <1>3, <1>4

(* What an operation is for, as the machine it leaves.                     *)
LEMMA MeansAlu ==
  ASSUME NEW s, NEW R, NEW M, NEW P, NEW H, NEW used
  PROVE  LET x == Meaning(Machine(R, M, P, H), s, used, Final)
             n == Truncate(P + used)
             d == s.args[1].reg
             X(i) == OperandIs(s, R, i)
         IN  /\ s.op \in Orders => x = Machine(PutAlu(R, BaseOp[s.op], d, X(3), X(2)), M, n, H)
             /\ s.op \in Immediate \cup Logical =>
                  x = Machine(PutAlu(R, BaseOp[s.op], d, X(2), X(3)), M, n, H)
             /\ s.op \in {"LC", "MOV"} => x = Machine(Put(R, d, X(2)), M, n, H)
             /\ s.op = "PUSH" => x = Machine(Put(R, 2, Truncate(R[2] + -4)), Store(M, Truncate(R[2] + -4), X(1)), n, H)
             /\ s.op = "POP" => x = Machine(Put(Put(R, d, Fetch(M, R[2])), 2, Truncate(R[2] + 4)), M, n, H)
  <1> DEFINE m == Machine(R, M, P, H)
             x == Meaning(m, s, used, Final)
             n == Truncate(P + used)
             d == s.args[1].reg
             X(i) == OperandIs(s, R, i)
             k == [m EXCEPT !.pc = Truncate(@ + used)]
  <1>1. k = Machine(R, M, n, H)
    BY MachineParts
  <1>2. m.reg = R /\ m.pc = P
    BY MachineParts
  <1>3. s.op \in Orders => x = SetAlu(k, BaseOp[s.op], d, X(3), X(2))
    <2> SUFFICES ASSUME s.op \in Orders
                 PROVE  x = SetAlu(k, BaseOp[s.op], d, X(3), X(2))
      OBVIOUS
    <2> DEFINE Y(i) == IF s.args[i].type = "REG" THEN m.reg[s.args[i].reg]
                       ELSE Truncate(IF s.args[i].type = "LABEL" THEN Final(s.args[i].label) ELSE s.args[i].val)
    <2>1. x = SetAlu(k, BaseOp[s.op], s.args[1].reg, Y(3), Y(2))
      <3> HIDE DEF m
      <3> QED
        BY MeansOrder
    <2>2. Y(2) = X(2) /\ Y(3) = X(3)
      <3> HIDE DEF m
      <3> QED
        BY <1>2, Zenon DEF OperandIs, Constant
    <2> HIDE DEF Y, x, k, X
    <2> QED
      BY <2>1, <2>2
  <1>4. s.op \in Immediate \cup Logical => x = SetAlu(k, BaseOp[s.op], d, X(2), X(3))
    <2> SUFFICES ASSUME s.op \in Immediate \cup Logical
                 PROVE  x = SetAlu(k, BaseOp[s.op], d, X(2), X(3))
      OBVIOUS
    <2> DEFINE Y(i) == IF s.args[i].type = "REG" THEN m.reg[s.args[i].reg]
                       ELSE Truncate(IF s.args[i].type = "LABEL" THEN Final(s.args[i].label) ELSE s.args[i].val)
    <2>1. /\ s.op # "LTS" /\ s.op # "LES" /\ s.op # "LTU" /\ s.op # "LEU" /\ s.op # "LC" /\ s.op # "MOV"
          /\ s.op # "PUSH" /\ s.op # "POP" /\ s.op # "J" /\ s.op # "JEZI" /\ s.op # "JNZI" /\ s.op # "BEZI"
          /\ s.op # "BNZI" /\ s.op # "B" /\ s.op # "LEH" /\ s.op # "CALL" /\ s.op # "ENTRY" /\ s.op # "RETURN"
      BY DEF Immediate, Logical
    <2>2. s.op \in DOMAIN BaseOp
      BY DEF Immediate, Logical, BaseOp
    <2>3. x = SetAlu(k, BaseOp[s.op], s.args[1].reg, Y(2), Y(3))
      <3> HIDE DEF m
      <3> QED
        BY <2>1, <2>2, MeansBase, Zenon
    <2>4. Y(2) = X(2) /\ Y(3) = X(3)
      <3> HIDE DEF m
      <3> QED
        BY <1>2, Zenon DEF OperandIs, Constant
    <2> HIDE DEF Y, x, k, X
    <2> QED
      BY <2>3, <2>4
  <1>5. s.op \in {"LC", "MOV"} => x = SetReg(k, d, X(2))
    <2> SUFFICES ASSUME s.op = "LC" \/ s.op = "MOV"
                 PROVE  x = SetReg(k, d, X(2))
      OBVIOUS
    <2> DEFINE Y(i) == IF s.args[i].type = "REG" THEN m.reg[s.args[i].reg]
                       ELSE Truncate(IF s.args[i].type = "LABEL" THEN Final(s.args[i].label) ELSE s.args[i].val)
    <2>1. x = SetReg(k, s.args[1].reg, Y(2))
      <3> HIDE DEF m
      <3> QED
        BY MeansMove
    <2>2. Y(2) = X(2)
      <3> HIDE DEF m
      <3> QED
        BY <1>2, Zenon DEF OperandIs, Constant
    <2> HIDE DEF Y, x, k, X
    <2> QED
      BY <2>1, <2>2
  <1>6. s.op = "PUSH" => x = SetReg(Write(k, Truncate(R[2] + -4), X(1)), 2, Truncate(R[2] + -4))
    BY <1>2 DEF Meaning, BaseOp, OperandIs, Constant
  <1>7. s.op = "POP" => x = SetReg(SetReg(k, d, Read(m, R[2])), 2, Truncate(R[2] + 4))
    BY <1>2 DEF Meaning, BaseOp
  <1> HIDE DEF k, x, m, n, X, d
  <1>8. /\ \A o, des, u, v : SetAlu(k, o, des, u, v) = Machine(PutAlu(R, o, des, u, v), M, n, H)
        /\ \A r, v : SetReg(k, r, v) = Machine(Put(R, r, v), M, n, H)
        /\ \A addr, v : Write(k, addr, v) = Machine(R, Store(M, addr, v), n, H)
        /\ \A addr : Read(m, addr) = Fetch(M, addr)
    BY <1>1, MachineParts DEF m
  <1>9. \A Q, N, r, v : SetReg(Machine(Q, N, n, H), r, v) = Machine(Put(Q, r, v), N, n, H)
    BY MachineParts
  <1> QED
    BY <1>3, <1>4, <1>5, <1>6, <1>7, <1>8, <1>9 DEF k, x, m, n, X, d

(* The meaning of jumps, branches and calls.                               *)
LEMMA MeansJump ==
  ASSUME NEW s, NEW R, NEW M, NEW P, NEW H, NEW used
  PROVE  LET x == Meaning(Machine(R, M, P, H), s, used, Final)
             n == Truncate(P + used)
             X(i) == OperandIs(s, R, i)
         IN  /\ s.op = "J"    => x = Machine(R, M, X(1), H)
             /\ s.op = "JEZI" => x = Machine(R, M, IF X(1) = 0 THEN X(2) ELSE n, H)
             /\ s.op = "JNZI" => x = Machine(R, M, IF X(1) # 0 THEN X(2) ELSE n, H)
             /\ s.op = "BEZI" => x = Machine(R, M, IF X(1) = 0 THEN Truncate(P + 4 * X(2)) ELSE n, H)
             /\ s.op = "BNZI" => x = Machine(R, M, IF X(1) # 0 THEN Truncate(P + 4 * X(2)) ELSE n, H)
             /\ s.op = "B"    => x = Machine(R, M, Truncate(P + X(1)), H)
             /\ s.op = "LEH"  => x = Machine(R, M, n, X(1))
             /\ s.op = "CALL" => x = Machine(Put(R, 1, Truncate(P + (used - 4))), M, X(1), H)
  <1> DEFINE m == Machine(R, M, P, H)
             x == Meaning(m, s, used, Final)
             n == Truncate(P + used)
             X(i) == OperandIs(s, R, i)
             k == [m EXCEPT !.pc = Truncate(@ + used)]
             Goto(taken, target) == [k EXCEPT !.pc = IF taken THEN target ELSE @]
             back == Truncate(P + (used - 4))
  <1>1. k = Machine(R, M, n, H)
    BY MachineParts
  <1>2. m.reg = R /\ m.pc = P
    BY MachineParts
  <1>3. s.op = "J" => x = Goto(TRUE, X(1))
    BY <1>2 DEF Meaning, BaseOp, OperandIs, Constant
  <1>4. s.op = "JEZI" => x = Goto(X(1) = 0, X(2))
    BY <1>2 DEF Meaning, BaseOp, OperandIs, Constant
  <1>5. s.op = "JNZI" => x = Goto(X(1) # 0, X(2))
    BY <1>2 DEF Meaning, BaseOp, OperandIs, Constant
  <1>6. s.op = "BEZI" => x = Goto(X(1) = 0, Truncate(P + 4 * X(2)))
    BY <1>2 DEF Meaning, BaseOp, OperandIs, Constant
  <1>7. s.op = "BNZI" => x = Goto(X(1) # 0, Truncate(P + 4 * X(2)))
    BY <1>2 DEF Meaning, BaseOp, OperandIs, Constant
  <1>8. s.op = "B" => x = Goto(TRUE, Truncate(P + X(1)))
    BY <1>2 DEF Meaning, BaseOp, OperandIs, Constant
  <1>9. s.op = "LEH" => x = [k EXCEPT !.eh = X(1)]
    BY <1>2 DEF Meaning, BaseOp, OperandIs, Constant
  <1>10. s.op = "CALL" => x = [SetReg(k, 1, back) EXCEPT !.pc = X(1)]
    BY <1>2 DEF Meaning, BaseOp, OperandIs, Constant
  <1> HIDE DEF n, X, back
  <1>11. \A taken, target : Goto(taken, target) = Machine(R, M, IF taken THEN target ELSE n, H)
    <2>0. Machine(R, M, n, H).pc = n
      BY MachineParts
    <2>1. \A taken, target : Goto(taken, target) = [Machine(R, M, n, H) EXCEPT !.pc = IF taken THEN target ELSE n]
      BY <1>1, <2>0
    <2> HIDE DEF Goto
    <2>2. \A p : [Machine(R, M, n, H) EXCEPT !.pc = p] = Machine(R, M, p, H)
      BY MachineParts
    <2> QED
      BY <2>1, <2>2
  <1>12. [k EXCEPT !.eh = X(1)] = Machine(R, M, n, X(1))
    <2>1. [Machine(R, M, n, H) EXCEPT !.eh = X(1)] = Machine(R, M, n, X(1))
      BY MachineParts
    <2> HIDE DEF k
    <2> QED
      BY <1>1, <2>1, Zenon
  <1>13. [SetReg(k, 1, back) EXCEPT !.pc = X(1)] = Machine(Put(R, 1, back), M, X(1), H)
    <2>1. SetReg(k, 1, back) = Machine(Put(R, 1, back), M, n, H)
      BY <1>1, MachineParts
    <2>2. [Machine(Put(R, 1, back), M, n, H) EXCEPT !.pc = X(1)] = Machine(Put(R, 1, back), M, X(1), H)
      BY MachineParts
    <2> HIDE DEF k
    <2> QED
      BY <2>1, <2>2, Zenon
  <1> DEFINE A == [k EXCEPT !.eh = X(1)]
             B == [SetReg(k, 1, back) EXCEPT !.pc = X(1)]
  <1> HIDE DEF x, A, B, Goto, m
  <1>14. s.op = "LEH" => x = Machine(R, M, n, X(1))
    BY <1>9, <1>12
  <1>15. s.op = "CALL" => x = Machine(Put(R, 1, back), M, X(1), H)
    BY <1>10, <1>13
  <1> HIDE DEF k
  <1> QED
    BY <1>3, <1>4, <1>5, <1>6, <1>7, <1>8, <1>11, <1>14, <1>15 DEF x, m, n, X, back

(* The meaning of `entry` and `return`.                                    *)
LEMMA MeansFrame ==
  ASSUME NEW s, NEW R, NEW M, NEW P, NEW H, NEW used
  PROVE  LET x == Meaning(Machine(R, M, P, H), s, used, Final)
             n == Truncate(P + used)
             X(i) == OperandIs(s, R, i)
             back == Truncate(Fetch(M, R[3]) + 4)
             left == Put(Put(Put(R, 1, back), 2, Truncate(R[3] + 8)), 3, Fetch(M, Truncate(R[3] + 4)))
         IN  /\ s.op = "ENTRY" =>
                  x = Machine(Put(Put(R, 3, Truncate(R[2] + -8)), 2, Truncate((R[2] - 8) - X(1))),
                              Store(Store(M, Truncate(R[2] + -4), R[3]), Truncate(R[2] + -8), R[1]), n, H)
             /\ s.op = "RETURN" =>
                  x = Machine(IF s.args = <<>> THEN left ELSE Put(left, 4, X(1)), M, back, H)
  <1> DEFINE m == Machine(R, M, P, H)
             x == Meaning(m, s, used, Final)
             n == Truncate(P + used)
             X(i) == OperandIs(s, R, i)
             k == [m EXCEPT !.pc = Truncate(@ + used)]
             back == Truncate(Read(m, R[3]) + 4)
             f4 == Read(m, Truncate(R[3] + 4))
             f8 == Truncate(R[3] + 8)
             e8 == Truncate(R[2] + -8)
             e4 == Truncate(R[2] + -4)
             e0 == Truncate((R[2] - 8) - X(1))
             left == SetReg(SetReg(SetReg(k, 1, back), 2, f8), 3, f4)
             all == IF s.args = <<>> THEN left ELSE SetReg(left, 4, X(1))
  <1>1. k = Machine(R, M, n, H)
    BY MachineParts
  <1>2. m.reg = R /\ m.pc = P
    BY MachineParts
  <1>3. s.op = "ENTRY" => x = SetReg(SetReg(Write(Write(k, e4, R[3]), e8, R[1]), 3, e8), 2, e0)
    BY <1>2 DEF Meaning, BaseOp, OperandIs, Constant
  <1>4. s.op = "RETURN" => x = [all EXCEPT !.pc = back]
    BY <1>2 DEF Meaning, BaseOp, OperandIs, Constant
  <1>5. Read(m, R[3]) = Fetch(M, R[3]) /\ f4 = Fetch(M, Truncate(R[3] + 4))
    BY MachineParts
  <1>6. \A Q, N, p, r, v : SetReg(Machine(Q, N, p, H), r, v) = Machine(Put(Q, r, v), N, p, H)
    BY MachineParts
  <1>7. \A Q, N, a, v : Write(Machine(Q, N, n, H), a, v) = Machine(Q, Store(N, a, v), n, H)
    BY MachineParts
  <1> DEFINE regs == Put(Put(Put(R, 1, back), 2, f8), 3, f4)
             full == IF s.args = <<>> THEN regs ELSE Put(regs, 4, X(1))
  <1> HIDE DEF x, k, n, X, back, f4, f8, e8, e4, e0, m
  <1>8. all = Machine(full, M, n, H)
    BY <1>1, <1>6
  <1>9. [all EXCEPT !.pc = back] = Machine(full, M, back, H)
    <2>1. [Machine(full, M, n, H) EXCEPT !.pc = back] = Machine(full, M, back, H)
      BY MachineParts
    <2> HIDE DEF all, full
    <2> QED
      BY <1>8, <2>1, Zenon
  <1>10. s.op = "ENTRY" => x = Machine(Put(Put(R, 3, e8), 2, e0), Store(Store(M, e4, R[3]), e8, R[1]), n, H)
    BY <1>1, <1>3, <1>6, <1>7
  <1>11. s.op = "RETURN" => x = Machine(full, M, back, H)
    <2> HIDE DEF all, full
    <2> QED
      BY <1>4, <1>9, Zenon
  <1> QED
    BY <1>5, <1>10, <1>11 DEF x, m, n, X, back, f4, f8, e8, e4, e0
-----------------------------------------------------------------------------
(***************************************************************************)
(* Instructions that achieve what an operation is for: arithmetic, with the*)
(* constant, if any, in the instruction or brought to a register first.    *)
(***************************************************************************)

(* Instructions that do what an operation is for; and instructions that    *)
(* bring an operand to the register the assembler keeps, in k bytes.       *)
Achieves(s, R, M, P, H, insts, used) ==
  \E n : /\ Leads(s, Machine(R, M, P, H), insts, n)
         /\ SameMachine(n, Meaning(Machine(R, M, P, H), s, used, Final))

Brings(s, R, M, P, H, insts, i, k) ==
  Leads(s, Machine(R, M, P, H), insts,
        Machine(Put(R, Reserved, OperandIs(s, R, i)), M, Truncate(P + k), H))

(* The instructions lead to the meaning; or to it but for that register.   *)
LEMMA Achieved ==
  ASSUME NEW s, NEW R, NEW M, NEW P, NEW H, NEW insts, NEW used,
         NEW n, Leads(s, Machine(R, M, P, H), insts, n),
         n = Meaning(Machine(R, M, P, H), s, used, Final)
  PROVE  Achieves(s, R, M, P, H, insts, used)
  BY DEF Achieves, SameMachine

LEMMA AchievedBut ==
  ASSUME NEW s, NEW R, NEW M, NEW P, NEW H, NEW insts, NEW used, NEW A, NEW B, NEW N, NEW p, NEW h,
         Leads(s, Machine(R, M, P, H), insts, Machine(A, N, p, h)), SameRegs(A, B),
         Machine(B, N, p, h) = Meaning(Machine(R, M, P, H), s, used, Final)
  PROVE  Achieves(s, R, M, P, H, insts, used)
  <1>1. SameMachine(Machine(A, N, p, h), Machine(B, N, p, h))
    BY SameIs
  <1> QED
    BY <1>1 DEF Achieves

(* An operand that is a register, and one that is a constant.              *)
LEMMA RegOperand ==
  ASSUME NEW s, NEW R, Ready(s, R), NEW i \in DOMAIN s.args, s.args[i].type = "REG"
  PROVE  /\ At(s, RegOf(i)) = s.args[i].reg
         /\ s.args[i].reg \in DOMAIN R /\ s.args[i].reg # Reserved
         /\ OperandIs(s, R, i) = R[s.args[i].reg] /\ R[s.args[i].reg] \in Word
  <1>1. At(s, RegOf(i)) = s.args[i].reg
    BY PlacesMade
  <1>2. s.args[i].reg \in DOMAIN R \ {Reserved}
    BY DEF Ready, OwnRegs
  <1>3. \A q \in DOMAIN R : R[q] \in Word
    BY DEF Ready, RegFile
  <1> QED
    BY <1>1, <1>2, <1>3 DEF OperandIs

LEMMA ConstOperand ==
  ASSUME NEW s, NEW R, Ready(s, R), NEW i \in DOMAIN s.args, s.args[i].type # "REG"
  PROVE  OperandIs(s, R, i) = Truncate(Constant(s, i)) /\ OperandIs(s, R, i) \in Word
  <1>1. Constant(s, i) \in Int
    BY PlacesMade
  <1>2. Truncate(Constant(s, i)) \in Word
    BY <1>1, SignedPlus
  <1> QED
    BY <1>2 DEF OperandIs

(* What matches a kind of operand.                                         *)
LEMMA Wanted ==
  ASSUME NEW a
  PROVE  /\ Matches(a, "REG") => a.type = "REG"
         /\ Matches(a, "CONST_ANY") => a.type # "REG"
         /\ Matches(a, "CONST16") => a.type = "INT" /\ Fits(a.val, HwordSize)
         /\ Matches(a, "CONST8") => a.type = "INT" /\ Fits(a.val, ByteSize)
  BY DEF Matches, ConstArg

(* Words are integers.                                                     *)
LEMMA WordInt == \A x \in Word : x \in Int
  BY WordRange DEF Word

(* The loads of the expansions bring a constant to the register the        *)
(* assembler keeps.                                                        *)
LEMMA Brought ==
  ASSUME NEW s, NEW R, Ready(s, R), NEW M, NEW P \in Word, NEW H, NEW i \in DOMAIN s.args
  PROVE  /\ Matches(s.args[i], "CONST16") => Brings(s, R, M, P, H, Load16(RR, i), i, 4)
         /\ Matches(s.args[i], "CONST_ANY") => Brings(s, R, M, P, H, Load32(RR, i), i, 8)
  <1>1. At(s, RR) = Reserved /\ Reserved \in DOMAIN R /\ RegFile(R) /\ P \in Int
    BY PlacesMade, WordInt DEF Ready, RegFile
  <1>2. ASSUME Matches(s.args[i], "CONST16") PROVE Brings(s, R, M, P, H, Load16(RR, i), i, 4)
    <2>1. s.args[i].type = "INT" /\ Fits(s.args[i].val, HwordSize)
      BY <1>2, Wanted
    <2>2. OperandIs(s, R, i) = Truncate(Constant(s, i))
      BY <2>1, ConstOperand
    <2> QED
      BY <1>1, <2>1, <2>2, Loading16 DEF Brings
  <1>3. ASSUME Matches(s.args[i], "CONST_ANY") PROVE Brings(s, R, M, P, H, Load32(RR, i), i, 8)
    <2>1. OperandIs(s, R, i) = Truncate(Constant(s, i))
      BY <1>3, Wanted, ConstOperand
    <2> QED
      BY <1>1, <2>1, Loading32 DEF Brings
  <1> QED
    BY <1>2, <1>3

(* The register the assembler keeps, and the others.                       *)
LEMMA Kept ==
  ASSUME NEW R, RegFile(R), NEW v
  PROVE  LET Q == Put(R, Reserved, v)
         IN  /\ Q[Reserved] = v /\ DOMAIN Q = DOMAIN R /\ SameRegs(Q, R)
             /\ \A q \in DOMAIN R : q # Reserved => Q[q] = R[q]
             /\ Q[0] = 0
             /\ v \in Word => RegFile(Q)
  <1>1. Reserved \in DOMAIN R /\ Reserved # 0 /\ 0 \in DOMAIN R /\ R[0] = 0
    <2>1. 0 \in 0 .. 4
      OBVIOUS
    <2> QED
      BY <2>1 DEF RegFile, Reserved
  <1>2. Put(R, Reserved, v) = [q \in DOMAIN R |-> IF q = Reserved /\ Reserved # 0 THEN v ELSE R[q]]
    BY <1>1, PutIs
  <1>3. SameRegs(Put(R, Reserved, v), R)
    BY SameKept
  <1>4. v \in Word => RegFile(Put(R, Reserved, v))
    BY <1>1, PutIs
  <1> QED
    BY <1>1, <1>2, <1>3, <1>4

(* The address of the next instruction.                                    *)
LEMMA Onward ==
  ASSUME NEW P \in Word, NEW k \in Nat
  PROVE  Truncate(Truncate(P + k) + 4) = Truncate(P + (k + 4)) /\ Truncate(P + k) \in Word
         /\ Truncate(P + 0) = P
  <1>1. P \in Int
    BY WordInt
  <1>2. P + k \in Int /\ (P + k) + 4 = P + (k + 4) /\ P + 0 = P
    BY <1>1
  <1>3. Truncate(P + k) \in Word
    BY <1>2, SignedPlus
  <1> QED
    BY <1>2, <1>3, TruncateLate, TruncateNear

(* Arithmetic with a small constant, with a constant that was brought, and *)
(* with the operands turned round.                                         *)
LEMMA SmallConstant ==
  ASSUME NEW s, NEW R, Ready(s, R), NEW M, NEW P \in Word, NEW H,
         s.op \in Immediate, DOMAIN s.args = 1 .. 3,
         s.args[1].type = "REG", s.args[2].type = "REG", Matches(s.args[3], "CONST8")
  PROVE  Achieves(s, R, M, P, H, <<Inst(s.op, RegOf(1), RegOf(2), Byte(3, 0))>>, 4)
  <1> DEFINE V == Constant(s, 3)
             i == Inst(s.op, RegOf(1), RegOf(2), Byte(3, 0))
  <1>1. 1 \in DOMAIN s.args /\ 2 \in DOMAIN s.args /\ 3 \in DOMAIN s.args
    OBVIOUS
  <1>2. s.args[3].type = "INT" /\ Fits(V, ByteSize) /\ V \in Int
    BY <1>1, Wanted, PlacesMade DEF Constant
  <1>3. At(s, Byte(3, 0)) = ByteOf(V, 0)
    BY <1>1, PlacesMade
  <1>4. OperandIs(s, R, 3) = Truncate(V)
    BY <1>1, <1>2, ConstOperand
  <1> HIDE DEF V
  <1>5. Signed(ByteOf(V, 0), ByteSize) = V /\ Truncate(V) = V
    BY <1>2, Constants, TruncateNear
  <1>6. s.op \in Used
    BY DEF Used, Immediate
  <1>7. Do(s, Machine(R, M, P, H), i)
          = Machine(PutAlu(R, BaseOp[s.op], s.args[1].reg, R[s.args[2].reg], V), M, Truncate(P + 4), H)
    BY <1>1, <1>3, <1>5, <1>6, RegOperand, Computes
  <1>8. Meaning(Machine(R, M, P, H), s, 4, Final)
          = Machine(PutAlu(R, BaseOp[s.op], s.args[1].reg, R[s.args[2].reg], V), M, Truncate(P + 4), H)
    BY <1>1, <1>4, <1>5, RegOperand, MeansAlu
  <1> HIDE DEF i
  <1> QED
    BY <1>7, <1>8, LeadsOne, Achieved DEF i

(* Arithmetic whose last operand was brought to the register kept for it.  *)
LEMMA LastConstant ==
  ASSUME NEW s, NEW R, Ready(s, R), NEW M, NEW P \in Word, NEW H, NEW insts, NEW k \in Nat,
         s.op \in Immediate \cup Logical, BaseOp[s.op] \in ThreeRegister, DOMAIN s.args = 1 .. 3,
         s.args[1].type = "REG", s.args[2].type = "REG",
         OperandIs(s, R, 3) \in Word, Brings(s, R, M, P, H, insts, 3, k)
  PROVE  Achieves(s, R, M, P, H, insts \o Using(BaseOp[s.op]), k + 4)
  <1> DEFINE v == OperandIs(s, R, 3)
             Q == Put(R, Reserved, v)
             op == BaseOp[s.op]
             r1 == s.args[1].reg
             r2 == s.args[2].reg
             i == Inst(op, RegOf(1), RegOf(2), RR)
             n == Truncate(P + (k + 4))
             m == Machine(Q, M, Truncate(P + k), H)
             z == Machine(PutAlu(Q, op, r1, R[r2], v), M, n, H)
  <1>1. 1 \in DOMAIN s.args /\ 2 \in DOMAIN s.args /\ RegFile(R)
    BY DEF Ready
  <1>2. At(s, RegOf(1)) = r1 /\ At(s, RegOf(2)) = r2 /\ r2 \in DOMAIN R /\ r2 # Reserved
        /\ OperandIs(s, R, 2) = R[r2] /\ At(s, RR) = Reserved
    BY <1>1, RegOperand, PlacesMade
  <1>3. Q[Reserved] = v /\ Q[r2] = R[r2] /\ SameRegs(Q, R)
    BY <1>1, <1>2, Kept
  <1>4. op \in Used
    BY DEF Used, ThreeRegister
  <1>5. Do(s, m, i) = z
    <2> HIDE DEF Q, op, v
    <2>1. Do(s, m, i) = Machine(PutAlu(Q, op, r1, Q[r2], Q[Reserved]), M, Truncate(Truncate(P + k) + 4), H)
      BY <1>2, <1>4, Computes DEF op
    <2> QED
      BY <1>3, <2>1, Onward
  <1>6. Using(op) = <<i>>
    BY DEF Using, Inst
  <1>7. Leads(s, Machine(R, M, P, H), insts \o Using(op), z)
    <2>1. Leads(s, m, Using(op), z)
      BY <1>5, <1>6, LeadsOne
    <2>2. Leads(s, Machine(R, M, P, H), insts, m)
      BY DEF Brings
    <2> HIDE DEF m, z, op
    <2> QED
      BY <2>1, <2>2, LeadsOn
  <1>8. Meaning(Machine(R, M, P, H), s, k + 4, Final) = Machine(PutAlu(R, op, r1, R[r2], v), M, n, H)
    BY <1>2, MeansAlu
  <1>9. SameRegs(PutAlu(Q, op, r1, R[r2], v), PutAlu(R, op, r1, R[r2], v))
    BY <1>3, SameIs
  <1> HIDE DEF Q, op, v, r1, r2, n
  <1> QED
    BY <1>7, <1>8, <1>9, AchievedBut DEF op

(* The same, when it is the operand before.                                *)
LEMMA MiddleConstant ==
  ASSUME NEW s, NEW R, Ready(s, R), NEW M, NEW P \in Word, NEW H, NEW insts, NEW k \in Nat,
         s.op \in Immediate \cup Logical, BaseOp[s.op] \in ThreeRegister, DOMAIN s.args = 1 .. 3,
         s.args[1].type = "REG", s.args[3].type = "REG",
         OperandIs(s, R, 2) \in Word, Brings(s, R, M, P, H, insts, 2, k)
  PROVE  Achieves(s, R, M, P, H, insts \o Using2(BaseOp[s.op]), k + 4)
  <1> DEFINE v == OperandIs(s, R, 2)
             Q == Put(R, Reserved, v)
             op == BaseOp[s.op]
             r1 == s.args[1].reg
             r3 == s.args[3].reg
             i == Inst(op, RegOf(1), RR, RegOf(3))
             n == Truncate(P + (k + 4))
             m == Machine(Q, M, Truncate(P + k), H)
             z == Machine(PutAlu(Q, op, r1, v, R[r3]), M, n, H)
  <1>1. 1 \in DOMAIN s.args /\ 3 \in DOMAIN s.args /\ RegFile(R)
    BY DEF Ready
  <1>2. At(s, RegOf(1)) = r1 /\ At(s, RegOf(3)) = r3 /\ r3 \in DOMAIN R /\ r3 # Reserved
        /\ OperandIs(s, R, 3) = R[r3] /\ At(s, RR) = Reserved
    BY <1>1, RegOperand, PlacesMade
  <1>3. Q[Reserved] = v /\ Q[r3] = R[r3] /\ SameRegs(Q, R)
    BY <1>1, <1>2, Kept
  <1>4. op \in Used
    BY DEF Used, ThreeRegister
  <1>5. Do(s, m, i) = z
    <2> HIDE DEF Q, op, v
    <2>1. Do(s, m, i) = Machine(PutAlu(Q, op, r1, Q[Reserved], Q[r3]), M, Truncate(Truncate(P + k) + 4), H)
      BY <1>2, <1>4, Computes DEF op
    <2> QED
      BY <1>3, <2>1, Onward
  <1>6. Using2(op) = <<i>>
    BY DEF Using2, Inst
  <1>7. Leads(s, Machine(R, M, P, H), insts \o Using2(op), z)
    <2>1. Leads(s, m, Using2(op), z)
      BY <1>5, <1>6, LeadsOne
    <2>2. Leads(s, Machine(R, M, P, H), insts, m)
      BY DEF Brings
    <2> HIDE DEF m, z, op
    <2> QED
      BY <2>1, <2>2, LeadsOn
  <1>8. Meaning(Machine(R, M, P, H), s, k + 4, Final) = Machine(PutAlu(R, op, r1, v, R[r3]), M, n, H)
    BY <1>2, MeansAlu
  <1>9. SameRegs(PutAlu(Q, op, r1, v, R[r3]), PutAlu(R, op, r1, v, R[r3]))
    BY <1>3, SameIs
  <1> HIDE DEF Q, op, v, r1, r3, n
  <1> QED
    BY <1>7, <1>8, <1>9, AchievedBut DEF op

(* Comparisons that turn their operands round.                             *)
LEMMA TurnedRound ==
  ASSUME NEW s, NEW R, Ready(s, R), NEW M, NEW P \in Word, NEW H,
         s.op \in Orders, DOMAIN s.args = 1 .. 3, \A i \in 1 .. 3 : s.args[i].type = "REG"
  PROVE  Achieves(s, R, M, P, H, <<Inst(BaseOp[s.op], RegOf(1), RegOf(3), RegOf(2))>>, 4)
  <1> DEFINE op == BaseOp[s.op]
             i == Inst(op, RegOf(1), RegOf(3), RegOf(2))
             z == Machine(PutAlu(R, op, s.args[1].reg, R[s.args[3].reg], R[s.args[2].reg]), M, Truncate(P + 4), H)
  <1>1. 1 \in 1 .. 3 /\ 2 \in 1 .. 3 /\ 3 \in 1 .. 3
    OBVIOUS
  <1>2. op \in ThreeRegister
    BY DEF Orders, BaseOp, ThreeRegister
  <1>3. op \in Used
    BY <1>2 DEF Used, ThreeRegister
  <1> HIDE DEF op
  <1>4. Do(s, Machine(R, M, P, H), i) = z
    BY <1>1, <1>2, <1>3, RegOperand, Computes
  <1>5. Meaning(Machine(R, M, P, H), s, 4, Final) = z
    BY <1>1, RegOperand, MeansAlu DEF op
  <1> HIDE DEF i, z
  <1> QED
    BY <1>4, <1>5, LeadsOne, Achieved DEF i, op
-----------------------------------------------------------------------------
(***************************************************************************)
(* Moves, branches and jumps.                                              *)
(***************************************************************************)

(* Addresses further on.                                                   *)
LEMMA Further ==
  ASSUME NEW P \in Word, NEW k \in Nat, NEW j \in Nat
  PROVE  Truncate(Truncate(P + k) + j) = Truncate(P + (k + j))
  <1>1. P \in Int
    BY WordInt
  <1>2. P + k \in Int /\ (P + k) + j = P + (k + j)
    BY <1>1
  <1> QED
    BY <1>2, TruncateLate

(* Sums and differences, and the numbers the expansions use.               *)
LEMMA SumsMade ==
  ASSUME NEW s, NEW R, Ready(s, R), NEW Q, NEW M, NEW P, NEW H, NEW a, NEW b, NEW c
  PROVE  LET m == Machine(Q, M, P, H)
             n == Truncate(P + 4)
             x == At(s, a)
             y == Q[At(s, b)]
         IN  /\ Do(s, m, Inst("ADD", a, b, c)) = Machine(Put(Q, x, Truncate(y + Q[At(s, c)])), M, n, H)
             /\ Do(s, m, Inst("SUB", a, b, c)) = Machine(Put(Q, x, Truncate(y - Q[At(s, c)])), M, n, H)
  <1>1. \A d, x, y : /\ PutAlu(Q, "ADD", d, x, y) = Put(Q, d, Truncate(x + y))
                     /\ PutAlu(Q, "SUB", d, x, y) = Put(Q, d, Truncate(x - y))
    BY DEF PutAlu, Alu, Wide
  <1>2. "ADD" \in Used /\ "SUB" \in Used /\ "ADD" \in ThreeRegister /\ "SUB" \in ThreeRegister
    BY DEF Used, ThreeRegister
  <1> QED
    BY <1>1, <1>2, Computes

(* The steps of the stack.                                                 *)
LEMMA SmallSums ==
  ASSUME NEW s, NEW R, Ready(s, R), NEW Q, NEW M, NEW P, NEW H, NEW a, NEW b
  PROVE  LET m == Machine(Q, M, P, H)
             n == Truncate(P + 4)
             x == At(s, a)
             y == Q[At(s, b)]
         IN  /\ Do(s, m, Inst("ADDI", a, b, Num(0))) = Machine(Put(Q, x, Truncate(y + 0)), M, n, H)
             /\ Do(s, m, Inst("ADDI", a, b, Num(4))) = Machine(Put(Q, x, Truncate(y + 4)), M, n, H)
             /\ Do(s, m, Inst("ADDI", a, b, Num(8))) = Machine(Put(Q, x, Truncate(y + 8)), M, n, H)
             /\ Do(s, m, Inst("SUBI", a, b, Num(4))) = Machine(Put(Q, x, Truncate(y - 4)), M, n, H)
             /\ Do(s, m, Inst("SUBI", a, b, Num(8))) = Machine(Put(Q, x, Truncate(y - 8)), M, n, H)
             /\ Do(s, m, Inst("LD4", a, b, Num(0))) = Machine(Put(Q, x, Fetch(M, Truncate(y + 0))), M, n, H)
             /\ Do(s, m, Inst("LD4", a, b, Num(4))) = Machine(Put(Q, x, Fetch(M, Truncate(y + 4))), M, n, H)
             /\ Do(s, m, Inst("ST4", a, b, Num(0))) = Machine(Q, Store(M, Truncate(y + 0), Q[x]), n, H)
             /\ Do(s, m, Inst("ST4", a, b, Num(4))) = Machine(Q, Store(M, Truncate(y + 4), Q[x]), n, H)
  <1>1. \A d, x, y : /\ PutAlu(Q, "ADD", d, x, y) = Put(Q, d, Truncate(x + y))
                     /\ PutAlu(Q, "SUB", d, x, y) = Put(Q, d, Truncate(x - y))
    BY DEF PutAlu, Alu, Wide
  <1>2. BaseOp["ADDI"] = "ADD" /\ BaseOp["SUBI"] = "SUB"
    BY DEF BaseOp
  <1>3. /\ "ADDI" \in Used /\ "SUBI" \in Used /\ "LD4" \in Used /\ "ST4" \in Used
        /\ "ADDI" \in Immediate /\ "SUBI" \in Immediate
    BY DEF Used, Immediate
  <1>4. \A k \in {0, 4, 8} : At(s, Num(k)) = k /\ Signed(k, ByteSize) = k
    BY PlacesMade, SmallNumbers
  <1>5. ASSUME NEW k \in {0, 4, 8}
        PROVE  /\ Do(s, Machine(Q, M, P, H), Inst("ADDI", a, b, Num(k)))
                    = Machine(Put(Q, At(s, a), Truncate(Q[At(s, b)] + k)), M, Truncate(P + 4), H)
               /\ Do(s, Machine(Q, M, P, H), Inst("SUBI", a, b, Num(k)))
                    = Machine(Put(Q, At(s, a), Truncate(Q[At(s, b)] - k)), M, Truncate(P + 4), H)
    <2>1. Do(s, Machine(Q, M, P, H), Inst("ADDI", a, b, Num(k)))
            = Machine(PutAlu(Q, "ADD", At(s, a), Q[At(s, b)], k), M, Truncate(P + 4), H)
      BY <1>2, <1>3, <1>4, Computes
    <2>2. Do(s, Machine(Q, M, P, H), Inst("SUBI", a, b, Num(k)))
            = Machine(PutAlu(Q, "SUB", At(s, a), Q[At(s, b)], k), M, Truncate(P + 4), H)
      BY <1>2, <1>3, <1>4, Computes
    <2> QED
      BY <1>1, <2>1, <2>2
  <1>6. ASSUME NEW k \in {0, 4, 8}
        PROVE  /\ Do(s, Machine(Q, M, P, H), Inst("LD4", a, b, Num(k)))
                    = Machine(Put(Q, At(s, a), Fetch(M, Truncate(Q[At(s, b)] + k))), M, Truncate(P + 4), H)
               /\ Do(s, Machine(Q, M, P, H), Inst("ST4", a, b, Num(k)))
                    = Machine(Q, Store(M, Truncate(Q[At(s, b)] + k), Q[At(s, a)]), Truncate(P + 4), H)
    BY <1>3, <1>4, Moves
  <1>7. 0 \in {0, 4, 8} /\ 4 \in {0, 4, 8} /\ 8 \in {0, 4, 8}
    OBVIOUS
  <1> QED
    BY <1>5, <1>6, <1>7

(* Constants and registers put in a register.                              *)
LEMMA Moved ==
  ASSUME NEW s, NEW R, Ready(s, R), NEW M, NEW P \in Word, NEW H,
         DOMAIN s.args = 1 .. 2, s.args[1].type = "REG"
  PROVE  /\ s.op = "LC" /\ Matches(s.args[2], "CONST16") => Achieves(s, R, M, P, H, Load16(RegOf(1), 2), 4)
         /\ s.op = "LC" /\ Matches(s.args[2], "CONST_ANY") => Achieves(s, R, M, P, H, Load32(RegOf(1), 2), 8)
         /\ s.op = "MOV" /\ s.args[2].type = "REG" =>
              Achieves(s, R, M, P, H, <<Inst("ADD", RegOf(1), RegOf(2), R0)>>, 4)
  <1>1. 1 \in DOMAIN s.args /\ 2 \in DOMAIN s.args /\ RegFile(R) /\ P \in Int
    BY WordInt DEF Ready
  <1>2. At(s, RegOf(1)) = s.args[1].reg /\ s.args[1].reg \in DOMAIN R
    BY <1>1, RegOperand
  <1>3. ASSUME s.op = "LC", Matches(s.args[2], "CONST16")
        PROVE  Achieves(s, R, M, P, H, Load16(RegOf(1), 2), 4)
    <2>1. s.args[2].type = "INT" /\ Fits(s.args[2].val, HwordSize)
      BY <1>3, Wanted
    <2>2. OperandIs(s, R, 2) = Truncate(Constant(s, 2))
      BY <1>1, <2>1, ConstOperand
    <2>3. Meaning(Machine(R, M, P, H), s, 4, Final)
            = Machine(Put(R, s.args[1].reg, Truncate(Constant(s, 2))), M, Truncate(P + 4), H)
      BY <1>3, <2>2, MeansAlu
    <2> QED
      BY <1>1, <1>2, <2>1, <2>3, Loading16, Achieved
  <1>4. ASSUME s.op = "LC", Matches(s.args[2], "CONST_ANY")
        PROVE  Achieves(s, R, M, P, H, Load32(RegOf(1), 2), 8)
    <2>1. OperandIs(s, R, 2) = Truncate(Constant(s, 2))
      BY <1>1, <1>4, Wanted, ConstOperand
    <2>2. Meaning(Machine(R, M, P, H), s, 8, Final)
            = Machine(Put(R, s.args[1].reg, Truncate(Constant(s, 2))), M, Truncate(P + 8), H)
      BY <1>4, <2>1, MeansAlu
    <2> QED
      BY <1>1, <1>2, <2>2, Loading32, Achieved
  <1>5. ASSUME s.op = "MOV", s.args[2].type = "REG"
        PROVE  Achieves(s, R, M, P, H, <<Inst("ADD", RegOf(1), RegOf(2), R0)>>, 4)
    <2> DEFINE v == R[s.args[2].reg]
               z == Machine(Put(R, s.args[1].reg, v), M, Truncate(P + 4), H)
               i == Inst("ADD", RegOf(1), RegOf(2), R0)
    <2>1. At(s, RegOf(2)) = s.args[2].reg /\ OperandIs(s, R, 2) = v /\ v \in Word
      BY <1>1, <1>5, RegOperand
    <2>2. At(s, R0) = 0 /\ R[0] = 0
      BY <1>1, PlacesMade DEF RegFile
    <2>3. Truncate(v + 0) = v
      BY <2>1, Onward
    <2>4. Do(s, Machine(R, M, P, H), i) = z
      BY <1>2, <2>1, <2>2, <2>3, SumsMade
    <2>5. Meaning(Machine(R, M, P, H), s, 4, Final) = z
      BY <1>5, <2>1, MeansAlu
    <2> HIDE DEF z, i
    <2> QED
      BY <2>4, <2>5, LeadsOne, Achieved DEF i
  <1> QED
    BY <1>3, <1>4, <1>5

(* Branches and jumps.                                                     *)
LEMMA BranchedTo ==
  ASSUME NEW s, NEW R, Ready(s, R), NEW M, NEW P \in Word, NEW H, s.op \in {"BEZI", "BNZI"},
         DOMAIN s.args = 1 .. 2, s.args[1].type = "REG", Matches(s.args[2], "CONST16")
  PROVE  Achieves(s, R, M, P, H, <<Inst(s.op, RegOf(1), Byte(2, 1), Byte(2, 0))>>, 4)
  <1> DEFINE V == Constant(s, 2)
             i == Inst(s.op, RegOf(1), Byte(2, 1), Byte(2, 0))
  <1>1. 1 \in DOMAIN s.args /\ 2 \in DOMAIN s.args
    OBVIOUS
  <1>2. s.args[2].type = "INT" /\ Fits(V, HwordSize) /\ V \in Int
    BY <1>1, Wanted, PlacesMade DEF Constant
  <1>3. At(s, Byte(2, 1)) = ByteOf(V, 1) /\ At(s, Byte(2, 0)) = ByteOf(V, 0)
    BY <1>1, PlacesMade
  <1>4. OperandIs(s, R, 2) = Truncate(V)
    BY <1>1, <1>2, ConstOperand
  <1>5. At(s, RegOf(1)) = s.args[1].reg /\ OperandIs(s, R, 1) = R[s.args[1].reg]
    BY <1>1, RegOperand
  <1> HIDE DEF V
  <1>6. Signed(ByteOf(V, 1) * ByteSize + ByteOf(V, 0), HwordSize) = V /\ Truncate(V) = V
    BY <1>2, Constants, TruncateNear
  <1>7. "BEZI" \in Used /\ "BNZI" \in Used
    BY DEF Used
  <1>8. Do(s, Machine(R, M, P, H), i) = Meaning(Machine(R, M, P, H), s, 4, Final)
    BY <1>3, <1>4, <1>5, <1>6, <1>7, Jumps, MeansJump
  <1> HIDE DEF i
  <1> QED
    BY <1>8, LeadsOne, Achieved DEF i

(* A jump on a condition, to where a constant says.                        *)
LEMMA JumpedTo ==
  ASSUME NEW s, NEW R, Ready(s, R), NEW M, NEW P \in Word, NEW H, NEW insts, NEW k \in Nat,
         DOMAIN s.args = 1 .. 2, s.args[1].type = "REG",
         OperandIs(s, R, 2) \in Word, Brings(s, R, M, P, H, insts, 2, k)
  PROVE  /\ s.op = "JEZI" => Achieves(s, R, M, P, H, insts \o <<Inst("JEZ", R0, RegOf(1), RR)>>, k + 4)
         /\ s.op = "JNZI" => Achieves(s, R, M, P, H, insts \o <<Inst("JNZ", R0, RegOf(1), RR)>>, k + 4)
  <1> DEFINE v == OperandIs(s, R, 2)
             Q == Put(R, Reserved, v)
             r1 == s.args[1].reg
             n == Truncate(P + (k + 4))
             p == Truncate(P + k)
             m == Machine(Q, M, p, H)
  <1>1. 1 \in DOMAIN s.args /\ RegFile(R)
    BY DEF Ready
  <1>2. At(s, RegOf(1)) = r1 /\ r1 \in DOMAIN R /\ r1 # Reserved /\ OperandIs(s, R, 1) = R[r1]
        /\ At(s, RR) = Reserved /\ At(s, R0) = 0
    BY <1>1, RegOperand, PlacesMade
  <1>3. Q[Reserved] = v /\ Q[r1] = R[r1] /\ SameRegs(Q, R)
    BY <1>1, <1>2, Kept
  <1>4. "JEZ" \in Used /\ "JNZ" \in Used
    BY DEF Used
  <1>5. Put(Q, 0, p) = Q
    BY DEF Put
  <1>6. Truncate(p + 4) = n
    BY Onward
  <1>7. Leads(s, Machine(R, M, P, H), insts, m)
    BY DEF Brings
  <1> HIDE DEF Q, v, r1, n, p
  <1>8. /\ Do(s, m, Inst("JEZ", R0, RegOf(1), RR)) = Machine(Q, M, IF R[r1] = 0 THEN v ELSE n, H)
        /\ Do(s, m, Inst("JNZ", R0, RegOf(1), RR)) = Machine(Q, M, IF R[r1] # 0 THEN v ELSE n, H)
    BY <1>2, <1>3, <1>4, <1>5, <1>6, Jumps
  <1>9. /\ s.op = "JEZI" => Meaning(Machine(R, M, P, H), s, k + 4, Final)
                              = Machine(R, M, IF R[r1] = 0 THEN v ELSE n, H)
        /\ s.op = "JNZI" => Meaning(Machine(R, M, P, H), s, k + 4, Final)
                              = Machine(R, M, IF R[r1] # 0 THEN v ELSE n, H)
    BY <1>2, MeansJump DEF v, n
  <1> HIDE DEF m
  <1>10. /\ Leads(s, Machine(R, M, P, H), insts \o <<Inst("JEZ", R0, RegOf(1), RR)>>,
                  Machine(Q, M, IF R[r1] = 0 THEN v ELSE n, H))
         /\ Leads(s, Machine(R, M, P, H), insts \o <<Inst("JNZ", R0, RegOf(1), RR)>>,
                  Machine(Q, M, IF R[r1] # 0 THEN v ELSE n, H))
    BY <1>7, <1>8, LeadsOne, LeadsOn
  <1> QED
    BY <1>3, <1>9, <1>10, AchievedBut

(* What goes to a register, or to a constant brought.                      *)
LEMMA ToRegister ==
  ASSUME NEW s, NEW R, Ready(s, R), NEW M, NEW P \in Word, NEW H,
         DOMAIN s.args = 1 .. 1, s.args[1].type = "REG"
  PROVE  /\ s.op = "J" => Achieves(s, R, M, P, H, <<Inst("JEZ", R0, R0, RegOf(1))>>, 4)
         /\ s.op = "B" => Achieves(s, R, M, P, H, <<Inst("BEZ", R0, R0, RegOf(1))>>, 4)
         /\ s.op = "LEH" => Achieves(s, R, M, P, H, <<Inst("LEH", Num(0), RegOf(1), Num(0))>>, 4)
         /\ s.op = "CALL" => Achieves(s, R, M, P, H, <<Inst("JEZ", RA, R0, RegOf(1))>>, 4)
  <1> DEFINE m == Machine(R, M, P, H)
             v == R[s.args[1].reg]
  <1>1. 1 \in DOMAIN s.args /\ R[0] = 0
    BY DEF Ready, RegFile
  <1>2. At(s, RegOf(1)) = s.args[1].reg /\ OperandIs(s, R, 1) = v /\ At(s, R0) = 0 /\ At(s, RA) = 1
    BY <1>1, RegOperand, PlacesMade
  <1>3. "JEZ" \in Used /\ "BEZ" \in Used /\ "LEH" \in Used
    BY DEF Used
  <1>4. Put(R, 0, P) = R
    BY DEF Put
  <1>5. Truncate(P + (4 - 4)) = P
    <2>1. 4 - 4 = 0
      OBVIOUS
    <2> QED
      BY <2>1, Onward
  <1> HIDE DEF v
  <1>6. /\ Do(s, m, Inst("JEZ", R0, R0, RegOf(1))) = Machine(R, M, v, H)
        /\ Do(s, m, Inst("BEZ", R0, R0, RegOf(1))) = Machine(R, M, Truncate(P + v), H)
        /\ Do(s, m, Inst("JEZ", RA, R0, RegOf(1))) = Machine(Put(R, 1, P), M, v, H)
    BY <1>1, <1>2, <1>3, <1>4, Jumps DEF v
  <1>7. Do(s, m, Inst("LEH", Num(0), RegOf(1), Num(0))) = Machine(R, M, Truncate(P + 4), v)
    BY <1>2, <1>3, Moves DEF v
  <1>8. /\ s.op = "J" => Meaning(m, s, 4, Final) = Machine(R, M, v, H)
        /\ s.op = "B" => Meaning(m, s, 4, Final) = Machine(R, M, Truncate(P + v), H)
        /\ s.op = "LEH" => Meaning(m, s, 4, Final) = Machine(R, M, Truncate(P + 4), v)
        /\ s.op = "CALL" => Meaning(m, s, 4, Final) = Machine(Put(R, 1, P), M, v, H)
    BY <1>2, <1>5, MeansJump
  <1>9. \A i : Do(s, m, i) = Meaning(m, s, 4, Final) => Achieves(s, R, M, P, H, <<i>>, 4)
    BY LeadsOne, Achieved
  <1> HIDE DEF m
  <1> QED
    BY <1>6, <1>7, <1>8, <1>9

(* Jumps, calls and `leh` to a constant that was brought.                  *)
LEMMA ToConstant ==
  ASSUME NEW s, NEW R, Ready(s, R), NEW M, NEW P \in Word, NEW H, NEW insts, NEW k \in Nat,
         DOMAIN s.args = 1 .. 1, OperandIs(s, R, 1) \in Word, Brings(s, R, M, P, H, insts, 1, k)
  PROVE  /\ s.op = "J" => Achieves(s, R, M, P, H, insts \o <<Inst("JEZ", R0, R0, RR)>>, k + 4)
         /\ s.op = "LEH" => Achieves(s, R, M, P, H, insts \o <<Inst("LEH", Num(0), RR, Num(0))>>, k + 4)
         /\ s.op = "CALL" => Achieves(s, R, M, P, H, insts \o <<Inst("JEZ", RA, R0, RR)>>, k + 4)
  <1> DEFINE v == OperandIs(s, R, 1)
             Q == Put(R, Reserved, v)
             n == Truncate(P + (k + 4))
             p == Truncate(P + k)
             m == Machine(Q, M, p, H)
             o == Machine(R, M, P, H)
  <1>1. RegFile(R) /\ At(s, RR) = Reserved /\ At(s, R0) = 0 /\ At(s, RA) = 1
    BY PlacesMade DEF Ready
  <1>2. Q[Reserved] = v /\ Q[0] = 0 /\ SameRegs(Q, R)
    BY <1>1, Kept
  <1>3. "JEZ" \in Used /\ "LEH" \in Used
    BY DEF Used
  <1>4. Put(Q, 0, p) = Q
    BY DEF Put
  <1>5. Truncate(p + 4) = n /\ (k + 4) - 4 = k
    BY Onward
  <1>6. Leads(s, o, insts, m)
    BY DEF Brings
  <1>7. SameRegs(Put(Q, 1, p), Put(R, 1, p))
    BY <1>2, SameIs
  <1> HIDE DEF Q, v, n, p
  <1>8. /\ Do(s, m, Inst("JEZ", R0, R0, RR)) = Machine(Q, M, v, H)
        /\ Do(s, m, Inst("JEZ", RA, R0, RR)) = Machine(Put(Q, 1, p), M, v, H)
    BY <1>1, <1>2, <1>3, <1>4, Jumps
  <1>9. Do(s, m, Inst("LEH", Num(0), RR, Num(0))) = Machine(Q, M, n, v)
    BY <1>1, <1>2, <1>3, <1>5, Moves
  <1>10. /\ s.op = "J" => Meaning(o, s, k + 4, Final) = Machine(R, M, v, H)
         /\ s.op = "LEH" => Meaning(o, s, k + 4, Final) = Machine(R, M, n, v)
         /\ s.op = "CALL" => Meaning(o, s, k + 4, Final) = Machine(Put(R, 1, p), M, v, H)
    BY <1>5, MeansJump DEF v, n, p
  <1>11. ASSUME NEW i, NEW A, NEW B, NEW q, NEW h, Do(s, m, i) = Machine(A, M, q, h), SameRegs(A, B),
                Meaning(o, s, k + 4, Final) = Machine(B, M, q, h)
         PROVE  Achieves(s, R, M, P, H, insts \o <<i>>, k + 4)
    <2>1. Leads(s, m, <<i>>, Machine(A, M, q, h))
      BY <1>11, LeadsOne
    <2>2. Leads(s, o, insts \o <<i>>, Machine(A, M, q, h))
      BY <1>6, <2>1, LeadsOn
    <2> QED
      BY <1>11, <2>2, AchievedBut
  <1> HIDE DEF m, o
  <1> QED
    BY <1>2, <1>7, <1>8, <1>9, <1>10, <1>11
-----------------------------------------------------------------------------
(***************************************************************************)
(* The stack: pushing, popping and the frame of a call.                    *)
(***************************************************************************)

(* What a register holds after another was put.                            *)
LEMMA PutElse ==
  ASSUME NEW R, RegFile(R), NEW r \in DOMAIN R, NEW v
  PROVE  /\ r # 0 => Put(R, r, v)[r] = v
         /\ \A q \in DOMAIN R : q # r => Put(R, r, v)[q] = R[q]
  BY PutIs

(* The stack.                                                              *)
LEMMA Pushed ==
  ASSUME NEW s, NEW R, Ready(s, R), NEW Q, RegFile(Q), NEW M, NEW P \in Word, NEW H, NEW r,
         At(s, r) \in DOMAIN Q, At(s, r) # 2
  PROVE  LET t == Truncate(Q[2] + -4)
         IN  Leads(s, Machine(Q, M, P, H), PushInsts(r),
                   Machine(Put(Q, 2, t), Store(M, t, Q[At(s, r)]), Truncate(P + 8), H))
  <1> DEFINE t == Truncate(Q[2] + -4)
             u == At(s, r)
             Q1 == Put(Q, 2, t)
             a == Inst("SUBI", SP, SP, Num(4))
             b == Inst("ST4", r, SP, Num(0))
             z == Machine(Q1, Store(M, t, Q[u]), Truncate(P + 8), H)
  <1>1. 2 \in DOMAIN Q /\ Q[2] \in Word /\ Q[2] \in Int /\ At(s, SP) = 2
    <2>1. 2 \in 0 .. 4
      OBVIOUS
    <2> QED
      BY <2>1, PlacesMade, WordInt DEF RegFile
  <1>2. Q[2] - 4 = Q[2] + -4 /\ Q[2] + -4 \in Int
    BY <1>1
  <1>3. t \in Word /\ Truncate(t + 0) = t
    <2>1. t \in Word
      BY <1>2, SignedPlus
    <2> QED
      BY <2>1, Onward
  <1>4. Q1[2] = t /\ Q1[u] = Q[u]
    BY <1>1, PutElse
  <1>5. Do(s, Machine(Q, M, P, H), a) = Machine(Q1, M, Truncate(P + 4), H)
    BY <1>1, <1>2, SmallSums
  <1>6. Truncate(Truncate(P + 4) + 4) = Truncate(P + 8)
    <2>1. 4 + 4 = 8
      OBVIOUS
    <2> QED
      BY <2>1, Further
  <1> HIDE DEF t, Q1
  <1>7. Do(s, Machine(Q1, M, Truncate(P + 4), H), b) = z
    BY <1>1, <1>3, <1>4, <1>6, SmallSums
  <1> HIDE DEF z, a, b
  <1>8. PushInsts(r) = <<a, b>>
    BY DEF PushInsts, a, b
  <1>9. Leads(s, Machine(Q, M, P, H), PushInsts(r), z)
    BY <1>5, <1>7, <1>8, LeadsTwo
  <1> QED
    BY <1>9 DEF z, Q1, t

(* Pushing a register, which is not the stack pointer; and a constant.     *)
LEMMA PushedRegister ==
  ASSUME NEW s, NEW R, Ready(s, R), NEW M, NEW P \in Word, NEW H,
         DOMAIN s.args = 1 .. 1, s.args[1].type = "REG", s.op = "PUSH"
  PROVE  Achieves(s, R, M, P, H, PushInsts(RegOf(1)), 8)
  <1>1. 1 \in DOMAIN s.args /\ RegFile(R) /\ s.args[1].reg # 2
    BY DEF Ready, StackClash
  <1>2. At(s, RegOf(1)) = s.args[1].reg /\ s.args[1].reg \in DOMAIN R /\ OperandIs(s, R, 1) = R[s.args[1].reg]
    BY <1>1, RegOperand
  <1>3. Leads(s, Machine(R, M, P, H), PushInsts(RegOf(1)),
              Machine(Put(R, 2, Truncate(R[2] + -4)), Store(M, Truncate(R[2] + -4), R[s.args[1].reg]),
                      Truncate(P + 8), H))
    BY <1>1, <1>2, Pushed
  <1> QED
    BY <1>2, <1>3, MeansAlu, Achieved

LEMMA PushedConstant ==
  ASSUME NEW s, NEW R, Ready(s, R), NEW M, NEW P \in Word, NEW H, NEW insts, NEW k \in Nat,
         DOMAIN s.args = 1 .. 1, s.op = "PUSH",
         OperandIs(s, R, 1) \in Word, Brings(s, R, M, P, H, insts, 1, k)
  PROVE  Achieves(s, R, M, P, H, insts \o PushInsts(RR), k + 8)
  <1> DEFINE v == OperandIs(s, R, 1)
             Q == Put(R, Reserved, v)
             p == Truncate(P + k)
             n == Truncate(P + (k + 8))
             t == Truncate(R[2] + -4)
  <1>1. RegFile(R) /\ At(s, RR) = Reserved /\ 2 \in DOMAIN R /\ Reserved # 2 /\ Reserved \in DOMAIN R
    <2>1. 2 \in 0 .. 4 /\ Reserved # 2
      BY DEF Reserved
    <2> QED
      BY <2>1, PlacesMade DEF Ready, RegFile
  <1>2. Q[Reserved] = v /\ Q[2] = R[2] /\ SameRegs(Q, R) /\ RegFile(Q) /\ DOMAIN Q = DOMAIN R
    BY <1>1, Kept
  <1>3. p \in Word /\ Truncate(p + 8) = n
    BY Onward, Further
  <1>4. Leads(s, Machine(R, M, P, H), insts, Machine(Q, M, p, H))
    BY DEF Brings
  <1>5. SameRegs(Put(Q, 2, t), Put(R, 2, t))
    BY <1>2, SameIs
  <1>6. Meaning(Machine(R, M, P, H), s, k + 8, Final) = Machine(Put(R, 2, t), Store(M, t, v), n, H)
    BY MeansAlu
  <1> HIDE DEF v, Q, p, n
  <1>7. Leads(s, Machine(Q, M, p, H), PushInsts(RR), Machine(Put(Q, 2, t), Store(M, t, v), n, H))
    BY <1>1, <1>2, <1>3, Pushed
  <1>8. Leads(s, Machine(R, M, P, H), insts \o PushInsts(RR), Machine(Put(Q, 2, t), Store(M, t, v), n, H))
    BY <1>4, <1>7, LeadsOn
  <1> HIDE DEF t
  <1> QED
    BY <1>5, <1>6, <1>8, AchievedBut

(* Popping to a register that is not the stack pointer.                    *)
LEMMA Popped ==
  ASSUME NEW s, NEW R, Ready(s, R), NEW M, NEW P \in Word, NEW H,
         DOMAIN s.args = 1 .. 1, s.args[1].type = "REG", s.op = "POP"
  PROVE  Achieves(s, R, M, P, H, <<Inst("LD4", RegOf(1), SP, Num(0)), Inst("ADDI", SP, SP, Num(4))>>, 8)
  <1> DEFINE r == s.args[1].reg
             f == Fetch(M, R[2])
             Q == Put(R, r, f)
             a == Inst("LD4", RegOf(1), SP, Num(0))
             b == Inst("ADDI", SP, SP, Num(4))
             z == Machine(Put(Q, 2, Truncate(R[2] + 4)), M, Truncate(P + 8), H)
  <1>1. 1 \in DOMAIN s.args /\ RegFile(R) /\ r # 2 /\ 2 \in DOMAIN R /\ At(s, SP) = 2 /\ R[2] \in Word
    <2>1. 2 \in 0 .. 4
      OBVIOUS
    <2> QED
      BY <2>1, PlacesMade DEF Ready, StackClash, RegFile
  <1>2. At(s, RegOf(1)) = r /\ r \in DOMAIN R
    BY <1>1, RegOperand
  <1>3. Q[2] = R[2] /\ Truncate(R[2] + 0) = R[2]
    BY <1>1, <1>2, PutElse, Onward
  <1>4. Truncate(Truncate(P + 4) + 4) = Truncate(P + 8)
    <2>1. 4 + 4 = 8
      OBVIOUS
    <2> QED
      BY <2>1, Further
  <1>5. Meaning(Machine(R, M, P, H), s, 8, Final) = z
    BY MeansAlu
  <1>6. Do(s, Machine(R, M, P, H), a) = Machine(Q, M, Truncate(P + 4), H)
    BY <1>1, <1>2, <1>3, SmallSums
  <1> HIDE DEF Q, r, f
  <1>7. Do(s, Machine(Q, M, Truncate(P + 4), H), b) = z
    BY <1>1, <1>3, <1>4, SmallSums
  <1> HIDE DEF z, a, b
  <1>8. Leads(s, Machine(R, M, P, H), <<a, b>>, z)
    BY <1>6, <1>7, LeadsTwo
  <1> QED
    BY <1>5, <1>8, Achieved DEF a, b

(* The frame of a function.                                                *)
LEMMA LeadsFour ==
  ASSUME NEW s, NEW m0, NEW m1, NEW m2, NEW m3, NEW m4, NEW a, NEW b, NEW c, NEW d,
         Do(s, m0, a) = m1, Do(s, m1, b) = m2, Do(s, m2, c) = m3, Do(s, m3, d) = m4
  PROVE  Leads(s, m0, <<a, b, c, d>>, m4)
  <1>1. Leads(s, m0, <<a, b>>, m2) /\ Leads(s, m2, <<c, d>>, m4)
    BY LeadsTwo
  <1>3. <<a, b, c, d>> = <<a, b>> \o <<c, d>>
    BY JoinedTuples
  <1>2. Leads(s, m0, <<a, b>> \o <<c, d>>, m4)
    BY <1>1, LeadsOn
  <1> QED
    BY <1>2, <1>3, Zenon

(* `entry` saves the frame pointer and the return address, and makes room. *)
LEMMA FrameEntered ==
  ASSUME NEW s, NEW R, Ready(s, R), NEW M, NEW P \in Word, NEW H,
         DOMAIN s.args = 1 .. 1, s.op = "ENTRY", Matches(s.args[1], "CONST_ANY")
  PROVE  Achieves(s, R, M, P, H, EntryInsts, 28)
  <1> DEFINE e8 == Truncate(R[2] + -8)
             e4 == Truncate(R[2] + -4)
             v == OperandIs(s, R, 1)
             e0 == Truncate((R[2] - 8) - v)
             A == Put(R, 2, e8)
             B == Put(A, 3, e8)
             C == Put(B, Reserved, v)
             D == Put(C, 2, e0)
             M1 == Store(M, e4, R[3])
             M2 == Store(M1, e8, R[1])
             p1 == Truncate(P + 4)
             p2 == Truncate(P + 8)
             p3 == Truncate(P + 12)
             p4 == Truncate(P + 16)
             p6 == Truncate(P + 24)
             p7 == Truncate(P + 28)
             m == Machine(R, M, P, H)
  <1>1. /\ 1 \in DOMAIN s.args /\ RegFile(R) /\ R[2] \in Word /\ R[2] \in Int /\ P \in Int
        /\ 1 \in DOMAIN R /\ 2 \in DOMAIN R /\ 3 \in DOMAIN R /\ Reserved \in DOMAIN R
        /\ Reserved # 0 /\ Reserved # 1 /\ Reserved # 2 /\ Reserved # 3
    <2>1. 1 \in 0 .. 4 /\ 2 \in 0 .. 4 /\ 3 \in 0 .. 4
      OBVIOUS
    <2>2. Reserved # 0 /\ Reserved # 1 /\ Reserved # 2 /\ Reserved # 3
      BY DEF Reserved
    <2> QED
      BY <2>1, <2>2, WordInt DEF Ready, RegFile
  <1>2. At(s, SP) = 2 /\ At(s, FP) = 3 /\ At(s, RA) = 1 /\ At(s, RR) = Reserved
    BY PlacesMade
  <1>3. v = Truncate(Constant(s, 1)) /\ v \in Word /\ v \in Int
    BY <1>1, Wanted, ConstOperand, WordInt
  <1>4. /\ R[2] - 8 = R[2] + -8 /\ R[2] + -8 \in Int /\ (R[2] + -8) + 4 = R[2] + -4
        /\ -v \in Int /\ e8 \in Word /\ e8 \in Int /\ e8 - v = e8 + -v /\ (R[2] + -8) + -v = (R[2] - 8) - v
    <2>1. /\ R[2] - 8 = R[2] + -8 /\ R[2] + -8 \in Int /\ (R[2] + -8) + 4 = R[2] + -4
          /\ -v \in Int /\ (R[2] + -8) + -v = (R[2] - 8) - v
      BY <1>1, <1>3
    <2>2. e8 \in Word
      BY <2>1, SignedPlus
    <2>3. e8 \in Int
      BY <2>2, WordInt
    <2> HIDE DEF e8, v
    <2>4. e8 - v = e8 + -v
      BY <1>3, <2>3
    <2> QED
      BY <2>1, <2>2, <2>3, <2>4
  <1>5. Truncate(e8 + 4) = e4 /\ Truncate(e8 + 0) = e8 /\ Truncate(e8 - v) = e0
    <2> DEFINE w == R[2] + -8
               u == -v
    <2>0. w \in Int /\ u \in Int /\ e8 = Truncate(w) /\ w + 4 = R[2] + -4 /\ w + u = (R[2] - 8) - v /\ e8 - v = e8 + u
      BY <1>4
    <2> HIDE DEF w, u, e8
    <2>1. Truncate(e8 + 4) = Truncate(w + 4)
      BY <2>0, TruncateLate
    <2>2. Truncate(e8 + u) = Truncate(w + u)
      BY <2>0, TruncateLate
    <2>3. Truncate(e8 + 0) = e8
      BY <1>4, Onward
    <2> HIDE DEF v
    <2> QED
      BY <2>0, <2>1, <2>2, <2>3
  <1>6. Truncate(p1 + 4) = p2 /\ Truncate(p2 + 4) = p3 /\ Truncate(p3 + 4) = p4
        /\ Truncate(p4 + 8) = p6 /\ Truncate(p6 + 4) = p7 /\ p4 \in Word /\ p4 \in Int
    <2>1. 4 + 4 = 8 /\ 8 + 4 = 12 /\ 12 + 4 = 16 /\ 16 + 8 = 24 /\ 24 + 4 = 28
      OBVIOUS
    <2>2. p4 \in Word
      BY Onward
    <2> QED
      BY <2>1, <2>2, Further, WordInt
  <1>11. Meaning(m, s, 28, Final) = Machine(Put(Put(R, 3, e8), 2, e0), M2, p7, H)
    BY MeansFrame
  <1> HIDE DEF e8, e4, e0, v, p1, p2, p3, p4, p6, p7
  <1>7. /\ RegFile(A) /\ DOMAIN A = DOMAIN R /\ A[2] = e8 /\ A[3] = R[3] /\ A[1] = R[1]
    <2>1. RegFile(A) /\ DOMAIN A = DOMAIN R
      BY <1>1, <1>4, PutIs
    <2>2. A[2] = e8 /\ A[3] = R[3] /\ A[1] = R[1]
      BY <1>1, PutElse
    <2> QED
      BY <2>1, <2>2
  <1>8. RegFile(B) /\ DOMAIN B = DOMAIN R /\ B[2] = e8
    <2> HIDE DEF A
    <2> QED
      BY <1>1, <1>4, <1>7, PutIs, PutElse
  <1>9. C[2] = e8 /\ C[Reserved] = v /\ SameRegs(C, B)
    <2> HIDE DEF B
    <2> QED
      BY <1>1, <1>8, Kept
  <1>10. SameRegs(D, Put(Put(R, 3, e8), 2, e0))
    <2>1. SameRegs(D, Put(B, 2, e0))
      BY <1>9, SameIs
    <2>2. Put(B, 2, e0) = Put(Put(R, 3, e8), 2, e0)
      <3> DEFINE E == Put(R, 3, e8)
      <3>1. RegFile(E) /\ DOMAIN E = DOMAIN R
        BY <1>1, <1>4, PutIs
      <3>2. \A q \in DOMAIN R : B[q] = IF q = 3 THEN e8 ELSE IF q = 2 THEN e8 ELSE R[q]
        BY <1>1, <1>7, PutElse
      <3>3. \A q \in DOMAIN R : E[q] = IF q = 3 THEN e8 ELSE R[q]
        BY <1>1, PutElse
      <3> HIDE DEF B, E
      <3>4. Put(B, 2, e0) = [q \in DOMAIN R |-> IF q = 2 THEN e0 ELSE B[q]]
        <4>1. B = [q \in DOMAIN R |-> B[q]]
          BY <1>8 DEF RegFile
        <4> QED
          BY <4>1 DEF Put
      <3>5. Put(E, 2, e0) = [q \in DOMAIN R |-> IF q = 2 THEN e0 ELSE E[q]]
        <4>1. E = [q \in DOMAIN R |-> E[q]]
          BY <3>1 DEF RegFile
        <4> QED
          BY <4>1 DEF Put
      <3> QED
        BY <3>2, <3>3, <3>4, <3>5 DEF E
    <2> QED
      BY <2>1, <2>2
  <1> HIDE DEF A, B, C, D, M1, M2
  <1> DEFINE a == Inst("SUBI", SP, SP, Num(8))
             b == Inst("ST4", FP, SP, Num(4))
             c == Inst("ST4", RA, SP, Num(0))
             d == Inst("ADDI", FP, SP, Num(0))
             e == Inst("SUB", SP, SP, RR)
  <1>12. Do(s, m, a) = Machine(A, M, p1, H)
    BY <1>2, <1>4, SmallSums DEF A, e8, p1
  <1>13. Do(s, Machine(A, M, p1, H), b) = Machine(A, M1, p2, H)
    BY <1>2, <1>5, <1>6, <1>7, SmallSums DEF M1
  <1>14. Do(s, Machine(A, M1, p2, H), c) = Machine(A, M2, p3, H)
    BY <1>2, <1>5, <1>6, <1>7, SmallSums DEF M2
  <1>15. Do(s, Machine(A, M2, p3, H), d) = Machine(B, M2, p4, H)
    BY <1>2, <1>5, <1>6, <1>7, SmallSums DEF B
  <1>16. Leads(s, Machine(B, M2, p4, H), Load32(RR, 1), Machine(C, M2, p6, H))
    <2>1. Truncate(p4 + 8) = p6
      BY <1>6
    <2> QED
      BY <1>1, <1>2, <1>3, <1>6, <1>8, <2>1, Loading32 DEF C
  <1>17. Do(s, Machine(C, M2, p6, H), e) = Machine(D, M2, p7, H)
    BY <1>2, <1>5, <1>6, <1>9, SumsMade DEF D
  <1> DEFINE z == Machine(D, M2, p7, H)
  <1> HIDE DEF a, b, c, d, e, z, m
  <1>18. Leads(s, m, <<a, b, c, d>>, Machine(B, M2, p4, H))
    BY <1>12, <1>13, <1>14, <1>15, LeadsFour
  <1>19. Leads(s, Machine(C, M2, p6, H), <<e>>, z)
    BY <1>17, LeadsOne DEF z
  <1>20. Leads(s, m, (<<a, b, c, d>> \o Load32(RR, 1)) \o <<e>>, z)
    BY <1>16, <1>18, <1>19, LeadsOn
  <1>21. EntryInsts = (<<a, b, c, d>> \o Load32(RR, 1)) \o <<e>>
    BY DEF EntryInsts, a, b, c, d, e
  <1> QED
    BY <1>10, <1>11, <1>20, <1>21, AchievedBut DEF m, z

(* The instructions of `return` restore what `entry` saved.                *)
LEMMA FrameLeft ==
  ASSUME NEW s, NEW R, Ready(s, R), NEW Q, RegFile(Q), NEW M, NEW P, NEW H
  PROVE  LET back == Truncate(Fetch(M, Q[3]) + 4)
         IN  Leads(s, Machine(Q, M, P, H), ReturnInsts,
                   Machine(Put(Put(Put(Q, 1, back), 2, Truncate(Q[3] + 8)), 3, Fetch(M, Truncate(Q[3] + 4))),
                           M, back, H))
  <1> DEFINE fp == Q[3]
             f0 == Fetch(M, fp)
             f4 == Fetch(M, Truncate(fp + 4))
             back == Truncate(f0 + 4)
             A == Put(Q, 2, fp)
             B == Put(A, 1, f0)
             C == Put(B, 1, back)
             D == Put(C, 3, f4)
             E == Put(D, 2, Truncate(fp + 8))
             F == Put(Put(Put(Q, 1, back), 2, Truncate(fp + 8)), 3, f4)
  <1>1. 0 \in DOMAIN Q /\ 1 \in DOMAIN Q /\ 2 \in DOMAIN Q /\ 3 \in DOMAIN Q /\ fp \in Word /\ Q[0] = 0
    <2>1. 0 \in 0 .. 4 /\ 1 \in 0 .. 4 /\ 2 \in 0 .. 4 /\ 3 \in 0 .. 4
      OBVIOUS
    <2> QED
      BY <2>1 DEF RegFile
  <1>2. At(s, SP) = 2 /\ At(s, FP) = 3 /\ At(s, RA) = 1 /\ At(s, R0) = 0
    BY PlacesMade
  <1>3. Truncate(fp + 0) = fp
    BY <1>1, Onward
  <1>4. \A K, r, v : K = [q \in DOMAIN Q |-> K[q]] /\ r \in DOMAIN Q /\ r # 0 =>
           /\ Put(K, r, v) = [q \in DOMAIN Q |-> Put(K, r, v)[q]]
           /\ \A q \in DOMAIN Q : Put(K, r, v)[q] = IF q = r THEN v ELSE K[q]
    <2> SUFFICES ASSUME NEW K, NEW r, NEW v, K = [q \in DOMAIN Q |-> K[q]], r \in DOMAIN Q, r # 0
                 PROVE  /\ Put(K, r, v) = [q \in DOMAIN Q |-> Put(K, r, v)[q]]
                        /\ \A q \in DOMAIN Q : Put(K, r, v)[q] = IF q = r THEN v ELSE K[q]
      OBVIOUS
    <2>1. Put(K, r, v) = [q \in DOMAIN Q |-> IF q = r THEN v ELSE K[q]]
      BY DEF Put
    <2> QED
      BY <2>1
  <1>5. Q = [q \in DOMAIN Q |-> Q[q]]
    BY DEF RegFile
  <1> HIDE DEF fp, f0, f4, back
  <1>6. A = [q \in DOMAIN Q |-> A[q]] /\ \A q \in DOMAIN Q : A[q] = IF q = 2 THEN fp ELSE Q[q]
    BY <1>1, <1>4, <1>5
  <1> HIDE DEF A
  <1>7. B = [q \in DOMAIN Q |-> B[q]] /\ \A q \in DOMAIN Q : B[q] = IF q = 1 THEN f0 ELSE A[q]
    BY <1>1, <1>4, <1>6
  <1> HIDE DEF B
  <1>8. C = [q \in DOMAIN Q |-> C[q]] /\ \A q \in DOMAIN Q : C[q] = IF q = 1 THEN back ELSE B[q]
    BY <1>1, <1>4, <1>7
  <1> HIDE DEF C
  <1>9. D = [q \in DOMAIN Q |-> D[q]] /\ \A q \in DOMAIN Q : D[q] = IF q = 3 THEN f4 ELSE C[q]
    BY <1>1, <1>4, <1>8
  <1> HIDE DEF D
  <1>10. E = [q \in DOMAIN Q |-> E[q]] /\ \A q \in DOMAIN Q : E[q] = IF q = 2 THEN Truncate(fp + 8) ELSE D[q]
    BY <1>1, <1>4, <1>9
  <1> HIDE DEF E
  <1>11. F = [q \in DOMAIN Q |-> F[q]] /\ \A q \in DOMAIN Q :
           F[q] = IF q = 3 THEN f4 ELSE IF q = 2 THEN Truncate(fp + 8) ELSE IF q = 1 THEN back ELSE Q[q]
    <2> DEFINE X == Put(Q, 1, back)
               Y == Put(X, 2, Truncate(fp + 8))
    <2>1. X = [q \in DOMAIN Q |-> X[q]] /\ \A q \in DOMAIN Q : X[q] = IF q = 1 THEN back ELSE Q[q]
      BY <1>1, <1>4, <1>5
    <2> HIDE DEF X
    <2>2. Y = [q \in DOMAIN Q |-> Y[q]] /\ \A q \in DOMAIN Q : Y[q] = IF q = 2 THEN Truncate(fp + 8) ELSE X[q]
      BY <1>1, <1>4, <2>1
    <2> HIDE DEF Y
    <2>3. F = Put(Y, 3, f4)
      BY DEF X, Y
    <2> HIDE DEF F
    <2>4. F = [q \in DOMAIN Q |-> F[q]] /\ \A q \in DOMAIN Q : F[q] = IF q = 3 THEN f4 ELSE Y[q]
      BY <1>1, <1>4, <2>2, <2>3
    <2> QED
      BY <2>1, <2>2, <2>4
  <1> HIDE DEF F
  <1>12. E = F
    BY <1>6, <1>7, <1>8, <1>9, <1>10, <1>11
  <1>13. /\ A[2] = fp /\ B[1] = f0 /\ C[2] = fp /\ D[2] = fp /\ E[0] = 0 /\ E[1] = back
    BY <1>1, <1>6, <1>7, <1>8, <1>9, <1>10
  <1> DEFINE a == Inst("ADDI", SP, FP, Num(0))
             b == Inst("LD4", RA, SP, Num(0))
             c == Inst("ADDI", RA, RA, Num(4))
             d == Inst("LD4", FP, SP, Num(4))
             e == Inst("ADDI", SP, SP, Num(8))
             f == Inst("JEZ", R0, R0, RA)
             p1 == Truncate(P + 4)
             p2 == Truncate(p1 + 4)
             p3 == Truncate(p2 + 4)
             p4 == Truncate(p3 + 4)
             p5 == Truncate(p4 + 4)
             m == Machine(Q, M, P, H)
             z == Machine(F, M, back, H)
  <1>14. Do(s, m, a) = Machine(A, M, p1, H)
    BY <1>2, <1>3, SmallSums DEF A, fp
  <1>15. Do(s, Machine(A, M, p1, H), b) = Machine(B, M, p2, H)
    BY <1>2, <1>3, <1>13, SmallSums DEF B, f0
  <1>16. Do(s, Machine(B, M, p2, H), c) = Machine(C, M, p3, H)
    BY <1>2, <1>13, SmallSums DEF C, back
  <1>17. Do(s, Machine(C, M, p3, H), d) = Machine(D, M, p4, H)
    BY <1>2, <1>13, SmallSums DEF D, f4
  <1>18. Do(s, Machine(D, M, p4, H), e) = Machine(E, M, p5, H)
    BY <1>2, <1>13, SmallSums DEF E
  <1>19. Do(s, Machine(E, M, p5, H), f) = z
    <2>1. "JEZ" \in Used
      BY DEF Used
    <2>2. Put(E, 0, p5) = E
      BY DEF Put
    <2> HIDE DEF p5
    <2> QED
      BY <1>2, <1>12, <1>13, <2>1, <2>2, Jumps
  <1> HIDE DEF a, b, c, d, e, f, m, z, p1, p2, p3, p4, p5
  <1>20. Leads(s, m, <<a, b, c, d>>, Machine(D, M, p4, H))
    BY <1>14, <1>15, <1>16, <1>17, LeadsFour
  <1>21. Leads(s, Machine(D, M, p4, H), <<e, f>>, z)
    BY <1>18, <1>19, LeadsTwo
  <1>22. Leads(s, m, <<a, b, c, d>> \o <<e, f>>, z)
    BY <1>20, <1>21, LeadsOn
  <1>23. ReturnInsts = <<a, b, c, d>> \o <<e, f>>
    BY JoinedTuples DEF ReturnInsts, a, b, c, d, e, f
  <1> QED
    BY <1>22, <1>23 DEF m, z, F, back, f0, f4, fp
-----------------------------------------------------------------------------
(***************************************************************************)
(* Returning from a call, with a value or without.                         *)
(***************************************************************************)

(* `return`, and `return` with a value that was put in its register first. *)
LEMMA Returned ==
  ASSUME NEW s, NEW R, Ready(s, R), NEW M, NEW P \in Word, NEW H, s.op = "RETURN", s.args = <<>>
  PROVE  Achieves(s, R, M, P, H, ReturnInsts, 24)
  <1> DEFINE back == Truncate(Fetch(M, R[3]) + 4)
             z == Machine(Put(Put(Put(R, 1, back), 2, Truncate(R[3] + 8)), 3, Fetch(M, Truncate(R[3] + 4))),
                          M, back, H)
  <1>1. RegFile(R)
    BY DEF Ready
  <1>2. Leads(s, Machine(R, M, P, H), ReturnInsts, z)
    BY <1>1, FrameLeft
  <1>3. Meaning(Machine(R, M, P, H), s, 24, Final) = z
    BY MeansFrame
  <1> HIDE DEF z
  <1> QED
    BY <1>2, <1>3, Achieved

LEMMA ReturnedWith ==
  ASSUME NEW s, NEW R, Ready(s, R), NEW M, NEW P, NEW p, NEW H, NEW insts, NEW used,
         s.op = "RETURN", s.args # <<>>, NEW v, v = OperandIs(s, R, 1), v \in Word,
         Leads(s, Machine(R, M, P, H), insts, Machine(Put(R, 4, v), M, p, H))
  PROVE  Achieves(s, R, M, P, H, insts \o ReturnInsts, used)
  <1> DEFINE Q == Put(R, 4, v)
             back == Truncate(Fetch(M, R[3]) + 4)
             b == Truncate(R[3] + 8)
             c == Fetch(M, Truncate(R[3] + 4))
             A == Put(Put(Put(Q, 1, back), 2, b), 3, c)
             B == Put(Put(Put(Put(R, 1, back), 2, b), 3, c), 4, v)
             z == Machine(A, M, back, H)
  <1>1. RegFile(R) /\ 1 \in DOMAIN R /\ 2 \in DOMAIN R /\ 3 \in DOMAIN R /\ 4 \in DOMAIN R
    <2>1. 1 \in 0 .. 4 /\ 2 \in 0 .. 4 /\ 3 \in 0 .. 4 /\ 4 \in 0 .. 4
      OBVIOUS
    <2> QED
      BY <2>1 DEF Ready, RegFile
  <1>2. RegFile(Q) /\ Q[3] = R[3]
    BY <1>1, PutIs, PutElse
  <1>3. Leads(s, Machine(Q, M, p, H), ReturnInsts, z)
    <2> HIDE DEF Q
    <2> QED
      BY <1>2, FrameLeft
  <1>4. Leads(s, Machine(R, M, P, H), insts \o ReturnInsts, z)
    <2> HIDE DEF z
    <2> QED
      BY <1>3, LeadsOn
  <1>5. Meaning(Machine(R, M, P, H), s, used, Final) = Machine(B, M, back, H)
    BY MeansFrame
  <1>6. A = B
    <2>1. \A K, r, x : K = [q \in DOMAIN R |-> K[q]] /\ r \in DOMAIN R /\ r # 0 =>
             /\ Put(K, r, x) = [q \in DOMAIN R |-> Put(K, r, x)[q]]
             /\ \A q \in DOMAIN R : Put(K, r, x)[q] = IF q = r THEN x ELSE K[q]
      <3> SUFFICES ASSUME NEW K, NEW r, NEW x, K = [q \in DOMAIN R |-> K[q]], r \in DOMAIN R, r # 0
                   PROVE  /\ Put(K, r, x) = [q \in DOMAIN R |-> Put(K, r, x)[q]]
                          /\ \A q \in DOMAIN R : Put(K, r, x)[q] = IF q = r THEN x ELSE K[q]
        OBVIOUS
      <3>1. Put(K, r, x) = [q \in DOMAIN R |-> IF q = r THEN x ELSE K[q]]
        BY DEF Put
      <3> QED
        BY <3>1
    <2> HIDE DEF back, b, c
    <2> DEFINE Q1 == Put(Q, 1, back)
               Q2 == Put(Q1, 2, b)
               Q3 == Put(Q2, 3, c)
               R1 == Put(R, 1, back)
               R2 == Put(R1, 2, b)
               R3 == Put(R2, 3, c)
               R4 == Put(R3, 4, v)
    <2>2. R = [q \in DOMAIN R |-> R[q]]
      BY <1>1 DEF RegFile
    <2>3. Q = [q \in DOMAIN R |-> Q[q]] /\ \A q \in DOMAIN R : Q[q] = IF q = 4 THEN v ELSE R[q]
      BY <1>1, <2>1, <2>2
    <2>4. R1 = [q \in DOMAIN R |-> R1[q]] /\ \A q \in DOMAIN R : R1[q] = IF q = 1 THEN back ELSE R[q]
      BY <1>1, <2>1, <2>2
    <2>10. A = Q3 /\ B = R4
      OBVIOUS
    <2> HIDE DEF Q, R1, A, B
    <2>5. Q1 = [q \in DOMAIN R |-> Q1[q]] /\ \A q \in DOMAIN R : Q1[q] = IF q = 1 THEN back ELSE Q[q]
      BY <1>1, <2>1, <2>3
    <2>6. R2 = [q \in DOMAIN R |-> R2[q]] /\ \A q \in DOMAIN R : R2[q] = IF q = 2 THEN b ELSE R1[q]
      BY <1>1, <2>1, <2>4
    <2> HIDE DEF Q1, R2
    <2>7. Q2 = [q \in DOMAIN R |-> Q2[q]] /\ \A q \in DOMAIN R : Q2[q] = IF q = 2 THEN b ELSE Q1[q]
      BY <1>1, <2>1, <2>5
    <2>8. R3 = [q \in DOMAIN R |-> R3[q]] /\ \A q \in DOMAIN R : R3[q] = IF q = 3 THEN c ELSE R2[q]
      BY <1>1, <2>1, <2>6
    <2> HIDE DEF Q2, R3
    <2>9. Q3 = [q \in DOMAIN R |-> Q3[q]] /\ \A q \in DOMAIN R : Q3[q] = IF q = 3 THEN c ELSE Q2[q]
      BY <1>1, <2>1, <2>7
    <2>11. R4 = [q \in DOMAIN R |-> R4[q]] /\ \A q \in DOMAIN R : R4[q] = IF q = 4 THEN v ELSE R3[q]
      BY <1>1, <2>1, <2>8
    <2> HIDE DEF Q3, R4
    <2>12. \A q \in DOMAIN R : Q3[q] = R4[q]
      BY <2>3, <2>4, <2>5, <2>6, <2>7, <2>8, <2>9, <2>11
    <2> QED
      BY <2>9, <2>10, <2>11, <2>12
  <1> HIDE DEF A, B, back
  <1> QED
    BY <1>4, <1>5, <1>6, Achieved

(* The value is a register's, or a constant.                               *)
LEMMA ReturnedRegister ==
  ASSUME NEW s, NEW R, Ready(s, R), NEW M, NEW P \in Word, NEW H, NEW used,
         s.op = "RETURN", DOMAIN s.args = 1 .. 1, s.args[1].type = "REG"
  PROVE  Achieves(s, R, M, P, H, <<Inst("ADDI", RV, RegOf(1), Num(0))>> \o ReturnInsts, used)
  <1> DEFINE v == OperandIs(s, R, 1)
             i == Inst("ADDI", RV, RegOf(1), Num(0))
             z == Machine(Put(R, 4, v), M, Truncate(P + 4), H)
  <1>1. 1 \in DOMAIN s.args /\ s.args # <<>>
    OBVIOUS
  <1>2. At(s, RegOf(1)) = s.args[1].reg /\ At(s, RV) = 4
        /\ v = R[s.args[1].reg] /\ R[s.args[1].reg] \in Word
    BY <1>1, RegOperand, PlacesMade
  <1>3. Truncate(R[s.args[1].reg] + 0) = v
    BY <1>2, Onward
  <1> HIDE DEF v
  <1>4. Do(s, Machine(R, M, P, H), i) = z
    BY <1>2, <1>3, SmallSums
  <1> HIDE DEF i, z
  <1>5. Leads(s, Machine(R, M, P, H), <<i>>, z)
    BY <1>4, LeadsOne
  <1>6. Achieves(s, R, M, P, H, <<i>> \o ReturnInsts, used)
    BY <1>1, <1>2, <1>5, ReturnedWith DEF v, z
  <1> QED
    BY <1>6 DEF i

LEMMA ReturnedConstant ==
  ASSUME NEW s, NEW R, Ready(s, R), NEW M, NEW P \in Word, NEW H, NEW used,
         s.op = "RETURN", DOMAIN s.args = 1 .. 1
  PROVE  /\ Matches(s.args[1], "CONST16") => Achieves(s, R, M, P, H, Load16(RV, 1) \o ReturnInsts, used)
         /\ Matches(s.args[1], "CONST_ANY") => Achieves(s, R, M, P, H, Load32(RV, 1) \o ReturnInsts, used)
  <1> DEFINE v == OperandIs(s, R, 1)
  <1>1. 1 \in DOMAIN s.args /\ s.args # <<>> /\ RegFile(R) /\ P \in Int /\ 4 \in DOMAIN R /\ At(s, RV) = 4
    <2>1. 4 \in 0 .. 4 /\ 1 \in DOMAIN s.args /\ s.args # <<>>
      OBVIOUS
    <2>2. At(s, RV) = 4 /\ P \in Int
      BY WordInt, PlacesMade
    <2>3. RegFile(R)
      BY DEF Ready
    <2> QED
      BY <2>1, <2>2, <2>3 DEF RegFile
  <1>2. ASSUME s.args[1].type # "REG"
        PROVE  v = Truncate(Constant(s, 1)) /\ v \in Word
    BY <1>1, <1>2, ConstOperand
  <1>3. ASSUME Matches(s.args[1], "CONST16")
        PROVE  Achieves(s, R, M, P, H, Load16(RV, 1) \o ReturnInsts, used)
    <2>1. s.args[1].type = "INT" /\ Fits(s.args[1].val, HwordSize)
      BY <1>3, Wanted
    <2>2. v = Truncate(Constant(s, 1)) /\ v \in Word
      BY <1>2, <2>1
    <2> HIDE DEF v
    <2>3. Leads(s, Machine(R, M, P, H), Load16(RV, 1), Machine(Put(R, 4, v), M, Truncate(P + 4), H))
      BY <1>1, <2>1, <2>2, Loading16
    <2> QED
      BY <1>1, <2>2, <2>3, ReturnedWith DEF v
  <1>4. ASSUME Matches(s.args[1], "CONST_ANY")
        PROVE  Achieves(s, R, M, P, H, Load32(RV, 1) \o ReturnInsts, used)
    <2>1. v = Truncate(Constant(s, 1)) /\ v \in Word
      BY <1>2, <1>4, Wanted
    <2> HIDE DEF v
    <2>2. Leads(s, Machine(R, M, P, H), Load32(RV, 1), Machine(Put(R, 4, v), M, Truncate(P + 8), H))
      BY <1>1, <2>1, Loading32
    <2> QED
      BY <1>1, <2>1, <2>2, ReturnedWith DEF v
  <1> QED
    BY <1>3, <1>4
-----------------------------------------------------------------------------
(***************************************************************************)
(* The table of the forms: each form is right, or another one comes before *)
(* it whenever it would be taken.                                          *)
(***************************************************************************)

(* A form that is right does what its operation is for, and has the size of*)
(* its instructions.  A piece of a form is a known number of instructions. *)
Right(f) ==
  \A s, R, M, P, H :
    Ready(s, R) /\ P \in Word /\ MatchTypes(s, f) =>
      f.size = 4 * Len(f.insts) /\ Achieves(s, R, M, P, H, f.insts, f.size)
AllRight(q)  == \E T : q \in Seq(T) /\ \A f \in T : Right(f)
Counts(x, n) == (\E V : x \in Seq(V)) /\ Len(x) = n

(* How many instructions the pieces of the forms are.                      *)
LEMMA Counted ==
  /\ \A a : Counts(<<a>>, 1)
  /\ \A a, b : Counts(<<a, b>>, 2)
  /\ \A x, y : \A m, n \in Nat : Counts(x, m) /\ Counts(y, n) => Counts(x \o y, m + n)
  /\ \A r, i : Counts(Load16(r, i), 1) /\ Counts(Load32(r, i), 2)
  /\ \A op : Counts(Using(op), 1) /\ Counts(Using2(op), 1)
  /\ \A r : Counts(PushInsts(r), 2)
  /\ Counts(EntryInsts, 7) /\ Counts(ReturnInsts, 6)
  <1>1. ASSUME NEW a PROVE Counts(<<a>>, 1)
    <2> DEFINE V == {a}
               x == <<a>>
    <2>1. x \in Seq(V) /\ Len(x) = 1
      OBVIOUS
    <2> HIDE DEF V, x
    <2> QED
      BY <2>1 DEF Counts, x
  <1>2. ASSUME NEW x, NEW y, NEW m \in Nat, NEW n \in Nat, Counts(x, m), Counts(y, n)
        PROVE  Counts(x \o y, m + n)
    <2>1. PICK V, W : x \in Seq(V) /\ y \in Seq(W)
      BY <1>2 DEF Counts
    <2>2. x \o y \in Seq(V \cup W)
      BY <2>1, SeqJoins
    <2>3. Len(x \o y) = m + n
      BY <1>2, <2>1 DEF Counts
    <2> QED
      BY <2>2, <2>3 DEF Counts
  <1>3. ASSUME NEW a, NEW b PROVE Counts(<<a, b>>, 2)
    <2> DEFINE V == {a, b}
               x == <<a, b>>
    <2>1. x \in Seq(V) /\ Len(x) = 2
      OBVIOUS
    <2> HIDE DEF V, x
    <2> QED
      BY <2>1 DEF Counts, x
  <1>4. ASSUME NEW a, NEW b, NEW c, NEW d PROVE Counts(<<a, b, c, d>>, 4)
    <2> DEFINE V == {a, b, c, d}
               x == <<a, b, c, d>>
    <2>1. x \in Seq(V) /\ Len(x) = 4
      OBVIOUS
    <2> HIDE DEF V, x
    <2> QED
      BY <2>1 DEF Counts, x
  <1>5. \A r, i : Counts(Load16(r, i), 1) /\ Counts(Load32(r, i), 2)
    BY <1>1, <1>3 DEF Load16, Load32
  <1>6. \A op : Counts(Using(op), 1) /\ Counts(Using2(op), 1)
    BY <1>1 DEF Using, Using2
  <1>7. \A r : Counts(PushInsts(r), 2)
    BY <1>3 DEF PushInsts
  <1>8. Counts(EntryInsts, 7)
    <2> DEFINE a == <<Inst("SUBI", SP, SP, Num(8)), Inst("ST4", FP, SP, Num(4)),
                      Inst("ST4", RA, SP, Num(0)), Inst("ADDI", FP, SP, Num(0))>>
               b == Load32(RR, 1)
               c == <<Inst("SUB", SP, SP, RR)>>
    <2>1. Counts(a, 4) /\ Counts(b, 2) /\ Counts(c, 1)
      BY <1>1, <1>4, <1>5
    <2>2. EntryInsts = (a \o b) \o c
      BY DEF EntryInsts
    <2> HIDE DEF a, b, c
    <2>3. Counts(a \o b, 6)
      <3>1. Counts(a \o b, 4 + 2)
        BY <1>2, <2>1
      <3> QED
        BY <3>1
    <2>4. Counts((a \o b) \o c, 6 + 1)
      BY <1>2, <2>1, <2>3
    <2> QED
      BY <2>2, <2>4
  <1>9. Counts(ReturnInsts, 6)
    <2> DEFINE a == Inst("ADDI", SP, FP, Num(0))
               b == Inst("LD4", RA, SP, Num(0))
               c == Inst("ADDI", RA, RA, Num(4))
               d == Inst("LD4", FP, SP, Num(4))
               e == Inst("ADDI", SP, SP, Num(8))
               f == Inst("JEZ", R0, R0, RA)
    <2>1. ReturnInsts = <<a, b, c, d, e, f>>
      BY DEF ReturnInsts
    <2> HIDE DEF a, b, c, d, e, f
    <2>2. ReturnInsts = <<a, b, c, d>> \o <<e, f>>
      BY <2>1, JoinedTuples
    <2>3. Counts(<<a, b, c, d>> \o <<e, f>>, 4 + 2)
      BY <1>2, <1>3, <1>4
    <2> QED
      BY <2>2, <2>3
  <1> QED
    BY <1>1, <1>2, <1>3, <1>5, <1>6, <1>7, <1>8, <1>9

(* A form whose instructions do what they are for is right, since its size *)
(* is theirs.                                                              *)
LEMMA RightForm ==
  ASSUME NEW op, NEW args, NEW insts, NEW n \in Nat, NEW k, k = 4 * n, Counts(insts, n),
         \A s, R, M, P, H :
           Ready(s, R) /\ P \in Word /\ MatchTypes(s, Form(op, args, insts)) =>
             Achieves(s, R, M, P, H, insts, k)
  PROVE  Right(Form(op, args, insts))
  <1> DEFINE f == Form(op, args, insts)
  <1>1. f.insts = insts /\ f.size = 4 * Len(insts) /\ f.size = k
    BY DEF Form, Counts
  <1> HIDE DEF f
  <1> QED
    BY <1>1 DEF Right, f

(* Lists of right forms.                                                   *)
LEMMA RightLists ==
  /\ \A f : Right(f) => AllRight(<<f>>)
  /\ \A f, g : Right(f) /\ Right(g) => AllRight(<<f, g>>)
  /\ \A q, r : AllRight(q) /\ AllRight(r) => AllRight(q \o r)
  <1>1. ASSUME NEW f, Right(f) PROVE AllRight(<<f>>)
    <2> DEFINE T == {f}
    <2>1. <<f>> \in Seq(T) /\ \A x \in T : Right(x)
      BY <1>1
    <2> HIDE DEF T
    <2> QED
      BY <2>1 DEF AllRight
  <1>2. ASSUME NEW f, NEW g, Right(f), Right(g) PROVE AllRight(<<f, g>>)
    <2> DEFINE T == {f, g}
    <2>1. <<f, g>> \in Seq(T) /\ \A x \in T : Right(x)
      BY <1>2
    <2> HIDE DEF T
    <2> QED
      BY <2>1 DEF AllRight
  <1>3. ASSUME NEW q, NEW r, AllRight(q), AllRight(r) PROVE AllRight(q \o r)
    <2>1. PICK T : q \in Seq(T) /\ \A f \in T : Right(f)
      BY <1>3 DEF AllRight
    <2>2. PICK U : r \in Seq(U) /\ \A f \in U : Right(f)
      BY <1>3 DEF AllRight
    <2>3. q \o r \in Seq(T \cup U) /\ \A f \in T \cup U : Right(f)
      BY <2>1, <2>2, SeqJoins
    <2> QED
      BY <2>3 DEF AllRight
  <1> QED
    BY <1>1, <1>2, <1>3

(* What the operands of a statement are that a form takes.                 *)
LEMMA Takes ==
  ASSUME NEW s, NEW R, Ready(s, R), NEW op, NEW args, NEW insts, NEW n \in Nat,
         NEW V, args \in Seq(V), Len(args) = n, MatchTypes(s, Form(op, args, insts))
  PROVE  s.op = op /\ DOMAIN s.args = 1 .. n /\ \A i \in 1 .. n : Matches(s.args[i], args[i])
  <1>1. s.args \in Seq(ArgRec)
    BY DEF Ready, StmntRec
  <1>2. Len(s.args) \in Nat /\ DOMAIN s.args = 1 .. Len(s.args)
    BY <1>1
  <1> DEFINE f == Form(op, args, insts)
  <1>3. f.op = op /\ f.args = args
    BY DEF Form
  <1> HIDE DEF f
  <1>4. s.op = op /\ Len(s.args) = n /\ \A i \in DOMAIN s.args : Matches(s.args[i], args[i])
    BY <1>3 DEF MatchTypes, f
  <1> QED
    BY <1>2, <1>4

(* What a form with three operands takes, and with two, one and none.      *)
LEMMA TakesThree ==
  ASSUME NEW s, NEW R, Ready(s, R), NEW op, NEW a, NEW b, NEW c, NEW insts,
         MatchTypes(s, Form(op, <<a, b, c>>, insts))
  PROVE  s.op = op /\ DOMAIN s.args = 1 .. 3
         /\ Matches(s.args[1], a) /\ Matches(s.args[2], b) /\ Matches(s.args[3], c)
  <1> DEFINE args == <<a, b, c>>
  <1>1. args \in Seq({a, b, c}) /\ Len(args) = 3 /\ args[1] = a /\ args[2] = b /\ args[3] = c
    OBVIOUS
  <1> HIDE DEF args
  <1>2. MatchTypes(s, Form(op, args, insts))
    BY DEF args
  <1>3. s.op = op /\ DOMAIN s.args = 1 .. 3 /\ \A i \in 1 .. 3 : Matches(s.args[i], args[i])
    BY <1>1, <1>2, Takes
  <1>4. 1 \in 1 .. 3 /\ 2 \in 1 .. 3 /\ 3 \in 1 .. 3
    OBVIOUS
  <1> QED
    BY <1>1, <1>3, <1>4

LEMMA TakesTwo ==
  ASSUME NEW s, NEW R, Ready(s, R), NEW op, NEW a, NEW b, NEW insts,
         MatchTypes(s, Form(op, <<a, b>>, insts))
  PROVE  s.op = op /\ DOMAIN s.args = 1 .. 2 /\ Matches(s.args[1], a) /\ Matches(s.args[2], b)
  <1> DEFINE args == <<a, b>>
  <1>1. args \in Seq({a, b}) /\ Len(args) = 2 /\ args[1] = a /\ args[2] = b
    OBVIOUS
  <1> HIDE DEF args
  <1>2. MatchTypes(s, Form(op, args, insts))
    BY DEF args
  <1>3. s.op = op /\ DOMAIN s.args = 1 .. 2 /\ \A i \in 1 .. 2 : Matches(s.args[i], args[i])
    BY <1>1, <1>2, Takes
  <1>4. 1 \in 1 .. 2 /\ 2 \in 1 .. 2
    OBVIOUS
  <1> QED
    BY <1>1, <1>3, <1>4

LEMMA TakesOne ==
  ASSUME NEW s, NEW R, Ready(s, R), NEW op, NEW a, NEW insts,
         MatchTypes(s, Form(op, <<a>>, insts))
  PROVE  s.op = op /\ DOMAIN s.args = 1 .. 1 /\ Matches(s.args[1], a)
  <1> DEFINE args == <<a>>
  <1>1. args \in Seq({a}) /\ Len(args) = 1 /\ args[1] = a
    OBVIOUS
  <1> HIDE DEF args
  <1>2. MatchTypes(s, Form(op, args, insts))
    BY DEF args
  <1>3. s.op = op /\ DOMAIN s.args = 1 .. 1 /\ \A i \in 1 .. 1 : Matches(s.args[i], args[i])
    BY <1>1, <1>2, Takes
  <1> QED
    BY <1>1, <1>3

LEMMA TakesNone ==
  ASSUME NEW s, NEW R, Ready(s, R), NEW op, NEW insts, MatchTypes(s, Form(op, <<>>, insts))
  PROVE  s.op = op /\ s.args = <<>>
  <1> DEFINE f == Form(op, <<>>, insts)
  <1>1. f.op = op /\ Len(f.args) = 0
    BY DEF Form
  <1> HIDE DEF f
  <1>2. s.op = op /\ Len(s.args) = 0
    BY <1>1 DEF MatchTypes, f
  <1>3. s.args \in Seq(ArgRec)
    BY DEF Ready, StmntRec
  <1> QED
    BY <1>2, <1>3
-----------------------------------------------------------------------------
(***************************************************************************)
(* The forms of the operations on a register and a constant.               *)
(***************************************************************************)

(* The n instructions that load a constant of a kind.                      *)
Loader(w, x, i, n) ==
  \/ w = "CONST16" /\ x = Load16(RR, i) /\ n = 1
  \/ w = "CONST_ANY" /\ x = Load32(RR, i) /\ n = 2

(* There are two ways to load a constant.                                  *)
LEMMA Loaders ==
  /\ \A i : Loader("CONST16", Load16(RR, i), i, 1) /\ Loader("CONST_ANY", Load32(RR, i), i, 2)
  /\ \A w, x, i, n : Loader(w, x, i, n) => n \in Nat /\ Counts(x, n)
  BY Counted DEF Loader

(* Either brings a constant it is for to the register kept for it.         *)
LEMMA ConstantLoaded ==
  ASSUME NEW s, NEW R, Ready(s, R), NEW M, NEW P \in Word, NEW H, NEW i \in DOMAIN s.args,
         NEW w, NEW x, NEW n, Loader(w, x, i, n), Matches(s.args[i], w)
  PROVE  Brings(s, R, M, P, H, x, i, 4 * n) /\ OperandIs(s, R, i) \in Word
  <1>1. s.args[i].type # "REG"
    BY Wanted DEF Loader
  <1>2. OperandIs(s, R, i) \in Word
    BY <1>1, ConstOperand
  <1>3. 4 * 1 = 4 /\ 4 * 2 = 8
    OBVIOUS
  <1>4. Brings(s, R, M, P, H, x, i, 4 * n)
    <2>1. CASE w = "CONST16" /\ x = Load16(RR, i) /\ n = 1
      BY <1>3, <2>1, Brought
    <2>2. CASE w = "CONST_ANY" /\ x = Load32(RR, i) /\ n = 2
      BY <1>3, <2>2, Brought
    <2> QED
      BY <2>1, <2>2 DEF Loader
  <1> QED
    BY <1>2, <1>4

(* Instructions behind instructions.                                       *)
LEMMA Counting ==
  ASSUME NEW x, NEW y, NEW n \in Nat, NEW k \in Nat, Counts(x, n), Counts(y, k)
  PROVE  n + k \in Nat /\ Counts(x \o y, n + k) /\ 4 * n \in Nat /\ 4 * n + 4 * k = 4 * (n + k)
  BY Counted

(* Arithmetic.                                                             *)
LEMMA LastRight ==
  ASSUME NEW op, NEW imm \in Immediate \cup Logical, BaseOp[imm] = op, op \in ThreeRegister,
         NEW w, NEW x, NEW n, Loader(w, x, 3, n)
  PROVE  Right(Form(imm, RRC(w), x \o Using(op)))
  <1> DEFINE y == x \o Using(op)
             k == 4 * n + 4
  <1>1. n \in Nat /\ Counts(x, n) /\ Counts(Using(op), 1)
    BY Loaders, Counted
  <1>2. n + 1 \in Nat /\ Counts(y, n + 1) /\ 4 * n \in Nat /\ k = 4 * (n + 1)
    <2>1. Counts(x \o Using(op), n + 1)
      BY <1>1, Counting
    <2> QED
      BY <1>1, <2>1
  <1>3. ASSUME NEW s, NEW R, NEW M, NEW P, NEW H, Ready(s, R), P \in Word, MatchTypes(s, Form(imm, RRC(w), y))
        PROVE  Achieves(s, R, M, P, H, y, k)
    <2>1. s.op = imm /\ DOMAIN s.args = 1 .. 3 /\ Matches(s.args[1], "REG") /\ Matches(s.args[2], "REG")
          /\ Matches(s.args[3], w)
      BY <1>3, TakesThree DEF RRC
    <2>2. s.args[1].type = "REG" /\ s.args[2].type = "REG" /\ 3 \in DOMAIN s.args
      BY <2>1, Wanted
    <2>3. Brings(s, R, M, P, H, x, 3, 4 * n) /\ OperandIs(s, R, 3) \in Word
      BY <1>3, <2>1, <2>2, ConstantLoaded
    <2>4. BaseOp[s.op] = op /\ s.op \in Immediate \cup Logical
      BY <2>1
    <2> DEFINE j == 4 * n
    <2>5. j \in Nat /\ k = j + 4
      BY <1>2
    <2> HIDE DEF j, k
    <2>6. Achieves(s, R, M, P, H, x \o Using(BaseOp[s.op]), j + 4)
      BY <1>3, <2>1, <2>2, <2>3, <2>4, <2>5, LastConstant DEF j
    <2> QED
      BY <2>4, <2>5, <2>6
  <1> HIDE DEF y, k
  <1>4. Right(Form(imm, RRC(w), y))
    BY <1>2, <1>3, RightForm
  <1> QED
    BY <1>4 DEF y

(* An operation on a constant and a register.                              *)
LEMMA MiddleRight ==
  ASSUME NEW op, NEW imm \in Immediate \cup Logical, BaseOp[imm] = op, op \in ThreeRegister,
         NEW w, NEW x, NEW n, Loader(w, x, 2, n)
  PROVE  Right(Form(imm, RCR(w), x \o Using2(op)))
  <1> DEFINE y == x \o Using2(op)
             k == 4 * n + 4
  <1>1. n \in Nat /\ Counts(x, n) /\ Counts(Using2(op), 1)
    BY Loaders, Counted
  <1>2. n + 1 \in Nat /\ Counts(y, n + 1) /\ 4 * n \in Nat /\ k = 4 * (n + 1)
    <2>1. Counts(x \o Using2(op), n + 1)
      BY <1>1, Counting
    <2> QED
      BY <1>1, <2>1
  <1>3. ASSUME NEW s, NEW R, NEW M, NEW P, NEW H, Ready(s, R), P \in Word, MatchTypes(s, Form(imm, RCR(w), y))
        PROVE  Achieves(s, R, M, P, H, y, k)
    <2>1. s.op = imm /\ DOMAIN s.args = 1 .. 3 /\ Matches(s.args[1], "REG") /\ Matches(s.args[3], "REG")
          /\ Matches(s.args[2], w)
      BY <1>3, TakesThree DEF RCR
    <2>2. s.args[1].type = "REG" /\ s.args[3].type = "REG" /\ 2 \in DOMAIN s.args
      BY <2>1, Wanted
    <2>3. Brings(s, R, M, P, H, x, 2, 4 * n) /\ OperandIs(s, R, 2) \in Word
      BY <1>3, <2>1, <2>2, ConstantLoaded
    <2>4. BaseOp[s.op] = op /\ s.op \in Immediate \cup Logical
      BY <2>1
    <2> DEFINE j == 4 * n
    <2>5. j \in Nat /\ k = j + 4
      BY <1>2
    <2> HIDE DEF j, k
    <2>6. Achieves(s, R, M, P, H, x \o Using2(BaseOp[s.op]), j + 4)
      BY <1>3, <2>1, <2>2, <2>3, <2>4, <2>5, MiddleConstant DEF j
    <2> QED
      BY <2>4, <2>5, <2>6
  <1> HIDE DEF y, k
  <1>4. Right(Form(imm, RCR(w), y))
    BY <1>2, <1>3, RightForm
  <1> QED
    BY <1>4 DEF y

(* The forms for constants that are not bytes.                             *)
LEMMA WiderRight ==
  ASSUME NEW op, NEW imm \in Immediate \cup Logical, BaseOp[imm] = op, op \in ThreeRegister
  PROVE  AllRight(Wider(op, imm))
  BY LastRight, Loaders, RightLists DEF Wider

(* The forms with the constant before the register.                        *)
LEMMA MiddlesRight ==
  ASSUME NEW op, NEW imm \in Immediate \cup Logical, BaseOp[imm] = op, op \in ThreeRegister
  PROVE  AllRight(Middle(op, imm))
  BY MiddleRight, Loaders, RightLists DEF Middle

(* The forms with the register before the constant.                        *)
LEMMA NarrowRight ==
  ASSUME NEW op, NEW imm \in Immediate, BaseOp[imm] = op, op \in ThreeRegister
  PROVE  AllRight(Narrow(op, imm))
  <1> DEFINE i == Inst(imm, RegOf(1), RegOf(2), Byte(3, 0))
  <1>1. ASSUME NEW s, NEW R, NEW M, NEW P, NEW H, Ready(s, R), P \in Word,
               MatchTypes(s, Form(imm, RRC("CONST8"), <<i>>))
        PROVE  Achieves(s, R, M, P, H, <<i>>, 4)
    <2>1. s.op = imm /\ DOMAIN s.args = 1 .. 3 /\ Matches(s.args[1], "REG") /\ Matches(s.args[2], "REG")
          /\ Matches(s.args[3], "CONST8")
      BY <1>1, TakesThree DEF RRC
    <2>2. s.args[1].type = "REG" /\ s.args[2].type = "REG"
      BY <2>1, Wanted
    <2> QED
      BY <1>1, <2>1, <2>2, SmallConstant
  <1> HIDE DEF i
  <1>2. Right(Form(imm, RRC("CONST8"), <<i>>))
    <2>1. Counts(<<i>>, 1) /\ 4 = 4 * 1 /\ 1 \in Nat
      BY Counted
    <2> QED
      BY <1>1, <2>1, RightForm
  <1>3. Narrow(op, imm) = <<Form(imm, RRC("CONST8"), <<i>>)>> \o Wider(op, imm)
    BY DEF Narrow, i, Inst
  <1>4. AllRight(Wider(op, imm))
    BY WiderRight
  <1> QED
    BY <1>2, <1>3, <1>4, RightLists

(* The forms of the shifts with the constant in the middle: what fits the  *)
(* first of them is one of the known departures.                           *)
LEMMA ShiftRight ==
  ASSUME NEW op, NEW imm \in {"SHRI", "SHRUI", "SHLI"}, BaseOp[imm] = op, op \in ThreeRegister
  PROVE  /\ Right(MiddleShift(op, imm)[1])
         /\ imm # "SHRI" => Right(MiddleShift(op, imm)[2])
  <1> DEFINE y == Load16(RR, 3) \o Using2(op)
             f == Form(imm, RCR("CONST16"), y)
             g == Form(imm, IF imm = "SHRI" THEN RRC("CONST_ANY") ELSE RCR("CONST_ANY"),
                       Load32(RR, 2) \o Using2(op))
  <1>1. ASSUME NEW s, NEW R, Ready(s, R), MatchTypes(s, f) PROVE FALSE
    <2>1. s.op = imm /\ DOMAIN s.args = 1 .. 3 /\ Matches(s.args[2], "CONST16")
      BY <1>1, TakesThree DEF RCR
    <2>2. s.args[2].type = "INT"
      BY <2>1, Wanted
    <2>3. s.args \in Seq(ArgRec)
      BY <1>1 DEF Ready, StmntRec
    <2>4. Len(s.args) = 3
      <3> DEFINE n == Len(s.args)
      <3>1. n \in Nat /\ DOMAIN s.args = 1 .. n
        BY <2>3
      <3>2. 1 .. n = 1 .. 3
        BY <2>1, <3>1
      <3> HIDE DEF n
      <3>3. 3 \in 1 .. n
        BY <3>2
      <3>4. n >= 3
        BY <3>1, <3>3
      <3>5. n \in 1 .. n
        BY <3>1, <3>4
      <3>6. n \in 1 .. 3
        BY <3>2, <3>5
      <3>7. n = 3
        BY <3>4, <3>6
      <3> QED
        BY <3>7 DEF n
    <2>5. Arg1(s) = s.args[2]
      BY <2>4 DEF Arg1
    <2> QED
      BY <1>1, <2>1, <2>2, <2>5 DEF Ready, WrongForm
  <1>2. Right(f)
    <2> HIDE DEF f
    <2> QED
      BY <1>1 DEF Right
  <1>3. imm # "SHRI" => Right(g)
    <2>1. imm \in Immediate \cup Logical
      BY DEF Immediate
    <2> QED
      BY <2>1, MiddleRight, Loaders
  <1>4. MiddleShift(op, imm) = <<f, g>>
    BY DEF MiddleShift
  <1> HIDE DEF f, g
  <1> QED
    BY <1>2, <1>3, <1>4
-----------------------------------------------------------------------------
(***************************************************************************)
(* The forms of the comparisons, branches, jumps and shifts; and lists of  *)
(* forms of which some are never taken.                                    *)
(***************************************************************************)

(* The comparisons the machine does not have.                              *)
LEMMA OrdersRight ==
  ASSUME NEW op \in Orders, NEW native, BaseOp[op] = native
  PROVE  AllRight(Swapped(op, native))
  <1> DEFINE i == Inst(native, RegOf(1), RegOf(3), RegOf(2))
             args == <<"REG", "REG", "REG">>
  <1>1. ASSUME NEW s, NEW R, NEW M, NEW P, NEW H, Ready(s, R), P \in Word, MatchTypes(s, Form(op, args, <<i>>))
        PROVE  Achieves(s, R, M, P, H, <<i>>, 4)
    <2>1. s.op = op /\ DOMAIN s.args = 1 .. 3 /\ Matches(s.args[1], "REG") /\ Matches(s.args[2], "REG")
          /\ Matches(s.args[3], "REG")
      BY <1>1, TakesThree
    <2>2. s.args[1].type = "REG" /\ s.args[2].type = "REG" /\ s.args[3].type = "REG"
      BY <2>1, Wanted
    <2>3. \A k \in 1 .. 3 : k = 1 \/ k = 2 \/ k = 3
      OBVIOUS
    <2>4. \A k \in 1 .. 3 : s.args[k].type = "REG"
      BY <2>2, <2>3
    <2> QED
      BY <1>1, <2>1, <2>4, TurnedRound
  <1> HIDE DEF i
  <1>2. Right(Form(op, args, <<i>>))
    <2>1. Counts(<<i>>, 1) /\ 4 = 4 * 1 /\ 1 \in Nat
      BY Counted
    <2> HIDE DEF args
    <2> QED
      BY <1>1, <2>1, RightForm
  <1>3. Swapped(op, native) = <<Form(op, args, <<i>>)>>
    BY DEF Swapped, i, Inst
  <1> QED
    BY <1>2, <1>3, RightLists

(* The branches to a place nearby.                                         *)
LEMMA BranchesRight ==
  ASSUME NEW op \in {"BEZI", "BNZI"}
  PROVE  AllRight(Branch16(op))
  <1> DEFINE i == Inst(op, RegOf(1), Byte(2, 1), Byte(2, 0))
             args == <<"REG", "CONST16">>
  <1>1. ASSUME NEW s, NEW R, NEW M, NEW P, NEW H, Ready(s, R), P \in Word, MatchTypes(s, Form(op, args, <<i>>))
        PROVE  Achieves(s, R, M, P, H, <<i>>, 4)
    <2>1. s.op = op /\ DOMAIN s.args = 1 .. 2 /\ Matches(s.args[1], "REG") /\ Matches(s.args[2], "CONST16")
      BY <1>1, TakesTwo
    <2>2. s.args[1].type = "REG"
      BY <2>1, Wanted
    <2> QED
      BY <1>1, <2>1, <2>2, BranchedTo
  <1> HIDE DEF i
  <1>2. Right(Form(op, args, <<i>>))
    <2>1. Counts(<<i>>, 1) /\ 4 = 4 * 1 /\ 1 \in Nat
      BY Counted
    <2> HIDE DEF args
    <2> QED
      BY <1>1, <2>1, RightForm
  <1>3. Branch16(op) = <<Form(op, args, <<i>>)>>
    BY DEF Branch16, i, Inst
  <1> QED
    BY <1>2, <1>3, RightLists

(* The jumps on a condition.                                               *)
LEMMA JumpsRight ==
  ASSUME NEW op, NEW native,
         \/ op = "JEZI" /\ native = "JEZ"
         \/ op = "JNZI" /\ native = "JNZ"
  PROVE  AllRight(Jump(op, native))
  <1> DEFINE i == Inst(native, R0, RegOf(1), RR)
             args == <<"REG", "CONST_ANY">>
             x == Load32(RR, 2)
             y == x \o <<i>>
  <1>1. Loader("CONST_ANY", x, 2, 2) /\ Counts(y, 3)
    <2>1. Counts(x, 2) /\ Counts(<<i>>, 1)
      BY Counted
    <2> HIDE DEF x, i
    <2>2. Counts(x \o <<i>>, 2 + 1)
      BY <2>1, Counting
    <2> QED
      BY <2>2, Loaders DEF x
  <1>2. ASSUME NEW s, NEW R, NEW M, NEW P, NEW H, Ready(s, R), P \in Word, MatchTypes(s, Form(op, args, y))
        PROVE  Achieves(s, R, M, P, H, y, 12)
    <2>1. s.op = op /\ DOMAIN s.args = 1 .. 2 /\ Matches(s.args[1], "REG") /\ Matches(s.args[2], "CONST_ANY")
      BY <1>2, TakesTwo
    <2>2. s.args[1].type = "REG" /\ 2 \in DOMAIN s.args
      BY <2>1, Wanted
    <2> HIDE DEF x
    <2>3. Brings(s, R, M, P, H, x, 2, 8) /\ OperandIs(s, R, 2) \in Word
      <3>1. 4 * 2 = 8
        OBVIOUS
      <3>2. Brings(s, R, M, P, H, x, 2, 4 * 2) /\ OperandIs(s, R, 2) \in Word
        BY <1>1, <1>2, <2>1, <2>2, ConstantLoaded
      <3> QED
        BY <3>1, <3>2
    <2>4. 8 \in Nat /\ 8 + 4 = 12
      OBVIOUS
    <2>5. /\ op = "JEZI" => Achieves(s, R, M, P, H, x \o <<Inst("JEZ", R0, RegOf(1), RR)>>, 8 + 4)
          /\ op = "JNZI" => Achieves(s, R, M, P, H, x \o <<Inst("JNZ", R0, RegOf(1), RR)>>, 8 + 4)
      BY <1>2, <2>1, <2>2, <2>3, <2>4, JumpedTo
    <2> QED
      BY <2>4, <2>5
  <1> HIDE DEF y
  <1>3. Right(Form(op, args, y))
    <2>1. 12 = 4 * 3 /\ 3 \in Nat
      OBVIOUS
    <2> HIDE DEF args
    <2> QED
      BY <1>1, <1>2, <2>1, RightForm
  <1>4. Jump(op, native) = <<Form(op, args, y)>>
    BY DEF Jump, Inst, y
  <1> QED
    BY <1>3, <1>4, RightLists

(* The shifts of a constant.                                               *)
LEMMA ShiftsRight ==
  ASSUME NEW op, NEW imm \in {"SHRUI", "SHLI"}, BaseOp[imm] = op, op \in ThreeRegister
  PROVE  AllRight(MiddleShift(op, imm))
  <1>1. Right(MiddleShift(op, imm)[1]) /\ Right(MiddleShift(op, imm)[2])
    BY ShiftRight
  <1>2. MiddleShift(op, imm) = <<MiddleShift(op, imm)[1], MiddleShift(op, imm)[2]>>
    BY DEF MiddleShift
  <1> QED
    BY <1>1, <1>2, RightLists

(* Forms that are right, or whose statements fit one that comes before.    *)
Covers(g, f) == \A s : MatchTypes(s, f) => MatchTypes(s, g)
Fine(q) ==
  /\ \E T : q \in Seq(T)
  /\ \A i \in 1 .. Len(q) : Right(q[i]) \/ \E j \in 1 .. i - 1 : Covers(q[j], q[i])

(* Lists of right forms are fine, and so are fine lists one behind the     *)
(* other.                                                                  *)
LEMMA FineJoins ==
  /\ \A q : AllRight(q) => Fine(q)
  /\ \A q, r : Fine(q) /\ Fine(r) => Fine(q \o r)
  <1>1. ASSUME NEW q, AllRight(q) PROVE Fine(q)
    <2>1. PICK T : q \in Seq(T) /\ \A f \in T : Right(f)
      BY <1>1 DEF AllRight
    <2>2. \A i \in 1 .. Len(q) : q[i] \in T
      BY <2>1
    <2> QED
      BY <2>1, <2>2 DEF Fine
  <1>2. ASSUME NEW q, NEW r, Fine(q), Fine(r) PROVE Fine(q \o r)
    <2> DEFINE z == q \o r
               a == Len(q)
               b == Len(r)
    <2>1. PICK T, U : q \in Seq(T) /\ r \in Seq(U)
      BY <1>2 DEF Fine
    <2>2. z \in Seq(T \cup U)
      BY <2>1, SeqJoins
    <2>3. /\ a \in Nat /\ b \in Nat /\ Len(z) = a + b
          /\ \A k \in 1 .. a : z[k] = q[k]
          /\ \A k \in a + 1 .. a + b : z[k] = r[k - a]
      BY <2>1
    <2>4. /\ \A i \in 1 .. a : Right(q[i]) \/ \E j \in 1 .. i - 1 : Covers(q[j], q[i])
          /\ \A i \in 1 .. b : Right(r[i]) \/ \E j \in 1 .. i - 1 : Covers(r[j], r[i])
      BY <1>2 DEF Fine
    <2> HIDE DEF z, a, b
    <2>5. ASSUME NEW i \in 1 .. a + b
          PROVE  Right(z[i]) \/ \E j \in 1 .. i - 1 : Covers(z[j], z[i])
      <3>1. CASE i <= a
        <4>1. i \in 1 .. a /\ z[i] = q[i]
          BY <2>3, <3>1
        <4>2. \A j \in 1 .. i - 1 : j \in 1 .. a /\ z[j] = q[j]
          BY <2>3, <3>1
        <4> QED
          BY <2>4, <4>1, <4>2
      <3>2. CASE i > a
        <4>1. i - a \in 1 .. b /\ z[i] = r[i - a]
          BY <2>3, <3>2
        <4>2. \A j \in 1 .. (i - a) - 1 : j + a \in 1 .. i - 1 /\ z[j + a] = r[j]
          <5> SUFFICES ASSUME NEW j \in 1 .. (i - a) - 1 PROVE j + a \in 1 .. i - 1 /\ z[j + a] = r[j]
            OBVIOUS
          <5>1. j + a \in a + 1 .. a + b /\ j + a \in 1 .. i - 1 /\ (j + a) - a = j
            BY <2>3, <3>2
          <5> QED
            BY <2>3, <5>1
        <4>3. CASE Right(r[i - a])
          BY <4>1, <4>3
        <4>4. CASE \E j \in 1 .. (i - a) - 1 : Covers(r[j], r[i - a])
          BY <4>1, <4>2, <4>4
        <4> QED
          BY <2>4, <4>1, <4>3, <4>4
      <3> QED
        BY <2>3, <3>1, <3>2
    <2>6. Fine(z)
      BY <2>2, <2>3, <2>5 DEF Fine
    <2> QED
      BY <2>6 DEF z
  <1> QED
    BY <1>1, <1>2
-----------------------------------------------------------------------------
(***************************************************************************)
(* The forms of the arithmetic together.                                   *)
(***************************************************************************)

JoinAt(z, x, y, a, b) ==
  /\ a \in Nat /\ b \in Nat /\ Len(z) = a + b
  /\ \A k \in 1 .. a : z[k] = x[k]
  /\ \A k \in a + 1 .. a + b : z[k] = y[k - a]

(* What a sequence behind another is.                                      *)
LEMMA JoinIs ==
  ASSUME NEW V, NEW W, NEW x \in Seq(V), NEW y \in Seq(W)
  PROVE  JoinAt(x \o y, x, y, Len(x), Len(y))
  BY DEF JoinAt

(* The last form of SHRI, for a constant in the middle, has its operands   *)
(* the wrong way round: it takes none, since an earlier form takes what it *)
(* would.                                                                  *)
LEMMA ShriFine == Fine(Narrow("SHR", "SHRI") \o MiddleShift("SHR", "SHRI"))
  <1> DEFINE x == <<Form("SHRI", RRC("CONST8"), <<<<Op("SHRI"), RegOf(1), RegOf(2), Byte(3, 0)>>>>)>>
             b == Form("SHRI", RRC("CONST16"), Load16(RR, 3) \o Using("SHR"))
             c == Form("SHRI", RRC("CONST_ANY"), Load32(RR, 3) \o Using("SHR"))
             f == MiddleShift("SHR", "SHRI")[1]
             g == Form("SHRI", RRC("CONST_ANY"), Load32(RR, 2) \o Using2("SHR"))
             q == Narrow("SHR", "SHRI")
             r == MiddleShift("SHR", "SHRI")
             z == q \o r
  <1>1. "SHRI" \in Immediate /\ BaseOp["SHRI"] = "SHR" /\ "SHR" \in ThreeRegister
    BY DEF Immediate, BaseOp, ThreeRegister
  <1>2. AllRight(q) /\ Right(f)
    BY <1>1, NarrowRight, ShiftRight
  <1>3. Covers(c, g)
    <2>1. c.op = g.op /\ c.args = g.args
      BY DEF Form
    <2> HIDE DEF c, g
    <2> QED
      BY <2>1 DEF Covers, MatchTypes
  <1>4. q = x \o <<b, c>>
    BY DEF Narrow, Wider
  <1>5. r = <<f, g>>
    BY DEF MiddleShift
  <1>6. PICK X : x \in Seq(X) /\ Len(x) = 1
    <2> DEFINE e == Form("SHRI", RRC("CONST8"), <<<<Op("SHRI"), RegOf(1), RegOf(2), Byte(3, 0)>>>>)
    <2>1. x = <<e>>
      OBVIOUS
    <2> HIDE DEF e, x
    <2>2. <<e>> \in Seq({e}) /\ Len(<<e>>) = 1
      OBVIOUS
    <2> QED
      BY <2>1, <2>2
  <1> HIDE DEF x, b, c, f, g, q, r
  <1>7. PICK T : q \in Seq(T) /\ \A y \in T : Right(y)
    BY <1>2 DEF AllRight
  <1>8. Len(q) = 3 /\ q[3] = c
    <2> DEFINE v == <<b, c>>
               V == {b, c}
    <2>1. v \in Seq(V) /\ Len(v) = 2 /\ v[2] = c /\ q = x \o v
      BY <1>4
    <2> HIDE DEF v, V
    <2>4. JoinAt(q, x, v, 1, 2)
      BY <1>6, <2>1, JoinIs
    <2>2. Len(q) = 1 + 2 /\ \A k \in 1 + 1 .. 1 + 2 : q[k] = v[k - 1]
      BY <2>4 DEF JoinAt
    <2>3. 3 \in 1 + 1 .. 1 + 2 /\ 3 - 1 = 2 /\ 1 + 2 = 3
      OBVIOUS
    <2> QED
      BY <2>1, <2>2, <2>3
  <1>9. r \in Seq({f, g}) /\ Len(r) = 2 /\ r[1] = f /\ r[2] = g
    BY <1>5
  <1> DEFINE U == {f, g}
  <1>10. r \in Seq(U)
    BY <1>9
  <1> HIDE DEF U
  <1>11. z \in Seq(T \cup U)
    BY <1>7, <1>10, SeqJoins
  <1>12. Len(z) = 5 /\ (\A i \in 1 .. 3 : z[i] = q[i]) /\ z[4] = f /\ z[5] = g
    <2>1. Len(z) = 5 /\ (\A i \in 1 .. 3 : z[i] = q[i]) /\ \A i \in 4 .. 5 : z[i] = r[i - 3]
      <3>1. /\ Len(z) = 3 + 2 /\ (\A i \in 1 .. 3 : z[i] = q[i])
            /\ \A i \in 3 + 1 .. 3 + 2 : z[i] = r[i - 3]
        <4>1. JoinAt(z, q, r, 3, 2)
          BY <1>7, <1>8, <1>9, <1>10, JoinIs
        <4> HIDE DEF z
        <4> QED
          BY <4>1 DEF JoinAt
      <3>2. 3 + 1 = 4 /\ 3 + 2 = 5
        OBVIOUS
      <3> HIDE DEF z
      <3> QED
        BY <3>1, <3>2
    <2>2. z[4] = r[4 - 3] /\ z[5] = r[5 - 3] /\ 4 - 3 = 1 /\ 5 - 3 = 2
      <3>1. 4 \in 4 .. 5 /\ 5 \in 4 .. 5 /\ 4 - 3 = 1 /\ 5 - 3 = 2
        OBVIOUS
      <3> HIDE DEF z
      <3> QED
        BY <2>1, <3>1
    <2> HIDE DEF z
    <2> QED
      BY <1>9, <2>1, <2>2
  <1>13. \A i \in 1 .. 3 : Right(q[i])
    <2>1. \A i \in 1 .. 3 : q[i] \in T
      BY <1>7, <1>8
    <2> QED
      BY <1>7, <2>1
  <1> HIDE DEF z
  <1>14. ASSUME NEW i \in 1 .. 5 PROVE Right(z[i]) \/ \E j \in 1 .. i - 1 : Covers(z[j], z[i])
    <2>1. CASE i \in 1 .. 3
      BY <1>12, <1>13, <2>1
    <2>2. CASE i = 4
      BY <1>2, <1>12, <2>2
    <2>3. CASE i = 5
      <3>1. 3 \in 1 .. i - 1 /\ 3 \in 1 .. 3
        BY <2>3
      <3> QED
        BY <1>3, <1>8, <1>12, <2>3, <3>1
    <2> QED
      BY <2>1, <2>2, <2>3
  <1>15. Fine(z)
    BY <1>11, <1>12, <1>14 DEF Fine
  <1> QED
    BY <1>15 DEF z, q, r

(* All the arithmetic.                                                     *)
LEMMA ArithmeticFine == Fine(IntegerForms) /\ Fine(ShiftForms) /\ Fine(OtherForms) /\ Fine(OrderForms)
  <1>1. /\ BaseOp["ADDI"] = "ADD" /\ BaseOp["SUBI"] = "SUB" /\ BaseOp["MULI"] = "MUL"
        /\ BaseOp["DIVI"] = "DIV" /\ BaseOp["MODI"] = "MOD" /\ BaseOp["SHRUI"] = "SHRU"
        /\ BaseOp["SHLI"] = "SHL" /\ BaseOp["ADDIO"] = "ADDO" /\ BaseOp["SUBIO"] = "SUBO"
        /\ BaseOp["MULIO"] = "MULO" /\ BaseOp["ORI"] = "OR" /\ BaseOp["NORI"] = "NOR"
        /\ BaseOp["XORI"] = "XOR" /\ BaseOp["ANDI"] = "AND"
        /\ BaseOp["LTS"] = "GTS" /\ BaseOp["LES"] = "GES" /\ BaseOp["LTU"] = "GTU" /\ BaseOp["LEU"] = "GEU"
    BY DEF BaseOp
  <1>2. /\ {"ADDI", "SUBI", "MULI", "DIVI", "MODI", "SHRUI", "SHLI", "ADDIO", "SUBIO", "MULIO"} \subseteq Immediate
        /\ {"ADDI", "SUBI", "MULI", "DIVI", "MODI", "SHRUI", "SHLI", "ADDIO", "SUBIO", "MULIO",
            "ORI", "NORI", "XORI", "ANDI"} \subseteq Immediate \cup Logical
        /\ {"ADD", "SUB", "MUL", "DIV", "MOD", "SHRU", "SHL", "ADDO", "SUBO", "MULO", "OR", "NOR",
            "XOR", "AND"} \subseteq ThreeRegister
        /\ {"LTS", "LES", "LTU", "LEU"} \subseteq Orders
    BY DEF Immediate, Logical, ThreeRegister, Orders
  <1>3. /\ AllRight(Narrow("ADD", "ADDI")) /\ AllRight(Narrow("SUB", "SUBI")) /\ AllRight(Narrow("MUL", "MULI"))
        /\ AllRight(Narrow("DIV", "DIVI")) /\ AllRight(Narrow("MOD", "MODI"))
    BY <1>1, <1>2, NarrowRight
  <1>4. AllRight(Middle("DIV", "DIVI")) /\ AllRight(Middle("MOD", "MODI"))
    BY <1>1, <1>2, MiddlesRight
  <1>5. AllRight(Narrow("SHRU", "SHRUI")) /\ AllRight(Narrow("SHL", "SHLI"))
    BY <1>1, <1>2, NarrowRight
  <1>6. AllRight(MiddleShift("SHRU", "SHRUI")) /\ AllRight(MiddleShift("SHL", "SHLI"))
    BY <1>1, <1>2, ShiftsRight
  <1>7. AllRight(Narrow("ADDO", "ADDIO")) /\ AllRight(Narrow("SUBO", "SUBIO")) /\ AllRight(Narrow("MULO", "MULIO"))
    BY <1>1, <1>2, NarrowRight
  <1>8. AllRight(Wider("OR", "ORI")) /\ AllRight(Wider("NOR", "NORI"))
        /\ AllRight(Wider("XOR", "XORI")) /\ AllRight(Wider("AND", "ANDI"))
    BY <1>1, <1>2, WiderRight
  <1>9. AllRight(Swapped("LTS", "GTS")) /\ AllRight(Swapped("LES", "GES"))
        /\ AllRight(Swapped("LTU", "GTU")) /\ AllRight(Swapped("LEU", "GEU"))
    BY <1>1, <1>2, OrdersRight
  <1>10. AllRight(Branch16("BEZI")) /\ AllRight(Branch16("BNZI"))
    BY BranchesRight
  <1>11. \A q, r : Fine(q) /\ Fine(r) => Fine(q \o r)
    BY FineJoins
  <1>12. \A q : AllRight(q) => Fine(q)
    BY FineJoins
  <1>13. Fine(IntegerForms)
    <2>1. /\ Fine(Narrow("ADD", "ADDI")) /\ Fine(Narrow("SUB", "SUBI")) /\ Fine(Narrow("MUL", "MULI"))
          /\ Fine(Narrow("DIV", "DIVI")) /\ Fine(Narrow("MOD", "MODI"))
          /\ Fine(Middle("DIV", "DIVI")) /\ Fine(Middle("MOD", "MODI"))
      BY <1>3, <1>4, <1>12
    <2> QED
      BY <1>11, <2>1 DEF IntegerForms
  <1>14. Fine(ShiftForms)
    <2>1. /\ Fine(Narrow("SHRU", "SHRUI")) /\ Fine(Narrow("SHL", "SHLI"))
          /\ Fine(MiddleShift("SHRU", "SHRUI")) /\ Fine(MiddleShift("SHL", "SHLI"))
      BY <1>5, <1>6, <1>12
    <2> QED
      BY <1>11, <2>1, ShriFine DEF ShiftForms
  <1>15. Fine(OtherForms)
    <2>1. /\ Fine(Narrow("ADDO", "ADDIO")) /\ Fine(Narrow("SUBO", "SUBIO")) /\ Fine(Narrow("MULO", "MULIO"))
          /\ Fine(Wider("OR", "ORI")) /\ Fine(Wider("NOR", "NORI"))
          /\ Fine(Wider("XOR", "XORI")) /\ Fine(Wider("AND", "ANDI"))
      BY <1>7, <1>8, <1>12
    <2> QED
      BY <1>11, <2>1 DEF OtherForms
  <1>16. Fine(OrderForms)
    <2>1. /\ Fine(Branch16("BEZI")) /\ Fine(Branch16("BNZI"))
          /\ Fine(Swapped("LTS", "GTS")) /\ Fine(Swapped("LES", "GES"))
          /\ Fine(Swapped("LTU", "GTU")) /\ Fine(Swapped("LEU", "GEU"))
      BY <1>9, <1>10, <1>12
    <2> QED
      BY <1>11, <2>1 DEF OrderForms
  <1> QED
    BY <1>13, <1>14, <1>15, <1>16
-----------------------------------------------------------------------------
(***************************************************************************)
(* The forms of the moves.                                                 *)
(***************************************************************************)

(* The forms with one operand, and with two.                               *)
LEMMA OneRight ==
  ASSUME NEW op, NEW a, NEW insts, NEW n \in Nat, NEW k, k = 4 * n, Counts(insts, n),
         \A s, R, M, P, H :
           /\ Ready(s, R) /\ P \in Word /\ s.op = op
           /\ DOMAIN s.args = 1 .. 1 /\ Matches(s.args[1], a)
           => Achieves(s, R, M, P, H, insts, k)
  PROVE  Right(Form(op, <<a>>, insts))
  <1>1. ASSUME NEW s, NEW R, NEW M, NEW P, NEW H, Ready(s, R), P \in Word,
               MatchTypes(s, Form(op, <<a>>, insts))
        PROVE  Achieves(s, R, M, P, H, insts, k)
    <2>1. s.op = op /\ DOMAIN s.args = 1 .. 1 /\ Matches(s.args[1], a)
      BY <1>1, TakesOne
    <2> QED
      BY <1>1, <2>1
  <1> DEFINE args == <<a>>
  <1>2. \A s, R, M, P, H : Ready(s, R) /\ P \in Word /\ MatchTypes(s, Form(op, args, insts))
                             => Achieves(s, R, M, P, H, insts, k)
    BY <1>1
  <1> HIDE DEF args
  <1>3. Right(Form(op, args, insts))
    BY <1>2, RightForm
  <1> QED
    BY <1>3 DEF args

(* The same for two operands.                                              *)
LEMMA TwoRight ==
  ASSUME NEW op, NEW a, NEW b, NEW insts, NEW n \in Nat, NEW k, k = 4 * n, Counts(insts, n),
         \A s, R, M, P, H :
           /\ Ready(s, R) /\ P \in Word /\ s.op = op
           /\ DOMAIN s.args = 1 .. 2 /\ Matches(s.args[1], a) /\ Matches(s.args[2], b)
           => Achieves(s, R, M, P, H, insts, k)
  PROVE  Right(Form(op, <<a, b>>, insts))
  <1>1. ASSUME NEW s, NEW R, NEW M, NEW P, NEW H, Ready(s, R), P \in Word,
               MatchTypes(s, Form(op, <<a, b>>, insts))
        PROVE  Achieves(s, R, M, P, H, insts, k)
    <2>1. s.op = op /\ DOMAIN s.args = 1 .. 2 /\ Matches(s.args[1], a) /\ Matches(s.args[2], b)
      BY <1>1, TakesTwo
    <2> QED
      BY <1>1, <2>1
  <1> DEFINE args == <<a, b>>
  <1>2. \A s, R, M, P, H : Ready(s, R) /\ P \in Word /\ MatchTypes(s, Form(op, args, insts))
                             => Achieves(s, R, M, P, H, insts, k)
    BY <1>1
  <1> HIDE DEF args
  <1>3. Right(Form(op, args, insts))
    BY <1>2, RightForm
  <1> QED
    BY <1>3 DEF args

(* What a constant alone brings to an operation.                           *)
LEMMA ConstantBrought ==
  ASSUME NEW s, NEW R, Ready(s, R), NEW M, NEW P \in Word, NEW H, DOMAIN s.args = 1 .. 1
  PROVE  /\ Matches(s.args[1], "CONST16") =>
              Brings(s, R, M, P, H, Load16(RR, 1), 1, 4) /\ OperandIs(s, R, 1) \in Word
         /\ Matches(s.args[1], "CONST_ANY") =>
              Brings(s, R, M, P, H, Load32(RR, 1), 1, 8) /\ OperandIs(s, R, 1) \in Word
  <1>1. 1 \in DOMAIN s.args
    OBVIOUS
  <1> QED
    BY <1>1, Brought, Wanted, ConstOperand

(* LC, MOV, PUSH, POP and J.                                               *)
LEMMA MovesRight == AllRight(MoveForms)
  <1> DEFINE mov  == <<Inst("ADD", RegOf(1), RegOf(2), R0)>>
             pop  == <<Inst("LD4", RegOf(1), SP, Num(0)), Inst("ADDI", SP, SP, Num(4))>>
             jreg == <<Inst("JEZ", R0, R0, RegOf(1))>>
             jany == Load32(RR, 1) \o <<Inst("JEZ", R0, R0, RR)>>
             p16  == Load16(RR, 1) \o PushInsts(RR)
             p32  == Load32(RR, 1) \o PushInsts(RR)
  <1>1. /\ Counts(mov, 1) /\ Counts(pop, 2) /\ Counts(jreg, 1)
        /\ Counts(jany, 2 + 1) /\ Counts(p16, 1 + 2) /\ Counts(p32, 2 + 2)
    <2>1. Counts(mov, 1) /\ Counts(jreg, 1) /\ Counts(<<Inst("JEZ", R0, R0, RR)>>, 1)
      BY Counted
    <2>2. Counts(pop, 2)
      BY Counted
    <2>3. Counts(Load16(RR, 1), 1) /\ Counts(Load32(RR, 1), 2) /\ Counts(PushInsts(RR), 2)
      BY Counted
    <2> DEFINE a == Load16(RR, 1)
               b == Load32(RR, 1)
               c == <<Inst("JEZ", R0, R0, RR)>>
               d == PushInsts(RR)
    <2>6. jany = b \o c /\ p16 = a \o d /\ p32 = b \o d
      OBVIOUS
    <2>7. Counts(a, 1) /\ Counts(b, 2) /\ Counts(c, 1) /\ Counts(d, 2)
      BY <2>1, <2>3
    <2> HIDE DEF a, b, c, d
    <2>8. Counts(b \o c, 2 + 1) /\ Counts(a \o d, 1 + 2) /\ Counts(b \o d, 2 + 2)
      BY <2>7, Counting
    <2> HIDE DEF jany, p16, p32
    <2>4. Counts(jany, 2 + 1)
      BY <2>6, <2>8
    <2>5. Counts(p16, 1 + 2) /\ Counts(p32, 2 + 2)
      BY <2>6, <2>8
    <2> QED
      BY <2>1, <2>2, <2>4, <2>5
  <1>2. /\ 4 = 4 * 1 /\ 8 = 4 * 2 /\ 12 = 4 * (2 + 1) /\ 12 = 4 * (1 + 2) /\ 16 = 4 * (2 + 2)
        /\ 1 \in Nat /\ 2 \in Nat /\ 2 + 1 \in Nat /\ 1 + 2 \in Nat /\ 2 + 2 \in Nat
    OBVIOUS
  <1>3. /\ 4 \in Nat /\ 8 \in Nat /\ 4 + 8 = 12 /\ 8 + 8 = 16 /\ 8 + 4 = 12
    OBVIOUS
  <1>4. Counts(Load16(RegOf(1), 2), 1) /\ Counts(Load32(RegOf(1), 2), 2) /\ Counts(PushInsts(RegOf(1)), 2)
    BY Counted
  <1>5. \A s, R, M, P, H :
          Ready(s, R) /\ P \in Word /\ s.op = "LC" /\ DOMAIN s.args = 1 .. 2 /\ Matches(s.args[1], "REG") =>
            /\ Matches(s.args[2], "CONST16") => Achieves(s, R, M, P, H, Load16(RegOf(1), 2), 4)
            /\ Matches(s.args[2], "CONST_ANY") => Achieves(s, R, M, P, H, Load32(RegOf(1), 2), 8)
    BY Wanted, Moved
  <1>6. \A s, R, M, P, H :
          Ready(s, R) /\ P \in Word /\ s.op = "MOV" /\ DOMAIN s.args = 1 .. 2
            /\ Matches(s.args[1], "REG") /\ Matches(s.args[2], "REG") => Achieves(s, R, M, P, H, mov, 4)
    BY Wanted, Moved
  <1>7. \A s, R, M, P, H :
          Ready(s, R) /\ P \in Word /\ DOMAIN s.args = 1 .. 1 /\ Matches(s.args[1], "REG") =>
            /\ s.op = "PUSH" => Achieves(s, R, M, P, H, PushInsts(RegOf(1)), 8)
            /\ s.op = "POP" => Achieves(s, R, M, P, H, pop, 8)
            /\ s.op = "J" => Achieves(s, R, M, P, H, jreg, 4)
    BY Wanted, PushedRegister, Popped, ToRegister
  <1>8. ASSUME NEW s, NEW R, NEW M, NEW P, NEW H, Ready(s, R), P \in Word, DOMAIN s.args = 1 .. 1
        PROVE  /\ s.op = "PUSH" /\ Matches(s.args[1], "CONST16") => Achieves(s, R, M, P, H, p16, 12)
               /\ s.op = "PUSH" /\ Matches(s.args[1], "CONST_ANY") => Achieves(s, R, M, P, H, p32, 16)
               /\ s.op = "J" /\ Matches(s.args[1], "CONST_ANY") => Achieves(s, R, M, P, H, jany, 12)
    <2>1. ASSUME Matches(s.args[1], "CONST16"), s.op = "PUSH" PROVE Achieves(s, R, M, P, H, p16, 12)
      <3>1. Achieves(s, R, M, P, H, p16, 4 + 8)
        BY <1>3, <1>8, <2>1, ConstantBrought, PushedConstant
      <3> QED
        BY <1>3, <3>1
    <2>2. ASSUME Matches(s.args[1], "CONST_ANY"), s.op = "PUSH" PROVE Achieves(s, R, M, P, H, p32, 16)
      <3>1. Achieves(s, R, M, P, H, p32, 8 + 8)
        BY <1>3, <1>8, <2>2, ConstantBrought, PushedConstant
      <3> QED
        BY <1>3, <3>1
    <2>3. ASSUME Matches(s.args[1], "CONST_ANY"), s.op = "J" PROVE Achieves(s, R, M, P, H, jany, 12)
      <3>1. Achieves(s, R, M, P, H, jany, 8 + 4)
        BY <1>3, <1>8, <2>3, ConstantBrought, ToConstant
      <3> QED
        BY <1>3, <3>1
    <2> QED
      BY <2>1, <2>2, <2>3
  <1>9. MoveForms = <<Form("LC", <<"REG", "CONST16">>, Load16(RegOf(1), 2)),
                      Form("LC", <<"REG", "CONST_ANY">>, Load32(RegOf(1), 2)),
                      Form("MOV", <<"REG", "REG">>, mov),
                      Form("PUSH", <<"REG">>, PushInsts(RegOf(1))),
                      Form("PUSH", <<"CONST16">>, p16),
                      Form("PUSH", <<"CONST_ANY">>, p32),
                      Form("POP", <<"REG">>, pop),
                      Form("J", <<"REG">>, jreg),
                      Form("J", <<"CONST_ANY">>, jany)>>
    BY DEF MoveForms
  <1> HIDE DEF mov, pop, jreg, jany, p16, p32
  <1>10. Right(Form("LC", <<"REG", "CONST16">>, Load16(RegOf(1), 2)))
    BY <1>2, <1>4, <1>5, TwoRight
  <1>11. Right(Form("LC", <<"REG", "CONST_ANY">>, Load32(RegOf(1), 2)))
    BY <1>2, <1>4, <1>5, TwoRight
  <1>12. Right(Form("MOV", <<"REG", "REG">>, mov))
    BY <1>1, <1>2, <1>6, TwoRight
  <1>13. Right(Form("PUSH", <<"REG">>, PushInsts(RegOf(1))))
    BY <1>2, <1>4, <1>7, OneRight
  <1>14. Right(Form("PUSH", <<"CONST16">>, p16))
    BY <1>1, <1>2, <1>8, OneRight
  <1>15. Right(Form("PUSH", <<"CONST_ANY">>, p32))
    BY <1>1, <1>2, <1>8, OneRight
  <1>16. Right(Form("POP", <<"REG">>, pop))
    BY <1>1, <1>2, <1>7, OneRight
  <1>17. Right(Form("J", <<"REG">>, jreg))
    BY <1>1, <1>2, <1>7, OneRight
  <1>18. Right(Form("J", <<"CONST_ANY">>, jany))
    BY <1>1, <1>2, <1>8, OneRight
  <1>19. ASSUME NEW a, NEW b, NEW c, NEW d, NEW e, NEW f, NEW g, NEW h, NEW i,
                Right(a), Right(b), Right(c), Right(d), Right(e), Right(f), Right(g), Right(h), Right(i)
         PROVE  AllRight(<<a, b, c, d, e, f, g, h, i>>)
    <2> DEFINE T == {a, b, c, d, e, f, g, h, i}
    <2>1. <<a, b, c, d, e, f, g, h, i>> \in Seq(T)
      OBVIOUS
    <2>2. \A x \in T : Right(x)
      BY <1>19
    <2> HIDE DEF T
    <2> QED
      BY <2>1, <2>2 DEF AllRight
  <1> QED
    BY <1>9, <1>10, <1>11, <1>12, <1>13, <1>14, <1>15, <1>16, <1>17, <1>18, <1>19
-----------------------------------------------------------------------------
(***************************************************************************)
(* The forms of the calls; and that whatever form is chosen is right.      *)
(***************************************************************************)

(* B, LEH, CALL, ENTRY and RETURN.                                         *)
LEMMA CallsRight == AllRight(CallForms)
  <1> DEFINE breg == <<Inst("BEZ", R0, R0, RegOf(1))>>
             lreg == <<Inst("LEH", Num(0), RegOf(1), Num(0))>>
             lany == Load32(RR, 1) \o <<Inst("LEH", Num(0), RR, Num(0))>>
             creg == <<Inst("JEZ", RA, R0, RegOf(1))>>
             cany == Load32(RR, 1) \o <<Inst("JEZ", RA, R0, RR)>>
             rreg == <<Inst("ADDI", RV, RegOf(1), Num(0))>> \o ReturnInsts
             r16  == Load16(RV, 1) \o ReturnInsts
             r32  == Load32(RV, 1) \o ReturnInsts
             bany == <<Inst("BEZI", R0, Byte(2, 1), Byte(2, 0))>>
             any  == [Form("B", <<"CONST_ANY">>, bany) EXCEPT !.size = 12]
  <1>1. /\ Counts(breg, 1) /\ Counts(lreg, 1) /\ Counts(creg, 1)
        /\ Counts(lany, 2 + 1) /\ Counts(cany, 2 + 1)
        /\ Counts(rreg, 1 + 6) /\ Counts(r16, 1 + 6) /\ Counts(r32, 2 + 6)
        /\ Counts(EntryInsts, 7) /\ Counts(ReturnInsts, 6)
    <2> DEFINE a == Load32(RR, 1)
               b == <<Inst("LEH", Num(0), RR, Num(0))>>
               c == <<Inst("JEZ", RA, R0, RR)>>
               d == <<Inst("ADDI", RV, RegOf(1), Num(0))>>
               e == Load16(RV, 1)
               f == Load32(RV, 1)
    <2>1. lany = a \o b /\ cany = a \o c /\ rreg = d \o ReturnInsts /\ r16 = e \o ReturnInsts /\ r32 = f \o ReturnInsts
      OBVIOUS
    <2>2. /\ Counts(a, 2) /\ Counts(b, 1) /\ Counts(c, 1) /\ Counts(d, 1) /\ Counts(e, 1) /\ Counts(f, 2)
          /\ Counts(ReturnInsts, 6) /\ Counts(EntryInsts, 7)
      BY Counted
    <2>3. Counts(breg, 1) /\ Counts(lreg, 1) /\ Counts(creg, 1)
      BY Counted
    <2> HIDE DEF a, b, c, d, e, f
    <2>4. Counts(a \o b, 2 + 1) /\ Counts(a \o c, 2 + 1) /\ Counts(d \o ReturnInsts, 1 + 6)
          /\ Counts(e \o ReturnInsts, 1 + 6) /\ Counts(f \o ReturnInsts, 2 + 6)
      BY <2>2, Counting
    <2> HIDE DEF lany, cany, rreg, r16, r32
    <2> QED
      BY <2>1, <2>2, <2>3, <2>4
  <1>2. /\ 4 = 4 * 1 /\ 12 = 4 * (2 + 1) /\ 28 = 4 * (1 + 6) /\ 32 = 4 * (2 + 6) /\ 28 = 4 * 7 /\ 24 = 4 * 6
        /\ 1 \in Nat /\ 2 + 1 \in Nat /\ 1 + 6 \in Nat /\ 2 + 6 \in Nat /\ 7 \in Nat /\ 6 \in Nat
    OBVIOUS
  <1>3. 8 \in Nat /\ 8 + 4 = 12
    OBVIOUS
  <1>4. \A s, R, M, P, H :
          Ready(s, R) /\ P \in Word /\ DOMAIN s.args = 1 .. 1 /\ Matches(s.args[1], "REG") =>
            /\ s.op = "B" => Achieves(s, R, M, P, H, breg, 4)
            /\ s.op = "LEH" => Achieves(s, R, M, P, H, lreg, 4)
            /\ s.op = "CALL" => Achieves(s, R, M, P, H, creg, 4)
            /\ s.op = "RETURN" => Achieves(s, R, M, P, H, rreg, 28)
    BY Wanted, ToRegister, ReturnedRegister
  <1>5. ASSUME NEW s, NEW R, NEW M, NEW P, NEW H, Ready(s, R), P \in Word, DOMAIN s.args = 1 .. 1
        PROVE  /\ s.op = "LEH" /\ Matches(s.args[1], "CONST_ANY") => Achieves(s, R, M, P, H, lany, 12)
               /\ s.op = "CALL" /\ Matches(s.args[1], "CONST_ANY") => Achieves(s, R, M, P, H, cany, 12)
    <2>1. ASSUME Matches(s.args[1], "CONST_ANY"), s.op = "LEH" PROVE Achieves(s, R, M, P, H, lany, 12)
      <3>1. Achieves(s, R, M, P, H, lany, 8 + 4)
        BY <1>3, <1>5, <2>1, ConstantBrought, ToConstant
      <3> QED
        BY <1>3, <3>1
    <2>2. ASSUME Matches(s.args[1], "CONST_ANY"), s.op = "CALL" PROVE Achieves(s, R, M, P, H, cany, 12)
      <3>1. Achieves(s, R, M, P, H, cany, 8 + 4)
        BY <1>3, <1>5, <2>2, ConstantBrought, ToConstant
      <3> QED
        BY <1>3, <3>1
    <2> QED
      BY <2>1, <2>2
  <1>6. \A s, R, M, P, H :
          Ready(s, R) /\ P \in Word /\ DOMAIN s.args = 1 .. 1 =>
            /\ s.op = "ENTRY" /\ Matches(s.args[1], "CONST_ANY") => Achieves(s, R, M, P, H, EntryInsts, 28)
            /\ s.op = "RETURN" /\ Matches(s.args[1], "CONST16") => Achieves(s, R, M, P, H, r16, 28)
            /\ s.op = "RETURN" /\ Matches(s.args[1], "CONST_ANY") => Achieves(s, R, M, P, H, r32, 32)
    BY FrameEntered, ReturnedConstant
  <1>7. \A s, R, M, P, H :
          Ready(s, R) /\ P \in Word /\ MatchTypes(s, Form("RETURN", <<>>, ReturnInsts)) =>
            Achieves(s, R, M, P, H, ReturnInsts, 24)
    BY TakesNone, Returned
  <1>8. Right(any)
    <2>1. any.op = "B" /\ any.args = <<"CONST_ANY">>
      BY DEF Form
    <2>2. ASSUME NEW s, NEW R, Ready(s, R), MatchTypes(s, any) PROVE FALSE
      <3> DEFINE f == Form("B", <<"CONST_ANY">>, bany)
      <3>1. f.op = any.op /\ f.args = any.args
        BY DEF Form
      <3>4. MatchTypes(s, f)
        <4> HIDE DEF f, any
        <4> QED
          BY <2>2, <3>1 DEF MatchTypes
      <3> HIDE DEF any, bany
      <3>2. s.op = "B" /\ DOMAIN s.args = 1 .. 1 /\ Matches(s.args[1], "CONST_ANY")
        BY <2>2, <3>4, TakesOne
      <3>3. s.args[1].type # "REG"
        BY <3>2, Wanted
      <3>5. Arg0(s) = s.args[1]
        <4>1. s.args \in Seq(ArgRec)
          BY <2>2 DEF Ready, StmntRec
        <4>2. 1 \in DOMAIN s.args
          BY <3>2
        <4>3. Len(s.args) > 0
          BY <4>1, <4>2
        <4> QED
          BY <4>3 DEF Arg0
      <3> QED
        BY <2>2, <3>2, <3>3, <3>5 DEF Ready, WrongForm
    <2> HIDE DEF any
    <2> QED
      BY <2>2 DEF Right
  <1>9. CallForms = <<any,
                      Form("B", <<"REG">>, breg),
                      Form("LEH", <<"REG">>, lreg),
                      Form("LEH", <<"CONST_ANY">>, lany),
                      Form("CALL", <<"REG">>, creg),
                      Form("CALL", <<"CONST_ANY">>, cany),
                      Form("ENTRY", <<"CONST_ANY">>, EntryInsts),
                      Form("RETURN", <<>>, ReturnInsts),
                      Form("RETURN", <<"REG">>, rreg),
                      Form("RETURN", <<"CONST16">>, r16),
                      Form("RETURN", <<"CONST_ANY">>, r32)>>
    BY DEF CallForms
  <1> HIDE DEF breg, lreg, lany, creg, cany, rreg, r16, r32, bany, any
  <1>10. Right(Form("B", <<"REG">>, breg))
    BY <1>1, <1>2, <1>4, OneRight
  <1>11. Right(Form("LEH", <<"REG">>, lreg))
    BY <1>1, <1>2, <1>4, OneRight
  <1>12. Right(Form("LEH", <<"CONST_ANY">>, lany))
    BY <1>1, <1>2, <1>5, OneRight
  <1>13. Right(Form("CALL", <<"REG">>, creg))
    BY <1>1, <1>2, <1>4, OneRight
  <1>14. Right(Form("CALL", <<"CONST_ANY">>, cany))
    BY <1>1, <1>2, <1>5, OneRight
  <1>15. Right(Form("ENTRY", <<"CONST_ANY">>, EntryInsts))
    BY <1>1, <1>2, <1>6, OneRight
  <1>16. Right(Form("RETURN", <<>>, ReturnInsts))
    <2> DEFINE none == <<>>
    <2>1. \A s, R, M, P, H :
            Ready(s, R) /\ P \in Word /\ MatchTypes(s, Form("RETURN", none, ReturnInsts)) =>
              Achieves(s, R, M, P, H, ReturnInsts, 24)
      BY <1>7
    <2> HIDE DEF none
    <2>2. Right(Form("RETURN", none, ReturnInsts))
      BY <1>1, <1>2, <2>1, RightForm
    <2> QED
      BY <2>2 DEF none
  <1>17. Right(Form("RETURN", <<"REG">>, rreg))
    BY <1>1, <1>2, <1>4, OneRight
  <1>18. Right(Form("RETURN", <<"CONST16">>, r16))
    BY <1>1, <1>2, <1>6, OneRight
  <1>19. Right(Form("RETURN", <<"CONST_ANY">>, r32))
    BY <1>1, <1>2, <1>6, OneRight
  <1>20. ASSUME NEW a, NEW b, NEW c, NEW d, NEW e, NEW f, NEW g, NEW h, NEW i, NEW j, NEW k,
                Right(a), Right(b), Right(c), Right(d), Right(e), Right(f), Right(g), Right(h), Right(i),
                Right(j), Right(k)
         PROVE  AllRight(<<a, b, c, d, e, f, g, h, i, j, k>>)
    <2> DEFINE T == {a, b, c, d, e, f, g, h, i, j, k}
    <2>1. <<a, b, c, d, e, f, g, h, i, j, k>> \in Seq(T)
      OBVIOUS
    <2>2. \A x \in T : Right(x)
      BY <1>20
    <2> HIDE DEF T
    <2> QED
      BY <2>1, <2>2 DEF AllRight
  <1> QED
    BY <1>8, <1>9, <1>10, <1>11, <1>12, <1>13, <1>14, <1>15, <1>16, <1>17, <1>18, <1>19, <1>20

(* The whole table is fine.                                                *)
LEMMA FormsFine == Fine(Forms)
  <1>1. \A q, r : Fine(q) /\ Fine(r) => Fine(q \o r)
    BY FineJoins
  <1>2. Fine(MoveForms) /\ Fine(CallForms) /\ Fine(Jump("JEZI", "JEZ")) /\ Fine(Jump("JNZI", "JNZ"))
    BY MovesRight, CallsRight, JumpsRight, FineJoins
  <1> QED
    BY <1>1, <1>2, ArithmeticFine DEF Forms

(* The form chosen for an operation (match_types takes the first that fits,*)
(* ant32_expand_op.c) is right: whatever the registers, the memory and the *)
(* address, its instructions do what the operation is for, and its size is *)
(* that of its instructions.                                               *)
THEOREM ChosenRight ==
  ASSUME NEW s, CanExpand(s)
  PROVE  /\ FormOf(s) \in {Forms[i] : i \in 1 .. Len(Forms)}
         /\ MatchTypes(s, FormOf(s)) /\ Right(FormOf(s))
  <1> DEFINE n == Len(Forms)
             i == Min(Fitting(s))
  <1>1. PICK T : Forms \in Seq(T)
    BY FormsFine DEF Fine
  <1>2. n \in Nat /\ DOMAIN Forms = 1 .. n
    BY <1>1
  <1>3. \A k \in 1 .. n : Right(Forms[k]) \/ \E j \in 1 .. k - 1 : Covers(Forms[j], Forms[k])
    BY FormsFine DEF Fine
  <1>4. Fitting(s) \in SUBSET (1 .. n) /\ Fitting(s) # {}
    BY <1>2 DEF Fitting, CanExpand
  <1> HIDE DEF n
  <1>5. i \in Fitting(s) /\ \A y \in Fitting(s) : i <= y
    <2>1. \E x \in Fitting(s) : \A y \in Fitting(s) : x <= y
      BY <1>2, <1>4, LeastMember
    <2> QED
      BY <2>1 DEF Min
  <1>6. i \in 1 .. n /\ FormOf(s) = Forms[i]
    BY <1>4, <1>5 DEF FormOf
  <1> HIDE DEF i
  <1>7. MatchTypes(s, Forms[i])
    BY <1>5 DEF Fitting
  <1>8. ASSUME NEW j \in 1 .. i - 1, Covers(Forms[j], Forms[i]) PROVE FALSE
    <2>1. j \in DOMAIN Forms /\ j < i
      BY <1>2, <1>6
    <2>2. MatchTypes(s, Forms[j])
      BY <1>7, <1>8 DEF Covers
    <2>3. j \in Fitting(s)
      BY <2>1, <2>2 DEF Fitting
    <2> QED
      BY <1>2, <1>5, <1>6, <2>1, <2>3
  <1>9. Right(Forms[i])
    BY <1>3, <1>6, <1>8
  <1> QED
    BY <1>6, <1>7, <1>9 DEF n
-----------------------------------------------------------------------------
(***************************************************************************)
(* The memory: what an item holds in the end is its form, made with its    *)
(* operands.                                                               *)
(***************************************************************************)

(* What is assembled of an operation to be expanded has a form.            *)
ExpandInv == \A i \in DOMAIN placed : placed[i].stmnt.op \in Expanded => CanExpand(placed[i].stmnt)

(* Nothing is assembled at first.                                          *)
LEMMA ExpandInit == BuildInit => ExpandInv
  <1> SUFFICES ASSUME BuildInit PROVE ExpandInv
    OBVIOUS
  <1>1. placed = <<>>
    BY DEF BuildInit, Init
  <1>2. DOMAIN placed = {}
    BY <1>1
  <1> QED
    BY <1>2 DEF ExpandInv

(* An operation without a form is refused, and in the data every operation *)
(* is.                                                                     *)
LEMMA ExpandedOnly ==
  ASSUME NEW s, s.op \in Expanded, NEW at, NEW known
  PROVE  /\ AssembleInst(s, at, known).ok => CanExpand(s)
         /\ ~AssembleData(s, at, known).ok
  <1>1. s.op \notin {"NONE", "BYTE", "WORD", "ALIGN", "ASCII", "ASCIIZ"}
    BY DEF Expanded, Pseudo
  <1>2. AssembleInst(s, at, known) = Expand(s, at, known) /\ AssembleData(s, at, known) = Fails
    BY <1>1, Zenon DEF AssembleInst, AssembleData
  <1>3. Fails.ok = FALSE
    BY DEF Fails
  <1>4. ~CanExpand(s) => Expand(s, at, known) = Fails
    BY DEF Expand
  <1> QED
    BY <1>2, <1>3, <1>4

(* So what is assembled has a form.                                        *)
LEMMA ExpandNext == LabelInv /\ ExpandInv /\ [BuildNext]_<<vars, loadVars>> => ExpandInv'
  <1> SUFFICES ASSUME LabelInv, ExpandInv, [BuildNext]_<<vars, loadVars>> PROVE ExpandInv'
    OBVIOUS
  <1>1. CASE UNCHANGED placed
    BY <1>1 DEF ExpandInv
  <1>2. ASSUME NEW item, placed' = Append(placed, item), item.stmnt.op \in Expanded => CanExpand(item.stmnt)
        PROVE  ExpandInv'
    <2>1. placed \in Seq(Item)
      BY DEF LabelInv
    <2> DEFINE V == Item \cup {item}
    <2>2. placed \in Seq(V) /\ item \in V
      BY <2>1
    <2> HIDE DEF V
    <2>3. \A i \in DOMAIN placed' : (i \in DOMAIN placed /\ placed'[i] = placed[i]) \/ placed'[i] = item
      BY <1>2, <2>2
    <2> QED
      BY <1>2, <2>3 DEF ExpandInv
  <1>3. CASE Place(AssembleInst)
    <2> DEFINE r == AssembleInst(S, curr_offset, Labelled(Truncate(BaseAddress + curr_offset)))
               item == [stmnt |-> S, at |-> curr_offset, used |-> r.used,
                        line |-> line, text |-> phase = "text"]
    <2>1. UNCHANGED placed \/ (r.ok /\ placed' = Append(placed, item))
      BY <1>3, Zenon DEF Place
    <2>2. item.stmnt = S
      OBVIOUS
    <2>3. r.ok /\ S.op \in Expanded => CanExpand(S)
      BY ExpandedOnly
    <2> HIDE DEF r, item
    <2> QED
      BY <1>1, <1>2, <2>1, <2>2, <2>3
  <1>4. CASE Place(AssembleData)
    <2> DEFINE r == AssembleData(S, curr_offset, Labelled(Truncate(BaseAddress + curr_offset)))
               item == [stmnt |-> S, at |-> curr_offset, used |-> r.used,
                        line |-> line, text |-> phase = "text"]
    <2>1. UNCHANGED placed \/ (r.ok /\ placed' = Append(placed, item))
      BY <1>4, Zenon DEF Place
    <2>2. item.stmnt = S
      OBVIOUS
    <2>3. r.ok => S.op \notin Expanded
      BY ExpandedOnly
    <2> HIDE DEF r, item
    <2> QED
      BY <1>1, <1>2, <2>1, <2>2, <2>3
  <1>5. CASE TextLine
    BY <1>1, <1>3, <1>5 DEF TextLine, Unparsed, Pass
  <1>6. CASE DataLine
    BY <1>1, <1>4, <1>6 DEF DataLine, Unparsed, Pass
  <1>7. CASE CheckLine \/ EndPass \/ Backpatch \/ WriteExec \/ UNCHANGED vars
    BY <1>1, <1>7 DEF CheckLine, EndPass, Backpatch, WriteExec, vars
  <1> QED
    BY <1>5, <1>6, <1>7 DEF BuildNext, Assemble, Next, Load

(* The instructions in memory are those of the form.                       *)
LEMMA InstsAtForm ==
  ASSUME NEW s, NEW at, NEW used, NEW n \in Nat, used = 4 * n, n = Len(FormOf(s).insts),
         MachineBytes(at, used) = [j \in 1 .. used |-> Made(s, Template(FormOf(s), j - 1), knownList)],
         at \in Int
  PROVE  InstsAt(at, used \div 4) = Coded(s, FormOf(s).insts)
  <1> DEFINE insts == FormOf(s).insts
             B == MachineBytes(at, used)
  <1>1. used \div 4 = n /\ used \in Nat
    <2>1. \A k \in Nat : (4 * k) \div 4 = k /\ 4 * k \in Nat
      OBVIOUS
    <2> QED
      BY <2>1
  <1>2. ASSUME NEW k \in 1 .. n PROVE MachineBytes(at + 4 * (k - 1), 4) = Bytes(s, insts[k])
    <2>1. ASSUME NEW j \in 1 .. 4
          PROVE  memTable[Host(at + 4 * (k - 1) + j - 1)] = Made(s, insts[k][j], knownList)
      <3> DEFINE i == 4 * (k - 1) + j
      <3>0. j - 1 \in 0 .. 3 /\ i - 1 = 4 * (k - 1) + (j - 1)
        OBVIOUS
      <3>1. i \in 1 .. used /\ i - 1 < 4 * n /\ at + 4 * (k - 1) + j - 1 = at + i - 1
        OBVIOUS
      <3>1a. (i - 1) \div 4 = k - 1 /\ (i - 1) % 4 = j - 1
        <4> DEFINE x == i - 1
                   y == k - 1
                   z == j - 1
        <4>1. x = 4 * y + z /\ y \in Int /\ z \in 0 .. 3
          BY <3>0
        <4> HIDE DEF x, y, z, i
        <4>2. x \in Int
          BY <3>0 DEF x, i
        <4>3. x \div 4 = y /\ x % 4 = z
          <5> DEFINE m == 4
          <5>1. m \in Nat /\ m > 0 /\ x = m * y + z /\ z \in 0 .. m - 1
            BY <4>1
          <5> HIDE DEF m
          <5>2. x \div m = y /\ x % m = z
            BY <4>1, <4>2, <5>1, Division
          <5> QED
            BY <5>2 DEF m
        <4> QED
          BY <4>3 DEF x, y, z
      <3> HIDE DEF i
      <3>2. B[i] = memTable[Host(at + i - 1)]
        BY <3>1 DEF MachineBytes
      <3>3. B[i] = Made(s, Template(FormOf(s), i - 1), knownList)
        BY <3>1
      <3>4. Template(FormOf(s), i - 1) = insts[k][j]
        <4>1. ((i - 1) \div 4) + 1 = k /\ ((i - 1) % 4) + 1 = j
          BY <3>1a
        <4> QED
          BY <3>1, <4>1 DEF Template
      <3> QED
        BY <3>1, <3>2, <3>3, <3>4
    <2> QED
      BY <2>1 DEF MachineBytes, Bytes
  <1>3. InstsAt(at, n) = [k \in 1 .. n |-> MachineBytes(at + 4 * (k - 1), 4)]
    BY DEF InstsAt
  <1>4. Coded(s, insts) = [k \in 1 .. n |-> Bytes(s, insts[k])]
    BY DEF Coded
  <1> HIDE DEF insts
  <1>5. InstsAt(at, n) = Coded(s, insts)
    BY <1>2, <1>3, <1>4
  <1> QED
    BY <1>1, <1>5 DEF insts

(* Running an item that is in memory does what its operation is for.       *)
LEMMA ItemMeans ==
  ASSUME NEW item \in Item, HoldsAtLast(item, memTable, knownList),
         item.stmnt.op \in Expanded, CanExpand(item.stmnt),
         NEW R, Ready(item.stmnt, R), NEW P \in Word
  PROVE  LET m == Machine(R, <<>>, P, 0)
         IN  SameMachine(Run(m, InstsAt(item.at, item.used \div 4)),
                         Meaning(m, item.stmnt, item.used, Final))
  <1> DEFINE s == item.stmnt
             f == FormOf(s)
             m == Machine(R, <<>>, P, 0)
  <1>1. item.at \in Int /\ s.op \in Instructions
    BY ExpandedInsts DEF Item
  <1>2. MatchTypes(s, f) /\ Right(f) /\ f \in {Forms[i] : i \in 1 .. Len(Forms)}
    BY ChosenRight
  <1>3. f.size = 4 * Len(f.insts) /\ Achieves(s, R, <<>>, P, 0, f.insts, f.size)
    BY <1>2 DEF Right
  <1>4. item.used = f.size
    BY DataOpsKept DEF HoldsAtLast, Whole, DataOps
  <1>5. PICK n : /\ Leads(s, m, f.insts, n)
                 /\ SameMachine(n, Meaning(m, s, f.size, Final))
    BY <1>3 DEF Achieves
  <1>6. Len(f.insts) \in Nat /\ Run(m, Coded(s, f.insts)) = n
    BY <1>5 DEF Leads
  <1>7. MachineBytes(item.at, item.used) = [j \in 1 .. item.used |-> Made(s, Template(f, j - 1), knownList)]
    BY <1>1, <1>4, InstsThere DEF InstOf
  <1>8. InstsAt(item.at, item.used \div 4) = Coded(s, f.insts)
    <2> DEFINE k == Len(f.insts)
    <2>1. item.used = 4 * k /\ k \in Nat /\ k = Len(f.insts)
      BY <1>3, <1>4, <1>6
    <2> HIDE DEF k, m
    <2> QED
      BY <1>1, <1>7, <2>1, InstsAtForm
  <1> QED
    BY <1>4, <1>5, <1>6, <1>8

(* Whatever the registers hold, running the instructions an operation was  *)
(* expanded to (asm_expand_op, ant32_expand_op.c:520, by the forms of      *)
(* pseudo_op) does what the operation is for, for every operation, every   *)
(* form of it and every operand, with the labels as they are in the end.   *)
THEOREM ExpansionsMean == Build => []ExpansionMeans
  <1>1. ASSUME LabelInv, DataInv, ExpandInv PROVE ExpansionMeans
    <2> SUFFICES ASSUME phase = "done", Orderly, NEW item \in Items, item.stmnt.op \in Expanded,
                        ~WrongForm(item.stmnt), ~StackClash(item.stmnt),
                        NEW reg \in RegFiles, OwnRegs(item.stmnt, reg)
                 PROVE  LET m == Machine(reg, <<>>, Truncate(BaseAddress + item.at), 0)
                        IN  SameMachine(Run(m, InstsAt(item.at, item.used \div 4)),
                                        Meaning(m, item.stmnt, item.used, Final))
      BY DEF ExpansionMeans
    <2>1. PICK i \in DOMAIN placed : item = placed[i]
      BY DEF Items
    <2>2. item \in Item /\ item.stmnt \in StmntRec /\ item.at \in Int /\ knownList \in SymbolLists
      <3>1. item \in Item /\ knownList \in SymbolLists
        BY <1>1, <2>1 DEF LabelInv
      <3> QED
        BY <3>1 DEF Item
    <2>3. Certain(item.stmnt)
      <3>1. item.stmnt.op # "LCH"
        BY DEF Expanded, Pseudo
      <3> QED
        BY <3>1, ExpandedInsts DEF Certain, LchAstray
    <2>4. HoldsAtLast(item, memTable, knownList)
      BY <1>1, <2>1, <2>3, OrderlySane DEF DataInv
    <2>5. CanExpand(item.stmnt)
      BY <1>1, <2>1 DEF ExpandInv
    <2>6. Ready(item.stmnt, reg)
      BY <2>2, PropsAssumption DEF Ready, RegFile
    <2>7. Truncate(BaseAddress + item.at) \in Word
      <3>1. BaseAddress + item.at \in Int
        BY <2>2, AsmAssumption DEF Word
      <3> QED
        BY <3>1, SignedPlus
    <2> QED
      BY <2>2, <2>4, <2>5, <2>6, <2>7, ItemMeans
  <1>2. BuildInit => PatchInv /\ DataInv /\ ExpandInv
    BY PatchInit, DataInit, ExpandInit
  <1>3. PassInv /\ LabelInv /\ PatchInv /\ DataInv /\ ExpandInv /\ [BuildNext]_<<vars, loadVars>>
          => (PatchInv /\ DataInv /\ ExpandInv)'
    BY PatchNext, DataNext, ExpandNext
  <1> QED
    BY <1>1, <1>2, <1>3, LabelsMeetItems, PTL DEF Build
=============================================================================
