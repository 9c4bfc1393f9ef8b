------------------------------ MODULE Ant32Regs ------------------------------
(***************************************************************************)
(* What the instructions of the Ant-32 do to its registers and to memory:  *)
(* the handlers of Lib32/ant32_exec.c with the checks of check_des_reg and *)
(* check_src_reg, the arithmetic, register pairs, the cycle counters, the  *)
(* exception registers e0 to e3 (ant32_except.c, ant32_mmu.c) and the      *)
(* order of bytes in memory.                                               *)
(*                                                                         *)
(* Ant32Cpu has the control of the same handlers and forgets the data;     *)
(* this module has the data and forgets the timer, the TLB and physical    *)
(* addresses: whether a translation succeeds is left open, an access that  *)
(* does is to one word of memory, and no timer interrupt is taken after an *)
(* instruction.  That an exception raised while exceptions are disabled is *)
(* fatal is for the front end to see; the machine goes on here.            *)
(* The Ant-32 is big-endian, the host keeps its words little-endian.       *)
(***************************************************************************)
EXTENDS Ant32Arith, Sequences

CONSTANTS
  NReg,       \* params.n_reg
  Fields,     \* the register fields <<reg1, reg2, reg3>> of an instruction
  Imm8, Imm16,\* constants of an instruction, sign extended
  Seeds,      \* machines at first: control and registers
  Given,      \* words that come from outside: a TLB entry, the timer, a character...
  MaxInsts    \* instructions executed

ZeroReg  == 0
CycleReg == 240 .. 247
CpuCycles == 240
SupCycles == 241
ReadCount == 246
WriteCount == 247
SupReg   == 248 .. 251
ExcReg   == 252 .. 255
E0 == 252
E1 == 253
E2 == 254
E3 == 255
UserReg  == 0 .. NReg - 1
RegNum   == UserReg \cup CycleReg \cup SupReg \cup ExcReg

Mode == {"USER", "SUPER"}

(* The part of ant_t that decides what comes next.                         *)
Control ==
  [mode : Mode, pc : Word, eh : Word, int_disable : BOOLEAN, exc_disable : BOOLEAN]

ASSUME RegsAssumption ==
  /\ NReg \in 2 .. 240
  /\ Fields \subseteq (0 .. 255) \X (0 .. 255) \X (0 .. 255)
  /\ Imm8 \subseteq Word /\ Imm16 \subseteq Word
  /\ Given \subseteq Word
  /\ Seeds \subseteq {m \in [cpu : Control, reg : [RegNum -> Word]] :
                       /\ m.reg[ZeroReg] = 0
                       /\ m.cpu.mode = "USER" => ~m.cpu.exc_disable}
  /\ MaxInsts \in Nat

VARIABLES
  cpu,        \* mode, program counter, handler and flags of ant
  reg,        \* ant->reg
  mem,        \* the bytes of the word, as the host has them
  rc,         \* what the last instruction raised, or how it ended
  inst,       \* the last instruction
  insts       \* instructions executed

vars == <<cpu, reg, mem, rc, inst, insts>>

(* ant_exc_t: the exceptions, and the ways to end that are none.           *)
ExcCode ==
  [BUS_ERR |-> 3, ILL_INS |-> 4, PRIV_INS |-> 5, TRAP |-> 6, DIV0 |-> 7, ALIGN |-> 8,
   PRIV_SEG |-> 9, REG_VIOL |-> 10, TLB_MISS |-> 11, TLB_PROT |-> 12, TLB_MULTI |-> 13,
   TLB_INV |-> 14, TIMER |-> 20]
Fault   == DOMAIN ExcCode
Status  == {"OK", "IDLE", "HALT", "EXC"}

(* What ant32_v2p and ant32_p2vm refuse an aligned access with.            *)
Refusal == {"PRIV_SEG", "TLB_MISS", "TLB_PROT", "TLB_MULTI", "BUS_ERR"}

NoInst == [op |-> "NONE", f |-> <<0, 0, 0>>, const |-> FALSE, imm |-> 0]
-----------------------------------------------------------------------------
(* The instruction groups, each with an opcode no handler knows.           *)

Arith    == {"ADD", "SUB", "MUL", "DIV", "MOD", "OR", "NOR", "XOR", "AND", "SHR", "SHRU", "SHL"}
ArithI   == {"ADD", "SUB", "MUL", "DIV", "MOD", "SHR", "SHRU", "SHL"}
Wide     == {"ADDO", "SUBO", "MULO"}
Compare  == {"EQ", "GTS", "GES", "GTU", "GEU"}
Unknown  == {"UNKNOWN"}
-----------------------------------------------------------------------------
(* check_des_reg, check_src_reg, set_des_reg                               *)

\* Seeded fault: the k registers are writable in every mode.
DesValidAlways(r) == r \in UserReg \cup CycleReg \cup SupReg

DesValid(r) == r \in UserReg \cup CycleReg \cup (IF cpu.mode = "SUPER" THEN SupReg ELSE {})
SrcValid(r) == DesValid(r) \/ (cpu.mode = "SUPER" /\ r \in ExcReg)

SetDesReg(g, r, v) == IF r # ZeroReg /\ DesValid(r) THEN [g EXCEPT ![r] = v] ELSE g

Counted(g, r) == [g EXCEPT ![r] = Wrap(@ + 1)]
-----------------------------------------------------------------------------
(* The exception registers                                                 *)

Flag(b) == IF b THEN 1 ELSE 0
Su      == Flag(cpu.mode = "SUPER")

(* ant32_exc_update: they follow the machine while exceptions are enabled. *)
ExcUpdate(g) ==
  IF cpu.exc_disable THEN g
  ELSE [g EXCEPT ![E0] = cpu.pc, ![E1] = Flag(cpu.int_disable), ![E2] = 0, ![E3] = Su]

(* ant32_v2p: e2 has the last address translated.                          *)
Latched(g, vaddr) == IF cpu.exc_disable THEN g ELSE [g EXCEPT ![E2] = vaddr]

(* ant32_exc_catch: e3 says what went wrong, whatever the flags; an access *)
(* that is none has no bit.                                                *)
AccessBits == [READ |-> 4, WRITE |-> 2, EXEC |-> 1, NONE |-> 0]

ExcCatch(g, access, exc) ==
  [g EXCEPT ![E3] = Truncate(Su + 2 * AccessBits[access] + 16 * ExcCode[exc])]

(* ant32_exc_throw                                                         *)
ExcThrow ==
  [cpu EXCEPT !.pc = cpu.eh, !.int_disable = TRUE, !.mode = "SUPER", !.exc_disable = TRUE]
-----------------------------------------------------------------------------
(* ant_exec_inst around its handler                                        *)

(* The registers before the instruction is fetched, and as a handler finds *)
(* them after that.                                                        *)
Started ==
  [ExcUpdate([reg EXCEPT ![ZeroReg] = 0])
     EXCEPT ![CpuCycles] = Wrap(@ + 1),
            ![SupCycles] = IF cpu.mode = "SUPER" THEN Wrap(@ + 1) ELSE @]

Ticked == Latched(Started, cpu.pc)

Onward == [cpu EXCEPT !.pc = Truncate(@ + 4)]

\* Seeded fault: r0 is not reset after the instruction.
CompleteKeepsR0(g, status, c) == reg' = g /\ rc' = status /\ cpu' = c

Complete(g, status, c) ==
  /\ reg' = [g EXCEPT ![ZeroReg] = 0]
  /\ rc' = status
  /\ cpu' = c

Throw(g, exc)         == Complete(g, exc, ExcThrow) /\ UNCHANGED mem
Fail(g, access, exc)  == Throw(ExcCatch(g, access, exc), exc)
Raise(g, exc)         == Fail(g, "NONE", exc)
Goto(g, c)            == Complete(g, "OK", c) /\ UNCHANGED mem
Leave(g)              == Goto(g, Onward)
Give(r, v)            == Leave(SetDesReg(Ticked, r, v))

Aligned(vaddr, size) == vaddr % size = 0

Run(i) == insts' = insts + 1 /\ inst' = i

(* The instruction cannot be fetched.                                      *)
FetchFault ==
  /\ Run(NoInst)
  /\ IF Aligned(cpu.pc, 4)
     THEN \E exc \in Refusal : Fail(Ticked, "EXEC", exc)
     ELSE Fail(Started, "EXEC", "ALIGN")

Fetched(i) == Aligned(cpu.pc, 4) /\ Run(i)

IssueR(op, f)     == Fetched([op |-> op, f |-> f, const |-> FALSE, imm |-> 0])
Issue(op, f, imm) == Fetched([op |-> op, f |-> f, const |-> TRUE, imm |-> imm])

(* Every handler refuses a register it may not use before it does anything *)
(* with it.                                                                *)
Permitted(des, src) == (\A r \in des : DesValid(r)) /\ (\A r \in src : SrcValid(r))
-----------------------------------------------------------------------------
(* ant_arith, ant_arithi                                                   *)

Shift(b) == b % WordBits

Result(op, a, b) ==
  CASE op = "ADD" -> Wrap(a + b)
    [] op = "SUB" -> Wrap(a - b)
    [] op = "MUL" -> Truncate(a * b)
    [] op = "DIV" -> IF a = MinInt /\ b = -1 THEN 0 ELSE Quot(a, b)
    [] op = "MOD" -> Rem(a, b)
    [] op = "OR"  -> FromBits(Bits(a) \cup Bits(b))
    [] op = "NOR" -> -1 - FromBits(Bits(a) \cup Bits(b))
    [] op = "XOR" -> FromBits((Bits(a) \cup Bits(b)) \ (Bits(a) \cap Bits(b)))
    [] op = "AND" -> FromBits(Bits(a) \cap Bits(b))
    [] op = "SHR" -> a \div 2 ^ Shift(b)
    [] op = "SHRU" -> Truncate(Lower(a, WordSize) \div 2 ^ Shift(b))
    [] op = "SHL" -> Truncate(a * 2 ^ Shift(b))

(* The remainder of the smallest word by -1 is no C expression: the host's *)
(* division instruction traps, and the emulator is gone.                   *)
HostTrap ==
  /\ rc' = "HOST_TRAP" /\ reg' = Ticked
  /\ UNCHANGED <<cpu, mem>>

Compute(op, known, des, a, b) ==
  \/ op \notin known /\ Raise(Ticked, "ILL_INS")
  \/ op \in known \cap {"DIV", "MOD"} /\ b = 0 /\ Raise(Ticked, "DIV0")
  \/ op \in known \cap {"MOD"} /\ a = MinInt /\ b = -1 /\ HostTrap
  \/ /\ op \in known
     /\ ~(op \in {"DIV", "MOD"} /\ b = 0)
     /\ ~(op = "MOD" /\ a = MinInt /\ b = -1)
     /\ Give(des, Result(op, a, b))

AntArith ==
  \E op \in Arith \cup Unknown, f \in Fields :
    /\ IssueR(op, f)
    /\ IF Permitted({f[1]}, {f[2], f[3]})
       THEN Compute(op, Arith, f[1], Ticked[f[2]], Ticked[f[3]])
       ELSE Raise(Ticked, "REG_VIOL")

AntArithI ==
  \E op \in ArithI \cup Unknown, f \in Fields, imm \in Imm8 :
    /\ Issue(op, f, imm)
    /\ IF Permitted({f[1]}, {f[2]})
       THEN Compute(op, ArithI, f[1], Ticked[f[2]], imm)
       ELSE Raise(Ticked, "REG_VIOL")
-----------------------------------------------------------------------------
(* ant_aritho, ant_arithio                                                 *)

WideResult(op, a, b) ==
  CASE op = "ADDO" -> Add32x32(a, b)
    [] op = "SUBO" -> Sub32x32(a, b)
    [] op = "MULO" -> Mul32x32(a, b)

GivePair(r, p) == Leave(SetDesReg(SetDesReg(Ticked, r, p.lo), r + 1, p.hi))

Denials(op, des, src) ==
  IF des % 2 # 0 THEN {"ILL_INS"}
  ELSE IF ~Permitted({des, des + 1}, src) THEN {"REG_VIOL"}
  ELSE IF op \notin Wide THEN {"ILL_INS"} ELSE {}

AntAritho ==
  \E op \in Wide \cup Unknown, f \in Fields :
    /\ IssueR(op, f)
    /\ \/ \E exc \in Denials(op, f[1], {f[2], f[3]}) : Raise(Ticked, exc)
       \/ /\ Denials(op, f[1], {f[2], f[3]}) = {}
          /\ GivePair(f[1], WideResult(op, Ticked[f[2]], Ticked[f[3]]))

AntArithio ==
  \E op \in Wide \cup Unknown, f \in Fields, imm \in Imm8 :
    /\ Issue(op, f, imm)
    /\ \/ \E exc \in Denials(op, f[1], {f[2]}) : Raise(Ticked, exc)
       \/ /\ Denials(op, f[1], {f[2]}) = {}
          /\ GivePair(f[1], WideResult(op, Ticked[f[2]], imm))
-----------------------------------------------------------------------------
(* ant_compare, ant_lc                                                     *)

Unsigned(a) == Lower(a, WordSize)

Holds(op, a, b) ==
  CASE op = "EQ"  -> a = b
    [] op = "GTS" -> a > b
    [] op = "GES" -> a >= b
    [] op = "GTU" -> Unsigned(a) > Unsigned(b)
    [] op = "GEU" -> Unsigned(a) >= Unsigned(b)

AntCompare ==
  \E op \in Compare \cup Unknown, f \in Fields :
    /\ IssueR(op, f)
    /\ IF ~Permitted({f[1]}, {f[2], f[3]}) THEN Raise(Ticked, "REG_VIOL")
       ELSE IF op \in Unknown THEN Raise(Ticked, "ILL_INS")
       ELSE Give(f[1], Flag(Holds(op, Ticked[f[2]], Ticked[f[3]])))

AntLc ==
  \E op \in {"LCL", "LCH"} \cup Unknown, f \in Fields, imm \in Imm16 :
    /\ Issue(op, f, imm)
    /\ IF ~Permitted({f[1]}, {}) THEN Raise(Ticked, "REG_VIOL")
       ELSE IF op \in Unknown THEN Raise(Ticked, "ILL_INS")
       ELSE Give(f[1], IF op = "LCL" THEN Signed(imm, HwordSize)
                       ELSE Truncate(Lower(Ticked[f[1]], HwordSize) + imm * HwordSize))
-----------------------------------------------------------------------------
(* ant_special, ant_opt_usr, ant_opt_sys: values from outside.             *)

(* INFO of the options prints a message and sets nothing; CIN without a    *)
(* character gives what its variable `val' happens to hold.                *)
AntInput ==
  \E op \in {"INFO", "RAND", "CIN"}, f \in Fields :
    /\ IssueR(op, f)
    /\ IF ~Permitted({f[1]}, {}) THEN Raise(Ticked, "REG_VIOL")
       ELSE \/ \E v \in Given : Give(f[1], v)
            \/ op = "INFO" /\ Leave(Ticked)

AntCout ==
  \E f \in Fields :
    /\ IssueR("COUT", f)
    /\ IF Permitted({}, {f[2]}) THEN Leave(Ticked) ELSE Raise(Ticked, "REG_VIOL")

(* TRAP, and an opcode that the switch of ant_exec_inst, ant_special,      *)
(* ant_opt_usr or ant_branch does not know.                                *)
AntTrap ==
  \E op \in {"TRAP"} \cup Unknown, f \in Fields :
    /\ IssueR(op, f)
    /\ Raise(Ticked, IF op = "TRAP" THEN "TRAP" ELSE "ILL_INS")

(* Its third operand is not checked, the second one twice.                 *)
AntSrand ==
  \E op \in {"SRAND"} \cup Unknown, f \in Fields :
    /\ IssueR(op, f)
    /\ IF cpu.mode = "USER" THEN Raise(Ticked, "PRIV_INS")
       ELSE IF op \in Unknown THEN Raise(Ticked, "ILL_INS")
       ELSE IF Permitted({}, {f[1], f[2]}) THEN Leave(Ticked)
       ELSE Raise(Ticked, "REG_VIOL")
-----------------------------------------------------------------------------
(* ant_branch: a jump by registers keeps the address it left.              *)

ByRegister == {"JEZ", "JNZ", "BEZ", "BNZ"}
ByConst    == {"BEZI", "BNZI"}

(* The machine after a branch that tests register src for zero.            *)
Branched(op, src, target) ==
  IF (Ticked[src] = 0) = (op \in {"JEZ", "BEZ", "BEZI"})
  THEN [cpu EXCEPT !.pc = target] ELSE Onward

AntBranch ==
  \/ \E op \in ByRegister, f \in Fields :
       LET base == IF op \in {"BEZ", "BNZ"} THEN cpu.pc ELSE 0 IN
       /\ IssueR(op, f)
       /\ IF Permitted({f[1]}, {f[2], f[3]})
          THEN Goto(SetDesReg(Ticked, f[1], cpu.pc),
                    Branched(op, f[2], Wrap(base + Ticked[f[3]])))
          ELSE Raise(Ticked, "REG_VIOL")
  \/ \E op \in ByConst, f \in Fields, offset \in Imm16 :
       /\ Issue(op, f, offset)
       /\ IF Permitted({}, {f[1]})
          THEN Goto(Ticked, Branched(op, f[1], Truncate(cpu.pc + 4 * offset)))
          ELSE Raise(Ticked, "REG_VIOL")
-----------------------------------------------------------------------------
(* ant_load_store, do_load_store                                           *)

\* Seeded fault: the byte is looked for where a big-endian host has it.
HostByteUnswapped(vaddr) == vaddr % 4

HostByte(vaddr) == 3 - (vaddr % 4)

MemWord(m)  == Truncate(m[0] + ByteSize * (m[1] + ByteSize * (m[2] + ByteSize * m[3])))
HostBytes(v) == [i \in 0 .. 3 |-> Lower(v \div Weight[i + 1], ByteSize)]

Vaddr == Wrap(Ticked[inst'.f[2]] + inst'.imm)

(* An access is refused because of its alignment, or later by the memory   *)
(* system, when its address is in e2.                                      *)
Refused(g, size, access) ==
  IF Aligned(Vaddr, size)
  THEN \E exc \in Refusal : Fail(Latched(g, Vaddr), access, exc)
  ELSE Fail(g, access, "ALIGN")

Load(op, r) ==
  LET g == Counted(Ticked, ReadCount)
      size == IF op = "LD1" THEN 1 ELSE 4
  IN  \/ Refused(g, size, "READ")
      \/ /\ Aligned(Vaddr, size)
         /\ Leave(SetDesReg(Latched(g, Vaddr), r,
                            IF op = "LD1" THEN Signed(mem[HostByte(Vaddr)], ByteSize)
                            ELSE MemWord(mem)))

Store(op, r) ==
  LET g == Counted(Ticked, WriteCount)
      size == IF op = "ST1" THEN 1 ELSE 4
  IN  \/ Refused(g, size, "WRITE")
      \/ /\ Aligned(Vaddr, size)
         /\ mem' = IF op = "ST1" THEN [mem EXCEPT ![HostByte(Vaddr)] = Lower(Ticked[r], ByteSize)]
                   ELSE HostBytes(Ticked[r])
         /\ Complete(Latched(g, Vaddr), "OK", Onward)

\* Seeded fault: the register is set before the store is known to succeed.
ExchangeEarly(r) ==
  LET g == Counted(Ticked, ReadCount)
      h == Counted(Latched(g, Vaddr), WriteCount)
      x == SetDesReg(h, r, MemWord(mem))
  IN  \/ Refused(g, 4, "READ")
      \/ Aligned(Vaddr, 4) /\ \E exc \in Refusal : Fail(x, "WRITE", exc)
      \/ /\ Aligned(Vaddr, 4)
         /\ mem' = HostBytes(Ticked[r])
         /\ Complete(x, "OK", Onward)

(* What is read may still be refused when it is written.                   *)
Exchange(r) ==
  LET g == Counted(Ticked, ReadCount)
      h == Counted(Latched(g, Vaddr), WriteCount)
  IN  \/ Refused(g, 4, "READ")
      \/ Aligned(Vaddr, 4) /\ \E exc \in Refusal : Fail(h, "WRITE", exc)
      \/ /\ Aligned(Vaddr, 4)
         /\ mem' = HostBytes(Ticked[r])
         /\ Complete(SetDesReg(h, r, MemWord(mem)), "OK", Onward)

(* What goes wrong is caught where it does, an unknown opcode by nobody.   *)
AntLoadStore ==
  \E op \in {"LD1", "LD4", "ST1", "ST4", "EX4"} \cup Unknown, f \in Fields, imm \in Imm8 :
    LET sets == op \in {"LD1", "LD4", "EX4"} IN
    /\ Issue(op, f, imm)
    /\ IF ~Permitted({}, {f[2]}) THEN Raise(Ticked, "REG_VIOL")
       ELSE IF ~Permitted(IF sets THEN {f[1]} ELSE {}, IF sets THEN {} ELSE {f[1]})
            THEN Raise(Ticked, "REG_VIOL")
       ELSE \/ op \in Unknown /\ Throw(Ticked, "ILL_INS")
            \/ op \in {"LD1", "LD4"} /\ Load(op, f[1])
            \/ op \in {"ST1", "ST4"} /\ Store(op, f[1])
            \/ op = "EX4" /\ Exchange(f[1])
-----------------------------------------------------------------------------
(* ant_sys_ops: supervisor mode only.  TLBPI and TLBLE write the register  *)
(* file itself, r0 too; it is reset when the instruction ends.             *)

(* TLBPI: on a hit `fault' is not assigned before it is looked at.         *)
TlbPi(f) ==
  IF ~Permitted({f[1]}, {f[2]}) THEN Raise(Ticked, "REG_VIOL")
  ELSE \/ \E exc \in Fault : Raise(Ticked, exc)
       \/ \E status \in Status \ {"OK"} : Complete(Ticked, status, Onward) /\ UNCHANGED mem
       \/ \E v \in Given : Leave([Ticked EXCEPT ![f[1]] = v])

TlbLe(f) ==
  IF f[1] % 2 # 0 THEN Raise(Ticked, "ILL_INS")
  ELSE IF ~Permitted({f[1], f[1] + 1}, {f[2]}) THEN Raise(Ticked, "REG_VIOL")
  ELSE Raise(Ticked, "TLB_INV")
       \/ \E lo, hi \in Given : Leave([Ticked EXCEPT ![f[1]] = lo, ![f[1] + 1] = hi])

TlbSe(f) ==
  IF f[3] % 2 # 0 THEN Raise(Ticked, "ILL_INS")
  ELSE IF ~Permitted({}, {f[2], f[3], f[3] + 1}) THEN Raise(Ticked, "REG_VIOL")
  ELSE Raise(Ticked, "TLB_INV") \/ Leave(Ticked)

Leh(f) ==
  IF ~Permitted({}, {f[2]}) THEN Raise(Ticked, "REG_VIOL")
  ELSE Goto(Ticked, [Onward EXCEPT !.eh = Ticked[f[2]]])

Returned(pc, int, usr) ==
  [cpu EXCEPT !.pc = pc, !.int_disable = int % 2 = 1, !.exc_disable = FALSE,
              !.mode = IF usr % 2 = 1 THEN "USER" ELSE "SUPER"]

Rfe(f) ==
  IF ~Permitted({}, {f[1], f[2], f[3]}) THEN Raise(Ticked, "REG_VIOL")
  ELSE Goto(Ticked, Returned(Ticked[f[1]], Ticked[f[2]], Ticked[f[3]]))

Timer(f) ==
  IF ~Permitted({f[1]}, {f[2]}) THEN Raise(Ticked, "REG_VIOL")
  ELSE \E timer \in Given : Give(f[1], timer)

(* CLI, STI, CLE and STE                                                   *)
SetFlag(op) ==
  Goto(Ticked, IF op \in {"CLI", "STI"} THEN [Onward EXCEPT !.int_disable = op = "STI"]
               ELSE [Onward EXCEPT !.exc_disable = op = "STE"])

(* HALT, and IDLE, which lets a timer that is set go off when interrupts   *)
(* are disabled.                                                           *)
Stop(op) ==
  \/ Complete(Ticked, op, Onward) /\ UNCHANGED mem
  \/ op = "IDLE" /\ cpu.int_disable /\ Raise(Ticked, "TIMER")

AntSysOps ==
  \E op \in {"TLBPI", "TLBLE", "TLBSE", "LEH", "RFE", "TIMER", "CLI", "STI", "CLE", "STE",
            "HALT", "IDLE"} \cup Unknown, f \in Fields :
    /\ IssueR(op, f)
    /\ \/ cpu.mode = "USER" /\ Raise(Ticked, "PRIV_INS")
       \/ /\ cpu.mode = "SUPER"
          /\ \/ op = "TLBPI" /\ TlbPi(f)
             \/ op = "TLBLE" /\ TlbLe(f)
             \/ op = "TLBSE" /\ TlbSe(f)
             \/ op = "LEH" /\ Leh(f)
             \/ op = "RFE" /\ Rfe(f)
             \/ op = "TIMER" /\ Timer(f)
             \/ op \in {"CLI", "STI", "CLE", "STE"} /\ SetFlag(op)
             \/ op \in {"HALT", "IDLE"} /\ Stop(op)
             \/ op \in Unknown /\ Raise(Ticked, "ILL_INS")
-----------------------------------------------------------------------------
Init ==
  /\ \E m \in Seeds : cpu = m.cpu /\ reg = m.reg
  /\ mem = [i \in 0 .. 3 |-> Lower(i, ByteSize)]
  /\ rc = "OK" /\ inst = NoInst /\ insts = 0

ExecInst ==
  FetchFault \/ AntArith \/ AntArithI \/ AntAritho \/ AntArithio \/ AntCompare \/ AntLc
  \/ AntInput \/ AntCout \/ AntTrap \/ AntSrand \/ AntBranch \/ AntLoadStore \/ AntSysOps

Next == insts < MaxInsts /\ rc # "HOST_TRAP" /\ ExecInst

Spec == Init /\ [][Next]_vars
=============================================================================
