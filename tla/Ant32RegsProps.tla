--------------------------- MODULE Ant32RegsProps ---------------------------
(* What programs rely on in the registers and the memory of the Ant-32.    *)
EXTENDS Ant32Regs

(* The shape of the state.                                                 *)
RegsTypeOK ==
  /\ cpu \in Control
  /\ reg \in [RegNum -> Word] /\ reg[ZeroReg] = 0
  /\ mem \in [0 .. 3 -> Octet]
  /\ rc \in Fault \cup Status \cup {"HOST_TRAP"}
  /\ insts \in 0 .. MaxInsts

(* The last instruction of a step: what it is, and the operands it found.  *)
Op    == inst'.op
Des   == inst'.f[1]
Left  == Ticked[inst'.f[2]]
Right == IF inst'.const THEN inst'.imm ELSE Ticked[inst'.f[3]]
Done  == rc' = "OK" /\ Des # ZeroReg

(* The one product whose high word is wrong: the smallest word by another  *)
(* negative one.                                                           *)
Awkward == \/ Left = MinInt /\ Right \in MinInt + 1 .. -1
           \/ Right = MinInt /\ Left \in MinInt + 1 .. -1

PairProduct == Unsigned(reg'[Des]) + WordSize * reg'[Des + 1]
PairSum     == reg'[Des] + WordSize * reg'[Des + 1]

(* ADDO, SUBO and MULO return the whole result in the pair: the high word  *)
(* of a sum or a difference is the overflow, that of a product its upper   *)
(* digits.  Add32x32, Sub32x32 and Mul32x32 (arith32.c) work it out from   *)
(* signs, half words and carries.                                          *)
WideExact ==
  [][Done => /\ Op = "ADDO" => PairSum = Left + Right
             /\ Op = "SUBO" => PairSum = Left - Right
             /\ Op = "MULO" /\ ~Awkward => PairProduct = Left * Right]_vars

(* Documentation/Arch32/mulo.tex: des + 1 gets bits 63..32 of the product. *)
MulHigh == [][Done /\ Op = "MULO" => PairProduct = Left * Right]_vars

(* An instruction that raises an exception has done nothing, so that the   *)
(* handler can repeat it.  Memory and the registers are as they were, but  *)
(* for the counters and for the exception registers: these hold the        *)
(* address of the instruction and the interrupt flag it ran under, or, if  *)
(* exceptions were disabled, what they held of the one being handled.      *)
PreciseFaults ==
  [][rc' \in Fault =>
       /\ mem' = mem
       /\ \A r \in RegNum \ (CycleReg \cup ExcReg) : reg'[r] = reg[r]
       /\ IF cpu.exc_disable THEN \A r \in {E0, E1, E2} : reg'[r] = reg[r]
          ELSE reg'[E0] = cpu.pc /\ reg'[E1] = Flag(cpu.int_disable)]_vars

(* The registers an instruction names, by its format.                      *)
Named(i) ==
  IF i.op \in {"LCL", "LCH", "INFO", "RAND", "CIN"} \cup ByConst THEN {i.f[1]}
  ELSE IF i.op = "COUT" THEN {i.f[2]}
  ELSE {i.f[1], i.f[2]} \cup (IF i.const THEN {} ELSE {i.f[3]})
                       \cup (IF i.op \in Wide THEN {i.f[1] + 1} ELSE {})

Transfer == {"LD1", "LD4", "ST1", "ST4", "EX4"}

(* User code cannot use a register of the supervisor, however it names it: *)
(* as any operand, as either register of a pair, as an address, as what is *)
(* exchanged.  It leaves the k registers alone, and the exception          *)
(* registers hold what the processor records of its instruction and        *)
(* nothing else: where it was, the interrupt flag, an address it fetched   *)
(* or accessed, and that it ran in user mode.                              *)
UserRegistersOnly ==
  [][cpu.mode = "USER" =>
       /\ \A r \in SupReg : reg'[r] = reg[r]
       /\ reg'[E0] = cpu.pc /\ reg'[E1] = Flag(cpu.int_disable)
       /\ reg'[E2] \in {0, cpu.pc} \/ (Op \in Transfer /\ reg'[E2] = Vaddr)
       /\ reg'[E3] % 2 = 0
       /\ rc' = "OK" => reg'[E3] = 0 /\ Named(inst') \cap (SupReg \cup ExcReg) = {}]_vars

(* The bytes of memory in the order of the Ant-32, the most significant    *)
(* one first, and the word they make.                                      *)
View       == [i \in 0 .. 3 |-> mem[3 - i]]
BigEndian(v, x) == \A i \in 0 .. 3 : v[i] = Lower(x \div Weight[4 - i], ByteSize)

(* Whatever the host's byte order, programs see a big-endian memory: words *)
(* and bytes stored and loaded are those of View.                          *)
BigEndianMemory ==
  [][rc' = "OK" =>
       LET a == Vaddr % 4  r == inst'.f[1] IN
       /\ Op \in {"ST4", "EX4"} => BigEndian(View', Ticked[r])
       /\ Op \in {"LD4", "EX4"} /\ r # ZeroReg => BigEndian(View, reg'[r])
       /\ Op = "ST1" => View' = [View EXCEPT ![a] = Lower(Ticked[r], ByteSize)]
       /\ Op = "LD1" /\ r # ZeroReg => Lower(reg'[r], ByteSize) = View[a]]_vars
=============================================================================
