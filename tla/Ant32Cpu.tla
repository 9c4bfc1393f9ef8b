------------------------------ MODULE Ant32Cpu ------------------------------
(***************************************************************************)
(* The Ant-32 processor: ant_exec_inst and the handlers it dispatches to   *)
(* (Lib32/ant32_exec.c), the exception machinery (ant32_except.c), reset   *)
(* (ant32_boot.c) and the loop ant_exec that drives them.                  *)
(*                                                                         *)
(* One action is one whole call of ant_exec_inst: the exception registers  *)
(* are latched, the timer ticks, the instruction is fetched through the    *)
(* MMU, a handler runs, a timer interrupt may be taken, and whatever was   *)
(* raised is caught and thrown.  The contents of memory and of the         *)
(* general, cycle and k registers are not kept: an instruction fetched may *)
(* be any instruction, a register read may be any word of Values.          *)
(***************************************************************************)
EXTENDS Ant32Mmu

CONSTANTS
  Values,     \* words a register may hold when an instruction reads it
  Handlers,   \* words a register may hold when LEH reads it
  TimerVals,  \* words a register may hold when TIMER reads it
  Storable,   \* entries software stores with TLBSE
  OpFaults,   \* faults of decoding and operands explored, of those in OpFault
  StaleFault  \* what TLBPI's uninitialised `fault' may hold

VARIABLES
  cpu,        \* the machine, ant_t
  rc,         \* what the last ant_exec_inst returned
  raised      \* what the last instruction raised, NONE, or RESET (a history variable)

vars == <<cpu, rc, raised>>

OpFault  == {"ILL_INS", "REG_VIOL", "DIV0", "TRAP"}
MemFault == {"BUS_ERR", "ALIGN", "PRIV_SEG", "TLB_MISS", "TLB_PROT", "TLB_MULTI"}
Exc      == OpFault \cup MemFault \cup {"PRIV_INS", "TLB_INV", "TIMER"}

(* ant_status: ant_exc_t's values up to ANT_EXC_OK, which are not exceptions. *)
Status == {"OK", "IDLE", "HALT", "EXC"}

ASSUME CpuAssumption ==
  /\ Values \subseteq Word
  /\ Handlers \subseteq Word
  /\ TimerVals \subseteq Int
  /\ Storable \subseteq TlbEntry
  /\ OpFaults \subseteq OpFault
  /\ StaleFault \subseteq Status \cup Exc

Mode == {"USER", "SUPER"}

(* Register e3: the SU bit, the DF/DS/IF bits and the exception type. *)
E3 == [su : BOOLEAN, op : Access \cup {"NONE"}, type : Exc \cup {"NONE"}]

Machine ==
  [mode : Mode, pc : Word, eh : Word,
   exc_disable : BOOLEAN, int_disable : BOOLEAN,
   timer : Int, timer_set : BOOLEAN,
   e0 : Word, e1 : BOOLEAN, e2 : Word, e3 : E3,
   tlb : [TlbIndex -> TlbEntry]]

----------------------------------------------------------------------------
(* ant32_except.c *)

(* ant32_exc_update: the shadow registers follow the machine while         *)
(* exceptions are enabled.                                                 *)
\* Seeded fault: e1 is not refreshed.
ExcUpdateKeepsE1(m) ==
  IF m.exc_disable
  THEN m
  ELSE [m EXCEPT !.e0 = m.pc, !.e2 = 0,
                 !.e3 = [su |-> m.mode = "SUPER", op |-> "NONE", type |-> "NONE"]]

ExcUpdate(m) ==
  IF m.exc_disable
  THEN m
  ELSE [m EXCEPT !.e0 = m.pc, !.e1 = m.int_disable, !.e2 = 0,
                 !.e3 = [su |-> m.mode = "SUPER", op |-> "NONE", type |-> "NONE"]]

(* ant32_exc_catch: e3 records what happened. *)
ExcCatch(m, op, exc) ==
  [m EXCEPT !.e3 = [su |-> m.mode = "SUPER", op |-> op, type |-> exc]]

(* ant32_exc_throw: enter the handler; fatal if already in one. *)
\* Seeded fault: the handler is entered in the mode of the interrupted code.
ExcThrowKeepsMode(m) ==
  [m  |-> [m EXCEPT !.pc = m.eh, !.int_disable = TRUE, !.exc_disable = TRUE],
   rc |-> IF m.exc_disable THEN "EXC" ELSE "OK"]

ExcThrow(m) ==
  [m  |-> [m EXCEPT !.pc = m.eh, !.int_disable = TRUE, !.mode = "SUPER",
                    !.exc_disable = TRUE],
   rc |-> IF m.exc_disable THEN "EXC" ELSE "OK"]

----------------------------------------------------------------------------
(* do_load_store: alignment, translation, then physical memory; the catch  *)
(* of a memory exception is done here, at the point of the fault.          *)
DoLoadStore(m, v, size, access, update_e2) ==
  LET t == V2P(m, v, m.mode, {access}, update_e2)
      Fault(n, f) == [m |-> ExcCatch(n, access, f), rc |-> f]
  IN  IF v % size # 0 THEN Fault(m, "ALIGN")
      ELSE IF t.fault # "OK" THEN Fault(t.m, t.fault)
      ELSE IF ~P2Vm(t.paddr) THEN Fault(t.m, "BUS_ERR")
      ELSE [m |-> t.m, rc |-> "OK"]

InstSize == 4

(* increment_pc: the counter is an unsigned word. *)
\* Seeded fault: the counter does not wrap.
NextPcUnwrapped(pc) == pc + InstSize

NextPc(pc) == (pc + InstSize) % WordSize

(* ant32_update_timer *)
\* Seeded fault: the timer runs in supervisor mode only.
UpdateTimerSuper(m) ==
  IF m.timer_set /\ m.timer > 0 /\ m.mode = "SUPER"
  THEN [m EXCEPT !.timer = @ - 1] ELSE m

UpdateTimer(m) ==
  IF m.timer_set /\ m.timer > 0 THEN [m EXCEPT !.timer = @ - 1] ELSE m

(* What ant_exec_inst does before it dispatches: latch, tick and fetch.    *)
Fetched ==
  LET m == UpdateTimer(ExcUpdate(cpu))
  IN  DoLoadStore(m, m.pc, InstSize, "EXEC", TRUE)

(* The machine a handler starts from, its program counter moved on; none   *)
(* if the fetch failed.                                                    *)
Dispatched ==
  LET f == Fetched
  IN  IF f.rc = "OK"
      THEN {[f.m EXCEPT !.pc = NextPc(@)]}
      ELSE {}

(* What it does after the handler of an instruction left machine m and     *)
(* returned r.  `mem' says that the instruction has the memory prefix: its *)
(* catch is taken to be done already.                                      *)
CheckIntr(m) == m.timer_set /\ m.timer = 0

TimerDue(m, r) == r = "OK" /\ ~m.int_disable /\ CheckIntr(m)

\* Seeded fault: a timer that expires while masked is disarmed all the same.
FinishDropsMasked(m, r, mem) ==
  LET due == TimerDue(m, r)
      n   == IF CheckIntr(m) THEN [m EXCEPT !.timer_set = FALSE] ELSE m
      exc == IF due THEN "TIMER" ELSE r
      thr == ExcThrow(IF mem THEN n ELSE ExcCatch(n, "NONE", exc))
  IN  IF exc \in Status
      THEN [m |-> n, rc |-> exc, raised |-> "NONE"]
      ELSE [m |-> thr.m, rc |-> thr.rc, raised |-> exc]

\* Seeded fault: the catch is done for memory instructions too.
FinishCatchesAll(m, r, mem) ==
  LET due == TimerDue(m, r)
      n   == IF due THEN [m EXCEPT !.timer_set = FALSE] ELSE m
      exc == IF due THEN "TIMER" ELSE r
      thr == ExcThrow(ExcCatch(n, "NONE", exc))
  IN  IF exc \in Status
      THEN [m |-> n, rc |-> exc, raised |-> "NONE"]
      ELSE [m |-> thr.m, rc |-> thr.rc, raised |-> exc]

Finish(m, r, mem) ==
  LET due == TimerDue(m, r)
      n   == IF due THEN [m EXCEPT !.timer_set = FALSE] ELSE m
      exc == IF due THEN "TIMER" ELSE r
      thr == ExcThrow(IF mem THEN n ELSE ExcCatch(n, "NONE", exc))
  IN  IF exc \in Status
      THEN [m |-> n, rc |-> exc, raised |-> "NONE"]
      ELSE [m |-> thr.m, rc |-> thr.rc, raised |-> exc]

Complete(m, r, mem) ==
  LET f == Finish(m, r, mem)
  IN  /\ cpu' = f.m
      /\ rc' = f.rc
      /\ raised' = f.raised

----------------------------------------------------------------------------
(* Instructions *)

(* The instruction cannot be fetched: do_load_store has caught the fault.  *)
FetchFault ==
  \E f \in {Fetched} :
    LET thr == ExcThrow(f.m)
    IN  /\ f.rc # "OK"
        /\ cpu' = thr.m
        /\ rc' = thr.rc
        /\ raised' = f.rc

(* ant_arith, ant_arithi, ant_aritho, ant_arithio, ant_compare, ant_lc,    *)
(* ant_special and ant_opt_usr: they touch registers and the console only. *)
Compute == \E d \in Dispatched, r \in {"OK"} \cup OpFaults : Complete(d, r, FALSE)

(* ant_branch: not taken, absolute or relative to the branch. *)
Branch ==
  \E d \in Dispatched, v \in Values :
    \E target \in {d.pc, v, (cpu.pc + v) % WordSize} :
      Complete([d EXCEPT !.pc = target], "OK", FALSE)

(* ant_load_store: LD1, LD4, ST1 and ST4. *)
LoadStore ==
  \E d \in Dispatched, v \in Values, size \in {1, 4}, access \in {"READ", "WRITE"} :
    LET o == DoLoadStore(d, v, size, access, TRUE)
    IN  Complete(o.m, o.rc, TRUE)

(* EX4: a load and, if it succeeds, a store of the same word. *)
Exchange ==
  \E d \in Dispatched, v \in Values :
    LET l == DoLoadStore(d, v, 4, "READ", TRUE)
        s == DoLoadStore(l.m, v, 4, "WRITE", TRUE)
        o == IF l.rc = "OK" THEN s ELSE l
    IN  Complete(o.m, o.rc, TRUE)

(* A bad register, caught in ant_load_store, and an opcode it does not     *)
(* know, which nobody catches.                                             *)
LoadStoreBadReg ==
  \E d \in Dispatched :
    /\ "REG_VIOL" \in OpFaults
    /\ Complete(ExcCatch(d, "NONE", "REG_VIOL"), "REG_VIOL", TRUE)

LoadStoreBadOp ==
  \E d \in Dispatched :
    /\ "ILL_INS" \in OpFaults
    /\ Complete(d, "ILL_INS", TRUE)

(* ant_sys_ops and ant_opt_sys: every opcode is refused in user mode       *)
(* before anything else is looked at.                                      *)
\* Seeded fault: the mode is not looked at.
SysUnchecked(d, m, r) == Complete(m, r, FALSE)

Sys(d, m, r) ==
  IF d.mode = "USER"
  THEN Complete(d, "PRIV_INS", FALSE)
  ELSE Complete(m, r, FALSE)

SysBadOperand ==
  \E d \in Dispatched, r \in OpFaults \cap {"REG_VIOL", "ILL_INS"} : Sys(d, d, r)

(* TLBPI: on a hit, and for an unmapped segment, ant32_find_tlb_entry does *)
(* not assign the handler's `fault', which is then read uninitialised.     *)
TlbProbe ==
  \E d \in Dispatched, v \in Values :
    LET f == FindTlbEntry(d.tlb, Seg(v), Vpn(v)).fault
    IN  \E r \in IF f = "UNSET" THEN StaleFault ELSE {f} : Sys(d, d, r)

(* TLBLE reads an entry into a pair of registers. *)
TlbLoad ==
  \E d \in Dispatched, i \in 0 .. NTlb :
    Sys(d, d, IF i < NTlb THEN "OK" ELSE "TLB_INV")

(* TLBSE stores a pair of registers into an entry. *)
TlbStore ==
  \E d \in Dispatched, i \in 0 .. NTlb, e \in Storable :
    IF i < NTlb
    THEN Sys(d, [d EXCEPT !.tlb[i] = e], "OK")
    ELSE Sys(d, d, "TLB_INV")

Leh == \E d \in Dispatched, v \in Handlers : Sys(d, [d EXCEPT !.eh = v], "OK")

\* Seeded fault: exceptions stay disabled.
RfeMachineKeepsExc(m, target, i, mode) ==
  [m EXCEPT !.pc = target, !.int_disable = i, !.mode = mode]

RfeMachine(m, target, i, mode) ==
  [m EXCEPT !.pc = target, !.int_disable = i, !.exc_disable = FALSE, !.mode = mode]

Rfe ==
  \E d \in Dispatched, target \in Values, i \in BOOLEAN, mode \in Mode :
    Sys(d, RfeMachine(d, target, i, mode), "OK")

Timer ==
  \E d \in Dispatched, v \in TimerVals :
    Sys(d, [d EXCEPT !.timer = v, !.timer_set = v > 0], "OK")

Halt == \E d \in Dispatched : Sys(d, d, "HALT")

(* IDLE: with interrupts disabled and the timer running, the timer goes    *)
(* off at once; otherwise ant_exec is told that the machine idles.         *)
Idle ==
  \E d \in Dispatched :
    IF d.int_disable /\ d.timer_set
    THEN Sys(d, [d EXCEPT !.timer = 0, !.timer_set = FALSE], "TIMER")
    ELSE Sys(d, d, "IDLE")

Cli == \E d \in Dispatched : Sys(d, [d EXCEPT !.int_disable = FALSE], "OK")
Sti == \E d \in Dispatched : Sys(d, [d EXCEPT !.int_disable = TRUE], "OK")
Cle == \E d \in Dispatched : Sys(d, [d EXCEPT !.exc_disable = FALSE], "OK")
Ste == \E d \in Dispatched : Sys(d, [d EXCEPT !.exc_disable = TRUE], "OK")

----------------------------------------------------------------------------
(* ant_reset (ant32_boot.c), from the front end, between instructions.     *)
(* The exception handler register is not touched.  The program counter is  *)
(* read from the last word of memory, which the ROM always backs.          *)
ResetMachine(m) ==
  [m EXCEPT !.mode = "SUPER", !.exc_disable = TRUE, !.int_disable = TRUE,
            !.timer = 0, !.timer_set = FALSE, !.tlb = TlbInit,
            !.e0 = 0, !.e1 = FALSE, !.e2 = 0,
            !.e3 = [su |-> FALSE, op |-> "NONE", type |-> "NONE"]]

ResetPcAddr == WordSize - 4

Boot(m) == DoLoadStore(ResetMachine(m), ResetPcAddr, 4, "READ", FALSE).m

Reset ==
  /\ \E v \in Values : cpu' = [Boot(cpu) EXCEPT !.pc = v]
  /\ rc' = "OK"
  /\ raised' = "RESET"

(* ant_create leaves eh, as malloc returned it; ant_reset follows. *)
Init ==
  /\ \E v \in Values, h \in Handlers :
       cpu = [mode |-> "SUPER", pc |-> v, eh |-> h,
              exc_disable |-> TRUE, int_disable |-> TRUE,
              timer |-> 0, timer_set |-> FALSE,
              e0 |-> 0, e1 |-> FALSE, e2 |-> 0,
              e3 |-> [su |-> FALSE, op |-> "NONE", type |-> "NONE"],
              tlb |-> TlbInit]
  /\ rc = "OK"
  /\ raised = "RESET"

ExecInst ==
  \/ FetchFault
  \/ Compute
  \/ Branch
  \/ LoadStore
  \/ Exchange
  \/ LoadStoreBadReg
  \/ LoadStoreBadOp
  \/ SysBadOperand
  \/ TlbProbe
  \/ TlbLoad
  \/ TlbStore
  \/ Leh
  \/ Rfe
  \/ Timer
  \/ Halt
  \/ Idle
  \/ Cli
  \/ Sti
  \/ Cle
  \/ Ste

(* ant_exec calls ant_exec_inst again after OK and after IDLE, and returns *)
(* after the others.                                                       *)
Exec == rc \in {"OK", "IDLE"} /\ ExecInst

Next == Exec \/ Reset

Spec == Init /\ [][Next]_vars

(* The loop of ant_exec does not stop of itself.  Only its going on while  *)
(* user code runs is assumed.                                              *)
FairSpec == Spec /\ WF_vars(cpu.mode = "USER" /\ Exec)
=============================================================================
