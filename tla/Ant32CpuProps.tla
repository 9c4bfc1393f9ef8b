--------------------------- MODULE Ant32CpuProps ---------------------------
(***************************************************************************)
(* What the Ant-32 processor promises to the software that runs on it.     *)
(***************************************************************************)
EXTENDS Ant32Cpu

(* The machine is a machine, and the last result one ant_exec_inst can     *)
(* return or ant_reset leaves.                                             *)
TypeOK ==
  /\ cpu \in Machine
  /\ rc \in Status
  /\ raised \in Exc \cup {"NONE", "RESET"}

(* User code always runs with exceptions enabled: whichever way the        *)
(* supervisor went through rfe, cle, ste, handlers and resets, no user     *)
(* instruction can meet a disabled exception and bring the machine down.   *)
UserExceptionsEnabled == cpu.mode = "USER" => ~cpu.exc_disable

(* The interrupt of a timer is neither left behind nor dropped: it is      *)
(* pending between two instructions only while interrupts are disabled     *)
(* (unless the machine has idled or stopped), and a timer that was armed   *)
(* stays armed until its interrupt is taken or software sets it again.     *)
NoLostTimer ==
  [][/\ rc' = "OK" /\ CheckIntr(cpu') => cpu'.int_disable
     /\ cpu.timer_set /\ ~cpu'.timer_set =>
          raised' \in {"TIMER", "RESET"} \/ Timer]_vars

(* No instruction executed in user mode makes ant_exec_inst return         *)
(* anything but ANT_EXC_OK: user code cannot halt, idle or kill the        *)
(* processor, whatever it executes and whatever state the supervisor left. *)
UserNeverStops == [][cpu.mode = "USER" => rc' = "OK"]_vars

(* A user instruction changes no supervisor state: not the handler         *)
(* address, no TLB entry but for a dirty bit, the timer only by its tick   *)
(* (and its expiry), no flag.  If it raises something, control goes to the *)
(* handler, in supervisor mode with both flags set.                        *)
SameButDirty(e, f) ==
  /\ f.vseg = e.vseg /\ f.vpn = e.vpn /\ f.ppn = e.ppn
  /\ f.attr \ {"DIRTY"} = e.attr \ {"DIRTY"}
  /\ e.attr \subseteq f.attr
  /\ "WRITE" \notin e.attr => f.attr = e.attr

UserConfined ==
  [][cpu.mode = "USER" /\ raised' # "RESET" =>
       /\ cpu'.eh = cpu.eh
       /\ \A i \in TlbIndex : SameButDirty(cpu.tlb[i], cpu'.tlb[i])
       /\ cpu'.timer \in {cpu.timer, cpu.timer - 1}
       /\ cpu'.timer_set # cpu.timer_set => raised' = "TIMER"
       /\ IF raised' = "NONE"
          THEN /\ cpu'.mode = "USER"
               /\ cpu'.int_disable = cpu.int_disable
               /\ cpu'.exc_disable = cpu.exc_disable
          ELSE /\ cpu'.mode = "SUPER"
               /\ cpu'.pc = cpu.eh
               /\ cpu'.int_disable /\ cpu'.exc_disable]_vars

(* User code is only ever fetched from where the supervisor put it: an     *)
(* instruction that starts in user mode and gets past its fetch lies in    *)
(* the user segment, on a page that exactly one valid TLB entry maps, with *)
(* permission to execute, to memory that exists.                           *)
UserFetchAuthorised ==
  [][cpu.mode = "USER" /\ raised' # "RESET" /\ cpu'.e3.op # "EXEC" =>
       /\ Seg(cpu.pc) = UserSeg
       /\ \E i \in TlbIndex :
            /\ Hits(cpu.tlb, UserSeg, Vpn(cpu.pc)) = {i}
            /\ "EXEC" \in cpu.tlb[i].attr
            /\ cpu.tlb[i].ppn \in Backed]_vars

(* The context of an exception survives the handler: as long as exceptions *)
(* are disabled no instruction, fetch, data access, interrupt or further   *)
(* fault touches e0, e1 and e2, the instruction that enables them again    *)
(* included; and e3 only changes when something is raised.                 *)
ContextFrozen ==
  [][cpu.exc_disable /\ raised' # "RESET" =>
       /\ cpu'.e0 = cpu.e0 /\ cpu'.e1 = cpu.e1 /\ cpu'.e2 = cpu.e2
       /\ raised' = "NONE" => cpu'.e3 = cpu.e3]_vars

(* An exception raised by an instruction that started with exceptions      *)
(* enabled reports that instruction: e0 holds its address and e1 the       *)
(* interrupt flag it started with, although by then it may have jumped,    *)
(* or changed the flag.  If exceptions were disabled, the context is that  *)
(* of an earlier one (ContextFrozen), and a handler sees it again in one   *)
(* case only: a timer interrupt taken on the heels of the instruction that *)
(* enabled exceptions, rfe or cle.  Anything else raised then is fatal.    *)
ContextFresh ==
  [][raised' \in Exc =>
       IF ~cpu.exc_disable
       THEN cpu'.e0 = cpu.pc /\ cpu'.e1 = cpu.int_disable
       ELSE rc' = "OK" => raised' = "TIMER" /\ (Rfe \/ Cle)]_vars

(* The instructions whose catch ant_exec_inst takes to be done already.    *)
MemPrefix == LoadStore \/ Exchange \/ LoadStoreBadReg \/ LoadStoreBadOp

(* e3 tells the handler what happened, unless a memory instruction raises  *)
(* something that neither the memory system nor the check of its registers *)
(* has caught (the timer, an unknown opcode): its type, the kind of access *)
(* exactly for those that only the memory system raises, and the mode the  *)
(* code was in (the mode it returned to, when rfe is interrupted).  What   *)
(* TLBPI may return without an access is TLB_MISS, TLB_MULTI and whatever  *)
(* it reads uninitialised.                                                 *)
E3Faithful ==
  [][raised' \in Exc /\ (raised' \in {"TIMER", "ILL_INS"} => ~MemPrefix) =>
       /\ cpu'.e3.type = raised'
       /\ cpu'.e3.op # "NONE" => raised' \in MemFault
       /\ raised' \in MemFault \ ({"TLB_MISS", "TLB_MULTI"} \cup StaleFault) =>
            cpu'.e3.op # "NONE"
       /\ (raised' = "TIMER" /\ Rfe) \/ cpu'.e3.su = (cpu.mode = "SUPER")]_vars

(* The supervisor gets the processor back: user code that runs with the    *)
(* timer armed and interrupts enabled is left, if ant_exec keeps calling   *)
(* ant_exec_inst.                                                          *)
Preempted ==
  (cpu.mode = "USER" /\ cpu.timer_set /\ ~cpu.int_disable) ~> (cpu.mode = "SUPER")
=============================================================================
