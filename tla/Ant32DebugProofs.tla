-------------------------- MODULE Ant32DebugProofs --------------------------
(***************************************************************************)
(* Proofs about the Ant-32 processor and the debugger that drives it.      *)
(*                                                                         *)
(* The processor: its safety, for every size of memory and TLB and every   *)
(* choice of the words and entries software uses.  The lemmas follow the   *)
(* calls of ant_exec_inst from the bottom up: the TLB search, translation, *)
(* do_load_store, the prologue, the handlers and what is done after them.  *)
(* Each says that its operator yields a machine and which flags and        *)
(* context registers it keeps.                                             *)
(*                                                                         *)
(* The debugger: whatever the user types and whenever SIGINT arrives,      *)
(* execution never goes past a breakpoint, a run that comes back has       *)
(* executed something or was interrupted, the debugger never brings the    *)
(* processor into a state where user code could not trap, it changes       *)
(* nothing of the processor it was not told to, and the table of           *)
(* breakpoints is a set of addresses.                                      *)
(***************************************************************************)
EXTENDS Ant32DebugProps, Ant32CpuProps, AntFolds, FiniteSetTheorems, TLAPS

(* n has the mode and the exception flag of m, and its timer is armed if   *)
(* that of m is.                                                           *)
SameFlags(n, m) ==
  n.mode = m.mode /\ n.exc_disable = m.exc_disable /\ n.timer_set = m.timer_set

(* n has the shadow registers of m, and its whole exception context.       *)
SameShadow(n, m) == n.e0 = m.e0 /\ n.e1 = m.e1
SameContext(n, m) == SameShadow(n, m) /\ n.e2 = m.e2

(* A machine whose user code, if that is what it runs, can trap. *)
Trappable(m) == m.mode = "USER" => ~m.exc_disable

(* The next program counter, and any other sum taken modulo the word size, *)
(* is a word.                                                              *)
LEMMA WordModulo == ASSUME NEW x \in Int PROVE x % WordSize \in Word
<1>1. SegSize \in Nat \ {0}
  BY MmuAssumption, SMT DEF SegSize
<1>2. WordSize \in Nat \ {0}
  BY <1>1, SMT DEF WordSize
<1>3. x % WordSize \in 0 .. WordSize - 1
  BY <1>2, SMT
<1> QED BY <1>3 DEF Word

LEMMA ZeroIsWord == 0 \in Word
<1>1. 0 % WordSize \in Word
  BY WordModulo
<1>2. SegSize \in Nat \ {0}
  BY MmuAssumption, SMT DEF SegSize
<1>3. WordSize \in Nat \ {0}
  BY <1>2, SMT DEF WordSize
<1> QED BY <1>3, SMT DEF Word

(* ant32_find_tlb_entry: a non-negative index names an entry, and a mapped *)
(* segment without one is a miss or a multiple match.                      *)
LEMMA FindTlbEntryFacts ==
  ASSUME NEW tlb, NEW seg, NEW vpn
  PROVE  LET f == FindTlbEntry(tlb, seg, vpn)
         IN  /\ f.index \in TlbIndex \cup {-1}
             /\ f.fault \in {"UNSET", "TLB_MISS", "TLB_MULTI"}
             /\ seg \in Mapped /\ f.index < 0 => f.fault # "UNSET"
<1> DEFINE hits == Hits(tlb, seg, vpn)
<1>1. hits \subseteq TlbIndex
  BY DEF Hits
<1>2. hits # {} => (CHOOSE i \in hits : TRUE) \in TlbIndex
  BY <1>1
<1>3. \A i \in TlbIndex : i \in Int /\ i >= 0
  BY MmuAssumption, SMT DEF TlbIndex
<1> HIDE DEF hits
<1>4. CASE seg \notin Mapped
  BY <1>4 DEF FindTlbEntry
<1>5. CASE seg \in Mapped /\ hits = {}
  BY <1>5 DEF FindTlbEntry, hits
<1>6. CASE seg \in Mapped /\ hits # {} /\ \E i, j \in hits : i # j
  BY <1>6 DEF FindTlbEntry, hits
<1>7. CASE seg \in Mapped /\ hits # {} /\ ~\E i, j \in hits : i # j
  <2>1. FindTlbEntry(tlb, seg, vpn)
          = [index |-> CHOOSE i \in hits : TRUE, fault |-> "UNSET"]
    BY <1>7 DEF FindTlbEntry, hits
  <2> QED BY <1>2, <1>3, <1>7, <2>1
<1> QED BY <1>4, <1>5, <1>6, <1>7

(* The latch of e2 keeps everything but e2, and e2 too while exceptions    *)
(* are disabled.                                                           *)
LEMMA LatchE2Facts ==
  ASSUME NEW m \in Machine, NEW v \in Word, NEW update_e2 \in BOOLEAN
  PROVE  LET n == LatchE2(m, v, update_e2)
         IN  /\ n \in Machine
             /\ SameFlags(n, m) /\ SameShadow(n, m) /\ n.e3 = m.e3
             /\ n.int_disable = m.int_disable
             /\ m.exc_disable => SameContext(n, m)
BY DEF LatchE2, Machine, SameFlags, SameShadow, SameContext

LEMMA MarkDirtyFacts ==
  ASSUME NEW m \in Machine, NEW i \in TlbIndex, NEW access
  PROVE  LET n == MarkDirty(m, i, access)
         IN  /\ n \in Machine /\ SameFlags(n, m) /\ SameContext(n, m)
             /\ n.e3 = m.e3 /\ n.int_disable = m.int_disable
<1> DEFINE e == [m.tlb[i] EXCEPT !.attr = @ \cup {"DIRTY"}]
           t == [m.tlb EXCEPT ![i] = e]
<1>1. m.tlb \in [TlbIndex -> TlbEntry] /\ m.tlb[i] \in TlbEntry
  BY DEF Machine
<1>2. e \in TlbEntry
  BY <1>1 DEF TlbEntry, TlbAttr
<1>3. t \in [TlbIndex -> TlbEntry]
  BY <1>1, <1>2
<1>4. CASE access = {"WRITE"}
  <2>1. MarkDirty(m, i, access) = [m EXCEPT !.tlb = t]
    BY <1>1, <1>4 DEF MarkDirty, Machine
  <2> HIDE DEF t
  <2>2. [m EXCEPT !.tlb = t] \in Machine
    BY <1>3 DEF Machine
  <2> QED BY <2>1, <2>2 DEF Machine, SameFlags, SameShadow, SameContext
<1>5. CASE access # {"WRITE"}
  BY <1>5 DEF MarkDirty, SameFlags, SameShadow, SameContext
<1> QED BY <1>4, <1>5

(* ant32_v2p either translates or names a memory fault, and keeps the      *)
(* context of an exception that is being handled.                          *)
LEMMA V2PFacts ==
  ASSUME NEW m \in Machine, NEW v \in Word, NEW mode, NEW access,
         NEW update_e2 \in BOOLEAN
  PROVE  LET t == V2P(m, v, mode, access, update_e2)
         IN  /\ t.m \in Machine
             /\ SameFlags(t.m, m) /\ SameShadow(t.m, m) /\ t.m.e3 = m.e3
             /\ t.m.int_disable = m.int_disable
             /\ m.exc_disable => SameContext(t.m, m)
             /\ t.fault \in {"OK"} \cup MemFault
<1> DEFINE n == LatchE2(m, v, update_e2)
           hit == FindTlbEntry(m.tlb, Seg(v), Vpn(v))
           t == V2P(m, v, mode, access, update_e2)
<1>1. /\ n \in Machine
      /\ SameFlags(n, m) /\ SameShadow(n, m) /\ n.e3 = m.e3
      /\ n.int_disable = m.int_disable
      /\ m.exc_disable => SameContext(n, m)
  BY LatchE2Facts
<1>2. /\ hit.index \in TlbIndex \cup {-1}
      /\ hit.fault \in {"UNSET", "TLB_MISS", "TLB_MULTI"}
      /\ Seg(v) \in Mapped /\ hit.index < 0 => hit.fault # "UNSET"
  BY FindTlbEntryFacts
<1>3. \A f : t = [m |-> n, fault |-> f, paddr |-> -1] => t.m = n /\ t.fault = f
  OBVIOUS
<1>4. CASE mode = "USER" /\ Seg(v) # UserSeg
  <2>1. t.m = n /\ t.fault = "PRIV_SEG"
    BY <1>4 DEF V2P
  <2> QED BY <1>1, <2>1 DEF MemFault
<1>5. CASE ~(mode = "USER" /\ Seg(v) # UserSeg) /\ Seg(v) \notin Mapped
  <2>1. t.m = n /\ t.fault = "OK"
    BY <1>5 DEF V2P
  <2> QED BY <1>1, <2>1
<1>6. CASE ~(mode = "USER" /\ Seg(v) # UserSeg) /\ Seg(v) \in Mapped /\ hit.index < 0
  <2>1. t.m = n /\ t.fault = hit.fault
    BY <1>6 DEF V2P
  <2> QED BY <1>1, <1>2, <1>6, <2>1 DEF MemFault
<1>7. CASE /\ ~(mode = "USER" /\ Seg(v) # UserSeg) /\ Seg(v) \in Mapped
           /\ ~(hit.index < 0)
           /\ ~(access \subseteq m.tlb[hit.index].attr)
  <2>1. t.m = n /\ t.fault = "TLB_PROT"
    BY <1>7 DEF V2P
  <2> QED BY <1>1, <2>1 DEF MemFault
<1>8. CASE /\ ~(mode = "USER" /\ Seg(v) # UserSeg) /\ Seg(v) \in Mapped
           /\ ~(hit.index < 0)
           /\ access \subseteq m.tlb[hit.index].attr
  <2>1. t.m = MarkDirty(n, hit.index, access) /\ t.fault = "OK"
    BY <1>8 DEF V2P
  <2>2. hit.index \in TlbIndex
    BY <1>2, <1>8, SMT
  <2>3. /\ t.m \in Machine
        /\ SameFlags(t.m, n)
        /\ SameContext(t.m, n) /\ t.m.e3 = n.e3
        /\ t.m.int_disable = n.int_disable
    BY <1>1, <2>1, <2>2, MarkDirtyFacts
  <2> QED BY <1>1, <2>1, <2>3 DEF SameFlags, SameShadow, SameContext
<1> QED BY <1>4, <1>5, <1>6, <1>7, <1>8

----------------------------------------------------------------------------
(* The exception machinery and the timer *)

LEMMA ExcUpdateFacts ==
  ASSUME NEW m \in Machine
  PROVE  LET n == ExcUpdate(m)
         IN  /\ n \in Machine
             /\ SameFlags(n, m)
             /\ m.exc_disable => SameContext(n, m) /\ n.e3 = m.e3
             /\ ~m.exc_disable => n.e0 = m.pc /\ n.e1 = m.int_disable
<1>1. CASE m.exc_disable
  BY <1>1 DEF ExcUpdate, SameFlags, SameShadow, SameContext
<1>2. CASE ~m.exc_disable
  <2> DEFINE e == [su |-> m.mode = "SUPER", op |-> "NONE", type |-> "NONE"]
  <2>1. e \in E3
    BY DEF E3
  <2>2. ExcUpdate(m)
          = [m EXCEPT !.e0 = m.pc, !.e1 = m.int_disable, !.e2 = 0, !.e3 = e]
    BY <1>2 DEF ExcUpdate
  <2> HIDE DEF e
  <2> QED BY <1>2, <2>1, <2>2, ZeroIsWord DEF Machine, SameFlags
<1> QED BY <1>1, <1>2

LEMMA ExcCatchFacts ==
  ASSUME NEW m \in Machine, NEW op \in Access \cup {"NONE"}, NEW exc \in Exc
  PROVE  LET n == ExcCatch(m, op, exc)
         IN  /\ n \in Machine /\ SameFlags(n, m) /\ SameContext(n, m)
             /\ n.int_disable = m.int_disable
<1> DEFINE e == [su |-> m.mode = "SUPER", op |-> op, type |-> exc]
<1>1. e \in E3
  BY DEF E3
<1>2. ExcCatch(m, op, exc) = [m EXCEPT !.e3 = e]
  BY DEF ExcCatch
<1> HIDE DEF e
<1> QED BY <1>1, <1>2 DEF Machine, SameFlags, SameShadow, SameContext

LEMMA ExcThrowFacts ==
  ASSUME NEW m \in Machine
  PROVE  LET t == ExcThrow(m)
         IN  /\ t.m \in Machine
             /\ t.m.mode = "SUPER" /\ t.m.int_disable /\ t.m.exc_disable
             /\ SameContext(t.m, m)
             /\ t.rc \in {"OK", "EXC"}
             /\ t.m.timer_set = m.timer_set
             /\ t.rc = IF m.exc_disable THEN "EXC" ELSE "OK"
BY DEF ExcThrow, Machine, Mode, SameShadow, SameContext

LEMMA UpdateTimerFacts ==
  ASSUME NEW m \in Machine
  PROVE  LET n == UpdateTimer(m)
         IN  n \in Machine /\ SameFlags(n, m) /\ SameContext(n, m) /\ n.e3 = m.e3
<1>1. m.timer - 1 \in Int
  BY SMT DEF Machine
<1>2. [m EXCEPT !.timer = m.timer - 1] \in Machine
  BY <1>1 DEF Machine
<1> QED BY <1>2 DEF UpdateTimer, Machine, SameFlags, SameShadow, SameContext

(* do_load_store: if it fails, with a memory fault, then it has caught it. *)
LEMMA DoLoadStoreFacts ==
  ASSUME NEW m \in Machine, NEW v \in Word, NEW size, NEW access \in Access,
         NEW update_e2 \in BOOLEAN
  PROVE  LET o == DoLoadStore(m, v, size, access, update_e2)
         IN  /\ o.m \in Machine
             /\ o.m.int_disable = m.int_disable
             /\ SameFlags(o.m, m) /\ SameShadow(o.m, m)
             /\ m.exc_disable => SameContext(o.m, m)
             /\ o.rc \in {"OK"} \cup MemFault
             /\ o.rc = "OK" => o.m.e3 = m.e3
<1> DEFINE t == V2P(m, v, m.mode, {access}, update_e2)
           o == DoLoadStore(m, v, size, access, update_e2)
<1>1. /\ t.m \in Machine
      /\ SameFlags(t.m, m) /\ SameShadow(t.m, m) /\ t.m.e3 = m.e3
      /\ t.m.int_disable = m.int_disable
      /\ m.exc_disable => SameContext(t.m, m)
      /\ t.fault \in {"OK"} \cup MemFault
  BY V2PFacts
<1>2. ASSUME NEW n \in Machine, NEW f \in MemFault
      PROVE  LET c == ExcCatch(n, access, f)
             IN  /\ c \in Machine /\ SameFlags(c, n) /\ SameContext(c, n)
                 /\ c.int_disable = n.int_disable
  <2>1. f \in Exc /\ access \in Access \cup {"NONE"}
    BY DEF Exc
  <2> QED BY <2>1, ExcCatchFacts
<1>3. CASE v % size # 0
  <2>1. o.m = ExcCatch(m, access, "ALIGN") /\ o.rc = "ALIGN"
    BY <1>3 DEF DoLoadStore
  <2>2. "ALIGN" \in MemFault
    BY DEF MemFault
  <2> QED BY <1>2, <2>1, <2>2 DEF SameContext
<1>4. CASE v % size = 0 /\ t.fault # "OK"
  <2>1. o.m = ExcCatch(t.m, access, t.fault) /\ o.rc = t.fault
    BY <1>4 DEF DoLoadStore
  <2> QED BY <1>1, <1>2, <1>4, <2>1 DEF SameFlags, SameShadow, SameContext, MemFault
<1>5. CASE v % size = 0 /\ t.fault = "OK" /\ ~P2Vm(t.paddr)
  <2>1. o.m = ExcCatch(t.m, access, "BUS_ERR") /\ o.rc = "BUS_ERR"
    BY <1>5 DEF DoLoadStore
  <2>2. "BUS_ERR" \in MemFault
    BY DEF MemFault
  <2> QED BY <1>1, <1>2, <2>1, <2>2 DEF SameFlags, SameShadow, SameContext
<1>6. CASE v % size = 0 /\ t.fault = "OK" /\ P2Vm(t.paddr)
  <2>1. o.m = t.m /\ o.rc = "OK"
    BY <1>6 DEF DoLoadStore
  <2> QED BY <1>1, <2>1
<1> QED BY <1>3, <1>4, <1>5, <1>6

----------------------------------------------------------------------------
(* The prologue: what the fetch leaves, and what a handler starts from. *)
LEMMA FetchedFacts ==
  ASSUME cpu \in Machine
  PROVE  /\ Fetched.m \in Machine
         /\ SameFlags(Fetched.m, cpu)
         /\ cpu.exc_disable => SameContext(Fetched.m, cpu)
         /\ cpu.exc_disable /\ Fetched.rc = "OK" => Fetched.m.e3 = cpu.e3
         /\ ~cpu.exc_disable =>
              Fetched.m.e0 = cpu.pc /\ Fetched.m.e1 = cpu.int_disable
         /\ Fetched.rc \in {"OK"} \cup MemFault
<1> DEFINE u == ExcUpdate(cpu)
           n == UpdateTimer(u)
<1>1. /\ n \in Machine
      /\ SameFlags(n, cpu)
      /\ cpu.exc_disable => SameContext(n, cpu) /\ n.e3 = cpu.e3
      /\ ~cpu.exc_disable => n.e0 = cpu.pc /\ n.e1 = cpu.int_disable
  <2>1. /\ u \in Machine
        /\ SameFlags(u, cpu)
        /\ cpu.exc_disable => SameContext(u, cpu) /\ u.e3 = cpu.e3
        /\ ~cpu.exc_disable => u.e0 = cpu.pc /\ u.e1 = cpu.int_disable
    BY ExcUpdateFacts
  <2> HIDE DEF u
  <2>2. n \in Machine /\ SameFlags(n, u) /\ SameContext(n, u) /\ n.e3 = u.e3
    BY <2>1, UpdateTimerFacts
  <2> QED BY <2>1, <2>2 DEF SameFlags, SameShadow, SameContext
<1> HIDE DEF n
<1>2. n.pc \in Word /\ "EXEC" \in Access /\ TRUE \in BOOLEAN
  BY <1>1 DEF Machine, Access
<1>3. Fetched = DoLoadStore(n, n.pc, InstSize, "EXEC", TRUE)
  BY DEF Fetched, n
<1>4. /\ Fetched.m \in Machine
      /\ SameFlags(Fetched.m, n) /\ SameShadow(Fetched.m, n)
      /\ n.exc_disable => SameContext(Fetched.m, n)
      /\ Fetched.rc \in {"OK"} \cup MemFault
      /\ Fetched.rc = "OK" => Fetched.m.e3 = n.e3
  <2> DEFINE o == DoLoadStore(n, n.pc, InstSize, "EXEC", TRUE)
  <2>1. /\ o.m \in Machine
        /\ SameFlags(o.m, n) /\ SameShadow(o.m, n)
        /\ n.exc_disable => SameContext(o.m, n)
        /\ o.rc \in {"OK"} \cup MemFault
        /\ o.rc = "OK" => o.m.e3 = n.e3
    BY <1>1, <1>2, DoLoadStoreFacts
  <2> QED BY <1>3, <2>1
<1> QED BY <1>1, <1>4 DEF SameFlags, SameShadow, SameContext

LEMMA DispatchedFacts ==
  ASSUME cpu \in Machine, NEW d \in Dispatched
  PROVE  /\ d \in Machine
         /\ SameFlags(d, cpu)
         /\ cpu.exc_disable => SameContext(d, cpu) /\ d.e3 = cpu.e3
         /\ ~cpu.exc_disable => d.e0 = cpu.pc /\ d.e1 = cpu.int_disable
<1>1. d = [Fetched.m EXCEPT !.pc = NextPc(Fetched.m.pc)] /\ Fetched.rc = "OK"
  BY DEF Dispatched
<1>2. /\ Fetched.m \in Machine
      /\ SameFlags(Fetched.m, cpu)
      /\ cpu.exc_disable => SameContext(Fetched.m, cpu) /\ Fetched.m.e3 = cpu.e3
      /\ ~cpu.exc_disable =>
           Fetched.m.e0 = cpu.pc /\ Fetched.m.e1 = cpu.int_disable
  BY <1>1, FetchedFacts
<1>3. NextPc(Fetched.m.pc) \in Word
  <2>1. Fetched.m.pc \in Int
    BY <1>2, SMT DEF Machine, Word
  <2>2. Fetched.m.pc + InstSize \in Int
    BY <2>1, SMT DEF InstSize
  <2> QED BY <2>2, WordModulo DEF NextPc
<1> QED BY <1>1, <1>2, <1>3 DEF Machine, SameFlags, SameShadow, SameContext

----------------------------------------------------------------------------
(* Handlers *)

(* What a handler that starts from d may return: a machine that keeps the  *)
(* context of an exception being handled, records in e3 only what it       *)
(* raises, in user mode neither leaves that mode nor stops, enables        *)
(* exceptions only as rfe and cle do, and disarms the timer only to raise  *)
(* its interrupt or as timer does.                                         *)
HandlerOk(d, m, r) ==
  /\ m \in Machine
  /\ r \in Status \cup Exc
  /\ Trappable(m)
  /\ SameShadow(m, d)
  /\ d.exc_disable => m.e2 = d.e2
  /\ r \in Status => m.e3 = d.e3
  /\ d.mode = "USER" => m.mode = "USER" /\ r \in {"OK"} \cup Exc
  /\ d.exc_disable /\ ~m.exc_disable => r = "OK" /\ (Rfe \/ Cle)
  /\ d.timer_set /\ ~m.timer_set => r = "TIMER" \/ Timer

(* One instruction that got past its fetch. *)
HandlerStep ==
  \E d \in Dispatched : \E m, r : \E mem \in BOOLEAN :
    HandlerOk(d, m, r) /\ Complete(m, r, mem)

(* What is done after a handler turns its result into one ant_exec_inst    *)
(* can return: the timer is not left expired and unmasked, an exception    *)
(* enters the handler in supervisor mode, and is fatal only if exceptions  *)
(* were disabled.                                                          *)
LEMMA CompleteFacts ==
  ASSUME NEW m \in Machine, Trappable(m), NEW r \in Status \cup Exc,
         NEW mem \in BOOLEAN, Complete(m, r, mem)
  PROVE  /\ cpu' \in Machine
         /\ rc' \in Status
         /\ raised' \in Exc \cup {"NONE"}
         /\ Trappable(cpu')
         /\ rc' = "OK" /\ CheckIntr(cpu') => cpu'.int_disable
         /\ SameContext(cpu', m)
         /\ raised' = "NONE" => r \in Status /\ cpu'.e3 = m.e3
         /\ m.mode = "USER" /\ r \in {"OK"} \cup Exc => rc' = "OK"
         /\ raised' \in Exc /\ rc' = "OK" => ~m.exc_disable
         /\ raised' \in Exc => raised' = r \/ (r = "OK" /\ raised' = "TIMER")
         /\ m.timer_set /\ ~cpu'.timer_set => raised' = "TIMER"
         /\ r = "TIMER" => raised' = "TIMER"
<1> DEFINE due == TimerDue(m, r)
           n   == IF due THEN [m EXCEPT !.timer_set = FALSE] ELSE m
           exc == IF due THEN "TIMER" ELSE r
           c   == IF mem THEN n ELSE ExcCatch(n, "NONE", exc)
           thr == ExcThrow(c)
<1>1. /\ n \in Machine /\ SameContext(n, m) /\ n.e3 = m.e3
      /\ n.mode = m.mode /\ n.exc_disable = m.exc_disable
      /\ n.int_disable = m.int_disable
      /\ due => ~n.timer_set
      /\ ~due => n = m
  BY DEF Machine, SameShadow, SameContext
<1>2. exc \in Status \cup Exc /\ (due => exc = "TIMER" /\ r = "OK") /\ (~due => exc = r)
  BY DEF Exc, TimerDue
<1>3. "TIMER" \in Exc /\ "TIMER" \notin Status
  BY DEF Exc, Status
<1>4. Status \cap Exc = {}
  BY DEF Exc, Status, OpFault, MemFault
<1>5. Finish(m, r, mem) = IF exc \in Status
                          THEN [m |-> n, rc |-> exc, raised |-> "NONE"]
                          ELSE [m |-> thr.m, rc |-> thr.rc, raised |-> exc]
  BY DEF Finish
<1> HIDE DEF exc, n, due, thr, c
<1>6. CASE exc \in Status
  <2>1. cpu' = n /\ rc' = exc /\ raised' = "NONE"
    BY <1>5, <1>6 DEF Complete
  <2>2. ~due /\ r = exc /\ n = m
    BY <1>1, <1>2, <1>3, <1>6
  <2>3. rc' = "OK" /\ CheckIntr(cpu') => cpu'.int_disable
    BY <2>1, <2>2 DEF due, TimerDue, Machine
  <2>4. m.mode = "USER" /\ r \in {"OK"} \cup Exc => rc' = "OK"
    BY <1>4, <1>6, <2>1, <2>2
  <2>5. raised' \notin Exc /\ r # "TIMER"
    BY <1>3, <1>6, <2>1, <2>2 DEF Exc, OpFault, MemFault
  <2> QED BY <1>1, <1>6, <2>1, <2>2, <2>3, <2>4, <2>5
<1>7. CASE exc \notin Status
  <2>1. cpu' = thr.m /\ rc' = thr.rc /\ raised' = exc /\ exc \in Exc
    BY <1>2, <1>5, <1>7 DEF Complete
  <2>2. "NONE" \in Access \cup {"NONE"} /\ "NONE" \notin Exc
    BY DEF Exc, OpFault, MemFault
  <2>3. c \in Machine /\ SameFlags(c, n) /\ SameContext(c, n)
    <3>1. ExcCatch(n, "NONE", exc) \in Machine
      BY <1>1, <2>1, <2>2, ExcCatchFacts
    <3>2. /\ SameFlags(ExcCatch(n, "NONE", exc), n)
          /\ SameContext(ExcCatch(n, "NONE", exc), n)
      BY <1>1, <2>1, <2>2, ExcCatchFacts
    <3> QED BY <1>1, <3>1, <3>2 DEF c, SameFlags, SameShadow, SameContext
  <2>4. /\ thr.m \in Machine
        /\ thr.m.mode = "SUPER" /\ thr.m.int_disable /\ thr.m.exc_disable
        /\ SameContext(thr.m, c)
        /\ thr.rc \in {"OK", "EXC"}
        /\ thr.m.timer_set = c.timer_set
        /\ thr.rc = IF c.exc_disable THEN "EXC" ELSE "OK"
    BY <2>3, ExcThrowFacts DEF thr
  <2>5. cpu' \in Machine /\ rc' \in Status /\ raised' \in Exc /\ raised' # "NONE"
    BY <2>1, <2>2, <2>4 DEF Status
  <2>6. Trappable(cpu') /\ cpu'.int_disable
    BY <2>1, <2>4 DEF Trappable
  <2>7. SameContext(cpu', m)
    BY <1>1, <2>1, <2>3, <2>4 DEF SameShadow, SameContext
  <2>8. m.mode = "USER" => rc' = "OK"
    BY <1>1, <2>1, <2>3, <2>4 DEF Trappable, SameFlags
  <2>9. rc' = "OK" => ~m.exc_disable
    BY <1>1, <2>1, <2>3, <2>4 DEF SameFlags
  <2>10. raised' = r \/ (r = "OK" /\ raised' = "TIMER")
    BY <1>2, <2>1
  <2>11. m.timer_set /\ ~cpu'.timer_set => raised' = "TIMER"
    BY <1>1, <1>2, <2>1, <2>3, <2>4 DEF SameFlags
  <2>12. r = "TIMER" => raised' = "TIMER"
    BY <2>10
  <2> QED BY <2>5, <2>6, <2>7, <2>8, <2>9, <2>10, <2>11, <2>12
<1> QED BY <1>6, <1>7

(* A privileged operation: in user mode it is refused, in supervisor mode  *)
(* it is as good as what its handler does.                                 *)
LEMMA SysFacts ==
  ASSUME NEW d \in Dispatched, d \in Machine, Trappable(d), NEW m, NEW r,
         d.mode = "SUPER" => HandlerOk(d, m, r), Sys(d, m, r)
  PROVE  HandlerStep
<1>1. CASE d.mode = "USER"
  <2>1. Complete(d, "PRIV_INS", FALSE)
    BY <1>1 DEF Sys
  <2>2. "PRIV_INS" \in Exc /\ "PRIV_INS" \notin Status
    BY DEF Exc, Status
  <2>3. HandlerOk(d, d, "PRIV_INS")
    BY <1>1, <2>2 DEF HandlerOk, SameShadow
  <2> QED BY <2>1, <2>3 DEF HandlerStep
<1>2. CASE d.mode = "SUPER"
  <2>1. Complete(m, r, FALSE)
    BY <1>2 DEF Sys
  <2> QED BY <1>2, <2>1 DEF HandlerStep
<1> QED BY <1>1, <1>2 DEF Machine, Mode

(* A memory access by a handler. *)
LEMMA AccessHandlerOk ==
  ASSUME NEW d \in Machine, Trappable(d), NEW m \in Machine,
         SameFlags(m, d), SameShadow(m, d), m.e3 = d.e3,
         d.exc_disable => SameContext(m, d),
         NEW v \in Values, NEW size, NEW access \in Access
  PROVE  LET o == DoLoadStore(m, v, size, access, TRUE)
         IN  /\ HandlerOk(d, o.m, o.rc)
             /\ o.m \in Machine
             /\ o.rc = "OK" =>
                  /\ SameFlags(o.m, d) /\ SameShadow(o.m, d) /\ o.m.e3 = d.e3
                  /\ d.exc_disable => SameContext(o.m, d)
<1> DEFINE o == DoLoadStore(m, v, size, access, TRUE)
<1>1. /\ o.m \in Machine
      /\ SameFlags(o.m, m) /\ SameShadow(o.m, m)
      /\ m.exc_disable => SameContext(o.m, m)
      /\ o.rc \in {"OK"} \cup MemFault
      /\ o.rc = "OK" => o.m.e3 = m.e3
  <2>1. v \in Word /\ TRUE \in BOOLEAN
    BY CpuAssumption
  <2> QED BY <2>1, DoLoadStoreFacts
<1> HIDE DEF o
<1>2. MemFault \subseteq Exc /\ MemFault \cap Status = {} /\ "OK" \in Status
  BY DEF Exc, MemFault, Status
<1>3. HandlerOk(d, o.m, o.rc)
  BY <1>1, <1>2 DEF HandlerOk, Trappable, SameFlags, SameShadow, SameContext
<1> QED BY <1>1, <1>3 DEF o, SameFlags, SameShadow, SameContext

(* A handler that changes neither the mode, the exception flag nor the     *)
(* context, and returns OK or a fault it did not catch.                    *)
LEMMA PlainHandlerOk ==
  ASSUME NEW d \in Machine, Trappable(d), NEW m \in Machine,
         SameFlags(m, d), SameContext(m, d), m.e3 = d.e3,
         NEW r \in Status \cup Exc, d.mode = "USER" => r \in {"OK"} \cup Exc
  PROVE  HandlerOk(d, m, r)
BY DEF HandlerOk, Trappable, SameFlags, SameContext

(* Every instruction that gets past its fetch is a well-behaved handler    *)
(* followed by what ant_exec_inst does after it.                           *)
LEMMA ExecInstFacts ==
  ASSUME TypeOK, UserExceptionsEnabled, ExecInst
  PROVE  FetchFault \/ HandlerStep
<1>1. ASSUME NEW d \in Dispatched
      PROVE  /\ d \in Machine /\ Trappable(d)
             /\ SameFlags(d, d) /\ SameShadow(d, d) /\ SameContext(d, d)
  BY DispatchedFacts
     DEF TypeOK, UserExceptionsEnabled, Trappable, SameFlags, SameShadow, SameContext
<1>2. "OK" \in Status /\ "IDLE" \in Status /\ "HALT" \in Status
  BY DEF Status
<1>3. OpFaults \subseteq Exc /\ StaleFault \subseteq Status \cup Exc
  BY CpuAssumption DEF Exc
<1>4. {"TLB_MISS", "TLB_MULTI", "TLB_INV", "TIMER", "ILL_INS", "REG_VIOL"} \subseteq Exc
  BY DEF Exc, OpFault, MemFault
<1>5. TRUE \in BOOLEAN /\ FALSE \in BOOLEAN
  OBVIOUS
<1>6. CASE Compute
  <2>1. PICK d \in Dispatched, r \in {"OK"} \cup OpFaults : Complete(d, r, FALSE)
    BY <1>6 DEF Compute
  <2>2. HandlerOk(d, d, r)
    BY <1>1, <1>2, <1>3, PlainHandlerOk
  <2> QED BY <2>1, <2>2 DEF HandlerStep
<1>7. CASE Branch
  <2>1. PICK d \in Dispatched, v \in Values :
          \E target \in {d.pc, v, (cpu.pc + v) % WordSize} :
            Complete([d EXCEPT !.pc = target], "OK", FALSE)
    BY <1>7 DEF Branch
  <2>2. PICK target \in {d.pc, v, (cpu.pc + v) % WordSize} :
          Complete([d EXCEPT !.pc = target], "OK", FALSE)
    BY <2>1
  <2>3. v \in Word /\ cpu.pc \in Word /\ d.pc \in Word
    BY <1>1, CpuAssumption DEF TypeOK, Machine
  <2>4. (cpu.pc + v) % WordSize \in Word
    <3>1. cpu.pc + v \in Int
      BY <2>3, SMT DEF Word
    <3> QED BY <3>1, WordModulo
  <2>5. HandlerOk(d, [d EXCEPT !.pc = target], "OK")
    <3> DEFINE m == [d EXCEPT !.pc = target]
    <3>1. /\ m \in Machine /\ SameFlags(m, d) /\ SameContext(m, d)
          /\ m.e3 = d.e3
      BY <1>1, <2>2, <2>3, <2>4 DEF Machine, SameFlags, SameShadow, SameContext
    <3> HIDE DEF m
    <3>2. HandlerOk(d, m, "OK")
      BY <1>1, <1>2, <3>1, PlainHandlerOk
    <3> QED BY <3>2 DEF m
  <2> QED BY <2>2, <2>5 DEF HandlerStep
<1>8. CASE LoadStore
  <2>1. PICK d \in Dispatched, v \in Values, size \in {1, 4},
             access \in {"READ", "WRITE"} :
          LET o == DoLoadStore(d, v, size, access, TRUE)
          IN  Complete(o.m, o.rc, TRUE)
    BY <1>8 DEF LoadStore
  <2>2. access \in Access
    BY DEF Access
  <2>3. LET o == DoLoadStore(d, v, size, access, TRUE) IN HandlerOk(d, o.m, o.rc)
    BY <1>1, <2>2, AccessHandlerOk
  <2> QED BY <2>1, <2>3 DEF HandlerStep
<1>9. CASE Exchange
  <2>1. PICK d \in Dispatched, v \in Values :
          LET l == DoLoadStore(d, v, 4, "READ", TRUE)
              s == DoLoadStore(l.m, v, 4, "WRITE", TRUE)
              o == IF l.rc = "OK" THEN s ELSE l
          IN  Complete(o.m, o.rc, TRUE)
    BY <1>9 DEF Exchange
  <2> DEFINE l == DoLoadStore(d, v, 4, "READ", TRUE)
             s == DoLoadStore(l.m, v, 4, "WRITE", TRUE)
  <2>2. "READ" \in Access /\ "WRITE" \in Access
    BY DEF Access
  <2>3. /\ HandlerOk(d, l.m, l.rc) /\ l.m \in Machine
        /\ l.rc = "OK" =>
             /\ SameFlags(l.m, d) /\ SameShadow(l.m, d) /\ l.m.e3 = d.e3
             /\ d.exc_disable => SameContext(l.m, d)
    BY <1>1, <2>2, AccessHandlerOk
  <2>4. CASE l.rc = "OK"
    <3>1. Complete(s.m, s.rc, TRUE)
      BY <2>1, <2>4
    <3> HIDE DEF l
    <3>2. HandlerOk(d, s.m, s.rc)
      BY <1>1, <2>2, <2>3, <2>4, AccessHandlerOk
    <3> QED BY <3>1, <3>2 DEF HandlerStep
  <2>5. CASE l.rc # "OK"
    <3>1. Complete(l.m, l.rc, TRUE)
      BY <2>1, <2>5
    <3> QED BY <2>3, <3>1 DEF HandlerStep
  <2> QED BY <2>4, <2>5
<1>10. CASE LoadStoreBadReg
  <2>1. PICK d \in Dispatched :
          Complete(ExcCatch(d, "NONE", "REG_VIOL"), "REG_VIOL", TRUE)
    BY <1>10 DEF LoadStoreBadReg
  <2>2. LET m == ExcCatch(d, "NONE", "REG_VIOL")
        IN  m \in Machine /\ SameFlags(m, d) /\ SameContext(m, d)
    BY <1>1, <1>4, ExcCatchFacts
  <2>3. "REG_VIOL" \notin Status
    BY DEF Status
  <2>4. HandlerOk(d, ExcCatch(d, "NONE", "REG_VIOL"), "REG_VIOL")
    BY <1>1, <1>4, <2>2, <2>3 DEF HandlerOk, Trappable, SameFlags, SameContext
  <2> QED BY <2>1, <2>4 DEF HandlerStep
<1>11. CASE LoadStoreBadOp
  <2>1. PICK d \in Dispatched : Complete(d, "ILL_INS", TRUE)
    BY <1>11 DEF LoadStoreBadOp
  <2>2. HandlerOk(d, d, "ILL_INS")
    BY <1>1, <1>4, PlainHandlerOk
  <2> QED BY <2>1, <2>2 DEF HandlerStep
<1>12. CASE SysBadOperand
  <2>1. PICK d \in Dispatched, r \in OpFaults \cap {"REG_VIOL", "ILL_INS"} : Sys(d, d, r)
    BY <1>12 DEF SysBadOperand
  <2>2. HandlerOk(d, d, r)
    BY <1>1, <1>3, PlainHandlerOk
  <2> QED BY <1>1, <2>1, <2>2, SysFacts
<1>13. CASE TlbProbe
  <2>1. PICK d \in Dispatched, v \in Values :
          LET f == FindTlbEntry(d.tlb, Seg(v), Vpn(v)).fault
          IN  \E r \in IF f = "UNSET" THEN StaleFault ELSE {f} : Sys(d, d, r)
    BY <1>13 DEF TlbProbe
  <2> DEFINE f == FindTlbEntry(d.tlb, Seg(v), Vpn(v)).fault
  <2>2. f \in {"UNSET", "TLB_MISS", "TLB_MULTI"}
    BY FindTlbEntryFacts
  <2>3. PICK r \in IF f = "UNSET" THEN StaleFault ELSE {f} : Sys(d, d, r)
    BY <2>1
  <2>4. r \in Status \cup Exc
    BY <1>3, <1>4, <2>2, <2>3
  <2>5. d.mode = "SUPER" => HandlerOk(d, d, r)
    BY <1>1, <2>4, PlainHandlerOk
  <2> QED BY <1>1, <2>3, <2>5, SysFacts
<1>14. CASE TlbLoad
  <2>1. PICK d \in Dispatched, i \in 0 .. NTlb :
          Sys(d, d, IF i < NTlb THEN "OK" ELSE "TLB_INV")
    BY <1>14 DEF TlbLoad
  <2>2. (IF i < NTlb THEN "OK" ELSE "TLB_INV") \in Status \cup Exc
    BY <1>2, <1>4
  <2>3. d.mode = "SUPER" => HandlerOk(d, d, IF i < NTlb THEN "OK" ELSE "TLB_INV")
    BY <1>1, <2>2, PlainHandlerOk
  <2> QED BY <1>1, <2>1, <2>3, SysFacts
<1>15. CASE TlbStore
  <2>1. PICK d \in Dispatched, i \in 0 .. NTlb, e \in Storable :
          IF i < NTlb
          THEN Sys(d, [d EXCEPT !.tlb[i] = e], "OK")
          ELSE Sys(d, d, "TLB_INV")
    BY <1>15 DEF TlbStore
  <2>2. CASE i < NTlb
    <3> DEFINE m == [d EXCEPT !.tlb[i] = e]
    <3>1. i \in TlbIndex /\ e \in TlbEntry
      BY <2>2, MmuAssumption, CpuAssumption, SMT DEF TlbIndex
    <3>2. [d.tlb EXCEPT ![i] = e] \in [TlbIndex -> TlbEntry]
      BY <1>1, <3>1 DEF Machine
    <3>3. m \in Machine /\ SameFlags(m, d) /\ SameContext(m, d) /\ m.e3 = d.e3
      BY <1>1, <3>2 DEF Machine, SameFlags, SameShadow, SameContext
    <3>4. Sys(d, m, "OK")
      BY <2>1, <2>2
    <3> HIDE DEF m
    <3>5. HandlerOk(d, m, "OK")
      BY <1>1, <1>2, <3>3, PlainHandlerOk
    <3> QED BY <1>1, <3>4, <3>5, SysFacts
  <2>3. CASE ~(i < NTlb)
    <3>1. HandlerOk(d, d, "TLB_INV")
      BY <1>1, <1>4, PlainHandlerOk
    <3> QED BY <1>1, <2>1, <2>3, <3>1, SysFacts
  <2> QED BY <2>2, <2>3
<1>16. CASE Leh
  <2>1. PICK d \in Dispatched, v \in Handlers : Sys(d, [d EXCEPT !.eh = v], "OK")
    BY <1>16 DEF Leh
  <2> DEFINE m == [d EXCEPT !.eh = v]
  <2>2. m \in Machine /\ SameFlags(m, d) /\ SameContext(m, d) /\ m.e3 = d.e3
    BY <1>1, CpuAssumption DEF Machine, SameFlags, SameShadow, SameContext
  <2> HIDE DEF m
  <2>3. HandlerOk(d, m, "OK")
    BY <1>1, <1>2, <2>2, PlainHandlerOk
  <2> QED BY <1>1, <2>1, <2>3, SysFacts DEF m
<1>17. CASE Rfe
  <2>1. PICK d \in Dispatched, target \in Values, i \in BOOLEAN, mode \in Mode :
          Sys(d, RfeMachine(d, target, i, mode), "OK")
    BY <1>17 DEF Rfe
  <2> DEFINE m == RfeMachine(d, target, i, mode)
  <2>2. /\ m \in Machine /\ ~m.exc_disable /\ m.timer_set = d.timer_set
        /\ SameContext(m, d) /\ m.e3 = d.e3
    BY <1>1, CpuAssumption DEF RfeMachine, Machine, SameShadow, SameContext
  <2> HIDE DEF m
  <2>3. d.mode = "SUPER" => HandlerOk(d, m, "OK")
    BY <1>2, <1>17, <2>2 DEF HandlerOk, Trappable, SameContext
  <2> QED BY <1>1, <2>1, <2>3, SysFacts DEF m
<1>18. CASE Timer
  <2>1. PICK d \in Dispatched, v \in TimerVals :
          Sys(d, [d EXCEPT !.timer = v, !.timer_set = v > 0], "OK")
    BY <1>18 DEF Timer
  <2> DEFINE m == [d EXCEPT !.timer = v, !.timer_set = v > 0]
  <2>2. v \in Int /\ (v > 0) \in BOOLEAN
    BY CpuAssumption
  <2>3. /\ m \in Machine /\ m.mode = d.mode /\ m.exc_disable = d.exc_disable
        /\ SameContext(m, d) /\ m.e3 = d.e3
    BY <1>1, <2>2 DEF Machine, SameShadow, SameContext
  <2> HIDE DEF m
  <2>4. HandlerOk(d, m, "OK")
    BY <1>1, <1>2, <1>18, <2>3 DEF HandlerOk, Trappable, SameContext
  <2> QED BY <1>1, <2>1, <2>4, SysFacts DEF m
<1>19. CASE Halt
  <2>1. PICK d \in Dispatched : Sys(d, d, "HALT")
    BY <1>19 DEF Halt
  <2>2. d.mode = "SUPER" => HandlerOk(d, d, "HALT")
    BY <1>1, <1>2, PlainHandlerOk
  <2> QED BY <1>1, <2>1, <2>2, SysFacts
<1>20. CASE Idle
  <2>1. PICK d \in Dispatched :
          IF d.int_disable /\ d.timer_set
          THEN Sys(d, [d EXCEPT !.timer = 0, !.timer_set = FALSE], "TIMER")
          ELSE Sys(d, d, "IDLE")
    BY <1>20 DEF Idle
  <2> DEFINE zero == 0
             m == [d EXCEPT !.timer = zero, !.timer_set = FALSE]
  <2>2. /\ m \in Machine /\ m.mode = d.mode /\ m.exc_disable = d.exc_disable
        /\ SameContext(m, d) /\ m.e3 = d.e3
    <3>1. zero \in Int
      OBVIOUS
    <3> HIDE DEF zero
    <3> QED BY <1>1, <3>1 DEF Machine, SameShadow, SameContext
  <2>3. CASE d.int_disable /\ d.timer_set
    <3>1. Sys(d, m, "TIMER")
      BY <2>1, <2>3
    <3> HIDE DEF m
    <3>2. "TIMER" \notin Status
      BY DEF Status
    <3>3. HandlerOk(d, m, "TIMER")
      BY <1>1, <1>4, <2>2, <3>2 DEF HandlerOk, Trappable, SameContext
    <3> QED BY <1>1, <3>1, <3>3, SysFacts
  <2>4. CASE ~(d.int_disable /\ d.timer_set)
    <3>1. Sys(d, d, "IDLE")
      BY <2>1, <2>4
    <3>2. d.mode = "SUPER" => HandlerOk(d, d, "IDLE")
      BY <1>1, <1>2, PlainHandlerOk
    <3> QED BY <1>1, <3>1, <3>2, SysFacts
  <2> QED BY <2>3, <2>4
<1>21. CASE Cli \/ Sti
  <2>1. PICK d \in Dispatched, b \in BOOLEAN : Sys(d, [d EXCEPT !.int_disable = b], "OK")
    BY <1>21 DEF Cli, Sti
  <2> DEFINE m == [d EXCEPT !.int_disable = b]
  <2>2. m \in Machine /\ SameFlags(m, d) /\ SameContext(m, d) /\ m.e3 = d.e3
    BY <1>1 DEF Machine, SameFlags, SameShadow, SameContext
  <2> HIDE DEF m
  <2>3. HandlerOk(d, m, "OK")
    BY <1>1, <1>2, <2>2, PlainHandlerOk
  <2> QED BY <1>1, <2>1, <2>3, SysFacts DEF m
<1>22. CASE Cle \/ Ste
  <2>1. PICK d \in Dispatched, b \in BOOLEAN :
          Sys(d, [d EXCEPT !.exc_disable = b], "OK") /\ (b \/ Cle)
    <3>1. CASE Cle
      BY <3>1 DEF Cle
    <3>2. CASE Ste
      BY <3>2 DEF Ste
    <3> QED BY <1>22, <3>1, <3>2
  <2> DEFINE m == [d EXCEPT !.exc_disable = b]
  <2>2. /\ m \in Machine /\ m.mode = d.mode /\ m.exc_disable = b
        /\ m.timer_set = d.timer_set /\ SameContext(m, d) /\ m.e3 = d.e3
    BY <1>1 DEF Machine, SameShadow, SameContext
  <2> HIDE DEF m
  <2>3. d.mode = "SUPER" => HandlerOk(d, m, "OK")
    BY <1>2, <2>1, <2>2 DEF HandlerOk, Trappable, SameContext
  <2> QED BY <1>1, <2>1, <2>3, SysFacts DEF m
<1> QED BY <1>6, <1>7, <1>8, <1>9, <1>10, <1>11, <1>12, <1>13, <1>14, <1>15, <1>16,
           <1>17, <1>18, <1>19, <1>20, <1>21, <1>22
        DEF ExecInst

----------------------------------------------------------------------------
(* Steps *)

(* What every step other than a reset does to a well-formed machine, in    *)
(* the words of the properties.                                            *)
StepOk ==
  /\ cpu' \in Machine /\ rc' \in Status /\ raised' \in Exc \cup {"NONE"}
  /\ Trappable(cpu')
  /\ rc' = "OK" /\ CheckIntr(cpu') => cpu'.int_disable
  /\ cpu.mode = "USER" => rc' = "OK"
  /\ cpu.exc_disable => SameContext(cpu', cpu)
  /\ cpu.exc_disable /\ raised' = "NONE" => cpu'.e3 = cpu.e3
  /\ ~cpu.exc_disable => cpu'.e0 = cpu.pc /\ cpu'.e1 = cpu.int_disable
  /\ cpu.exc_disable /\ raised' \in Exc /\ rc' = "OK" =>
       raised' = "TIMER" /\ (Rfe \/ Cle)
  /\ cpu.timer_set /\ ~cpu'.timer_set => raised' = "TIMER" \/ Timer

LEMMA FetchFaultStep ==
  ASSUME TypeOK, UserExceptionsEnabled, FetchFault
  PROVE  StepOk
<1> DEFINE f == Fetched
           thr == ExcThrow(f.m)
<1>1. f.rc # "OK" /\ cpu' = thr.m /\ rc' = thr.rc /\ raised' = f.rc
  BY DEF FetchFault
<1>2. /\ f.m \in Machine
      /\ SameFlags(f.m, cpu)
      /\ cpu.exc_disable => SameContext(f.m, cpu)
      /\ ~cpu.exc_disable => f.m.e0 = cpu.pc /\ f.m.e1 = cpu.int_disable
      /\ f.rc \in {"OK"} \cup MemFault
  BY FetchedFacts DEF TypeOK
<1> HIDE DEF f
<1>3. /\ thr.m \in Machine
      /\ thr.m.mode = "SUPER" /\ thr.m.int_disable /\ thr.m.exc_disable
      /\ SameContext(thr.m, f.m)
      /\ thr.rc \in {"OK", "EXC"}
      /\ thr.m.timer_set = f.m.timer_set
      /\ thr.rc = IF f.m.exc_disable THEN "EXC" ELSE "OK"
  BY <1>2, ExcThrowFacts
<1> HIDE DEF thr
<1>4. rc' \in Status /\ raised' \in Exc /\ raised' # "NONE"
  BY <1>1, <1>2, <1>3 DEF Status, Exc, MemFault
<1>5. Trappable(cpu')
  BY <1>1, <1>3 DEF Trappable
<1>6. cpu.mode = "USER" => rc' = "OK"
  BY <1>1, <1>2, <1>3 DEF UserExceptionsEnabled, SameFlags
<1>7. cpu.exc_disable => rc' # "OK"
  BY <1>1, <1>2, <1>3 DEF SameFlags
<1>8. cpu'.timer_set = cpu.timer_set
  BY <1>1, <1>2, <1>3 DEF SameFlags
<1> QED BY <1>1, <1>2, <1>3, <1>4, <1>5, <1>6, <1>7, <1>8
        DEF StepOk, SameShadow, SameContext

LEMMA HandlerStepOk ==
  ASSUME TypeOK, UserExceptionsEnabled, HandlerStep
  PROVE  StepOk
<1>1. PICK d \in Dispatched : \E m, r : \E mem \in BOOLEAN :
        HandlerOk(d, m, r) /\ Complete(m, r, mem)
  BY DEF HandlerStep
<1>2. PICK m, r : \E mem \in BOOLEAN : HandlerOk(d, m, r) /\ Complete(m, r, mem)
  BY <1>1
<1>3. PICK mem \in BOOLEAN : HandlerOk(d, m, r) /\ Complete(m, r, mem)
  BY <1>2
<1>4. /\ d \in Machine
      /\ SameFlags(d, cpu)
      /\ cpu.exc_disable => SameContext(d, cpu) /\ d.e3 = cpu.e3
      /\ ~cpu.exc_disable => d.e0 = cpu.pc /\ d.e1 = cpu.int_disable
  BY DispatchedFacts DEF TypeOK
<1>5. /\ m \in Machine /\ r \in Status \cup Exc /\ Trappable(m)
      /\ SameShadow(m, d)
      /\ d.exc_disable => m.e2 = d.e2
      /\ r \in Status => m.e3 = d.e3
      /\ d.mode = "USER" => m.mode = "USER" /\ r \in {"OK"} \cup Exc
      /\ d.exc_disable /\ ~m.exc_disable => r = "OK" /\ (Rfe \/ Cle)
      /\ d.timer_set /\ ~m.timer_set => r = "TIMER" \/ Timer
  BY <1>3 DEF HandlerOk
<1>6. /\ cpu' \in Machine
      /\ rc' \in Status
      /\ raised' \in Exc \cup {"NONE"}
      /\ Trappable(cpu')
      /\ rc' = "OK" /\ CheckIntr(cpu') => cpu'.int_disable
      /\ SameContext(cpu', m)
      /\ raised' = "NONE" => r \in Status /\ cpu'.e3 = m.e3
      /\ m.mode = "USER" /\ r \in {"OK"} \cup Exc => rc' = "OK"
      /\ raised' \in Exc /\ rc' = "OK" => ~m.exc_disable
      /\ raised' \in Exc => raised' = r \/ (r = "OK" /\ raised' = "TIMER")
      /\ m.timer_set /\ ~cpu'.timer_set => raised' = "TIMER"
      /\ r = "TIMER" => raised' = "TIMER"
  BY <1>3, <1>5, CompleteFacts
<1>7. cpu.exc_disable /\ raised' \in Exc /\ rc' = "OK" =>
        raised' = "TIMER" /\ (Rfe \/ Cle)
  <2> SUFFICES ASSUME cpu.exc_disable, raised' \in Exc, rc' = "OK"
               PROVE  raised' = "TIMER" /\ (Rfe \/ Cle)
    OBVIOUS
  <2>1. r = "OK" /\ (Rfe \/ Cle)
    BY <1>4, <1>5, <1>6 DEF SameFlags
  <2>2. "OK" \notin Exc
    BY DEF Exc, OpFault, MemFault
  <2> QED BY <1>6, <2>1, <2>2
<1>8. cpu.timer_set /\ ~cpu'.timer_set => raised' = "TIMER" \/ Timer
  BY <1>4, <1>5, <1>6 DEF SameFlags
<1> QED BY <1>4, <1>5, <1>6, <1>7, <1>8 DEF StepOk, SameFlags, SameShadow, SameContext

LEMMA ExecInstStep ==
  ASSUME TypeOK, UserExceptionsEnabled, ExecInst
  PROVE  StepOk
BY ExecInstFacts, FetchFaultStep, HandlerStepOk

LEMMA TlbInitType == TlbInit \in [TlbIndex -> TlbEntry]
<1>1. 0 \in Page /\ 0 \in 0 .. 3
  BY MmuAssumption, SMT DEF Page
<1>2. ZeroEntry \in TlbEntry
  BY <1>1 DEF ZeroEntry, TlbEntry
<1> QED BY <1>2 DEF TlbInit

(* A reset leaves a machine in supervisor mode with both flags set. *)
LEMMA ResetStep ==
  ASSUME TypeOK, Reset
  PROVE  /\ cpu' \in Machine /\ rc' = "OK" /\ raised' = "RESET"
         /\ cpu'.mode = "SUPER" /\ cpu'.int_disable
<1> DEFINE z == ResetMachine(cpu)
<1>1. z \in Machine /\ z.mode = "SUPER" /\ z.int_disable
  <2> DEFINE e == [su |-> FALSE, op |-> "NONE", type |-> "NONE"]
             zero == 0
  <2>1. e \in E3 /\ zero \in Int /\ zero \in Word
    BY ZeroIsWord DEF E3
  <2>2. "SUPER" \in Mode
    BY DEF Mode
  <2>3. z = [cpu EXCEPT !.mode = "SUPER", !.exc_disable = TRUE, !.int_disable = TRUE,
                        !.timer = zero, !.timer_set = FALSE, !.tlb = TlbInit,
                        !.e0 = zero, !.e1 = FALSE, !.e2 = zero, !.e3 = e]
    BY DEF ResetMachine
  <2> HIDE DEF e, zero, z
  <2> QED BY <2>1, <2>2, <2>3, TlbInitType DEF TypeOK, Machine
<1>2. ResetPcAddr \in Word /\ "READ" \in Access /\ FALSE \in BOOLEAN
  <2>1. SegSize \in Nat \ {0}
    BY MmuAssumption, SMT DEF SegSize
  <2>2. WordSize - 4 \in 0 .. WordSize - 1
    BY <2>1, SMT DEF WordSize
  <2> QED BY <2>2 DEF ResetPcAddr, Word, Access
<1> HIDE DEF z
<1> DEFINE b == DoLoadStore(z, ResetPcAddr, 4, "READ", FALSE)
<1>3. b.m \in Machine /\ SameFlags(b.m, z) /\ b.m.int_disable = z.int_disable
  BY <1>1, <1>2, DoLoadStoreFacts
<1>4. PICK v \in Values : cpu' = [Boot(cpu) EXCEPT !.pc = v]
  BY DEF Reset
<1>5. cpu' = [b.m EXCEPT !.pc = v]
  BY <1>4 DEF Boot, z
<1> HIDE DEF b
<1>6. v \in Word
  BY CpuAssumption
<1> QED BY <1>1, <1>3, <1>5, <1>6 DEF Machine, SameFlags, Reset

----------------------------------------------------------------------------
(* The inductive invariant.  A step is known to leave a well-formed        *)
(* machine and a user mode that can trap only if it starts from such a     *)
(* machine: an exception in user mode would otherwise be fatal.            *)
IInv == TypeOK /\ UserExceptionsEnabled

LEMMA InitIInv == Init => IInv
<1> SUFFICES ASSUME Init PROVE IInv
  OBVIOUS
<1> DEFINE e == [su |-> FALSE, op |-> "NONE", type |-> "NONE"]
           zero == 0
<1>1. PICK v \in Values, h \in Handlers :
        cpu = [mode |-> "SUPER", pc |-> v, eh |-> h,
               exc_disable |-> TRUE, int_disable |-> TRUE,
               timer |-> zero, timer_set |-> FALSE,
               e0 |-> zero, e1 |-> FALSE, e2 |-> zero, e3 |-> e, tlb |-> TlbInit]
  BY DEF Init
<1>2. e \in E3 /\ zero \in Int /\ zero \in Word /\ v \in Word /\ h \in Word
  BY ZeroIsWord, CpuAssumption DEF E3
<1>3. "SUPER" \in Mode
  BY DEF Mode
<1> HIDE DEF e, zero
<1>4. cpu \in Machine
  BY <1>1, <1>2, <1>3, TlbInitType DEF Machine
<1>5. cpu.mode = "SUPER" /\ cpu.int_disable
  BY <1>1
<1>6. rc \in Status /\ raised \in Exc \cup {"NONE", "RESET"}
  BY DEF Init, Status
<1> QED BY <1>4, <1>5, <1>6 DEF IInv, TypeOK, UserExceptionsEnabled

LEMMA NextIInv == IInv /\ [Next]_vars => IInv'
<1> SUFFICES ASSUME IInv, [Next]_vars PROVE IInv'
  OBVIOUS
<1>1. CASE ExecInst
  <2>1. StepOk
    BY <1>1, ExecInstStep DEF IInv
  <2>2. TypeOK'
    BY <2>1 DEF StepOk, TypeOK
  <2>3. UserExceptionsEnabled'
    BY <2>1 DEF StepOk, Trappable, UserExceptionsEnabled
  <2> QED BY <2>2, <2>3 DEF IInv
<1>2. CASE Reset
  <2>1. /\ cpu' \in Machine /\ rc' = "OK" /\ raised' = "RESET"
        /\ cpu'.mode = "SUPER" /\ cpu'.int_disable
    BY <1>2, ResetStep DEF IInv
  <2>2. TypeOK'
    BY <2>1 DEF TypeOK, Status
  <2>3. UserExceptionsEnabled'
    BY <2>1 DEF UserExceptionsEnabled
  <2> QED BY <2>2, <2>3 DEF IInv
<1>3. CASE UNCHANGED vars
  BY <1>3 DEF vars, IInv, TypeOK, UserExceptionsEnabled
<1> QED BY <1>1, <1>2, <1>3 DEF Next, Exec

(* The processor is always a well-formed machine and its user code can     *)
(* always trap, whatever software runs on it.                              *)
THEOREM SpecIInv == Spec => []IInv
BY InitIInv, NextIInv, PTL DEF Spec

(* Type correctness: in particular the program counter, the handler        *)
(* address and the shadow registers always hold words.                     *)
THEOREM TypeCorrect == Spec => []TypeOK
<1>1. IInv => TypeOK
  BY DEF IInv
<1> QED BY <1>1, SpecIInv, PTL

(* User code never runs with exceptions disabled (exc_throw, rfe, cle and  *)
(* ste, and ant_reset).                                                    *)
THEOREM UserCanTrap == Spec => []UserExceptionsEnabled
<1>1. IInv => UserExceptionsEnabled
  BY DEF IInv
<1> QED BY <1>1, SpecIInv, PTL

(* No instruction leaves an expired timer pending with interrupts enabled  *)
(* (ant32_check_intr after every instruction), and none disarms it without *)
(* raising its interrupt, but for timer itself.                            *)
THEOREM TimerNotLost == Spec => NoLostTimer
<1> DEFINE A == /\ rc' = "OK" /\ CheckIntr(cpu') => cpu'.int_disable
                /\ cpu.timer_set /\ ~cpu'.timer_set =>
                     raised' \in {"TIMER", "RESET"} \/ Timer
<1>1. IInv /\ [Next]_vars => [A]_vars
  <2> SUFFICES ASSUME IInv, Next PROVE A
    OBVIOUS
  <2>1. CASE ExecInst
    BY <2>1, ExecInstStep DEF IInv, StepOk
  <2>2. CASE Reset
    BY <2>2, ResetStep DEF IInv
  <2> QED BY <2>1, <2>2 DEF Next, Exec
<1> QED BY <1>1, SpecIInv, PTL DEF Spec, NoLostTimer

(* No user instruction makes ant_exec_inst return anything but OK.         *)
THEOREM UserCannotStop == Spec => UserNeverStops
<1>1. IInv /\ [Next]_vars => [cpu.mode = "USER" => rc' = "OK"]_vars
  <2> SUFFICES ASSUME IInv, Next, cpu.mode = "USER" PROVE rc' = "OK"
    OBVIOUS
  <2>1. CASE ExecInst
    BY <2>1, ExecInstStep DEF IInv, StepOk
  <2>2. CASE Reset
    BY <2>2 DEF Reset
  <2> QED BY <2>1, <2>2 DEF Next, Exec
<1> QED BY <1>1, SpecIInv, PTL DEF Spec, UserNeverStops

(* The context of an exception survives its handler. *)
THEOREM ContextSurvives == Spec => ContextFrozen
<1> DEFINE A == cpu.exc_disable /\ raised' # "RESET" =>
                  /\ cpu'.e0 = cpu.e0 /\ cpu'.e1 = cpu.e1 /\ cpu'.e2 = cpu.e2
                  /\ raised' = "NONE" => cpu'.e3 = cpu.e3
<1>1. IInv /\ [Next]_vars => [A]_vars
  <2> SUFFICES ASSUME IInv, Next PROVE A
    OBVIOUS
  <2>1. CASE ExecInst
    BY <2>1, ExecInstStep DEF IInv, StepOk, SameContext, SameShadow
  <2>2. CASE Reset
    BY <2>2 DEF Reset
  <2> QED BY <2>1, <2>2 DEF Next, Exec
<1> QED BY <1>1, SpecIInv, PTL DEF Spec, ContextFrozen

(* An exception that interrupts code with exceptions enabled reports the   *)
(* instruction it interrupted; with exceptions disabled only the timer can *)
(* get to the handler, right after rfe or cle.                             *)
THEOREM ContextReported == Spec => ContextFresh
<1> DEFINE A == raised' \in Exc =>
                  IF ~cpu.exc_disable
                  THEN cpu'.e0 = cpu.pc /\ cpu'.e1 = cpu.int_disable
                  ELSE rc' = "OK" => raised' = "TIMER" /\ (Rfe \/ Cle)
<1>1. IInv /\ [Next]_vars => [A]_vars
  <2> SUFFICES ASSUME IInv, Next PROVE A
    OBVIOUS
  <2>1. CASE ExecInst
    BY <2>1, ExecInstStep DEF IInv, StepOk
  <2>2. CASE Reset
    BY <2>2 DEF Reset, Exc, OpFault, MemFault
  <2> QED BY <2>1, <2>2 DEF Next, Exec
<1> QED BY <1>1, SpecIInv, PTL DEF Spec, ContextFresh

----------------------------------------------------------------------------
(* Protection.  A user instruction is followed through the same calls once *)
(* more, this time for the supervisor's state: all that may happen to it   *)
(* is a tick of the timer, which comes first, and dirty bits.              *)
Confined(n, m) ==
  /\ SameFlags(n, m) /\ n.int_disable = m.int_disable
  /\ n.eh = m.eh /\ n.timer_set = m.timer_set
  /\ \A i \in TlbIndex : SameButDirty(m.tlb[i], n.tlb[i])

Kept(n, m) == Confined(n, m) /\ n.timer = m.timer

LEMMA KeptTransitive ==
  ASSUME NEW l, NEW m, NEW n, Kept(m, l), Kept(n, m)
  PROVE  Kept(n, l)
<1>1. ASSUME NEW i \in TlbIndex PROVE SameButDirty(l.tlb[i], n.tlb[i])
  <2>1. SameButDirty(l.tlb[i], m.tlb[i]) /\ SameButDirty(m.tlb[i], n.tlb[i])
    BY DEF Kept, Confined
  <2> QED BY <2>1 DEF SameButDirty
<1> QED BY <1>1 DEF Kept, Confined, SameFlags

(* Whatever leaves the fields that Kept names alone. *)
LEMMA SameTlbKept ==
  ASSUME NEW m, NEW n, SameFlags(n, m), n.int_disable = m.int_disable,
         n.eh = m.eh, n.timer_set = m.timer_set, n.timer = m.timer, n.tlb = m.tlb
  PROVE  Kept(n, m)
BY DEF Kept, Confined, SameButDirty

(* An entry that a store is translated through permits stores. *)
LEMMA MarkDirtyKept ==
  ASSUME NEW m \in Machine, NEW i \in TlbIndex, NEW access,
         access \subseteq m.tlb[i].attr
  PROVE  Kept(MarkDirty(m, i, access), m)
<1> DEFINE e == [m.tlb[i] EXCEPT !.attr = @ \cup {"DIRTY"}]
           t == [m.tlb EXCEPT ![i] = e]
<1>1. m.tlb \in [TlbIndex -> TlbEntry] /\ m.tlb[i] \in TlbEntry
  BY DEF Machine
<1>2. CASE access = {"WRITE"}
  <2>1. SameButDirty(m.tlb[i], e)
    <3>1. /\ e.vseg = m.tlb[i].vseg /\ e.vpn = m.tlb[i].vpn /\ e.ppn = m.tlb[i].ppn
          /\ e.attr = m.tlb[i].attr \cup {"DIRTY"}
      BY <1>1 DEF TlbEntry
    <3>2. "WRITE" \in m.tlb[i].attr
      BY <1>2
    <3> QED BY <3>1, <3>2 DEF SameButDirty
  <2>2. \A j \in TlbIndex : t[j] = IF j = i THEN e ELSE m.tlb[j]
    BY <1>1
  <2>3. MarkDirty(m, i, access) = [m EXCEPT !.tlb = t]
    BY <1>1, <1>2 DEF MarkDirty, Machine
  <2> HIDE DEF e, t
  <2>4. \A j \in TlbIndex : SameButDirty(m.tlb[j], t[j])
    BY <2>1, <2>2 DEF SameButDirty
  <2> QED BY <2>3, <2>4 DEF Kept, Confined, SameFlags, Machine
<1>3. CASE access # {"WRITE"}
  BY <1>3, SameTlbKept DEF MarkDirty, SameFlags
<1> QED BY <1>2, <1>3

LEMMA V2PKept ==
  ASSUME NEW m \in Machine, NEW v \in Word, NEW mode, NEW access,
         NEW update_e2 \in BOOLEAN
  PROVE  Kept(V2P(m, v, mode, access, update_e2).m, m)
<1> DEFINE n == LatchE2(m, v, update_e2)
           hit == FindTlbEntry(m.tlb, Seg(v), Vpn(v))
           t == V2P(m, v, mode, access, update_e2)
<1>1. n \in Machine
  BY LatchE2Facts
<1>2. Kept(n, m) /\ n.tlb = m.tlb
  <2>1. SameFlags(n, m) /\ n.int_disable = m.int_disable
    BY LatchE2Facts
  <2>2. n.eh = m.eh /\ n.timer_set = m.timer_set /\ n.timer = m.timer /\ n.tlb = m.tlb
    BY DEF LatchE2, Machine
  <2> QED BY <2>1, <2>2, SameTlbKept
<1>3. hit.index \in TlbIndex \cup {-1}
  BY FindTlbEntryFacts
<1>4. CASE t.m = n
  BY <1>2, <1>4
<1>5. CASE t.m # n
  <2>1. /\ t.m = MarkDirty(n, hit.index, access)
        /\ ~(hit.index < 0) /\ access \subseteq m.tlb[hit.index].attr
    BY <1>5 DEF V2P
  <2>2. hit.index \in TlbIndex
    BY <1>3, <2>1, SMT
  <2> HIDE DEF n, hit, t
  <2>3. Kept(t.m, n)
    <3>1. access \subseteq n.tlb[hit.index].attr
      BY <1>2, <2>1
    <3>2. Kept(MarkDirty(n, hit.index, access), n)
      BY <1>1, <2>2, <3>1, MarkDirtyKept
    <3> QED BY <2>1, <3>2
  <2>4. Kept(t.m, m)
    BY <1>2, <2>3, KeptTransitive
  <2> QED BY <2>4 DEF t
<1> QED BY <1>4, <1>5

LEMMA DoLoadStoreKept ==
  ASSUME NEW m \in Machine, NEW v \in Word, NEW size, NEW access \in Access,
         NEW update_e2 \in BOOLEAN
  PROVE  Kept(DoLoadStore(m, v, size, access, update_e2).m, m)
<1> DEFINE t == V2P(m, v, m.mode, {access}, update_e2)
           o == DoLoadStore(m, v, size, access, update_e2)
<1>1. t.m \in Machine /\ Kept(t.m, m)
  BY V2PFacts, V2PKept
<1>2. ASSUME NEW n \in Machine, NEW f PROVE Kept(ExcCatch(n, access, f), n)
  <2> DEFINE e == [su |-> n.mode = "SUPER", op |-> access, type |-> f]
  <2>1. ExcCatch(n, access, f) = [n EXCEPT !.e3 = e]
    BY DEF ExcCatch
  <2> HIDE DEF e
  <2> QED BY <2>1, SameTlbKept DEF Machine, SameFlags
<1>3. Kept(m, m)
  BY SameTlbKept DEF SameFlags
<1>4. \/ \E f : o.m = ExcCatch(m, access, f)
      \/ \E f : o.m = ExcCatch(t.m, access, f)
      \/ o.m = t.m
  BY DEF DoLoadStore
<1> HIDE DEF t, o
<1> QED BY <1>1, <1>2, <1>4, KeptTransitive DEF o

(* The prologue: the timer may have ticked. *)
LEMMA DispatchedConfined ==
  ASSUME cpu \in Machine
  PROVE  /\ Confined(Fetched.m, cpu)
         /\ Fetched.m.timer \in {cpu.timer, cpu.timer - 1}
         /\ \A d \in Dispatched : /\ Confined(d, cpu)
                                  /\ d.timer \in {cpu.timer, cpu.timer - 1}
<1> DEFINE u == ExcUpdate(cpu)
           n == UpdateTimer(u)
<1>1. u \in Machine /\ Kept(u, cpu)
  <2>1. u \in Machine /\ SameFlags(u, cpu)
    BY ExcUpdateFacts
  <2>2. /\ u.eh = cpu.eh /\ u.timer_set = cpu.timer_set /\ u.timer = cpu.timer
        /\ u.tlb = cpu.tlb /\ u.int_disable = cpu.int_disable
    BY DEF ExcUpdate, Machine
  <2> QED BY <2>1, <2>2, SameTlbKept
<1> HIDE DEF u
<1>2. n \in Machine
  BY <1>1, UpdateTimerFacts
<1>3. Confined(n, cpu) /\ n.timer \in {cpu.timer, cpu.timer - 1}
  <2>1. n = u \/ n = [u EXCEPT !.timer = u.timer - 1]
    BY DEF UpdateTimer
  <2>2. /\ SameFlags(n, u) /\ n.eh = u.eh /\ n.timer_set = u.timer_set
        /\ n.int_disable = u.int_disable /\ n.tlb = u.tlb
        /\ n.timer \in {u.timer, u.timer - 1}
    BY <1>1, <2>1 DEF Machine, SameFlags
  <2> QED BY <1>1, <2>2 DEF Kept, Confined, SameFlags
<1> HIDE DEF n
<1>4. Kept(Fetched.m, n)
  <2>1. n.pc \in Word /\ "EXEC" \in Access /\ TRUE \in BOOLEAN
    BY <1>2 DEF Machine, Access
  <2>2. Fetched = DoLoadStore(n, n.pc, InstSize, "EXEC", TRUE)
    BY DEF Fetched, n, u
  <2> QED BY <1>2, <2>1, <2>2, DoLoadStoreKept
<1>5. Confined(Fetched.m, cpu) /\ Fetched.m.timer \in {cpu.timer, cpu.timer - 1}
  <2>1. ASSUME NEW i \in TlbIndex PROVE SameButDirty(cpu.tlb[i], Fetched.m.tlb[i])
    BY <1>3, <1>4 DEF Kept, Confined, SameButDirty
  <2> QED BY <1>3, <1>4, <2>1 DEF Kept, Confined, SameFlags
<1>6. ASSUME NEW d \in Dispatched
      PROVE  Confined(d, cpu) /\ d.timer \in {cpu.timer, cpu.timer - 1}
  <2>1. d = [Fetched.m EXCEPT !.pc = NextPc(Fetched.m.pc)]
    BY DEF Dispatched
  <2>2. Fetched.m \in Machine
    BY FetchedFacts
  <2>3. /\ SameFlags(d, Fetched.m) /\ d.int_disable = Fetched.m.int_disable
        /\ d.eh = Fetched.m.eh /\ d.timer_set = Fetched.m.timer_set
        /\ d.timer = Fetched.m.timer /\ d.tlb = Fetched.m.tlb
    BY <2>1, <2>2 DEF Machine, SameFlags
  <2> QED BY <1>5, <2>3 DEF Confined, SameFlags
<1> QED BY <1>5, <1>6

(* One user instruction that got past its fetch. *)
UserStep ==
  \E d \in Dispatched : \E m \in Machine, r \in {"OK"} \cup Exc, mem \in BOOLEAN :
    Kept(m, d) /\ Complete(m, r, mem)

(* In user mode every instruction is one of those, a privileged one being  *)
(* refused before it does anything.                                        *)
LEMMA UserInstFacts ==
  ASSUME TypeOK, UserExceptionsEnabled, cpu.mode = "USER", ExecInst
  PROVE  FetchFault \/ UserStep
<1>1. ASSUME NEW d \in Dispatched
      PROVE  d \in Machine /\ d.mode = "USER" /\ Kept(d, d)
  BY DispatchedFacts, SameTlbKept DEF TypeOK, SameFlags
<1>2. OpFaults \subseteq Exc /\ MemFault \subseteq Exc
  BY CpuAssumption DEF Exc
<1>3. {"ILL_INS", "REG_VIOL", "PRIV_INS"} \subseteq Exc
  BY DEF Exc, OpFault
<1>4. ASSUME NEW d \in Dispatched, NEW m, NEW r, Sys(d, m, r)
      PROVE  UserStep
  <2>1. Complete(d, "PRIV_INS", FALSE)
    BY <1>1, <1>4 DEF Sys
  <2> QED BY <1>1, <1>3, <2>1 DEF UserStep
<1>5. ASSUME NEW m \in Machine, NEW v \in Values, NEW size, NEW access \in Access
      PROVE  LET o == DoLoadStore(m, v, size, access, TRUE)
             IN  o.m \in Machine /\ Kept(o.m, m) /\ o.rc \in {"OK"} \cup Exc
  <2>1. v \in Word /\ TRUE \in BOOLEAN
    BY CpuAssumption
  <2> QED BY <1>2, <2>1, DoLoadStoreFacts, DoLoadStoreKept
<1>6. CASE Compute
  BY <1>1, <1>2, <1>6 DEF Compute, UserStep
<1>7. CASE Branch
  <2>1. PICK d \in Dispatched, v \in Values :
          \E target \in {d.pc, v, (cpu.pc + v) % WordSize} :
            Complete([d EXCEPT !.pc = target], "OK", FALSE)
    BY <1>7 DEF Branch
  <2>2. PICK target \in {d.pc, v, (cpu.pc + v) % WordSize} :
          Complete([d EXCEPT !.pc = target], "OK", FALSE)
    BY <2>1
  <2>3. v \in Word /\ cpu.pc \in Word /\ d.pc \in Word
    BY <1>1, CpuAssumption DEF TypeOK, Machine
  <2>4. (cpu.pc + v) % WordSize \in Word
    <3>1. cpu.pc + v \in Int
      BY <2>3, SMT DEF Word
    <3> QED BY <3>1, WordModulo
  <2> DEFINE m == [d EXCEPT !.pc = target]
  <2>5. /\ m \in Machine /\ SameFlags(m, d) /\ m.int_disable = d.int_disable
        /\ m.eh = d.eh /\ m.timer_set = d.timer_set /\ m.timer = d.timer /\ m.tlb = d.tlb
    BY <1>1, <2>2, <2>3, <2>4 DEF Machine, SameFlags
  <2>6. Complete(m, "OK", FALSE)
    BY <2>2
  <2> HIDE DEF m
  <2> QED BY <2>5, <2>6, SameTlbKept DEF UserStep
<1>8. CASE LoadStore
  <2>1. PICK d \in Dispatched, v \in Values, size \in {1, 4},
             access \in {"READ", "WRITE"} :
          LET o == DoLoadStore(d, v, size, access, TRUE)
          IN  Complete(o.m, o.rc, TRUE)
    BY <1>8 DEF LoadStore
  <2>2. access \in Access
    BY DEF Access
  <2> DEFINE o == DoLoadStore(d, v, size, access, TRUE)
  <2>3. o.m \in Machine /\ Kept(o.m, d) /\ o.rc \in {"OK"} \cup Exc
    BY <1>1, <1>5, <2>2
  <2> QED BY <2>1, <2>3 DEF UserStep
<1>9. CASE Exchange
  <2>1. PICK d \in Dispatched, v \in Values :
          LET l == DoLoadStore(d, v, 4, "READ", TRUE)
              s == DoLoadStore(l.m, v, 4, "WRITE", TRUE)
              o == IF l.rc = "OK" THEN s ELSE l
          IN  Complete(o.m, o.rc, TRUE)
    BY <1>9 DEF Exchange
  <2> DEFINE l == DoLoadStore(d, v, 4, "READ", TRUE)
             s == DoLoadStore(l.m, v, 4, "WRITE", TRUE)
  <2>2. "READ" \in Access /\ "WRITE" \in Access
    BY DEF Access
  <2>3. l.m \in Machine /\ Kept(l.m, d) /\ l.rc \in {"OK"} \cup Exc
    BY <1>1, <1>5, <2>2
  <2>4. Complete(s.m, s.rc, TRUE) \/ Complete(l.m, l.rc, TRUE)
    BY <2>1
  <2> HIDE DEF l
  <2>5. s.m \in Machine /\ Kept(s.m, l.m) /\ s.rc \in {"OK"} \cup Exc
    BY <1>5, <2>2, <2>3
  <2>6. Kept(s.m, d)
    BY <2>3, <2>5, KeptTransitive
  <2> HIDE DEF s
  <2> QED BY <2>3, <2>4, <2>5, <2>6 DEF UserStep
<1>10. CASE LoadStoreBadReg
  <2>1. PICK d \in Dispatched :
          Complete(ExcCatch(d, "NONE", "REG_VIOL"), "REG_VIOL", TRUE)
    BY <1>10 DEF LoadStoreBadReg
  <2> DEFINE m == ExcCatch(d, "NONE", "REG_VIOL")
  <2>2. m \in Machine /\ SameFlags(m, d) /\ m.int_disable = d.int_disable
    BY <1>1, <1>3, ExcCatchFacts
  <2>3. m.eh = d.eh /\ m.timer_set = d.timer_set /\ m.timer = d.timer /\ m.tlb = d.tlb
    BY <1>1 DEF ExcCatch, Machine
  <2>4. Kept(m, d)
    BY <2>2, <2>3, SameTlbKept
  <2> QED BY <1>3, <2>1, <2>2, <2>4 DEF UserStep
<1>11. CASE LoadStoreBadOp
  BY <1>1, <1>3, <1>11 DEF LoadStoreBadOp, UserStep
<1>12. CASE TlbProbe
  <2>1. PICK d \in Dispatched, v \in Values :
          LET f == FindTlbEntry(d.tlb, Seg(v), Vpn(v)).fault
          IN  \E r \in IF f = "UNSET" THEN StaleFault ELSE {f} : Sys(d, d, r)
    BY <1>12 DEF TlbProbe
  <2>2. \E r : Sys(d, d, r)
    BY <2>1
  <2> QED BY <1>4, <2>2
<1>13. CASE TlbStore
  <2>1. PICK d \in Dispatched, i \in 0 .. NTlb, e \in Storable :
          IF i < NTlb
          THEN Sys(d, [d EXCEPT !.tlb[i] = e], "OK")
          ELSE Sys(d, d, "TLB_INV")
    BY <1>13 DEF TlbStore
  <2> QED BY <1>4, <2>1
<1>14. CASE Idle
  <2>1. PICK d \in Dispatched :
          IF d.int_disable /\ d.timer_set
          THEN Sys(d, [d EXCEPT !.timer = 0, !.timer_set = FALSE], "TIMER")
          ELSE Sys(d, d, "IDLE")
    BY <1>14 DEF Idle
  <2> QED BY <1>4, <2>1
<1>15. CASE SysBadOperand \/ TlbLoad \/ Halt
  BY <1>4, <1>15 DEF SysBadOperand, TlbLoad, Halt
<1>16. CASE Leh \/ Timer
  <2>1. PICK d \in Dispatched : \E m : Sys(d, m, "OK")
    BY <1>16, Zenon DEF Leh, Timer
  <2> QED BY <1>4, <2>1
<1>17. CASE Rfe
  BY <1>4, <1>17, Zenon DEF Rfe
<1>18. CASE Cli \/ Sti \/ Cle \/ Ste
  BY <1>4, <1>18 DEF Cli, Sti, Cle, Ste
<1> QED BY <1>6, <1>7, <1>8, <1>9, <1>10, <1>11, <1>12, <1>13, <1>14, <1>15, <1>16,
           <1>17, <1>18 DEF ExecInst

(* What a user instruction may do, in the words of UserConfined. *)
ConfinedStep ==
  /\ cpu'.eh = cpu.eh
  /\ \A i \in TlbIndex : SameButDirty(cpu.tlb[i], cpu'.tlb[i])
  /\ cpu'.timer \in {cpu.timer, cpu.timer - 1}
  /\ cpu'.timer_set # cpu.timer_set => raised' = "TIMER"
  /\ IF raised' = "NONE"
     THEN /\ cpu'.mode = "USER"
          /\ cpu'.int_disable = cpu.int_disable
          /\ cpu'.exc_disable = cpu.exc_disable
     ELSE /\ cpu'.mode = "SUPER"
          /\ cpu'.pc = cpu.eh
          /\ cpu'.int_disable /\ cpu'.exc_disable

LEMMA ExcThrowConfined ==
  ASSUME NEW m \in Machine
  PROVE  LET n == ExcThrow(m).m
         IN  /\ n.eh = m.eh /\ n.tlb = m.tlb /\ n.pc = m.eh
             /\ n.timer = m.timer /\ n.timer_set = m.timer_set
             /\ n.mode = "SUPER" /\ n.int_disable /\ n.exc_disable
BY DEF ExcThrow, Machine

LEMMA CompleteConfined ==
  ASSUME NEW m \in Machine, NEW r \in {"OK"} \cup Exc, NEW mem \in BOOLEAN,
         Complete(m, r, mem)
  PROVE  /\ cpu'.eh = m.eh /\ cpu'.tlb = m.tlb /\ cpu'.timer = m.timer
         /\ cpu'.timer_set # m.timer_set => raised' = "TIMER"
         /\ IF raised' = "NONE"
            THEN SameFlags(cpu', m) /\ cpu'.int_disable = m.int_disable
            ELSE /\ cpu'.mode = "SUPER" /\ cpu'.pc = m.eh
                 /\ cpu'.int_disable /\ cpu'.exc_disable
<1> DEFINE due == TimerDue(m, r)
           n   == IF due THEN [m EXCEPT !.timer_set = FALSE] ELSE m
           exc == IF due THEN "TIMER" ELSE r
           e   == [su |-> n.mode = "SUPER", op |-> "NONE", type |-> exc]
           c   == IF mem THEN n ELSE [n EXCEPT !.e3 = e]
           thr == ExcThrow(c)
<1>1. /\ n \in Machine /\ n.eh = m.eh /\ n.tlb = m.tlb /\ n.timer = m.timer
      /\ ~due => n = m
  BY DEF Machine
<1>2. exc \in {"OK"} \cup Exc /\ (due => exc = "TIMER")
  BY DEF Exc
<1>3. "NONE" \notin Exc /\ "TIMER" \notin Status /\ Status \cap Exc = {} /\ "OK" \in Status
  BY DEF Exc, Status, OpFault, MemFault
<1>4. Finish(m, r, mem) = IF exc \in Status
                          THEN [m |-> n, rc |-> exc, raised |-> "NONE"]
                          ELSE [m |-> thr.m, rc |-> thr.rc, raised |-> exc]
  BY DEF Finish, ExcCatch
<1>5. "NONE" \in Access \cup {"NONE"} /\ e.su \in BOOLEAN
  OBVIOUS
<1> HIDE DEF exc, n, due, thr
<1>6. CASE exc \in Status
  <2>1. cpu' = n /\ raised' = "NONE"
    BY <1>4, <1>6 DEF Complete
  <2>2. n = m
    BY <1>1, <1>2, <1>3, <1>6
  <2> QED BY <2>1, <2>2 DEF SameFlags
<1>7. CASE exc \notin Status
  <2>1. cpu' = thr.m /\ raised' = exc /\ exc \in Exc
    BY <1>2, <1>3, <1>4, <1>7 DEF Complete
  <2>2. e \in E3
    BY <1>5, <2>1 DEF E3
  <2> HIDE DEF e
  <2>3. /\ c \in Machine /\ c.eh = m.eh /\ c.tlb = m.tlb /\ c.timer = m.timer
        /\ c.timer_set = n.timer_set
    BY <1>1, <2>2 DEF Machine
  <2> HIDE DEF c
  <2>4. /\ thr.m.eh = c.eh /\ thr.m.tlb = c.tlb /\ thr.m.pc = c.eh
        /\ thr.m.timer = c.timer /\ thr.m.timer_set = c.timer_set
        /\ thr.m.mode = "SUPER" /\ thr.m.int_disable /\ thr.m.exc_disable
    BY <2>3, ExcThrowConfined DEF thr
  <2>5. n.timer_set # m.timer_set => exc = "TIMER"
    BY <1>1, <1>2
  <2> QED BY <1>3, <2>1, <2>3, <2>4, <2>5
<1> QED BY <1>6, <1>7

LEMMA UserInstConfined ==
  ASSUME TypeOK, UserExceptionsEnabled, cpu.mode = "USER", ExecInst
  PROVE  ConfinedStep
<1>1. cpu \in Machine
  BY DEF TypeOK
<1>2. CASE FetchFault
  <2>1. Fetched.rc # "OK" /\ cpu' = ExcThrow(Fetched.m).m /\ raised' = Fetched.rc
    BY <1>2 DEF FetchFault
  <2>2. Fetched.m \in Machine /\ Fetched.rc \in {"OK"} \cup MemFault
    BY <1>1, FetchedFacts
  <2>3. /\ Confined(Fetched.m, cpu)
        /\ Fetched.m.timer \in {cpu.timer, cpu.timer - 1}
    BY <1>1, DispatchedConfined
  <2>4. raised' # "NONE"
    BY <2>1, <2>2 DEF MemFault
  <2>5. /\ cpu'.eh = Fetched.m.eh /\ cpu'.tlb = Fetched.m.tlb /\ cpu'.pc = Fetched.m.eh
        /\ cpu'.timer = Fetched.m.timer /\ cpu'.timer_set = Fetched.m.timer_set
        /\ cpu'.mode = "SUPER" /\ cpu'.int_disable /\ cpu'.exc_disable
    BY <2>1, <2>2, ExcThrowConfined
  <2> QED BY <2>3, <2>4, <2>5 DEF ConfinedStep, Confined
<1>3. CASE UserStep
  <2>1. PICK d \in Dispatched, m \in Machine, r \in {"OK"} \cup Exc, mem \in BOOLEAN :
          Kept(m, d) /\ Complete(m, r, mem)
    BY <1>3 DEF UserStep
  <2>2. Confined(d, cpu) /\ d.timer \in {cpu.timer, cpu.timer - 1}
    BY <1>1, DispatchedConfined
  <2>3. Confined(m, cpu) /\ m.timer \in {cpu.timer, cpu.timer - 1}
    <3>1. ASSUME NEW i \in TlbIndex PROVE SameButDirty(cpu.tlb[i], m.tlb[i])
      BY <2>1, <2>2 DEF Kept, Confined, SameButDirty
    <3> QED BY <2>1, <2>2, <3>1 DEF Kept, Confined, SameFlags
  <2>4. /\ cpu'.eh = m.eh /\ cpu'.tlb = m.tlb /\ cpu'.timer = m.timer
        /\ cpu'.timer_set # m.timer_set => raised' = "TIMER"
        /\ IF raised' = "NONE"
           THEN SameFlags(cpu', m) /\ cpu'.int_disable = m.int_disable
           ELSE /\ cpu'.mode = "SUPER" /\ cpu'.pc = m.eh
                /\ cpu'.int_disable /\ cpu'.exc_disable
    BY <2>1, CompleteConfined
  <2> QED BY <2>3, <2>4 DEF ConfinedStep, Confined, SameFlags
<1> QED BY <1>2, <1>3, UserInstFacts

(* A user instruction changes no supervisor state, whatever it is and      *)
(* whatever the supervisor left: every privileged operation is refused,    *)
(* and translation writes dirty bits only where stores are permitted.      *)
THEOREM UserIsConfined == Spec => UserConfined
<1> DEFINE A == cpu.mode = "USER" /\ raised' # "RESET" =>
       /\ cpu'.eh = cpu.eh
       /\ \A i \in TlbIndex : SameButDirty(cpu.tlb[i], cpu'.tlb[i])
       /\ cpu'.timer \in {cpu.timer, cpu.timer - 1}
       /\ cpu'.timer_set # cpu.timer_set => raised' = "TIMER"
       /\ IF raised' = "NONE"
          THEN /\ cpu'.mode = "USER"
               /\ cpu'.int_disable = cpu.int_disable
               /\ cpu'.exc_disable = cpu.exc_disable
          ELSE /\ cpu'.mode = "SUPER"
               /\ cpu'.pc = cpu.eh
               /\ cpu'.int_disable /\ cpu'.exc_disable
<1>1. IInv /\ [Next]_vars => [A]_vars
  <2> SUFFICES ASSUME IInv, Next PROVE A
    OBVIOUS
  <2>1. CASE ExecInst
    BY <2>1, UserInstConfined DEF IInv, ConfinedStep
  <2>2. CASE Reset
    BY <2>2 DEF Reset
  <2> QED BY <2>1, <2>2 DEF Next, Exec
<1> QED BY <1>1, SpecIInv, PTL DEF Spec, UserConfined

(* A word at an offset within page n lies in page n. *)
LEMMA PageOf ==
  ASSUME NEW P \in Nat \ {0}, NEW n \in Nat, NEW k \in 0 .. P - 1
  PROVE  (n * P + k) \div P = n
<1> DEFINE q == (n * P + k) \div P
<1>1. n * P \in Nat
  BY SMT
<1>2. q \in Int /\ q * P <= n * P + k /\ n * P + k < q * P + P
  BY <1>1, SMTT(30)
<1> HIDE DEF q
<1>3. ~(q > n)
  <2> SUFFICES ASSUME q > n PROVE FALSE
    OBVIOUS
  <2>1. (n + 1) * P <= q * P
    BY <1>2, SMTT(30)
  <2>2. (n + 1) * P = n * P + P
    BY SMTT(30)
  <2> QED BY <1>1, <1>2, <2>1, <2>2, SMT
<1>4. ~(q < n)
  <2> SUFFICES ASSUME q < n PROVE FALSE
    OBVIOUS
  <2>1. (q + 1) * P <= n * P
    BY <1>2, SMTT(30)
  <2>2. (q + 1) * P = q * P + P
    BY <1>2, SMTT(30)
  <2> QED BY <1>1, <1>2, <2>1, <2>2, SMT
<1> QED BY <1>2, <1>3, <1>4, SMT DEF q

(* The TLB search only succeeds with the one entry that hits. *)
LEMMA FindTlbEntryUnique ==
  ASSUME NEW tlb, NEW seg \in Mapped, NEW vpn, FindTlbEntry(tlb, seg, vpn).index # -1
  PROVE  LET i == FindTlbEntry(tlb, seg, vpn).index
         IN  i \in TlbIndex /\ Hits(tlb, seg, vpn) = {i}
<1> DEFINE hits == Hits(tlb, seg, vpn)
<1>1. hits \subseteq TlbIndex
  BY DEF Hits
<1> HIDE DEF hits
<1>2. hits # {} /\ ~\E i, j \in hits : i # j
  BY DEF FindTlbEntry, hits
<1>3. FindTlbEntry(tlb, seg, vpn).index = CHOOSE i \in hits : TRUE
  BY <1>2 DEF FindTlbEntry, hits
<1>4. (CHOOSE i \in hits : TRUE) \in hits
  BY <1>2
<1> QED BY <1>1, <1>2, <1>3, <1>4 DEF hits

(* What a fetch that succeeds in user mode went through. *)
LEMMA FetchAuthorised ==
  ASSUME TypeOK, cpu.mode = "USER", Fetched.rc = "OK"
  PROVE  /\ Seg(cpu.pc) = UserSeg
         /\ \E i \in TlbIndex :
              /\ Hits(cpu.tlb, UserSeg, Vpn(cpu.pc)) = {i}
              /\ "EXEC" \in cpu.tlb[i].attr
              /\ cpu.tlb[i].ppn \in Backed
<1> DEFINE n == UpdateTimer(ExcUpdate(cpu))
           t == V2P(n, n.pc, n.mode, {"EXEC"}, TRUE)
           hit == FindTlbEntry(n.tlb, Seg(n.pc), Vpn(n.pc))
<1>1. n.pc = cpu.pc /\ n.tlb = cpu.tlb /\ n.mode = "USER"
  BY DEF TypeOK, Machine, UpdateTimer, ExcUpdate
<1>2. cpu.pc \in Word /\ cpu.tlb \in [TlbIndex -> TlbEntry]
  BY DEF TypeOK, Machine
<1> HIDE DEF n
<1>3. t.fault = "OK" /\ P2Vm(t.paddr)
  BY DEF Fetched, DoLoadStore, n
<1>4. Seg(cpu.pc) = UserSeg
  BY <1>1, <1>3 DEF V2P
<1>5. UserSeg \in Mapped
  BY DEF UserSeg, Mapped
<1>6. hit.index \in TlbIndex \cup {-1} /\ (hit.index < 0 => hit.fault # "UNSET")
      /\ hit.fault \in {"UNSET", "TLB_MISS", "TLB_MULTI"}
  BY <1>1, <1>4, <1>5, FindTlbEntryFacts
<1>7. /\ ~(hit.index < 0) /\ "EXEC" \in n.tlb[hit.index].attr
      /\ t.paddr = n.tlb[hit.index].ppn * PageSize + Off(n.pc)
  <2>1. ~(hit.index < 0)
    BY <1>1, <1>3, <1>4, <1>5, <1>6 DEF V2P
  <2> HIDE DEF hit
  <2> QED BY <1>1, <1>3, <1>4, <1>5, <2>1 DEF V2P, hit
<1>8. hit.index # -1
  BY <1>7, SMT
<1>9. hit.index \in TlbIndex /\ Hits(cpu.tlb, UserSeg, Vpn(cpu.pc)) = {hit.index}
  BY <1>1, <1>4, <1>5, <1>8, FindTlbEntryUnique
<1>10. n.tlb[hit.index].ppn \in Backed
  <2>1. n.tlb[hit.index].ppn \in Nat
    BY <1>1, <1>2, <1>9, MmuAssumption, SMT DEF TlbEntry, Page
  <2>2. Off(n.pc) \in 0 .. PageSize - 1
    BY <1>1, <1>2, MmuAssumption, SMT DEF Off, Word
  <2>3. PageSize \in Nat \ {0}
    BY MmuAssumption
  <2> DEFINE a == n.tlb[hit.index].ppn
             k == Off(n.pc)
  <2>4. t.paddr = a * PageSize + k
    BY <1>7
  <2> HIDE DEF a, k, t
  <2>5. (a * PageSize + k) \div PageSize = a
    <3>1. a \in Nat /\ k \in 0 .. PageSize - 1
      BY <2>1, <2>2 DEF a, k
    <3> QED BY <2>3, <3>1, PageOf, Zenon
  <2>6. a \in Backed
    BY <1>3, <2>4, <2>5 DEF P2Vm
  <2> QED BY <2>6 DEF a
<1> QED BY <1>1, <1>4, <1>7, <1>9, <1>10

(* A fetch that fails says so in e3, so that what gets past it was         *)
(* authorised by the supervisor.                                           *)
THEOREM UserFetches == Spec => UserFetchAuthorised
<1> DEFINE A == cpu.mode = "USER" /\ raised' # "RESET" /\ cpu'.e3.op # "EXEC" =>
       /\ Seg(cpu.pc) = UserSeg
       /\ \E i \in TlbIndex :
            /\ Hits(cpu.tlb, UserSeg, Vpn(cpu.pc)) = {i}
            /\ "EXEC" \in cpu.tlb[i].attr
            /\ cpu.tlb[i].ppn \in Backed
<1>1. IInv /\ [Next]_vars => [A]_vars
  <2> SUFFICES ASSUME IInv, Next PROVE A
    OBVIOUS
  <2>1. CASE ExecInst
    <3>1. CASE Fetched.rc = "OK"
      BY <3>1, FetchAuthorised DEF IInv
    <3>2. CASE Fetched.rc # "OK"
      <4>1. Dispatched = {}
        BY <3>2 DEF Dispatched
      <4>2. FetchFault
        BY <2>1, <4>1 DEF ExecInst, Compute, Branch, LoadStore, Exchange,
             LoadStoreBadReg, LoadStoreBadOp, SysBadOperand, TlbProbe, TlbLoad,
             TlbStore, Leh, Rfe, Timer, Halt, Idle, Cli, Sti, Cle, Ste
      <4>3. Fetched.m \in Machine /\ cpu' = ExcThrow(Fetched.m).m
        BY <4>2, FetchedFacts DEF FetchFault, IInv, TypeOK
      <4>4. cpu'.e3 = Fetched.m.e3
        BY <4>3 DEF ExcThrow, Machine
      <4>5. Fetched.m.e3.op = "EXEC"
        <5> DEFINE n == UpdateTimer(ExcUpdate(cpu))
        <5>1. n \in Machine
          BY ExcUpdateFacts, UpdateTimerFacts DEF IInv, TypeOK
        <5> HIDE DEF n
        <5>2. n.pc \in Word /\ TRUE \in BOOLEAN
          BY <5>1 DEF Machine
        <5>3. V2P(n, n.pc, n.mode, {"EXEC"}, TRUE).m \in Machine
          BY <5>1, <5>2, V2PFacts
        <5>4. \E m \in Machine : \E f : Fetched.m = ExcCatch(m, "EXEC", f)
          BY <3>2, <5>1, <5>3 DEF Fetched, DoLoadStore, n
        <5> QED BY <5>4 DEF ExcCatch, Machine
      <4> QED BY <4>4, <4>5
    <3> QED BY <3>1, <3>2
  <2>2. CASE Reset
    BY <2>2 DEF Reset
  <2> QED BY <2>1, <2>2 DEF Next, Exec
<1> QED BY <1>1, SpecIInv, PTL DEF Spec, UserFetchAuthorised
----------------------------------------------------------------------------
(* What e3 tells.  A memory access that fails is caught where it fails;    *)
(* everything else is caught when the instruction is over, without a kind  *)
(* of access.                                                              *)
LEMMA AccessReports ==
  ASSUME NEW m \in Machine, NEW v \in Word, NEW size, NEW access \in Access,
         NEW update_e2 \in BOOLEAN
  PROVE  LET o == DoLoadStore(m, v, size, access, update_e2)
         IN  o.rc # "OK" =>
               o.m.e3 = [su |-> m.mode = "SUPER", op |-> access, type |-> o.rc]
<1> DEFINE t == V2P(m, v, m.mode, {access}, update_e2)
           o == DoLoadStore(m, v, size, access, update_e2)
<1>1. t.m \in Machine /\ t.m.mode = m.mode
  BY V2PFacts DEF SameFlags
<1>2. ASSUME NEW n \in Machine, NEW f
      PROVE  ExcCatch(n, access, f).e3 = [su |-> n.mode = "SUPER", op |-> access, type |-> f]
  BY DEF ExcCatch, Machine
<1>3. \/ o.rc = "OK"
      \/ \E n \in {m, t.m} : \E f : o = [m |-> ExcCatch(n, access, f), rc |-> f]
  BY DEF DoLoadStore
<1> HIDE DEF t, o
<1> QED BY <1>1, <1>2, <1>3 DEF o

(* What e3 is to say of an exception r in a machine m, and what a handler  *)
(* that started from d has to leave for that: the record itself, or only   *)
(* the mode.                                                               *)
Silent == {"TLB_MISS", "TLB_MULTI"} \cup StaleFault
Told(e, r, mode) ==
  /\ e.type = r
  /\ (r = "TIMER" /\ Rfe) \/ e.su = (mode = "SUPER")
  /\ e.op # "NONE" => r \in MemFault
  /\ r \in MemFault \ Silent => e.op # "NONE"

Tells(d, m, r, mem) ==
  /\ mem => MemPrefix
  /\ m.mode = d.mode \/ (r = "OK" /\ Rfe)
  /\ r \in Exc \ {"TIMER", "ILL_INS"} =>
       IF mem THEN Told(m.e3, r, d.mode) ELSE r \in MemFault => r \in Silent

LEMMA CompleteTells ==
  ASSUME NEW m \in Machine, NEW d \in Machine, NEW r \in Status \cup Exc, NEW mem \in BOOLEAN,
         Complete(m, r, mem), Tells(d, m, r, mem),
         raised' \in Exc, raised' \in {"TIMER", "ILL_INS"} => ~MemPrefix
  PROVE  Told(cpu'.e3, raised', d.mode)
<1> DEFINE due == TimerDue(m, r)
           n   == IF due THEN [m EXCEPT !.timer_set = FALSE] ELSE m
           exc == IF due THEN "TIMER" ELSE r
           c   == IF mem THEN n ELSE ExcCatch(n, "NONE", exc)
<1>1. /\ "NONE" \notin Exc /\ "TIMER" \notin Status /\ Status \cap Exc = {}
      /\ "OK" \in Status /\ "TIMER" \in Exc /\ "TIMER" \notin MemFault
      /\ "ILL_INS" \notin MemFault
  BY DEF Exc, Status, OpFault, MemFault
<1>2. n \in Machine /\ n.mode = m.mode /\ n.e3 = m.e3
  BY DEF Machine
<1>3. due => r = "OK"
  BY DEF TimerDue
<1>4. exc \notin Status /\ raised' = exc /\ cpu' = ExcThrow(c).m
  BY <1>1 DEF Complete, Finish
<1>5. exc \in Exc /\ (~due => r = exc)
  BY <1>4
<1> HIDE DEF due, n
<1>6. c \in Machine /\ Told(c.e3, exc, d.mode)
  <2>1. CASE mem
    <3>1. exc \notin {"TIMER", "ILL_INS"}
      BY <1>4, <2>1 DEF Tells
    <3>2. ~due /\ c = n /\ Told(m.e3, exc, d.mode)
      BY <1>5, <2>1, <3>1 DEF Tells
    <3> QED BY <1>2, <3>2
  <2>2. CASE ~mem
    <3>1. c = ExcCatch(n, "NONE", exc)
      BY <2>2
    <3> HIDE DEF exc, c
    <3>2. c.e3 = [su |-> n.mode = "SUPER", op |-> "NONE", type |-> exc]
      BY <1>2, <3>1 DEF ExcCatch, Machine
    <3>3. c \in Machine
      <4>1. "NONE" \in Access \cup {"NONE"}
        OBVIOUS
      <4> QED BY <1>2, <1>5, <3>1, <4>1, ExcCatchFacts
    <3>4. (exc = "TIMER" /\ Rfe) \/ n.mode = d.mode
      <4>1. CASE due
        BY <1>2, <1>5, <4>1 DEF Tells, exc
      <4>2. CASE ~due
        BY <1>1, <1>2, <1>5, <4>2 DEF Tells
      <4> QED BY <4>1, <4>2
    <3>5. exc \in MemFault => exc \in Silent
      <4>1. CASE due
        BY <1>1, <4>1 DEF exc
      <4>2. CASE ~due
        BY <1>1, <1>5, <2>2, <4>2 DEF Tells
      <4> QED BY <4>1, <4>2
    <3> QED BY <3>2, <3>3, <3>4, <3>5 DEF Told
  <2> QED BY <2>1, <2>2
<1> HIDE DEF c, exc
<1>7. ExcThrow(c).m.e3 = c.e3
  BY <1>6 DEF ExcThrow, Machine
<1> QED BY <1>4, <1>6, <1>7

TellingStep ==
  \E d \in Dispatched : \E m \in Machine, r \in Status \cup Exc, mem \in BOOLEAN :
    Tells(d, m, r, mem) /\ Complete(m, r, mem)

LEMMA InstTells ==
  ASSUME cpu \in Machine, ExecInst
  PROVE  FetchFault \/ TellingStep
<1>1. ASSUME NEW d \in Dispatched PROVE d \in Machine
  BY DispatchedFacts
<1>2. /\ OpFaults \subseteq OpFault /\ StaleFault \subseteq Status \cup Exc
      /\ OpFault \subseteq Exc /\ MemFault \subseteq Exc /\ OpFault \cap MemFault = {}
      /\ {"PRIV_INS", "TLB_INV"} \subseteq Exc \ MemFault
      /\ {"OK", "HALT", "IDLE"} \cap Exc = {} /\ {"OK", "HALT", "IDLE"} \subseteq Status
      /\ "TIMER" \in Exc /\ "OK" \notin MemFault
      /\ Status \cap Exc = {}
      /\ {"ILL_INS", "REG_VIOL"} \subseteq OpFault
      /\ {"TLB_MISS", "TLB_MULTI"} \subseteq Exc
  BY CpuAssumption DEF Exc, OpFault, MemFault, Status
<1>3. ASSUME NEW d \in Dispatched, NEW r \in Status \cup Exc, r \in MemFault => r \in Silent,
             Complete(d, r, FALSE)
      PROVE  TellingStep
  BY <1>1, <1>3 DEF Tells, TellingStep
<1>4. ASSUME NEW d \in Dispatched, NEW m \in Machine, NEW r \in {"OK", "TIMER", "HALT", "IDLE"},
             m.mode = d.mode \/ (r = "OK" /\ Rfe), Complete(m, r, FALSE)
      PROVE  TellingStep
  BY <1>2, <1>4 DEF Tells, TellingStep
<1>5. ASSUME NEW d \in Dispatched, NEW r \in Status \cup Exc, r \in MemFault => r \in Silent,
             Sys(d, d, r)
      PROVE  TellingStep
  BY <1>2, <1>3, <1>5 DEF Sys
<1>6. ASSUME NEW d \in Dispatched, NEW m \in Machine, NEW r \in {"OK", "TIMER", "HALT", "IDLE"},
             m.mode = d.mode \/ (r = "OK" /\ Rfe), Sys(d, m, r)
      PROVE  TellingStep
  <2>1. CASE d.mode = "USER"
    BY <1>2, <1>3, <1>6, <2>1 DEF Sys
  <2>2. CASE d.mode # "USER"
    <3>1. Complete(m, r, FALSE)
      BY <1>6, <2>2 DEF Sys
    <3> QED BY <1>4, <1>6, <3>1
  <2> QED BY <2>1, <2>2
<1>7. ASSUME NEW m \in Machine, NEW v \in Values, NEW size, NEW access \in Access
      PROVE  LET o == DoLoadStore(m, v, size, access, TRUE)
             IN  /\ o.m \in Machine /\ o.m.mode = m.mode /\ o.rc \in Status \cup Exc
                 /\ o.rc # "OK" => o.rc \in MemFault /\ Told(o.m.e3, o.rc, m.mode)
  <2> DEFINE o == DoLoadStore(m, v, size, access, TRUE)
  <2>1. v \in Word /\ TRUE \in BOOLEAN /\ "NONE" \notin Access
    BY CpuAssumption DEF Access
  <2>2. o.m \in Machine /\ SameFlags(o.m, m) /\ o.rc \in {"OK"} \cup MemFault
    BY <2>1, DoLoadStoreFacts
  <2>3. o.rc # "OK" => o.m.e3 = [su |-> m.mode = "SUPER", op |-> access, type |-> o.rc]
    BY <2>1, AccessReports
  <2> HIDE DEF o
  <2>4. o.m.mode = m.mode /\ o.rc \in Status \cup Exc
    BY <1>2, <2>2 DEF SameFlags
  <2>5. o.rc # "OK" => o.rc \in MemFault /\ Told(o.m.e3, o.rc, m.mode)
    BY <2>1, <2>2, <2>3 DEF Told
  <2> QED BY <2>2, <2>4, <2>5 DEF o
<1>8. CASE Compute
  <2>1. PICK d \in Dispatched, r \in {"OK"} \cup OpFaults : Complete(d, r, FALSE)
    BY <1>8 DEF Compute
  <2>2. r \in Status \cup Exc /\ r \notin MemFault
    BY <1>2
  <2> QED BY <1>3, <2>1, <2>2
<1>9. CASE Branch
  <2>1. PICK d \in Dispatched, v \in Values :
          \E target \in {d.pc, v, (cpu.pc + v) % WordSize} :
            Complete([d EXCEPT !.pc = target], "OK", FALSE)
    BY <1>9 DEF Branch
  <2>2. PICK target \in {d.pc, v, (cpu.pc + v) % WordSize} :
          Complete([d EXCEPT !.pc = target], "OK", FALSE)
    BY <2>1
  <2>3. v \in Word /\ cpu.pc \in Word /\ d.pc \in Word
    BY <1>1, CpuAssumption DEF Machine
  <2>4. (cpu.pc + v) % WordSize \in Word
    <3>1. cpu.pc + v \in Int
      BY <2>3, SMT DEF Word
    <3> QED BY <3>1, WordModulo
  <2> DEFINE m == [d EXCEPT !.pc = target]
  <2>5. m \in Machine /\ m.mode = d.mode
    BY <1>1, <2>2, <2>3, <2>4 DEF Machine
  <2>6. Complete(m, "OK", FALSE)
    BY <2>2
  <2> HIDE DEF m
  <2> QED BY <1>4, <2>5, <2>6
<1>10. CASE LoadStore
  <2>1. PICK d \in Dispatched, v \in Values, size \in {1, 4},
             access \in {"READ", "WRITE"} :
          LET o == DoLoadStore(d, v, size, access, TRUE)
          IN  Complete(o.m, o.rc, TRUE)
    BY <1>10 DEF LoadStore
  <2>2. access \in Access
    BY DEF Access
  <2> DEFINE o == DoLoadStore(d, v, size, access, TRUE)
  <2>3. /\ o.m \in Machine /\ o.m.mode = d.mode /\ o.rc \in Status \cup Exc
        /\ o.rc # "OK" => o.rc \in MemFault /\ Told(o.m.e3, o.rc, d.mode)
    BY <1>1, <1>7, <2>2
  <2>4. Complete(o.m, o.rc, TRUE)
    BY <2>1
  <2> HIDE DEF o
  <2>5. Tells(d, o.m, o.rc, TRUE)
    BY <1>2, <1>10, <2>3 DEF Tells, MemPrefix
  <2> QED BY <2>3, <2>4, <2>5 DEF TellingStep
<1>11. CASE Exchange
  <2>1. PICK d \in Dispatched, v \in Values :
          LET l == DoLoadStore(d, v, 4, "READ", TRUE)
              s == DoLoadStore(l.m, v, 4, "WRITE", TRUE)
              o == IF l.rc = "OK" THEN s ELSE l
          IN  Complete(o.m, o.rc, TRUE)
    BY <1>11 DEF Exchange
  <2> DEFINE l == DoLoadStore(d, v, 4, "READ", TRUE)
             s == DoLoadStore(l.m, v, 4, "WRITE", TRUE)
             o == IF l.rc = "OK" THEN s ELSE l
  <2>2. "READ" \in Access /\ "WRITE" \in Access
    BY DEF Access
  <2>3. /\ l.m \in Machine /\ l.m.mode = d.mode /\ l.rc \in Status \cup Exc
        /\ l.rc # "OK" => l.rc \in MemFault /\ Told(l.m.e3, l.rc, d.mode)
    BY <1>1, <1>7, <2>2
  <2>4. Complete(o.m, o.rc, TRUE)
    BY <2>1
  <2> HIDE DEF l
  <2>5. /\ s.m \in Machine /\ s.m.mode = d.mode /\ s.rc \in Status \cup Exc
        /\ s.rc # "OK" => s.rc \in MemFault /\ Told(s.m.e3, s.rc, d.mode)
    BY <1>7, <2>2, <2>3
  <2> HIDE DEF s
  <2>6. /\ o.m \in Machine /\ o.rc \in Status \cup Exc /\ o.m.mode = d.mode
        /\ o.rc # "OK" => Told(o.m.e3, o.rc, d.mode)
    BY <2>3, <2>5
  <2> HIDE DEF o
  <2>7. Tells(d, o.m, o.rc, TRUE)
    BY <1>2, <1>11, <2>6 DEF Tells, MemPrefix
  <2> QED BY <2>4, <2>6, <2>7 DEF TellingStep
<1>12. CASE LoadStoreBadReg
  <2>1. PICK d \in Dispatched :
          Complete(ExcCatch(d, "NONE", "REG_VIOL"), "REG_VIOL", TRUE)
    BY <1>12 DEF LoadStoreBadReg
  <2> DEFINE m == ExcCatch(d, "NONE", "REG_VIOL")
  <2>2. m \in Machine /\ m.mode = d.mode
    BY <1>1, <1>2, ExcCatchFacts DEF SameFlags
  <2>3. m.e3 = [su |-> d.mode = "SUPER", op |-> "NONE", type |-> "REG_VIOL"]
    BY <1>1 DEF ExcCatch, Machine
  <2> HIDE DEF m
  <2>4. Tells(d, m, "REG_VIOL", TRUE) /\ "REG_VIOL" \in Status \cup Exc
    BY <1>2, <1>12, <2>2, <2>3 DEF Tells, Told, MemPrefix
  <2> QED BY <2>1, <2>2, <2>4 DEF TellingStep, m
<1>13. CASE LoadStoreBadOp
  <2>1. PICK d \in Dispatched : Complete(d, "ILL_INS", TRUE)
    BY <1>13 DEF LoadStoreBadOp
  <2>2. Tells(d, d, "ILL_INS", TRUE) /\ "ILL_INS" \in Status \cup Exc
    BY <1>2, <1>13 DEF Tells, MemPrefix
  <2> QED BY <1>1, <2>1, <2>2 DEF TellingStep
<1>14. CASE SysBadOperand
  <2>1. PICK d \in Dispatched, r \in OpFaults \cap {"REG_VIOL", "ILL_INS"} : Sys(d, d, r)
    BY <1>14 DEF SysBadOperand
  <2>2. r \in Status \cup Exc /\ r \notin MemFault
    BY <1>2
  <2> QED BY <1>5, <2>1, <2>2
<1>15. CASE TlbProbe
  <2>1. PICK d \in Dispatched, v \in Values :
          LET f == FindTlbEntry(d.tlb, Seg(v), Vpn(v)).fault
          IN  \E r \in IF f = "UNSET" THEN StaleFault ELSE {f} : Sys(d, d, r)
    BY <1>15 DEF TlbProbe
  <2> DEFINE f == FindTlbEntry(d.tlb, Seg(v), Vpn(v)).fault
  <2>2. f \in {"UNSET", "TLB_MISS", "TLB_MULTI"}
    BY FindTlbEntryFacts
  <2>3. PICK r \in IF f = "UNSET" THEN StaleFault ELSE {f} : Sys(d, d, r)
    BY <2>1
  <2>4. r \in Status \cup Exc /\ r \in Silent
    BY <1>2, <2>2, <2>3 DEF Silent
  <2> QED BY <1>5, <2>3, <2>4
<1>16. CASE TlbLoad
  <2>1. PICK d \in Dispatched, i \in 0 .. NTlb :
          Sys(d, d, IF i < NTlb THEN "OK" ELSE "TLB_INV")
    BY <1>16 DEF TlbLoad
  <2>2. PICK r \in {"OK", "TLB_INV"} : Sys(d, d, r)
    BY <2>1
  <2>3. r \in Status \cup Exc /\ r \notin MemFault
    BY <1>2
  <2> QED BY <1>5, <2>2, <2>3
<1>17. CASE TlbStore
  <2>1. PICK d \in Dispatched, i \in 0 .. NTlb, e \in Storable :
          IF i < NTlb
          THEN Sys(d, [d EXCEPT !.tlb[i] = e], "OK")
          ELSE Sys(d, d, "TLB_INV")
    BY <1>17 DEF TlbStore
  <2>2. CASE i < NTlb
    <3> DEFINE m == [d EXCEPT !.tlb[i] = e]
    <3>1. i \in TlbIndex /\ e \in TlbEntry
      BY <2>2, MmuAssumption, CpuAssumption, SMT DEF TlbIndex
    <3>2. [d.tlb EXCEPT ![i] = e] \in [TlbIndex -> TlbEntry]
      BY <1>1, <3>1 DEF Machine
    <3>3. m \in Machine /\ m.mode = d.mode
      BY <1>1, <3>2 DEF Machine
    <3>4. Sys(d, m, "OK")
      BY <2>1, <2>2
    <3> HIDE DEF m
    <3> QED BY <1>6, <3>3, <3>4
  <2>3. CASE ~(i < NTlb)
    <3>1. Sys(d, d, "TLB_INV")
      BY <2>1, <2>3
    <3> QED BY <1>2, <1>5, <3>1
  <2> QED BY <2>2, <2>3
<1>18. CASE Leh
  <2>1. PICK d \in Dispatched, v \in Handlers : Sys(d, [d EXCEPT !.eh = v], "OK")
    BY <1>18 DEF Leh
  <2> DEFINE m == [d EXCEPT !.eh = v]
  <2>2. m \in Machine /\ m.mode = d.mode
    BY <1>1, CpuAssumption DEF Machine
  <2>3. Sys(d, m, "OK")
    BY <2>1
  <2> HIDE DEF m
  <2> QED BY <1>6, <2>2, <2>3
<1>19. CASE Rfe
  <2>1. PICK d \in Dispatched, target \in Values, i \in BOOLEAN, mode \in Mode :
          Sys(d, RfeMachine(d, target, i, mode), "OK")
    BY <1>19 DEF Rfe
  <2>2. RfeMachine(d, target, i, mode) \in Machine
    BY <1>1, CpuAssumption DEF RfeMachine, Machine
  <2> QED BY <1>6, <1>19, <2>1, <2>2
<1>20. CASE Timer
  <2>1. PICK d \in Dispatched, v \in TimerVals :
          Sys(d, [d EXCEPT !.timer = v, !.timer_set = v > 0], "OK")
    BY <1>20 DEF Timer
  <2>2. v \in Int /\ (v > 0) \in BOOLEAN
    BY CpuAssumption
  <2> DEFINE m == [d EXCEPT !.timer = v, !.timer_set = v > 0]
  <2>3. m \in Machine /\ m.mode = d.mode
    BY <1>1, <2>2 DEF Machine
  <2>4. Sys(d, m, "OK")
    BY <2>1
  <2> HIDE DEF m
  <2> QED BY <1>6, <2>3, <2>4
<1>21. CASE Halt
  BY <1>1, <1>6, <1>21 DEF Halt
<1>22. CASE Idle
  <2>1. PICK d \in Dispatched :
          IF d.int_disable /\ d.timer_set
          THEN Sys(d, [d EXCEPT !.timer = 0, !.timer_set = FALSE], "TIMER")
          ELSE Sys(d, d, "IDLE")
    BY <1>22 DEF Idle
  <2> DEFINE m == [d EXCEPT !.timer = 0, !.timer_set = FALSE]
  <2>2. 0 \in Int /\ d \in Machine
    BY <1>1
  <2>3. m \in Machine /\ m.mode = d.mode
    BY <2>2 DEF Machine
  <2>4. Sys(d, m, "TIMER") \/ Sys(d, d, "IDLE")
    BY <2>1
  <2> HIDE DEF m
  <2> QED BY <1>6, <2>2, <2>3, <2>4
<1>23. CASE Cli \/ Sti
  <2>1. PICK d \in Dispatched, b \in BOOLEAN : Sys(d, [d EXCEPT !.int_disable = b], "OK")
    BY <1>23 DEF Cli, Sti
  <2> DEFINE m == [d EXCEPT !.int_disable = b]
  <2>2. m \in Machine /\ m.mode = d.mode
    BY <1>1 DEF Machine
  <2>3. Sys(d, m, "OK")
    BY <2>1
  <2> HIDE DEF m
  <2> QED BY <1>6, <2>2, <2>3
<1>24. CASE Cle \/ Ste
  <2>1. PICK d \in Dispatched, b \in BOOLEAN : Sys(d, [d EXCEPT !.exc_disable = b], "OK")
    BY <1>24 DEF Cle, Ste
  <2> DEFINE m == [d EXCEPT !.exc_disable = b]
  <2>2. m \in Machine /\ m.mode = d.mode
    BY <1>1 DEF Machine
  <2>3. Sys(d, m, "OK")
    BY <2>1
  <2> HIDE DEF m
  <2> QED BY <1>6, <2>2, <2>3
<1> QED BY <1>8, <1>9, <1>10, <1>11, <1>12, <1>13, <1>14, <1>15, <1>16, <1>17, <1>18, <1>19,
           <1>20, <1>21, <1>22, <1>23, <1>24 DEF ExecInst

(* The handler can tell from e3 what happened, unless it is the timer or   *)
(* an unknown opcode after the memory prefix (ant32_exec.c 266): the       *)
(* memory system catches its faults itself, the rest is caught once, at    *)
(* the end.                                                                *)
THEOREM ExceptionsTold == Spec => E3Faithful
<1> DEFINE A == raised' \in Exc /\ (raised' \in {"TIMER", "ILL_INS"} => ~MemPrefix) =>
       /\ cpu'.e3.type = raised'
       /\ cpu'.e3.op # "NONE" => raised' \in MemFault
       /\ raised' \in MemFault \ ({"TLB_MISS", "TLB_MULTI"} \cup StaleFault) =>
            cpu'.e3.op # "NONE"
       /\ (raised' = "TIMER" /\ Rfe) \/ cpu'.e3.su = (cpu.mode = "SUPER")
<1>1. IInv /\ [Next]_vars => [A]_vars
  <2> SUFFICES ASSUME IInv, Next, raised' \in Exc,
                      raised' \in {"TIMER", "ILL_INS"} => ~MemPrefix
               PROVE  Told(cpu'.e3, raised', cpu.mode)
    BY DEF Told, Silent
  <2>1. cpu \in Machine
    BY DEF IInv, TypeOK
  <2>2. CASE FetchFault
    <3> DEFINE n == UpdateTimer(ExcUpdate(cpu))
    <3>1. Fetched.rc # "OK" /\ cpu' = ExcThrow(Fetched.m).m /\ raised' = Fetched.rc
      BY <2>2 DEF FetchFault
    <3>2. n \in Machine /\ n.mode = cpu.mode
      <4>1. ExcUpdate(cpu) \in Machine /\ ExcUpdate(cpu).mode = cpu.mode
        BY <2>1, ExcUpdateFacts DEF SameFlags
      <4> QED BY <4>1, UpdateTimerFacts DEF SameFlags
    <3>3. n.pc \in Word /\ "EXEC" \in Access /\ TRUE \in BOOLEAN /\ "EXEC" # "NONE"
      BY <3>2 DEF Machine, Access
    <3>4. Fetched = DoLoadStore(n, n.pc, InstSize, "EXEC", TRUE)
      BY DEF Fetched
    <3> HIDE DEF n
    <3>5. Fetched.m.e3 = [su |-> n.mode = "SUPER", op |-> "EXEC", type |-> Fetched.rc]
      <4> DEFINE o == DoLoadStore(n, n.pc, InstSize, "EXEC", TRUE)
      <4>1. o.rc # "OK" => o.m.e3 = [su |-> n.mode = "SUPER", op |-> "EXEC", type |-> o.rc]
        BY <3>2, <3>3, AccessReports
      <4> QED BY <3>1, <3>4, <4>1
    <3>6. Fetched.m \in Machine /\ Fetched.rc \in {"OK"} \cup MemFault
      BY <2>1, FetchedFacts
    <3>7. ExcThrow(Fetched.m).m.e3 = Fetched.m.e3
      BY <3>6 DEF ExcThrow, Machine
    <3> QED BY <3>1, <3>2, <3>5, <3>6, <3>7 DEF Told
  <2>3. CASE TellingStep
    <3>1. PICK d \in Dispatched, m \in Machine, r \in Status \cup Exc, mem \in BOOLEAN :
            Tells(d, m, r, mem) /\ Complete(m, r, mem)
      BY <2>3 DEF TellingStep
    <3>2. d \in Machine /\ d.mode = cpu.mode
      BY <2>1, DispatchedFacts DEF SameFlags
    <3> QED BY <3>1, <3>2, CompleteTells
  <2>4. CASE Reset
    BY <2>4 DEF Reset, Exc, OpFault, MemFault
  <2> QED BY <2>1, <2>2, <2>3, <2>4, InstTells DEF Next, Exec
<1> QED BY <1>1, SpecIInv, PTL DEF Spec, E3Faithful

-----------------------------------------------------------------------------
(* The debugger. *)

(* n differs from m in the flags, the context and the TLB at most. *)
SameRest(n, m) ==
  n.pc = m.pc /\ n.eh = m.eh /\ n.timer = m.timer /\ n.timer_set = m.timer_set

LEMMA V2PKeepsRest ==
  ASSUME NEW m \in Machine, NEW v \in Word, NEW mode, NEW access,
         NEW update_e2 \in BOOLEAN
  PROVE  SameRest(V2P(m, v, mode, access, update_e2).m, m)
<1> DEFINE n == LatchE2(m, v, update_e2)
           t == V2P(m, v, mode, access, update_e2)
<1>1. n \in Machine /\ SameRest(n, m)
  BY LatchE2Facts DEF LatchE2, Machine, SameRest
<1>2. \A i : SameRest(MarkDirty(n, i, access), n)
  BY <1>1 DEF MarkDirty, Machine, SameRest
<1>3. t.m = n \/ \E i : t.m = MarkDirty(n, i, access)
  BY DEF V2P
<1> QED BY <1>1, <1>2, <1>3 DEF SameRest

LEMMA DoLoadStoreKeepsRest ==
  ASSUME NEW m \in Machine, NEW v \in Word, NEW size, NEW access \in Access,
         NEW update_e2 \in BOOLEAN
  PROVE  SameRest(DoLoadStore(m, v, size, access, update_e2).m, m)
<1> DEFINE t == V2P(m, v, m.mode, {access}, update_e2)
           o == DoLoadStore(m, v, size, access, update_e2)
<1>1. t.m \in Machine /\ SameRest(t.m, m)
  BY V2PFacts, V2PKeepsRest
<1>2. \A n \in Machine : \A f : SameRest(ExcCatch(n, access, f), n)
  BY DEF ExcCatch, Machine, SameRest
<1>3. \/ o.m = t.m
      \/ \E n \in {m, t.m} : \E f : o.m = ExcCatch(n, access, f)
  BY DEF DoLoadStore
<1> QED BY <1>1, <1>2, <1>3 DEF SameRest

(* What the debugger does to the processor on behalf of the user keeps it  *)
(* well formed, its flags and its program counter.                         *)
LEMMA DbgAccessFacts ==
  ASSUME NEW m \in Machine, NEW v \in Word, NEW size, NEW access \in Access
  PROVE  LET n == DbgAccess(m, v, size, access)
         IN  n \in Machine /\ SameFlags(n, m) /\ n.pc = m.pc
<1> DEFINE n == DoLoadStore(m, v, size, access, FALSE).m
<1>1. FALSE \in BOOLEAN
  OBVIOUS
<1>2. n \in Machine /\ SameFlags(n, m)
  BY <1>1, DoLoadStoreFacts
<1>3. SameRest(n, m)
  BY <1>1, DoLoadStoreKeepsRest
<1> QED BY <1>2, <1>3 DEF DbgAccess, SameRest

----------------------------------------------------------------------------
(* The processor under the debugger *)

Sound == TypeOK /\ UserExceptionsEnabled /\ orig_pc \in Word

(* A step that leaves a machine with the flags of the old one. *)
LEMMA SoundKept ==
  ASSUME Sound, cpu' \in Machine, SameFlags(cpu', cpu), UNCHANGED <<rc, raised, orig_pc>>
  PROVE  Sound'
BY DEF Sound, TypeOK, UserExceptionsEnabled, SameFlags

LEMMA CommandsSound ==
  ASSUME Sound, Commands
  PROVE  Sound'
<1>1. cpu \in Machine /\ orig_pc \in Word /\ Values \subseteq Word
  BY CpuAssumption DEF Sound, TypeOK
<1>2. "READ" \in Access /\ "WRITE" \in Access
  BY DEF Access
<1>3. ASSUME NEW v \in Word
      PROVE  [cpu EXCEPT !.pc = v] \in Machine /\ SameFlags([cpu EXCEPT !.pc = v], cpu)
  BY <1>1 DEF Machine, SameFlags
<1>4. SameFlags(cpu, cpu)
  BY DEF SameFlags
<1>5. CASE Run
  <2>1. PICK v \in Values \cup {orig_pc} : cpu' = [cpu EXCEPT !.pc = v]
    BY <1>5 DEF Run
  <2>2. v \in Word
    BY <1>1
  <2> QED BY <1>3, <1>5, <2>1, <2>2, SoundKept DEF Run, Start, ctl
<1>6. CASE Go \/ NextInst \/ Quit \/ Trace \/ InstMode \/ SetBreakpoints \/ ClearBreakpoints
  <2>1. UNCHANGED <<cpu, rc, raised, orig_pc>>
    BY <1>6 DEF Go, Start, NextInst, Quit, Trace, InstMode, SetBreakpoints,
                ClearBreakpoints, ctl
  <2> QED BY <1>1, <1>4, <2>1, SoundKept
<1>7. CASE Reload
  <2>1. /\ cpu' \in Machine /\ rc' = "OK" /\ raised' = "RESET"
        /\ cpu'.mode = "SUPER" /\ orig_pc' = cpu'.pc
    BY <1>7, ResetStep DEF Reload, Sound
  <2>2. cpu'.pc \in Word
    BY <2>1 DEF Machine
  <2> QED BY <2>1, <2>2 DEF Sound, TypeOK, UserExceptionsEnabled, Status
<1>8. CASE Jump
  <2>1. PICK v \in Values :
          cpu' = IF v % InstSize = 0 THEN [cpu EXCEPT !.pc = v] ELSE cpu
    BY <1>8 DEF Jump
  <2>2. cpu' \in Machine /\ SameFlags(cpu', cpu)
    BY <1>1, <1>3, <1>4, <2>1
  <2> QED BY <1>8, <2>2, SoundKept DEF Jump, ctl
<1>9. CASE Look
  <2>1. PICK v \in Values, size \in {1, 4} : cpu' = DbgAccess(cpu, v, size, "READ")
    BY <1>9 DEF Look
  <2>2. cpu' \in Machine /\ SameFlags(cpu', cpu)
    BY <1>1, <1>2, <2>1, DbgAccessFacts
  <2> QED BY <1>9, <2>2, SoundKept DEF Look, ctl
<1>10. CASE Translate
  <2>1. PICK v \in Values : cpu' = V2P(cpu, v, cpu.mode, {}, FALSE).m
    BY <1>10 DEF Translate
  <2>2. FALSE \in BOOLEAN
    OBVIOUS
  <2>3. cpu' \in Machine /\ SameFlags(cpu', cpu)
    BY <1>1, <2>1, <2>2, V2PFacts
  <2> QED BY <1>10, <2>3, SoundKept DEF Translate, ctl
<1>11. CASE Store
  <2>1. PICK v \in Values, size \in {1, 4} : cpu' = DbgAccess(cpu, v, size, "WRITE")
    BY <1>11 DEF Store
  <2>2. cpu' \in Machine /\ SameFlags(cpu', cpu)
    BY <1>1, <1>2, <2>1, DbgAccessFacts
  <2> QED BY <1>11, <2>2, SoundKept DEF Store, ctl
<1>12. CASE LoadConst
  <2>1. PICK v \in Values, b \in BOOLEAN :
          cpu' \in {[cpu EXCEPT !.e0 = v], [cpu EXCEPT !.e1 = b], [cpu EXCEPT !.e2 = v]}
    BY <1>12 DEF LoadConst
  <2>2. cpu' \in Machine /\ SameFlags(cpu', cpu)
    BY <1>1, <2>1 DEF Machine, SameFlags
  <2> QED BY <1>12, <2>2, SoundKept DEF LoadConst, ctl
<1> QED BY <1>5, <1>6, <1>7, <1>8, <1>9, <1>10, <1>11, <1>12 DEF Commands

(* An instruction under the debugger is one of the processor's. *)
LEMMA StepSound ==
  ASSUME Sound, Step, orig_pc' = orig_pc
  PROVE  Sound'
<1>1. CASE interrupted
  BY <1>1 DEF Step, Sound, TypeOK, UserExceptionsEnabled
<1>2. CASE ~interrupted
  <2>1. StepOk
    BY <1>2, ExecInstStep DEF Step, Sound
  <2> QED BY <2>1 DEF StepOk, Trappable, Sound, TypeOK, UserExceptionsEnabled
<1> QED BY <1>1, <1>2

(* Looking at the instruction to come. *)
LEMMA ShowSound ==
  ASSUME Sound, cpu' = DbgAccess(cpu, cpu.pc, InstSize, "EXEC"),
         UNCHANGED <<rc, raised, orig_pc>>
  PROVE  Sound' /\ cpu'.pc = cpu.pc
<1>1. cpu \in Machine /\ cpu.pc \in Word /\ "EXEC" \in Access
  BY DEF Sound, TypeOK, Machine, Access
<1>2. cpu' \in Machine /\ SameFlags(cpu', cpu) /\ cpu'.pc = cpu.pc
  BY <1>1, DbgAccessFacts
<1> QED BY <1>2, SoundKept

----------------------------------------------------------------------------
(* Breakpoints *)

(* The inductive invariant.  BreakpointsHonoured alone is not inductive: a *)
(* command could start a loop, at a breakpoint, with the mark of an        *)
(* earlier command still on; it is off whenever a command is read.         *)
DbgIInv ==
  /\ Sound
  /\ BreakpointsHonoured
  /\ loc = "prompt" => ~executed

LEMMA DbgInitIInv == DbgInit => DbgIInv
<1> SUFFICES ASSUME DbgInit PROVE DbgIInv
  OBVIOUS
<1>1. IInv
  BY InitIInv DEF DbgInit
<1>2. cpu.pc \in Word
  BY <1>1 DEF IInv, TypeOK, Machine
<1> QED BY <1>1, <1>2 DEF DbgInit, DbgIInv, Sound, IInv, BreakpointsHonoured, Looping

LEMMA DbgNextIInv == DbgIInv /\ [DbgNext]_dvars => DbgIInv'
<1> SUFFICES ASSUME DbgIInv, [DbgNext]_dvars PROVE DbgIInv'
  OBVIOUS
<1>1. Sound
  BY DEF DbgIInv
<1>2. CASE Show
  <2>1. Sound'
    BY <1>1, <1>2, ShowSound DEF Show, ctl
  <2> QED BY <1>2, <2>1 DEF Show, DbgIInv, BreakpointsHonoured, Looping
<1>3. CASE Commands
  <2>1. Sound'
    BY <1>1, <1>3, CommandsSound
  <2>2. loc = "prompt" /\ loc' # "prompt" /\ executed' = executed
    BY <1>3 DEF Commands, Run, Go, Start, NextInst, Reload, Quit, Jump, Trace,
                InstMode, Look, Translate, Store, LoadConst, SetBreakpoints,
                ClearBreakpoints, Command, hist
  <2> QED BY <2>1, <2>2 DEF DbgIInv, BreakpointsHonoured
<1>4. CASE TracePeek
  <2>1. Sound' /\ cpu'.pc = cpu.pc
    BY <1>1, <1>4, ShowSound DEF TracePeek, ctl
  <2> QED BY <1>4, <2>1
          DEF TracePeek, DbgIInv, BreakpointsHonoured, Looping, CheckBreakpoint, ctl, hist
<1>5. CASE ExecInstDbg
  <2>1. Step /\ loc # "prompt" /\ orig_pc' = orig_pc /\ breakpoints' = breakpoints
    BY <1>5 DEF ExecInstDbg, Looping, ctl
  <2>2. Sound'
    BY <1>1, <2>1, StepSound
  <2>3. loc' # "prompt"
    BY <2>1 DEF Step
  <2>4. loc' # "show" => ~CheckBreakpoint(breakpoints, cpu'.pc)
    BY <2>1 DEF Step
  <2> QED BY <2>1, <2>2, <2>3, <2>4
          DEF DbgIInv, BreakpointsHonoured, Looping, CheckBreakpoint
<1>6. CASE Signal
  BY <1>1, <1>6 DEF Signal, DbgIInv, Sound, TypeOK, UserExceptionsEnabled,
                    BreakpointsHonoured, Looping, CheckBreakpoint, ctl
<1>7. CASE UNCHANGED dvars
  BY <1>1, <1>7 DEF dvars, DbgIInv, Sound, TypeOK, UserExceptionsEnabled,
                    BreakpointsHonoured, Looping, CheckBreakpoint, ctl, hist
<1> QED BY <1>2, <1>3, <1>4, <1>5, <1>6, <1>7 DEF DbgNext

(* The invariant holds in every state of the debugger. *)
THEOREM DbgSpecIInv == DbgSpec => []DbgIInv
BY DbgInitIInv, DbgNextIInv, PTL DEF DbgSpec

(* No run of the program, whether by `r', `g' or `n' and traced or not,    *)
(* goes past a breakpoint (ant_exec_inst_dbg).                             *)
THEOREM NeverPastBreakpoint == DbgSpec => []BreakpointsHonoured
<1>1. DbgIInv => BreakpointsHonoured
  BY DEF DbgIInv
<1> QED BY <1>1, DbgSpecIInv, PTL

(* The commands of the debugger cannot make an exception of user code      *)
(* fatal: no jump, register load, access or reload leaves user mode with   *)
(* exceptions disabled.                                                    *)
THEOREM DebuggerKeepsTraps == DbgSpec => []UserExceptionsEnabled
<1>1. DbgIInv => UserExceptionsEnabled
  BY DEF DbgIInv, Sound
<1> QED BY <1>1, DbgSpecIInv, PTL

----------------------------------------------------------------------------
(* Getting somewhere, and discretion *)

(* The flag is set by the handler only, which also notes it, and cleared   *)
(* by the commands that run the program.                                   *)
FlagNoted == loc = "run" /\ interrupted => signalled

LEMMA FlagNotedInv == DbgSpec => []FlagNoted
<1>1. DbgInit => FlagNoted
  BY DEF DbgInit, FlagNoted
<1>2. FlagNoted /\ [DbgNext]_dvars => FlagNoted'
  BY DEF FlagNoted, dvars, hist, ctl, DbgNext, Show, TracePeek, ExecInstDbg, Step, Signal,
         Commands, Run, Go, Start, NextInst, Reload, Quit, Jump, Trace, InstMode, Look,
         Translate, Store, LoadConst, SetBreakpoints, ClearBreakpoints, Command
<1> QED BY <1>1, <1>2, PTL DEF DbgSpec

(* `g' and `r' come back without having executed an instruction only if    *)
(* the user interrupted that very command (ant_exec_dbg).                  *)
THEOREM RunGetsSomewhere == DbgSpec => RunExecutes
<1> DEFINE Gets == loc = "run" /\ loc' = "show" /\ ~signalled => executed'
<1>1. FlagNoted /\ [DbgNext]_dvars => [Gets]_dvars
  <2> SUFFICES ASSUME FlagNoted, DbgNext, loc = "run", loc' = "show", ~signalled
               PROVE  executed'
    OBVIOUS
  <2>1. ~interrupted
    BY DEF FlagNoted
  <2>2. ~Commands
    BY DEF Commands, Run, Go, Start, NextInst, Reload, Quit, Jump, Trace, InstMode, Look,
           Translate, Store, LoadConst, SetBreakpoints, ClearBreakpoints, Command
  <2>3. ~Show /\ ~TracePeek /\ ~Signal
    BY DEF Show, TracePeek, Signal
  <2>4. Step
    BY <2>2, <2>3 DEF DbgNext, ExecInstDbg
  <2>5. executed' = TRUE
    BY <2>1, <2>4 DEF Step
  <2> QED BY <2>5
<1>2. [][Gets]_dvars => RunExecutes
  BY DEF RunExecutes
<1> HIDE DEF Gets
<1> QED BY <1>1, <1>2, FlagNotedInv, PTL DEF DbgSpec

(* n differs from m in e3 and, after a write, in dirty bits.               *)
Touched(n, m, write) ==
  /\ n.mode = m.mode /\ n.pc = m.pc /\ n.eh = m.eh
  /\ n.exc_disable = m.exc_disable /\ n.int_disable = m.int_disable
  /\ n.timer = m.timer /\ n.timer_set = m.timer_set
  /\ n.e0 = m.e0 /\ n.e1 = m.e1 /\ n.e2 = m.e2
  /\ \A i \in TlbIndex :
       n.tlb[i] \in {m.tlb[i], [m.tlb[i] EXCEPT !.attr = @ \cup {"DIRTY"}]}
  /\ n.tlb # m.tlb => write

LEMMA V2PTouches ==
  ASSUME NEW m \in Machine, NEW v \in Word, NEW mode, NEW access,
         NEW update_e2, update_e2 = FALSE
  PROVE  Touched(V2P(m, v, mode, access, update_e2).m, m, access = {"WRITE"})
<1> DEFINE n == LatchE2(m, v, update_e2)
           t == V2P(m, v, mode, access, update_e2)
           hit == FindTlbEntry(m.tlb, Seg(v), Vpn(v))
<1>1. n = m
  BY DEF LatchE2, n
<1>2. hit.index \in TlbIndex \cup {-1}
  BY FindTlbEntryFacts
<1> HIDE DEF hit, t, n
<1>3. t.m = n \/ (~(hit.index < 0) /\ t.m = MarkDirty(n, hit.index, access))
  <2>1. CASE mode = "USER" /\ Seg(v) # UserSeg
    <3>1. t.m = n
      BY <2>1 DEF V2P, t, n
    <3> QED BY <3>1
  <2>2. CASE ~(mode = "USER" /\ Seg(v) # UserSeg) /\ Seg(v) \notin Mapped
    <3>1. t.m = n
      BY <2>2 DEF V2P, t, n
    <3> QED BY <3>1
  <2>3. CASE ~(mode = "USER" /\ Seg(v) # UserSeg) /\ Seg(v) \in Mapped /\ hit.index < 0
    <3>1. t.m = n
      BY <2>3 DEF V2P, t, n, hit
    <3> QED BY <3>1
  <2>4. CASE /\ ~(mode = "USER" /\ Seg(v) # UserSeg) /\ Seg(v) \in Mapped
             /\ ~(hit.index < 0) /\ ~(access \subseteq m.tlb[hit.index].attr)
    <3>1. t.m = n
      BY <2>4 DEF V2P, t, n, hit
    <3> QED BY <3>1
  <2>5. CASE /\ ~(mode = "USER" /\ Seg(v) # UserSeg) /\ Seg(v) \in Mapped
             /\ ~(hit.index < 0) /\ access \subseteq m.tlb[hit.index].attr
    <3>1. t.m = MarkDirty(n, hit.index, access)
      BY <2>5 DEF V2P, t, n, hit
    <3> QED BY <2>5, <3>1
  <2> QED BY <2>1, <2>2, <2>3, <2>4, <2>5
<1>4. Touched(m, m, access = {"WRITE"})
  BY DEF Touched
<1>5. ASSUME NEW i \in TlbIndex PROVE Touched(MarkDirty(m, i, access), m, access = {"WRITE"})
  <2>1. CASE access = {"WRITE"}
    BY <2>1 DEF MarkDirty, Machine, Touched
  <2>2. CASE access # {"WRITE"}
    BY <1>4, <2>2 DEF MarkDirty
  <2> QED BY <2>1, <2>2
<1>6. ~(hit.index < 0) => hit.index \in TlbIndex
  BY <1>2
<1> QED BY <1>1, <1>3, <1>4, <1>5, <1>6 DEF t

LEMMA DbgAccessTouches ==
  ASSUME NEW m \in Machine, NEW v \in Word, NEW size, NEW access \in Access
  PROVE  Touched(DbgAccess(m, v, size, access), m, access = "WRITE")
<1> DEFINE t == V2P(m, v, m.mode, {access}, FALSE)
           o == DoLoadStore(m, v, size, access, FALSE)
<1>1. t.m \in Machine /\ Touched(t.m, m, {access} = {"WRITE"})
  BY V2PFacts, V2PTouches
<1>2. Touched(t.m, m, access = "WRITE") /\ Touched(m, m, access = "WRITE")
  BY <1>1 DEF Touched
<1>3. ASSUME NEW n \in Machine, NEW f, Touched(n, m, access = "WRITE")
      PROVE  Touched(ExcCatch(n, access, f), m, access = "WRITE")
  BY <1>3 DEF ExcCatch, Machine, Touched
<1>4. \/ o.m = t.m
      \/ \E n \in {m, t.m} : \E f : o.m = ExcCatch(n, access, f)
  BY DEF DoLoadStore
<1> HIDE DEF t, o
<1>5. Touched(o.m, m, access = "WRITE")
  BY <1>1, <1>2, <1>3, <1>4
<1> QED BY <1>5 DEF DbgAccess, o

LEMMA TouchedTlb ==
  ASSUME NEW m, NEW n, n.tlb = m.tlb
  PROVE  \A i \in TlbIndex :
           n.tlb[i] \in {m.tlb[i], [m.tlb[i] EXCEPT !.attr = @ \cup {"DIRTY"}]}
OBVIOUS

LEMMA DiscreetStep ==
  ASSUME Sound, DbgNext, ~Reload, ~ExecInstDbg
  PROVE  /\ \A f \in {"mode", "eh", "exc_disable", "int_disable", "timer", "timer_set"} :
              cpu'[f] = cpu[f]
         /\ \A i \in TlbIndex :
              cpu'.tlb[i] \in {cpu.tlb[i], [cpu.tlb[i] EXCEPT !.attr = @ \cup {"DIRTY"}]}
         /\ cpu'.tlb # cpu.tlb => Store
         /\ \A f \in {"e0", "e1", "e2"} : cpu'[f] # cpu[f] => LoadConst
         /\ cpu'.pc # cpu.pc => Run \/ Jump
<1>1. cpu \in Machine /\ cpu.pc \in Word /\ Values \subseteq Word
  BY CpuAssumption DEF Sound, TypeOK, Machine
<1>2. CASE Show \/ TracePeek
  <2>1. cpu' = DbgAccess(cpu, cpu.pc, InstSize, "EXEC")
    BY <1>2 DEF Show, TracePeek
  <2>2. Touched(cpu', cpu, FALSE)
    BY <1>1, <2>1, DbgAccessTouches DEF Access, Touched
  <2> QED BY <2>2 DEF Touched
<1>3. CASE Look
  <2>1. PICK v \in Values, size \in {1, 4} : cpu' = DbgAccess(cpu, v, size, "READ")
    BY <1>3 DEF Look
  <2>2. Touched(cpu', cpu, FALSE)
    BY <1>1, <2>1, DbgAccessTouches DEF Access, Touched
  <2> QED BY <2>2 DEF Touched
<1>4. CASE Store
  <2>1. PICK v \in Values, size \in {1, 4} : cpu' = DbgAccess(cpu, v, size, "WRITE")
    BY <1>4 DEF Store
  <2>2. Touched(cpu', cpu, TRUE)
    BY <1>1, <2>1, DbgAccessTouches DEF Access, Touched
  <2> QED BY <1>4, <2>2 DEF Touched
<1>5. CASE Translate
  <2>1. PICK v \in Values : cpu' = V2P(cpu, v, cpu.mode, {}, FALSE).m
    BY <1>5 DEF Translate
  <2>2. Touched(V2P(cpu, v, cpu.mode, {}, FALSE).m, cpu, {} = {"WRITE"})
    BY <1>1, <2>1, V2PTouches
  <2>3. cpu'.tlb = cpu.tlb
    BY <2>1, <2>2 DEF Touched
  <2> QED BY <2>1, <2>2, <2>3 DEF Touched
<1>6. CASE Run \/ Jump
  <2>1. PICK v : cpu' = [cpu EXCEPT !.pc = v] \/ cpu' = cpu
    BY <1>6 DEF Run, Jump
  <2> QED BY <1>1, <1>6, <2>1 DEF Machine
<1>7. CASE LoadConst
  <2>1. PICK v \in Values, b \in BOOLEAN :
          cpu' \in {[cpu EXCEPT !.e0 = v], [cpu EXCEPT !.e1 = b], [cpu EXCEPT !.e2 = v]}
    BY <1>7 DEF LoadConst
  <2> QED BY <1>1, <1>7, <2>1 DEF Machine
<1>8. CASE Go \/ NextInst \/ Quit \/ Trace \/ InstMode \/ SetBreakpoints \/ ClearBreakpoints
           \/ Signal
  <2>1. CASE Go \/ NextInst \/ Quit \/ Trace \/ InstMode
    BY <2>1 DEF Go, NextInst, Quit, Trace, InstMode
  <2>2. CASE SetBreakpoints \/ ClearBreakpoints \/ Signal
    BY <2>2 DEF SetBreakpoints, ClearBreakpoints, Signal
  <2> QED BY <1>8, <2>1, <2>2
<1> QED BY <1>2, <1>3, <1>4, <1>5, <1>6, <1>7, <1>8 DEF DbgNext, Commands

(* The debugger leaves the processor's state to the program but for what   *)
(* the instructions it executes, a reload and the commands that name a     *)
(* register change, whatever is stopped when and whatever memory it looks  *)
(* at (ant_dbg_show_curr_inst, ant_asm_cmd and the others of ad32_util.c). *)
THEOREM DebuggerIsDiscreet == DbgSpec => DebuggerDiscreet
<1> DEFINE Discreet ==
      \/ Reload
      \/ ExecInstDbg
      \/ /\ \A f \in {"mode", "eh", "exc_disable", "int_disable", "timer", "timer_set"} :
              cpu'[f] = cpu[f]
         /\ \A i \in TlbIndex :
              cpu'.tlb[i] \in {cpu.tlb[i], [cpu.tlb[i] EXCEPT !.attr = @ \cup {"DIRTY"}]}
         /\ cpu'.tlb # cpu.tlb => Store
         /\ \A f \in {"e0", "e1", "e2"} : cpu'[f] # cpu[f] => LoadConst
         /\ cpu'.pc # cpu.pc => Run \/ Jump
<1>1. DbgIInv /\ [DbgNext]_dvars => [Discreet]_dvars
  BY DiscreetStep DEF DbgIInv
<1>2. [][Discreet]_dvars => DebuggerDiscreet
  BY DEF DebuggerDiscreet
<1> HIDE DEF Discreet
<1> QED BY <1>1, <1>2, DbgSpecIInv, PTL DEF DbgSpec

----------------------------------------------------------------------------
(* The table of breakpoints.  That no address is in two slots is what      *)
(* makes it a set: without it, clearing an address would leave it there.   *)
BpTables ==
  {bps \in [1 .. MaxBreakpoints -> Word \cup {Free}] :
     \A i, j \in 1 .. MaxBreakpoints : bps[i] = bps[j] /\ bps[i] # Free => i = j}

PointsIn(bps) == Range(bps) \ {Free}

Full(bps) == ~CheckBreakpoint(bps, Free)

LEMMA PointsInTable ==
  ASSUME NEW bps \in BpTables, NEW x
  PROVE  x \in PointsIn(bps) <=> x # Free /\ CheckBreakpoint(bps, x)
BY DEF BpTables, PointsIn, Range, CheckBreakpoint

LEMMA FirstSlotFacts ==
  ASSUME NEW bps \in BpTables, NEW x, CheckBreakpoint(bps, x)
  PROVE  FirstSlot(bps, x) \in 1 .. MaxBreakpoints /\ bps[FirstSlot(bps, x)] = x
<1> DEFINE s == {i \in 1 .. MaxBreakpoints : bps[i] = x}
<1>1. s # {} /\ s \in SUBSET (1 .. MaxBreakpoints) /\ MaxBreakpoints \in Nat
  BY DebugAssumption DEF CheckBreakpoint
<1>2. PICK i \in s : \A j \in s : i <= j
  BY <1>1, LeastMember
<1>3. i \in 1 .. MaxBreakpoints /\ bps[i] = x
  OBVIOUS
<1>4. \A j \in 1 .. i - 1 : bps[j] # x
  BY <1>1, <1>2, <1>3
<1> QED BY <1>3, <1>4 DEF FirstSlot

(* A full table holds as many addresses as it has slots.                   *)
LEMMA FullTable ==
  ASSUME NEW bps \in BpTables, Full(bps)
  PROVE  Cardinality(PointsIn(bps)) = MaxBreakpoints
<1> DEFINE n == MaxBreakpoints
           P == PointsIn(bps)
<1>1. n \in Nat /\ 1 \in Int /\ n \in Int
  BY DebugAssumption
<1>2. bps \in Bijection(1 .. n, P)
  <2>1. bps \in [1 .. n -> P]
    BY DEF BpTables, Full, CheckBreakpoint, PointsIn, Range
  <2>2. \A i, j \in 1 .. n : bps[i] = bps[j] => i = j
    BY DEF BpTables, Full, CheckBreakpoint
  <2>3. \A y \in P : \E i \in 1 .. n : bps[i] = y
    BY PointsInTable DEF CheckBreakpoint
  <2> HIDE DEF P, n
  <2> QED BY <2>1, <2>2, <2>3 DEF Bijection, Injection, Surjection, IsInjective
<1> HIDE DEF n, P
<1>3. ExistsBijection(1 .. n, P)
  BY <1>2 DEF ExistsBijection
<1>4. IsFiniteSet(1 .. n) /\ Cardinality(1 .. n) = IF 1 > n THEN 0 ELSE n - 1 + 1
  BY <1>1, FS_Interval
<1>5. Cardinality(1 .. n) = n
  BY <1>1, <1>4
<1>6. Cardinality(P) = n
  BY <1>3, <1>4, <1>5, FS_Bijection
<1> QED BY <1>6 DEF n, P

(* ant32_dbg_set_b: a new address goes into the first free slot.           *)
LEMMA SetBreakpointFacts ==
  ASSUME NEW bps \in BpTables, NEW pc \in Word
  PROVE  LET w == SetBreakpoint(bps, pc)
         IN  /\ w \in BpTables
             /\ PointsIn(w) \in {PointsIn(bps), PointsIn(bps) \cup {pc}}
             /\ pc \in PointsIn(w) \/ Full(w)
             /\ Full(bps) => Full(w)
<1> DEFINE w == SetBreakpoint(bps, pc)
           k == FirstSlot(bps, Free)
<1>1. pc # Free
  BY DEF Word, Free
<1>2. CASE CheckBreakpoint(bps, pc) \/ Full(bps)
  <2>1. w = bps
    BY <1>2 DEF SetBreakpoint, Full
  <2>2. pc \in PointsIn(bps) \/ Full(bps)
    BY <1>1, <1>2, PointsInTable
  <2> HIDE DEF w
  <2> QED BY <2>1, <2>2 DEF w
<1>3. CASE ~(CheckBreakpoint(bps, pc) \/ Full(bps))
  <2>1. k \in 1 .. MaxBreakpoints /\ bps[k] = Free
    BY <1>3, FirstSlotFacts DEF Full
  <2>2. w = [bps EXCEPT ![k] = pc]
    BY <1>3 DEF SetBreakpoint, Full
  <2> HIDE DEF w, k
  <2>3. bps \in [1 .. MaxBreakpoints -> Word \cup {Free}]
    BY DEF BpTables
  <2>4. /\ w \in [1 .. MaxBreakpoints -> Word \cup {Free}]
        /\ w[k] = pc /\ \A i \in 1 .. MaxBreakpoints : i # k => w[i] = bps[i]
    BY <2>1, <2>2, <2>3
  <2>5. \A i \in 1 .. MaxBreakpoints : bps[i] # pc
    BY <1>3 DEF CheckBreakpoint
  <2>6. w \in BpTables
    BY <2>4, <2>5 DEF BpTables
  <2>7. ASSUME NEW x PROVE x \in PointsIn(w) <=> x \in PointsIn(bps) \/ x = pc
    <3>1. x \in PointsIn(bps) <=> x # Free /\ \E i \in 1 .. MaxBreakpoints : bps[i] = x
      BY PointsInTable DEF CheckBreakpoint
    <3>2. x \in PointsIn(w) <=> x # Free /\ \E i \in 1 .. MaxBreakpoints : w[i] = x
      BY <2>6, PointsInTable DEF CheckBreakpoint
    <3> QED BY <1>1, <2>1, <2>4, <3>1, <3>2
  <2>8. PointsIn(w) = PointsIn(bps) \cup {pc}
    BY <2>7
  <2> QED BY <1>3, <2>6, <2>8 DEF w
<1> QED BY <1>2, <1>3

(* ant32_dbg_clear_b                                                       *)
LEMMA ClearBreakpointFacts ==
  ASSUME NEW bps \in BpTables, NEW pc \in Word
  PROVE  LET w == ClearBreakpoint(bps, pc)
         IN  w \in BpTables /\ PointsIn(w) = PointsIn(bps) \ {pc}
<1> DEFINE w == ClearBreakpoint(bps, pc)
           k == FirstSlot(bps, pc)
<1>1. pc # Free
  BY DEF Word, Free
<1>2. CASE ~CheckBreakpoint(bps, pc)
  <2>1. w = bps /\ pc \notin PointsIn(bps)
    BY <1>2, PointsInTable DEF ClearBreakpoint
  <2> HIDE DEF w
  <2> QED BY <2>1 DEF w
<1>3. CASE CheckBreakpoint(bps, pc)
  <2>1. k \in 1 .. MaxBreakpoints /\ bps[k] = pc
    BY <1>3, FirstSlotFacts
  <2>2. w = [bps EXCEPT ![k] = Free]
    BY <1>3 DEF ClearBreakpoint
  <2> HIDE DEF w, k
  <2>3. bps \in [1 .. MaxBreakpoints -> Word \cup {Free}]
    BY DEF BpTables
  <2>4. /\ w \in [1 .. MaxBreakpoints -> Word \cup {Free}]
        /\ w[k] = Free /\ \A i \in 1 .. MaxBreakpoints : i # k => w[i] = bps[i]
    BY <2>1, <2>2, <2>3
  <2>5. w \in BpTables
    BY <2>4 DEF BpTables
  <2>6. \A i \in 1 .. MaxBreakpoints : bps[i] = pc => i = k
    BY <1>1, <2>1 DEF BpTables
  <2>7. ASSUME NEW x PROVE x \in PointsIn(w) <=> x \in PointsIn(bps) /\ x # pc
    <3>1. x \in PointsIn(bps) <=> x # Free /\ \E i \in 1 .. MaxBreakpoints : bps[i] = x
      BY PointsInTable DEF CheckBreakpoint
    <3>2. x \in PointsIn(w) <=> x # Free /\ \E i \in 1 .. MaxBreakpoints : w[i] = x
      BY <2>5, PointsInTable DEF CheckBreakpoint
    <3> QED BY <1>1, <2>1, <2>4, <2>6, <3>1, <3>2
  <2>8. PointsIn(w) = PointsIn(bps) \ {pc}
    BY <2>7
  <2> QED BY <2>5, <2>8 DEF w
<1> QED BY <1>2, <1>3

(* Setting several, one after the other.                                   *)
LEMMA SetBreakpointChain ==
  ASSUME NEW b \in BpTables, NEW s \in Seq(Word)
  PROVE  \E c \in [0 .. Len(s) -> BpTables] :
           /\ c[0] = b
           /\ \A k \in 1 .. Len(s) : c[k] = SetBreakpoint(c[k - 1], s[k])
           /\ FoldLeft(SetBreakpoint, b, s) = c[Len(s)]
  <1> DEFINE T == BpTables
             n == Len(s)
             P(f) == f = [r \in SUBSET DOMAIN s |->
                            IF r = {} THEN b ELSE SetBreakpoint(f[r \ {Max(r)}], s[Max(r)])]
             h == CHOOSE f : P(f)
             F == [k \in 1 .. n |-> [t \in T |-> SetBreakpoint(t, s[k])]]
  <1>1. b \in T
    OBVIOUS
  <1>2. DOMAIN s = 1 .. n /\ \A k \in 1 .. n : s[k] \in Word
    OBVIOUS
  <1>3. n \in Nat
    OBVIOUS
  <1>4. FoldLeft(SetBreakpoint, b, s) = h[DOMAIN s]
    BY DEF FoldLeft, MapThenFoldSet
  <1>5. F \in Steps(n, T)
    BY <1>2, SetBreakpointFacts DEF Steps
  <1>6. \A k \in 1 .. n, t \in T : F[k][t] = SetBreakpoint(t, s[k])
    BY <1>2
  <1> HIDE DEF P, F, n, T
  <1>7. PICK g : g \in FoldFunctions(T, b, n, F)
    BY <1>1, <1>3, <1>5, FoldExists
  <1>8. /\ g \in [SUBSET (1 .. n) -> T]
        /\ \A r \in SUBSET (1 .. n) :
             g[r] = IF r = {} THEN b ELSE F[Max(r)][g[r \ {Max(r)}]]
    BY <1>7 DEF FoldFunctions
  <1>9. \A r \in SUBSET (1 .. n) : r # {} => Max(r) \in 1 .. n /\ r \ {Max(r)} \in SUBSET (1 .. n)
    BY <1>3, MaxMember
  <1>10. P(g)
    BY <1>2, <1>6, <1>8, <1>9 DEF P
  <1>11. P(h)
    BY <1>10
  <1> HIDE DEF h
  <1>12. h[{}] = b
    BY <1>11 DEF P
  <1>13. \A r \in SUBSET (1 .. n) :
           r # {} => h[r] = SetBreakpoint(h[r \ {Max(r)}], s[Max(r)])
    BY <1>2, <1>11 DEF P
  <1>14. TakesSteps(h, T, b, n, F)
    BY <1>6, <1>9, <1>12, <1>13 DEF TakesSteps
  <1>15. PICK c : c \in Chains(T, b, n, F) /\ c[n] = h[1 .. n]
    BY <1>1, <1>3, <1>5, <1>14, FoldChain
  <1>16. /\ c \in [0 .. n -> T] /\ c[0] = b
         /\ \A k \in 1 .. n : c[k] = F[k][c[k - 1]] /\ c[k - 1] \in T
    BY <1>3, <1>15 DEF Chains
  <1>17. \A k \in 1 .. n : c[k] = SetBreakpoint(c[k - 1], s[k])
    BY <1>6, <1>16
  <1> QED
    BY <1>2, <1>4, <1>15, <1>16, <1>17 DEF n, T

(* And clearing them.                                                      *)
LEMMA ClearBreakpointChain ==
  ASSUME NEW b \in BpTables, NEW s \in Seq(Word)
  PROVE  \E c \in [0 .. Len(s) -> BpTables] :
           /\ c[0] = b
           /\ \A k \in 1 .. Len(s) : c[k] = ClearBreakpoint(c[k - 1], s[k])
           /\ FoldLeft(ClearBreakpoint, b, s) = c[Len(s)]
  <1> DEFINE T == BpTables
             n == Len(s)
             P(f) == f = [r \in SUBSET DOMAIN s |->
                            IF r = {} THEN b ELSE ClearBreakpoint(f[r \ {Max(r)}], s[Max(r)])]
             h == CHOOSE f : P(f)
             F == [k \in 1 .. n |-> [t \in T |-> ClearBreakpoint(t, s[k])]]
  <1>1. b \in T
    OBVIOUS
  <1>2. DOMAIN s = 1 .. n /\ \A k \in 1 .. n : s[k] \in Word
    OBVIOUS
  <1>3. n \in Nat
    OBVIOUS
  <1>4. FoldLeft(ClearBreakpoint, b, s) = h[DOMAIN s]
    BY DEF FoldLeft, MapThenFoldSet
  <1>5. F \in Steps(n, T)
    BY <1>2, ClearBreakpointFacts DEF Steps
  <1>6. \A k \in 1 .. n, t \in T : F[k][t] = ClearBreakpoint(t, s[k])
    BY <1>2
  <1> HIDE DEF P, F, n, T
  <1>7. PICK g : g \in FoldFunctions(T, b, n, F)
    BY <1>1, <1>3, <1>5, FoldExists
  <1>8. /\ g \in [SUBSET (1 .. n) -> T]
        /\ \A r \in SUBSET (1 .. n) :
             g[r] = IF r = {} THEN b ELSE F[Max(r)][g[r \ {Max(r)}]]
    BY <1>7 DEF FoldFunctions
  <1>9. \A r \in SUBSET (1 .. n) : r # {} => Max(r) \in 1 .. n /\ r \ {Max(r)} \in SUBSET (1 .. n)
    BY <1>3, MaxMember
  <1>10. P(g)
    BY <1>2, <1>6, <1>8, <1>9 DEF P
  <1>11. P(h)
    BY <1>10
  <1> HIDE DEF h
  <1>12. h[{}] = b
    BY <1>11 DEF P
  <1>13. \A r \in SUBSET (1 .. n) :
           r # {} => h[r] = ClearBreakpoint(h[r \ {Max(r)}], s[Max(r)])
    BY <1>2, <1>11 DEF P
  <1>14. TakesSteps(h, T, b, n, F)
    BY <1>6, <1>9, <1>12, <1>13 DEF TakesSteps
  <1>15. PICK c : c \in Chains(T, b, n, F) /\ c[n] = h[1 .. n]
    BY <1>1, <1>3, <1>5, <1>14, FoldChain
  <1>16. /\ c \in [0 .. n -> T] /\ c[0] = b
         /\ \A k \in 1 .. n : c[k] = F[k][c[k - 1]] /\ c[k - 1] \in T
    BY <1>3, <1>15 DEF Chains
  <1>17. \A k \in 1 .. n : c[k] = ClearBreakpoint(c[k - 1], s[k])
    BY <1>6, <1>16
  <1> QED
    BY <1>2, <1>4, <1>15, <1>16, <1>17 DEF n, T

(* What a list of addresses leaves in the table, up to each place of it.   *)
LEMMA SetFold ==
  ASSUME NEW bps \in BpTables, NEW s \in Seq(Word)
  PROVE  LET w == FoldLeft(SetBreakpoint, bps, s)
         IN  /\ w \in BpTables
             /\ PointsIn(bps) \subseteq PointsIn(w)
             /\ PointsIn(w) \subseteq PointsIn(bps) \cup Range(s)
             /\ Range(s) \subseteq PointsIn(w) \/ Full(w)
<1> DEFINE n == Len(s)
<1>1. n \in Nat /\ Range(s) = {s[j] : j \in 1 .. n} /\ \A j \in 1 .. n : s[j] \in Word
  BY DEF Range
<1>2. PICK c \in [0 .. n -> BpTables] :
        /\ c[0] = bps
        /\ \A k \in 1 .. n : c[k] = SetBreakpoint(c[k - 1], s[k])
        /\ FoldLeft(SetBreakpoint, bps, s) = c[n]
  BY SetBreakpointChain
<1> DEFINE Far(k) == /\ PointsIn(bps) \subseteq PointsIn(c[k])
                     /\ PointsIn(c[k]) \subseteq PointsIn(bps) \cup Range(s)
                     /\ (\A j \in 1 .. k : s[j] \in PointsIn(c[k])) \/ Full(c[k])
           S == {k \in 0 .. n : Far(k)}
<1>3. 0 \in S
  <2>1. 1 .. 0 = {}
    OBVIOUS
  <2> QED BY <1>1, <1>2, <2>1
<1>4. ASSUME NEW k \in 1 .. n, k - 1 \in S PROVE k \in S
  <2>1. k - 1 \in 0 .. n /\ k \in 0 .. n /\ Far(k - 1)
    BY <1>1, <1>4
  <2> DEFINE d == c[k - 1]
             e == c[k]
             x == s[k]
  <2>2. d \in BpTables /\ x \in Word /\ e = SetBreakpoint(d, x) /\ x \in Range(s)
    BY <1>1, <1>2, <2>1
  <2>3. /\ PointsIn(e) \in {PointsIn(d), PointsIn(d) \cup {x}}
        /\ x \in PointsIn(e) \/ Full(e)
        /\ Full(d) => Full(e)
    BY <2>2, SetBreakpointFacts
  <2>4. (\A j \in 1 .. k - 1 : s[j] \in PointsIn(d)) \/ Full(d)
    BY <2>1
  <2>5. PointsIn(bps) \subseteq PointsIn(d) /\ PointsIn(d) \subseteq PointsIn(bps) \cup Range(s)
    BY <2>1
  <2>6. \A j \in 1 .. k : j \in 1 .. k - 1 \/ j = k
    OBVIOUS
  <2> HIDE DEF d, e
  <2>7. (\A j \in 1 .. k : s[j] \in PointsIn(e)) \/ Full(e)
    BY <2>3, <2>4, <2>6
  <2>8. PointsIn(bps) \subseteq PointsIn(e) /\ PointsIn(e) \subseteq PointsIn(bps) \cup Range(s)
    BY <2>2, <2>3, <2>5
  <2> QED BY <2>1, <2>7, <2>8 DEF e
<1> HIDE DEF S
<1>5. \A k \in 0 .. n : k \in S
  BY <1>1, <1>3, <1>4, BoundedInduction
<1>6. n \in S
  BY <1>1, <1>5
<1>7. Far(n) /\ c[n] \in BpTables
  BY <1>1, <1>2, <1>6 DEF S
<1> QED BY <1>1, <1>2, <1>7

LEMMA ClearFold ==
  ASSUME NEW bps \in BpTables, NEW s \in Seq(Word)
  PROVE  LET w == FoldLeft(ClearBreakpoint, bps, s)
         IN  w \in BpTables /\ PointsIn(w) = PointsIn(bps) \ Range(s)
<1> DEFINE n == Len(s)
<1>1. n \in Nat /\ Range(s) = {s[j] : j \in 1 .. n} /\ \A j \in 1 .. n : s[j] \in Word
  BY DEF Range
<1>2. PICK c \in [0 .. n -> BpTables] :
        /\ c[0] = bps
        /\ \A k \in 1 .. n : c[k] = ClearBreakpoint(c[k - 1], s[k])
        /\ FoldLeft(ClearBreakpoint, bps, s) = c[n]
  BY ClearBreakpointChain
<1> DEFINE Far(k) == PointsIn(c[k]) = PointsIn(bps) \ {s[j] : j \in 1 .. k}
           S == {k \in 0 .. n : Far(k)}
<1>3. 0 \in S
  <2>1. 1 .. 0 = {}
    OBVIOUS
  <2> QED BY <1>1, <1>2, <2>1
<1>4. ASSUME NEW k \in 1 .. n, k - 1 \in S PROVE k \in S
  <2>1. k - 1 \in 0 .. n /\ k \in 0 .. n /\ Far(k - 1)
    BY <1>1, <1>4
  <2>2. c[k - 1] \in BpTables /\ s[k] \in Word /\ c[k] = ClearBreakpoint(c[k - 1], s[k])
    BY <1>1, <1>2, <2>1
  <2>3. PointsIn(c[k]) = PointsIn(c[k - 1]) \ {s[k]}
    BY <2>2, ClearBreakpointFacts
  <2>4. \A j \in 1 .. k : j \in 1 .. k - 1 \/ j = k
    OBVIOUS
  <2>5. 1 .. k - 1 \subseteq 1 .. k /\ k \in 1 .. k
    OBVIOUS
  <2>6. Far(k)
    BY <2>1, <2>3, <2>4, <2>5
  <2> QED BY <2>1, <2>6
<1> HIDE DEF S
<1>5. \A k \in 0 .. n : k \in S
  BY <1>1, <1>3, <1>4, BoundedInduction
<1>6. n \in S
  BY <1>1, <1>5
<1>7. Far(n) /\ c[n] \in BpTables
  BY <1>1, <1>2, <1>6 DEF S
<1> QED BY <1>1, <1>2, <1>7

BpIInv == breakpoints \in BpTables

LEMMA InitPoints == DbgInit => BpIInv /\ Points!Init
<1> SUFFICES ASSUME DbgInit PROVE BpIInv /\ Points!Init
  OBVIOUS
<1>1. breakpoints = [i \in 1 .. MaxBreakpoints |-> Free] /\ stmnt = NoStmnt
  BY DEF DbgInit, NoBreakpoints
<1>2. breakpoints \in BpTables
  BY <1>1 DEF BpTables
<1>3. Range(breakpoints) \ {Free} = {}
  BY <1>1 DEF Range
<1> QED BY <1>1, <1>2, <1>3 DEF BpIInv, Points!Init, Points!NoStmnt, NoStmnt, Stmnt

(* A command of the user is one of the set's.                              *)
LEMMA SetPoints ==
  ASSUME BpIInv, SetBreakpoints
  PROVE  BpIInv' /\ Points!Next
<1>1. PICK args \in BpArgs : /\ breakpoints' = FoldLeft(SetBreakpoint, breakpoints, args)
                             /\ stmnt' = Stmnt("set", Range(args))
  BY DEF SetBreakpoints
<1>2. args \in Seq(Word)
  BY DebugAssumption
<1> DEFINE w == breakpoints'
           P == PointsIn(breakpoints)
           new == PointsIn(w) \ P
<1>3. /\ w \in BpTables /\ P \subseteq PointsIn(w) /\ PointsIn(w) \subseteq P \cup Range(args)
      /\ Range(args) \subseteq PointsIn(w) \/ Full(w)
  BY <1>1, <1>2, SetFold DEF BpIInv
<1> HIDE DEF P
<1>4. new \in SUBSET (Range(args) \ P) /\ PointsIn(w) = P \cup new
  BY <1>3
<1>5. new = Range(args) \ P \/ Cardinality(PointsIn(w)) = MaxBreakpoints
  BY <1>3, FullTable
<1>6. ASSUME NEW S PROVE Points!Cardinality(S) = Cardinality(S)
  BY DEF Points!Cardinality, Cardinality
<1> HIDE DEF new
<1>7. Points!Set(Range(args))
  BY <1>1, <1>4, <1>5, <1>6 DEF Points!Set, P, PointsIn, Stmnt
<1> QED BY <1>3, <1>7 DEF BpIInv, Points!Next

LEMMA ClearPoints ==
  ASSUME BpIInv, ClearBreakpoints
  PROVE  BpIInv' /\ Points!Next
<1>1. ASSUME NEW args \in BpArgs,
             breakpoints' = FoldLeft(ClearBreakpoint, breakpoints, args),
             stmnt' = Stmnt("clear", Range(args))
      PROVE  BpIInv' /\ Points!Next
  <2>1. args \in Seq(Word)
    BY DebugAssumption
  <2>2. breakpoints' \in BpTables /\ PointsIn(breakpoints') = PointsIn(breakpoints) \ Range(args)
    BY <1>1, <2>1, ClearFold DEF BpIInv
  <2>3. Points!Clear(Range(args))
    BY <1>1, <2>2 DEF Points!Clear, PointsIn, Stmnt
  <2> QED BY <2>2, <2>3 DEF BpIInv, Points!Next
<1>2. ASSUME breakpoints' = NoBreakpoints, stmnt' = Stmnt("clear all", {})
      PROVE  BpIInv' /\ Points!Next
  <2>1. breakpoints' \in BpTables /\ PointsIn(breakpoints') = {}
    BY <1>2 DEF NoBreakpoints, BpTables, PointsIn, Range
  <2>2. Points!ClearAll
    BY <1>2, <2>1 DEF Points!ClearAll, PointsIn, Stmnt
  <2> QED BY <2>1, <2>2 DEF BpIInv, Points!Next
<1> QED BY <1>1, <1>2 DEF ClearBreakpoints

LEMMA PointsNext ==
  BpIInv /\ [DbgNext]_dvars =>
    BpIInv' /\ [Points!Next]_<<Range(breakpoints) \ {Free}, stmnt>>
<1> SUFFICES ASSUME BpIInv, [DbgNext]_dvars
             PROVE  /\ BpIInv'
                    /\ Points!Next \/ UNCHANGED <<Range(breakpoints) \ {Free}, stmnt>>
  OBVIOUS
<1>1. CASE SetBreakpoints
  BY <1>1, SetPoints
<1>2. CASE ClearBreakpoints
  BY <1>2, ClearPoints
<1>3. CASE Show
  <2>1. stmnt' = NoStmnt /\ UNCHANGED breakpoints
    BY <1>3 DEF Show
  <2>2. Points!Done
    BY <2>1 DEF Points!Done, Points!NoStmnt, NoStmnt, Stmnt
  <2> QED BY <2>1, <2>2 DEF BpIInv, Points!Next
<1>4. ASSUME UNCHANGED <<breakpoints, stmnt>>
      PROVE  BpIInv' /\ UNCHANGED <<Range(breakpoints) \ {Free}, stmnt>>
  BY <1>4 DEF BpIInv
<1>5. CASE Run \/ Go \/ NextInst \/ Reload \/ Quit \/ Jump \/ Trace
  BY <1>4, <1>5 DEF Run, Go, Start, NextInst, Reload, Quit, Jump, Trace, ctl
<1>6. CASE InstMode \/ Look \/ Translate \/ Store \/ LoadConst
  BY <1>4, <1>6 DEF InstMode, Look, Translate, Store, LoadConst, ctl
<1>7. CASE TracePeek \/ ExecInstDbg \/ Signal \/ UNCHANGED dvars
  BY <1>4, <1>7 DEF TracePeek, ExecInstDbg, Signal, dvars, ctl
<1> QED BY <1>1, <1>2, <1>3, <1>5, <1>6, <1>7 DEF DbgNext, Commands

(* The slots of the table are a set of addresses, for every size of the    *)
(* table and every list of addresses a command can name: setting adds what *)
(* there is room for and is refused only when the table is full of other   *)
(* addresses, and what is cleared is gone (ant32_dbg_set_b and             *)
(* ant32_dbg_clear_b).                                                     *)
THEOREM BreakpointTableHolds == DbgSpec => BreakpointSet
<1>1. DbgInit => BpIInv /\ Points!Init
  BY InitPoints
<1>2. BpIInv /\ [DbgNext]_dvars => BpIInv'
  BY PointsNext
<1>3. BpIInv /\ [DbgNext]_dvars => [Points!Next]_<<Range(breakpoints) \ {Free}, stmnt>>
  BY PointsNext
<1> QED BY <1>1, <1>2, <1>3, PTL DEF DbgSpec, BreakpointSet, Points!Spec
=============================================================================
