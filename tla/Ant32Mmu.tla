------------------------------ MODULE Ant32Mmu ------------------------------
(***************************************************************************)
(* The Ant-32 memory management unit (Lib32/ant32_mmu.c) and the single    *)
(* entry to the memory system, do_load_store (Lib32/ant32_exec.c).         *)
(*                                                                         *)
(* The C functions take the machine `ant' and modify it; here each of them *)
(* is an operator from a machine record m to a record that holds the       *)
(* machine it leaves and the values it returns.  Addresses are words of a  *)
(* scaled-down Ant-32: two segment bits, NPages pages of PageSize bytes in *)
(* each segment (2^18 and 4096 in the code).                               *)
(***************************************************************************)
EXTENDS Integers, FiniteSets

CONSTANTS
  PageSize,   \* bytes in a page
  NPages,     \* pages in a segment, and in physical memory
  NTlb,       \* entries of the TLB (params.n_tlb)
  Backed      \* physical pages that some memory block of ant->pmem covers

ASSUME MmuAssumption ==
  /\ PageSize \in Nat \ {0}
  /\ NPages \in Nat \ {0}
  /\ NTlb \in Nat \ {0}
  /\ Backed \subseteq 0 .. NPages - 1
  /\ NPages - 1 \in Backed      \* ant_create always adds a page of ROM at the top

SegSize  == NPages * PageSize
WordSize == 4 * SegSize
Word     == 0 .. WordSize - 1
Page     == 0 .. NPages - 1

Access  == {"READ", "WRITE", "EXEC"}
TlbAttr == Access \cup {"VALID", "DIRTY"}
TlbEntry == [vseg : 0 .. 3, vpn : Page, ppn : Page, attr : SUBSET TlbAttr]
TlbIndex == 0 .. NTlb - 1

(***************************************************************************)
(* ant32_vaddr_split: segment, page and offset of a virtual address.       *)
(* Segment 0 is the user's, 1 is mapped for the supervisor, 2 and 3 are    *)
(* the unmapped supervisor segments.                                       *)
(***************************************************************************)
Seg(v) == v \div SegSize
Vpn(v) == (v \div PageSize) % NPages
Off(v) == v % PageSize

UserSeg  == 0
Mapped   == {0, 1}

(* A cleared entry: ant32_tlb_init. *)
ZeroEntry == [vseg |-> 0, vpn |-> 0, ppn |-> 0, attr |-> {}]
TlbInit   == [i \in TlbIndex |-> ZeroEntry]

Hits(tlb, seg, vpn) ==
  {i \in TlbIndex : /\ "VALID" \in tlb[i].attr
                    /\ tlb[i].vpn = vpn
                    /\ tlb[i].vseg = seg}

(***************************************************************************)
(* ant32_find_tlb_entry.  The first loop finds the first hit, the second   *)
(* one looks for another above it.  The function leaves *fault alone on    *)
(* success and for the unmapped segments: UNSET stands for what the caller *)
(* had there.                                                              *)
(***************************************************************************)
\* Seeded fault: the second loop is missing, so the first hit wins.
FindTlbEntryFirstHit(tlb, seg, vpn) ==
  LET hits == Hits(tlb, seg, vpn)
  IN  IF seg \notin Mapped
      THEN [index |-> -1, fault |-> "UNSET"]
      ELSE IF hits = {}
      THEN [index |-> -1, fault |-> "TLB_MISS"]
      ELSE [index |-> CHOOSE i \in hits : \A j \in hits : i <= j, fault |-> "UNSET"]

FindTlbEntry(tlb, seg, vpn) ==
  LET hits == Hits(tlb, seg, vpn)
  IN  IF seg \notin Mapped
      THEN [index |-> -1, fault |-> "UNSET"]
      ELSE IF hits = {}
      THEN [index |-> -1, fault |-> "TLB_MISS"]
      ELSE IF \E i, j \in hits : i # j
      THEN [index |-> -1, fault |-> "TLB_MULTI"]
      ELSE [index |-> CHOOSE i \in hits : TRUE, fault |-> "UNSET"]

(***************************************************************************)
(* ant32_v2p, for a run mode, a set of access bits (the debugger's `v'     *)
(* command asks for none) and the update_e2 flag.  Register e2 latches the *)
(* address before any check, and only while exceptions are enabled.  A     *)
(* permitted write marks the entry dirty before physical memory is looked  *)
(* up.                                                                     *)
(***************************************************************************)
\* Seeded fault: the latch follows every address, whatever exc_disable says.
LatchE2Always(m, v, update_e2) ==
  IF update_e2 THEN [m EXCEPT !.e2 = v] ELSE m

LatchE2(m, v, update_e2) ==
  IF update_e2 /\ ~m.exc_disable THEN [m EXCEPT !.e2 = v] ELSE m

MarkDirty(m, i, access) ==
  IF access = {"WRITE"}
  THEN [m EXCEPT !.tlb[i].attr = @ \cup {"DIRTY"}]
  ELSE m

V2P(m, v, run_mode, access, update_e2) ==
  LET m1  == LatchE2(m, v, update_e2)
      hit == FindTlbEntry(m.tlb, Seg(v), Vpn(v))
      Fault(f) == [m |-> m1, fault |-> f, paddr |-> -1]
  IN  IF run_mode = "USER" /\ Seg(v) # UserSeg
      THEN Fault("PRIV_SEG")
      ELSE IF Seg(v) \notin Mapped
      THEN [m |-> m1, fault |-> "OK", paddr |-> v % SegSize]
      ELSE IF hit.index < 0
      THEN Fault(hit.fault)
      ELSE IF ~(access \subseteq m.tlb[hit.index].attr)
      THEN Fault("TLB_PROT")
      ELSE [m     |-> MarkDirty(m1, hit.index, access),
            fault |-> "OK",
            paddr |-> m.tlb[hit.index].ppn * PageSize + Off(v)]

(* ant32_p2vm: some memory block covers the physical address.  Every block *)
(* ant_create makes is readable and writable.                              *)
P2Vm(paddr) == paddr \div PageSize \in Backed
=============================================================================
