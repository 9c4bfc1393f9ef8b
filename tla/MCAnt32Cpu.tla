---------------------------- MODULE MCAnt32Cpu ----------------------------
(***************************************************************************)
(* Small instances of the Ant-32 processor.                                *)
(***************************************************************************)
EXTENDS Ant32CpuProps

(* One page of two words a segment: 0 and 4 are the user's, so that user   *)
(* code can loop over two instructions; 8 and 12 are mapped for the        *)
(* supervisor, 16 to 28 are unmapped.                                      *)
MCTimerValues   == {0, 16}
MCTimerHandlers == {16}
MCTimerVals     == {0, 2}
MCTimerFaults   == {"TRAP"}

(* Two pages of one word a segment, the first one not backed by memory: 0  *)
(* and 4 are the user's, 6 is misaligned, 20 is unmapped and backed, 16 is *)
(* unmapped and not backed.  The timer goes off after the next instruction. *)
MCMemValues   == {0, 6, 16, 20}
MCMemHandlers == {20}
MCMemTimer    == {1}
MCMemFaults   == {"ILL_INS", "REG_VIOL"}

Entry(seg, vpn, ppn, attr) == [vseg |-> seg, vpn |-> vpn, ppn |-> ppn, attr |-> attr]
MCUserPage == {Entry(0, 0, 0, {"VALID", "READ", "WRITE", "EXEC"})}
MCMemEntries == {Entry(0, 0, 1, {"VALID", "READ", "WRITE", "EXEC"}),
                 Entry(0, 1, 1, {"VALID", "READ", "EXEC"})}

MCStale == {"OK", "HALT"}
=============================================================================
