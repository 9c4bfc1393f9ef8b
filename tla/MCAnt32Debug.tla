---------------------------- MODULE MCAnt32Debug ----------------------------
(***************************************************************************)
(* Small instances of the Ant-32 debugger.  One page of one word a         *)
(* segment: 8 and 12 hold the program, and the handler is at 8; 0 is       *)
(* mapped only if the program has stored an entry for it, and then not     *)
(* executable; 4 never is.                                                 *)
(***************************************************************************)
EXTENDS Ant32DebugProps

MCDbgValues   == {0}
MCDbgHandlers == {8}
MCDbgStale    == {"OK"}
MCDbgPage     == {[vseg |-> 0, vpn |-> 0, ppn |-> 0, attr |-> {"VALID", "READ", "WRITE"}]}

(* Three addresses for two slots, one at a time and two at once; 12 is in  *)
(* the expansion of the source line at 8.                                  *)
MCBpArgs    == {<<8>>, <<12>>, <<0, 8>>}
MCSynthetic == {12}
=============================================================================
