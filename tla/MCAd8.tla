-------------------------------- MODULE MCAd8 --------------------------------
(* Four addresses, two watchpoints, one-bit bytes; arguments in and out of *)
(* range, and more than the table holds.                                   *)
EXTENDS Ad8Props

MCBpArgs == {<<2, 4>>, <<-1>>}
MCWpArgs == {<<1>>, <<2, 4, 0>>, <<0, 1>>}
MCImages == {[bytes |-> <<1>>, ok |-> TRUE], [bytes |-> <<0, 1, 1, 0, 0>>, ok |-> FALSE]}
=============================================================================
