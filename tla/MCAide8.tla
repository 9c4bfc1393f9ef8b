------------------------------- MODULE MCAide8 -------------------------------
(***************************************************************************)
(* Small instances of AIDE-8: two instructions of memory, and programs     *)
(* that read, write themselves, loop, fault, halt and jump anywhere.       *)
(***************************************************************************)
EXTENDS Aide8Props

Op(op) == [op |-> op]
InNumber(reg) == [op |-> "in", reg |-> reg, format |-> "number"]
InAscii == [op |-> "in", reg |-> "other", format |-> "ascii"]

Text(first, second) == [a \in 0 .. 1 |-> IF a = 0 THEN first ELSE second]

MCPrograms ==
  {Text(InAscii, Op("jump")), Text(InNumber("other"), Op("store"))}
MCStored == {Op("hlt"), Op("load")}
MCLines  == {<<Newline>>, <<Digit, Newline>>}
MCBreaks == {0}

=============================================================================
