---------------------------- MODULE MCAnt8Console ----------------------------
(***************************************************************************)
(* A small console: lines of no, one, two and three digits and the end of  *)
(* input; ^D in a line is an ordinary character.                           *)
(***************************************************************************)
EXTENDS Ant8Console

MCLines ==
  {<<Newline>>, <<Digit, Newline>>, <<Digit, Digit, Digit, Newline>>,
   <<Eot>>, <<Eot, Newline>>}
=============================================================================
