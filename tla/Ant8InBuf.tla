------------------------------ MODULE Ant8InBuf ------------------------------
(***************************************************************************)
(* ant8_do_in_buf, Ant8/Lib8/ant8_exec.c: what an `in` instruction takes   *)
(* from the pending console input, as a function of the pending characters *)
(* and of the last one that was read.  A value is only told zero or not.   *)
(***************************************************************************)
EXTENDS Integers, Sequences, FiniteSetsExt

CONSTANT Width  \* the digits a number has: two if hexadecimal, eight if binary

ASSUME WidthAssumption == Width \in Nat \ {0}

Digit   == "1"   \* a digit that is not zero
Newline == "\n"
Eot     == "^D"
Chars   == {Digit, Newline, Eot}

Formats == {"number", "ascii", "none"}

Newlines(s, n) == {i \in 1 .. n : s[i] = Newline}
FirstOr(S, default) == IF S = {} THEN default ELSE Min(S)

(* The digits are read up to a newline, which is read too.                 *)
DigitsRead(s) ==
  LET most == IF Len(s) < Width THEN Len(s) ELSE Width
  IN  FirstOr(Newlines(s, most), most)

\* Seeded fault: the rest of the line is left.
NumberReadDigits(s) == DigitsRead(s)

(* Then "extra characters" are read up to a newline, even if the digits    *)
(* ended with one.                                                         *)
NumberRead(s) ==
  FirstOr({i \in Newlines(s, Len(s)) : i > DigitsRead(s)}, Len(s))

AtEoi(s, prev) == s # <<>> /\ s[1] = Eot /\ prev = Newline

\* Seeded fault: the end of input is read and not only looked at.
TakenWithEoi(format, s, prev) ==
  IF AtEoi(s, prev) THEN 1
  ELSE CASE format = "number" -> NumberRead(s)
         [] format = "ascii"  -> IF s = <<>> THEN 0 ELSE 1
         [] OTHER             -> 0

(* How many characters the instruction reads.                              *)
Taken(format, s, prev) ==
  IF AtEoi(s, prev) THEN 0
  ELSE CASE format = "number" -> NumberRead(s)
         [] format = "ascii"  -> IF s = <<>> THEN 0 ELSE 1
         [] OTHER             -> 0

LastRead(format, s, prev) ==
  LET n == Taken(format, s, prev) IN IF n = 0 THEN prev ELSE s[n]

(* Whether the value it gets is not zero.                                  *)
NonZero(format, s, prev) ==
  /\ ~AtEoi(s, prev)
  /\ \/ format = "number" /\ s[1] = Digit
     \/ format = "ascii"
=============================================================================
