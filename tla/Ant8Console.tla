----------------------------- MODULE Ant8Console -----------------------------
(***************************************************************************)
(* The input of a program that runs under AIDE-8: the user types into the  *)
(* console buffer and the `in` instructions read it.  The modules          *)
(* AntConsole and Ant8InBuf composed.                                      *)
(***************************************************************************)
EXTENDS AntConsole, Ant8InBuf

CONSTANTS
  Lines,      \* what the user can type at once
  MaxPending  \* a bound on what is typed ahead

ASSUME CharAssumption  == Char = Chars
ASSUME LinesAssumption == Lines \subseteq Seq(Chars)

VARIABLES
  prev_char,  \* the last character an instruction read
  side        \* r1, that tells whether the end of input was met

consoleVars == <<conInBuff, conInBuffLen, con_start, con_end, prev_char, side>>

InputInit ==
  /\ ConsoleInit
  /\ prev_char = Newline
  /\ side = 0

Type(str) ==
  /\ Qlen + Len(str) <= MaxPending
  /\ ConsoleEnqueue(str)
  /\ UNCHANGED <<prev_char, side>>

(* An `in` reads only when something is pending; otherwise it stalls.      *)
In(format) ==
  /\ Qlen > 0
  /\ ConsoleDequeue(Taken(format, Pending, prev_char))
  /\ prev_char' = LastRead(format, Pending, prev_char)
  /\ side' = IF AtEoi(Pending, prev_char) THEN 1 ELSE 0

BufferInputFlush == ConsoleReset /\ UNCHANGED <<prev_char, side>>

InputNext ==
  \/ \E str \in Lines : Type(str)
  \/ \E format \in Formats : In(format)
  \/ BufferInputFlush

InputSpec == InputInit /\ [][InputNext]_consoleVars
-----------------------------------------------------------------------------
(* Types, and the two facts the code's pointer arithmetic relies on: the   *)
(* pending bytes lie inside the buffer and were all written.               *)
TypeOK ==
  /\ conInBuffLen \in Nat /\ con_start \in Nat /\ con_end \in Nat
  /\ conInBuff \in [0 .. conInBuffLen - 1 -> Char \cup {Junk}]
  /\ con_start <= con_end /\ con_end <= conInBuffLen
  /\ \A i \in con_start .. con_end - 1 : conInBuff[i] \in Char
  /\ prev_char \in Char
  /\ side \in {0, 1}

(* Whatever the buffer is moved, reallocated or thrown away for, what is   *)
(* pending changes as a queue: ant_console.c keeps what was typed in order *)
(* and loses, repeats and invents nothing.                                 *)
Queue == INSTANCE AntInputQueue WITH Inputs <- Lines, queue <- Pending

InputQueue == Queue!Spec

(* Once the end of the input is reached every `in` meets it, until the     *)
(* input is flushed: the character is looked at and left in the buffer,    *)
(* ant8_do_in_buf.                                                         *)
EoiLasts ==
  [][AtEoi(Pending, prev_char)
       => \/ AtEoi(Pending, prev_char)'
          \/ BufferInputFlush]_consoleVars

(* A number leaves the input at the start of a line, or leaves nothing: an *)
(* ^D typed next to it is the end of input and not a character.            *)
NumberEndsLine ==
  [][In("number") => prev_char' = Newline \/ Qlen' = 0]_consoleVars
=============================================================================
