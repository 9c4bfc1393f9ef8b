----------------------------- MODULE AntConsole -----------------------------
(***************************************************************************)
(* The console input buffer, AntCommon/ant_console.c: an area of memory    *)
(* of which the bytes con_start .. con_end-1 are pending.  It is replaced  *)
(* by a new one, with the pending bytes moved to its front, when what      *)
(* arrives does not fit behind con_end.                                    *)
(***************************************************************************)
EXTENDS Integers, Sequences

CONSTANTS
  Char,    \* the characters a user can type
  Junk,    \* what memory holds before it is written
  Slack    \* the room a new buffer has to spare, 4096 in the code

ASSUME JunkAssumption  == Junk \notin Char
ASSUME SlackAssumption == Slack \in Nat

VARIABLES conInBuff, conInBuffLen, con_start, con_end

conVars == <<conInBuff, conInBuffLen, con_start, con_end>>

NoBuffer == [i \in {} |-> Junk]

ConsoleInit ==
  /\ conInBuff = NoBuffer
  /\ conInBuffLen = 0
  /\ con_start = 0
  /\ con_end = 0

Qlen == con_end - con_start

(* The bytes start .. end-1 of a buffer, as a sequence.                    *)
Bytes(buff, start, end) == [i \in 1 .. end - start |-> buff[start + i - 1]]
Pending == Bytes(conInBuff, con_start, con_end)

ConsoleReset ==
  /\ conInBuff' = NoBuffer
  /\ conInBuffLen' = 0
  /\ con_start' = 0
  /\ con_end' = 0

(* The buffer after str was copied behind the first `used` bytes of old.   *)
Written(old, used, str) ==
  [i \in DOMAIN old |-> IF i \in used .. used + Len(str) - 1
                        THEN str[i - used + 1] ELSE old[i]]

\* Seeded fault: the old buffer is copied from its front.
MovedFromFront(old, start, used, len) ==
  [i \in 0 .. len - 1 |-> IF i < used THEN old[i] ELSE Junk]

(* A new buffer of len bytes that starts with `used` bytes of old.         *)
Moved(old, start, used, len) ==
  [i \in 0 .. len - 1 |-> IF i < used THEN old[start + i] ELSE Junk]

\* Seeded fault: the room is one byte short.
AppendInPlaceOneOver(str) ==
  /\ con_end + Len(str) <= conInBuffLen + 1
  /\ conInBuff' = Written(conInBuff, con_end, str)
  /\ con_end' = con_end + Len(str)
  /\ UNCHANGED <<conInBuffLen, con_start>>

AppendInPlace(str) ==
  /\ con_end + Len(str) <= conInBuffLen
  /\ conInBuff' = Written(conInBuff, con_end, str)
  /\ con_end' = con_end + Len(str)
  /\ UNCHANGED <<conInBuffLen, con_start>>

Reallocate(str) ==
  /\ con_end + Len(str) > conInBuffLen
  /\ LET new_len == Qlen + Len(str) + Slack
     IN  /\ conInBuffLen' = new_len
         /\ conInBuff' = Written(Moved(conInBuff, con_start, Qlen, new_len), Qlen, str)
  /\ con_start' = 0
  /\ con_end' = Qlen + Len(str)

ConsoleEnqueue(str) == AppendInPlace(str) \/ Reallocate(str)

(* n calls of ant_console_dequeue, none of them on an empty buffer.        *)
ConsoleDequeue(n) ==
  /\ n \in 0 .. Qlen
  /\ con_start' = con_start + n
  /\ UNCHANGED <<conInBuff, conInBuffLen, con_end>>
=============================================================================
