------------------------------- MODULE MCAide32 ------------------------------
(***************************************************************************)
(* Small instances of AIDE-32: three words of program that read, print,    *)
(* loop, halt, and jump to memory that cannot be read.                     *)
(***************************************************************************)
EXTENDS Aide32Props

MCPrograms == {<<"cin", "cout", "jump">>, <<"cout", "jump", "unmapped">>,
               <<"cout", "halt", "trap">>}
Text(words) == [a \in Addr |-> words[a + 1]]
MCTexts   == {Text(words) : words \in MCPrograms}
MCBreaks  == {0, 1}
MCWatches == {"cout"}
=============================================================================
