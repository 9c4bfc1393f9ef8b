------------------------------ MODULE AntSymtab ------------------------------
(***************************************************************************)
(* The symbol lists of the assemblers (AntCommon/ant_symtab.c over         *)
(* llist.c): linked lists, added to at the head and searched from it.  One *)
(* kind of list binds names to values, another says which bytes of memory  *)
(* wait for the value of a name.                                           *)
(***************************************************************************)
EXTENDS Integers, SequencesExt, FiniteSetsExt

(* Names; one of them stands for no label (a null pointer) and for nothing *)
(* left of a line.                                                         *)
NoName   == "-"
Spelling == STRING \cup {NoName}

(* A name and its value, or the place that waits for it and which byte of  *)
(* the value goes there.                                                   *)
Symbol(string, value, type) == [string |-> string, value |-> value, type |-> type]

(* No name is bound twice.                                                 *)
UniqueNames(list) == \A i, j \in DOMAIN list : list[i].string = list[j].string => i = j

SymbolLists ==
  {list \in Seq([string : Spelling, value : Int, type : Int]) : UniqueNames(list)}

Places(list, name)  == {i \in DOMAIN list : list[i].string = name}
Defined(list, name) == Places(list, name) # {}

(* find_symbol; a name that is not there leaves the value at 0.            *)
ValueOf(list, name) == IF Defined(list, name) THEN list[Min(Places(list, name))].value ELSE 0

\* Seeded fault: the list is not searched before the name is added.
CanAddAlways(list, name) == TRUE

CanAdd(list, name) == ~Defined(list, name)

Insert(list, symbol) == <<symbol>> \o list

AddSymbol(list, name, value) ==
  IF CanAdd(list, name) THEN Insert(list, Symbol(name, value, 0)) ELSE list

DelSymbol(list, name) ==
  IF Defined(list, name) THEN RemoveAt(list, Min(Places(list, name))) ELSE list

\* Seeded fault: the place and the byte are taken for each other.
AddUnresolvedSwapped(list, name, place, type) == Insert(list, Symbol(name, type, place))

AddUnresolved(list, name, place, type) == Insert(list, Symbol(name, place, type))
=============================================================================
