----------------------------- MODULE AntWatches -----------------------------
(***************************************************************************)
(* What the watchpoints of the Ant-8 debugger promise: a map from watched  *)
(* addresses to the value last seen there, for up to Capacity addresses.   *)
(* After an instruction one address whose value is not the one seen is     *)
(* announced, if there is any, and is seen from then on.                   *)
(***************************************************************************)
EXTENDS Integers, FiniteSets, Functions

CONSTANTS
  Address,    \* the addresses of the memory
  Capacity    \* MAX_N_WP

VARIABLES
  data,       \* the memory
  seen,       \* the watched addresses, and what was seen there
  said        \* what the last instruction announced: at most one change

Watched == DOMAIN seen
Changed == {a \in Watched : data'[a] # seen[a]}

Init == seen = <<>> /\ said = {}

Watch(addrs) ==
  /\ said' = {} /\ UNCHANGED data
  /\ \E new \in SUBSET (addrs \ Watched) :
       /\ seen' = [a \in Watched \cup new |-> IF a \in Watched THEN seen[a] ELSE data[a]]
       /\ new = addrs \ Watched \/ Cardinality(DOMAIN seen') = Capacity

Unwatch(addrs) ==
  /\ said' = {} /\ UNCHANGED data
  /\ seen' = Restrict(seen, Watched \ addrs)

(* The program has executed an instruction.                                *)
Cycle ==
  \/ Changed = {} /\ said' = {} /\ UNCHANGED seen
  \/ \E a \in Changed :
       /\ said' = {[addr |-> a, old |-> seen[a], new |-> data'[a]]}
       /\ seen' = [seen EXCEPT ![a] = data'[a]]

(* The user has changed memory, or the program has been loaded again.      *)
Poke   == said' = {} /\ UNCHANGED seen
Reload == said' = {} /\ seen' = [a \in Watched |-> data'[a]]

Next ==
  \/ \E addrs \in SUBSET Address : Watch(addrs) \/ Unwatch(addrs)
  \/ Cycle
  \/ Poke
  \/ Reload

Spec == Init /\ [][Next]_<<data, seen, said>>
=============================================================================
