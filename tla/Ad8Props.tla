------------------------------- MODULE Ad8Props -------------------------------
(* What the Ant-8 debugger promises to its user.                           *)
EXTENDS Ad8

(* What the table says: the watched addresses, and what was seen there.    *)
WatchedIn(wp) == {wp[i].addr : i \in DOMAIN wp}
Seen(wp)      == [a \in WatchedIn(wp) |-> wp[IndexOf(wp, a)].val]

(* The table of watchpoints, filled in order, searched from the front and  *)
(* closed up with its last entry, is a map from addresses to the values    *)
(* last seen: no address is there twice, clearing one leaves the others    *)
(* with their values, and what an instruction announces is a change of a   *)
(* watched byte since it was last seen.                                    *)
Map == INSTANCE AntWatches
         WITH Address  <- Addr,
              Capacity <- MaxWp,
              seen     <- Seen(watchpoints)

WatchTable == Map!Spec

(* What was seen is what memory holds, unless the user has changed it.     *)
InSync == \A i \in DOMAIN watchpoints : data[watchpoints[i].addr] = watchpoints[i].val

(* When an instruction changes a watched byte, the program stops there and *)
(* the change is announced, with its old and its new value, even if there  *)
(* is a breakpoint too.                                                    *)
ChangeStops ==
  [][executed' /\ InSync =>
       \A i \in DOMAIN watchpoints :
         LET a == watchpoints[i].addr IN
         data'[a] # data[a] =>
           /\ loc' = "prompt"
           /\ said' = {[addr |-> a, old |-> data[a], new |-> data'[a]]}]_vars

(* The program never goes on from a breakpoint, however it got there.      *)
BreakHonoured == loc = "run" /\ executed => pc \notin breakpoints
=============================================================================
