------------------------------ MODULE Ant8Proofs ------------------------------
(***************************************************************************)
(* Proofs about the two parts of Ant-8 that are written in C and keep      *)
(* state: the debugger and the console buffer under AIDE-8.                *)
(***************************************************************************)
EXTENDS Ad8Props, Ant8Console, AntFolds, FiniteSetTheorems, SequenceTheorems

(***************************************************************************)
(* The debugger of Ant-8, for every memory, program and size of the table  *)
(* of watchpoints, and wherever SIGINT arrives: it stops at breakpoints,   *)
(* and the table of watchpoints is a map.                                  *)
(***************************************************************************)

(* The program never goes on from a breakpoint: the loop ends at one, a    *)
(* command sets one only while the program stands still, and what a        *)
(* command starts has executed nothing yet.                                *)
THEOREM BreaksHonoured == Spec => []BreakHonoured
  <1>1. Init => BreakHonoured
    BY DEF Init, BreakHonoured
  <1>2. BreakHonoured /\ [Next]_vars => BreakHonoured'
    <2> SUFFICES ASSUME BreakHonoured, [Next]_vars PROVE BreakHonoured'
      OBVIOUS
    <2>1. CASE Command \/ Quit \/ Refuse \/ NextInst \/ Run \/ Go
      BY <2>1 DEF Command, Quit, Refuse, NextInst, Run, Go, Start, BreakHonoured
    <2>2. CASE ExecInst
      <3>1. PICK o \in Outcomes : pc' = o.pc /\ Finish(o)
        BY <2>2 DEF ExecInst
      <3>2. loc' = "run" => pc' \notin breakpoints
        BY <3>1 DEF Finish, Back
      <3> QED
        BY <2>2, <3>2 DEF ExecInst, BreakHonoured
    <2>3. CASE Input
      <3>1. \/ pc' = NextPc /\ Finish(Outcome(NextPc, data, FALSE))
            \/ loc' = "hung"
        BY <2>3 DEF Input
      <3>2. loc' = "run" => pc' \notin breakpoints
        BY <3>1 DEF Finish, Back, Outcome
      <3> QED
        BY <2>3, <3>2 DEF Input, BreakHonoured
    <2>4. CASE Signal \/ UNCHANGED vars
      <3>1. UNCHANGED <<pc, loc, breakpoints, executed>>
        BY <2>4 DEF Signal, vars
      <3> QED
        BY <3>1 DEF BreakHonoured
    <2> QED
      BY <2>1, <2>2, <2>3, <2>4
      DEF Next, Commands, Break, ClearBp, Watch, ClearWp, Zero, Store, Jump, Trace, Reload
  <1> QED
    BY <1>1, <1>2, PTL DEF Spec
-----------------------------------------------------------------------------
(* The table of watchpoints.  That no address is there twice is what makes *)
(* it a map: without it, clearing one entry would leave another one.       *)
Entry == [addr : Addr, val : Byte]

Tables ==
  {wp \in Seq(Entry) :
     /\ Len(wp) <= MaxWp
     /\ \A i, j \in DOMAIN wp : wp[i].addr = wp[j].addr => i = j}

LEMMA TableFacts ==
  ASSUME NEW wp \in Tables
  PROVE  /\ wp \in Seq(Entry) /\ Len(wp) \in Nat /\ Len(wp) <= MaxWp
         /\ DOMAIN wp = 1 .. Len(wp)
         /\ \A i \in DOMAIN wp : wp[i] \in Entry
         /\ \A i, j \in DOMAIN wp : wp[i].addr = wp[j].addr => i = j
  BY DEF Tables

(* An entry is found by its address.                                       *)
LEMMA Lookup ==
  ASSUME NEW wp \in Tables, NEW i \in DOMAIN wp
  PROVE  /\ Watching(wp, wp[i].addr) /\ IndexOf(wp, wp[i].addr) = i
         /\ wp[i].addr \in WatchedIn(wp) /\ Seen(wp)[wp[i].addr] = wp[i].val
  <1>1. IndexOf(wp, wp[i].addr) = i
    BY DEF IndexOf, Tables
  <1> QED
    BY <1>1 DEF Watching, WatchedIn, Seen

(* What a table says is determined by its entries.                         *)
LEMMA SeenType ==
  ASSUME NEW wp \in Tables
  PROVE  WatchedIn(wp) \subseteq Addr /\ Seen(wp) \in [WatchedIn(wp) -> Byte]
  <1>1. \A i \in DOMAIN wp : wp[i].addr \in Addr /\ wp[i].val \in Byte
    BY TableFacts DEF Entry
  <1>2. ASSUME NEW a \in WatchedIn(wp) PROVE a \in Addr /\ wp[IndexOf(wp, a)].val \in Byte
    <2>1. PICK i \in DOMAIN wp : a = wp[i].addr
      BY DEF WatchedIn
    <2> QED
      BY <1>1, <2>1, Lookup
  <1> QED
    BY <1>2 DEF Seen

LEMMA SeenIs ==
  ASSUME NEW wp \in Tables, NEW a \in WatchedIn(wp)
  PROVE  \E i \in DOMAIN wp : wp[i].addr = a /\ Seen(wp)[a] = wp[i].val
  BY Lookup DEF WatchedIn

(* There are as many watched addresses as entries.                         *)
LEMMA TableSize ==
  ASSUME NEW wp \in Tables
  PROVE  Cardinality(WatchedIn(wp)) = Len(wp)
  <1> DEFINE f == [i \in 1 .. Len(wp) |-> wp[i].addr]
             W == WatchedIn(wp)
  <1>1. Len(wp) \in Nat /\ DOMAIN wp = 1 .. Len(wp)
    BY TableFacts
  <1>2. f \in Bijection(1 .. Len(wp), W)
    BY <1>1, TableFacts DEF Bijection, Injection, Surjection, IsInjective, WatchedIn
  <1>3. ExistsBijection(1 .. Len(wp), W)
    BY <1>2 DEF ExistsBijection
  <1> HIDE DEF f, W
  <1>4. IsFiniteSet(1 .. Len(wp)) /\ Cardinality(1 .. Len(wp)) = Len(wp)
    <2> DEFINE n == Len(wp)
    <2>1. n \in Nat /\ 1 \in Int /\ n \in Int
      BY <1>1
    <2> HIDE DEF n
    <2>2. IsFiniteSet(1 .. n) /\ Cardinality(1 .. n) = IF 1 > n THEN 0 ELSE n - 1 + 1
      BY <2>1, FS_Interval
    <2>3. Cardinality(1 .. n) = n
      BY <2>1, <2>2
    <2> QED
      BY <2>2, <2>3 DEF n
  <1> QED
    BY <1>3, <1>4, FS_Bijection DEF W

(* ant8_wp_set: an address that is not there gets an entry of its own with *)
(* what memory holds, if there is room.                                    *)
LEMMA SetFacts ==
  ASSUME NEW wp \in Tables, NEW a \in Int, data \in [Addr -> Byte]
  PROVE  LET w == SetArg(wp, a) IN
           /\ w \in Tables
           /\ \/ /\ w = wp
                 /\ a \in Addr => a \in WatchedIn(wp) \/ Len(wp) = MaxWp
              \/ /\ a \in Addr \ WatchedIn(wp) /\ Len(wp) < MaxWp
                 /\ WatchedIn(w) = WatchedIn(wp) \cup {a}
                 /\ Seen(w)[a] = data[a]
                 /\ \A x \in WatchedIn(wp) : Seen(w)[x] = Seen(wp)[x]
  <1> DEFINE e == [addr |-> a, val |-> data[a]]
             w == Append(wp, e)
             n == Len(wp)
  <1>1. MaxWp \in Nat /\ n \in Nat /\ n <= MaxWp /\ DOMAIN wp = 1 .. n
    BY TableFacts, Ad8Assumption
  <1>2. CASE a \in Addr /\ Len(wp) < MaxWp /\ ~Watching(wp, a)
    <2>1. e \in Entry /\ a \notin WatchedIn(wp)
      BY <1>2 DEF Entry, Watching, WatchedIn
    <2>2. /\ w \in Seq(Entry) /\ Len(w) = n + 1 /\ DOMAIN w = 1 .. n + 1
          /\ w[n + 1] = e /\ \A i \in 1 .. n : w[i] = wp[i]
      BY <1>1, <2>1, TableFacts
    <2> HIDE DEF w
    <2>3. ASSUME NEW i \in 1 .. n + 1, NEW j \in 1 .. n + 1, w[i].addr = w[j].addr
          PROVE  i = j
      <3>1. \A k \in 1 .. n : w[k].addr # a
        BY <1>1, <1>2, <2>2 DEF Watching
      <3>2. i = n + 1 <=> w[i].addr = a
        BY <1>1, <2>2, <3>1
      <3>3. j = n + 1 <=> w[j].addr = a
        BY <1>1, <2>2, <3>1
      <3> QED
        BY <1>1, <2>2, <2>3, <3>2, <3>3, TableFacts
    <2>4. w \in Tables
      BY <1>1, <1>2, <2>2, <2>3 DEF Tables
    <2>5. WatchedIn(w) = WatchedIn(wp) \cup {a}
      BY <1>1, <2>2 DEF WatchedIn
    <2>6. Seen(w)[a] = data[a]
      BY <1>1, <2>2, <2>4, Lookup
    <2>7. ASSUME NEW x \in WatchedIn(wp) PROVE Seen(w)[x] = Seen(wp)[x]
      <3>1. PICK i \in DOMAIN wp : wp[i].addr = x /\ Seen(wp)[x] = wp[i].val
        BY SeenIs
      <3>2. w[i] = wp[i] /\ i \in DOMAIN w
        BY <1>1, <2>2
      <3>3. Seen(w)[w[i].addr] = w[i].val
        BY <2>4, <3>2, Lookup
      <3> QED
        BY <3>1, <3>2, <3>3
    <2>8. SetArg(wp, a) = w
      BY <1>1, <1>2 DEF SetArg, WpSet, w
    <2> QED
      BY <1>2, <2>1, <2>4, <2>5, <2>6, <2>7, <2>8
  <1>3. CASE ~(a \in Addr /\ Len(wp) < MaxWp /\ ~Watching(wp, a))
    <2>1. a \notin Addr \/ Len(wp) >= MaxWp \/ Watching(wp, a)
      BY <1>1, <1>3
    <2>2. SetArg(wp, a) = wp
      BY <2>1 DEF SetArg, WpSet
    <2>3. Watching(wp, a) => a \in WatchedIn(wp)
      BY DEF Watching, WatchedIn
    <2>4. a \in Addr => a \in WatchedIn(wp) \/ Len(wp) = MaxWp
      <3>1. Len(wp) >= MaxWp => Len(wp) = MaxWp
        BY TableFacts, Ad8Assumption
      <3> QED
        BY <2>1, <2>3, <3>1
    <2>5. SetArg(wp, a) \in Tables
      BY <2>2
    <2> QED
      BY <2>2, <2>4, <2>5, Zenon
  <1> QED
    BY <1>2, <1>3

(* When the last of n places fills place k, each place but k goes on being *)
(* somewhere, once.                                                        *)
FillsHole(from, n, k) ==
  from \in [1 .. n -> 1 .. n] /\ from[k] = n /\ \A i \in 1 .. n : i # k => from[i] = i

LEMMA HoleFilled ==
  ASSUME NEW n \in Nat, NEW k \in 1 .. n, NEW from, FillsHole(from, n, k)
  PROVE  /\ \A i \in 1 .. n - 1 : from[i] # k
         /\ \A i, j \in 1 .. n - 1 : from[i] = from[j] => i = j
         /\ \A i \in 1 .. n : i # k => \E j \in 1 .. n - 1 : from[j] = i
  <1>0. from \in [1 .. n -> 1 .. n] /\ from[k] = n /\ \A i \in 1 .. n : i # k => from[i] = i
    BY DEF FillsHole
  <1>1. ASSUME NEW i \in 1 .. n - 1 PROVE from[i] # k
    BY <1>0
  <1>2. ASSUME NEW i \in 1 .. n - 1, NEW j \in 1 .. n - 1, from[i] = from[j] PROVE i = j
    <2>1. i \in 1 .. n /\ j \in 1 .. n /\ i # n /\ j # n
      OBVIOUS
    <2> QED
      BY <1>0, <1>2, <2>1
  <1>3. ASSUME NEW i \in 1 .. n, i # k PROVE \E j \in 1 .. n - 1 : from[j] = i
    <2>1. CASE i = n
      <3>1. k \in 1 .. n - 1
        BY <1>3, <2>1
      <3> QED
        BY <1>0, <2>1, <3>1
    <2>2. CASE i # n
      <3>1. i \in 1 .. n - 1
        BY <2>2
      <3> QED
        BY <1>0, <1>3, <3>1
    <2> QED
      BY <2>1, <2>2
  <1> QED
    BY <1>1, <1>2, <1>3

(* ant8_wp_clear: the entry goes, the others stay whole, though the last   *)
(* one moves.                                                              *)
LEMMA ClearFacts ==
  ASSUME NEW wp \in Tables, NEW a \in Int
  PROVE  LET w == ClearArg(wp, a) IN
           /\ w \in Tables
           /\ WatchedIn(w) = WatchedIn(wp) \ ({a} \cap Addr)
           /\ \A x \in WatchedIn(w) : Seen(w)[x] = Seen(wp)[x]
  <1> DEFINE n == Len(wp)
             k == IndexOf(wp, a)
             u == [wp EXCEPT ![k] = Last(wp)]
             w == Front(u)
             from == [i \in 1 .. n |-> IF i = k THEN n ELSE i]
  <1>1. /\ MaxWp \in Nat /\ n \in Nat /\ n <= MaxWp /\ DOMAIN wp = 1 .. n
        /\ wp \in Seq(Entry) /\ \A i \in 1 .. n : wp[i] \in Entry
    BY TableFacts, Ad8Assumption
  <1>2. CASE a \in Addr /\ Watching(wp, a)
    <2>1. k \in 1 .. n /\ wp[k].addr = a /\ n # 0
      BY <1>1, <1>2 DEF Watching, IndexOf
    <2>12. from \in [1 .. n -> 1 .. n] /\ from[k] = n /\ \A i \in 1 .. n : i # k => from[i] = i
      BY <1>1, <2>1
    <2>13. n \in 1 .. n
      BY <1>1, <2>1
    <2>2. /\ u \in Seq(Entry) /\ Len(u) = n
          /\ \A i \in 1 .. n : u[i] = wp[from[i]]
      BY <1>1, <2>1 DEF Last
    <2>11. ClearArg(wp, a) = w
      BY <1>2 DEF ClearArg, WpClear
    <2> HIDE DEF u, from, k
    <2>3. /\ w \in Seq(Entry) /\ Len(w) = n - 1 /\ DOMAIN w = 1 .. n - 1
          /\ \A i \in 1 .. n - 1 : w[i] = wp[from[i]]
      BY <1>1, <2>1, <2>2 DEF Front
    <2>7. /\ \A i \in 1 .. n - 1 : from[i] # k
          /\ \A i, j \in 1 .. n - 1 : from[i] = from[j] => i = j
          /\ \A i \in 1 .. n : i # k => \E j \in 1 .. n - 1 : from[j] = i
      <3>1. FillsHole(from, n, k)
        BY <2>12 DEF FillsHole
      <3>2. n \in Nat /\ k \in 1 .. n
        BY <1>1, <2>1
      <3> HIDE DEF n
      <3> QED
        BY <3>1, <3>2, HoleFilled
    <2>4. \A i \in 1 .. n - 1 : from[i] \in 1 .. n /\ from[i] # k
      BY <1>1, <2>7, <2>12
    <2> HIDE DEF w
    <2>8. w \in Tables
      <3>1. ASSUME NEW i \in 1 .. n - 1, NEW j \in 1 .. n - 1, w[i].addr = w[j].addr
            PROVE  i = j
        <4>1. w[i] = wp[from[i]] /\ w[j] = wp[from[j]]
          BY <2>3
        <4>2. from[i] \in DOMAIN wp /\ from[j] \in DOMAIN wp
          BY <1>1, <2>4
        <4>3. from[i] = from[j]
          BY <3>1, <4>1, <4>2, TableFacts
        <4> QED
          BY <2>7, <4>3
      <3>2. Len(w) <= MaxWp
        BY <1>1, <2>3
      <3> QED
        BY <2>3, <3>1, <3>2 DEF Tables
    <2>9. WatchedIn(w) = WatchedIn(wp) \ {a}
      <3>1. ASSUME NEW x \in WatchedIn(w) PROVE x \in WatchedIn(wp) /\ x # a
        <4>1. PICK i \in 1 .. n - 1 : x = wp[from[i]].addr
          BY <2>3 DEF WatchedIn
        <4>2. from[i] \in DOMAIN wp /\ from[i] # k /\ k \in DOMAIN wp
          BY <1>1, <2>1, <2>4
        <4> QED
          BY <2>1, <4>1, <4>2, TableFacts DEF WatchedIn
      <3>2. ASSUME NEW x \in WatchedIn(wp), x # a PROVE x \in WatchedIn(w)
        <4>1. PICK i \in 1 .. n : x = wp[i].addr /\ i # k
          BY <1>1, <2>1, <3>2 DEF WatchedIn
        <4>2. PICK j \in 1 .. n - 1 : from[j] = i
          BY <2>7, <4>1
        <4> QED
          BY <2>3, <4>1, <4>2 DEF WatchedIn
      <3> QED
        BY <3>1, <3>2
    <2>10. ASSUME NEW x \in WatchedIn(w) PROVE Seen(w)[x] = Seen(wp)[x]
      <3>1. PICK i \in 1 .. n - 1 : w[i].addr = x /\ Seen(w)[x] = w[i].val
        BY <2>3, <2>8, SeenIs
      <3> QED
        <4>1. from[i] \in DOMAIN wp /\ w[i] = wp[from[i]]
          BY <1>1, <2>3, <2>4
        <4> QED
          BY <3>1, <4>1, Lookup
    <2> QED
      BY <1>2, <2>11, <2>8, <2>9, <2>10
  <1>3. CASE ~(a \in Addr /\ Watching(wp, a))
    <2>1. ClearArg(wp, a) = wp
      BY <1>3 DEF ClearArg, WpClear
    <2>2. a \in WatchedIn(wp) => Watching(wp, a)
      BY DEF Watching, WatchedIn
    <2> QED
      BY <1>3, <2>1, <2>2
  <1> QED
    BY <1>2, <1>3
-----------------------------------------------------------------------------
(* `w' and `u' go through their arguments: the values the table takes on   *)
(* the way.                                                                *)
LEMMA SetArgChain ==
  ASSUME NEW b \in Tables, NEW s \in Seq(Int), data \in [Addr -> Byte]
  PROVE  \E c \in [0 .. Len(s) -> Tables] :
           /\ c[0] = b
           /\ \A k \in 1 .. Len(s) : c[k] = SetArg(c[k - 1], s[k])
           /\ FoldLeft(SetArg, b, s) = c[Len(s)]
  <1> DEFINE T == Tables
             n == Len(s)
             P(f) == f = [r \in SUBSET DOMAIN s |->
                            IF r = {} THEN b ELSE SetArg(f[r \ {Max(r)}], s[Max(r)])]
             h == CHOOSE f : P(f)
             F == [k \in 1 .. n |-> [t \in T |-> SetArg(t, s[k])]]
  <1>1. b \in T
    OBVIOUS
  <1>2. DOMAIN s = 1 .. n /\ \A k \in 1 .. n : s[k] \in Int
    OBVIOUS
  <1>3. n \in Nat
    OBVIOUS
  <1>4. FoldLeft(SetArg, b, s) = h[DOMAIN s]
    BY DEF FoldLeft, MapThenFoldSet
  <1>5. F \in Steps(n, T)
    BY <1>2, SetFacts DEF Steps
  <1>6. \A k \in 1 .. n, t \in T : F[k][t] = SetArg(t, s[k])
    BY <1>2
  <1> HIDE DEF P, F, n, T
  <1>7. PICK g : g \in FoldFunctions(T, b, n, F)
    BY <1>1, <1>3, <1>5, FoldExists
  <1>8. /\ g \in [SUBSET (1 .. n) -> T]
        /\ \A r \in SUBSET (1 .. n) :
             g[r] = IF r = {} THEN b ELSE F[Max(r)][g[r \ {Max(r)}]]
    BY <1>7 DEF FoldFunctions
  <1>9. \A r \in SUBSET (1 .. n) : r # {} => Max(r) \in 1 .. n /\ r \ {Max(r)} \in SUBSET (1 .. n)
    BY <1>3, MaxMember
  <1>10. P(g)
    BY <1>2, <1>6, <1>8, <1>9 DEF P
  <1>11. P(h)
    BY <1>10
  <1> HIDE DEF h
  <1>12. h[{}] = b
    BY <1>11 DEF P
  <1>13. \A r \in SUBSET (1 .. n) :
           r # {} => h[r] = SetArg(h[r \ {Max(r)}], s[Max(r)])
    BY <1>2, <1>11 DEF P
  <1>14. TakesSteps(h, T, b, n, F)
    BY <1>6, <1>9, <1>12, <1>13 DEF TakesSteps
  <1>15. PICK c : c \in Chains(T, b, n, F) /\ c[n] = h[1 .. n]
    BY <1>1, <1>3, <1>5, <1>14, FoldChain
  <1>16. /\ c \in [0 .. n -> T] /\ c[0] = b
         /\ \A k \in 1 .. n : c[k] = F[k][c[k - 1]] /\ c[k - 1] \in T
    BY <1>3, <1>15 DEF Chains
  <1>17. \A k \in 1 .. n : c[k] = SetArg(c[k - 1], s[k])
    BY <1>6, <1>16
  <1> QED
    BY <1>2, <1>4, <1>15, <1>16, <1>17 DEF n, T

LEMMA ClearArgChain ==
  ASSUME NEW b \in Tables, NEW s \in Seq(Int)
  PROVE  \E c \in [0 .. Len(s) -> Tables] :
           /\ c[0] = b
           /\ \A k \in 1 .. Len(s) : c[k] = ClearArg(c[k - 1], s[k])
           /\ FoldLeft(ClearArg, b, s) = c[Len(s)]
  <1> DEFINE T == Tables
             n == Len(s)
             P(f) == f = [r \in SUBSET DOMAIN s |->
                            IF r = {} THEN b ELSE ClearArg(f[r \ {Max(r)}], s[Max(r)])]
             h == CHOOSE f : P(f)
             F == [k \in 1 .. n |-> [t \in T |-> ClearArg(t, s[k])]]
  <1>1. b \in T
    OBVIOUS
  <1>2. DOMAIN s = 1 .. n /\ \A k \in 1 .. n : s[k] \in Int
    OBVIOUS
  <1>3. n \in Nat
    OBVIOUS
  <1>4. FoldLeft(ClearArg, b, s) = h[DOMAIN s]
    BY DEF FoldLeft, MapThenFoldSet
  <1>5. F \in Steps(n, T)
    BY <1>2, ClearFacts DEF Steps
  <1>6. \A k \in 1 .. n, t \in T : F[k][t] = ClearArg(t, s[k])
    BY <1>2
  <1> HIDE DEF P, F, n, T
  <1>7. PICK g : g \in FoldFunctions(T, b, n, F)
    BY <1>1, <1>3, <1>5, FoldExists
  <1>8. /\ g \in [SUBSET (1 .. n) -> T]
        /\ \A r \in SUBSET (1 .. n) :
             g[r] = IF r = {} THEN b ELSE F[Max(r)][g[r \ {Max(r)}]]
    BY <1>7 DEF FoldFunctions
  <1>9. \A r \in SUBSET (1 .. n) : r # {} => Max(r) \in 1 .. n /\ r \ {Max(r)} \in SUBSET (1 .. n)
    BY <1>3, MaxMember
  <1>10. P(g)
    BY <1>2, <1>6, <1>8, <1>9 DEF P
  <1>11. P(h)
    BY <1>10
  <1> HIDE DEF h
  <1>12. h[{}] = b
    BY <1>11 DEF P
  <1>13. \A r \in SUBSET (1 .. n) :
           r # {} => h[r] = ClearArg(h[r \ {Max(r)}], s[Max(r)])
    BY <1>2, <1>11 DEF P
  <1>14. TakesSteps(h, T, b, n, F)
    BY <1>6, <1>9, <1>12, <1>13 DEF TakesSteps
  <1>15. PICK c : c \in Chains(T, b, n, F) /\ c[n] = h[1 .. n]
    BY <1>1, <1>3, <1>5, <1>14, FoldChain
  <1>16. /\ c \in [0 .. n -> T] /\ c[0] = b
         /\ \A k \in 1 .. n : c[k] = F[k][c[k - 1]] /\ c[k - 1] \in T
    BY <1>3, <1>15 DEF Chains
  <1>17. \A k \in 1 .. n : c[k] = ClearArg(c[k - 1], s[k])
    BY <1>6, <1>16
  <1> QED
    BY <1>2, <1>4, <1>15, <1>16, <1>17 DEF n, T

(* The arguments up to the k-th.                                           *)
Done(s, k) == {s[j] : j \in 1 .. k} \cap Addr

LEMMA DoneFacts ==
  ASSUME NEW s \in Seq(Int)
  PROVE  /\ Done(s, 0) = {}
         /\ \A k \in 1 .. Len(s) : Done(s, k) = Done(s, k - 1) \cup ({s[k]} \cap Addr)
         /\ Done(s, Len(s)) = InRange(s)
  <1>1. 1 .. 0 = {}
    OBVIOUS
  <1>2. Done(s, 0) = {}
    BY <1>1 DEF Done
  <1>3. ASSUME NEW k \in 1 .. Len(s)
        PROVE  Done(s, k) = Done(s, k - 1) \cup ({s[k]} \cap Addr)
    <2>1. 1 .. k = (1 .. (k - 1)) \cup {k}
      OBVIOUS
    <2> QED
      BY <2>1 DEF Done
  <1>4. DOMAIN s = 1 .. Len(s)
    OBVIOUS
  <1> QED
    BY <1>2, <1>3, <1>4 DEF Done, InRange, ToSet

(* w is wp after the addresses X have been watched.                        *)
AfterWatch(w, wp, X) ==
  /\ w \in Tables
  /\ WatchedIn(wp) \subseteq WatchedIn(w) /\ WatchedIn(w) \subseteq WatchedIn(wp) \cup X
  /\ X \subseteq WatchedIn(w) \/ Len(w) = MaxWp
  /\ \A x \in WatchedIn(w) :
       Seen(w)[x] = IF x \in WatchedIn(wp) THEN Seen(wp)[x] ELSE data[x]

LEMMA WatchStep ==
  ASSUME NEW wp, NEW X, NEW w, AfterWatch(w, wp, X), NEW a \in Int, data \in [Addr -> Byte]
  PROVE  AfterWatch(SetArg(w, a), wp, X \cup ({a} \cap Addr))
  <1> DEFINE u == SetArg(w, a)
             Y == X \cup ({a} \cap Addr)
  <1> SUFFICES AfterWatch(u, wp, Y)
    OBVIOUS
  <1>0. w \in Tables
    BY DEF AfterWatch
  <1>1. /\ u \in Tables
        /\ \/ /\ u = w
              /\ a \in Addr => a \in WatchedIn(w) \/ Len(w) = MaxWp
           \/ /\ a \in Addr \ WatchedIn(w) /\ Len(w) < MaxWp
              /\ WatchedIn(u) = WatchedIn(w) \cup {a}
              /\ Seen(u)[a] = data[a]
              /\ \A x \in WatchedIn(w) : Seen(u)[x] = Seen(w)[x]
    BY <1>0, SetFacts
  <1> HIDE DEF u
  <1>2. CASE u = w /\ (a \in Addr => a \in WatchedIn(w) \/ Len(w) = MaxWp)
    <2>1. X \subseteq Y /\ Y \ X \subseteq {a} \cap Addr
      OBVIOUS
    <2>2. Y \subseteq WatchedIn(w) \/ Len(w) = MaxWp
      BY <1>2 DEF AfterWatch
    <2>3. AfterWatch(w, wp, Y)
      BY <2>1, <2>2 DEF AfterWatch
    <2> QED
      BY <1>2, <2>3
  <1>3. CASE /\ a \in Addr \ WatchedIn(w) /\ Len(w) < MaxWp
             /\ WatchedIn(u) = WatchedIn(w) \cup {a}
             /\ Seen(u)[a] = data[a]
             /\ \A x \in WatchedIn(w) : Seen(u)[x] = Seen(w)[x]
    <2>1. X \subseteq WatchedIn(w)
      <3>1. Len(w) # MaxWp
        BY <1>0, <1>3, TableFacts, Ad8Assumption
      <3> QED
        BY <3>1 DEF AfterWatch
    <2>2. a \notin WatchedIn(wp)
      BY <1>3 DEF AfterWatch
    <2>3. ASSUME NEW x \in WatchedIn(u)
          PROVE  Seen(u)[x] = IF x \in WatchedIn(wp) THEN Seen(wp)[x] ELSE data[x]
      BY <1>3, <2>2 DEF AfterWatch
    <2>4. WatchedIn(wp) \subseteq WatchedIn(w) /\ WatchedIn(w) \subseteq WatchedIn(wp) \cup X
      BY DEF AfterWatch
    <2>5. /\ WatchedIn(wp) \subseteq WatchedIn(u) /\ WatchedIn(u) \subseteq WatchedIn(wp) \cup Y
          /\ Y \subseteq WatchedIn(u)
      BY <1>3, <2>1, <2>4
    <2> HIDE DEF Y
    <2>6. u \in Tables
      BY <1>1
    <2> QED
      BY <2>3, <2>5, <2>6 DEF AfterWatch
  <1> QED
    BY <1>1, <1>2, <1>3

LEMMA WatchFold ==
  ASSUME NEW wp \in Tables, NEW s \in Seq(Int), data \in [Addr -> Byte]
  PROVE  AfterWatch(FoldLeft(SetArg, wp, s), wp, InRange(s))
  <1>2. PICK c \in [0 .. Len(s) -> Tables] :
           /\ c[0] = wp
           /\ \A k \in 1 .. Len(s) : c[k] = SetArg(c[k - 1], s[k])
           /\ FoldLeft(SetArg, wp, s) = c[Len(s)]
    BY SetArgChain
  <1> DEFINE S == {k \in 0 .. Len(s) : AfterWatch(c[k], wp, Done(s, k))}
  <1>3. 0 \in S
    BY <1>2, DoneFacts, SeenType DEF AfterWatch
  <1>4. ASSUME NEW k \in 1 .. Len(s), k - 1 \in S PROVE k \in S
    <2>1. s[k] \in Int /\ AfterWatch(c[k - 1], wp, Done(s, k - 1))
      BY <1>4
    <2>2. AfterWatch(SetArg(c[k - 1], s[k]), wp, Done(s, k - 1) \cup ({s[k]} \cap Addr))
      BY <2>1, WatchStep
    <2>3. Done(s, k) = Done(s, k - 1) \cup ({s[k]} \cap Addr)
      BY DoneFacts
    <2>4. c[k] = SetArg(c[k - 1], s[k])
      BY <1>2
    <2>5. AfterWatch(c[k], wp, Done(s, k))
      BY <2>2, <2>3, <2>4
    <2> QED
      BY <2>5
  <1>5. Len(s) \in Nat
    OBVIOUS
  <1> HIDE DEF S
  <1>6. \A k \in 0 .. Len(s) : k \in S
    BY <1>3, <1>4, <1>5, BoundedInduction
  <1>7. AfterWatch(c[Len(s)], wp, Done(s, Len(s)))
    BY <1>5, <1>6 DEF S
  <1> QED
    BY <1>2, <1>7, DoneFacts

(* w is wp after the addresses X have been forgotten.                      *)
AfterUnwatch(w, wp, X) ==
  /\ w \in Tables
  /\ WatchedIn(w) = WatchedIn(wp) \ X
  /\ \A x \in WatchedIn(w) : Seen(w)[x] = Seen(wp)[x]

LEMMA UnwatchFold ==
  ASSUME NEW wp \in Tables, NEW s \in Seq(Int)
  PROVE  AfterUnwatch(FoldLeft(ClearArg, wp, s), wp, InRange(s))
  <1>2. PICK c \in [0 .. Len(s) -> Tables] :
           /\ c[0] = wp
           /\ \A k \in 1 .. Len(s) : c[k] = ClearArg(c[k - 1], s[k])
           /\ FoldLeft(ClearArg, wp, s) = c[Len(s)]
    BY ClearArgChain
  <1> DEFINE S == {k \in 0 .. Len(s) : AfterUnwatch(c[k], wp, Done(s, k))}
  <1>3. 0 \in S
    BY <1>2, DoneFacts DEF AfterUnwatch
  <1>4. ASSUME NEW k \in 1 .. Len(s), k - 1 \in S PROVE k \in S
    <2> DEFINE t == c[k - 1]
               u == ClearArg(t, s[k])
    <2>1. s[k] \in Int /\ AfterUnwatch(t, wp, Done(s, k - 1))
      BY <1>4
    <2>2. /\ u \in Tables
          /\ WatchedIn(u) = WatchedIn(t) \ ({s[k]} \cap Addr)
          /\ \A x \in WatchedIn(u) : Seen(u)[x] = Seen(t)[x]
      BY <2>1, ClearFacts DEF AfterUnwatch
    <2> HIDE DEF u, t
    <2>3. AfterUnwatch(u, wp, Done(s, k - 1) \cup ({s[k]} \cap Addr))
      BY <2>1, <2>2 DEF AfterUnwatch
    <2> QED
      BY <1>2, <2>3, DoneFacts DEF u, t
  <1>5. Len(s) \in Nat
    OBVIOUS
  <1> HIDE DEF S
  <1>6. \A k \in 0 .. Len(s) : k \in S
    BY <1>3, <1>4, <1>5, BoundedInduction
  <1>7. AfterUnwatch(c[Len(s)], wp, Done(s, Len(s)))
    BY <1>5, <1>6 DEF S
  <1> QED
    BY <1>2, <1>7, DoneFacts

-----------------------------------------------------------------------------
(* ant8_wp_cycle and ant8_wp_update change the values of a table only.     *)
LEMMA Revalued ==
  ASSUME NEW wp \in Tables, NEW w,
         w = [i \in DOMAIN wp |-> w[i]],
         \A i \in DOMAIN wp : w[i] \in Entry /\ w[i].addr = wp[i].addr
  PROVE  /\ w \in Tables /\ WatchedIn(w) = WatchedIn(wp)
         /\ \A i \in DOMAIN wp : Seen(w)[wp[i].addr] = w[i].val
  <1> DEFINE n == Len(wp)
  <1>1. n \in Nat /\ DOMAIN wp = 1 .. n /\ n <= MaxWp
    BY TableFacts
  <1>2. w \in Seq(Entry) /\ Len(w) = n /\ DOMAIN w = DOMAIN wp
    BY <1>1
  <1>3. w \in Tables
    BY <1>1, <1>2, TableFacts DEF Tables
  <1>4. WatchedIn(w) = WatchedIn(wp)
    BY <1>2 DEF WatchedIn
  <1> QED
    BY <1>2, <1>3, <1>4, Lookup

(* The watchpoint that is announced, if there is one.                      *)
LEMMA FirstFacts ==
  ASSUME NEW wp \in Tables, NEW mem
  PROVE  \/ Different(wp, mem) = {} /\ FirstDifferent(wp, mem) = {}
         \/ \E i \in Different(wp, mem) : FirstDifferent(wp, mem) = {i}
  <1> DEFINE D == Different(wp, mem)
  <1>1. Len(wp) \in Nat /\ D \in SUBSET (1 .. Len(wp))
    BY TableFacts DEF Different
  <1> HIDE DEF D
  <1>2. CASE D = {}
    BY <1>2 DEF FirstDifferent, D
  <1>3. CASE D # {}
    <2>1. PICK i \in D : \A j \in D : i <= j
      BY <1>1, <1>3, LeastMember
    <2>2. \A k \in D : (\A j \in D : k <= j) => k = i
      BY <1>1, <2>1
    <2>3. {k \in D : \A j \in D : k <= j} = {i}
      BY <2>1, <2>2
    <2> QED
      BY <2>1, <2>3 DEF FirstDifferent, D
  <1> QED
    BY <1>2, <1>3

LEMMA CycleFacts ==
  ASSUME NEW wp \in Tables, NEW mem \in [Addr -> Byte]
  PROVE  LET w == WpCycle(wp, mem) IN
           /\ w \in Tables
           /\ \/ /\ w = wp /\ Announced(wp, mem) = {}
                 /\ \A i \in DOMAIN wp : mem[wp[i].addr] = wp[i].val
              \/ \E i \in DOMAIN wp :
                   /\ mem[wp[i].addr] # wp[i].val
                   /\ Announced(wp, mem) =
                        {[addr |-> wp[i].addr, old |-> wp[i].val, new |-> mem[wp[i].addr]]}
                   /\ WatchedIn(w) = WatchedIn(wp)
                   /\ \A j \in DOMAIN wp :
                        Seen(w)[wp[j].addr] = IF j = i THEN mem[wp[i].addr] ELSE wp[j].val
  <1> DEFINE w == WpCycle(wp, mem)
             Gives(i) == [addr |-> wp[i].addr, old |-> wp[i].val, new |-> mem[wp[i].addr]]
  <1>0. wp = [j \in DOMAIN wp |-> wp[j]]
    BY TableFacts
  <1>1. CASE Different(wp, mem) = {} /\ FirstDifferent(wp, mem) = {}
    <2>1. w = wp
      BY <1>0, <1>1 DEF WpCycle
    <2>2. Announced(wp, mem) = {}
      BY <1>1 DEF Announced
    <2>3. \A i \in DOMAIN wp : mem[wp[i].addr] = wp[i].val
      BY <1>1 DEF Different
    <2> QED
      BY <2>1, <2>2, <2>3
  <1>2. ASSUME NEW i \in Different(wp, mem), FirstDifferent(wp, mem) = {i}
        PROVE  /\ w \in Tables
               /\ i \in DOMAIN wp /\ mem[wp[i].addr] # wp[i].val
               /\ Announced(wp, mem) = {Gives(i)}
               /\ WatchedIn(w) = WatchedIn(wp)
               /\ \A j \in DOMAIN wp :
                    Seen(w)[wp[j].addr] = IF j = i THEN mem[wp[i].addr] ELSE wp[j].val
    <2>1. i \in DOMAIN wp /\ mem[wp[i].addr] # wp[i].val
      BY DEF Different
    <2>2. Announced(wp, mem) = {Gives(i)}
      BY <1>2 DEF Announced
    <2>3. w = [j \in DOMAIN wp |-> w[j]]
      BY DEF WpCycle
    <2>4. ASSUME NEW j \in DOMAIN wp
          PROVE  /\ w[j] \in Entry /\ w[j].addr = wp[j].addr
                 /\ w[j].val = IF j = i THEN mem[wp[i].addr] ELSE wp[j].val
      <3>1. wp[j] \in Entry /\ mem[wp[j].addr] \in Byte
        BY TableFacts DEF Entry
      <3>2. w[j] = IF j = i THEN [wp[j] EXCEPT !.val = mem[wp[j].addr]] ELSE wp[j]
        BY <1>2 DEF WpCycle
      <3> HIDE DEF w
      <3> QED
        BY <3>1, <3>2 DEF Entry
    <2> HIDE DEF w, Gives
    <2>5. /\ w \in Tables /\ WatchedIn(w) = WatchedIn(wp)
          /\ \A j \in DOMAIN wp : Seen(w)[wp[j].addr] = w[j].val
      BY <2>3, <2>4, Revalued
    <2> QED
      BY <2>1, <2>2, <2>4, <2>5
  <1> HIDE DEF w
  <1>3. ASSUME NEW i \in Different(wp, mem), FirstDifferent(wp, mem) = {i}
        PROVE  /\ w \in Tables
               /\ \E k \in DOMAIN wp :
                   /\ mem[wp[k].addr] # wp[k].val
                   /\ Announced(wp, mem) = {Gives(k)}
                   /\ WatchedIn(w) = WatchedIn(wp)
                   /\ \A j \in DOMAIN wp :
                        Seen(w)[wp[j].addr] = IF j = k THEN mem[wp[k].addr] ELSE wp[j].val
    <2> HIDE DEF Gives
    <2>1. i \in DOMAIN wp
      BY <1>2, <1>3
    <2> QED
      BY <1>2, <1>3, <2>1
  <1> QED
    BY <1>1, <1>3, FirstFacts DEF w

(* What ant_exec_inst_dbg does to the watchpoints is what they promise.    *)
LEMMA CycleRefines ==
  ASSUME watchpoints \in Tables, data' \in [Addr -> Byte],
         watchpoints' = WpCycle(watchpoints, data'), said' = Announced(watchpoints, data')
  PROVE  watchpoints' \in Tables /\ Map!Cycle
  <1> DEFINE wp == watchpoints
             w  == watchpoints'
             sn == Seen(wp)
  <1>1. /\ w \in Tables
        /\ \/ /\ w = wp /\ said' = {}
              /\ \A i \in DOMAIN wp : data'[wp[i].addr] = wp[i].val
           \/ \E i \in DOMAIN wp :
                /\ data'[wp[i].addr] # wp[i].val
                /\ said' =
                     {[addr |-> wp[i].addr, old |-> wp[i].val, new |-> data'[wp[i].addr]]}
                /\ WatchedIn(w) = WatchedIn(wp)
                /\ \A j \in DOMAIN wp :
                     Seen(w)[wp[j].addr] = IF j = i THEN data'[wp[i].addr] ELSE wp[j].val
    BY CycleFacts
  <1>2. \A a \in WatchedIn(wp) : \E i \in DOMAIN wp : wp[i].addr = a /\ Seen(wp)[a] = wp[i].val
    BY SeenIs
  <1>3. DOMAIN Seen(wp) = WatchedIn(wp)
    BY DEF Seen
  <1>4. CASE /\ w = wp /\ said' = {}
             /\ \A i \in DOMAIN wp : data'[wp[i].addr] = wp[i].val
    <2>1. Map!Changed = {}
      BY <1>2, <1>3, <1>4 DEF Map!Changed, Map!Watched
    <2>2. Seen(watchpoints)' = Seen(watchpoints)
      BY <1>4
    <2> QED
      BY <1>1, <1>4, <2>1, <2>2 DEF Map!Cycle
  <1>5. ASSUME NEW i \in DOMAIN wp,
                data'[wp[i].addr] # wp[i].val,
                said' =
                     {[addr |-> wp[i].addr, old |-> wp[i].val, new |-> data'[wp[i].addr]]},
                WatchedIn(w) = WatchedIn(wp),
                \A j \in DOMAIN wp :
                     Seen(w)[wp[j].addr] = IF j = i THEN data'[wp[i].addr] ELSE wp[j].val
        PROVE  Map!Cycle
    <2> DEFINE a == wp[i].addr
    <2>1. a \in WatchedIn(wp) /\ Seen(wp)[a] = wp[i].val
      BY Lookup
    <2>2. a \in Map!Changed
      BY <1>3, <1>5, <2>1 DEF Map!Changed, Map!Watched
    <2>3. said' = {[addr |-> a, old |-> Seen(wp)[a], new |-> data'[a]]}
      BY <1>5, <2>1
    <2>4. ASSUME NEW x \in WatchedIn(wp)
          PROVE  Seen(w)[x] = IF x = a THEN data'[a] ELSE Seen(wp)[x]
      <3>1. PICK j \in DOMAIN wp : wp[j].addr = x /\ Seen(wp)[x] = wp[j].val
        BY <1>2
      <3>2. j = i <=> x = a
        BY <3>1, TableFacts
      <3>3. Seen(w)[wp[j].addr] = IF j = i THEN data'[wp[i].addr] ELSE wp[j].val
        BY <1>5
      <3> QED
        BY <3>1, <3>2, <3>3
    <2>5. Seen(w) = [x \in WatchedIn(wp) |-> Seen(w)[x]]
      BY <1>5 DEF Seen
    <2>6. Seen(watchpoints)' = [Seen(watchpoints) EXCEPT ![a] = data'[a]]
      <3>1. Seen(wp) = [x \in WatchedIn(wp) |-> Seen(wp)[x]]
        BY DEF Seen
      <3>2. Seen(w) = [x \in WatchedIn(wp) |-> IF x = a THEN data'[a] ELSE Seen(wp)[x]]
        BY <2>4, <2>5
      <3> QED
        BY <3>1, <3>2, <2>1
    <2> HIDE DEF a
    <2> QED
      BY <2>2, <2>3, <2>6 DEF Map!Cycle
  <1> QED
    BY <1>1, <1>4, <1>5

-----------------------------------------------------------------------------
(* The invariant of the debugger: memory is memory and the table of        *)
(* watchpoints a map.                                                      *)
WatchIInv == data \in [Addr -> Byte] /\ watchpoints \in Tables

LEMMA LoadedType ==
  ASSUME NEW image \in Images
  PROVE  Loaded(image) \in [Addr -> Byte]
  <1>1. image.bytes \in Seq(Byte) /\ 0 \in Byte
    BY Ad8Assumption
  <1>2. ASSUME NEW a \in Addr, a < Len(image.bytes) PROVE image.bytes[a + 1] \in Byte
    <2>1. a \in Nat
      BY Ad8Assumption DEF Addr
    <2> QED
      BY <1>1, <1>2, <2>1
  <1> QED
    BY <1>1, <1>2 DEF Loaded

LEMMA EmptyTable == <<>> \in Tables /\ WatchedIn(<<>>) = {} /\ Seen(<<>>) = <<>>
  <1>1. <<>> \in Tables
    BY Ad8Assumption DEF Tables
  <1>2. WatchedIn(<<>>) = {}
    BY DEF WatchedIn
  <1>3. Seen(<<>>) = [a \in {} |-> Seen(<<>>)[a]]
    BY <1>2 DEF Seen
  <1> QED
    BY <1>1, <1>2, <1>3

LEMMA WatchInit == Init => WatchIInv /\ Map!Init
  <1> SUFFICES ASSUME Init PROVE WatchIInv /\ Map!Init
    OBVIOUS
  <1>1. PICK image \in Images : data = Loaded(image)
    BY DEF Init
  <1> QED
    BY <1>1, LoadedType, EmptyTable DEF Init, WatchIInv, Map!Init

(* A command, or the machine standing still, that leaves the table alone.  *)
LEMMA PokeRefines ==
  ASSUME WatchIInv, data' \in [Addr -> Byte], said' = {}, watchpoints' = watchpoints
  PROVE  WatchIInv' /\ Map!Poke
  BY DEF WatchIInv, Map!Poke

(* `w'.                                                                    *)
LEMMA WatchRefines ==
  ASSUME WatchIInv, Watch
  PROVE  WatchIInv' /\ \E addrs \in SUBSET Addr : Map!Watch(addrs)
  <1>1. said' = {} /\ data' = data
    BY DEF Watch, Command
  <1>2. PICK s \in WpArgs : watchpoints' = FoldLeft(SetArg, watchpoints, s)
    BY DEF Watch
  <1>3. s \in Seq(Int)
    BY Ad8Assumption
  <1> DEFINE wp == watchpoints
             w  == watchpoints'
             X  == InRange(s)
             new == WatchedIn(w) \ WatchedIn(wp)
  <1>4. AfterWatch(w, wp, X) /\ wp \in Tables /\ w \in Tables
    BY <1>2, <1>3, WatchFold DEF WatchIInv, AfterWatch
  <1>5. new \in SUBSET (X \ WatchedIn(wp)) /\ WatchedIn(w) = WatchedIn(wp) \cup new
    BY <1>4 DEF AfterWatch
  <1>6. \A x \in WatchedIn(w) :
          Seen(w)[x] = IF x \in WatchedIn(wp) THEN Seen(wp)[x] ELSE data[x]
    BY <1>4 DEF AfterWatch
  <1>7. DOMAIN Seen(wp) = WatchedIn(wp) /\ DOMAIN Seen(w) = WatchedIn(w)
    BY DEF Seen
  <1>8. Seen(w) = [x \in WatchedIn(w) |-> Seen(w)[x]]
    BY DEF Seen
  <1> HIDE DEF new
  <1>9. Seen(w) = [a \in WatchedIn(wp) \cup new |->
                     IF a \in WatchedIn(wp) THEN Seen(wp)[a] ELSE data[a]]
    BY <1>5, <1>6, <1>8
  <1>10. new = X \ WatchedIn(wp) \/ Cardinality(DOMAIN Seen(w)) = MaxWp
    <2>1. Cardinality(WatchedIn(w)) = Len(w)
      BY <1>4, TableSize
    <2> QED
      BY <1>4, <1>7, <2>1 DEF AfterWatch, new
  <1>11. X \in SUBSET Addr
    BY DEF InRange
  <1>12. Map!Watch(X)
    <2>1. Map!Watched = WatchedIn(wp)
      BY <1>7 DEF Map!Watched
    <2>2. /\ new \in SUBSET (X \ Map!Watched)
          /\ Seen(w) = [a \in Map!Watched \cup new |->
                          IF a \in Map!Watched THEN Seen(wp)[a] ELSE data[a]]
          /\ new = X \ Map!Watched \/ Map!Cardinality(DOMAIN Seen(w)) = MaxWp
      <3>1. ASSUME NEW S PROVE Map!Cardinality(S) = Cardinality(S)
        BY DEF Map!Cardinality, Cardinality
      <3> QED
        BY <1>5, <1>9, <1>10, <2>1, <3>1
    <2> HIDE DEF X
    <2> QED
      BY <1>1, <2>2 DEF Map!Watch
  <1> QED
    BY <1>1, <1>4, <1>11, <1>12 DEF WatchIInv

(* `u'.                                                                    *)
LEMMA UnwatchRefines ==
  ASSUME WatchIInv, ClearWp
  PROVE  WatchIInv' /\ \E addrs \in SUBSET Addr : Map!Unwatch(addrs)
  <1> DEFINE wp == watchpoints
             w  == watchpoints'
  <1>1. said' = {} /\ data' = data
    BY DEF ClearWp, Command
  <1>2. DOMAIN Seen(wp) = WatchedIn(wp)
    BY DEF Seen
  <1>3. CASE w = <<>>
    <2>1. Map!Watched \ Addr = {}
      BY <1>2, SeenType DEF Map!Watched, WatchIInv
    <2>2. Seen(w) = Map!Restrict(Seen(wp), Map!Watched \ Addr)
      <3>1. Map!Restrict(Seen(wp), Map!Watched \ Addr) = [x \in {} |-> Seen(wp)[x]]
        BY <2>1 DEF Map!Restrict
      <3>2. [x \in {} |-> Seen(wp)[x]] = <<>>
        OBVIOUS
      <3> QED
        BY <1>3, <3>1, <3>2, EmptyTable
    <2>3. Map!Unwatch(Addr)
      BY <1>1, <2>2 DEF Map!Unwatch
    <2> QED
      BY <1>1, <1>3, <2>3, EmptyTable DEF WatchIInv
  <1>4. ASSUME NEW s \in WpArgs, w = FoldLeft(ClearArg, wp, s)
        PROVE  WatchIInv' /\ \E addrs \in SUBSET Addr : Map!Unwatch(addrs)
    <2> DEFINE X == InRange(s)
    <2>1. s \in Seq(Int) /\ X \in SUBSET Addr
      BY Ad8Assumption DEF InRange
    <2>2. AfterUnwatch(w, wp, X)
      BY <1>4, <2>1, UnwatchFold DEF WatchIInv
    <2>3. Seen(w) = [x \in WatchedIn(w) |-> Seen(w)[x]]
      BY DEF Seen
    <2>4. Seen(w) = Map!Restrict(Seen(wp), Map!Watched \ X)
      BY <1>2, <2>2, <2>3 DEF Map!Restrict, Map!Watched, AfterUnwatch
    <2>5. Map!Unwatch(X)
      BY <1>1, <2>4 DEF Map!Unwatch
    <2> QED
      BY <1>1, <2>1, <2>2, <2>5 DEF WatchIInv, AfterUnwatch
  <1> QED
    BY <1>3, <1>4 DEF ClearWp

(* `R'.                                                                    *)
LEMMA ReloadRefines ==
  ASSUME WatchIInv, Reload
  PROVE  WatchIInv' /\ Map!Reload
  <1> DEFINE wp == watchpoints
             w  == WpUpdate(wp, data')
  <1>1. /\ data' \in [Addr -> Byte] /\ said' = {}
        /\ watchpoints' = w /\ wp \in Tables
    BY LoadedType DEF Reload, Command, WatchIInv
  <1>2. w = [i \in DOMAIN wp |-> w[i]]
    BY DEF WpUpdate
  <1>3. ASSUME NEW i \in DOMAIN wp
        PROVE  w[i] \in Entry /\ w[i].addr = wp[i].addr /\ w[i].val = data'[wp[i].addr]
    <2>1. wp[i] \in Entry
      BY <1>1, TableFacts
    <2> QED
      BY <1>1, <2>1 DEF WpUpdate, Entry
  <1> HIDE DEF w
  <1>4. /\ w \in Tables /\ WatchedIn(w) = WatchedIn(wp)
        /\ \A i \in DOMAIN wp : Seen(w)[wp[i].addr] = w[i].val
    BY <1>1, <1>2, <1>3, Revalued
  <1>5. ASSUME NEW a \in WatchedIn(wp) PROVE Seen(w)[a] = data'[a]
    <2>1. PICK i \in DOMAIN wp : wp[i].addr = a
      BY DEF WatchedIn
    <2> QED
      BY <1>3, <1>4, <2>1
  <1>6. Seen(w) = [a \in WatchedIn(wp) |-> data'[a]]
    <2>1. Seen(w) = [a \in WatchedIn(w) |-> Seen(w)[a]]
      BY DEF Seen
    <2> QED
      BY <1>4, <1>5, <2>1
  <1>7. DOMAIN Seen(wp) = WatchedIn(wp)
    BY DEF Seen
  <1> QED
    BY <1>1, <1>4, <1>6, <1>7 DEF WatchIInv, Map!Reload, Map!Watched

(* An instruction: what it leaves in memory, and what is said of it.       *)
LEMMA OutcomeType ==
  ASSUME data \in [Addr -> Byte], NEW o \in Outcomes
  PROVE  o.data \in [Addr -> Byte]
  BY DEF Outcomes, Outcome

LEMMA FinishRefines ==
  ASSUME WatchIInv, NEW o, data' = o.data, data' \in [Addr -> Byte], Finish(o)
  PROVE  WatchIInv' /\ (Map!Poke \/ Map!Cycle)
  <1>1. CASE o.stops
    BY <1>1, PokeRefines DEF Finish
  <1>2. CASE ~o.stops
    <2>1. said' = Announced(watchpoints, data') /\ watchpoints' = WpCycle(watchpoints, data')
      BY <1>2 DEF Finish
    <2>2. watchpoints' \in Tables /\ Map!Cycle
      BY <2>1, CycleRefines DEF WatchIInv
    <2> QED
      BY <2>2 DEF WatchIInv
  <1> QED
    BY <1>1, <1>2

LEMMA WatchNext ==
  WatchIInv /\ [Next]_vars => WatchIInv' /\ [Map!Next]_<<data, said, Seen(watchpoints)>>
  <1> SUFFICES ASSUME WatchIInv, [Next]_vars
               PROVE  /\ WatchIInv'
                      /\ Map!Next \/ UNCHANGED <<data, said, Seen(watchpoints)>>
    OBVIOUS
  <1>1. CASE Break \/ ClearBp \/ Trace \/ Jump \/ Run \/ Go \/ NextInst \/ Refuse
    <2>1. data' = data /\ said' = {} /\ watchpoints' = watchpoints
      BY <1>1 DEF Break, ClearBp, Trace, Jump, Run, Go, Start, NextInst, Refuse, Command
    <2> QED
      BY <2>1, PokeRefines DEF WatchIInv, Map!Next
  <1>2. CASE Zero \/ Store
    <2>1. said' = {} /\ watchpoints' = watchpoints
      BY <1>2 DEF Zero, Store, Command
    <2>2. data' \in [Addr -> Byte]
      BY <1>2, Ad8Assumption DEF Zero, Store, WatchIInv
    <2> QED
      BY <2>1, <2>2, PokeRefines DEF Map!Next
  <1>3. CASE Watch
    BY <1>3, WatchRefines DEF Map!Next
  <1>4. CASE ClearWp
    BY <1>4, UnwatchRefines DEF Map!Next
  <1>5. CASE Reload
    BY <1>5, ReloadRefines DEF Map!Next
  <1>6. CASE ExecInst
    <2>1. PICK o \in Outcomes : data' = o.data /\ Finish(o)
      BY <1>6 DEF ExecInst
    <2>2. data' \in [Addr -> Byte]
      BY <2>1, OutcomeType DEF WatchIInv
    <2> QED
      BY <2>1, <2>2, FinishRefines DEF Map!Next
  <1>7. CASE Input
    <2>1. data' = data /\ data' \in [Addr -> Byte]
      BY <1>7 DEF Input, WatchIInv
    <2>2. CASE Finish(Outcome(NextPc, data, FALSE))
      BY <2>1, <2>2, FinishRefines DEF Map!Next, Outcome
    <2>3. CASE said' = {} /\ UNCHANGED watchpoints
      BY <2>1, <2>3, PokeRefines DEF Map!Next
    <2> QED
      BY <1>7, <2>2, <2>3 DEF Input
  <1>8. CASE Quit \/ Signal \/ UNCHANGED vars
    <2>1. UNCHANGED <<data, said, watchpoints>>
      BY <1>8 DEF Quit, Signal, vars
    <2> QED
      BY <2>1 DEF WatchIInv
  <1> QED
    BY <1>1, <1>2, <1>3, <1>4, <1>5, <1>6, <1>7, <1>8 DEF Next, Commands

(* No address is in the table twice and the table never grows over its     *)
(* size, whatever commands are given (ant8_wp_set, ant8_wp_clear).         *)
THEOREM WatchpointsAreAMap == Spec => []WatchIInv
  <1>1. WatchIInv /\ [Next]_vars => WatchIInv'
    BY WatchNext
  <1> QED
    BY <1>1, WatchInit, PTL DEF Spec

(* The table of watchpoints is a map from addresses to the values last     *)
(* seen: setting adds up to its size, clearing one leaves the others, and  *)
(* an instruction announces a change of a watched byte if there is one.    *)
THEOREM WatchTableHolds == Spec => WatchTable
  <1>1. Init => Map!Init
    BY WatchInit
  <1>2. WatchIInv /\ [Next]_vars => [Map!Next]_<<data, Seen(watchpoints), said>>
    BY WatchNext
  <1> QED
    BY <1>1, <1>2, WatchpointsAreAMap, PTL DEF Spec, WatchTable, Map!Spec

LEMMA ChangeStopsStep ==
  ASSUME WatchIInv, Next, executed', InSync,
         NEW i \in DOMAIN watchpoints,
         data'[watchpoints[i].addr] # data[watchpoints[i].addr]
  PROVE  LET a == watchpoints[i].addr IN
           /\ loc' = "prompt"
           /\ said' = {[addr |-> a, old |-> data[a], new |-> data'[a]]}
  <1> DEFINE wp == watchpoints
             a  == wp[i].addr
  <1>1. data' # data
    OBVIOUS
  <1>2. ExecInst
    <2>1. CASE Commands \/ Refuse
      <3>1. executed' = FALSE \/ data' = data
        BY <2>1 DEF Commands, Break, ClearBp, Watch, ClearWp, Zero, Store, Jump, Trace, Reload,
                    Quit, Run, Go, Start, NextInst, Refuse, Command
      <3> QED
        BY <1>1, <3>1
    <2>2. CASE Input \/ Signal
      BY <1>1, <2>2 DEF Input, Signal
    <2> QED
      BY <2>1, <2>2 DEF Next
  <1>3. PICK o \in Outcomes : data' = o.data /\ Finish(o)
    BY <1>2 DEF ExecInst
  <1>4. /\ data \in [Addr -> Byte] /\ data' \in [Addr -> Byte] /\ wp \in Tables
        /\ \A j \in DOMAIN wp : data[wp[j].addr] = wp[j].val
    BY <1>3, OutcomeType DEF WatchIInv, InSync
  <1>5. o.stops = FALSE /\ \E x \in Addr, v \in Byte : data' = [data EXCEPT ![x] = v]
    BY <1>1, <1>3 DEF Outcomes, Outcome
  <1>6. PICK x \in Addr, v \in Byte : data' = [data EXCEPT ![x] = v]
    BY <1>5
  <1>7. \A j \in DOMAIN wp : data'[wp[j].addr] # data[wp[j].addr] => j = i
    <2>1. \A y \in Addr : data'[y] # data[y] => y = x
      BY <1>4, <1>6
    <2>2. \A j \in DOMAIN wp : wp[j].addr \in Addr
      BY <1>4, TableFacts DEF Entry
    <2>3. a = x
      BY <2>1, <2>2
    <2> QED
      BY <1>4, <2>1, <2>2, <2>3, TableFacts
  <1>8. /\ said' = Announced(wp, data')
        /\ loc' = Back(o.pc \in breakpoints \/ said' # {})
    BY <1>3, <1>5 DEF Finish
  <1>9. PICK k \in DOMAIN wp :
          /\ data'[wp[k].addr] # wp[k].val
          /\ Announced(wp, data') =
               {[addr |-> wp[k].addr, old |-> wp[k].val, new |-> data'[wp[k].addr]]}
    <2>1. data'[a] # wp[i].val
      BY <1>4
    <2> QED
      BY <1>4, <2>1, CycleFacts
  <1>10. k = i
    BY <1>4, <1>7, <1>9
  <1>11. said' = {[addr |-> a, old |-> data[a], new |-> data'[a]]}
    BY <1>4, <1>8, <1>9, <1>10
  <1>12. loc' = "prompt"
    <2>1. said' # {}
      BY <1>11
    <2> QED
      BY <1>8, <2>1 DEF Back
  <1> QED
    BY <1>11, <1>12

(* An instruction that changes a watched byte stops the program and is     *)
(* announced with the old and the new value, whatever else is watched and  *)
(* even if there is a breakpoint too (ant_exec_inst_dbg).                  *)
THEOREM ChangesStop == Spec => ChangeStops
  <1> DEFINE Stops ==
               executed' /\ InSync =>
                 \A i \in DOMAIN watchpoints :
                   LET a == watchpoints[i].addr IN
                   data'[a] # data[a] =>
                     /\ loc' = "prompt"
                     /\ said' = {[addr |-> a, old |-> data[a], new |-> data'[a]]}
  <1>1. WatchIInv /\ [Next]_vars => [Stops]_vars
    BY ChangeStopsStep
  <1>2. [][Stops]_vars => ChangeStops
    BY DEF ChangeStops
  <1> HIDE DEF Stops
  <1> QED
    BY <1>1, <1>2, WatchpointsAreAMap, PTL DEF Spec
-----------------------------------------------------------------------------
(***************************************************************************)
(* The console buffer is a queue, whatever is typed and however much room  *)
(* a new buffer has to spare; the end of the input stays where it is, and  *)
(* a number takes the rest of its line, however many digits it has.        *)
(***************************************************************************)

(* The bytes start .. end-1 of a buffer were all written.                  *)
AllChars(b, start, end) == \A i \in start .. end - 1 : b[i] \in Char

(* Such bytes are a sequence of characters.                                *)
IsSeq(b, start, end) ==
  /\ Bytes(b, start, end) \in Seq(Char)
  /\ Len(Bytes(b, start, end)) = end - start
  /\ \A i \in 1 .. end - start : Bytes(b, start, end)[i] = b[start + i - 1]

LEMMA BytesSeq ==
  \A b : \A s, e \in Nat : s <= e /\ AllChars(b, s, e) => IsSeq(b, s, e)
  <1> SUFFICES ASSUME NEW b, NEW s \in Nat, NEW e \in Nat, s <= e, AllChars(b, s, e)
               PROVE  IsSeq(b, s, e)
    OBVIOUS
  <1>1. \A i \in 1 .. e - s : s + i - 1 \in s .. e - 1
    OBVIOUS
  <1>2. Bytes(b, s, e) \in [1 .. e - s -> Char]
    BY <1>1 DEF Bytes, AllChars
  <1>3. e - s \in Nat
    OBVIOUS
  <1> QED
    BY <1>2, <1>3 DEF Bytes, IsSeq

(* A buffer of n bytes whose bytes start .. end-1 are the characters of q. *)
Holds(b, n, start, end, q) ==
  /\ b \in [0 .. n - 1 -> Char \cup {Junk}]
  /\ AllChars(b, start, end)
  /\ Bytes(b, start, end) = q

(* Copying a string behind the pending bytes appends it to them.           *)
LEMMA WrittenAppends ==
  \A b, w : \A n, s, e, m \in Nat : \A str \in Seq(Char) :
    /\ b \in [0 .. n - 1 -> Char \cup {Junk}]
    /\ s <= e /\ AllChars(b, s, e)
    /\ m = e + Len(str) /\ m <= n
    /\ w = Written(b, e, str)
    => Holds(w, n, s, m, Bytes(b, s, e) \o str)
  <1> SUFFICES
        ASSUME NEW b, NEW w, NEW n \in Nat, NEW s \in Nat, NEW e \in Nat,
               NEW m \in Nat, NEW str \in Seq(Char),
               b \in [0 .. n - 1 -> Char \cup {Junk}],
               s <= e, AllChars(b, s, e),
               m = e + Len(str), m <= n,
               w = Written(b, e, str)
        PROVE  Holds(w, n, s, m, Bytes(b, s, e) \o str)
    OBVIOUS
  <1>1. Len(str) \in Nat /\ m \in Nat /\ s <= m
    OBVIOUS
  <1>2. \A i \in 0 .. n - 1 :
          w[i] = IF i \in e .. m - 1 THEN str[i - e + 1] ELSE b[i]
    BY DEF Written
  <1>3. \A i \in e .. m - 1 : str[i - e + 1] \in Char
    <2> SUFFICES ASSUME NEW i \in e .. m - 1 PROVE str[i - e + 1] \in Char
      OBVIOUS
    <2>1. i - e + 1 \in 1 .. Len(str)
      BY <1>1
    <2> QED
      BY <2>1
  <1>4. w \in [0 .. n - 1 -> Char \cup {Junk}]
    BY <1>3 DEF Written
  <1>5. AllChars(w, s, m)
    <2> SUFFICES ASSUME NEW i \in s .. m - 1 PROVE w[i] \in Char
      BY DEF AllChars
    <2>1. i \in 0 .. n - 1
      BY <1>1
    <2>2. CASE i \in e .. m - 1
      BY <1>2, <1>3, <2>1, <2>2
    <2>3. CASE i \notin e .. m - 1
      BY <1>1, <1>2, <2>1, <2>3 DEF AllChars
    <2> QED
      BY <2>2, <2>3
  <1>6. Bytes(w, s, m) = Bytes(b, s, e) \o str
    <2>1. /\ Bytes(b, s, e) \in Seq(Char) /\ Len(Bytes(b, s, e)) = e - s
          /\ \A i \in 1 .. e - s : Bytes(b, s, e)[i] = b[s + i - 1]
      <3>1. IsSeq(b, s, e)
        BY BytesSeq
      <3> QED
        BY <3>1 DEF IsSeq
    <2>2. /\ Bytes(w, s, m) \in Seq(Char) /\ Len(Bytes(w, s, m)) = m - s
          /\ \A i \in 1 .. m - s : Bytes(w, s, m)[i] = w[s + i - 1]
      <3>1. IsSeq(w, s, m)
        BY <1>1, <1>5, BytesSeq
      <3> QED
        BY <3>1 DEF IsSeq
    <2>3. /\ Bytes(b, s, e) \o str \in Seq(Char)
          /\ Len(Bytes(b, s, e) \o str) = m - s
          /\ \A i \in 1 .. m - s :
               (Bytes(b, s, e) \o str)[i] =
                 IF i <= e - s THEN b[s + i - 1] ELSE str[i - (e - s)]
      <3> DEFINE p == Bytes(b, s, e)
      <3>1. p \in Seq(Char) /\ Len(p) = e - s
            /\ \A i \in 1 .. e - s : p[i] = b[s + i - 1]
        BY <2>1
      <3> HIDE DEF p
      <3>2. /\ p \o str \in Seq(Char) /\ Len(p \o str) = Len(p) + Len(str)
            /\ \A i \in 1 .. Len(p) + Len(str) :
                 (p \o str)[i] = IF i <= Len(p) THEN p[i] ELSE str[i - Len(p)]
        BY <3>1, ConcatProperties
      <3>3. (e - s) + Len(str) = m - s
        OBVIOUS
      <3>4. \A i \in 1 .. m - s : i <= e - s => i \in 1 .. e - s
        OBVIOUS
      <3>5. /\ p \o str \in Seq(Char) /\ Len(p \o str) = m - s
            /\ \A i \in 1 .. m - s :
                 (p \o str)[i] = IF i <= e - s THEN b[s + i - 1] ELSE str[i - (e - s)]
        BY <3>1, <3>2, <3>3, <3>4
      <3> QED
        BY <3>5 DEF p
    <2>4. ASSUME NEW i \in 1 .. m - s
          PROVE  Bytes(w, s, m)[i] = (Bytes(b, s, e) \o str)[i]
      <3>1. s + i - 1 \in 0 .. n - 1 /\ i \in Int
        BY <1>1
      <3>2. CASE i <= e - s
        <4>1. w[s + i - 1] = b[s + i - 1]
          BY <1>1, <1>2, <3>1, <3>2
        <4> QED
          BY <2>2, <2>3, <3>2, <4>1
      <3>3. CASE ~(i <= e - s)
        <4>1. s + i - 1 \in e .. m - 1 /\ s + i - 1 - e + 1 = i - (e - s)
          BY <1>1, <3>1, <3>3
        <4>2. \A j \in 0 .. n - 1, k \in Int :
                j \in e .. m - 1 /\ j - e + 1 = k => w[j] = str[k]
          BY <1>2
        <4>3. w[s + i - 1] = str[i - (e - s)]
          <5>1. i - (e - s) \in Int
            BY <3>1
          <5> QED
            BY <3>1, <4>1, <4>2, <5>1
        <4> QED
          BY <2>2, <2>3, <3>3, <4>3
      <3> QED
        BY <3>2, <3>3
    <2> QED
      BY <2>2, <2>3, <2>4, SeqEqual
  <1> QED
    BY <1>4, <1>5, <1>6 DEF Holds

(* Moving the pending bytes to the front of a new buffer keeps them.       *)
LEMMA MovedKeeps ==
  ASSUME NEW b, NEW v, NEW s \in Nat, NEW e \in Nat, NEW len \in Nat,
         NEW u \in Nat, s <= e, AllChars(b, s, e),
         u = e - s, u <= len, v = Moved(b, s, u, len)
  PROVE  Holds(v, len, 0, u, Bytes(b, s, e))
  <1>1. \A i \in 0 .. len - 1 : v[i] = IF i < u THEN b[s + i] ELSE Junk
    BY DEF Moved
  <1>2. \A i \in 0 .. u - 1 : s + i \in s .. e - 1 /\ i \in 0 .. len - 1
    OBVIOUS
  <1>3. \A i \in 0 .. u - 1 : v[i] = b[s + i] /\ v[i] \in Char
    BY <1>1, <1>2 DEF AllChars
  <1>4. v \in [0 .. len - 1 -> Char \cup {Junk}]
    <2>1. \A i \in 0 .. len - 1 : i < u => s + i \in s .. e - 1
      OBVIOUS
    <2> QED
      BY <2>1 DEF Moved, AllChars
  <1>5. AllChars(v, 0, u)
    BY <1>3 DEF AllChars
  <1>6. Bytes(v, 0, u) = Bytes(b, s, e)
    <2>1. /\ Bytes(b, s, e) \in Seq(Char) /\ Len(Bytes(b, s, e)) = u
          /\ \A i \in 1 .. u : Bytes(b, s, e)[i] = b[s + i - 1]
      <3>1. IsSeq(b, s, e)
        BY BytesSeq
      <3> QED
        BY <3>1 DEF IsSeq
    <2>2. 0 \in Nat /\ 0 <= u /\ u - 0 = u
      OBVIOUS
    <2>3. /\ Bytes(v, 0, u) \in Seq(Char) /\ Len(Bytes(v, 0, u)) = u
          /\ \A i \in 1 .. u : Bytes(v, 0, u)[i] = v[0 + i - 1]
      <3>1. IsSeq(v, 0, u)
        BY <1>5, <2>2, BytesSeq
      <3> QED
        BY <2>2, <3>1 DEF IsSeq
    <2>4. \A i \in 1 .. u : v[0 + i - 1] = b[s + i - 1]
      <3> SUFFICES ASSUME NEW i \in 1 .. u PROVE v[0 + i - 1] = b[s + i - 1]
        OBVIOUS
      <3>1. i - 1 \in 0 .. u - 1 /\ 0 + i - 1 = i - 1 /\ s + (i - 1) = s + i - 1
        OBVIOUS
      <3> QED
        BY <1>3, <3>1
    <2> DEFINE p == Bytes(v, 0, u)
               q == Bytes(b, s, e)
    <2>5. p \in Seq(Char) /\ q \in Seq(Char) /\ Len(p) = Len(q)
      BY <2>1, <2>3
    <2>6. \A i \in 1 .. Len(p) : p[i] = q[i]
      BY <2>1, <2>3, <2>4
    <2> HIDE DEF p, q
    <2>7. p = q
      BY <2>5, <2>6, SeqEqual
    <2> QED
      BY <2>7 DEF p, q
  <1> QED
    BY <1>4, <1>5, <1>6 DEF Holds

(* Reading takes bytes off the front of the pending ones.                  *)
LEMMA DequeuedBytes ==
  ASSUME NEW b, NEW s \in Nat, NEW e \in Nat, s <= e,
         AllChars(b, s, e),
         NEW k \in 0 .. e - s
  PROVE  Bytes(b, s + k, e) = SubSeq(Bytes(b, s, e), k + 1, Len(Bytes(b, s, e)))
  <1> DEFINE p == Bytes(b, s, e)
             q == SubSeq(p, k + 1, e - s)
  <1>1. /\ p \in Seq(Char) /\ Len(p) = e - s
        /\ \A i \in 1 .. e - s : p[i] = b[s + i - 1]
    <2>1. IsSeq(b, s, e)
      BY BytesSeq
    <2> QED
      BY <2>1 DEF IsSeq
  <1>2. /\ Bytes(b, s + k, e) \in Seq(Char)
        /\ Len(Bytes(b, s + k, e)) = e - (s + k)
        /\ \A i \in 1 .. e - (s + k) : Bytes(b, s + k, e)[i] = b[s + k + i - 1]
    <2>1. s + k \in Nat /\ s + k <= e /\ AllChars(b, s + k, e)
      BY DEF AllChars
    <2>2. IsSeq(b, s + k, e)
      BY <2>1, BytesSeq
    <2> QED
      BY <2>2 DEF IsSeq
  <1> HIDE DEF p
  <1>3. /\ q \in Seq(Char) /\ Len(q) = e - (s + k)
        /\ \A i \in 1 .. e - (s + k) : q[i] = p[k + 1 + i - 1]
    <2>1. \A i \in k + 1 .. e - s : p[i] \in Char
      BY <1>1
    <2>2. k + 1 \in Int /\ e - s \in Int
      OBVIOUS
    <2>3. /\ q \in Seq(Char)
          /\ Len(q) = IF k + 1 <= e - s THEN (e - s) - (k + 1) + 1 ELSE 0
          /\ \A i \in 1 .. (e - s) - (k + 1) + 1 : q[i] = p[k + 1 + i - 1]
      BY <2>1, <2>2, SubSeqProperties
    <2>4. (e - s) - (k + 1) + 1 = e - (s + k)
      OBVIOUS
    <2> HIDE DEF q
    <2> QED
      BY <2>3, <2>4
  <1> HIDE DEF q
  <1>4. \A i \in 1 .. e - (s + k) : Bytes(b, s + k, e)[i] = q[i]
    <2> SUFFICES ASSUME NEW i \in 1 .. e - (s + k)
                 PROVE  Bytes(b, s + k, e)[i] = q[i]
      OBVIOUS
    <2>1. k + 1 + i - 1 \in 1 .. e - s /\ s + (k + 1 + i - 1) - 1 = s + k + i - 1
      OBVIOUS
    <2> QED
      BY <1>1, <1>2, <1>3, <2>1
  <1>5. Bytes(b, s + k, e) = q
    BY <1>2, <1>3, <1>4, SeqEqual
  <1> QED
    BY <1>1, <1>5 DEF p, q
-----------------------------------------------------------------------------
LEMMA Typing ==
  ASSUME TypeOK
  PROVE  /\ con_start \in Nat /\ con_end \in Nat /\ conInBuffLen \in Nat
         /\ Qlen \in Nat /\ con_start <= con_end /\ con_end <= conInBuffLen
         /\ Pending \in Seq(Char) /\ Len(Pending) = Qlen
  <1>1. Qlen \in Nat /\ con_start <= con_end
    BY DEF TypeOK, Qlen
  <1>2. Pending \in Seq(Char) /\ Len(Pending) = Qlen
    BY BytesSeq DEF IsSeq, TypeOK, Pending, Qlen, AllChars
  <1> QED
    BY <1>1, <1>2 DEF TypeOK

(* Typing: the buffer stays well formed, and what was typed is appended.   *)
LEMMA EnqueueStep ==
  ASSUME TypeOK, NEW str \in Seq(Char), ConsoleEnqueue(str),
         UNCHANGED <<prev_char, side>>
  PROVE  TypeOK' /\ Pending' = Pending \o str
  <1>1. Len(str) \in Nat
    OBVIOUS
  <1>2. CASE AppendInPlace(str)
    <2>1. Holds(conInBuff', conInBuffLen, con_start, con_end', Pending \o str)
      <3>1. /\ conInBuff' = Written(conInBuff, con_end, str)
            /\ con_end' = con_end + Len(str) /\ con_end' <= conInBuffLen
        BY <1>2 DEF AppendInPlace
      <3>. con_end' \in Nat
        BY <1>1, <3>1, Typing
      <3>2. /\ conInBuff \in [0 .. conInBuffLen - 1 -> Char \cup {Junk}]
            /\ AllChars(conInBuff, con_start, con_end)
        BY DEF TypeOK, AllChars
      <3> QED
        BY <3>1, <3>2, Typing, WrittenAppends DEF Pending
    <2>2. con_end' \in Nat /\ con_start <= con_end' /\ con_end' <= conInBuffLen
      BY <1>1, <1>2 DEF AppendInPlace, TypeOK
    <2>3. TypeOK'
      BY <1>2, <2>1, <2>2 DEF Holds, AppendInPlace, TypeOK, AllChars
    <2> QED
      BY <1>2, <2>1, <2>3 DEF Holds, AppendInPlace, Pending
  <1>3. CASE Reallocate(str)
    <2> DEFINE len == Qlen + Len(str) + Slack
               v   == Moved(conInBuff, con_start, Qlen, len)
    <2>1. len \in Nat /\ Qlen \in Nat /\ Qlen <= len /\ Qlen + Len(str) <= len
      BY <1>1, Typing, SlackAssumption
    <2>2. Holds(v, len, 0, Qlen, Pending)
      <3> HIDE DEF len, v
      <3>1. AllChars(conInBuff, con_start, con_end)
        BY DEF TypeOK, AllChars
      <3>2. Qlen = con_end - con_start
        BY DEF Qlen
      <3>3. con_end - con_start <= len
        BY <2>1, <3>2
      <3>4. v = Moved(conInBuff, con_start, Qlen, len)
        BY DEF v
      <3> QED
        BY <2>1, <3>1, <3>2, <3>3, <3>4, Typing, MovedKeeps DEF Pending
    <2>3. /\ conInBuff' = Written(v, Qlen, str) /\ conInBuffLen' = len
          /\ con_start' = 0 /\ con_end' = Qlen + Len(str)
      BY <1>3 DEF Reallocate
    <2> HIDE DEF len, v
    <2>4. con_end' \in Nat /\ con_end' <= len
      BY <1>1, <2>1, <2>3
    <2>5. Holds(conInBuff', len, 0, con_end', Pending \o str)
      <3>1. 0 <= Qlen /\ 0 \in Nat
        BY <2>1
      <3>2. /\ v \in [0 .. len - 1 -> Char \cup {Junk}]
            /\ AllChars(v, 0, Qlen)
            /\ Bytes(v, 0, Qlen) = Pending
        BY <2>2 DEF Holds
      <3>3. Holds(conInBuff', len, 0, con_end', Bytes(v, 0, Qlen) \o str)
        BY <2>1, <2>3, <2>4, <3>1, <3>2, WrittenAppends
      <3> QED
        BY <3>2, <3>3
    <2>6. TypeOK'
      BY <1>1, <2>1, <2>3, <2>4, <2>5 DEF Holds, TypeOK, AllChars
    <2> QED
      BY <2>3, <2>5, <2>6 DEF Holds, Pending
  <1> QED
    BY <1>2, <1>3 DEF ConsoleEnqueue

(* An `in`: what it reads are the first of the pending characters.         *)
LEMMA InStep ==
  ASSUME TypeOK, NEW format \in Formats, In(format)
  PROVE  TypeOK' /\ \E k \in 0 .. Len(Pending) : Queue!Dequeue(k)
  <1> DEFINE k == Taken(format, Pending, prev_char)
  <1>1. /\ k \in 0 .. Qlen
        /\ con_start' = con_start + k
        /\ UNCHANGED <<conInBuff, conInBuffLen, con_end>>
        /\ prev_char' = IF k = 0 THEN prev_char ELSE Pending[k]
        /\ side' \in {0, 1}
    BY DEF In, ConsoleDequeue, LastRead
  <1> HIDE DEF k
  <1>2. con_start' \in Nat /\ con_start' <= con_end
    BY <1>1, Typing DEF Qlen
  <1>3. prev_char' \in Char
    <2>1. CASE k = 0
      BY <1>1, <2>1 DEF TypeOK
    <2>2. CASE k # 0
      <3>1. k \in 1 .. Len(Pending)
        BY <1>1, <2>2, Typing
      <3> QED
        BY <1>1, <2>2, <3>1, Typing, ElementOfSeq
    <2> QED
      BY <2>1, <2>2
  <1>4. TypeOK'
    <2>1. \A i \in con_start' .. con_end - 1 : conInBuff[i] \in Char
      BY <1>1, Typing DEF TypeOK
    <2> QED
      BY <1>1, <1>2, <1>3, <2>1 DEF TypeOK
  <1>5. Pending' = SubSeq(Pending, k + 1, Len(Pending))
    <2>1. Pending' = Bytes(conInBuff, con_start + k, con_end)
      BY <1>1 DEF Pending
    <2> QED
      BY <1>1, <2>1, DequeuedBytes DEF TypeOK, Pending, Qlen, AllChars
  <1>6. k \in 0 .. Len(Pending)
    BY <1>1, Typing
  <1> QED
    BY <1>4, <1>5, <1>6 DEF Queue!Dequeue

(* Flushing empties it.                                                    *)
LEMMA FlushStep ==
  ASSUME TypeOK, BufferInputFlush
  PROVE  TypeOK' /\ Queue!Flush
  <1>1. TypeOK'
    BY DEF BufferInputFlush, ConsoleReset, NoBuffer, TypeOK
  <1>2. Pending' = <<>>
    BY DEF BufferInputFlush, ConsoleReset, Pending, Bytes
  <1> QED
    BY <1>1, <1>2 DEF Queue!Flush

LEMMA TypeStep ==
  ASSUME TypeOK, [InputNext]_consoleVars
  PROVE  TypeOK' /\ [Queue!Next]_Pending
  <1>1. ASSUME NEW str \in Lines, Type(str)
        PROVE  TypeOK' /\ Queue!Next
    <2>1. str \in Seq(Char)
      BY LinesAssumption, CharAssumption
    <2> QED
      BY <1>1, <2>1, EnqueueStep DEF Type, Queue!Next, Queue!Enqueue
  <1>2. ASSUME NEW format \in Formats, In(format)
        PROVE  TypeOK' /\ Queue!Next
    BY <1>2, InStep DEF Queue!Next
  <1>3. CASE BufferInputFlush
    BY <1>3, FlushStep DEF Queue!Next
  <1>4. CASE UNCHANGED consoleVars
    BY <1>4 DEF consoleVars, TypeOK, Pending
  <1> QED
    BY <1>1, <1>2, <1>3, <1>4 DEF InputNext

LEMMA InitTypeOK == InputInit => TypeOK /\ Queue!Init
  <1> SUFFICES ASSUME InputInit PROVE TypeOK /\ Queue!Init
    OBVIOUS
  <1>1. TypeOK
    BY CharAssumption DEF InputInit, ConsoleInit, NoBuffer, TypeOK, Chars
  <1> QED
    BY <1>1 DEF InputInit, ConsoleInit, Queue!Init, Pending, Bytes

(* The pending bytes lie inside the buffer and were all written, for any   *)
(* input and any Slack.                                                    *)
THEOREM ConsoleTypeCorrect == InputSpec => []TypeOK
  BY InitTypeOK, TypeStep, PTL DEF InputSpec

(* ant_console.c implements a queue: what is typed is read once and in the *)
(* order it was typed, whenever the buffer is reallocated or flushed.      *)
THEOREM ConsoleIsQueue == InputSpec => InputQueue
  BY InitTypeOK, TypeStep, ConsoleTypeCorrect, PTL
  DEF InputSpec, InputQueue, Queue!Spec
-----------------------------------------------------------------------------
(* What an `in` does to the pending characters and the last one read.      *)
LEMMA InReads ==
  ASSUME TypeOK, NEW format \in Formats, In(format)
  PROVE  LET k == Taken(format, Pending, prev_char) IN
           /\ k \in 0 .. Len(Pending)
           /\ Pending' = SubSeq(Pending, k + 1, Len(Pending))
           /\ Qlen' = Len(Pending) - k
           /\ prev_char' = IF k = 0 THEN prev_char ELSE Pending[k]
  <1> DEFINE k == Taken(format, Pending, prev_char)
  <1>1. /\ k \in 0 .. Qlen
        /\ con_start' = con_start + k
        /\ UNCHANGED <<conInBuff, conInBuffLen, con_end>>
        /\ prev_char' = IF k = 0 THEN prev_char ELSE Pending[k]
    BY DEF In, ConsoleDequeue, LastRead
  <1> HIDE DEF k
  <1>2. Pending' = Bytes(conInBuff, con_start + k, con_end)
    BY <1>1 DEF Pending
  <1>3. Pending' = SubSeq(Pending, k + 1, Len(Pending))
    BY <1>1, <1>2, DequeuedBytes DEF TypeOK, Pending, Qlen, AllChars
  <1>4. k \in 0 .. Len(Pending) /\ Qlen' = Len(Pending) - k
    <2>1. con_start \in Nat /\ con_end \in Nat /\ Len(Pending) = Qlen
      BY Typing
    <2>2. Qlen = con_end - con_start /\ Qlen' = con_end - (con_start + k)
      BY <1>1 DEF Qlen
    <2> QED
      BY <1>1, <2>1, <2>2
  <1> QED
    BY <1>1, <1>3, <1>4 DEF k

LEMMA EoiStep ==
  ASSUME TypeOK, AtEoi(Pending, prev_char), [InputNext]_consoleVars
  PROVE  AtEoi(Pending, prev_char)' \/ BufferInputFlush
  <1>0. Pending \in Seq(Char) /\ Pending # <<>> /\ Pending[1] = Eot /\ prev_char = Newline
    BY Typing DEF AtEoi
  <1>1. ASSUME NEW str \in Lines, Type(str)
        PROVE  AtEoi(Pending, prev_char)'
    <2>1. str \in Seq(Char)
      BY LinesAssumption, CharAssumption
    <2>2. Pending' = Pending \o str /\ prev_char' = prev_char
      BY <1>1, <2>1, EnqueueStep DEF Type
    <2>3. Pending' # <<>> /\ Pending'[1] = Pending[1]
      BY <1>0, <2>1, <2>2
    <2> QED
      BY <1>0, <2>2, <2>3 DEF AtEoi
  <1>2. ASSUME NEW format \in Formats, In(format)
        PROVE  AtEoi(Pending, prev_char)'
    <2>1. Taken(format, Pending, prev_char) = 0
      BY <1>2 DEF Taken
    <2>2. Pending' = SubSeq(Pending, 1, Len(Pending)) /\ prev_char' = prev_char
      BY <1>2, <2>1, InReads
    <2>3. Pending' = Pending
      BY <1>0, <2>2
    <2> QED
      BY <1>0, <2>2, <2>3 DEF AtEoi
  <1>3. CASE UNCHANGED consoleVars
    BY <1>0, <1>3 DEF consoleVars, AtEoi, Pending
  <1> QED
    BY <1>1, <1>2, <1>3 DEF InputNext

(* Whatever is typed and read, the end of the input is met until the user  *)
(* flushes it (ant8_do_in_buf).                                            *)
THEOREM EndStays == InputSpec => EoiLasts
  <1> DEFINE Lasts == AtEoi(Pending, prev_char)
                        => \/ AtEoi(Pending, prev_char)'
                           \/ BufferInputFlush
  <1>1. TypeOK /\ [InputNext]_consoleVars => [Lasts]_consoleVars
    BY EoiStep
  <1>2. [][Lasts]_consoleVars => EoiLasts
    BY DEF EoiLasts
  <1> HIDE DEF Lasts
  <1> QED
    BY <1>1, <1>2, ConsoleTypeCorrect, PTL DEF InputSpec

(* A number is read to a newline, or to the end of what was typed.         *)
LEMMA NumberReadFacts ==
  ASSUME NEW s \in Seq(Char)
  PROVE  NumberRead(s) = Len(s) \/ (NumberRead(s) # 0 /\ s[NumberRead(s)] = Newline)
  <1> DEFINE S == {i \in Newlines(s, Len(s)) : i > DigitsRead(s)}
  <1>1. S \in SUBSET (1 .. Len(s)) /\ Len(s) \in Nat /\ \A i \in S : s[i] = Newline
    BY DEF Newlines
  <1>2. NumberRead(s) = IF S = {} THEN Len(s) ELSE Min(S)
    BY DEF NumberRead, FirstOr
  <1> HIDE DEF S
  <1>3. CASE S # {}
    <2>1. PICK x \in S : \A y \in S : x <= y
      BY <1>1, <1>3, LeastMember
    <2>2. Min(S) \in S
      BY <2>1 DEF Min
    <2>3. Min(S) # 0 /\ s[Min(S)] = Newline
      <3>1. Min(S) \in 1 .. Len(s) /\ s[Min(S)] = Newline
        BY <1>1, <2>2
      <3> QED
        BY <3>1
    <2> QED
      BY <1>2, <1>3, <2>3
  <1> QED
    BY <1>2, <1>3

(* A number leaves the input at the start of a line or leaves nothing, for *)
(* every width of a number (ant8_do_in_buf).                               *)
THEOREM NumberTakesLine == InputSpec => NumberEndsLine
  <1> DEFINE Ends == In("number") => prev_char' = Newline \/ Qlen' = 0
  <1>1. ASSUME TypeOK, In("number") PROVE prev_char' = Newline \/ Qlen' = 0
    <2> DEFINE k == Taken("number", Pending, prev_char)
    <2>1. /\ k \in 0 .. Len(Pending)
          /\ Qlen' = Len(Pending) - k
          /\ prev_char' = IF k = 0 THEN prev_char ELSE Pending[k]
      BY <1>1, InReads DEF Formats
    <2>2. Pending \in Seq(Char) /\ Len(Pending) \in Nat
      BY <1>1, Typing
    <2>3. CASE AtEoi(Pending, prev_char)
      <3>1. k = 0 /\ prev_char = Newline
        BY <2>3 DEF Taken, AtEoi
      <3> HIDE DEF k
      <3> QED
        BY <2>1, <3>1
    <2>4. CASE ~AtEoi(Pending, prev_char)
      <3>1. k = NumberRead(Pending)
        BY <2>4 DEF Taken
      <3> HIDE DEF k
      <3>2. k = Len(Pending) \/ (k # 0 /\ Pending[k] = Newline)
        BY <2>2, <3>1, NumberReadFacts
      <3> QED
        BY <2>1, <2>2, <3>2
    <2> QED
      BY <2>3, <2>4
  <1>2. TypeOK /\ [InputNext]_consoleVars => [Ends]_consoleVars
    BY <1>1
  <1>3. [][Ends]_consoleVars => NumberEndsLine
    BY DEF NumberEndsLine
  <1> HIDE DEF Ends
  <1> QED
    BY <1>2, <1>3, ConsoleTypeCorrect, PTL DEF InputSpec
=============================================================================
