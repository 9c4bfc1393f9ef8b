--------------------------- MODULE Ant32AsmProofs ---------------------------
(***************************************************************************)
(* Proofs about the Ant-32 assembler, for every program, ROM, base address *)
(* and size of memory: its lists bind no name twice, every pass reads a    *)
(* line as the first one did, labels name what is behind them, the data of *)
(* the source is in memory in the end, and what is loaded is what was      *)
(* assembled, with its labels and its lines.                               *)
(***************************************************************************)
EXTENDS Ant32AsmProps, AntFolds, TLAPS

SymbolRec == [string : Spelling, value : Int, type : Int]

(* The lists of ant_symtab.c.                                              *)
LEMMA ListFacts ==
  ASSUME NEW l \in SymbolLists
  PROVE  /\ l \in Seq(SymbolRec) /\ Len(l) \in Nat /\ DOMAIN l = 1 .. Len(l)
         /\ \A i \in DOMAIN l : l[i] \in SymbolRec
         /\ \A i, j \in DOMAIN l : l[i].string = l[j].string => i = j
  <1>1. l \in Seq(SymbolRec) /\ UniqueNames(l)
    BY DEF SymbolLists, SymbolRec
  <1>2. Len(l) \in Nat /\ DOMAIN l = 1 .. Len(l) /\ \A i \in DOMAIN l : l[i] \in SymbolRec
    BY <1>1
  <1> QED
    BY <1>1, <1>2 DEF UniqueNames

LEMMA EmptyList == <<>> \in SymbolLists /\ \A x : ~Defined(<<>>, x)
  <1>1. <<>> \in Seq(SymbolRec) /\ DOMAIN <<>> = {}
    OBVIOUS
  <1> QED
    BY <1>1 DEF SymbolLists, SymbolRec, UniqueNames, Defined, Places

(* What is found is the only binding there is.                             *)
LEMMA Found ==
  ASSUME NEW l \in SymbolLists, NEW i \in DOMAIN l
  PROVE  /\ Defined(l, l[i].string) /\ Min(Places(l, l[i].string)) = i
         /\ ValueOf(l, l[i].string) = l[i].value
  <1>1. Places(l, l[i].string) = {i} /\ i \in Int
    BY ListFacts DEF Places
  <1>2. Min({i}) = i
    BY <1>1 DEF Min
  <1> QED
    BY <1>1, <1>2 DEF Defined, ValueOf

LEMMA Finds ==
  ASSUME NEW l \in SymbolLists, NEW x, Defined(l, x)
  PROVE  \E i \in DOMAIN l : l[i].string = x /\ Min(Places(l, x)) = i /\ ValueOf(l, x) = l[i].value
  <1>1. PICK i \in DOMAIN l : l[i].string = x
    BY DEF Defined, Places
  <1> QED
    BY <1>1, Found

LEMMA ValueInt ==
  ASSUME NEW l \in SymbolLists, NEW x
  PROVE  ValueOf(l, x) \in Int
  <1>1. CASE Defined(l, x)
    BY <1>1, Finds, ListFacts DEF SymbolRec
  <1> QED
    BY <1>1 DEF ValueOf

(* A binding that is new leaves the others.                                *)
LEMMA Added ==
  ASSUME NEW l \in SymbolLists, NEW name \in Spelling, NEW value \in Int, CanAdd(l, name)
  PROVE  LET m == AddSymbol(l, name, value) IN
         /\ m \in SymbolLists
         /\ \A x : Defined(m, x) <=> x = name \/ Defined(l, x)
         /\ ValueOf(m, name) = value
         /\ \A x : Defined(l, x) => x # name /\ ValueOf(m, x) = ValueOf(l, x)
  <1> DEFINE n == Len(l)
             s == Symbol(name, value, 0)
             m == AddSymbol(l, name, value)
  <1>1. s \in SymbolRec /\ s.string = name /\ s.value = value
    BY DEF Symbol, SymbolRec
  <1>2. l \in Seq(SymbolRec) /\ n \in Nat /\ DOMAIN l = 1 .. n
    BY ListFacts
  <1>3. m = <<s>> \o l
    BY DEF AddSymbol, Insert
  <1> HIDE DEF m, s
  <1>4. m \in Seq(SymbolRec) /\ Len(m) = n + 1 /\ DOMAIN m = 1 .. n + 1
    BY <1>1, <1>2, <1>3
  <1>5. m[1] = s /\ \A i \in 2 .. n + 1 : m[i] = l[i - 1]
    BY <1>1, <1>2, <1>3
  <1>6. \A i \in 1 .. n : l[i].string # name
    BY <1>2 DEF CanAdd, Defined, Places
  <1>7. \A i \in 2 .. n + 1 : i - 1 \in 1 .. n /\ m[i].string # name
    BY <1>2, <1>5, <1>6
  <1>8. m \in SymbolLists
    <2>1. ASSUME NEW i \in 1 .. n + 1, NEW j \in 1 .. n + 1, m[i].string = m[j].string
          PROVE  i = j
      <3>1. CASE i = 1 /\ j # 1
        <4>1. j \in 2 .. n + 1
          BY <1>2, <3>1
        <4> QED
          BY <1>1, <1>5, <1>7, <2>1, <3>1, <4>1
      <3>2. CASE j = 1 /\ i # 1
        <4>1. i \in 2 .. n + 1
          BY <1>2, <3>2
        <4> QED
          BY <1>1, <1>5, <1>7, <2>1, <3>2, <4>1
      <3>3. CASE i # 1 /\ j # 1
        <4>1. i \in 2 .. n + 1 /\ j \in 2 .. n + 1
          BY <1>2, <3>3
        <4>2. l[i - 1].string = l[j - 1].string /\ i - 1 \in DOMAIN l /\ j - 1 \in DOMAIN l
          BY <1>2, <1>5, <1>7, <2>1, <4>1
        <4>3. i - 1 = j - 1
          BY <4>2, ListFacts
        <4> QED
          BY <1>2, <4>3
      <3> QED
        BY <3>1, <3>2, <3>3
    <2> QED
      BY <1>4, <2>1 DEF SymbolLists, SymbolRec, UniqueNames
  <1>9. ValueOf(m, name) = value /\ Defined(m, name)
    <2>1. 1 \in DOMAIN m /\ m[1].string = name /\ m[1].value = value
      BY <1>1, <1>2, <1>4, <1>5
    <2> QED
      BY <1>8, <2>1, Found
  <1>10. ASSUME NEW x, Defined(l, x)
         PROVE  x # name /\ Defined(m, x) /\ ValueOf(m, x) = ValueOf(l, x)
    <2>1. PICK i \in DOMAIN l : l[i].string = x /\ ValueOf(l, x) = l[i].value
      BY <1>10, Finds
    <2>2. i + 1 \in 2 .. n + 1 /\ i + 1 \in DOMAIN m /\ i + 1 - 1 = i
      BY <1>2, <1>4
    <2>3. m[i + 1] = l[i]
      BY <1>5, <2>2
    <2> QED
      BY <1>2, <1>6, <1>8, <2>1, <2>2, <2>3, Found
  <1>11. ASSUME NEW x, Defined(m, x), x # name PROVE Defined(l, x)
    <2>1. PICK i \in DOMAIN m : m[i].string = x
      BY <1>11 DEF Defined, Places
    <2>2. i \in 2 .. n + 1
      BY <1>1, <1>2, <1>4, <1>5, <1>11, <2>1
    <2>3. i - 1 \in DOMAIN l /\ l[i - 1].string = x
      BY <1>2, <1>5, <1>7, <2>1, <2>2
    <2> QED
      BY <2>3 DEF Defined, Places
  <1> QED
    BY <1>8, <1>9, <1>10, <1>11 DEF m

(* Deleting a binding leaves the others too.                               *)
LEMMA Deleted ==
  ASSUME NEW l \in SymbolLists, NEW name
  PROVE  LET m == DelSymbol(l, name) IN
         /\ m \in SymbolLists
         /\ \A x : Defined(m, x) <=> x # name /\ Defined(l, x)
         /\ \A x : Defined(m, x) => ValueOf(m, x) = ValueOf(l, x)
  <1> DEFINE n == Len(l)
             m == DelSymbol(l, name)
  <1>1. l \in Seq(SymbolRec) /\ n \in Nat /\ DOMAIN l = 1 .. n
    BY ListFacts
  <1>2. CASE ~Defined(l, name)
    BY <1>2 DEF DelSymbol
  <1>3. CASE Defined(l, name)
    <2>1. PICK k \in 1 .. n : l[k].string = name /\ Min(Places(l, name)) = k
      BY <1>1, <1>3, Finds
    <2>2. m = SubSeq(l, 1, k - 1) \o SubSeq(l, k + 1, n)
      BY <1>3, <2>1 DEF DelSymbol, RemoveAt
    <2> HIDE DEF m
    <2> DEFINE from == [i \in 1 .. n - 1 |-> IF i < k THEN i ELSE i + 1]
    <2>3. /\ \A i \in 1 .. n - 1 : from[i] \in 1 .. n /\ from[i] # k
          /\ \A i, j \in 1 .. n - 1 : from[i] = from[j] => i = j
          /\ \A i \in 1 .. n : i # k => \E j \in 1 .. n - 1 : from[j] = i
      <3>1. \A i \in 1 .. n : i # k =>
              IF i < k THEN i \in 1 .. n - 1 ELSE i - 1 \in 1 .. n - 1 /\ ~(i - 1 < k) /\ i - 1 + 1 = i
        BY <1>1
      <3>2. ASSUME NEW i \in 1 .. n, i # k PROVE \E j \in 1 .. n - 1 : from[j] = i
        <4>1. CASE i < k
          BY <3>1, <3>2, <4>1
        <4>2. CASE ~(i < k)
          <5>1. i - 1 \in 1 .. n - 1 /\ from[i - 1] = i
            BY <3>1, <3>2, <4>2
          <5> QED
            BY <5>1
        <4> QED
          BY <4>1, <4>2
      <3> QED
        BY <1>1, <3>2
    <2>4. /\ m \in Seq(SymbolRec) /\ Len(m) = n - 1 /\ DOMAIN m = 1 .. n - 1
          /\ \A i \in 1 .. n - 1 : m[i] = l[from[i]]
      <3>0. Len(l) = n
        OBVIOUS
      <3> HIDE DEF n
      <3> DEFINE a == SubSeq(l, 1, k - 1)
                 b == SubSeq(l, k + 1, n)
      <3>2. /\ a \in Seq(SymbolRec) /\ b \in Seq(SymbolRec)
            /\ Len(a) = k - 1 /\ Len(b) = n - k
            /\ \A i \in 1 .. k - 1 : a[i] = l[i]
            /\ \A i \in 1 .. n - k : b[i] = l[k + i]
            /\ m = a \o b
        <4>1. a \in Seq(SymbolRec) /\ Len(a) = k - 1 /\ \A i \in 1 .. k - 1 : a[i] = l[i]
          <5>1. 1 \in Int /\ k - 1 \in Int /\ \A i \in 1 .. k - 1 : i \in DOMAIN l /\ 1 + i - 1 = i
            BY <1>1
          <5> QED
            BY <1>1, <5>1
        <4>2. b \in Seq(SymbolRec) /\ Len(b) = n - k
          BY <1>1, <3>0
        <4>3. \A i \in 1 .. n - k : b[i] = l[k + i]
          BY <1>1, <3>0
        <4> QED
          BY <2>2, <4>1, <4>2, <4>3
      <3> HIDE DEF a, b
      <3>3. m \in Seq(SymbolRec) /\ Len(m) = n - 1
        <4>3. a \in Seq(SymbolRec) /\ b \in Seq(SymbolRec) /\ m = a \o b
          BY <3>2
        <4>1. m \in Seq(SymbolRec) /\ Len(m) = Len(a) + Len(b)
          BY <4>3
        <4>2. (k - 1) + (n - k) = n - 1
          BY <1>1
        <4> QED
          BY <3>2, <4>1, <4>2
      <3>4. ASSUME NEW i \in 1 .. n - 1 PROVE m[i] = l[from[i]]
        <4>1. CASE i < k
          BY <1>1, <3>2, <4>1
        <4>2. CASE ~(i < k)
          <5>1. m[i] = b[i - (k - 1)] /\ i - (k - 1) \in 1 .. n - k
            BY <1>1, <3>2, <4>2
          <5>2. k + (i - (k - 1)) = i + 1 /\ from[i] = i + 1
            BY <1>1, <4>2
          <5> QED
            BY <3>2, <5>1, <5>2
        <4> QED
          BY <4>1, <4>2
      <3> QED
        BY <1>1, <3>3, <3>4
    <2> HIDE DEF from
    <2>5. m \in SymbolLists
      <3>1. ASSUME NEW i \in 1 .. n - 1, NEW j \in 1 .. n - 1, m[i].string = m[j].string
            PROVE  i = j
        <4>1. l[from[i]].string = l[from[j]].string /\ from[i] \in DOMAIN l /\ from[j] \in DOMAIN l
          BY <1>1, <2>3, <2>4, <3>1
        <4> QED
          BY <2>3, <4>1, ListFacts
      <3> QED
        BY <2>4, <3>1 DEF SymbolLists, SymbolRec, UniqueNames
    <2>6. ASSUME NEW x, Defined(m, x)
          PROVE  x # name /\ Defined(l, x) /\ ValueOf(m, x) = ValueOf(l, x)
      <3>1. PICK i \in 1 .. n - 1 : m[i].string = x /\ ValueOf(m, x) = m[i].value
        BY <2>4, <2>5, <2>6, Finds
      <3>2. from[i] \in DOMAIN l /\ from[i] # k /\ m[i] = l[from[i]] /\ k \in DOMAIN l
        BY <1>1, <2>3, <2>4
      <3>3. Defined(l, x) /\ ValueOf(l, x) = l[from[i]].value
        BY <3>1, <3>2, Found
      <3>4. x # name
        BY <2>1, <3>1, <3>2, ListFacts
      <3> QED
        BY <3>1, <3>2, <3>3, <3>4
    <2>7. ASSUME NEW x, Defined(l, x), x # name PROVE Defined(m, x)
      <3>1. PICK i \in 1 .. n : l[i].string = x
        BY <1>1, <2>7 DEF Defined, Places
      <3>2. PICK j \in 1 .. n - 1 : from[j] = i
        BY <2>1, <2>3, <2>7, <3>1
      <3>3. j \in DOMAIN m /\ m[j].string = x
        BY <2>4, <3>1, <3>2
      <3> QED
        BY <3>3 DEF Defined, Places
    <2> QED
      BY <2>5, <2>6, <2>7 DEF m
  <1> QED
    BY <1>2, <1>3
-----------------------------------------------------------------------------
(* Parsing.                                                                *)
ArgType == {"REG", "SYMBOL", "INT", "STRING", "LABEL", "SYS_CONST", "UNKNOWN"}
ArgRec ==
  {a \in [type : ArgType, val : Int, reg : Nat, label : Spelling, string : Seq(Nat)] :
     a.type = "LABEL" => a.label # NoName}
Names  == [seen : SUBSET Conventions, barked : BOOLEAN]
Operands == [args : Seq(ArgRec), names : Names]

LEMMA TruncateInt == \A x \in Int : Truncate(x) \in Int /\ Signed(x, WordSize) \in Int
  <1>1. ByteSize \in Nat /\ ByteSize > 0
    BY ByteAssumption
  <1>2. HwordSize \in Nat /\ HwordSize > 0
    BY <1>1 DEF HwordSize
  <1>3. WordSize \in Nat /\ WordSize > 0
    BY <1>2 DEF WordSize
  <1>4. ASSUME NEW x \in Int PROVE Signed(x, WordSize) \in Int
    <2>1. x % WordSize \in Int
      BY <1>3
    <2> QED
      BY <1>3, <2>1 DEF Signed
  <1> QED
    BY <1>4 DEF Truncate

(* A register whose convention is refused is taken for a symbol; from then *)
(* on none is refused.                                                     *)
Refused(tok) == Arg("SYMBOL", 0, 0, tok.name, <<>>)
NoMoreBarks  == [seen |-> {}, barked |-> TRUE]
PlainArg(tok) == FindArg(NoMoreBarks, tok)

LEMMA NamesKept ==
  ASSUME NEW conv \in Names, NEW c \in Conventions
  PROVE  /\ FindReg(conv, c) \in Names
         /\ conv.barked => FindReg(conv, c).barked /\ ~Barks(conv, c)
         /\ Barks(conv, c) => FindReg(conv, c).barked
  <1>1. Mixed(conv.seen, c) \in BOOLEAN
    BY DEF Mixed
  <1>2. [seen |-> conv.seen \cup {c}, barked |-> Mixed(conv.seen, c)] \in Names
    BY <1>1 DEF Names
  <1>3. FindReg(conv, c) \in Names
    BY <1>2 DEF FindReg
  <1>4. conv.barked => FindReg(conv, c) = conv
    BY DEF FindReg
  <1>5. conv.barked \in BOOLEAN /\ FindReg(conv, c).barked \in BOOLEAN
    BY <1>3 DEF Names
  <1> QED
    BY <1>3, <1>4, <1>5 DEF Barks

LEMMA ArgFound ==
  ASSUME NEW conv \in Names, NEW tok \in Token
  PROVE  /\ FindArg(conv, tok) \in ArgRec
         /\ \/ FindArg(conv, tok) = PlainArg(tok)
            \/ tok.kind = "reg" /\ Barks(conv, tok.convention) /\ FindArg(conv, tok) = Refused(tok)
  <1>1. /\ tok.num \in Nat /\ tok.name \in Spelling /\ tok.chars \in Seq(Nat)
        /\ tok.convention \in Conventions /\ tok.kind \in Kind
        /\ tok.kind = "label" => tok.name # NoName
    BY DEF Token
  <1>2. Integer(tok) \in Int
    <2>1. (IF tok.neg THEN -tok.num ELSE tok.num) \in Int
      BY <1>1
    <2> QED
      BY <2>1, TruncateInt DEF Integer
  <1>3. NoMoreBarks \in Names /\ ~Barks(NoMoreBarks, tok.convention)
    BY <1>1, NamesKept DEF NoMoreBarks, Names
  <1>4. <<>> \in Seq(Nat) /\ NoName \in Spelling
    BY DEF Spelling
  <1>5. /\ Arg("REG", 0, tok.num, NoName, <<>>) \in ArgRec
        /\ Arg("INT", Integer(tok), 0, NoName, <<>>) \in ArgRec
        /\ Arg("INT", tok.num, 0, NoName, <<>>) \in ArgRec
        /\ Arg("SYS_CONST", tok.num, 0, NoName, <<>>) \in ArgRec
    BY <1>1, <1>2, <1>4 DEF Arg, ArgRec, ArgType
  <1>9. /\ Arg("STRING", 0, 0, NoName, tok.chars) \in ArgRec
        /\ tok.kind = "label" => Arg("LABEL", 0, 0, tok.name, <<>>) \in ArgRec
        /\ Arg("SYMBOL", 0, 0, tok.name, <<>>) \in ArgRec
    BY <1>1, <1>4 DEF Arg, ArgRec, ArgType
  <1>6. CASE tok.kind = "reg" /\ ~Barks(conv, tok.convention)
    <2>1. FindArg(conv, tok) = Arg("REG", 0, tok.num, NoName, <<>>) /\ PlainArg(tok) = FindArg(conv, tok)
      BY <1>3, <1>6 DEF FindArg, PlainArg
    <2> QED
      BY <1>5, <2>1
  <1>7. CASE tok.kind = "reg" /\ Barks(conv, tok.convention)
    <2>1. FindArg(conv, tok) = Refused(tok)
      BY <1>7 DEF FindArg, Refused
    <2> QED
      BY <1>7, <1>9, <2>1 DEF Refused
  <1>8. CASE tok.kind # "reg"
    <2>1. FindArg(conv, tok) = PlainArg(tok)
      BY <1>8 DEF FindArg, PlainArg
    <2>2. \/ FindArg(conv, tok) = Arg("INT", Integer(tok), 0, NoName, <<>>)
          \/ FindArg(conv, tok) = Arg("INT", tok.num, 0, NoName, <<>>)
          \/ FindArg(conv, tok) = Arg("STRING", 0, 0, NoName, tok.chars)
          \/ tok.kind = "label" /\ FindArg(conv, tok) = Arg("LABEL", 0, 0, tok.name, <<>>)
          \/ FindArg(conv, tok) = Arg("SYS_CONST", tok.num, 0, NoName, <<>>)
          \/ FindArg(conv, tok) = Arg("SYMBOL", 0, 0, tok.name, <<>>)
      BY <1>8 DEF FindArg
    <2> QED
      BY <1>5, <1>9, <2>1, <2>2
  <1> QED
    BY <1>6, <1>7, <1>8

LEMMA NextFound ==
  ASSUME NEW st \in Operands, NEW tok \in Token
  PROVE  /\ FindNext(st, tok) \in Operands
         /\ FindNext(st, tok).args = Append(st.args, FindArg(st.names, tok))
         /\ st.names.barked => FindNext(st, tok).names.barked
         /\ tok.kind = "reg" /\ Barks(st.names, tok.convention)
              => FindNext(st, tok).names.barked /\ ~st.names.barked
  <1>1. st.args \in Seq(ArgRec) /\ st.names \in Names /\ tok.convention \in Conventions
    BY DEF Operands, Token
  <1>2. Append(st.args, FindArg(st.names, tok)) \in Seq(ArgRec)
    BY <1>1, ArgFound
  <1>3. FindReg(st.names, tok.convention) \in Names
    BY <1>1, NamesKept
  <1> QED
    BY <1>1, <1>2, <1>3, NamesKept DEF FindNext, Operands

LEMMA OperandsChain ==
  ASSUME NEW b \in Operands, NEW s \in Seq(Token)
  PROVE  \E c \in [0 .. Len(s) -> Operands] :
           /\ c[0] = b
           /\ \A k \in 1 .. Len(s) : c[k] = FindNext(c[k - 1], s[k])
           /\ FoldLeft(FindNext, b, s) = c[Len(s)]
  <1> DEFINE T == Operands
             n == Len(s)
             P(f) == f = [r \in SUBSET DOMAIN s |->
                            IF r = {} THEN b ELSE FindNext(f[r \ {Max(r)}], s[Max(r)])]
             h == CHOOSE f : P(f)
             F == [k \in 1 .. n |-> [t \in T |-> FindNext(t, s[k])]]
  <1>1. b \in T
    OBVIOUS
  <1>2. DOMAIN s = 1 .. n /\ \A k \in 1 .. n : s[k] \in Token
    OBVIOUS
  <1>3. n \in Nat
    OBVIOUS
  <1>4. FoldLeft(FindNext, b, s) = h[DOMAIN s]
    BY DEF FoldLeft, MapThenFoldSet
  <1>5. F \in Steps(n, T)
    BY <1>2, NextFound DEF Steps
  <1>6. \A k \in 1 .. n, t \in T : F[k][t] = FindNext(t, s[k])
    BY <1>2
  <1> HIDE DEF P, F, n, T
  <1>7. PICK g : g \in FoldFunctions(T, b, n, F)
    BY <1>1, <1>3, <1>5, FoldExists
  <1>8. /\ g \in [SUBSET (1 .. n) -> T]
        /\ \A r \in SUBSET (1 .. n) :
             g[r] = IF r = {} THEN b ELSE F[Max(r)][g[r \ {Max(r)}]]
    BY <1>7 DEF FoldFunctions
  <1>9. \A r \in SUBSET (1 .. n) : r # {} => Max(r) \in 1 .. n /\ r \ {Max(r)} \in SUBSET (1 .. n)
    BY <1>3, MaxMember
  <1>10. P(g)
    BY <1>2, <1>6, <1>8, <1>9 DEF P
  <1>11. P(h)
    BY <1>10
  <1> HIDE DEF h
  <1>12. h[{}] = b
    BY <1>11 DEF P
  <1>13. \A r \in SUBSET (1 .. n) :
           r # {} => h[r] = FindNext(h[r \ {Max(r)}], s[Max(r)])
    BY <1>2, <1>11 DEF P
  <1>14. TakesSteps(h, T, b, n, F)
    BY <1>6, <1>9, <1>12, <1>13 DEF TakesSteps
  <1>15. PICK c : c \in Chains(T, b, n, F) /\ c[n] = h[1 .. n]
    BY <1>1, <1>3, <1>5, <1>14, FoldChain
  <1>16. /\ c \in [0 .. n -> T] /\ c[0] = b
         /\ \A k \in 1 .. n : c[k] = F[k][c[k - 1]] /\ c[k - 1] \in T
    BY <1>3, <1>15 DEF Chains
  <1>17. \A k \in 1 .. n : c[k] = FindNext(c[k - 1], s[k])
    BY <1>6, <1>16
  <1> QED
    BY <1>2, <1>4, <1>15, <1>16, <1>17 DEF n, T

(* The operands of a line: each is what it is spelled like, or a register  *)
(* refused, and that happens only if none was refused before.              *)
LEMMA ArgsFound ==
  ASSUME NEW conv \in Names, NEW toks \in Seq(Token)
  PROVE  LET f == FindArgs(conv, toks) IN
         /\ f.args \in Seq(ArgRec) /\ Len(f.args) = Len(toks) /\ f.names \in Names
         /\ conv.barked => f.names.barked
         /\ \A i \in 1 .. Len(toks) :
              \/ f.args[i] = PlainArg(toks[i])
              \/ /\ toks[i].kind = "reg" /\ f.args[i] = Refused(toks[i])
                 /\ ~conv.barked /\ f.names.barked
  <1> DEFINE n == Len(toks)
             b == [args |-> <<>>, names |-> conv]
             Sound(k, x) ==
               /\ Len(x.args) = k
               /\ conv.barked => x.names.barked
               /\ \A i \in 1 .. k :
                    \/ x.args[i] = PlainArg(toks[i])
                    \/ /\ toks[i].kind = "reg" /\ x.args[i] = Refused(toks[i])
                       /\ ~conv.barked /\ x.names.barked
  <1>1. b \in Operands
    BY DEF Operands
  <1>2. PICK c \in [0 .. n -> Operands] :
          /\ c[0] = b
          /\ \A k \in 1 .. n : c[k] = FindNext(c[k - 1], toks[k])
          /\ FindArgs(conv, toks) = c[n]
    BY <1>1, OperandsChain DEF FindArgs
  <1>3. n \in Nat /\ \A k \in 1 .. n : toks[k] \in Token
    OBVIOUS
  <1> HIDE DEF n
  <1>4. Sound(0, c[0])
    BY <1>2
  <1>5. ASSUME NEW k \in 1 .. n, Sound(k - 1, c[k - 1]) PROVE Sound(k, c[k])
    <2> DEFINE x == c[k - 1]
               y == c[k]
    <2>1. x \in Operands /\ y = FindNext(x, toks[k]) /\ toks[k] \in Token /\ k - 1 \in Nat
      BY <1>2, <1>3
    <2>2. x.args \in Seq(ArgRec) /\ x.names \in Names /\ Len(x.args) = k - 1
      BY <1>5, <2>1 DEF Operands
    <2> HIDE DEF x, y
    <2> DEFINE a == FindArg(x.names, toks[k])
    <2>3. y.args = Append(x.args, a) /\ a \in ArgRec
      BY <2>1, <2>2, NextFound, ArgFound
    <2>4. /\ x.names.barked => y.names.barked
          /\ \/ a = PlainArg(toks[k])
             \/ /\ toks[k].kind = "reg" /\ a = Refused(toks[k])
                /\ ~x.names.barked /\ y.names.barked
      <3>1. \/ a = PlainArg(toks[k])
            \/ /\ toks[k].kind = "reg" /\ Barks(x.names, toks[k].convention)
               /\ a = Refused(toks[k])
        BY <2>1, <2>2, ArgFound
      <3>2. /\ x.names.barked => y.names.barked
            /\ toks[k].kind = "reg" /\ Barks(x.names, toks[k].convention)
                 => y.names.barked /\ ~x.names.barked
        BY <2>1, NextFound
      <3> QED
        BY <3>1, <3>2
    <2> HIDE DEF a
    <2>5. Len(y.args) = k /\ y.args[k] = a /\ \A i \in 1 .. k - 1 : y.args[i] = x.args[i]
      BY <1>3, <2>2, <2>3 DEF a
    <2>6. Sound(k - 1, x)
      BY <1>5 DEF x
    <2>7. Sound(k, y)
      <3>1. ASSUME NEW i \in 1 .. k
            PROVE  \/ y.args[i] = PlainArg(toks[i])
                   \/ /\ toks[i].kind = "reg" /\ y.args[i] = Refused(toks[i])
                      /\ ~conv.barked /\ y.names.barked
        <4>1. CASE i = k
          BY <2>4, <2>5, <2>6, <4>1
        <4>2. CASE i # k
          <5>1. i \in 1 .. k - 1
            BY <1>3, <4>2
          <5> QED
            BY <2>4, <2>5, <2>6, <5>1
        <4> QED
          BY <4>1, <4>2
      <3> QED
        BY <2>4, <2>5, <2>6, <3>1
    <2> QED
      BY <2>7 DEF y
  <1> DEFINE G == {k \in 0 .. n : Sound(k, c[k])}
  <1> HIDE DEF Sound
  <1>6. 0 \in G /\ \A k \in 1 .. n : k - 1 \in G => k \in G
    BY <1>3, <1>4, <1>5
  <1> HIDE DEF G
  <1>7. n \in G
    <2>1. \A k \in 0 .. n : k \in G
      BY <1>3, <1>6, BoundedInduction
    <2> QED
      BY <1>3, <2>1
  <1>8. Sound(n, c[n])
    BY <1>7 DEF G
  <1>9. c[n] \in Operands
    BY <1>2, <1>3
  <1> QED
    BY <1>2, <1>8, <1>9 DEF Sound, n, Operands

(* What the tokens of a program are read as.                               *)
LEMMA PlainFound ==
  ASSUME NEW tok \in Token, ArgOK(tok)
  PROVE  /\ PlainArg(tok).type = "SYMBOL" => tok.kind = "symbol" /\ PlainArg(tok).label = tok.name
         /\ tok.kind = "reg" => PlainArg(tok).type = "REG"
         /\ Refused(tok).type = "SYMBOL" /\ Refused(tok).label = tok.name
  <1>1. NoMoreBarks \in Names /\ tok.convention \in Conventions /\ tok.kind \in Kind
    BY DEF NoMoreBarks, Names, Token
  <1>2. ~Barks(NoMoreBarks, tok.convention) /\ tok.kind # "bad"
    BY <1>1, NamesKept DEF NoMoreBarks, ArgOK
  <1> QED
    BY <1>1, <1>2 DEF PlainArg, FindArg, Arg, Kind, Refused

SourceLine(raw) == raw \in Line /\ ToSet(raw.args) \subseteq Tokens

LEMMA CommentsOff ==
  ASSUME NEW raw \in Line
  PROVE  /\ RemoveComments(raw).args \in Seq(Token)
         /\ StmntOK(RemoveComments(raw)) => RemoveComments(raw) = raw
  <1> DEFINE cut == {i \in DOMAIN raw.args : Cut(raw.args[i])}
             kept == SubSeq(raw.args, 1, Min(cut) - 1)
  <1>1. raw.args \in Seq(Token) /\ Bad \in Token /\ DOMAIN raw.args = 1 .. Len(raw.args)
    <2>1. NoName \in Spelling /\ <<>> \in Seq(Nat)
      BY DEF Spelling
    <2> QED
      BY <2>1 DEF Line, Bad, Token, Kind, Conventions
  <1>2. CASE cut = {}
    BY <1>1, <1>2 DEF RemoveComments
  <1>3. CASE cut # {}
    <2>1. Min(cut) \in 1 .. Len(raw.args)
      <3>1. cut \in SUBSET (1 .. Len(raw.args)) /\ Len(raw.args) \in Nat
        BY <1>1
      <3>2. \E x \in cut : \A y \in cut : x <= y
        BY <1>3, <3>1, LeastMember
      <3> HIDE DEF cut
      <3>3. Min(cut) \in cut
        BY <3>2 DEF Min
      <3> QED
        BY <3>1, <3>3
    <2>2. RemoveComments(raw) = [raw EXCEPT !.rest = NoName, !.args = Append(kept, Bad)]
      BY <1>3 DEF RemoveComments
    <2> HIDE DEF cut
    <2>3. kept \in Seq(Token)
      BY <1>1, <2>1
    <2> HIDE DEF kept
    <2>4. RemoveComments(raw).args = Append(kept, Bad)
      BY <2>2 DEF Line
    <2>5. /\ Append(kept, Bad) \in Seq(Token)
          /\ Len(kept) + 1 \in DOMAIN Append(kept, Bad) /\ Append(kept, Bad)[Len(kept) + 1] = Bad
      BY <1>1, <2>3
    <2>6. ~ArgOK(Bad)
      BY DEF ArgOK, Bad
    <2> QED
      BY <2>4, <2>5, <2>6 DEF StmntOK
  <1> QED
    BY <1>2, <1>3

ReadAs(raw, conv) == Stmnt(raw.label, raw.op, FindArgs(conv, raw.args).args)

LEMMA ParseCases ==
  ASSUME NEW raw \in Line, NEW c, NEW conv \in Names
  PROVE  LET p == ParseStr(raw, c, conv)
             s == ReadAs(raw, conv)
         IN  /\ p.ok \in BOOLEAN
             /\ p.names \in Names /\ (conv.barked => p.names.barked)
             /\ p.ok =>
                  /\ StmntOK(raw) /\ p.names = FindArgs(conv, raw.args).names
                  /\ IF raw.op = "DEFINE"
                     THEN ConstOK(s, c) /\ p.stmnt = s /\ p.constants = MakeConst(s, c)
                     ELSE SubstOK(s, c) /\ p.stmnt = SubstConst(s, c) /\ p.constants = c
             /\ ~p.ok => p.constants = c
  <1> DEFINE text == RemoveComments(raw)
             g == FindArgs(conv, text.args)
             t == Stmnt(text.label, text.op, g.args)
             p == ParseStr(raw, c, conv)
  <1>1. text.args \in Seq(Token) /\ (StmntOK(text) => text = raw)
    BY CommentsOff
  <1>2. g.names \in Names /\ (conv.barked => g.names.barked)
    BY <1>1, ArgsFound
  <1>3. /\ p = IF ~StmntOK(text) THEN Parsed(FALSE, EmptyStmnt, c, conv)
               ELSE IF text.op = "DEFINE" /\ ConstOK(t, c)
               THEN Parsed(TRUE, t, MakeConst(t, c), g.names)
               ELSE IF text.op # "DEFINE" /\ SubstOK(t, c)
               THEN Parsed(TRUE, SubstConst(t, c), c, g.names)
               ELSE Parsed(FALSE, t, c, g.names)
    BY DEF ParseStr
  <1>4. StmntOK(text) => t = ReadAs(raw, conv) /\ g = FindArgs(conv, raw.args)
    BY <1>1 DEF ReadAs
  <1> DEFINE Goal ==
               /\ p.ok \in BOOLEAN
               /\ p.names \in Names /\ (conv.barked => p.names.barked)
               /\ p.ok =>
                    /\ StmntOK(text) /\ p.names = g.names
                    /\ IF text.op = "DEFINE"
                       THEN ConstOK(t, c) /\ p.stmnt = t /\ p.constants = MakeConst(t, c)
                       ELSE SubstOK(t, c) /\ p.stmnt = SubstConst(t, c) /\ p.constants = c
               /\ ~p.ok => p.constants = c
  <1> HIDE DEF text, g, t, p
  <1>6. ASSUME ~StmntOK(text) PROVE Goal
    <2>1. p = Parsed(FALSE, EmptyStmnt, c, conv)
      BY <1>3, <1>6
    <2>2. ~p.ok /\ p.ok \in BOOLEAN /\ p.constants = c /\ p.names = conv
      BY <2>1 DEF Parsed
    <2> QED
      BY <2>2
  <1>7. ASSUME StmntOK(text) /\ text.op = "DEFINE" /\ ConstOK(t, c) PROVE Goal
    <2>1. p = Parsed(TRUE, t, MakeConst(t, c), g.names)
      BY <1>3, <1>7
    <2>2. p.ok /\ p.ok \in BOOLEAN /\ p.stmnt = t /\ p.constants = MakeConst(t, c) /\ p.names = g.names
      BY <2>1 DEF Parsed
    <2> QED
      BY <1>2, <1>7, <2>2
  <1>8. ASSUME StmntOK(text) /\ text.op # "DEFINE" /\ SubstOK(t, c) PROVE Goal
    <2>1. p = Parsed(TRUE, SubstConst(t, c), c, g.names)
      BY <1>3, <1>8
    <2>2. p.ok /\ p.ok \in BOOLEAN /\ p.stmnt = SubstConst(t, c) /\ p.constants = c /\ p.names = g.names
      BY <2>1 DEF Parsed
    <2> QED
      BY <1>2, <1>8, <2>2
  <1>9. ASSUME /\ StmntOK(text) /\ ~(text.op = "DEFINE" /\ ConstOK(t, c))
               /\ ~(text.op # "DEFINE" /\ SubstOK(t, c))
        PROVE  Goal
    <2>1. p = Parsed(FALSE, t, c, g.names)
      BY <1>3, <1>9
    <2>2. ~p.ok /\ p.ok \in BOOLEAN /\ p.constants = c /\ p.names = g.names
      BY <2>1 DEF Parsed
    <2> QED
      BY <1>2, <2>2
  <1>10. Goal
    BY <1>6, <1>7, <1>8, <1>9
  <1>11. p.ok => t = ReadAs(raw, conv) /\ g = FindArgs(conv, raw.args) /\ text = raw
    BY <1>1, <1>4, <1>10
  <1>12. /\ p.ok \in BOOLEAN
         /\ p.names \in Names /\ (conv.barked => p.names.barked)
         /\ ~p.ok => p.constants = c
    BY <1>10
  <1>13. p.ok =>
           /\ StmntOK(raw) /\ p.names = FindArgs(conv, raw.args).names
           /\ IF raw.op = "DEFINE"
              THEN ConstOK(ReadAs(raw, conv), c) /\ p.stmnt = ReadAs(raw, conv)
                   /\ p.constants = MakeConst(ReadAs(raw, conv), c)
              ELSE SubstOK(ReadAs(raw, conv), c) /\ p.stmnt = SubstConst(ReadAs(raw, conv), c)
                   /\ p.constants = c
    BY <1>10, <1>11
  <1> QED
    BY <1>12, <1>13 DEF p

(* The operands of an accepted line.                                       *)
LEMMA ReadArgs ==
  ASSUME NEW raw \in Line, StmntOK(raw), NEW conv \in Names
  PROVE  LET s == ReadAs(raw, conv) IN
         /\ s.op = raw.op /\ s.label = raw.label
         /\ s.args \in Seq(ArgRec) /\ Len(s.args) = Len(raw.args) /\ DOMAIN s.args = DOMAIN raw.args
         /\ \A i \in DOMAIN raw.args :
              \/ s.args[i] = PlainArg(raw.args[i])
              \/ /\ raw.args[i].kind = "reg" /\ s.args[i] = Refused(raw.args[i])
                 /\ ~conv.barked /\ FindArgs(conv, raw.args).names.barked
         /\ \A i \in DOMAIN raw.args :
              /\ raw.args[i] \in Token /\ ArgOK(raw.args[i])
              /\ s.args[i].type = "SYMBOL" => s.args[i].label = raw.args[i].name
  <1> DEFINE s == ReadAs(raw, conv)
             f == FindArgs(conv, raw.args)
  <1>1. raw.args \in Seq(Token) /\ DOMAIN raw.args = 1 .. Len(raw.args)
    BY DEF Line
  <1>2. \A i \in DOMAIN raw.args : raw.args[i] \in Token /\ ArgOK(raw.args[i])
    BY <1>1 DEF StmntOK
  <1>3. s.op = raw.op /\ s.label = raw.label /\ s.args = f.args
    BY DEF ReadAs, Stmnt
  <1> HIDE DEF s
  <1>4. /\ f.args \in Seq(ArgRec) /\ Len(f.args) = Len(raw.args)
        /\ \A i \in 1 .. Len(raw.args) :
              \/ f.args[i] = PlainArg(raw.args[i])
              \/ /\ raw.args[i].kind = "reg" /\ f.args[i] = Refused(raw.args[i])
                 /\ ~conv.barked /\ f.names.barked
    BY <1>1, ArgsFound
  <1> HIDE DEF f
  <1>5. DOMAIN f.args = DOMAIN raw.args
    BY <1>1, <1>4
  <1>6. \A i \in DOMAIN raw.args :
           f.args[i].type = "SYMBOL" => f.args[i].label = raw.args[i].name
    BY <1>1, <1>2, <1>4, PlainFound
  <1> QED
    BY <1>1, <1>2, <1>3, <1>4, <1>5, <1>6 DEF s, f

(* A definition of a constant takes the place of an earlier one.           *)
LEMMA MadeConst ==
  ASSUME NEW c \in SymbolLists, NEW s, Arg0(s).label \in Spelling, ConstValue(s, c) \in Int
  PROVE  LET m == MakeConst(s, c) IN
         /\ m \in SymbolLists
         /\ \A x : Defined(m, x) <=> x = Arg0(s).label \/ Defined(c, x)
         /\ ValueOf(m, Arg0(s).label) = ConstValue(s, c)
         /\ \A x : x # Arg0(s).label /\ Defined(c, x) => ValueOf(m, x) = ValueOf(c, x)
  <1> DEFINE n == Arg0(s).label
             v == ConstValue(s, c)
             d == DelSymbol(c, n)
             m == AddSymbol(d, n, v)
  <1>1. /\ d \in SymbolLists
        /\ \A x : Defined(d, x) <=> x # n /\ Defined(c, x)
        /\ \A x : Defined(d, x) => ValueOf(d, x) = ValueOf(c, x)
    BY Deleted
  <1>2. n \in Spelling /\ v \in Int /\ CanAdd(d, n) /\ MakeConst(s, c) = m
    BY <1>1 DEF CanAdd, MakeConst
  <1> HIDE DEF n, v, d
  <1>3. /\ m \in SymbolLists
        /\ \A x : Defined(m, x) <=> x = n \/ Defined(d, x)
        /\ ValueOf(m, n) = v
        /\ \A x : Defined(d, x) => x # n /\ ValueOf(m, x) = ValueOf(d, x)
    BY <1>1, <1>2, Added
  <1> HIDE DEF m
  <1>4. /\ \A x : Defined(m, x) <=> x = n \/ Defined(c, x)
        /\ \A x : x # n /\ Defined(c, x) => ValueOf(m, x) = ValueOf(c, x)
    BY <1>1, <1>3
  <1> QED
    BY <1>2, <1>3, <1>4 DEF n, v

(* What is bound in c is bound to the same in d.                           *)
Agree(c, d) == \A x : Defined(c, x) => Defined(d, x) /\ ValueOf(d, x) = ValueOf(c, x)

(* The bindings and conventions a line may be met with: a name that looks  *)
(* like a register was bound only after a register was refused.            *)
Context(c, conv) ==
  /\ c \in SymbolLists /\ conv \in Names
  /\ \A x \in NamesOf("reg") : Defined(c, x) => conv.barked

LEMMA RegName ==
  ASSUME NEW raw, SourceLine(raw), NEW i \in DOMAIN raw.args
  PROVE  /\ raw.args[i].kind = "reg" => raw.args[i].name \in NamesOf("reg")
         /\ raw.args[i].kind = "symbol" => raw.args[i].name \notin NamesOf("reg")
  <1>1. raw.args[i] \in Tokens
    BY DEF SourceLine, ToSet
  <1>2. \A k : raw.args[i].kind = k => raw.args[i].name \in NamesOf(k)
    BY <1>1 DEF NamesOf
  <1> QED
    BY <1>2, SourceAssumption

(* The name a definition binds, and the value.                             *)
LEMMA ConstRead ==
  ASSUME NEW raw, SourceLine(raw), StmntOK(raw), NEW c, NEW conv, Context(c, conv),
         ConstOK(ReadAs(raw, conv), c)
  PROVE  LET s == ReadAs(raw, conv) IN
         /\ Arg0(s) = s.args[1] /\ Arg1(s) = s.args[2]
         /\ 1 \in DOMAIN raw.args /\ 2 \in DOMAIN raw.args
         /\ Arg0(s).label = raw.args[1].name /\ Arg0(s).label \in Spelling
         /\ ConstValue(s, c) \in Int
  <1> DEFINE s == ReadAs(raw, conv)
  <1>1. raw \in Line /\ conv \in Names /\ c \in SymbolLists
    BY DEF SourceLine, Context
  <1>2. /\ s.args \in Seq(ArgRec) /\ DOMAIN s.args = DOMAIN raw.args
        /\ \A i \in DOMAIN raw.args : s.args[i].type = "SYMBOL" => s.args[i].label = raw.args[i].name
    BY <1>1, ReadArgs
  <1> HIDE DEF s
  <1>3. ConstOK(s, c)
    BY DEF s
  <1>4. Arg0(s).type = "SYMBOL" /\ Arg1(s).type \in {"INT", "SYMBOL"}
    BY <1>3 DEF ConstOK
  <1>5. UnknownArg.type = "UNKNOWN"
    BY DEF UnknownArg, Arg
  <1>6. Len(s.args) > 1 /\ Len(s.args) \in Nat
    <2>1. Len(s.args) > 1
      BY <1>4, <1>5 DEF Arg1
    <2> QED
      BY <1>2, <2>1
  <1>7. Arg0(s) = s.args[1] /\ Arg1(s) = s.args[2] /\ 1 \in DOMAIN s.args /\ 2 \in DOMAIN s.args
    BY <1>2, <1>6 DEF Arg0, Arg1
  <1>8. s.args[1] \in ArgRec /\ s.args[2] \in ArgRec
    BY <1>2, <1>7
  <1>9. Arg0(s).label \in Spelling /\ Arg1(s).val \in Int
    BY <1>7, <1>8 DEF ArgRec
  <1>10. ConstValue(s, c) \in Int
    BY <1>1, <1>9, ValueInt DEF ConstValue
  <1> QED
    BY <1>2, <1>4, <1>7, <1>9, <1>10 DEF s

(* Parsing a line leaves bindings and conventions of which the same holds. *)
LEMMA ParsedContext ==
  ASSUME NEW raw, SourceLine(raw), NEW c, NEW conv, Context(c, conv)
  PROVE  LET p == ParseStr(raw, c, conv) IN
         /\ Context(p.constants, p.names) /\ (conv.barked => p.names.barked)
         /\ p.ok => /\ StmntOK(raw) /\ p.stmnt.op = raw.op /\ p.stmnt.label = raw.label
                    /\ p.stmnt.args \in Seq(ArgRec)
                    /\ p.stmnt = Stmnt(raw.label, raw.op, p.stmnt.args)
  <1> DEFINE p == ParseStr(raw, c, conv)
             s == ReadAs(raw, conv)
  <1>1. raw \in Line /\ conv \in Names /\ c \in SymbolLists
    BY DEF SourceLine, Context
  <1>2. /\ p.names \in Names /\ (conv.barked => p.names.barked)
        /\ p.ok =>
             /\ StmntOK(raw) /\ p.names = FindArgs(conv, raw.args).names
             /\ IF raw.op = "DEFINE"
                THEN ConstOK(s, c) /\ p.stmnt = s /\ p.constants = MakeConst(s, c)
                ELSE SubstOK(s, c) /\ p.stmnt = SubstConst(s, c) /\ p.constants = c
        /\ ~p.ok => p.constants = c
    BY <1>1, ParseCases
  <1>3. StmntOK(raw) =>
         /\ s.op = raw.op /\ s.label = raw.label
         /\ s.args \in Seq(ArgRec) /\ DOMAIN s.args = DOMAIN raw.args
         /\ \A i \in DOMAIN raw.args :
              \/ s.args[i] = PlainArg(raw.args[i])
              \/ /\ raw.args[i].kind = "reg" /\ s.args[i] = Refused(raw.args[i])
                 /\ ~conv.barked /\ FindArgs(conv, raw.args).names.barked
    BY <1>1, ReadArgs
  <1> HIDE DEF p
  <1>4. CASE p.constants = c /\ ~p.ok
    BY <1>2, <1>4 DEF Context, p
  <1>5. CASE p.ok /\ raw.op # "DEFINE"
    <2>1. p.stmnt = SubstConst(s, c) /\ p.constants = c /\ StmntOK(raw)
      BY <1>2, <1>5
    <2>2. s.args \in Seq(ArgRec) /\ s = Stmnt(raw.label, raw.op, s.args)
      BY <1>3, <2>1 DEF ReadAs, Stmnt
    <2> DEFINE b(i) == [s.args[i] EXCEPT !.type = "INT", !.val = ValueOf(c, s.args[i].label)]
               a == [i \in DOMAIN s.args |->
                       IF s.args[i].type = "SYMBOL" THEN b(i) ELSE s.args[i]]
    <2> HIDE DEF s
    <2>3. SubstConst(s, c) = [s EXCEPT !.args = a]
      BY <2>2 DEF SubstConst, Stmnt
    <2>4. a \in Seq(ArgRec)
      <3>1. Len(s.args) \in Nat /\ DOMAIN s.args = 1 .. Len(s.args)
        BY <2>2
      <3>2. ASSUME NEW i \in DOMAIN s.args PROVE b(i) \in ArgRec /\ s.args[i] \in ArgRec
        <4>1. s.args[i] \in ArgRec /\ ValueOf(c, s.args[i].label) \in Int
          BY <1>1, <2>2, ValueInt
        <4>2. b(i) \in ArgRec
          BY <4>1 DEF ArgRec, ArgType
        <4> QED
          BY <4>1, <4>2
      <3> HIDE DEF b
      <3>3. \A i \in DOMAIN s.args : a[i] \in ArgRec
        BY <3>2
      <3>4. DOMAIN a = DOMAIN s.args /\ a = [i \in DOMAIN s.args |-> a[i]]
        OBVIOUS
      <3> HIDE DEF a
      <3> QED
        BY <3>1, <3>3, <3>4
    <2> HIDE DEF a
    <2>5. /\ p.stmnt.op = raw.op /\ p.stmnt.label = raw.label /\ p.stmnt.args = a
          /\ p.stmnt = Stmnt(raw.label, raw.op, a)
      BY <2>1, <2>2, <2>3 DEF Stmnt
    <2>6. Context(p.constants, p.names)
      BY <1>2, <2>1 DEF Context
    <2> QED
      BY <1>2, <2>1, <2>4, <2>5, <2>6 DEF p
  <1>6. CASE p.ok /\ raw.op = "DEFINE"
    <2>1. /\ StmntOK(raw) /\ ConstOK(s, c) /\ p.stmnt = s /\ p.constants = MakeConst(s, c)
          /\ p.names = FindArgs(conv, raw.args).names
      BY <1>2, <1>6
    <2>2. /\ Arg0(s) = s.args[1] /\ 1 \in DOMAIN raw.args
          /\ Arg0(s).label = raw.args[1].name /\ Arg0(s).label \in Spelling
          /\ ConstValue(s, c) \in Int /\ Arg0(s).type = "SYMBOL"
      BY <2>1, ConstRead DEF ConstOK
    <2>3. /\ p.constants \in SymbolLists
          /\ \A x : Defined(p.constants, x) => x = Arg0(s).label \/ Defined(c, x)
      BY <1>1, <2>1, <2>2, MadeConst
    <2>4. raw.args[1].name \in NamesOf("reg") => p.names.barked
      <3>1. raw.args[1] \in Token /\ ArgOK(raw.args[1])
        BY <1>1, <2>1, <2>2, ReadArgs
      <3>2. CASE s.args[1] = PlainArg(raw.args[1])
        <4>1. raw.args[1].kind = "symbol"
          BY <2>2, <3>1, <3>2, PlainFound
        <4> QED
          BY <2>2, <4>1, RegName
      <3> QED
        BY <1>3, <2>1, <2>2, <3>2
    <2>5. \A x \in NamesOf("reg") : Defined(p.constants, x) => p.names.barked
      BY <1>2, <2>2, <2>3, <2>4 DEF Context
    <2>6. s = Stmnt(raw.label, raw.op, s.args)
      BY DEF s, ReadAs, Stmnt
    <2> QED
      BY <1>2, <1>3, <2>1, <2>3, <2>5, <2>6 DEF Context, p
  <1>7. p.ok \in BOOLEAN
    BY <1>1, ParseCases DEF p
  <1> QED
    BY <1>2, <1>4, <1>5, <1>6, <1>7

(* In a line that is no definition no register is refused: its name would  *)
(* have to be bound, and then another one was refused before.              *)
LEMMA AllPlain ==
  ASSUME NEW raw, SourceLine(raw), StmntOK(raw), NEW c, NEW conv, Context(c, conv),
         SubstOK(ReadAs(raw, conv), c)
  PROVE  \A i \in DOMAIN raw.args : ReadAs(raw, conv).args[i] = PlainArg(raw.args[i])
  <1> DEFINE s == ReadAs(raw, conv)
  <1> SUFFICES ASSUME NEW i \in DOMAIN raw.args, s.args[i] # PlainArg(raw.args[i])
               PROVE  FALSE
    OBVIOUS
  <1>1. raw \in Line /\ conv \in Names
    BY DEF SourceLine, Context
  <1>2. /\ DOMAIN s.args = DOMAIN raw.args /\ raw.args[i] \in Token /\ ArgOK(raw.args[i])
        /\ raw.args[i].kind = "reg" /\ s.args[i] = Refused(raw.args[i]) /\ ~conv.barked
    BY <1>1, ReadArgs
  <1>3. s.args[i].type = "SYMBOL" /\ s.args[i].label = raw.args[i].name
    BY <1>2, PlainFound
  <1> HIDE DEF s
  <1>4. SubstOK(s, c)
    BY DEF s
  <1>5. Defined(c, raw.args[i].name)
    BY <1>2, <1>3, <1>4 DEF SubstOK
  <1>6. raw.args[i].name \in NamesOf("reg")
    BY <1>2, RegName
  <1> QED
    BY <1>2, <1>5, <1>6 DEF Context

(* Two passes that accept a line read it alike.                            *)
LEMMA SubstSame ==
  ASSUME NEW raw, SourceLine(raw), StmntOK(raw),
         NEW c, NEW conv, Context(c, conv), SubstOK(ReadAs(raw, conv), c),
         NEW d, NEW later, Context(d, later), SubstOK(ReadAs(raw, later), d), Agree(c, d)
  PROVE  SubstConst(ReadAs(raw, conv), c) = SubstConst(ReadAs(raw, later), d)
  <1> DEFINE s == ReadAs(raw, conv)
             t == ReadAs(raw, later)
  <1>1. raw \in Line /\ conv \in Names /\ later \in Names
    BY DEF SourceLine, Context
  <1>2. /\ s.args \in Seq(ArgRec) /\ Len(s.args) = Len(raw.args) /\ DOMAIN s.args = DOMAIN raw.args
        /\ t.args \in Seq(ArgRec) /\ Len(t.args) = Len(raw.args) /\ DOMAIN t.args = DOMAIN raw.args
    BY <1>1, ReadArgs
  <1>3. \A i \in DOMAIN raw.args : s.args[i] = PlainArg(raw.args[i]) /\ t.args[i] = PlainArg(raw.args[i])
    BY AllPlain
  <1>4. s = Stmnt(raw.label, raw.op, s.args) /\ t = Stmnt(raw.label, raw.op, t.args)
    BY DEF ReadAs, Stmnt
  <1>5. SubstOK(s, c)
    OBVIOUS
  <1> HIDE DEF s, t
  <1>6. s.args = t.args
    BY <1>2, <1>3
  <1>7. s = t
    BY <1>4, <1>6
  <1>8. \A i \in DOMAIN s.args : s.args[i].type = "SYMBOL" =>
          ValueOf(d, s.args[i].label) = ValueOf(c, s.args[i].label)
    BY <1>5 DEF SubstOK, Agree
  <1> DEFINE b(v, i) == [s.args[i] EXCEPT !.type = "INT", !.val = v]
  <1>9. SubstConst(s, c) = [s EXCEPT !.args =
          [i \in DOMAIN s.args |-> IF s.args[i].type = "SYMBOL"
                                   THEN b(ValueOf(c, s.args[i].label), i) ELSE s.args[i]]]
    BY <1>4 DEF SubstConst, Stmnt
  <1>10. SubstConst(s, d) = [s EXCEPT !.args =
          [i \in DOMAIN s.args |-> IF s.args[i].type = "SYMBOL"
                                   THEN b(ValueOf(d, s.args[i].label), i) ELSE s.args[i]]]
    BY <1>4 DEF SubstConst, Stmnt
  <1> HIDE DEF b
  <1>11. [i \in DOMAIN s.args |-> IF s.args[i].type = "SYMBOL"
                                 THEN b(ValueOf(c, s.args[i].label), i) ELSE s.args[i]]
         = [i \in DOMAIN s.args |-> IF s.args[i].type = "SYMBOL"
                                   THEN b(ValueOf(d, s.args[i].label), i) ELSE s.args[i]]
    BY <1>8
  <1>12. SubstConst(s, c) = SubstConst(s, d)
    BY <1>9, <1>10, <1>11
  <1> QED
    BY <1>7, <1>12 DEF s, t

LEMMA ConstSame ==
  ASSUME NEW raw, SourceLine(raw), StmntOK(raw),
         NEW c, NEW conv, Context(c, conv), ConstOK(ReadAs(raw, conv), c),
         NEW d, NEW later, Context(d, later), ConstOK(ReadAs(raw, later), d), Agree(c, d)
  PROVE  Agree(MakeConst(ReadAs(raw, conv), c), MakeConst(ReadAs(raw, later), d))
  <1> DEFINE s == ReadAs(raw, conv)
             t == ReadAs(raw, later)
  <1>1. /\ raw \in Line /\ conv \in Names /\ later \in Names
        /\ c \in SymbolLists /\ d \in SymbolLists
    BY DEF SourceLine, Context
  <1>2. /\ Arg1(s) = s.args[2] /\ Arg1(t) = t.args[2] /\ 2 \in DOMAIN raw.args
        /\ Arg0(s).label = raw.args[1].name /\ Arg0(t).label = raw.args[1].name
        /\ raw.args[1].name \in Spelling
        /\ ConstValue(s, c) \in Int /\ ConstValue(t, d) \in Int
    BY ConstRead
  <1> DEFINE tok == raw.args[2]
  <1>3. /\ s.args[2] = PlainArg(tok) \/ (tok.kind = "reg" /\ s.args[2] = Refused(tok))
        /\ t.args[2] = PlainArg(tok) \/ (tok.kind = "reg" /\ t.args[2] = Refused(tok))
        /\ tok \in Token /\ ArgOK(tok)
    BY <1>1, <1>2, ReadArgs
  <1>4. ConstOK(s, c) /\ ConstOK(t, d)
    OBVIOUS
  <1> HIDE DEF s, t, tok
  <1>5. /\ PlainArg(tok).type = "SYMBOL" => PlainArg(tok).label = tok.name
        /\ tok.kind = "reg" => PlainArg(tok).type = "REG"
        /\ Refused(tok).type = "SYMBOL" /\ Refused(tok).label = tok.name
    BY <1>3, PlainFound
  <1>6. /\ \/ Arg1(s).type = "INT"
           \/ Arg1(s).type = "SYMBOL" /\ Defined(c, Arg1(s).label)
        /\ \/ Arg1(t).type = "INT"
           \/ Arg1(t).type = "SYMBOL" /\ Defined(d, Arg1(t).label)
    BY <1>4 DEF ConstOK
  <1>7. \/ Arg1(s) = Arg1(t)
        \/ Arg1(s).type = "SYMBOL" /\ Arg1(t).type = "SYMBOL" /\ Arg1(s).label = Arg1(t).label
    BY <1>2, <1>3, <1>5, <1>6
  <1>8. ConstValue(s, c) = ConstValue(t, d)
    <2>1. Arg1(s).type = Arg1(t).type /\ (Arg1(s).type = "SYMBOL" => Arg1(s).label = Arg1(t).label)
      BY <1>7
    <2>2. CASE Arg1(s).type = "INT"
      BY <1>7, <2>1, <2>2 DEF ConstValue
    <2>3. CASE Arg1(s).type # "INT"
      <3>1. Defined(c, Arg1(s).label) /\ Arg1(s).label = Arg1(t).label
        BY <1>6, <2>1, <2>3
      <3>2. ValueOf(d, Arg1(s).label) = ValueOf(c, Arg1(s).label)
        BY <3>1 DEF Agree
      <3> QED
        BY <2>1, <2>3, <3>1, <3>2 DEF ConstValue
    <2> QED
      BY <2>2, <2>3
  <1> DEFINE n == raw.args[1].name
             m == MakeConst(s, c)
             k == MakeConst(t, d)
  <1> HIDE DEF n
  <1>9. Arg0(s).label = n /\ Arg0(t).label = n /\ n \in Spelling
    BY <1>2 DEF n
  <1>10. /\ \A x : Defined(m, x) <=> x = n \/ Defined(c, x)
         /\ ValueOf(m, n) = ConstValue(s, c)
         /\ \A x : x # n /\ Defined(c, x) => ValueOf(m, x) = ValueOf(c, x)
    BY <1>1, <1>2, <1>9, MadeConst
  <1>11. /\ \A x : Defined(k, x) <=> x = n \/ Defined(d, x)
         /\ ValueOf(k, n) = ConstValue(t, d)
         /\ \A x : x # n /\ Defined(d, x) => ValueOf(k, x) = ValueOf(d, x)
    BY <1>1, <1>2, <1>9, MadeConst
  <1> HIDE DEF m, k
  <1>12. Agree(m, k)
    <2> SUFFICES ASSUME NEW x, Defined(m, x)
                 PROVE  Defined(k, x) /\ ValueOf(k, x) = ValueOf(m, x)
      BY DEF Agree
    <2>1. CASE x = n
      BY <1>8, <1>10, <1>11, <2>1
    <2>2. CASE x # n
      <3>1. Defined(c, x)
        BY <1>10, <2>2
      <3>2. Defined(d, x) /\ ValueOf(d, x) = ValueOf(c, x)
        BY <3>1 DEF Agree
      <3> QED
        BY <1>10, <1>11, <2>2, <3>1, <3>2
    <2> QED
      BY <2>1, <2>2
  <1> QED
    BY <1>12 DEF m, k, s, t

LEMMA ParsedSame ==
  ASSUME NEW raw, SourceLine(raw),
         NEW c, NEW conv, Context(c, conv), ParseStr(raw, c, conv).ok,
         NEW d, NEW later, Context(d, later), ParseStr(raw, d, later).ok, Agree(c, d)
  PROVE  /\ Agree(ParseStr(raw, c, conv).constants, ParseStr(raw, d, later).constants)
         /\ raw.op # "DEFINE" => ParseStr(raw, c, conv).stmnt = ParseStr(raw, d, later).stmnt
  <1> DEFINE p == ParseStr(raw, c, conv)
             q == ParseStr(raw, d, later)
  <1>1. raw \in Line /\ conv \in Names /\ later \in Names
    BY DEF SourceLine, Context
  <1>2. /\ StmntOK(raw)
        /\ IF raw.op = "DEFINE"
           THEN ConstOK(ReadAs(raw, conv), c) /\ p.constants = MakeConst(ReadAs(raw, conv), c)
           ELSE /\ SubstOK(ReadAs(raw, conv), c)
                /\ p.stmnt = SubstConst(ReadAs(raw, conv), c) /\ p.constants = c
    BY <1>1, ParseCases
  <1>3. IF raw.op = "DEFINE"
        THEN ConstOK(ReadAs(raw, later), d) /\ q.constants = MakeConst(ReadAs(raw, later), d)
        ELSE /\ SubstOK(ReadAs(raw, later), d)
             /\ q.stmnt = SubstConst(ReadAs(raw, later), d) /\ q.constants = d
    BY <1>1, ParseCases
  <1> HIDE DEF p, q
  <1>4. CASE raw.op = "DEFINE"
    <2>1. Agree(MakeConst(ReadAs(raw, conv), c), MakeConst(ReadAs(raw, later), d))
      BY <1>2, <1>3, <1>4, ConstSame
    <2>2. Agree(p.constants, q.constants)
      BY <1>2, <1>3, <1>4, <2>1
    <2> QED
      BY <1>4, <2>2 DEF p, q
  <1>5. CASE raw.op # "DEFINE"
    <2>1. SubstConst(ReadAs(raw, conv), c) = SubstConst(ReadAs(raw, later), d)
      BY <1>2, <1>3, <1>5, SubstSame
    <2>2. Agree(p.constants, q.constants) /\ p.stmnt = q.stmnt
      BY <1>2, <1>3, <1>5, <2>1
    <2> QED
      BY <2>2 DEF p, q
  <1> QED
    BY <1>4, <1>5
-----------------------------------------------------------------------------
(* The passes.  What the first one has met: h[n] is what line n was parsed *)
(* with.                                                                   *)
StmntRec == [label : Spelling, op : STRING, args : Seq(ArgRec)]

Met(c, n) == [constants |-> c, names |-> n]

Checked(lines, stmnts, h, n) ==
  LET p == ParseStr(lines[n], h[n].constants, h[n].names)
  IN  p.ok /\ stmnts[n] = p.stmnt /\ h[n + 1] = Met(p.constants, p.names)

FirstPass(lines, stmnts, h, end) ==
  /\ h[1].constants = <<>>
  /\ \A n \in 1 .. end : Context(h[n].constants, h[n].names)
  /\ \A n \in 1 .. end - 1 : Checked(lines, stmnts, h, n)

(* From the second pass on constants only gain bindings the first pass had *)
(* at the same line.                                                       *)
PassInv ==
  /\ program \in Programs
  /\ line \in 1 .. Len(program) + 1
  /\ Context(constantList, names)
  /\ phase = "check" =>
       /\ checked \in Seq(StmntRec) /\ Len(checked) = line - 1
       /\ \E h : FirstPass(program, checked, h, line) /\ h[line] = Met(constantList, names)
  /\ phase \in {"text", "data"} =>
       \E h : FirstPass(program, checked, h, Len(program) + 1) /\ Agree(h[line].constants, constantList)

LEMMA ProgramLines ==
  ASSUME PassInv
  PROVE  /\ Len(program) \in Nat /\ line \in Nat
         /\ \A n \in 1 .. Len(program) : SourceLine(program[n])
  <1>1. program \in Seq(Line) /\ DOMAIN program = 1 .. Len(program) /\ Len(program) \in Nat
    BY SourceAssumption DEF PassInv
  <1>2. ASSUME NEW n \in 1 .. Len(program)
        PROVE  SourceLine(program[n])
    <2>1. program[n] \in Line /\ n \in DOMAIN program
      BY <1>1
    <2>2. ToSet(program[n].args) \subseteq Tokens
      BY <2>1 DEF PassInv, Tokens
    <2> QED
      BY <2>1, <2>2 DEF SourceLine
  <1> QED
    BY <1>1, <1>2 DEF PassInv

(* Whatever is assembled of a line, it has been parsed, or the assembler   *)
(* fails.                                                                  *)
LEMMA LineRead ==
  ASSUME TextLine \/ DataLine
  PROVE  /\ phase \in {"text", "data"} /\ line <= Len(program)
         /\ Reads /\ UNCHANGED <<program, checked>>
         /\ \/ Fail
            \/ Here.ok /\ Go
         /\ placed' # placed => Here.ok /\ ~Directive
  <1>1. CASE TextLine
    BY <1>1 DEF TextLine, AtLine, Unparsed, Pass, Place
  <1>2. CASE DataLine
    BY <1>2 DEF DataLine, AtLine, Unparsed, Pass, Place
  <1> QED
    BY <1>1, <1>2

LEMMA PassInit == BuildInit => PassInv
  <1> SUFFICES ASSUME BuildInit PROVE PassInv
    OBVIOUS
  <1>1. /\ phase = "check" /\ program \in Programs /\ line = 1 /\ constantList = <<>>
        /\ names = [seen |-> {}, barked |-> FALSE] /\ checked = <<>>
    BY DEF BuildInit, Init
  <1>2. Len(program) \in Nat
    BY <1>1, SourceAssumption
  <1>3. Context(<<>>, names)
    BY <1>1, EmptyList DEF Context, Names
  <1> DEFINE h == [n \in Nat |-> Met(<<>>, names)]
  <1>4. h[1] = Met(<<>>, names)
    OBVIOUS
  <1> HIDE DEF h
  <1>5. FirstPass(program, checked, h, 1)
    BY <1>3, <1>4 DEF FirstPass, Met
  <1>6. checked \in Seq(StmntRec) /\ Len(checked) = 0
    BY <1>1
  <1> QED
    BY <1>1, <1>2, <1>3, <1>4, <1>5, <1>6 DEF PassInv

LEMMA CheckStep == PassInv /\ CheckLine => PassInv'
  <1> SUFFICES ASSUME PassInv, CheckLine PROVE PassInv'
    OBVIOUS
  <1>1. /\ phase = "check" /\ line \in 1 .. Len(program) /\ program \in Programs
        /\ Context(constantList, names) /\ SourceLine(program[line])
        /\ Len(program) \in Nat
    BY ProgramLines DEF CheckLine, AtLine, PassInv
  <1>2. /\ constantList' = Here.constants /\ names' = Here.names /\ program' = program
        /\ checked' = Append(checked, S)
        /\ \/ Here.ok /\ phase' = "check" /\ line' = line + 1
           \/ phase' = "failed" /\ line' = line
    BY <1>1 DEF CheckLine, Reads, Go, Fail
  <1>3. /\ Context(Here.constants, Here.names)
        /\ Here.ok => S = Stmnt(program[line].label, program[line].op, S.args)
                      /\ S.args \in Seq(ArgRec)
    BY <1>1, ParsedContext DEF Here, S
  <1>4. Context(constantList, names)'
    BY <1>2, <1>3 DEF Context
  <1>5. CASE phase' = "failed" /\ line' = line
    BY <1>1, <1>2, <1>4, <1>5 DEF PassInv
  <1>6. CASE Here.ok /\ phase' = "check" /\ line' = line + 1
    <2>1. PICK h : FirstPass(program, checked, h, line) /\ h[line] = Met(constantList, names)
      BY <1>1 DEF PassInv
    <2>2. checked \in Seq(StmntRec) /\ Len(checked) = line - 1
      BY <1>1 DEF PassInv
    <2>3. S \in StmntRec
      <3>1. program[line] \in Line
        BY <1>1 DEF SourceLine
      <3> QED
        BY <1>3, <1>6, <3>1 DEF StmntRec, Stmnt, Line
    <2>4. /\ checked' \in Seq(StmntRec) /\ Len(checked') = line /\ checked'[line] = S
          /\ \A n \in 1 .. line - 1 : checked'[n] = checked[n]
      BY <1>1, <1>2, <2>2, <2>3
    <2> DEFINE g == [n \in Nat |-> IF n = line + 1 THEN Met(Here.constants, Here.names) ELSE h[n]]
    <2>5. /\ g[line + 1] = Met(Here.constants, Here.names)
          /\ \A n \in 1 .. line : g[n] = h[n]
      BY <1>1
    <2> HIDE DEF g
    <2>6. /\ h[1].constants = <<>>
          /\ \A n \in 1 .. line : Context(h[n].constants, h[n].names)
          /\ \A n \in 1 .. line - 1 : Checked(program, checked, h, n)
      BY <2>1 DEF FirstPass
    <2>7. Checked(program, checked', g, line)
      <3>1. Here = ParseStr(program[line], g[line].constants, g[line].names)
        BY <1>1, <2>1, <2>5 DEF Here, Met
      <3> QED
        BY <1>2, <1>6, <2>4, <2>5, <3>1 DEF Checked, S
    <2>8. ASSUME NEW n \in 1 .. line - 1 PROVE Checked(program, checked', g, n)
      <3>1. n \in 1 .. line /\ n + 1 \in 1 .. line
        BY <1>1
      <3>2. g[n] = h[n] /\ g[n + 1] = h[n + 1] /\ checked'[n] = checked[n]
        BY <2>4, <2>5, <3>1
      <3>3. Checked(program, checked, h, n)
        BY <2>6
      <3> QED
        BY <3>2, <3>3 DEF Checked
    <2>9. \A n \in 1 .. line : Checked(program, checked', g, n)
      <3>1. \A n \in 1 .. line : n = line \/ n \in 1 .. line - 1
        BY <1>1
      <3> QED
        BY <2>7, <2>8, <3>1
    <2>10. \A n \in 1 .. line + 1 : Context(g[n].constants, g[n].names)
      <3>1. \A n \in 1 .. line + 1 : n = line + 1 \/ n \in 1 .. line
        BY <1>1
      <3>2. Context(g[line + 1].constants, g[line + 1].names)
        BY <1>3, <2>5 DEF Met
      <3> QED
        BY <2>5, <2>6, <3>1, <3>2
    <2>11. FirstPass(program, checked', g, line + 1)
      <3>1. g[1].constants = <<>>
        BY <1>1, <2>5, <2>6
      <3>2. \A n \in 1 .. (line + 1) - 1 : Checked(program, checked', g, n)
        <4>1. 1 .. (line + 1) - 1 = 1 .. line
          BY <1>1
        <4> QED
          BY <2>9, <4>1
      <3> QED
        BY <2>10, <3>1, <3>2 DEF FirstPass
    <2>12. g[line + 1] = Met(constantList', names')
      BY <1>2, <2>5
    <2>13. /\ checked' \in Seq(StmntRec) /\ Len(checked') = (line + 1) - 1
           /\ line + 1 \in 1 .. Len(program) + 1
      BY <1>1, <2>4
    <2> QED
      BY <1>1, <1>2, <1>4, <1>6, <2>11, <2>12, <2>13 DEF PassInv
  <1> QED
    BY <1>2, <1>5, <1>6

(* What a later pass reads with the bindings it has, the first one read    *)
(* with fewer.                                                             *)
LEMMA LaterPass ==
  ASSUME PassInv, phase \in {"text", "data"}, line <= Len(program), Here.ok
  PROVE  /\ ParseStr(program[line], constantList, names).stmnt.op # "DEFINE" => S = checked[line]
         /\ \E h : /\ FirstPass(program, checked, h, Len(program) + 1)
                  /\ Agree(h[line + 1].constants, Here.constants)
  <1>1. /\ line \in 1 .. Len(program) /\ Len(program) \in Nat
        /\ SourceLine(program[line]) /\ Context(constantList, names)
    BY ProgramLines DEF PassInv
  <1>2. PICK h : FirstPass(program, checked, h, Len(program) + 1) /\ Agree(h[line].constants, constantList)
    BY DEF PassInv
  <1>3. Context(h[line].constants, h[line].names) /\ Checked(program, checked, h, line)
    <2>1. line \in 1 .. Len(program) + 1 /\ line \in 1 .. (Len(program) + 1) - 1
      BY <1>1
    <2> QED
      BY <1>2, <2>1 DEF FirstPass
  <1> DEFINE raw == program[line]
             p == ParseStr(raw, h[line].constants, h[line].names)
             q == ParseStr(raw, constantList, names)
  <1>4. p.ok /\ checked[line] = p.stmnt /\ h[line + 1] = Met(p.constants, p.names)
    BY <1>3 DEF Checked
  <1>5. Here = q /\ S = q.stmnt /\ q.ok
    BY DEF Here, S
  <1>6. /\ Agree(p.constants, q.constants)
        /\ raw.op # "DEFINE" => p.stmnt = q.stmnt
    BY <1>1, <1>2, <1>3, <1>4, <1>5, ParsedSame
  <1>7. q.stmnt.op = raw.op
    BY <1>1, <1>5, ParsedContext
  <1> HIDE DEF p, q, raw
  <1>8. Agree(h[line + 1].constants, Here.constants)
    BY <1>4, <1>5, <1>6 DEF Met
  <1>9. q.stmnt.op # "DEFINE" => S = checked[line]
    BY <1>4, <1>5, <1>6, <1>7
  <1> QED
    BY <1>2, <1>8, <1>9 DEF q, raw

LEMMA LineStep == PassInv /\ (TextLine \/ DataLine) => PassInv'
  <1> SUFFICES ASSUME PassInv, TextLine \/ DataLine PROVE PassInv'
    OBVIOUS
  <1>1. /\ phase \in {"text", "data"} /\ line \in 1 .. Len(program) /\ Len(program) \in Nat
        /\ program \in Programs /\ Context(constantList, names) /\ SourceLine(program[line])
        /\ line <= Len(program)
    BY ProgramLines, LineRead DEF PassInv
  <1>2. /\ constantList' = Here.constants /\ names' = Here.names
        /\ program' = program /\ checked' = checked
        /\ \/ Here.ok /\ phase' = phase /\ line' = line + 1
           \/ phase' = "failed" /\ line' = line
    BY LineRead DEF Reads, Fail, Go
  <1>3. Context(Here.constants, Here.names)
    BY <1>1, ParsedContext DEF Here
  <1>4. Context(constantList', names')
    BY <1>2, <1>3
  <1>5. CASE phase' = "failed" /\ line' = line
    BY <1>1, <1>2, <1>4, <1>5 DEF PassInv, Context
  <1>6. CASE Here.ok /\ phase' = phase /\ line' = line + 1
    <2>1. PICK h : /\ FirstPass(program, checked, h, Len(program) + 1)
                   /\ Agree(h[line + 1].constants, Here.constants)
      BY <1>1, <1>6, LaterPass
    <2>2. line + 1 \in 1 .. Len(program) + 1
      BY <1>1
    <2> QED
      BY <1>1, <1>2, <1>4, <1>6, <2>1, <2>2 DEF PassInv, Context
  <1> QED
    BY <1>2, <1>5, <1>6

(* A pass ends behind the last line, and the next has yet to bind.         *)
LEMMA EndStep == PassInv /\ EndPass => PassInv'
  <1> SUFFICES ASSUME PassInv, EndPass PROVE PassInv'
    OBVIOUS
  <1>1. /\ line > Len(program) /\ Len(program) \in Nat /\ line \in 1 .. Len(program) + 1
        /\ program' = program /\ constantList' = constantList /\ names' = names
        /\ checked' = checked /\ program \in Programs /\ Context(constantList, names)
        /\ \/ phase = "check" /\ phase' = "text" /\ line' = 1
           \/ phase = "text" /\ phase' = "data" /\ line' = 1
           \/ phase = "data" /\ phase' = "patch" /\ line' = line
    BY ProgramLines DEF PassInv, EndPass
  <1>2. line = Len(program) + 1 /\ 1 \in 1 .. Len(program) + 1
    BY <1>1
  <1>3. ASSUME phase \in {"check", "text"}
        PROVE  \E h : FirstPass(program, checked, h, Len(program) + 1) /\ Agree(h[1].constants, constantList)
    <2>1. PICK h : FirstPass(program, checked, h, Len(program) + 1)
      BY <1>2, <1>3 DEF PassInv
    <2>2. h[1].constants = <<>>
      BY <2>1 DEF FirstPass
    <2>3. Agree(<<>>, constantList)
      BY EmptyList DEF Agree
    <2> QED
      BY <2>1, <2>2, <2>3
  <1> QED
    BY <1>1, <1>2, <1>3 DEF PassInv, Context

LEMMA PassNext == PassInv /\ [BuildNext]_<<vars, loadVars>> => PassInv'
  <1> SUFFICES ASSUME PassInv, [BuildNext]_<<vars, loadVars>> PROVE PassInv'
    OBVIOUS
  <1>1. CASE /\ UNCHANGED <<program, line, constantList, names, checked>>
             /\ phase' = phase \/ phase' \in {"write", "done", "failed"}
    BY <1>1 DEF PassInv, Context
  <1>2. CASE UNCHANGED vars
    BY <1>1, <1>2 DEF vars
  <1>3. CASE CheckLine
    BY <1>3, CheckStep
  <1>4. CASE TextLine \/ DataLine
    BY <1>4, LineStep
  <1>5. CASE EndPass
    BY <1>5, EndStep
  <1>6. CASE Backpatch
    BY <1>1, <1>6 DEF Backpatch
  <1>7. CASE WriteExec
    BY <1>1, <1>7 DEF WriteExec
  <1> QED
    BY <1>2, <1>3, <1>4, <1>5, <1>6, <1>7 DEF BuildNext, Assemble, Next, Load

THEOREM PassesMeetAlike == Build => []PassInv
  <1> QED
    BY PassInit, PassNext, PTL DEF Build

(* The meaning of a line that is assembled is the one that was checked:    *)
(* ant_asm_lines parses it again in every pass.                            *)
THEOREM PassesReadAlike == Build => PassesAgree
  <1> DEFINE Body == Assembled => S = checked[line]
  <1>1. PassInv /\ [BuildNext]_<<vars, loadVars>> => [Body]_<<vars, loadVars>>
    <2> SUFFICES ASSUME PassInv, [BuildNext]_<<vars, loadVars>>, Assembled PROVE S = checked[line]
      OBVIOUS
    <2>1. phase \in {"text", "data"} /\ placed' # placed
      BY DEF Assembled
    <2>2. TextLine \/ DataLine
      BY <2>1 DEF BuildNext, Assemble, Next, Load, CheckLine, EndPass, Backpatch, WriteExec, vars, AtLine
    <2>3. line <= Len(program) /\ Here.ok /\ ~Directive
      BY <2>1, <2>2, LineRead
    <2>4. S.op # "DEFINE"
      BY <2>3 DEF Directive
    <2> QED
      BY <2>1, <2>3, <2>4, LaterPass DEF S, Here
  <1>2. [][Body]_<<vars, loadVars>> => PassesAgree
    BY DEF PassesAgree
  <1> QED
    BY <1>1, <1>2, PassesMeetAlike, PTL DEF Build
-----------------------------------------------------------------------------
(* The forms of the expanded operations: each makes some whole number of   *)
(* words, of instructions that have four places.                           *)
Good(t) == t[1] = "const" => t[3] \in 0 .. 3
GoodInst(inst) == \A k \in 1 .. 4 : Good(inst[k])
IsInsts(s) == \E T : s \in Seq(T) /\ \A inst \in T : GoodInst(inst)
WellFormed(f) == f.size \in Nat /\ f.size % 4 = 0 /\ IsInsts(f.insts)
Sized(s) == \E T : s \in Seq(T) /\ \A f \in T : WellFormed(f)

LEMMA SeqGrows ==
  ASSUME NEW T, NEW U, T \subseteq U, NEW s \in Seq(T)
  PROVE  s \in Seq(U)
  <1>1. Len(s) \in Nat /\ DOMAIN s = 1 .. Len(s) /\ \A i \in 1 .. Len(s) : s[i] \in U
    OBVIOUS
  <1>2. s = [i \in 1 .. Len(s) |-> s[i]]
    OBVIOUS
  <1> QED
    BY <1>1, <1>2

LEMMA SeqJoins ==
  ASSUME NEW T, NEW U, NEW s \in Seq(T), NEW t \in Seq(U)
  PROVE  s \o t \in Seq(T \cup U)
  <1>1. s \in Seq(T \cup U) /\ t \in Seq(T \cup U)
    BY SeqGrows
  <1> QED
    BY <1>1

LEMMA SeqsJoin ==
  /\ \A s, t : IsInsts(s) /\ IsInsts(t) => IsInsts(s \o t)
  /\ \A s, t : Sized(s) /\ Sized(t) => Sized(s \o t)
  <1>1. ASSUME NEW s, NEW t, IsInsts(s), IsInsts(t) PROVE IsInsts(s \o t)
    <2>1. PICK T : s \in Seq(T) /\ \A inst \in T : GoodInst(inst)
      BY <1>1 DEF IsInsts
    <2>2. PICK U : t \in Seq(U) /\ \A inst \in U : GoodInst(inst)
      BY <1>1 DEF IsInsts
    <2>3. s \o t \in Seq(T \cup U) /\ \A inst \in T \cup U : GoodInst(inst)
      BY <2>1, <2>2, SeqJoins
    <2> QED
      BY <2>3 DEF IsInsts
  <1>2. ASSUME NEW s, NEW t, Sized(s), Sized(t) PROVE Sized(s \o t)
    <2>1. PICK T : s \in Seq(T) /\ \A f \in T : WellFormed(f)
      BY <1>2 DEF Sized
    <2>2. PICK U : t \in Seq(U) /\ \A f \in U : WellFormed(f)
      BY <1>2 DEF Sized
    <2>3. s \o t \in Seq(T \cup U) /\ \A f \in T \cup U : WellFormed(f)
      BY <2>1, <2>2, SeqJoins
    <2> QED
      BY <2>3 DEF Sized
  <1> QED
    BY <1>1, <1>2

LEMMA InstsBy ==
  ASSUME NEW T, NEW s \in Seq(T), \A inst \in T : GoodInst(inst)
  PROVE  IsInsts(s)
  BY DEF IsInsts

LEMMA Tuples ==
  /\ \A a : GoodInst(a) => IsInsts(<<a>>)
  /\ \A a, b : GoodInst(a) /\ GoodInst(b) => IsInsts(<<a, b>>)
  <1>1. ASSUME NEW a, GoodInst(a) PROVE IsInsts(<<a>>)
    <2> DEFINE T == {a}
    <2>1. <<a>> \in Seq(T) /\ \A x \in T : GoodInst(x)
      BY <1>1
    <2> HIDE DEF T
    <2> QED
      BY <2>1, InstsBy
  <1>2. ASSUME NEW a, NEW b, GoodInst(a), GoodInst(b) PROVE IsInsts(<<a, b>>)
    <2> DEFINE T == {a, b}
    <2>1. <<a, b>> \in Seq(T) /\ \A x \in T : GoodInst(x)
      BY <1>2
    <2> HIDE DEF T
    <2> QED
      BY <2>1, InstsBy
  <1> QED
    BY <1>1, <1>2

LEMMA MoreTuples ==
  /\ \A a, b, c, d : GoodInst(a) /\ GoodInst(b) /\ GoodInst(c) /\ GoodInst(d)
                       => IsInsts(<<a, b, c, d>>)
  /\ \A a, b, c, d, e, f : /\ GoodInst(a) /\ GoodInst(b) /\ GoodInst(c)
                             /\ GoodInst(d) /\ GoodInst(e) /\ GoodInst(f)
                             => IsInsts(<<a, b, c, d, e, f>>)
  <1>1. ASSUME NEW a, NEW b, NEW c, NEW d, GoodInst(a), GoodInst(b), GoodInst(c), GoodInst(d)
        PROVE  IsInsts(<<a, b, c, d>>)
    <2> DEFINE T == {a, b, c, d}
    <2>1. <<a, b, c, d>> \in Seq(T) /\ \A x \in T : GoodInst(x)
      BY <1>1
    <2> HIDE DEF T
    <2> QED
      BY <2>1, InstsBy
  <1>2. ASSUME NEW a, NEW b, NEW c, NEW d, NEW e, NEW f, GoodInst(a), GoodInst(b), GoodInst(c),
               GoodInst(d), GoodInst(e), GoodInst(f)
        PROVE  IsInsts(<<a, b, c, d, e, f>>)
    <2> DEFINE T == {a, b, c, d, e, f}
    <2>1. <<a, b, c, d, e, f>> \in Seq(T)
      OBVIOUS
    <2>2. \A x \in T : GoodInst(x)
      BY <1>2
    <2> HIDE DEF T
    <2> QED
      BY <2>1, <2>2, InstsBy
  <1> QED
    BY <1>1, <1>2

(* The places of an instruction.                                           *)
LEMMA Pieces ==
  /\ \A x : Good(Op(x)) /\ Good(Num(x)) /\ Good(RegOf(x))
  /\ Good(R0) /\ Good(RA) /\ Good(SP) /\ Good(FP) /\ Good(RV) /\ Good(RR)
  /\ \A i : Good(Byte(i, 0)) /\ Good(Byte(i, 1)) /\ Good(Byte(i, 2)) /\ Good(Byte(i, 3))
  <1>1. \A x, y : Good(<<"op", x>>) /\ Good(<<"num", x>>) /\ Good(<<"reg", x>>)
    BY DEF Good
  <1>2. \A x : \A k \in 0 .. 3 : Good(<<"const", x, k>>)
    BY DEF Good
  <1>3. Good(R0) /\ Good(RA) /\ Good(SP) /\ Good(FP) /\ Good(RV) /\ Good(RR)
    BY <1>1 DEF R0, RA, SP, FP, RV, RR
  <1>4. \A x : Good(Op(x)) /\ Good(Num(x)) /\ Good(RegOf(x))
    BY <1>1 DEF Op, Num, RegOf
  <1>5. \A i : \A k \in 0 .. 3 : Good(Byte(i, k))
    BY <1>2 DEF Byte
  <1>6. 0 \in 0 .. 3 /\ 1 \in 0 .. 3 /\ 2 \in 0 .. 3 /\ 3 \in 0 .. 3
    OBVIOUS
  <1> QED
    BY <1>3, <1>4, <1>5, <1>6

LEMMA Insts ==
  /\ \A a, b, c, d : Good(a) /\ Good(b) /\ Good(c) /\ Good(d) => GoodInst(<<a, b, c, d>>)
  /\ \A op, a, b, c : Good(a) /\ Good(b) /\ Good(c) => GoodInst(Inst(op, a, b, c))
  <1>1. ASSUME NEW a, NEW b, NEW c, NEW d, Good(a), Good(b), Good(c), Good(d)
        PROVE  GoodInst(<<a, b, c, d>>)
    <2>1. \A k \in 1 .. 4 : k = 1 \/ k = 2 \/ k = 3 \/ k = 4
      OBVIOUS
    <2> QED
      BY <1>1, <2>1 DEF GoodInst
  <1> QED
    BY <1>1, Pieces DEF Inst

LEMMA InstLists ==
  /\ \A r, i : Good(r) => IsInsts(Load16(r, i)) /\ IsInsts(Load32(r, i))
  /\ \A op : IsInsts(Using(op)) /\ IsInsts(Using2(op))
  /\ \A r : Good(r) => IsInsts(PushInsts(r))
  /\ IsInsts(EntryInsts) /\ IsInsts(ReturnInsts)
  <1>1. ASSUME NEW r, NEW i, Good(r) PROVE IsInsts(Load16(r, i)) /\ IsInsts(Load32(r, i))
    <2>1. GoodInst(Lcl(r, i)) /\ GoodInst(Lch(r, i))
      BY <1>1, Pieces, Insts DEF Lcl, Lch
    <2> QED
      BY <2>1, Tuples DEF Load16, Load32
  <1>2. \A op : IsInsts(Using(op)) /\ IsInsts(Using2(op))
    BY Pieces, Insts, Tuples DEF Using, Using2
  <1>3. \A r : Good(r) => IsInsts(PushInsts(r))
    BY Pieces, Insts, Tuples DEF PushInsts
  <1>4. IsInsts(EntryInsts)
    BY Pieces, Insts, Tuples, MoreTuples, SeqsJoin, <1>1 DEF EntryInsts
  <1>5. IsInsts(ReturnInsts)
    BY Pieces, Insts, MoreTuples DEF ReturnInsts
  <1> QED
    BY <1>1, <1>2, <1>3, <1>4, <1>5

LEMMA SizedBy ==
  ASSUME NEW T, NEW s \in Seq(T), \A f \in T : WellFormed(f)
  PROVE  Sized(s)
  BY DEF Sized

LEMMA FormSized ==
  /\ \A op, args, insts : IsInsts(insts) => WellFormed(Form(op, args, insts))
  /\ \A op, args, insts : IsInsts(insts) => Sized(<<Form(op, args, insts)>>)
  /\ \A op, args, insts, other, operands, more :
       IsInsts(insts) /\ IsInsts(more) =>
         Sized(<<Form(op, args, insts), Form(other, operands, more)>>)
  <1>1. ASSUME NEW op, NEW args, NEW insts, IsInsts(insts) PROVE WellFormed(Form(op, args, insts))
    <2>1. Len(insts) \in Nat
      BY <1>1 DEF IsInsts
    <2>2. 4 * Len(insts) \in Nat /\ (4 * Len(insts)) % 4 = 0
      BY <2>1
    <2> QED
      BY <1>1, <2>2 DEF Form, WellFormed
  <1>2. ASSUME NEW f, WellFormed(f) PROVE Sized(<<f>>)
    <2> DEFINE T == {f}
    <2>1. <<f>> \in Seq(T) /\ \A x \in T : WellFormed(x)
      BY <1>2
    <2> HIDE DEF T
    <2> QED
      BY <2>1, SizedBy
  <1>3. ASSUME NEW f, NEW g, WellFormed(f), WellFormed(g) PROVE Sized(<<f, g>>)
    <2> DEFINE T == {f, g}
    <2>1. <<f, g>> \in Seq(T) /\ \A x \in T : WellFormed(x)
      BY <1>3
    <2> HIDE DEF T
    <2> QED
      BY <2>1, SizedBy
  <1> QED
    BY <1>1, <1>2, <1>3

LEMMA FormLists ==
  ASSUME NEW op, NEW imm
  PROVE  /\ Sized(Wider(op, imm)) /\ Sized(Narrow(op, imm)) /\ Sized(Middle(op, imm))
         /\ Sized(MiddleShift(op, imm)) /\ Sized(Swapped(op, imm)) /\ Sized(Branch16(op))
         /\ Sized(Jump(op, imm))
  <1>1. Sized(Wider(op, imm))
    BY Pieces, InstLists, SeqsJoin, FormSized DEF Wider
  <1>2. Sized(Narrow(op, imm))
    BY <1>1, Pieces, Insts, Tuples, SeqsJoin, FormSized DEF Narrow
  <1>3. Sized(Middle(op, imm))
    BY Pieces, InstLists, SeqsJoin, FormSized DEF Middle
  <1>4. Sized(MiddleShift(op, imm))
    BY Pieces, InstLists, SeqsJoin, FormSized DEF MiddleShift
  <1>5. Sized(Swapped(op, imm)) /\ Sized(Branch16(op))
    BY Pieces, Insts, Tuples, FormSized DEF Swapped, Branch16
  <1>6. Sized(Jump(op, imm))
    BY Pieces, Insts, Tuples, InstLists, SeqsJoin, FormSized DEF Jump
  <1> QED
    BY <1>1, <1>2, <1>3, <1>4, <1>5, <1>6

LEMMA FormsSized == Sized(Forms)
  <1>1. ASSUME NEW a, NEW b, NEW c, NEW d, NEW e, NEW f, NEW g, NEW h, NEW i,
               WellFormed(a), WellFormed(b), WellFormed(c), WellFormed(d), WellFormed(e),
               WellFormed(f), WellFormed(g), WellFormed(h), WellFormed(i)
        PROVE  Sized(<<a, b, c, d, e, f, g, h, i>>)
    <2> DEFINE T == {a, b, c, d, e, f, g, h, i}
    <2>1. <<a, b, c, d, e, f, g, h, i>> \in Seq(T)
      OBVIOUS
    <2>2. \A x \in T : WellFormed(x)
      BY <1>1
    <2> HIDE DEF T
    <2> QED
      BY <2>1, <2>2, SizedBy
  <1>2. ASSUME NEW a, NEW b, NEW c, NEW d, NEW e, NEW f, NEW g, NEW h, NEW i, NEW j, NEW k,
               WellFormed(a), WellFormed(b), WellFormed(c), WellFormed(d), WellFormed(e),
               WellFormed(f), WellFormed(g), WellFormed(h), WellFormed(i), WellFormed(j), WellFormed(k)
        PROVE  Sized(<<a, b, c, d, e, f, g, h, i, j, k>>)
    <2> DEFINE T == {a, b, c, d, e, f, g, h, i, j, k}
    <2>1. <<a, b, c, d, e, f, g, h, i, j, k>> \in Seq(T)
      OBVIOUS
    <2>2. \A x \in T : WellFormed(x)
      BY <1>2
    <2> HIDE DEF T
    <2> QED
      BY <2>1, <2>2, SizedBy
  <1>3. ASSUME NEW op, NEW args, NEW insts, IsInsts(insts)
        PROVE  WellFormed([Form(op, args, insts) EXCEPT !.size = 12])
    <2>1. 12 \in Nat /\ 12 % 4 = 0
      OBVIOUS
    <2> QED
      BY <1>3, <2>1 DEF Form, WellFormed
  <1>4. \A s, t : Sized(s) /\ Sized(t) => Sized(s \o t)
    BY SeqsJoin
  <1>5. Sized(IntegerForms)
    BY <1>4, FormLists DEF IntegerForms
  <1>6. Sized(ShiftForms)
    BY <1>4, FormLists DEF ShiftForms
  <1>7. Sized(OtherForms)
    BY <1>4, FormLists DEF OtherForms
  <1>8. Sized(OrderForms)
    BY <1>4, FormLists DEF OrderForms
  <1>9. Sized(MoveForms)
    BY <1>1, FormSized, Pieces, Insts, Tuples, InstLists, SeqsJoin DEF MoveForms
  <1>10. Sized(CallForms)
    BY <1>2, <1>3, FormSized, Pieces, Insts, Tuples, InstLists, SeqsJoin DEF CallForms
  <1> QED
    BY <1>4, <1>5, <1>6, <1>7, <1>8, <1>9, <1>10, FormLists DEF Forms

LEMMA FormSizes == \A s : CanExpand(s) => WellFormed(FormOf(s))
  <1> SUFFICES ASSUME NEW s, CanExpand(s) PROVE WellFormed(FormOf(s))
    OBVIOUS
  <1>1. PICK T : Forms \in Seq(T) /\ \A f \in T : WellFormed(f)
    BY FormsSized DEF Sized
  <1>2. Len(Forms) \in Nat /\ DOMAIN Forms = 1 .. Len(Forms) /\ \A i \in DOMAIN Forms : Forms[i] \in T
    BY <1>1
  <1>3. Fitting(s) \in SUBSET (1 .. Len(Forms)) /\ Fitting(s) # {}
    BY <1>2 DEF Fitting, CanExpand
  <1>4. Min(Fitting(s)) \in Fitting(s)
    <2>1. \E x \in Fitting(s) : \A y \in Fitting(s) : x <= y
      BY <1>2, <1>3, LeastMember
    <2> QED
      BY <2>1 DEF Min
  <1>5. Min(Fitting(s)) \in DOMAIN Forms
    BY <1>2, <1>3, <1>4
  <1> QED
    BY <1>1, <1>2, <1>5 DEF FormOf
-----------------------------------------------------------------------------
(* What a statement takes.                                                 *)
LEMMA FirstArg ==
  ASSUME NEW s \in StmntRec
  PROVE  Arg0(s).val \in Int /\ Arg0(s).string \in Seq(Nat) /\ Len(s.args) \in Nat
  <1>1. s.args \in Seq(ArgRec) /\ Len(s.args) \in Nat
    BY DEF StmntRec
  <1>2. UnknownArg.val \in Int /\ UnknownArg.string \in Seq(Nat)
    BY DEF UnknownArg, Arg
  <1>3. Len(s.args) > 0 => s.args[1] \in ArgRec
    BY <1>1
  <1>4. \A a \in ArgRec : a.val \in Int /\ a.string \in Seq(Nat)
    BY DEF ArgRec
  <1> QED
    BY <1>1, <1>2, <1>3, <1>4 DEF Arg0

LEMMA AlignTakes ==
  ASSUME NEW s \in StmntRec, NEW offset \in Int
  PROVE  Align(s, offset).used \in Nat
  <1>1. Arg0(s).val \in Int
    BY FirstArg
  <1>2. Alignable(s) => Gap(offset, Arg0(s).val) \in Nat
    BY <1>1 DEF Alignable, Gap
  <1> QED
    BY <1>2 DEF Align, Fails, Result

LEMMA InstTakes ==
  ASSUME NEW s \in StmntRec, NEW offset \in Int, NEW known
  PROVE  AssembleInst(s, offset, known).used \in Nat
  <1>1. Len(s.args) \in Nat /\ offset \div 4 \in Int
    BY FirstArg
  <1>2. /\ Fails.used \in Nat
        /\ \A mem, unknown : \A used \in Nat : Result(mem, used, unknown).used \in Nat
    BY DEF Fails, Result
  <1>3. Align(s, offset \div 4).used \in Nat
    BY <1>1, AlignTakes
  <1>4. Expand(s, offset, known).used \in Nat
    BY <1>2, FormSizes DEF Expand, WellFormed
  <1>5. Words(s, offset, known).used \in Nat
    BY <1>1, <1>2 DEF Words
  <1>6. LchOfLabel(s, offset, known).used \in Nat
    BY <1>2 DEF LchOfLabel
  <1> QED
    BY <1>2, <1>3, <1>4, <1>5, <1>6 DEF AssembleInst

LEMMA DataTakes ==
  ASSUME NEW s \in StmntRec, NEW offset \in Int, NEW known
  PROVE  AssembleData(s, offset, known).used \in Nat
  <1>1. Len(s.args) \in Nat /\ Arg0(s).string \in Seq(Nat) /\ DOMAIN s.args = 1 .. Len(s.args)
    BY FirstArg DEF StmntRec
  <1>2. /\ Fails.used \in Nat
        /\ \A mem, unknown : \A used \in Nat : Result(mem, used, unknown).used \in Nat
    BY DEF Fails, Result
  <1>3. Len(DataBytes(s)) \in Nat
    <2>1. Len(Append(Arg0(s).string, 0)) \in Nat /\ Len(Arg0(s).string) \in Nat
      BY <1>1
    <2>2. Len([i \in DOMAIN s.args |-> ByteOf(s.args[i].val, 0)]) \in Nat
      <3> DEFINE f == [i \in DOMAIN s.args |-> ByteOf(s.args[i].val, 0)]
      <3>1. Len(f) = Len(s.args)
        BY <1>1
      <3> QED
        BY <1>1, <3>1
    <2> QED
      BY <2>1, <2>2 DEF DataBytes
  <1>4. Align(s, offset).used \in Nat
    BY AlignTakes
  <1>5. Words(s, offset, known).used \in Nat
    BY <1>1, <1>2 DEF Words
  <1> QED
    BY <1>2, <1>3, <1>4, <1>5 DEF AssembleData
-----------------------------------------------------------------------------
(* What is to be patched: the places a statement adds to the list.         *)
Entry == [string : Spelling, value : Int, type : 0 .. 3]

LEMMA Inserted ==
  ASSUME NEW l \in Seq(Entry), NEW e \in Entry
  PROVE  Insert(l, e) \in Seq(Entry) /\ ToSet(Insert(l, e)) = ToSet(l) \cup {e}
  <1> DEFINE n == Len(l)
             m == Insert(l, e)
  <1>1. n \in Nat /\ DOMAIN l = 1 .. n
    OBVIOUS
  <1>2. /\ m \in Seq(Entry) /\ Len(m) = n + 1 /\ DOMAIN m = 1 .. n + 1
        /\ m[1] = e /\ \A i \in 1 .. n : m[i + 1] = l[i]
    BY DEF Insert
  <1> HIDE DEF n, m
  <1>3. \A i \in 1 .. n + 1 : i = 1 \/ (i - 1 \in 1 .. n /\ (i - 1) + 1 = i)
    BY <1>1
  <1>4. 1 \in 1 .. n + 1 /\ \A i \in 1 .. n : i + 1 \in 1 .. n + 1
    BY <1>1
  <1>5. \A x \in ToSet(m) : x = e \/ x \in ToSet(l)
    <2> SUFFICES ASSUME NEW i \in 1 .. n + 1 PROVE m[i] = e \/ m[i] \in ToSet(l)
      BY <1>2 DEF ToSet
    <2>1. CASE i = 1
      BY <1>2, <2>1
    <2>2. CASE i # 1
      <3>1. i - 1 \in 1 .. n /\ (i - 1) + 1 = i
        BY <1>3, <2>2
      <3>2. m[i] = l[i - 1]
        BY <1>2, <3>1
      <3> QED
        BY <1>1, <3>1, <3>2 DEF ToSet
    <2> QED
      BY <2>1, <2>2
  <1>6. \A x \in ToSet(l) : x \in ToSet(m)
    BY <1>1, <1>2, <1>4 DEF ToSet
  <1>7. e \in ToSet(m)
    BY <1>2, <1>4 DEF ToSet
  <1> QED
    BY <1>2, <1>5, <1>6, <1>7 DEF m

LEMMA EntryMade ==
  \A label \in Spelling, at \in Int, k \in 0 .. 3 :
    /\ Symbol(label, at, k) \in Entry
    /\ Symbol(label, at, k).string = label /\ Symbol(label, at, k).value = at
    /\ Symbol(label, at, k).type = k
  BY DEF Symbol, Entry

(* The list got one entry more.                                           *)
Gains(m, l, e) == m \in Seq(Entry) /\ ToSet(m) = ToSet(l) \cup {e}

LEMMA Unresolved ==
  \A l \in Seq(Entry), label \in Spelling, at \in Int, k \in 0 .. 3 :
    Gains(AddUnresolved(l, label, at, k), l, Symbol(label, at, k))
  <1> TAKE l \in Seq(Entry), label \in Spelling, at \in Int, k \in 0 .. 3
  <1>1. Symbol(label, at, k) \in Entry
    BY EntryMade
  <1> QED
    BY <1>1, Inserted DEF AddUnresolved, Gains

(* The four bytes of a word.                                               *)
Fours(label, at) == {Symbol(label, at + k, k) : k \in 0 .. 3}

LEMMA FourWait ==
  ASSUME NEW l \in Seq(Entry), NEW label \in Spelling, NEW at \in Int
  PROVE  /\ WaitFor(l, label, at) \in Seq(Entry)
         /\ ToSet(WaitFor(l, label, at)) = ToSet(l) \cup Fours(label, at)
  <1> DEFINE Add(x, k) == AddUnresolved(x, label, at + k, k)
             l0 == Add(l, 0)
             l1 == Add(l0, 1)
             l2 == Add(l1, 2)
             l3 == Add(l2, 3)
  <1>1. /\ \A k \in 0 .. 3 : at + k \in Int
        /\ 0 \in 0 .. 3 /\ 1 \in 0 .. 3 /\ 2 \in 0 .. 3 /\ 3 \in 0 .. 3
    OBVIOUS
  <1>2. \A x \in Seq(Entry), k \in 0 .. 3 :
          Add(x, k) \in Seq(Entry) /\ ToSet(Add(x, k)) = ToSet(x) \cup {Symbol(label, at + k, k)}
    <2> SUFFICES ASSUME NEW x \in Seq(Entry), NEW k \in 0 .. 3
                 PROVE  Add(x, k) \in Seq(Entry) /\
                        ToSet(Add(x, k)) = ToSet(x) \cup {Symbol(label, at + k, k)}
      OBVIOUS
    <2> DEFINE place == at + k
    <2>1. place \in Int
      OBVIOUS
    <2> HIDE DEF place
    <2>2. Gains(AddUnresolved(x, label, place, k), x, Symbol(label, place, k))
      BY <2>1, Unresolved
    <2> QED
      BY <2>2 DEF place, Gains
  <1>3. WaitFor(l, label, at) = l3
    BY DEF WaitFor
  <1>4. Fours(label, at) = {Symbol(label, at + 0, 0), Symbol(label, at + 1, 1),
                            Symbol(label, at + 2, 2), Symbol(label, at + 3, 3)}
    <2>1. 0 .. 3 = {0, 1, 2, 3}
      OBVIOUS
    <2> QED
      BY <2>1 DEF Fours
  <1> HIDE DEF Add
  <1>5. l0 \in Seq(Entry) /\ ToSet(l0) = ToSet(l) \cup {Symbol(label, at + 0, 0)}
    BY <1>1, <1>2
  <1> HIDE DEF l0
  <1>6. l1 \in Seq(Entry) /\ ToSet(l1) = ToSet(l0) \cup {Symbol(label, at + 1, 1)}
    BY <1>1, <1>2, <1>5
  <1> HIDE DEF l1
  <1>7. l2 \in Seq(Entry) /\ ToSet(l2) = ToSet(l1) \cup {Symbol(label, at + 2, 2)}
    BY <1>1, <1>2, <1>6
  <1> HIDE DEF l2
  <1>8. l3 \in Seq(Entry) /\ ToSet(l3) = ToSet(l2) \cup {Symbol(label, at + 3, 3)}
    BY <1>1, <1>2, <1>7
  <1> HIDE DEF l3
  <1> QED
    BY <1>3, <1>4, <1>5, <1>6, <1>7, <1>8

(* The words of a statement one after the other.                           *)
WordPatches(s, offset, known, n) ==
  UNION {Fours(s.args[i].label, offset + 4 * (i - 1)) : i \in {j \in 1 .. n : Waits(s.args[j], known)}}

LEMMA WordWaited ==
  ASSUME NEW s \in StmntRec, NEW offset \in Int, NEW known, NEW l \in Seq(Entry),
         NEW i \in 1 .. Len(s.args)
  PROVE  /\ WordWaits(s, offset, known, l, i) \in Seq(Entry)
         /\ ToSet(WordWaits(s, offset, known, l, i)) =
              ToSet(l) \cup IF Waits(s.args[i], known)
                            THEN Fours(s.args[i].label, offset + 4 * (i - 1)) ELSE {}
  <1>1. s.args \in Seq(ArgRec) /\ s.args[i] \in ArgRec
    BY DEF StmntRec
  <1>2. s.args[i].label \in Spelling
    BY <1>1 DEF ArgRec
  <1>3. offset + 4 * (i - 1) \in Int
    OBVIOUS
  <1> QED
    BY <1>2, <1>3, FourWait DEF WordWaits

LEMMA WordsChain ==
  ASSUME NEW s \in StmntRec, NEW offset \in Int, NEW known, unknownInstList \in Seq(Entry)
  PROVE  \E c \in [0 .. Len(s.args) -> Seq(Entry)] :
           /\ c[0] = unknownInstList
           /\ \A k \in 1 .. Len(s.args) : c[k] = WordWaits(s, offset, known, c[k - 1], k)
           /\ WordsWait(s, offset, known) = c[Len(s.args)]
  <1> DEFINE T == Seq(Entry)
             n == Len(s.args)
             b == unknownInstList
             q == [i \in DOMAIN s.args |-> i]
             P(f) == f = [r \in SUBSET DOMAIN q |->
                            IF r = {} THEN b
                            ELSE WordWaits(s, offset, known, f[r \ {Max(r)}], q[Max(r)])]
             h == CHOOSE f : P(f)
             F == [k \in 1 .. n |-> [t \in T |-> WordWaits(s, offset, known, t, k)]]
  <1>1. b \in T
    OBVIOUS
  <1>2. n \in Nat /\ DOMAIN s.args = 1 .. n
    BY DEF StmntRec
  <1>3. DOMAIN q = 1 .. n /\ \A k \in 1 .. n : q[k] = k
    BY <1>2
  <1>4. WordsWait(s, offset, known) = h[DOMAIN q]
    BY DEF WordsWait, FoldLeftDomain, FoldLeft, MapThenFoldSet
  <1>5. F \in Steps(n, T)
    BY <1>2, WordWaited DEF Steps
  <1>6. \A k \in 1 .. n, t \in T : F[k][t] = WordWaits(s, offset, known, t, k)
    BY <1>2
  <1> HIDE DEF P, F, n, T, q, b
  <1>7. PICK g : g \in FoldFunctions(T, b, n, F)
    BY <1>1, <1>2, <1>5, FoldExists
  <1>8. /\ g \in [SUBSET (1 .. n) -> T]
        /\ \A r \in SUBSET (1 .. n) :
             g[r] = IF r = {} THEN b ELSE F[Max(r)][g[r \ {Max(r)}]]
    BY <1>7 DEF FoldFunctions
  <1>9. \A r \in SUBSET (1 .. n) : r # {} => Max(r) \in 1 .. n /\ r \ {Max(r)} \in SUBSET (1 .. n)
    BY <1>2, MaxMember
  <1>10. P(g)
    BY <1>3, <1>6, <1>8, <1>9 DEF P
  <1>11. P(h)
    BY <1>10
  <1> HIDE DEF h
  <1>12. h[{}] = b
    BY <1>11 DEF P
  <1>13. \A r \in SUBSET (1 .. n) :
           r # {} => h[r] = WordWaits(s, offset, known, h[r \ {Max(r)}], Max(r))
    BY <1>3, <1>9, <1>11 DEF P
  <1>14. TakesSteps(h, T, b, n, F)
    BY <1>6, <1>9, <1>12, <1>13 DEF TakesSteps
  <1>15. PICK c : c \in Chains(T, b, n, F) /\ c[n] = h[1 .. n]
    BY <1>1, <1>2, <1>5, <1>14, FoldChain
  <1>16. /\ c \in [0 .. n -> T] /\ c[0] = b
         /\ \A k \in 1 .. n : c[k] = F[k][c[k - 1]] /\ c[k - 1] \in T
    BY <1>2, <1>15 DEF Chains
  <1>17. \A k \in 1 .. n : c[k] = WordWaits(s, offset, known, c[k - 1], k)
    BY <1>6, <1>16
  <1> QED
    BY <1>3, <1>4, <1>15, <1>16, <1>17 DEF n, T, b

LEMMA WordsPatched ==
  ASSUME NEW s \in StmntRec, NEW offset \in Int, NEW known, unknownInstList \in Seq(Entry)
  PROVE  /\ WordsWait(s, offset, known) \in Seq(Entry)
         /\ ToSet(WordsWait(s, offset, known)) =
              ToSet(unknownInstList) \cup WordPatches(s, offset, known, Len(s.args))
  <1> DEFINE n == Len(s.args)
             W(k) == WordPatches(s, offset, known, k)
  <1>1. n \in Nat
    BY DEF StmntRec
  <1>2. PICK c \in [0 .. n -> Seq(Entry)] :
          /\ c[0] = unknownInstList
          /\ \A k \in 1 .. n : c[k] = WordWaits(s, offset, known, c[k - 1], k)
          /\ WordsWait(s, offset, known) = c[n]
    BY WordsChain
  <1> DEFINE U == {k \in 0 .. n : ToSet(c[k]) = ToSet(unknownInstList) \cup W(k)}
  <1>3. 0 \in U
    <2>1. 1 .. 0 = {}
      OBVIOUS
    <2>2. W(0) = {}
      BY <2>1 DEF WordPatches
    <2> QED
      BY <1>1, <1>2, <2>2
  <1>4. ASSUME NEW k \in 1 .. n, k - 1 \in U PROVE k \in U
    <2>1. c[k - 1] \in Seq(Entry) /\ c[k] = WordWaits(s, offset, known, c[k - 1], k)
      BY <1>1, <1>2
    <2>2. ToSet(c[k]) = ToSet(c[k - 1]) \cup
            IF Waits(s.args[k], known) THEN Fours(s.args[k].label, offset + 4 * (k - 1)) ELSE {}
      <3>1. k \in 1 .. Len(s.args)
        OBVIOUS
      <3> DEFINE x == c[k - 1]
      <3>2. x \in Seq(Entry) /\ c[k] = WordWaits(s, offset, known, x, k)
        BY <2>1
      <3> HIDE DEF n, W, U, x
      <3>3. ToSet(WordWaits(s, offset, known, x, k)) = ToSet(x) \cup
              IF Waits(s.args[k], known) THEN Fours(s.args[k].label, offset + 4 * (k - 1)) ELSE {}
        BY <3>1, <3>2, WordWaited
      <3> QED
        BY <3>2, <3>3 DEF x
    <2>3. \A j \in 1 .. k : j \in 1 .. k - 1 \/ j = k
      BY <1>1
    <2>4. \A j \in 1 .. k - 1 : j \in 1 .. k
      BY <1>1
    <2>5. W(k) = W(k - 1) \cup
            IF Waits(s.args[k], known) THEN Fours(s.args[k].label, offset + 4 * (k - 1)) ELSE {}
      <3> DEFINE J(m) == {j \in 1 .. m : Waits(s.args[j], known)}
                 G(i) == Fours(s.args[i].label, offset + 4 * (i - 1))
      <3>1. J(k) = J(k - 1) \cup IF Waits(s.args[k], known) THEN {k} ELSE {}
        BY <1>1, <2>3, <2>4
      <3>2. \A m : W(m) = UNION {G(i) : i \in J(m)}
        BY DEF WordPatches
      <3> HIDE DEF J, G, W
      <3>3. W(k) = W(k - 1) \cup IF Waits(s.args[k], known) THEN G(k) ELSE {}
        BY <3>1, <3>2
      <3> QED
        BY <3>3 DEF G
    <2> QED
      BY <1>4, <2>2, <2>5
  <1> HIDE DEF U
  <1>5. n \in U
    <2>1. \A k \in 0 .. n : k \in U
      BY <1>1, <1>3, <1>4, BoundedInduction
    <2> QED
      BY <1>1, <2>1
  <1> QED
    BY <1>1, <1>2, <1>5 DEF U

(* The bytes of an expanded operation.                                     *)
BytePatches(s, offset, known, n) ==
  {Symbol(LabelIn(s, j), offset + Host(j), Template(FormOf(s), j)[3]) :
     j \in {i \in 0 .. n - 1 : Waiting(s, i, known)}}

LEMMA HostIn ==
  \A j \in Int : /\ Host(j) \in Int /\ Host(j) \div 4 = j \div 4 /\ Host(Host(j)) = j
                 /\ Host(j) - (Host(j) % 4) = j - (j % 4)
                 /\ Host(j) % 4 = 3 - (j % 4)
  BY DEF Host

LEMMA HostWithin ==
  ASSUME NEW n \in Nat, n % 4 = 0, NEW j \in 0 .. n - 1
  PROVE  Host(j) \in 0 .. n - 1
  BY DEF Host

(* A byte that waits is of a constant, and there are four of those.        *)
LEMMA WaitingByte ==
  ASSUME NEW s \in StmntRec, CanExpand(s), NEW j \in 0 .. FormOf(s).size - 1, LabelIn(s, j) # NoName
  PROVE  LabelIn(s, j) \in Spelling /\ Template(FormOf(s), j)[3] \in 0 .. 3
  <1> DEFINE form == FormOf(s)
             t == Template(form, j)
  <1>1. t[1] = "const" /\ LabelIn(s, j) = ArgAt(s, t[2]).label
    BY DEF LabelIn, LabelAt
  <1>2. ArgAt(s, t[2]).label \in Spelling
    <2>1. s.args \in Seq(ArgRec) /\ \A a \in ArgRec : a.label \in Spelling
      BY DEF StmntRec, ArgRec
    <2>2. UnknownArg.label \in Spelling
      BY DEF UnknownArg, Arg, Spelling
    <2> QED
      BY <2>1, <2>2 DEF ArgAt
  <1>3. form.size \in Nat /\ IsInsts(form.insts)
    BY FormSizes DEF WellFormed
  <1>4. PICK T : form.insts \in Seq(T) /\ \A inst \in T : GoodInst(inst)
    BY <1>3 DEF IsInsts
  <1>5. CASE j < 4 * Len(form.insts)
    <2>1. t = form.insts[(j \div 4) + 1][(j % 4) + 1]
      BY <1>5 DEF Template
    <2>2. Len(form.insts) \in Nat /\ DOMAIN form.insts = 1 .. Len(form.insts) /\ j \in Nat
      BY <1>3, <1>4
    <2>3. (j \div 4) + 1 \in 1 .. Len(form.insts) /\ (j % 4) + 1 \in 1 .. 4
      BY <1>5, <2>2
    <2>4. GoodInst(form.insts[(j \div 4) + 1])
      BY <1>4, <2>2, <2>3
    <2>5. Good(t)
      BY <2>1, <2>3, <2>4 DEF GoodInst
    <2> QED
      BY <1>1, <1>2, <2>5 DEF Good
  <1>6. CASE ~(j < 4 * Len(form.insts))
    <2>1. t = Num(0)
      BY <1>6 DEF Template
    <2> QED
      BY <1>1, <2>1 DEF Num
  <1> QED
    BY <1>5, <1>6

LEMMA ByteWaited ==
  ASSUME NEW s \in StmntRec, CanExpand(s), NEW offset \in Int, NEW known, NEW l \in Seq(Entry),
         NEW j \in 0 .. FormOf(s).size - 1
  PROVE  /\ ByteWaits(s, offset, known, l, j) \in Seq(Entry)
         /\ ToSet(ByteWaits(s, offset, known, l, j)) =
              ToSet(l) \cup
                IF Waiting(s, j, known)
                THEN {Symbol(LabelIn(s, j), offset + Host(j), Template(FormOf(s), j)[3])} ELSE {}
  <1>1. j \in Int
    OBVIOUS
  <1>2. offset + Host(j) \in Int
    <2>1. Host(j) \in Int
      BY <1>1, HostIn
    <2> QED
      BY <2>1
  <1>3. CASE Waiting(s, j, known)
    <2>1. LabelIn(s, j) \in Spelling /\ Template(FormOf(s), j)[3] \in 0 .. 3
      BY <1>3, WaitingByte DEF Waiting
    <2>2. ByteWaits(s, offset, known, l, j) =
            AddUnresolved(l, LabelIn(s, j), offset + Host(j), Template(FormOf(s), j)[3])
      BY <1>3 DEF ByteWaits
    <2> DEFINE place == offset + Host(j)
               label == LabelIn(s, j)
               type  == Template(FormOf(s), j)[3]
    <2>3. place \in Int /\ label \in Spelling /\ type \in 0 .. 3
      BY <1>2, <2>1
    <2> HIDE DEF place, label, type
    <2>4. Gains(AddUnresolved(l, label, place, type), l, Symbol(label, place, type))
      BY <2>3, Unresolved
    <2> QED
      BY <1>3, <2>2, <2>4 DEF place, label, type, Gains
  <1>4. CASE ~Waiting(s, j, known)
    BY <1>4 DEF ByteWaits
  <1> QED
    BY <1>3, <1>4

LEMMA BytesChain ==
  ASSUME NEW s \in StmntRec, CanExpand(s), NEW offset \in Int, NEW known,
         unknownInstList \in Seq(Entry)
  PROVE  \E c \in [0 .. FormOf(s).size -> Seq(Entry)] :
           /\ c[0] = unknownInstList
           /\ \A k \in 1 .. FormOf(s).size : c[k] = ByteWaits(s, offset, known, c[k - 1], k - 1)
           /\ ExpandWaits(s, offset, known) = c[FormOf(s).size]
  <1> DEFINE T == Seq(Entry)
             n == FormOf(s).size
             b == unknownInstList
             q == [i \in 1 .. n |-> i - 1]
             P(f) == f = [r \in SUBSET DOMAIN q |->
                            IF r = {} THEN b
                            ELSE ByteWaits(s, offset, known, f[r \ {Max(r)}], q[Max(r)])]
             h == CHOOSE f : P(f)
             F == [k \in 1 .. n |-> [t \in T |-> ByteWaits(s, offset, known, t, k - 1)]]
  <1>1. b \in T
    OBVIOUS
  <1>2. n \in Nat
    BY FormSizes DEF WellFormed
  <1>3. DOMAIN q = 1 .. n /\ \A k \in 1 .. n : q[k] = k - 1
    OBVIOUS
  <1>4. ExpandWaits(s, offset, known) = h[DOMAIN q]
    BY DEF ExpandWaits, FoldLeft, MapThenFoldSet
  <1>5. F \in Steps(n, T)
    <2>1. \A k \in 1 .. n : k - 1 \in 0 .. n - 1
      BY <1>2
    <2> QED
      BY <2>1, ByteWaited DEF Steps
  <1>6. \A k \in 1 .. n, t \in T : F[k][t] = ByteWaits(s, offset, known, t, k - 1)
    BY <1>2
  <1> HIDE DEF P, F, n, T, q, b
  <1>7. PICK g : g \in FoldFunctions(T, b, n, F)
    BY <1>1, <1>2, <1>5, FoldExists
  <1>8. /\ g \in [SUBSET (1 .. n) -> T]
        /\ \A r \in SUBSET (1 .. n) :
             g[r] = IF r = {} THEN b ELSE F[Max(r)][g[r \ {Max(r)}]]
    BY <1>7 DEF FoldFunctions
  <1>9. \A r \in SUBSET (1 .. n) : r # {} => Max(r) \in 1 .. n /\ r \ {Max(r)} \in SUBSET (1 .. n)
    BY <1>2, MaxMember
  <1>10. P(g)
    BY <1>3, <1>6, <1>8, <1>9 DEF P
  <1>11. P(h)
    BY <1>10
  <1> HIDE DEF h
  <1>12. h[{}] = b
    BY <1>11 DEF P
  <1>13. \A r \in SUBSET (1 .. n) :
           r # {} => h[r] = ByteWaits(s, offset, known, h[r \ {Max(r)}], Max(r) - 1)
    BY <1>3, <1>9, <1>11 DEF P
  <1>14. TakesSteps(h, T, b, n, F)
    BY <1>6, <1>9, <1>12, <1>13 DEF TakesSteps
  <1>15. PICK c : c \in Chains(T, b, n, F) /\ c[n] = h[1 .. n]
    BY <1>1, <1>2, <1>5, <1>14, FoldChain
  <1>16. /\ c \in [0 .. n -> T] /\ c[0] = b
         /\ \A k \in 1 .. n : c[k] = F[k][c[k - 1]] /\ c[k - 1] \in T
    BY <1>2, <1>15 DEF Chains
  <1>17. \A k \in 1 .. n : c[k] = ByteWaits(s, offset, known, c[k - 1], k - 1)
    BY <1>6, <1>16
  <1> QED
    BY <1>3, <1>4, <1>15, <1>16, <1>17 DEF n, T, b

LEMMA BytesPatched ==
  ASSUME NEW s \in StmntRec, CanExpand(s), NEW offset \in Int, NEW known,
         unknownInstList \in Seq(Entry)
  PROVE  /\ ExpandWaits(s, offset, known) \in Seq(Entry)
         /\ ToSet(ExpandWaits(s, offset, known)) =
              ToSet(unknownInstList) \cup BytePatches(s, offset, known, FormOf(s).size)
  <1> DEFINE n == FormOf(s).size
             New(j) == Symbol(LabelIn(s, j), offset + Host(j), Template(FormOf(s), j)[3])
             W(k) == BytePatches(s, offset, known, k)
  <1>1. n \in Nat
    BY FormSizes DEF WellFormed
  <1>2. PICK c \in [0 .. n -> Seq(Entry)] :
          /\ c[0] = unknownInstList
          /\ \A k \in 1 .. n : c[k] = ByteWaits(s, offset, known, c[k - 1], k - 1)
          /\ ExpandWaits(s, offset, known) = c[n]
    BY BytesChain
  <1> DEFINE U == {k \in 0 .. n : ToSet(c[k]) = ToSet(unknownInstList) \cup W(k)}
  <1>3. 0 \in U
    <2>1. 0 .. 0 - 1 = {}
      OBVIOUS
    <2>2. W(0) = {}
      BY <2>1 DEF BytePatches
    <2> QED
      BY <1>1, <1>2, <2>2
  <1>4. ASSUME NEW k \in 1 .. n, k - 1 \in U PROVE k \in U
    <2>1. /\ c[k - 1] \in Seq(Entry) /\ c[k] = ByteWaits(s, offset, known, c[k - 1], k - 1)
          /\ k - 1 \in 0 .. n - 1
      <3>1. k - 1 \in 0 .. n - 1 /\ k - 1 \in 0 .. n
        BY <1>1
      <3> HIDE DEF n
      <3> QED
        BY <1>2, <3>1
    <2>2. ToSet(c[k]) = ToSet(c[k - 1]) \cup IF Waiting(s, k - 1, known) THEN {New(k - 1)} ELSE {}
      BY <2>1, ByteWaited
    <2>3. \A j \in 0 .. k - 1 : j \in 0 .. (k - 1) - 1 \/ j = k - 1
      BY <1>1
    <2>4. k - 1 \in 0 .. k - 1 /\ \A j \in 0 .. (k - 1) - 1 : j \in 0 .. k - 1
      BY <1>1
    <2>5. W(k) = W(k - 1) \cup IF Waiting(s, k - 1, known) THEN {New(k - 1)} ELSE {}
      BY <2>3, <2>4 DEF BytePatches
    <2> QED
      BY <1>4, <2>2, <2>5
  <1> HIDE DEF U
  <1>5. n \in U
    <2>1. \A k \in 0 .. n : k \in U
      BY <1>1, <1>3, <1>4, BoundedInduction
    <2> QED
      BY <1>1, <2>1
  <1> QED
    BY <1>1, <1>2, <1>5 DEF U

(* What assembling a statement leaves: a memory of the same size, and      *)
(* nothing to be patched but in what it takes.                             *)
Memory(mem) == mem = [a \in Offset |-> mem[a]]

Within(r, offset) ==
  /\ Memory(r.mem)
  /\ r.unknown \in Seq(Entry)
  /\ \A e \in ToSet(r.unknown) :
       e \in ToSet(unknownInstList) \/ e.value \in offset .. offset + r.used - 1

LEMMA NothingWaits ==
  ASSUME Memory(memTable), unknownInstList \in Seq(Entry), NEW offset
  PROVE  /\ Within(Fails, offset)
         /\ \A mem, used : Memory(mem) => Within(Result(mem, used, unknownInstList), offset)
  BY DEF Within, Fails, Result

LEMMA MemoryMade == \A f : Memory([a \in Offset |-> f[a]])
  BY DEF Memory

LEMMA WordsWithin ==
  ASSUME NEW s \in StmntRec, NEW offset \in Int, NEW known, unknownInstList \in Seq(Entry)
  PROVE  Within(Words(s, offset, known), offset)
  <1> DEFINE n == Len(s.args)
             r == Words(s, offset, known)
             list == WordsWait(s, offset, known)
  <1>1. n \in Nat
    BY DEF StmntRec
  <1>2. r.used = 4 * n /\ r.unknown = list /\ Memory(r.mem)
    BY DEF Words, Result, Memory
  <1>3. list \in Seq(Entry) /\ ToSet(list) = ToSet(unknownInstList) \cup WordPatches(s, offset, known, n)
    BY WordsPatched
  <1> HIDE DEF r, list
  <1>4. ASSUME NEW e \in WordPatches(s, offset, known, n)
        PROVE  e.value \in offset .. offset + 4 * n - 1
    <2>1. PICK i \in 1 .. n : e \in Fours(s.args[i].label, offset + 4 * (i - 1))
      BY <1>4 DEF WordPatches
    <2>2. PICK k \in 0 .. 3 : e = Symbol(s.args[i].label, (offset + 4 * (i - 1)) + k, k)
      BY <2>1 DEF Fours
    <2>3. e.value = offset + 4 * (i - 1) + k
      BY <2>2 DEF Symbol
    <2> HIDE DEF n
    <2> QED
      BY <1>1, <2>3
  <1>5. ASSUME NEW e \in ToSet(r.unknown)
        PROVE  e \in ToSet(unknownInstList) \/ e.value \in offset .. offset + r.used - 1
    BY <1>2, <1>3, <1>4, <1>5
  <1> QED
    BY <1>2, <1>3, <1>5 DEF Within, r

LEMMA ExpandWithin ==
  ASSUME NEW s \in StmntRec, NEW offset \in Int, NEW known,
         Memory(memTable), unknownInstList \in Seq(Entry)
  PROVE  Within(Expand(s, offset, known), offset)
  <1> DEFINE n == FormOf(s).size
             r == Expand(s, offset, known)
             list == ExpandWaits(s, offset, known)
  <1>1. CASE ~CanExpand(s) \/ MaxBytes - offset < n
    BY <1>1, NothingWaits DEF Expand
  <1>2. CASE CanExpand(s) /\ ~(MaxBytes - offset < n)
    <2>1. n \in Nat /\ n % 4 = 0
      BY <1>2, FormSizes DEF WellFormed
    <2>2. r.used = n /\ r.unknown = list /\ Memory(r.mem)
      BY <1>2 DEF Expand, Result, Memory
    <2>3. list \in Seq(Entry) /\ ToSet(list) = ToSet(unknownInstList) \cup BytePatches(s, offset, known, n)
      BY <1>2, BytesPatched
    <2> HIDE DEF r, list
    <2>4. ASSUME NEW e \in BytePatches(s, offset, known, n)
          PROVE  e.value \in offset .. offset + n - 1
      <3>1. PICK j \in 0 .. n - 1 :
              e = Symbol(LabelIn(s, j), offset + Host(j), Template(FormOf(s), j)[3])
        BY <2>4 DEF BytePatches
      <3>2. e.value = offset + Host(j)
        BY <3>1 DEF Symbol
      <3> HIDE DEF n
      <3>3. Host(j) \in 0 .. n - 1
        BY <2>1, HostWithin
      <3> QED
        BY <2>1, <3>2, <3>3
    <2>5. ASSUME NEW e \in ToSet(r.unknown)
          PROVE  e \in ToSet(unknownInstList) \/ e.value \in offset .. offset + r.used - 1
      BY <2>2, <2>3, <2>4, <2>5
    <2> QED
      BY <2>2, <2>3, <2>5 DEF Within, r
  <1> QED
    BY <1>1, <1>2

LEMMA LchWithin ==
  ASSUME NEW s \in StmntRec, NEW offset \in Int, NEW known, Arg1(s).type = "LABEL",
         Memory(memTable), unknownInstList \in Seq(Entry)
  PROVE  Within(LchOfLabel(s, offset, known), offset)
  <1> DEFINE label == Arg1(s).label
             r == LchOfLabel(s, offset, known)
             l1 == AddUnresolved(unknownInstList, label, offset + 2, 1)
             l2 == AddUnresolved(l1, label, offset + 3, 0)
  <1>1. \A at, bytes : Memory(PutWord(memTable, at, bytes))
    BY DEF PutWord, Memory
  <1>2. CASE Defined(known, label)
    BY <1>1, <1>2, NothingWaits DEF LchOfLabel
  <1>3. CASE ~Defined(known, label)
    <2>1. r.used = 4 /\ r.unknown = l2 /\ Memory(r.mem)
      BY <1>1, <1>3 DEF LchOfLabel, Result
    <2>2. label \in Spelling
      <3>1. s.args \in Seq(ArgRec) /\ \A a \in ArgRec : a.label \in Spelling
        BY DEF StmntRec, ArgRec
      <3>2. UnknownArg.label \in Spelling
        BY DEF UnknownArg, Arg, Spelling
      <3> QED
        BY <3>1, <3>2 DEF Arg1
    <2>3. offset + 2 \in Int /\ offset + 3 \in Int /\ 0 \in 0 .. 3 /\ 1 \in 0 .. 3
      OBVIOUS
    <2> HIDE DEF r, label
    <2>4. Gains(l1, unknownInstList, Symbol(label, offset + 2, 1))
      BY <2>2, <2>3, Unresolved
    <2>5. l1 \in Seq(Entry)
      BY <2>4 DEF Gains
    <2> HIDE DEF l1
    <2>6. Gains(l2, l1, Symbol(label, offset + 3, 0))
      BY <2>2, <2>3, <2>5, Unresolved
    <2> HIDE DEF l2
    <2>7. \A e \in ToSet(l2) : \/ e \in ToSet(unknownInstList)
                              \/ e = Symbol(label, offset + 2, 1)
                              \/ e = Symbol(label, offset + 3, 0)
      BY <2>4, <2>6 DEF Gains
    <2>8. /\ Symbol(label, offset + 2, 1).value \in offset .. offset + 4 - 1
          /\ Symbol(label, offset + 3, 0).value \in offset .. offset + 4 - 1
      BY DEF Symbol
    <2>9. l2 \in Seq(Entry)
      BY <2>6 DEF Gains
    <2>10. ASSUME NEW e \in ToSet(r.unknown)
           PROVE  e \in ToSet(unknownInstList) \/ e.value \in offset .. offset + r.used - 1
      BY <2>1, <2>7, <2>8, <2>10
    <2> QED
      BY <2>1, <2>9, <2>10 DEF Within, r
  <1> QED
    BY <1>2, <1>3

LEMMA AlignWithin ==
  ASSUME NEW s, NEW offset, NEW at, Memory(memTable), unknownInstList \in Seq(Entry)
  PROVE  Within(Align(s, at), offset)
  <1>1. \A bytes : Memory(PutBytes(memTable, at, bytes))
    BY DEF PutBytes, Memory
  <1> QED
    BY <1>1, NothingWaits DEF Align

LEMMA InstWithin ==
  ASSUME NEW s \in StmntRec, NEW offset \in Int, NEW known,
         Memory(memTable), unknownInstList \in Seq(Entry)
  PROVE  Within(AssembleInst(s, offset, known), offset)
  <1>1. \A at, bytes : Memory(PutWord(memTable, at, bytes))
    BY DEF PutWord, Memory
  <1>2. /\ Within(Fails, offset)
        /\ Within(Result(memTable, 0, unknownInstList), offset)
        /\ \A at, bytes : Within(Result(PutWord(memTable, at, bytes), 4, unknownInstList), offset)
    BY <1>1, NothingWaits
  <1>3. Within(Align(s, offset \div 4), offset)
    BY AlignWithin
  <1>4. Within(Expand(s, offset, known), offset)
    BY ExpandWithin
  <1>5. Within(Words(s, offset, known), offset)
    BY WordsWithin
  <1>6. Arg1(s).type = "LABEL" => Within(LchOfLabel(s, offset, known), offset)
    BY LchWithin
  <1> QED
    BY <1>2, <1>3, <1>4, <1>5, <1>6 DEF AssembleInst

LEMMA DataWithin ==
  ASSUME NEW s \in StmntRec, NEW offset \in Int, NEW known,
         Memory(memTable), unknownInstList \in Seq(Entry)
  PROVE  Within(AssembleData(s, offset, known), offset)
  <1>1. \A at, bytes : Memory(PutBytes(memTable, at, bytes))
    BY DEF PutBytes, Memory
  <1>2. /\ Within(Fails, offset)
        /\ Within(Result(memTable, 0, unknownInstList), offset)
        /\ \A at, bytes, used : Within(Result(PutBytes(memTable, at, bytes), used, unknownInstList), offset)
    BY <1>1, NothingWaits
  <1>3. Within(Align(s, offset), offset)
    BY AlignWithin
  <1>4. Within(Words(s, offset, known), offset)
    BY WordsWithin
  <1> QED
    BY <1>2, <1>3, <1>4 DEF AssembleData

(* The patches one after the other.                                        *)
LEMMA PatchChain ==
  ASSUME Memory(memTable), unknownInstList \in Seq(Entry)
  PROVE  \E c : /\ c[0] = memTable /\ Patched = c[Len(unknownInstList)]
                /\ \A k \in 0 .. Len(unknownInstList) : Memory(c[k])
                /\ \A k \in 1 .. Len(unknownInstList) : c[k] = Patch(c[k - 1], unknownInstList[k])
  <1> DEFINE n == Len(unknownInstList)
             b == memTable
             q == unknownInstList
             X == {memTable[a] : a \in Offset} \cup
                  {ByteOf(ValueOf(knownList, q[k].string), q[k].type) : k \in 1 .. n}
             T == [Offset -> X]
             P(f) == f = [r \in SUBSET DOMAIN q |->
                            IF r = {} THEN b ELSE Patch(f[r \ {Max(r)}], q[Max(r)])]
             h == CHOOSE f : P(f)
             F == [k \in 1 .. n |-> [t \in T |-> Patch(t, q[k])]]
  <1>1. b \in T
    BY DEF Memory
  <1>2. n \in Nat /\ DOMAIN q = 1 .. n
    OBVIOUS
  <1>3. Patched = h[DOMAIN q]
    BY DEF Patched, FoldLeft, MapThenFoldSet
  <1>4. F \in Steps(n, T)
    <2>1. ASSUME NEW k \in 1 .. n, NEW t \in T PROVE Patch(t, q[k]) \in T
      <3>1. ByteOf(ValueOf(knownList, q[k].string), q[k].type) \in X
        OBVIOUS
      <3> HIDE DEF X
      <3> QED
        BY <3>1 DEF Patch
    <2> HIDE DEF T
    <2> QED
      BY <2>1 DEF Steps
  <1>5. \A k \in 1 .. n, t \in T : F[k][t] = Patch(t, q[k])
    BY <1>2
  <1> HIDE DEF P, F, n, T, q, b
  <1>6. PICK g : g \in FoldFunctions(T, b, n, F)
    BY <1>1, <1>2, <1>4, FoldExists
  <1>7. /\ g \in [SUBSET (1 .. n) -> T]
        /\ \A r \in SUBSET (1 .. n) :
             g[r] = IF r = {} THEN b ELSE F[Max(r)][g[r \ {Max(r)}]]
    BY <1>6 DEF FoldFunctions
  <1>8. \A r \in SUBSET (1 .. n) : r # {} => Max(r) \in 1 .. n /\ r \ {Max(r)} \in SUBSET (1 .. n)
    BY <1>2, MaxMember
  <1>9. P(g)
    BY <1>2, <1>5, <1>7, <1>8 DEF P
  <1>10. P(h)
    BY <1>9
  <1> HIDE DEF h
  <1>11. h[{}] = b
    BY <1>10 DEF P
  <1>12. \A r \in SUBSET (1 .. n) : r # {} => h[r] = Patch(h[r \ {Max(r)}], q[Max(r)])
    BY <1>2, <1>8, <1>10 DEF P
  <1>13. TakesSteps(h, T, b, n, F)
    BY <1>5, <1>8, <1>11, <1>12 DEF TakesSteps
  <1>14. PICK c : c \in Chains(T, b, n, F) /\ c[n] = h[1 .. n]
    BY <1>1, <1>2, <1>4, <1>13, FoldChain
  <1>15. /\ c \in [0 .. n -> T] /\ c[0] = b
         /\ \A k \in 1 .. n : c[k] = F[k][c[k - 1]] /\ c[k - 1] \in T
    BY <1>2, <1>14 DEF Chains
  <1>16. \A k \in 1 .. n : c[k] = Patch(c[k - 1], q[k])
    BY <1>5, <1>15
  <1>17. \A t \in T : Memory(t)
    BY DEF T, Memory
  <1>18. \A k \in 0 .. n : Memory(c[k])
    BY <1>15, <1>17
  <1> QED
    BY <1>2, <1>3, <1>14, <1>15, <1>16, <1>18 DEF n, q, b

(* Patching leaves the memory its size.                                    *)
LEMMA PatchesKeep ==
  ASSUME Memory(memTable), unknownInstList \in Seq(Entry)
  PROVE  Memory(Patched)
  <1>1. Len(unknownInstList) \in Nat
    OBVIOUS
  <1> QED
    BY <1>1, PatchChain
-----------------------------------------------------------------------------
(* Labels.  What is assembled, in order: each item begins where the one    *)
(* before it ends, and its label is bound to where it begins.              *)
Item == [stmnt : StmntRec, at : Int, used : Nat, line : Nat, text : BOOLEAN]

Labelling(known, items) ==
  \A i \in DOMAIN items :
    LET label == items[i].stmnt.label IN
    label # NoName =>
      Defined(known, label) /\ ValueOf(known, label) = Truncate(BaseAddress + items[i].at)

Adjoining(items, end) ==
  \A i \in DOMAIN items :
    items[i].at + items[i].used = IF i = Len(items) THEN end ELSE items[i + 1].at

LabelInv ==
  /\ curr_offset \in Int
  /\ knownList \in SymbolLists
  /\ placed \in Seq(Item)
  /\ Labelling(knownList, placed)
  /\ NoAddr => Adjoining(placed, curr_offset)

LEMMA LabelInit == BuildInit => LabelInv
  <1> SUFFICES ASSUME BuildInit PROVE LabelInv
    OBVIOUS
  <1>1. placed = <<>> /\ curr_offset = 0 /\ knownList = options.labels /\ options \in Options
    BY DEF BuildInit, Init
  <1>2. placed \in Seq(Item) /\ DOMAIN placed = {}
    BY <1>1
  <1> QED
    BY <1>1, <1>2, SourceAssumption DEF LabelInv, Labelling, Adjoining

(* A label that is new changes the value of none.                          *)
LEMMA LabelBound ==
  ASSUME LabelInv, NEW s \in StmntRec, s.label # NoName => CanAdd(knownList, s.label),
         NEW value \in Int, NEW known,
         known = IF s.label = NoName THEN knownList ELSE AddSymbol(knownList, s.label, value)
  PROVE  /\ known \in SymbolLists
         /\ Labelling(known, placed)
         /\ s.label # NoName => Defined(known, s.label) /\ ValueOf(known, s.label) = value
  <1>1. CASE s.label = NoName
    BY <1>1 DEF LabelInv
  <1>2. CASE s.label # NoName
    <2>1. s.label \in Spelling /\ knownList \in SymbolLists /\ known = AddSymbol(knownList, s.label, value)
      BY <1>2 DEF LabelInv, StmntRec
    <2>2. /\ known \in SymbolLists
          /\ Defined(known, s.label) /\ ValueOf(known, s.label) = value
          /\ \A x : Defined(knownList, x) => Defined(known, x) /\ ValueOf(known, x) = ValueOf(knownList, x)
      BY <1>2, <2>1, Added
    <2>3. Labelling(known, placed)
      BY <2>2 DEF LabelInv, Labelling
    <2> QED
      BY <2>2, <2>3
  <1> QED
    BY <1>1, <1>2

(* An item more.                                                           *)
LEMMA ItemPlaced ==
  ASSUME LabelInv, NEW item \in Item, item.at = curr_offset,
         item.stmnt.label # NoName => CanAdd(knownList, item.stmnt.label),
         knownList' = IF item.stmnt.label = NoName THEN knownList
                      ELSE AddSymbol(knownList, item.stmnt.label, Truncate(BaseAddress + curr_offset)),
         curr_offset' = curr_offset + item.used, placed' = Append(placed, item),
         UNCHANGED program
  PROVE  LabelInv'
  <1> DEFINE n == Len(placed)
             s == item.stmnt
             value == Truncate(BaseAddress + curr_offset)
  <1>1. /\ curr_offset \in Int /\ placed \in Seq(Item) /\ n \in Nat /\ s \in StmntRec
        /\ item.used \in Nat /\ BaseAddress \in Int
    BY AsmAssumption DEF LabelInv, Item, Word
  <1>2. value \in Int
    BY <1>1, TruncateInt
  <1> HIDE DEF value
  <1>3. /\ knownList' \in SymbolLists
        /\ Labelling(knownList', placed)
        /\ s.label # NoName => Defined(knownList', s.label) /\ ValueOf(knownList', s.label) = value
    <2>1. knownList' = IF s.label = NoName THEN knownList ELSE AddSymbol(knownList, s.label, value)
      BY DEF value
    <2> QED
      BY <1>1, <1>2, <2>1, LabelBound
  <1>4. /\ placed' \in Seq(Item) /\ Len(placed') = n + 1 /\ DOMAIN placed' = 1 .. n + 1
        /\ placed'[n + 1] = item /\ DOMAIN placed = 1 .. n
        /\ \A i \in 1 .. n : placed'[i] = placed[i]
    BY <1>1
  <1> HIDE DEF n
  <1>5. \A i \in 1 .. n + 1 : i = n + 1 \/ i \in 1 .. n
    BY <1>1, <1>4
  <1>6. Labelling(knownList', placed')
    BY <1>3, <1>4, <1>5 DEF Labelling, value
  <1>7. curr_offset' \in Int
    BY <1>1
  <1>8. ASSUME NoAddr' PROVE Adjoining(placed', curr_offset')
    <2>1. Adjoining(placed, curr_offset) /\ n = Len(placed)
      BY <1>8 DEF LabelInv, NoAddr, n
    <2>2. ASSUME NEW i \in 1 .. n + 1
          PROVE  placed'[i].at + placed'[i].used = IF i = n + 1 THEN curr_offset' ELSE placed'[i + 1].at
      <3>1. CASE i = n + 1
        BY <1>4, <3>1
      <3>2. CASE i \in 1 .. n
        <4>1. placed[i].at + placed[i].used = IF i = n THEN curr_offset ELSE placed[i + 1].at
          BY <1>4, <2>1, <3>2 DEF Adjoining
        <4>2. i # n => i + 1 \in 1 .. n
          BY <1>1, <1>4, <3>2
        <4>3. i # n + 1
          BY <1>1, <1>4, <3>2
        <4> QED
          BY <1>4, <3>2, <4>1, <4>2, <4>3
      <3> QED
        BY <1>5, <3>1, <3>2
    <2> QED
      BY <1>4, <2>2 DEF Adjoining
  <1> QED
    BY <1>3, <1>4, <1>6, <1>7, <1>8 DEF LabelInv

LEMMA ReadStmnt ==
  ASSUME PassInv, line <= Len(program), Here.ok
  PROVE  S \in StmntRec /\ S.op = program[line].op /\ line \in Nat
  <1>1. /\ line \in 1 .. Len(program) /\ SourceLine(program[line]) /\ Context(constantList, names)
        /\ line \in Nat
    BY ProgramLines DEF PassInv
  <1>2. /\ S = Stmnt(program[line].label, program[line].op, S.args) /\ S.args \in Seq(ArgRec)
        /\ S.op = program[line].op
    BY <1>1, ParsedContext DEF Here, S
  <1>3. program[line] \in Line
    BY <1>1 DEF SourceLine
  <1> QED
    BY <1>1, <1>2, <1>3 DEF StmntRec, Stmnt, Line

LEMMA PlaceStep ==
  ASSUME PassInv, LabelInv, line <= Len(program), Here.ok, UNCHANGED program,
         Place(AssembleInst) \/ Place(AssembleData)
  PROVE  LabelInv'
  <1> DEFINE known == Labelled(Truncate(BaseAddress + curr_offset))
  <1>1. S \in StmntRec /\ line \in Nat /\ curr_offset \in Int
    BY ReadStmnt DEF LabelInv
  <1>2. \/ UNCHANGED <<knownList, curr_offset, placed>>
        \/ \E used \in Nat :
             /\ LabelOK
             /\ knownList' = Labelled(Truncate(BaseAddress + curr_offset))
             /\ curr_offset' = curr_offset + used
             /\ placed' = Append(placed, [stmnt |-> S, at |-> curr_offset, used |-> used,
                                          line |-> line, text |-> phase = "text"])
    <2>1. AssembleInst(S, curr_offset, known).used \in Nat
      BY <1>1, InstTakes
    <2>2. AssembleData(S, curr_offset, known).used \in Nat
      BY <1>1, DataTakes
    <2>3. CASE Place(AssembleInst)
      BY <2>1, <2>3 DEF Place, Bind
    <2>4. CASE Place(AssembleData)
      BY <2>2, <2>4 DEF Place, Bind
    <2> QED
      BY <2>3, <2>4
  <1>3. CASE UNCHANGED <<knownList, curr_offset, placed>>
    BY <1>3 DEF LabelInv, NoAddr
  <1>4. ASSUME NEW used \in Nat,
               LabelOK, knownList' = Labelled(Truncate(BaseAddress + curr_offset)),
               curr_offset' = curr_offset + used,
               placed' = Append(placed, [stmnt |-> S, at |-> curr_offset, used |-> used,
                                         line |-> line, text |-> phase = "text"])
        PROVE  LabelInv'
    <2> DEFINE item == [stmnt |-> S, at |-> curr_offset, used |-> used,
                        line |-> line, text |-> phase = "text"]
    <2>1. /\ item \in Item /\ item.at = curr_offset /\ item.stmnt = S /\ item.used = used
      BY <1>1 DEF Item
    <2>2. placed' = Append(placed, item)
      BY <1>4
    <2> HIDE DEF item
    <2>3. S.label # NoName => CanAdd(knownList, S.label)
      BY <1>4 DEF LabelOK
    <2>4. knownList' = IF S.label = NoName THEN knownList
                       ELSE AddSymbol(knownList, S.label, Truncate(BaseAddress + curr_offset))
      BY <1>4 DEF Labelled
    <2> QED
      BY <1>4, <2>1, <2>2, <2>3, <2>4, ItemPlaced
  <1> QED
    BY <1>2, <1>3, <1>4

LEMMA LabelNext == PassInv /\ LabelInv /\ [BuildNext]_<<vars, loadVars>> => LabelInv'
  <1> SUFFICES ASSUME PassInv, LabelInv, [BuildNext]_<<vars, loadVars>> PROVE LabelInv'
    OBVIOUS
  <1>1. CASE UNCHANGED <<program, knownList, curr_offset, placed>>
    BY <1>1 DEF LabelInv, NoAddr
  <1>2. CASE TextLine
    <2>1. line <= Len(program) /\ program' = program
      BY <1>2, LineRead
    <2>2. CASE Here.ok /\ S.op = "ADDR" /\ curr_offset' = Truncate(Arg0(S).val - BaseAddress)
               /\ UNCHANGED <<knownList, placed>>
      <3>1. S \in StmntRec /\ S.op = program[line].op /\ line \in DOMAIN program
        <4>1. line \in 1 .. Len(program) /\ DOMAIN program = 1 .. Len(program)
          BY <2>1, SourceAssumption DEF PassInv
        <4> QED
          BY <2>1, <2>2, <4>1, ReadStmnt
      <3>2. ~NoAddr
        BY <2>2, <3>1 DEF NoAddr
      <3>3. ~NoAddr'
        BY <2>1, <3>2 DEF NoAddr
      <3>4. curr_offset' \in Int
        <4>1. Arg0(S).val - BaseAddress \in Int
          BY <3>1, FirstArg, AsmAssumption DEF Word
        <4> QED
          BY <2>2, <4>1, TruncateInt
      <3> QED
        BY <2>2, <3>3, <3>4 DEF LabelInv
    <2>3. CASE Here.ok /\ Place(AssembleInst)
      BY <2>1, <2>3, PlaceStep
    <2>4. CASE UNCHANGED <<knownList, curr_offset, placed>>
      BY <1>1, <2>1, <2>4
    <2> QED
      BY <1>2, <2>2, <2>3, <2>4 DEF TextLine, Unparsed, Pass
  <1>3. CASE DataLine
    <2>1. line <= Len(program) /\ program' = program
      BY <1>3, LineRead
    <2>2. CASE Here.ok /\ Place(AssembleData)
      BY <2>1, <2>2, PlaceStep
    <2>3. CASE UNCHANGED <<knownList, curr_offset, placed>>
      BY <1>1, <2>1, <2>3
    <2> QED
      BY <1>3, <2>2, <2>3 DEF DataLine, Unparsed, Pass
  <1>4. CASE CheckLine \/ EndPass \/ Backpatch \/ WriteExec \/ UNCHANGED vars
    BY <1>1, <1>4 DEF CheckLine, EndPass, Backpatch, WriteExec, vars
  <1> QED
    BY <1>2, <1>3, <1>4 DEF BuildNext, Assemble, Next, Load

THEOREM LabelsMeetItems == Build => [](PassInv /\ LabelInv)
  <1>1. PassInv /\ LabelInv /\ [BuildNext]_<<vars, loadVars>> => (PassInv /\ LabelInv)'
    BY PassNext, LabelNext
  <1>2. BuildInit => PassInv /\ LabelInv
    BY PassInit, LabelInit
  <1> QED
    BY <1>1, <1>2, PTL DEF Build

(* The rest of the state; a place to be patched is in something assembled. *)
PatchInv ==
  /\ phase \in Phase /\ segment \in {"inst", "data"}
  /\ inst_cnt \in Int /\ loaded \in BOOLEAN
  /\ Memory(memTable)
  /\ unknownInstList \in Seq(Entry)
  /\ \A e \in ToSet(unknownInstList) : \E i \in DOMAIN placed : e.value \in Room(placed[i])

LEMMA PatchInit == BuildInit => PatchInv
  <1> SUFFICES ASSUME BuildInit PROVE PatchInv
    OBVIOUS
  <1>1. /\ phase = "check" /\ segment = "inst" /\ inst_cnt = 0 /\ loaded = FALSE
        /\ memTable = [a \in Offset |-> 0] /\ unknownInstList = <<>>
    BY DEF BuildInit, Init
  <1>2. unknownInstList \in Seq(Entry) /\ ToSet(unknownInstList) = {}
    BY <1>1 DEF ToSet
  <1>3. Memory(memTable)
    BY <1>1 DEF Memory
  <1>4. loaded \in BOOLEAN
    BY <1>1
  <1>5. phase \in Phase /\ segment \in {"inst", "data"} /\ inst_cnt \in Int
    BY <1>1 DEF Phase
  <1> QED
    BY <1>2, <1>3, <1>4, <1>5 DEF PatchInv

LEMMA PatchPlace ==
  ASSUME PassInv, LabelInv, PatchInv, line <= Len(program), Here.ok,
         Place(AssembleInst) \/ Place(AssembleData)
  PROVE  /\ Memory(memTable') /\ unknownInstList' \in Seq(Entry)
         /\ \A e \in ToSet(unknownInstList') :
              \E i \in DOMAIN placed' : e.value \in Room(placed'[i])
         /\ phase' = phase \/ phase' = "failed"
  <1> DEFINE known == Labelled(Truncate(BaseAddress + curr_offset))
             item(r) == [stmnt |-> S, at |-> curr_offset, used |-> r.used,
                         line |-> line, text |-> phase = "text"]
             n == Len(placed)
  <1>1. S \in StmntRec /\ curr_offset \in Int
    BY ReadStmnt DEF LabelInv
  <1>2. /\ Memory(memTable) /\ unknownInstList \in Seq(Entry)
        /\ \A e \in ToSet(unknownInstList) : \E i \in DOMAIN placed : e.value \in Room(placed[i])
    BY DEF PatchInv
  <1>3. \/ /\ UNCHANGED <<memTable, unknownInstList, placed>>
           /\ phase' = "failed"
        \/ \E r : /\ Within(r, curr_offset)
                  /\ memTable' = r.mem /\ unknownInstList' = r.unknown
                  /\ placed' = Append(placed, item(r)) /\ phase' = phase
    <2>1. Within(AssembleInst(S, curr_offset, known), curr_offset)
      BY <1>1, <1>2, InstWithin
    <2>2. Within(AssembleData(S, curr_offset, known), curr_offset)
      BY <1>1, <1>2, DataWithin
    <2>3. CASE Place(AssembleInst)
      BY <2>1, <2>3 DEF Place, Go, Fail
    <2>4. CASE Place(AssembleData)
      BY <2>2, <2>4 DEF Place, Go, Fail
    <2> QED
      BY <2>3, <2>4
  <1>4. ASSUME NEW r, Within(r, curr_offset),
               memTable' = r.mem, unknownInstList' = r.unknown, placed' = Append(placed, item(r))
        PROVE  /\ Memory(memTable') /\ unknownInstList' \in Seq(Entry)
               /\ \A e \in ToSet(unknownInstList') :
                    \E i \in DOMAIN placed' : e.value \in Room(placed'[i])
    <2>1. /\ Memory(r.mem) /\ r.unknown \in Seq(Entry)
          /\ \A e \in ToSet(r.unknown) :
               \/ e \in ToSet(unknownInstList)
               \/ e.value \in curr_offset .. curr_offset + r.used - 1
      BY <1>4 DEF Within
    <2>2. Room(item(r)) = curr_offset .. curr_offset + r.used - 1
      BY DEF Room
    <2> HIDE DEF item
    <2>3. /\ DOMAIN placed' = 1 .. n + 1 /\ placed'[n + 1] = item(r)
          /\ DOMAIN placed = 1 .. n /\ n \in Nat
          /\ \A i \in 1 .. n : placed'[i] = placed[i]
      <3>1. placed \in Seq(Item)
        BY DEF LabelInv
      <3> QED
        BY <1>4, <3>1
    <2>4. n + 1 \in DOMAIN placed' /\ \A i \in DOMAIN placed : i \in DOMAIN placed' /\ placed'[i] = placed[i]
      BY <2>3
    <2>5. ASSUME NEW e \in ToSet(unknownInstList')
          PROVE  \E i \in DOMAIN placed' : e.value \in Room(placed'[i])
      <3>1. CASE e \in ToSet(unknownInstList)
        BY <1>2, <2>4, <3>1
      <3>2. CASE e.value \in curr_offset .. curr_offset + r.used - 1
        BY <2>2, <2>3, <2>4, <3>2
      <3> QED
        BY <1>4, <2>1, <2>5, <3>1, <3>2
    <2> QED
      BY <1>4, <2>1, <2>5
  <1> QED
    BY <1>2, <1>3, <1>4

LEMMA PatchNext == PassInv /\ LabelInv /\ PatchInv /\ [BuildNext]_<<vars, loadVars>> => PatchInv'
  <1> SUFFICES ASSUME PassInv, LabelInv, PatchInv, [BuildNext]_<<vars, loadVars>> PROVE PatchInv'
    OBVIOUS
  <1>1. loaded' \in BOOLEAN
    BY DEF PatchInv, BuildNext, Assemble, Load, loadVars
  <1>2. curr_offset \div 4 \in Int /\ inst_cnt \in Int /\ phase \in Phase /\ segment \in {"inst", "data"}
    BY DEF PatchInv, LabelInv
  <1>3. CASE UNCHANGED <<memTable, unknownInstList, placed>> /\ phase' \in Phase
             /\ segment' \in {"inst", "data"} /\ inst_cnt' \in Int
    BY <1>1, <1>3 DEF PatchInv, Memory
  <1>4. CASE TextLine \/ DataLine
    <2>1. segment' \in {"inst", "data"} /\ inst_cnt' \in Int
      BY <1>2, <1>4 DEF TextLine, DataLine, SegmentNow, InstCntNow
    <2>2. line <= Len(program)
      BY <1>4, LineRead
    <2>3. CASE Here.ok /\ (Place(AssembleInst) \/ Place(AssembleData))
      <3>1. /\ Memory(memTable') /\ unknownInstList' \in Seq(Entry)
            /\ \A e \in ToSet(unknownInstList') :
                 \E i \in DOMAIN placed' : e.value \in Room(placed'[i])
            /\ phase' = phase \/ phase' = "failed"
        BY <2>2, <2>3, PatchPlace
      <3>2. phase' \in Phase
        BY <1>2, <3>1 DEF Phase
      <3> QED
        BY <1>1, <2>1, <3>1, <3>2 DEF PatchInv, Memory
    <2>4. CASE UNCHANGED <<memTable, unknownInstList, placed>> /\ phase' \in {phase, "failed"}
      <3>1. phase' \in Phase
        BY <1>2, <2>4 DEF Phase
      <3> QED
        BY <1>3, <2>1, <2>4, <3>1
    <2> QED
      BY <1>4, <2>3, <2>4 DEF TextLine, DataLine, Unparsed, Pass, Go, Fail
  <1>5. CASE CheckLine
    BY <1>2, <1>3, <1>5 DEF CheckLine, Go, Fail, Phase
  <1>6. CASE EndPass
    BY <1>2, <1>3, <1>6 DEF EndPass, Phase
  <1>7. CASE Backpatch
    <2>1. Memory(memTable)' /\ phase' \in Phase
      <3>1. CASE memTable' = Patched /\ phase' = "write"
        <4>1. Memory(Patched)
          BY PatchesKeep DEF PatchInv
        <4> QED
          BY <3>1, <4>1 DEF Memory, Phase
      <3>2. CASE memTable' = memTable /\ phase' = "failed"
        BY <3>2 DEF PatchInv, Memory, Phase
      <3> QED
        BY <1>7, <3>1, <3>2 DEF Backpatch
    <2> QED
      BY <1>1, <1>2, <1>7, <2>1 DEF Backpatch, PatchInv
  <1>8. CASE WriteExec
    BY <1>2, <1>3, <1>8 DEF WriteExec, Phase
  <1>9. CASE UNCHANGED vars
    BY <1>2, <1>3, <1>9 DEF vars
  <1> QED
    BY <1>4, <1>5, <1>6, <1>7, <1>8, <1>9 DEF BuildNext, Assemble, Next, Load

(* The state of the assembler is what its parts are made of.  Neither of   *)
(* its lists binds a name twice: add_symbol is not called for a name that  *)
(* is there (ant_symtab.c:20), and a constant is taken out before it is    *)
(* bound again (ant_parse.c:297).  What ant32_backpatch is to patch is in  *)
(* something assembled.                                                    *)
THEOREM AsmTypesCorrect == Build => []AsmTypeOK
  <1>1. PassInv /\ LabelInv /\ PatchInv => AsmTypeOK
    <2> SUFFICES ASSUME PassInv, LabelInv, PatchInv PROVE AsmTypeOK
      OBVIOUS
    <2>1. NamesOnce
      BY DEF PassInv, LabelInv, Context, SymbolLists, NamesOnce
    <2>2. PatchesInItems
      <3> SUFFICES ASSUME NEW i \in DOMAIN unknownInstList
                   PROVE  /\ unknownInstList[i].type \in 0 .. 3
                          /\ \E item \in Items : unknownInstList[i].value \in Room(item)
        BY DEF PatchesInItems
      <3>1. unknownInstList[i] \in Entry /\ unknownInstList[i] \in ToSet(unknownInstList)
        BY DEF PatchInv, ToSet
      <3>2. PICK k \in DOMAIN placed : unknownInstList[i].value \in Room(placed[k])
        BY <3>1 DEF PatchInv
      <3> QED
        BY <3>1, <3>2 DEF Entry, Items
    <2>3. DOMAIN memTable = Offset
      BY DEF PatchInv, Memory
    <2> QED
      BY <2>1, <2>2, <2>3 DEF AsmTypeOK, PassInv, LabelInv, PatchInv
  <1>2. BuildInit => PatchInv
    BY PatchInit
  <1>3. PassInv /\ LabelInv /\ PatchInv /\ [BuildNext]_<<vars, loadVars>> => PatchInv'
    BY PatchNext
  <1> QED
    BY <1>1, <1>2, <1>3, LabelsMeetItems, PTL DEF Build

(* Items that take nothing do not move what is behind them.                *)
LEMMA NothingBetween ==
  ASSUME LabelInv, NoAddr, NEW i \in DOMAIN placed, NEW j \in NextItem(i)
  PROVE  placed[j].at = placed[i].at
  <1> DEFINE n == Len(placed)
             T == {k \in 0 .. j - i : placed[i + k].at = placed[i].at}
  <1>1. /\ DOMAIN placed = 1 .. n /\ n \in Nat
        /\ \A k \in 1 .. n : placed[k].at \in Int
    <2>1. placed \in Seq(Item)
      BY DEF LabelInv
    <2>2. \A x \in Item : x.at \in Int
      BY DEF Item
    <2> QED
      BY <2>1, <2>2
  <1> HIDE DEF n
  <1>2. i \in 1 .. n /\ j \in i .. n /\ \A k \in i .. j - 1 : placed[k].used = 0
    BY <1>1 DEF NextItem, n
  <1>3. \A k \in 1 .. n : k # n => placed[k].at + placed[k].used = placed[k + 1].at
    <2>1. Adjoining(placed, curr_offset) /\ Len(placed) = n
      BY DEF LabelInv, n
    <2> QED
      BY <1>1, <2>1 DEF Adjoining
  <1>4. 0 \in T
    BY <1>2
  <1>5. ASSUME NEW k \in 1 .. j - i, k - 1 \in T PROVE k \in T
    <2>1. /\ i + (k - 1) \in 1 .. n /\ i + (k - 1) # n /\ i + (k - 1) \in i .. j - 1
          /\ i + (k - 1) + 1 = i + k
      BY <1>1, <1>2
    <2>2. placed[i + (k - 1)].at + placed[i + (k - 1)].used = placed[i + k].at
      BY <1>3, <2>1
    <2>3. placed[i + (k - 1)].used = 0 /\ placed[i + (k - 1)].at = placed[i].at /\ placed[i].at \in Int
      BY <1>1, <1>2, <1>5, <2>1
    <2>4. placed[i + k].at = placed[i].at
      BY <2>2, <2>3
    <2> QED
      BY <2>4
  <1> HIDE DEF T
  <1>6. j - i \in Nat
    BY <1>1, <1>2
  <1>7. j - i \in T
    <2>1. \A k \in 0 .. j - i : k \in T
      BY <1>4, <1>5, <1>6, BoundedInduction
    <2> QED
      BY <1>6, <2>1
  <1>8. i + (j - i) = j
    BY <1>1, <1>2
  <1> QED
    BY <1>7, <1>8 DEF T

(* A label is the address of what is assembled first behind it.            *)
THEOREM LabelsNameItems == Build => []LabelsName
  <1>1. ASSUME PassInv, LabelInv PROVE LabelsName
    <2> SUFFICES ASSUME NoAddr, NEW i \in DOMAIN placed, placed[i].stmnt.label # NoName,
                        NEW j \in NextItem(i)
                 PROVE  Final(placed[i].stmnt.label) = Truncate(BaseAddress + placed[j].at)
      BY DEF LabelsName
    <2>1. placed[j].at = placed[i].at
      BY <1>1, NothingBetween
    <2> QED
      BY <1>1, <2>1 DEF LabelInv, Labelling, Final
  <1> QED
    BY <1>1, LabelsMeetItems, PTL
-----------------------------------------------------------------------------
(* Data and instructions.  The j-th byte of a statement, the label it is   *)
(* of, if any, and which byte of it; where the host has it, and the entry  *)
(* of the list that makes it wait.                                         *)
DataOps == {"BYTE", "WORD", "ASCII", "ASCIIZ"}
Certain(s) == s.op \in DataOps \/ (s.op \in Instructions /\ ~LchAstray(s))

Operand(s, j) == s.args[((j - 1) \div 4) + 1]
ByteNo(j)     == 3 - ((j - 1) % 4)
TempOf(s, j)  == Template(FormOf(s), j - 1)

Refers(s, j) ==
  IF s.op = "WORD" THEN Operand(s, j).type = "LABEL" ELSE s.op \in Expanded /\ LabelIn(s, j - 1) # NoName
RefOf(s, j)  == IF s.op = "WORD" THEN Operand(s, j).label ELSE LabelIn(s, j - 1)
PartOf(s, j) == IF s.op = "WORD" THEN ByteNo(j) ELSE TempOf(s, j)[3]
PlainOf(s, j) ==
  IF s.op = "WORD" THEN ByteOf(Operand(s, j).val, ByteNo(j))
  ELSE IF s.op \in DataOps THEN DataBytes(s)[j]
  ELSE IF s.op \in Expanded THEN Made(s, TempOf(s, j), <<>>)
  ELSE (<<Code(s.op)>> \o InstBytes(s))[j]

PlaceOf(item, j) == Host(item.at + j - 1)
Due(item, j) == Symbol(RefOf(item.stmnt, j), PlaceOf(item, j), PartOf(item.stmnt, j))

ByteIs(s, j, known) ==
  IF Refers(s, j) THEN ByteOf(ValueOf(known, RefOf(s, j)), PartOf(s, j)) ELSE PlainOf(s, j)

Sure(s, j, known) == Refers(s, j) => Defined(known, RefOf(s, j))

Whole(item) ==
  item.used = IF item.stmnt.op = "WORD" THEN 4 * Len(item.stmnt.args)
              ELSE IF item.stmnt.op \in DataOps THEN Len(DataBytes(item.stmnt))
              ELSE IF item.stmnt.op \in Expanded THEN FormOf(item.stmnt).size ELSE 4

(* What is patched is an instruction or a word, whose own label it is.     *)
Patches(item, e) ==
  /\ item.text \/ item.stmnt.op = "WORD"
  /\ item.used % 4 = 0 /\ e.value \in Room(item)
  /\ Certain(item.stmnt) /\ item.at % 4 = 0 =>
       \E j \in 1 .. item.used : Refers(item.stmnt, j) /\ e = Due(item, j)

Owed(item, j, list) == Refers(item.stmnt, j) /\ Due(item, j) \in ToSet(list)

(* An item is in memory, but for what is to be patched.                    *)
Holds(item, mem, known, list) ==
  /\ Whole(item)
  /\ \A j \in 1 .. item.used :
       \/ Sure(item.stmnt, j, known) /\ mem[PlaceOf(item, j)] = ByteIs(item.stmnt, j, known)
       \/ Owed(item, j, list)

HoldsAtLast(item, mem, known) ==
  /\ Whole(item)
  /\ \A j \in 1 .. item.used : mem[PlaceOf(item, j)] = ByteIs(item.stmnt, j, known)

Before(a, b) == a.at + a.used <= b.at
Sane(items) ==
  /\ \A i \in DOMAIN items : Placed(items[i])
  /\ \A i, j \in DOMAIN items : i < j => Before(items[i], items[j])

DataInv ==
  /\ \A e \in ToSet(unknownInstList) : \E i \in DOMAIN placed : Patches(placed[i], e)
  /\ phase \in {"check", "text", "data", "patch"} /\ Sane(placed) =>
       \A i \in DOMAIN placed : Certain(placed[i].stmnt) =>
         Holds(placed[i], memTable, knownList, unknownInstList)
  /\ phase \in {"write", "done"} /\ Sane(placed) =>
       \A i \in DOMAIN placed : Certain(placed[i].stmnt) =>
         HoldsAtLast(placed[i], memTable, knownList)

(* The host keeps the bytes of a word in that word.                        *)
LEMMA HostParts ==
  ASSUME NEW at \in Int, at % 4 = 0, NEW i \in Int
  PROVE  /\ Host(at + i) = at + 4 * (i \div 4) + 3 - (i % 4)
         /\ (Host(at + i) - at) \div 4 = i \div 4
         /\ (Host(at + i) - at) % 4 = 3 - (i % 4)
  <1>1. (at + i) \div 4 = (at \div 4) + (i \div 4) /\ (at + i) % 4 = i % 4 /\ at = 4 * (at \div 4)
    OBVIOUS
  <1>2. Host(at + i) = at + 4 * (i \div 4) + 3 - (i % 4)
    BY <1>1 DEF Host
  <1>3. i \div 4 \in Int /\ 3 - (i % 4) \in 0 .. 3
    OBVIOUS
  <1>4. Host(at + i) - at = 4 * (i \div 4) + (3 - (i % 4))
    BY <1>2, <1>3
  <1> QED
    BY <1>2, <1>3, <1>4

LEMMA HostPlace ==
  ASSUME NEW at \in Int, at % 4 = 0, NEW i \in Int
  PROVE  Host(at + i) = at + Host(i)
  <1>1. i \div 4 \in Int /\ i % 4 \in Int
    OBVIOUS
  <1> QED
    BY <1>1, HostParts DEF Host

LEMMA HostRoom ==
  ASSUME NEW at \in Int, at % 4 = 0, NEW n \in Nat, n % 4 = 0, NEW a \in Int
  PROVE  Host(a) \in at .. at + n - 1 <=> a \in at .. at + n - 1
  <1>1. PICK u \in Int, v \in Int : at = 4 * u /\ n = 4 * v
    <2>1. at = 4 * (at \div 4) /\ n = 4 * (n \div 4)
      OBVIOUS
    <2> QED
      BY <2>1
  <1>2. PICK q \in Int, r \in 0 .. 3 : a = 4 * q + r /\ Host(a) = 4 * q + (3 - r)
    <2>1. a = 4 * (a \div 4) + (a % 4) /\ a % 4 \in 0 .. 3 /\ a \div 4 \in Int
      OBVIOUS
    <2> QED
      BY <2>1 DEF Host
  <1>3. a \in at .. at + n - 1 <=> q \in u .. u + v - 1
    BY <1>1, <1>2
  <1>4. Host(a) \in at .. at + n - 1 <=> q \in u .. u + v - 1
    BY <1>1, <1>2
  <1> QED
    BY <1>3, <1>4

LEMMA InOffset ==
  ASSUME NEW item, item.at \in Int, item.used \in Nat, InMemory(item), NEW j \in 1 .. item.used
  PROVE  PlaceOf(item, j) \in Offset
  <1>1. MaxBytes \in Nat /\ MaxBytes % 4 = 0
    BY AsmAssumption
  <1>2. item.at + j - 1 \in Int /\ item.at + j - 1 \in 0 .. 0 + MaxBytes - 1
    BY <1>1 DEF InMemory
  <1>3. Host(item.at + j - 1) \in 0 .. 0 + MaxBytes - 1
    BY <1>1, <1>2, HostRoom
  <1> QED
    BY <1>1, <1>3 DEF PlaceOf, Offset

(* What is put in memory byte by byte, as the Ant-32 sees it.              *)
LEMMA BytesPut ==
  ASSUME NEW at \in Int, NEW bytes, NEW n \in Nat, DOMAIN bytes = 1 .. n, NEW a \in Int, Host(a) \in Offset
  PROVE  /\ a \notin at .. at + n - 1 => PutBytes(memTable, at, bytes)[Host(a)] = memTable[Host(a)]
         /\ \A i \in 1 .. n : a = at + i - 1 => PutBytes(memTable, at, bytes)[Host(a)] = bytes[i]
  <1>1. \A i \in 1 .. n : Host(a) = Host(at + i - 1) <=> a = at + i - 1
    <2> TAKE i \in 1 .. n
    <2>1. at + i - 1 \in Int
      OBVIOUS
    <2>2. Host(Host(a)) = a /\ Host(Host(at + i - 1)) = at + i - 1
      BY <2>1, HostIn
    <2> QED
      BY <2>2
  <1>2. PutBytes(memTable, at, bytes)[Host(a)] =
          IF \E i \in 1 .. n : Host(a) = Host(at + i - 1)
          THEN bytes[CHOOSE i \in 1 .. n : Host(a) = Host(at + i - 1)] ELSE memTable[Host(a)]
    BY DEF PutBytes
  <1>3. CASE a \notin at .. at + n - 1
    <2>1. \A i \in 1 .. n : a # at + i - 1
      BY <1>3
    <2> QED
      BY <1>1, <1>2, <1>3, <2>1
  <1>4. ASSUME NEW i \in 1 .. n, a = at + i - 1
        PROVE  PutBytes(memTable, at, bytes)[Host(a)] = bytes[i]
    <2> DEFINE P(k) == Host(a) = Host(at + k - 1)
               c == CHOOSE k \in 1 .. n : P(k)
    <2>1. P(i) /\ \A k \in 1 .. n : P(k) => k = i
      <3>1. \A k \in 1 .. n : a = at + k - 1 => k = i
        BY <1>4
      <3>2. \A k \in 1 .. n : P(k) <=> a = at + k - 1
        BY <1>1
      <3> HIDE DEF P
      <3> QED
        BY <1>4, <3>1, <3>2
    <2>2. c = i
      <3> HIDE DEF P
      <3> QED
        BY <2>1
    <2> QED
      BY <1>2, <2>1, <2>2
  <1> QED
    BY <1>3, <1>4

(* What is not in an item is as it was, as the Ant-32 sees it.             *)
Clean(r, at) ==
  \A a \in Int : Host(a) \in Offset /\ a \notin at .. at + r.used - 1 => r.mem[Host(a)] = memTable[Host(a)]

(* So it is when an aligned region is written.                             *)
LEMMA RegionClean ==
  ASSUME NEW r, NEW at \in Int, r.used \in Nat, r.used % 4 = 0, r.used > 0 => at % 4 = 0,
         \A a \in Offset : a \notin at .. at + r.used - 1 => r.mem[a] = memTable[a]
  PROVE  Clean(r, at)
  <1> SUFFICES ASSUME NEW a \in Int, Host(a) \in Offset, a \notin at .. at + r.used - 1
               PROVE  r.mem[Host(a)] = memTable[Host(a)]
    BY DEF Clean
  <1>1. CASE r.used > 0
    <2>1. Host(a) \notin at .. at + r.used - 1
      BY <1>1, HostRoom
    <2> QED
      BY <2>1
  <1>2. CASE r.used = 0
    <2>1. Host(a) \notin at .. at + r.used - 1
      BY <1>2
    <2> QED
      BY <2>1
  <1> QED
    BY <1>1, <1>2

LEMMA SameClean ==
  ASSUME NEW at
  PROVE  /\ Clean(Fails, at)
         /\ \A used, unknown : Clean(Result(memTable, used, unknown), at)
  BY DEF Clean, Fails, Result

LEMMA WordClean ==
  ASSUME NEW at \in Int, at % 4 = 0, NEW bytes, NEW unknown
  PROVE  Clean(Result(PutWord(memTable, Lowest(at), bytes), 4, unknown), at)
  <1> DEFINE r == Result(PutWord(memTable, Lowest(at), bytes), 4, unknown)
  <1>1. Lowest(at) = at
    BY DEF Lowest
  <1>2. r.used = 4 /\ r.mem = PutWord(memTable, at, bytes)
    BY <1>1 DEF Result
  <1> HIDE DEF r
  <1>3. \A a \in Offset : a \notin at .. at + r.used - 1 => r.mem[a] = memTable[a]
    BY <1>2 DEF PutWord
  <1>4. r.used \in Nat /\ r.used % 4 = 0
    BY <1>2
  <1>5. Clean(r, at)
    BY <1>3, <1>4, RegionClean
  <1> QED
    BY <1>5 DEF r

LEMMA WordsClean ==
  ASSUME NEW s \in StmntRec, NEW at \in Int, at % 4 = 0, NEW known
  PROVE  Clean(Words(s, at, known), at)
  <1> DEFINE r == Words(s, at, known)
             n == Len(s.args)
  <1>1. n \in Nat
    BY DEF StmntRec
  <1>2. /\ r.used = 4 * n
        /\ \A a \in Offset : a \notin at .. at + 4 * n - 1 => r.mem[a] = memTable[a]
    BY DEF Words, Result
  <1> HIDE DEF r, n
  <1>3. r.used \in Nat /\ r.used % 4 = 0
    BY <1>1, <1>2
  <1>4. \A a \in Offset : a \notin at .. at + r.used - 1 => r.mem[a] = memTable[a]
    BY <1>2
  <1>5. Clean(r, at)
    BY <1>3, <1>4, RegionClean
  <1> QED
    BY <1>5 DEF r

LEMMA ExpandClean ==
  ASSUME NEW s \in StmntRec, NEW at \in Int, NEW known,
         Expand(s, at, known).used > 0 => at % 4 = 0
  PROVE  Clean(Expand(s, at, known), at)
  <1> DEFINE r == Expand(s, at, known)
             n == FormOf(s).size
  <1>1. CASE ~CanExpand(s) \/ MaxBytes - at < n
    BY <1>1, SameClean DEF Expand
  <1>2. CASE CanExpand(s) /\ ~(MaxBytes - at < n)
    <2>1. n \in Nat /\ n % 4 = 0
      BY <1>2, FormSizes DEF WellFormed
    <2>2. /\ r.used = n
          /\ \A a \in Offset : a \notin at .. at + n - 1 => r.mem[a] = memTable[a]
      BY <1>2 DEF Expand, Result
    <2>3. r.used > 0 => at % 4 = 0
      OBVIOUS
    <2> HIDE DEF r, n
    <2>4. Clean(r, at)
      BY <2>1, <2>2, <2>3, RegionClean
    <2> QED
      BY <2>4 DEF r
  <1> QED
    BY <1>1, <1>2

LEMMA PutClean ==
  ASSUME NEW at \in Int, NEW bytes, NEW n \in Nat, DOMAIN bytes = 1 .. n, NEW unknown
  PROVE  Clean(Result(PutBytes(memTable, at, bytes), n, unknown), at)
  <1> DEFINE r == Result(PutBytes(memTable, at, bytes), n, unknown)
  <1>1. r.used = n /\ r.mem = PutBytes(memTable, at, bytes)
    BY DEF Result
  <1> HIDE DEF r
  <1>2. Clean(r, at)
    BY <1>1, BytesPut DEF Clean
  <1> QED
    BY <1>2 DEF r

LEMMA AlignClean ==
  ASSUME NEW s \in StmntRec, NEW at \in Int
  PROVE  Clean(Align(s, at), at)
  <1>1. CASE ~Alignable(s)
    BY <1>1, SameClean DEF Align
  <1>2. CASE Alignable(s)
    <2> DEFINE n == Gap(at, Arg0(s).val)
               bytes == [i \in 1 .. n |-> 0]
    <2>1. Arg0(s).val \in Int
      BY FirstArg
    <2>2. n \in Nat
      BY <1>2, <2>1 DEF Alignable, Gap
    <2>3. DOMAIN bytes = 1 .. n
      OBVIOUS
    <2>4. Align(s, at) = Result(PutBytes(memTable, at, bytes), n, unknownInstList)
      BY <1>2 DEF Align
    <2> HIDE DEF n, bytes
    <2> QED
      BY <2>2, <2>3, <2>4, PutClean
  <1> QED
    BY <1>1, <1>2

(* The bytes a statement gives.                                            *)
LEMMA DataLength ==
  ASSUME NEW s \in StmntRec
  PROVE  /\ Len(DataBytes(s)) \in Nat /\ DOMAIN DataBytes(s) = 1 .. Len(DataBytes(s))
         /\ DataBytes(s) = [j \in 1 .. Len(DataBytes(s)) |-> DataBytes(s)[j]]
  <1>1. Len(s.args) \in Nat /\ Arg0(s).string \in Seq(Nat) /\ DOMAIN s.args = 1 .. Len(s.args)
    BY FirstArg DEF StmntRec
  <1> DEFINE x == Append(Arg0(s).string, 0)
             f == [i \in DOMAIN s.args |-> ByteOf(s.args[i].val, 0)]
  <1>2. x \in Seq(Nat)
    BY <1>1
  <1>3. \A y \in Seq(Nat) : Len(y) \in Nat /\ DOMAIN y = 1 .. Len(y) /\ y = [j \in 1 .. Len(y) |-> y[j]]
    OBVIOUS
  <1>4. Len(f) = Len(s.args) /\ DOMAIN f = 1 .. Len(s.args) /\ f = [j \in 1 .. Len(s.args) |-> f[j]]
    BY <1>1
  <1>5. DataBytes(s) = f \/ DataBytes(s) = x \/ DataBytes(s) = Arg0(s).string
    BY DEF DataBytes
  <1> HIDE DEF f, x
  <1> QED
    BY <1>1, <1>2, <1>3, <1>4, <1>5

LEMMA InstClean ==
  ASSUME NEW s \in StmntRec, NEW at \in Int, NEW known, NEW item,
         item.stmnt = s, item.at = at, item.used = AssembleInst(s, at, known).used,
         item.text, Placed(item)
  PROVE  Clean(AssembleInst(s, at, known), at)
  <1>1. /\ item.used > 0 => at % 4 = 0
        /\ s.op = "WORD" => at % 4 = 0
        /\ s.op = "ALIGN" => ~(item.used > 0)
    BY DEF Placed, InstAstray, WordAstray, AlignAstray
  <1>2. CASE s.op = "NONE" \/ s.op \in {"BYTE", "ASCII", "ASCIIZ"}
    BY <1>2, SameClean DEF AssembleInst
  <1>3. CASE s.op = "ALIGN"
    <2> DEFINE r == Align(s, at \div 4)
    <2>1. AssembleInst(s, at, known) = r
      BY <1>3 DEF AssembleInst
    <2>2. r.used \in Nat /\ at \div 4 \in Int
      BY AlignTakes
    <2>3. r.used = 0
      BY <1>1, <1>3, <2>1, <2>2
    <2>4. Clean(r, at \div 4)
      BY <2>2, AlignClean
    <2> HIDE DEF r
    <2>5. Clean(r, at)
      BY <2>2, <2>3, <2>4 DEF Clean
    <2> QED
      BY <2>1, <2>5
  <1>4. CASE s.op \notin {"NONE", "BYTE", "ASCII", "ASCIIZ", "ALIGN"} /\ s.op \in Expanded
    <2>1. AssembleInst(s, at, known) = Expand(s, at, known)
      BY <1>4 DEF AssembleInst
    <2> QED
      BY <1>1, <2>1, ExpandClean
  <1>5. CASE s.op = "WORD" /\ s.op \notin Expanded
    <2>1. AssembleInst(s, at, known) = Words(s, at, known)
      BY <1>5 DEF AssembleInst
    <2> QED
      BY <1>1, <1>5, <2>1, WordsClean
  <1>6. CASE s.op \notin {"NONE", "BYTE", "ASCII", "ASCIIZ", "ALIGN", "WORD"} /\ s.op \notin Expanded
    <2> DEFINE r == AssembleInst(s, at, known)
    <2>1. \/ r = Fails
          \/ r = LchOfLabel(s, at, known)
          \/ r = Result(PutWord(memTable, Lowest(at), <<Code(s.op)>> \o InstBytes(s)), 4, unknownInstList)
      BY <1>6 DEF AssembleInst
    <2>2. r = Fails \/ \E bytes, unknown : r = Result(PutWord(memTable, Lowest(at), bytes), 4, unknown)
      BY <2>1 DEF LchOfLabel
    <2> HIDE DEF r
    <2>3. CASE r = Fails
      BY <2>3, SameClean DEF r
    <2>4. ASSUME NEW bytes, NEW unknown, r = Result(PutWord(memTable, Lowest(at), bytes), 4, unknown)
          PROVE  Clean(r, at)
      <3>1. r.used = 4
        BY <2>4 DEF Result
      <3>2. at % 4 = 0
        BY <1>1, <3>1 DEF r
      <3> QED
        BY <2>4, <3>2, WordClean
    <2> QED
      BY <2>2, <2>3, <2>4 DEF r
  <1> QED
    BY <1>2, <1>3, <1>4, <1>5, <1>6

LEMMA DataClean ==
  ASSUME NEW s \in StmntRec, NEW at \in Int, NEW known, NEW item,
         item.stmnt = s, item.at = at, Placed(item)
  PROVE  Clean(AssembleData(s, at, known), at)
  <1>1. s.op = "WORD" => at % 4 = 0
    BY DEF Placed, WordAstray
  <1>2. s.op = "WORD" => Clean(Words(s, at, known), at)
    BY <1>1, WordsClean
  <1>3. Clean(Align(s, at), at)
    BY AlignClean
  <1>4. Clean(Result(PutBytes(memTable, at, DataBytes(s)), Len(DataBytes(s)), unknownInstList), at)
    BY DataLength, PutClean
  <1> QED
    BY <1>2, <1>3, <1>4, SameClean DEF AssembleData

NotInstructions == DataOps \cup {"NONE", "ALIGN"}

(* Nothing that is data is taken for an instruction.                       *)
LEMMA InstructionsOnly == \A op \in Instructions : op \notin NotInstructions
  <1> DEFINE Clear(some) == \A op \in some : op \notin NotInstructions
  <1>1. ASSUME NEW prefix, NEW ops, \A i \in DOMAIN ops : ops[i] \notin NotInstructions
        PROVE  Clear(DOMAIN Group(prefix, ops))
    BY <1>1 DEF Group, Range
  <1>2. \A g \in Groups : Clear(DOMAIN g)
    <2> HIDE DEF Clear
    <2> QED
      BY <1>1 DEF Groups, NotInstructions, DataOps
  <1>3. Clear(DOMAIN Native)
    BY <1>2 DEF Native
  <1>4. \A op \in Pseudo : op \notin NotInstructions
    BY DEF Pseudo, NotInstructions, DataOps
  <1> QED
    BY <1>3, <1>4 DEF Instructions

LEMMA DataOpsKept == \A op : op \in Expanded \/ op = "LCH" => op \notin DataOps
  BY DEF Expanded, Pseudo, DataOps

(* Only bytes of words and of expanded operations are of labels.           *)
LEMMA WordRefers ==
  ASSUME NEW item, item.stmnt.op = "WORD", NEW j
  PROVE  LET s == item.stmnt
             a == Operand(s, j)
         IN  /\ Refers(s, j) <=> a.type = "LABEL"
             /\ \A known : ByteIs(s, j, known) = WordByte(a, ByteNo(j), known)
             /\ Due(item, j) = Symbol(a.label, PlaceOf(item, j), ByteNo(j))
             /\ \A known : Sure(s, j, known) <=> ~Waits(a, known)
  BY DEF Refers, RefOf, PartOf, PlainOf, ByteIs, Due, Sure, Waits, WordByte

LEMMA MadeIs ==
  ASSUME NEW s, NEW t, NEW known
  PROVE  Made(s, t, known) = IF LabelAt(s, t) # NoName
                             THEN ByteOf(ValueOf(known, LabelAt(s, t)), t[3]) ELSE Made(s, t, <<>>)
  <1>1. CASE LabelAt(s, t) # NoName
    <2>1. t[1] = "const"
      BY <1>1 DEF LabelAt
    <2> QED
      BY <1>1, <2>1 DEF Made
  <1>2. CASE LabelAt(s, t) = NoName
    BY <1>2 DEF Made
  <1> QED
    BY <1>1, <1>2

LEMMA ExpandRefers ==
  ASSUME NEW item, item.stmnt.op \in Expanded, NEW j
  PROVE  LET s == item.stmnt
         IN  /\ Refers(s, j) <=> LabelIn(s, j - 1) # NoName
             /\ \A known : ByteIs(s, j, known) = Made(s, TempOf(s, j), known)
             /\ Due(item, j) = Symbol(LabelIn(s, j - 1), PlaceOf(item, j), TempOf(s, j)[3])
             /\ \A known : Sure(s, j, known) <=> ~Waiting(s, j - 1, known)
  <1> DEFINE s == item.stmnt
  <1>1. s.op \notin DataOps /\ s.op # "WORD"
    BY DataOpsKept DEF DataOps
  <1>2. LabelIn(s, j - 1) = LabelAt(s, TempOf(s, j))
    BY DEF LabelIn, TempOf
  <1>3. Refers(s, j) <=> LabelIn(s, j - 1) # NoName
    BY <1>1 DEF Refers
  <1>4. ASSUME NEW known PROVE ByteIs(s, j, known) = Made(s, TempOf(s, j), known)
    <2>1. Made(s, TempOf(s, j), known) =
            IF LabelIn(s, j - 1) # NoName
            THEN ByteOf(ValueOf(known, LabelIn(s, j - 1)), TempOf(s, j)[3]) ELSE Made(s, TempOf(s, j), <<>>)
      BY <1>2, MadeIs
    <2> QED
      BY <1>1, <1>3, <2>1 DEF ByteIs, RefOf, PartOf, PlainOf
  <1> QED
    BY <1>1, <1>3, <1>4 DEF Due, RefOf, PartOf, Sure, Waiting

LEMMA RefersOnly ==
  ASSUME NEW s, NEW j, s.op # "WORD", s.op \notin Expanded
  PROVE  ~Refers(s, j)
  BY DEF Refers

(* What a statement adds to what is to be patched is its own.              *)
Adds(r, item) ==
  /\ ToSet(unknownInstList) \subseteq ToSet(r.unknown)
  /\ \A e \in ToSet(r.unknown) : e \in ToSet(unknownInstList) \/ Patches(item, e)

LEMMA AddsNothing ==
  ASSUME NEW item
  PROVE  Adds(Fails, item) /\ \A mem, used : Adds(Result(mem, used, unknownInstList), item)
  BY DEF Adds, Fails, Result

(* The byte of a word that an entry is for.                                *)
ForByte(j, i, k, at) ==
  /\ ((j - 1) \div 4) + 1 = i /\ ByteNo(j) = k
  /\ at % 4 = 0 => Host(at + j - 1) = at + 4 * (i - 1) + k

LEMMA WordByteOf ==
  ASSUME NEW n \in Nat, NEW i \in 1 .. n, NEW k \in 0 .. 3, NEW at \in Int
  PROVE  \E j \in 1 .. 4 * n : ForByte(j, i, k, at)
  <1> DEFINE j == 4 * (i - 1) + (3 - k) + 1
  <1>1. j - 1 = 4 * (i - 1) + (3 - k) /\ 3 - k \in 0 .. 3 /\ i - 1 \in Nat /\ j \in Nat /\ j > 0
    OBVIOUS
  <1>2. (j - 1) \div 4 = i - 1 /\ (j - 1) % 4 = 3 - k
    BY <1>1
  <1>3. ByteNo(j) = k
    BY <1>2 DEF ByteNo
  <1>4. j \in 1 .. 4 * n
    BY <1>1
  <1>5. at + j - 1 = at + (j - 1) /\ j - 1 \in Int
    BY <1>1
  <1> HIDE DEF j
  <1>6. ASSUME at % 4 = 0 PROVE Host(at + j - 1) = at + 4 * (i - 1) + k
    <2>1. Host(at + (j - 1)) = at + 4 * ((j - 1) \div 4) + 3 - ((j - 1) % 4)
      BY <1>5, <1>6, HostParts
    <2> QED
      BY <1>2, <1>5, <2>1
  <1>7. ((j - 1) \div 4) + 1 = i
    BY <1>2
  <1> QED
    BY <1>3, <1>4, <1>6, <1>7 DEF ForByte

LEMMA WordsAdd ==
  ASSUME NEW s \in StmntRec, NEW at \in Int, NEW known, unknownInstList \in Seq(Entry), NEW item,
         item.stmnt = s, item.at = at, item.used = Words(s, at, known).used, s.op = "WORD"
  PROVE  Adds(Words(s, at, known), item)
  <1> DEFINE n == Len(s.args)
  <1>1. n \in Nat /\ item.used = 4 * n /\ item.used \in Nat /\ item.used % 4 = 0
    BY DEF Words, Result, StmntRec
  <1>2. ToSet(Words(s, at, known).unknown) = ToSet(unknownInstList) \cup WordPatches(s, at, known, n)
    BY WordsPatched DEF Words, Result
  <1>3. ASSUME NEW e \in WordPatches(s, at, known, n) PROVE Patches(item, e)
    <2>1. PICK i \in 1 .. n : Waits(s.args[i], known) /\ e \in Fours(s.args[i].label, at + 4 * (i - 1))
      BY <1>3 DEF WordPatches
    <2>2. PICK k \in 0 .. 3 : e = Symbol(s.args[i].label, (at + 4 * (i - 1)) + k, k)
      BY <2>1 DEF Fours
    <2>3. s.args[i].type = "LABEL"
      BY <2>1 DEF Waits
    <2>4. i \in Nat /\ i > 0 /\ i <= n
      BY <1>1
    <2>5. PICK j \in 1 .. 4 * n : ForByte(j, i, k, at)
      BY <1>1, WordByteOf
    <2>6. e.value \in Room(item)
      <3>1. e.value = at + 4 * (i - 1) + k
        BY <2>2 DEF Symbol
      <3> HIDE DEF n
      <3> QED
        BY <1>1, <2>4, <3>1 DEF Room
    <2>7. ASSUME at % 4 = 0
          PROVE  \E m \in 1 .. item.used : Refers(item.stmnt, m) /\ e = Due(item, m)
      <3>1. Operand(s, j) = s.args[i]
        BY <2>5 DEF Operand, ForByte
      <3>2. PlaceOf(item, j) = at + 4 * (i - 1) + k
        BY <2>5, <2>7 DEF PlaceOf, ForByte
      <3>3. e = Due(item, j)
        BY <2>2, <2>5, <3>1, <3>2, WordRefers DEF ForByte
      <3>4. j \in 1 .. item.used
        BY <1>1, <2>5
      <3>5. Refers(item.stmnt, j)
        BY <2>3, <3>1, WordRefers
      <3> QED
        BY <3>3, <3>4, <3>5
    <2> QED
      BY <1>1, <2>6, <2>7 DEF Patches
  <1> QED
    BY <1>2, <1>3 DEF Adds

LEMMA ExpandAdds ==
  ASSUME NEW s \in StmntRec, NEW at \in Int, NEW known, unknownInstList \in Seq(Entry),
         Memory(memTable), NEW item,
         item.stmnt = s, item.at = at, item.used = Expand(s, at, known).used,
         item.text, s.op \in Expanded
  PROVE  Adds(Expand(s, at, known), item)
  <1> DEFINE r == Expand(s, at, known)
             n == FormOf(s).size
  <1>1. CASE ~CanExpand(s) \/ MaxBytes - at < n
    BY <1>1, AddsNothing DEF Expand
  <1>2. CASE CanExpand(s) /\ ~(MaxBytes - at < n)
    <2>1. n \in Nat /\ n % 4 = 0
      BY <1>2, FormSizes DEF WellFormed
    <2>2. r.used = n /\ r.unknown = ExpandWaits(s, at, known)
      BY <1>2 DEF Expand, Result
    <2>3. ToSet(unknownInstList) \subseteq ToSet(r.unknown)
      BY <1>2, <2>2, BytesPatched
    <2>4. Within(r, at)
      BY ExpandWithin
    <2>5. ToSet(r.unknown) = ToSet(unknownInstList) \cup BytePatches(s, at, known, n)
      BY <1>2, <2>2, BytesPatched
    <2> HIDE DEF r, n
    <2>6. ASSUME NEW e \in ToSet(r.unknown), e \notin ToSet(unknownInstList) PROVE Patches(item, e)
      <3>1. e.value \in at .. at + r.used - 1
        BY <2>4, <2>6 DEF Within
      <3>2. e.value \in Room(item) /\ item.used % 4 = 0
        BY <2>1, <2>2, <3>1 DEF Room, r
      <3>3. PICK k \in 0 .. n - 1 : /\ Waiting(s, k, known)
                                   /\ e = Symbol(LabelIn(s, k), at + Host(k), Template(FormOf(s), k)[3])
        BY <2>5, <2>6 DEF BytePatches
      <3>4. ASSUME at % 4 = 0 PROVE \E j \in 1 .. item.used : Refers(s, j) /\ e = Due(item, j)
        <4> DEFINE j == k + 1
        <4>1. j \in 1 .. item.used /\ j - 1 = k /\ at + j - 1 = at + k /\ k \in Int
          BY <2>1, <2>2 DEF r
        <4> HIDE DEF j
        <4>2. PlaceOf(item, j) = at + Host(k)
          BY <3>4, <4>1, HostPlace DEF PlaceOf
        <4>3. Refers(s, j) /\ e = Due(item, j)
          BY <3>3, <4>1, <4>2, ExpandRefers DEF TempOf, Waiting
        <4> QED
          BY <4>1, <4>3
      <3> QED
        BY <3>2, <3>4 DEF Patches
    <2>7. Adds(r, item)
      BY <2>3, <2>6 DEF Adds
    <2> QED
      BY <2>7 DEF r
  <1> QED
    BY <1>1, <1>2

LEMMA LchAdds ==
  ASSUME NEW s \in StmntRec, NEW at \in Int, NEW known, unknownInstList \in Seq(Entry),
         Memory(memTable), NEW item,
         item.stmnt = s, item.at = at, item.used = LchOfLabel(s, at, known).used,
         item.text, s.op = "LCH", Arg1(s).type = "LABEL"
  PROVE  Adds(LchOfLabel(s, at, known), item)
  <1> DEFINE label == Arg1(s).label
             r == LchOfLabel(s, at, known)
             l1 == AddUnresolved(unknownInstList, label, at + 2, 1)
             l2 == AddUnresolved(l1, label, at + 3, 0)
  <1>1. CASE Defined(known, label)
    BY <1>1, AddsNothing DEF LchOfLabel
  <1>2. CASE ~Defined(known, label)
    <2>1. r.used = 4 /\ r.unknown = l2
      BY <1>2 DEF LchOfLabel, Result
    <2>2. Within(r, at)
      BY LchWithin
    <2>3. label \in Spelling
      <3>1. s.args \in Seq(ArgRec) /\ \A a \in ArgRec : a.label \in Spelling
        BY DEF StmntRec, ArgRec
      <3>2. UnknownArg.label \in Spelling
        BY DEF UnknownArg, Arg, Spelling
      <3> QED
        BY <3>1, <3>2 DEF Arg1
    <2>4. ~Certain(s)
      BY DataOpsKept DEF Certain, LchAstray
    <2>5. at + 2 \in Int /\ at + 3 \in Int /\ 0 \in 0 .. 3 /\ 1 \in 0 .. 3
      OBVIOUS
    <2> HIDE DEF r, label
    <2>6. Gains(l1, unknownInstList, Symbol(label, at + 2, 1))
      BY <2>3, <2>5, Unresolved
    <2>7. l1 \in Seq(Entry)
      BY <2>6 DEF Gains
    <2> HIDE DEF l1
    <2>8. Gains(l2, l1, Symbol(label, at + 3, 0))
      BY <2>3, <2>5, <2>7, Unresolved
    <2> HIDE DEF l2
    <2>9. ToSet(unknownInstList) \subseteq ToSet(r.unknown)
      BY <2>1, <2>6, <2>8 DEF Gains
    <2>10. ASSUME NEW e \in ToSet(r.unknown), e \notin ToSet(unknownInstList) PROVE Patches(item, e)
      <3>1. e.value \in at .. at + r.used - 1
        BY <2>2, <2>10 DEF Within
      <3>2. e.value \in Room(item) /\ item.used % 4 = 0
        BY <2>1, <3>1 DEF Room, r
      <3> QED
        BY <2>4, <3>2 DEF Patches
    <2>11. Adds(r, item)
      BY <2>9, <2>10 DEF Adds
    <2> QED
      BY <2>11 DEF r
  <1> QED
    BY <1>1, <1>2

LEMMA InstAdds ==
  ASSUME NEW s \in StmntRec, NEW at \in Int, NEW known, unknownInstList \in Seq(Entry),
         Memory(memTable), NEW item,
         item.stmnt = s, item.at = at, item.used = AssembleInst(s, at, known).used, item.text
  PROVE  Adds(AssembleInst(s, at, known), item)
  <1> DEFINE r == AssembleInst(s, at, known)
  <1>1. \/ r = Fails
        \/ \E mem, used : r = Result(mem, used, unknownInstList)
        \/ r = Align(s, at \div 4)
        \/ r = Expand(s, at, known) /\ s.op \in Expanded
        \/ r = Words(s, at, known) /\ s.op = "WORD"
        \/ r = LchOfLabel(s, at, known) /\ s.op = "LCH" /\ Arg1(s).type = "LABEL"
    BY DEF AssembleInst
  <1>2. Adds(Align(s, at \div 4), item)
    BY AddsNothing DEF Align
  <1>3. item.used = r.used
    OBVIOUS
  <1> HIDE DEF r
  <1>4. r = Expand(s, at, known) /\ s.op \in Expanded => Adds(r, item)
    BY <1>3, ExpandAdds
  <1>5. r = Words(s, at, known) /\ s.op = "WORD" => Adds(r, item)
    BY <1>3, WordsAdd
  <1>6. r = LchOfLabel(s, at, known) /\ s.op = "LCH" /\ Arg1(s).type = "LABEL" => Adds(r, item)
    BY <1>3, LchAdds
  <1>7. Adds(r, item)
    BY <1>1, <1>2, <1>4, <1>5, <1>6, AddsNothing
  <1> QED
    BY <1>7 DEF r

LEMMA DataAdds ==
  ASSUME NEW s \in StmntRec, NEW at \in Int, NEW known, unknownInstList \in Seq(Entry), NEW item,
         item.stmnt = s, item.at = at, item.used = AssembleData(s, at, known).used
  PROVE  Adds(AssembleData(s, at, known), item)
  <1> DEFINE r == AssembleData(s, at, known)
  <1>1. \/ r = Fails
        \/ \E mem, used : r = Result(mem, used, unknownInstList)
        \/ r = Align(s, at)
        \/ r = Words(s, at, known) /\ s.op = "WORD"
    BY DEF AssembleData
  <1>2. Adds(Align(s, at), item)
    BY AddsNothing DEF Align
  <1>3. item.used = r.used
    OBVIOUS
  <1> HIDE DEF r
  <1>4. r = Words(s, at, known) /\ s.op = "WORD" => Adds(r, item)
    BY <1>3, WordsAdd
  <1>5. Adds(r, item)
    BY <1>1, <1>2, <1>4, AddsNothing
  <1> QED
    BY <1>5 DEF r

(* The data just assembled is in memory.                                   *)
LEMMA WordsHold ==
  ASSUME NEW s \in StmntRec, NEW at \in Int, NEW known, unknownInstList \in Seq(Entry), NEW item,
         item.stmnt = s, item.at = at, item.used = Words(s, at, known).used, s.op = "WORD", Placed(item)
  PROVE  Holds(item, Words(s, at, known).mem, known, Words(s, at, known).unknown)
  <1> DEFINE n == Len(s.args)
             mem == Words(s, at, known).mem
             list == Words(s, at, known).unknown
  <1>1. n \in Nat /\ item.used = 4 * n /\ item.used \in Nat /\ at % 4 = 0 /\ InMemory(item)
    BY DEF Words, Result, StmntRec, Placed, WordAstray
  <1>2. \A a \in Offset : a \in at .. at + 4 * n - 1 =>
          mem[a] = WordByte(s.args[((a - at) \div 4) + 1], (a - at) % 4, known)
    BY DEF Words, Result
  <1>3. ToSet(list) = ToSet(unknownInstList) \cup WordPatches(s, at, known, n)
    BY WordsPatched DEF Words, Result
  <1>4. Whole(item)
    BY <1>1 DEF Whole
  <1> HIDE DEF mem, list, n
  <1>5. ASSUME NEW j \in 1 .. item.used
        PROVE  \/ Sure(s, j, known) /\ mem[PlaceOf(item, j)] = ByteIs(s, j, known)
               \/ Owed(item, j, list)
    <2> DEFINE p == PlaceOf(item, j)
               i == ((j - 1) \div 4) + 1
    <2>1. j - 1 \in Int /\ at + (j - 1) = at + j - 1 /\ j - 1 \in 0 .. 4 * n - 1
      BY <1>1
    <2>2. /\ p = at + 4 * ((j - 1) \div 4) + 3 - ((j - 1) % 4)
          /\ (p - at) \div 4 = (j - 1) \div 4 /\ (p - at) % 4 = ByteNo(j)
      BY <1>1, <2>1, HostParts DEF PlaceOf, ByteNo
    <2>3. i \in 1 .. n
      BY <1>1, <2>1
    <2>4. p \in Offset
      BY <1>1, InOffset
    <2>5. p \in at .. at + 4 * n - 1
      BY <1>1, <2>1, <2>2
    <2> HIDE DEF p
    <2>6. mem[p] = WordByte(Operand(s, j), ByteNo(j), known)
      BY <1>2, <2>2, <2>4, <2>5 DEF Operand
    <2>7. CASE ~Waits(Operand(s, j), known)
      BY <2>6, <2>7, WordRefers DEF p
    <2>8. CASE Waits(Operand(s, j), known)
      <3>1. Operand(s, j) = s.args[i] /\ Operand(s, j).type = "LABEL"
        BY <2>8 DEF Operand, Waits
      <3>2. ByteNo(j) \in 0 .. 3
        BY <2>1 DEF ByteNo
      <3>3. p = (at + 4 * (i - 1)) + ByteNo(j)
        BY <1>1, <2>1, <2>2 DEF ByteNo
      <3> HIDE DEF i
      <3>4. Due(item, j) = Symbol(s.args[i].label, (at + 4 * (i - 1)) + ByteNo(j), ByteNo(j))
        BY <3>1, <3>3, WordRefers DEF p
      <3>5. Due(item, j) \in Fours(s.args[i].label, at + 4 * (i - 1))
        BY <3>2, <3>4 DEF Fours
      <3>6. Due(item, j) \in WordPatches(s, at, known, n)
        BY <2>3, <2>8, <3>1, <3>5 DEF WordPatches
      <3> QED
        BY <1>3, <3>1, <3>6, WordRefers DEF Owed
    <2> QED
      BY <2>7, <2>8
  <1> QED
    BY <1>4, <1>5 DEF Holds, mem, list

LEMMA PutHolds ==
  ASSUME NEW s \in StmntRec, NEW at \in Int, NEW known, NEW list, NEW item,
         item.stmnt = s, item.at = at, item.used = Len(DataBytes(s)),
         s.op \in DataOps, s.op # "WORD", InMemory(item)
  PROVE  Holds(item, PutBytes(memTable, at, DataBytes(s)), known, list)
  <1> DEFINE mem == PutBytes(memTable, at, DataBytes(s))
  <1>1. item.used \in Nat /\ DOMAIN DataBytes(s) = 1 .. item.used
    BY DataLength
  <1>2. Whole(item)
    BY DEF Whole
  <1>3. ASSUME NEW j \in 1 .. item.used
        PROVE  Sure(s, j, known) /\ mem[PlaceOf(item, j)] = ByteIs(s, j, known)
    <2> DEFINE a == at + j - 1
    <2>1. a \in Int /\ PlaceOf(item, j) = Host(a) /\ Host(a) \in Offset
      BY <1>1, InOffset DEF PlaceOf
    <2>2. a = at + j - 1
      OBVIOUS
    <2> HIDE DEF a
    <2>3. mem[Host(a)] = DataBytes(s)[j]
      BY <1>1, <2>1, <2>2, BytesPut
    <2> QED
      BY <2>1, <2>3, DataOpsKept, RefersOnly DEF Sure, ByteIs, PlainOf
  <1> QED
    BY <1>2, <1>3 DEF Holds

(* So are the instructions of an operation, from the first to the last.    *)
LEMMA ExpandHolds ==
  ASSUME NEW s \in StmntRec, NEW at \in Int, NEW known, unknownInstList \in Seq(Entry), NEW item,
         item.stmnt = s, item.at = at, item.used = Expand(s, at, known).used, s.op \in Expanded,
         Expand(s, at, known).ok, Placed(item), item.text
  PROVE  Holds(item, Expand(s, at, known).mem, known, Expand(s, at, known).unknown)
  <1> DEFINE n == FormOf(s).size
             mem == Expand(s, at, known).mem
             list == Expand(s, at, known).unknown
  <1>1. CanExpand(s) /\ ~(MaxBytes - at < n)
    BY DEF Expand, Fails
  <1>2. /\ list = ExpandWaits(s, at, known) /\ item.used = n
        /\ \A a \in Offset : a \in at .. at + n - 1 => mem[a] = MadeAt(s, Host(a - at), a, known)
    BY <1>1 DEF Expand, Result
  <1>3. n \in Nat /\ n % 4 = 0
    BY <1>1, FormSizes DEF WellFormed
  <1>4. ToSet(list) = ToSet(unknownInstList) \cup BytePatches(s, at, known, n)
    BY <1>1, <1>2, BytesPatched
  <1>5. Whole(item)
    BY <1>2, DataOpsKept DEF Whole, DataOps
  <1>6. InMemory(item) /\ (item.used > 0 => at % 4 = 0)
    BY DEF Placed, InstAstray
  <1> HIDE DEF mem, list, n
  <1>7. ASSUME NEW j \in 1 .. item.used
        PROVE  \/ Sure(s, j, known) /\ mem[PlaceOf(item, j)] = ByteIs(s, j, known)
               \/ Owed(item, j, list)
    <2> DEFINE p == PlaceOf(item, j)
               k == j - 1
    <2>1. k \in Int /\ k \in 0 .. n - 1 /\ at + j - 1 = at + k /\ at % 4 = 0 /\ n > 0
      BY <1>2, <1>3, <1>6
    <2>2. Host(k) \in 0 .. n - 1 /\ Host(Host(k)) = k
      BY <1>3, <2>1, HostWithin, HostIn
    <2>3. p = at + Host(k)
      BY <2>1, HostPlace DEF PlaceOf
    <2>4. p \in Offset
      BY <1>2, <1>3, <1>6, InOffset
    <2>5. j - 1 = k
      OBVIOUS
    <2> HIDE DEF p, k
    <2>6. p \in at .. at + n - 1 /\ p - at = Host(k)
      BY <1>3, <2>2, <2>3
    <2>7. mem[p] = MadeAt(s, k, p, known)
      BY <1>2, <2>2, <2>4, <2>6
    <2>8. CASE ~Waiting(s, k, known)
      BY <2>5, <2>7, <2>8, ExpandRefers DEF MadeAt, TempOf, p
    <2>9. CASE Waiting(s, k, known)
      <3>1. Refers(s, j) /\ Due(item, j) = Symbol(LabelIn(s, k), at + Host(k), Template(FormOf(s), k)[3])
        BY <2>3, <2>5, <2>9, ExpandRefers DEF TempOf, Waiting, p
      <3>2. Due(item, j) \in BytePatches(s, at, known, n)
        BY <2>1, <2>9, <3>1 DEF BytePatches
      <3> QED
        BY <1>4, <3>1, <3>2 DEF Owed
    <2> QED
      BY <2>8, <2>9
  <1> QED
    BY <1>5, <1>7 DEF Holds, mem, list

(* And so is a single one.                                                 *)
LEMMA OneHolds ==
  ASSUME NEW s \in StmntRec, NEW at \in Int, NEW known, NEW list, NEW item, NEW mem,
         item.stmnt = s, item.at = at, item.used = 4, s.op \notin Expanded \cup DataOps,
         mem = PutWord(memTable, Lowest(at), <<Code(s.op)>> \o InstBytes(s)), Placed(item), item.text
  PROVE  Holds(item, mem, known, list)
  <1> DEFINE bytes == <<Code(s.op)>> \o InstBytes(s)
  <1>1. at % 4 = 0 /\ Lowest(at) = at /\ InMemory(item)
    BY DEF Placed, InstAstray, Lowest
  <1>2. Whole(item)
    BY DEF Whole, DataOps
  <1> HIDE DEF bytes
  <1>3. \A a \in Offset : a \in at .. at + 3 => mem[a] = bytes[4 - (a - at)]
    BY <1>1 DEF PutWord, bytes
  <1>4. ASSUME NEW j \in 1 .. item.used
        PROVE  Sure(s, j, known) /\ mem[PlaceOf(item, j)] = ByteIs(s, j, known)
    <2> DEFINE p == PlaceOf(item, j)
    <2>1. p \in Offset
      BY <1>1, InOffset
    <2>2. at + j - 1 = at + (j - 1) /\ j - 1 \in 0 .. 3 /\ j - 1 \in Int
      OBVIOUS
    <2>3. p = at + 3 - (j - 1)
      <3>1. (j - 1) \div 4 = 0 /\ (j - 1) % 4 = j - 1
        BY <2>2
      <3>2. Host(at + (j - 1)) = at + 4 * ((j - 1) \div 4) + 3 - ((j - 1) % 4)
        BY <1>1, <2>2, HostParts
      <3> QED
        BY <2>2, <3>1, <3>2 DEF PlaceOf
    <2> HIDE DEF p
    <2>4. p \in at .. at + 3 /\ 4 - (p - at) = j
      BY <2>2, <2>3
    <2>5. mem[p] = bytes[j]
      BY <1>3, <2>1, <2>4
    <2>6. ~Refers(s, j)
      BY RefersOnly DEF DataOps
    <2> QED
      BY <2>5, <2>6 DEF Sure, ByteIs, PlainOf, DataOps, bytes, p
  <1> QED
    BY <1>2, <1>4 DEF Holds

LEMMA InstHolds ==
  ASSUME NEW s \in StmntRec, NEW at \in Int, NEW known, unknownInstList \in Seq(Entry), NEW item,
         item.stmnt = s, item.at = at, item.used = AssembleInst(s, at, known).used, item.text,
         Certain(s), AssembleInst(s, at, known).ok, Placed(item)
  PROVE  Holds(item, AssembleInst(s, at, known).mem, known, AssembleInst(s, at, known).unknown)
  <1>1. ~Fails.ok
    BY DEF Fails
  <1>2. CASE s.op \in DataOps
    <2>1. s.op = "WORD"
      <3>1. s.op \in {"BYTE", "ASCII", "ASCIIZ"} => AssembleInst(s, at, known) = Fails
        BY DEF AssembleInst
      <3> QED
        BY <1>1, <1>2, <3>1 DEF DataOps
    <2>2. AssembleInst(s, at, known) = Words(s, at, known)
      BY <1>2, <2>1, DataOpsKept DEF AssembleInst
    <2> QED
      BY <2>1, <2>2, WordsHold
  <1>3. CASE s.op \notin DataOps
    <2>1. s.op \notin NotInstructions /\ ~LchAstray(s)
      BY <1>3, InstructionsOnly DEF Certain
    <2>2. CASE s.op \in Expanded
      <3>1. AssembleInst(s, at, known) = Expand(s, at, known)
        BY <2>1, <2>2 DEF AssembleInst, NotInstructions, DataOps
      <3> QED
        BY <2>2, <3>1, ExpandHolds
    <2>3. CASE s.op \notin Expanded
      <3> DEFINE mem == PutWord(memTable, Lowest(at), <<Code(s.op)>> \o InstBytes(s))
      <3>1. AssembleInst(s, at, known) = Result(mem, 4, unknownInstList)
        BY <1>1, <2>1, <2>3 DEF AssembleInst, NotInstructions, DataOps, LchAstray
      <3>2. AssembleInst(s, at, known).mem = mem /\ AssembleInst(s, at, known).used = 4
        BY <3>1 DEF Result
      <3> QED
        BY <1>3, <2>3, <3>2, OneHolds
    <2> QED
      BY <2>2, <2>3
  <1> QED
    BY <1>2, <1>3

LEMMA DataHolds ==
  ASSUME NEW s \in StmntRec, NEW at \in Int, NEW known, unknownInstList \in Seq(Entry), NEW item,
         item.stmnt = s, item.at = at, item.used = AssembleData(s, at, known).used,
         Certain(s), AssembleData(s, at, known).ok, Placed(item)
  PROVE  Holds(item, AssembleData(s, at, known).mem, known, AssembleData(s, at, known).unknown)
  <1>1. ~Fails.ok /\ s.op \in DataOps
    <2>1. ~Fails.ok
      BY DEF Fails
    <2>2. s.op \notin DataOps => AssembleData(s, at, known) = Fails
      BY InstructionsOnly DEF Certain, AssembleData, NotInstructions, DataOps
    <2> QED
      BY <2>1, <2>2
  <1>2. CASE s.op = "WORD"
    <2>1. AssembleData(s, at, known) = Words(s, at, known)
      BY <1>1, <1>2 DEF AssembleData
    <2> QED
      BY <1>2, <2>1, WordsHold
  <1>3. CASE s.op # "WORD"
    <2>1. AssembleData(s, at, known) =
            Result(PutBytes(memTable, at, DataBytes(s)), Len(DataBytes(s)), unknownInstList)
      BY <1>1, <1>3 DEF AssembleData, DataOps
    <2>2. /\ AssembleData(s, at, known).mem = PutBytes(memTable, at, DataBytes(s))
          /\ AssembleData(s, at, known).used = Len(DataBytes(s))
      BY <2>1 DEF Result
    <2>3. InMemory(item)
      BY DEF Placed
    <2> QED
      BY <1>1, <1>3, <2>2, <2>3, PutHolds
  <1> QED
    BY <1>2, <1>3

(* Data that was there stays.                                              *)
LEMMA StillHolds ==
  ASSUME NEW old \in Item, NEW known, NEW later, NEW r, NEW at \in Int,
         Holds(old, memTable, known, unknownInstList), InMemory(old),
         \A x : Defined(known, x) => Defined(later, x) /\ ValueOf(later, x) = ValueOf(known, x),
         Clean(r, at), ToSet(unknownInstList) \subseteq ToSet(r.unknown),
         old.at + old.used <= at
  PROVE  Holds(old, r.mem, later, r.unknown)
  <1>1. old.at \in Int /\ old.used \in Nat
    BY DEF Item
  <1>2. ASSUME NEW j \in 1 .. old.used
        PROVE  \/ Sure(old.stmnt, j, later) /\ r.mem[PlaceOf(old, j)] = ByteIs(old.stmnt, j, later)
               \/ Owed(old, j, r.unknown)
    <2> DEFINE a == old.at + j - 1
    <2>1. a \in Int /\ PlaceOf(old, j) = Host(a) /\ Host(a) \in Offset
      BY <1>1, InOffset DEF PlaceOf
    <2>2. a \notin at .. at + r.used - 1
      BY <1>1
    <2> HIDE DEF a
    <2>3. r.mem[PlaceOf(old, j)] = memTable[PlaceOf(old, j)]
      BY <2>1, <2>2 DEF Clean
    <2>4. CASE Owed(old, j, unknownInstList)
      BY <2>4 DEF Owed
    <2>5. CASE Sure(old.stmnt, j, known) /\ memTable[PlaceOf(old, j)] = ByteIs(old.stmnt, j, known)
      <3>1. Sure(old.stmnt, j, later) /\ ByteIs(old.stmnt, j, later) = ByteIs(old.stmnt, j, known)
        BY <2>5 DEF Sure, ByteIs
      <3> QED
        BY <2>3, <2>5, <3>1
    <2> QED
      BY <2>4, <2>5 DEF Holds
  <1> QED
    BY <1>2 DEF Holds

(* An item more.                                                           *)
LEMMA SaneSoFar ==
  ASSUME NEW items \in Seq(Item), NEW item \in Item, Sane(Append(items, item))
  PROVE  /\ Sane(items) /\ Placed(item)
         /\ \A i \in DOMAIN items : Placed(items[i]) /\ Before(items[i], item)
  <1> DEFINE n == Len(items)
             more == Append(items, item)
  <1>1. /\ n \in Nat /\ DOMAIN items = 1 .. n /\ DOMAIN more = 1 .. n + 1
        /\ more[n + 1] = item /\ \A i \in 1 .. n : more[i] = items[i]
    OBVIOUS
  <1> HIDE DEF more, n
  <1>2. /\ \A i \in DOMAIN more : Placed(more[i])
        /\ \A i, j \in DOMAIN more : i < j => Before(more[i], more[j])
    BY DEF Sane, more
  <1>3. /\ n + 1 \in DOMAIN more
        /\ \A i \in DOMAIN items : i \in DOMAIN more /\ i < n + 1 /\ more[i] = items[i]
    BY <1>1
  <1>4. Placed(item) /\ \A i \in DOMAIN items : Placed(items[i]) /\ Before(items[i], item)
    BY <1>1, <1>2, <1>3
  <1>5. \A i, j \in DOMAIN items : i < j => Before(items[i], items[j])
    BY <1>2, <1>3
  <1> QED
    BY <1>4, <1>5 DEF Sane

(* One step of assembling.                                                 *)
LEMMA DataPlaced ==
  ASSUME DataInv, LabelInv, NEW item \in Item, item.at = curr_offset, NEW r,
         phase \in {"text", "data"},
         \A x : Defined(knownList, x) => Defined(knownList', x) /\ ValueOf(knownList', x) = ValueOf(knownList, x),
         memTable' = r.mem, unknownInstList' = r.unknown, placed' = Append(placed, item), phase' = phase,
         Adds(r, item), Placed(item) => Clean(r, item.at),
         Placed(item) /\ Certain(item.stmnt) => Holds(item, r.mem, knownList', r.unknown)
  PROVE  DataInv'
  <1> DEFINE n == Len(placed)
  <1>1. /\ placed \in Seq(Item) /\ n \in Nat /\ DOMAIN placed = 1 .. n /\ DOMAIN placed' = 1 .. n + 1
        /\ placed'[n + 1] = item /\ \A i \in 1 .. n : placed'[i] = placed[i]
    BY DEF LabelInv
  <1> HIDE DEF n
  <1>2. \A i \in DOMAIN placed : placed[i] \in Item
    BY <1>1
  <1>3. /\ n + 1 \in DOMAIN placed'
        /\ \A i \in DOMAIN placed : i \in DOMAIN placed' /\ placed'[i] = placed[i]
        /\ \A i \in DOMAIN placed' : i = n + 1 \/ i \in DOMAIN placed
    BY <1>1
  <1>4. ASSUME NEW e \in ToSet(unknownInstList') PROVE \E i \in DOMAIN placed' : Patches(placed'[i], e)
    <2>1. e \in ToSet(unknownInstList) \/ Patches(item, e)
      BY <1>4 DEF Adds
    <2>2. CASE e \in ToSet(unknownInstList)
      <3>1. PICK i \in DOMAIN placed : Patches(placed[i], e)
        BY <2>2 DEF DataInv
      <3>2. i \in DOMAIN placed' /\ Patches(placed'[i], e)
        BY <1>3, <3>1
      <3> QED
        BY <3>2
    <2>3. CASE Patches(item, e)
      <3>1. Patches(placed'[n + 1], e)
        BY <1>1, <2>3
      <3> QED
        BY <1>3, <3>1
    <2> QED
      BY <2>1, <2>2, <2>3
  <1>5. ASSUME Sane(placed'), NEW i \in DOMAIN placed', Certain(placed'[i].stmnt)
        PROVE  Holds(placed'[i], memTable', knownList', unknownInstList')
    <2>1. /\ Sane(placed) /\ Placed(item)
          /\ \A k \in DOMAIN placed : Placed(placed[k]) /\ Before(placed[k], item)
      <3>1. Sane(Append(placed, item))
        BY <1>5
      <3> QED
        BY <1>1, <3>1, SaneSoFar
    <2>2. CASE i = n + 1
      BY <1>1, <1>5, <2>1, <2>2
    <2>3. CASE i \in DOMAIN placed
      <3> DEFINE old == placed[i]
      <3>1. old \in Item /\ placed'[i] = old
        BY <1>2, <1>3, <2>3
      <3>2. Holds(old, memTable, knownList, unknownInstList)
        BY <1>5, <2>1, <2>3, <3>1 DEF DataInv
      <3>3. InMemory(old) /\ old.at + old.used <= item.at
        BY <2>1, <2>3 DEF Placed, Before
      <3>4. item.at \in Int /\ Clean(r, item.at) /\ ToSet(unknownInstList) \subseteq ToSet(r.unknown)
        BY <2>1 DEF Item, Adds
      <3> HIDE DEF old
      <3>5. Holds(old, r.mem, knownList', r.unknown)
        BY <3>1, <3>2, <3>3, <3>4, StillHolds
      <3> QED
        BY <3>1, <3>5
    <2> QED
      BY <1>3, <2>2, <2>3
  <1>6. phase' \in {"text", "data"}
    OBVIOUS
  <1> QED
    BY <1>4, <1>5, <1>6 DEF DataInv

(* If all that is put in a place is the same, that is what is there.       *)
LEMMA PatchedIs ==
  ASSUME Memory(memTable), unknownInstList \in Seq(Entry), NEW a \in Offset, NEW v,
         \A e \in ToSet(unknownInstList) : e.value = a => ByteOf(ValueOf(knownList, e.string), e.type) = v
  PROVE  Patched[a] = IF \E e \in ToSet(unknownInstList) : e.value = a THEN v ELSE memTable[a]
  <1> DEFINE q == unknownInstList
             n == Len(q)
  <1>1. n \in Nat /\ DOMAIN q = 1 .. n /\ ToSet(q) = {q[k] : k \in 1 .. n}
    BY DEF ToSet
  <1>2. PICK c : /\ c[0] = memTable /\ Patched = c[n]
                 /\ \A k \in 0 .. n : Memory(c[k])
                 /\ \A k \in 1 .. n : c[k] = Patch(c[k - 1], q[k])
    <2>1. \E c : /\ c[0] = memTable /\ Patched = c[Len(unknownInstList)]
                 /\ \A k \in 0 .. Len(unknownInstList) : Memory(c[k])
                 /\ \A k \in 1 .. Len(unknownInstList) : c[k] = Patch(c[k - 1], unknownInstList[k])
      BY PatchChain
    <2> QED
      BY <2>1, Zenon
  <1> HIDE DEF n, q
  <1> DEFINE U == {k \in 0 .. n : c[k][a] = IF \E i \in 1 .. k : q[i].value = a THEN v ELSE memTable[a]}
  <1>3. 0 \in U
    <2>1. 1 .. 0 = {} /\ 0 \in 0 .. n
      BY <1>1
    <2> QED
      BY <1>2, <2>1
  <1>4. ASSUME NEW k \in 1 .. n, k - 1 \in U PROVE k \in U
    <2>1. k \in 0 .. n /\ k - 1 \in 0 .. n /\ \A i \in 1 .. k : i = k \/ i \in 1 .. k - 1
      BY <1>1
    <2>2. k \in 1 .. k /\ \A i \in 1 .. k - 1 : i \in 1 .. k
      BY <1>1
    <2>3. Memory(c[k - 1]) /\ c[k] = Patch(c[k - 1], q[k])
      BY <1>2, <2>1
    <2>4. c[k][a] = IF q[k].value = a THEN ByteOf(ValueOf(knownList, q[k].string), q[k].type) ELSE c[k - 1][a]
      BY <2>3 DEF Patch, Memory
    <2>5. q[k] \in ToSet(unknownInstList)
      BY <1>1 DEF q
    <2>6. q[k].value = a => ByteOf(ValueOf(knownList, q[k].string), q[k].type) = v
      BY <2>5
    <2>7. CASE q[k].value = a
      BY <2>1, <2>2, <2>4, <2>6, <2>7
    <2>8. CASE q[k].value # a
      <3>1. (\E i \in 1 .. k : q[i].value = a) <=> \E i \in 1 .. k - 1 : q[i].value = a
        BY <2>1, <2>2, <2>8
      <3> QED
        BY <1>4, <2>1, <2>4, <2>8, <3>1
    <2> QED
      BY <2>7, <2>8
  <1> HIDE DEF U
  <1>5. n \in U
    <2>1. \A k \in 0 .. n : k \in U
      BY <1>1, <1>3, <1>4, BoundedInduction
    <2> QED
      BY <1>1, <2>1
  <1>6. c[n][a] = IF \E i \in 1 .. n : q[i].value = a THEN v ELSE memTable[a]
    BY <1>5 DEF U
  <1>7. (\E e \in ToSet(q) : e.value = a) <=> \E i \in 1 .. n : q[i].value = a
    BY <1>1
  <1> QED
    BY <1>2, <1>6, <1>7 DEF q

(* Patching completes the data.                                            *)
LEMMA DataPatched ==
  ASSUME DataInv, LabelInv, PatchInv, phase = "patch", Sane(placed),
         \A e \in ToSet(unknownInstList) : Defined(knownList, e.string),
         NEW d \in DOMAIN placed, Certain(placed[d].stmnt)
  PROVE  HoldsAtLast(placed[d], Patched, knownList)
  <1> DEFINE item == placed[d]
             s == item.stmnt
  <1>1. placed \in Seq(Item) /\ DOMAIN placed = 1 .. Len(placed) /\ Len(placed) \in Nat
    BY DEF LabelInv
  <1>2. \A i \in DOMAIN placed : placed[i].at \in Int /\ placed[i].used \in Nat
    <2>1. \A x \in Item : x.at \in Int /\ x.used \in Nat
      BY DEF Item
    <2>2. \A i \in DOMAIN placed : placed[i] \in Item
      BY <1>1
    <2> QED
      BY <2>1, <2>2
  <1>3. Holds(item, memTable, knownList, unknownInstList)
    BY DEF DataInv
  <1>4. /\ \A i \in DOMAIN placed : Placed(placed[i])
        /\ \A i, j \in DOMAIN placed : i < j => Before(placed[i], placed[j])
    BY DEF Sane
  <1>5. ASSUME NEW j \in 1 .. item.used
        PROVE  Patched[PlaceOf(item, j)] = ByteIs(s, j, knownList)
    <2> DEFINE p == PlaceOf(item, j)
               a == item.at + j - 1
    <2>1. p \in Offset /\ p \in Int
      <3>1. InMemory(item) /\ item.at \in Int /\ item.used \in Nat
        BY <1>2, <1>4 DEF Placed
      <3>2. p \in Offset
        BY <3>1, InOffset
      <3> QED
        BY <3>2, AsmAssumption DEF Offset
    <2>2. a \in Int /\ p = Host(a) /\ Host(p) = a /\ a \in Room(item)
      <3>1. a \in Int /\ a \in Room(item)
        BY <1>2 DEF Room
      <3>2. p = Host(a)
        BY DEF PlaceOf
      <3> QED
        BY <3>1, <3>2, HostIn
    <2>3. ASSUME NEW e \in ToSet(unknownInstList), e.value = p
          PROVE  ByteOf(ValueOf(knownList, e.string), e.type) = ByteIs(s, j, knownList)
      <3>1. PICK i \in DOMAIN placed : Patches(placed[i], e)
        BY DEF DataInv
      <3>2. placed[i].used % 4 = 0 /\ e.value \in Room(placed[i]) /\ (placed[i].text \/ placed[i].stmnt.op = "WORD")
        BY <3>1 DEF Patches
      <3>3. placed[i].used > 0
        BY <1>2, <3>2 DEF Room
      <3>4. placed[i].at % 4 = 0
        BY <1>4, <3>2, <3>3 DEF Placed, InstAstray, WordAstray
      <3>5. a \in Room(placed[i])
        <4>1. placed[i].at \in Int /\ placed[i].used \in Nat
          BY <1>2
        <4>2. p \in placed[i].at .. placed[i].at + placed[i].used - 1
          BY <2>3, <3>2 DEF Room
        <4> HIDE DEF a, p
        <4>3. Host(p) \in placed[i].at .. placed[i].at + placed[i].used - 1
          BY <2>1, <3>2, <3>4, <4>1, <4>2, HostRoom
        <4> QED
          BY <2>2, <4>3 DEF Room
      <3>6. i = d
        <4>1. \A k, m \in DOMAIN placed : k < m => placed[k].at + placed[k].used <= placed[m].at
          BY <1>4 DEF Before
        <4>2. i \in Int /\ d \in Int
          BY <1>1
        <4>3. ~(i < d) /\ ~(d < i)
          BY <1>2, <2>2, <3>5, <4>1 DEF Room
        <4> QED
          BY <4>2, <4>3
      <3>7. \E m \in 1 .. item.used : Refers(s, m) /\ e = Due(item, m)
        BY <3>1, <3>4, <3>6 DEF Patches
      <3>8. PICK m \in 1 .. item.used : Refers(s, m) /\ e = Due(item, m)
        BY <3>7
      <3>9. e.value = PlaceOf(item, m) /\ e.string = RefOf(s, m) /\ e.type = PartOf(s, m)
        BY <3>8 DEF Due, Symbol
      <3>10. m = j
        <4>1. item.at + m - 1 \in Int /\ item.at + j - 1 \in Int /\ item.at \in Int /\ m \in Int /\ j \in Int
          BY <1>2
        <4>2. Host(item.at + m - 1) = Host(item.at + j - 1)
          BY <2>3, <3>9 DEF PlaceOf
        <4>3. item.at + m - 1 = item.at + j - 1
          <5>1. Host(Host(item.at + m - 1)) = item.at + m - 1 /\ Host(Host(item.at + j - 1)) = item.at + j - 1
            BY <4>1, HostIn
          <5> QED
            BY <4>2, <5>1
        <4> QED
          BY <4>1, <4>3
      <3> QED
        BY <3>8, <3>9, <3>10 DEF ByteIs
    <2> HIDE DEF a, p
    <2>4. Patched[p] = IF \E e \in ToSet(unknownInstList) : e.value = p
                       THEN ByteIs(s, j, knownList) ELSE memTable[p]
      <3>1. Memory(memTable) /\ unknownInstList \in Seq(Entry)
        BY DEF PatchInv
      <3> DEFINE v == ByteIs(s, j, knownList)
      <3>2. \A e \in ToSet(unknownInstList) : e.value = p => ByteOf(ValueOf(knownList, e.string), e.type) = v
        BY <2>3
      <3> HIDE DEF v
      <3>3. Patched[p] = IF \E e \in ToSet(unknownInstList) : e.value = p THEN v ELSE memTable[p]
        BY <2>1, <3>1, <3>2, PatchedIs
      <3> QED
        BY <3>3 DEF v
    <2>5. (\E e \in ToSet(unknownInstList) : e.value = p) \/ memTable[p] = ByteIs(s, j, knownList)
      <3>1. CASE Owed(item, j, unknownInstList)
        <4>1. Due(item, j) \in ToSet(unknownInstList) /\ Due(item, j).value = p
          BY <3>1 DEF Owed, Due, Symbol, p
        <4> QED
          BY <4>1
      <3>2. CASE memTable[PlaceOf(item, j)] = ByteIs(s, j, knownList)
        BY <3>2 DEF p
      <3> QED
        BY <1>3, <3>1, <3>2 DEF Holds
    <2> QED
      BY <2>4, <2>5 DEF p
  <1>6. Whole(item)
    BY <1>3 DEF Holds
  <1> QED
    BY <1>5, <1>6 DEF HoldsAtLast

LEMMA DataInit == BuildInit => DataInv
  <1> SUFFICES ASSUME BuildInit PROVE DataInv
    OBVIOUS
  <1>1. placed = <<>> /\ unknownInstList = <<>> /\ phase = "check"
    BY DEF BuildInit, Init
  <1>2. ToSet(unknownInstList) = {} /\ DOMAIN placed = {}
    BY <1>1 DEF ToSet
  <1> QED
    BY <1>1, <1>2 DEF DataInv

LEMMA LabelsStay ==
  ASSUME LabelInv, NEW value \in Int, S \in StmntRec, LabelOK
  PROVE  \A x : Defined(knownList, x) =>
           Defined(Labelled(value), x) /\ ValueOf(Labelled(value), x) = ValueOf(knownList, x)
  <1>1. CASE S.label = NoName
    BY <1>1 DEF Labelled
  <1>2. CASE S.label # NoName
    <2>1. /\ S.label \in Spelling /\ CanAdd(knownList, S.label) /\ knownList \in SymbolLists
          /\ Labelled(value) = AddSymbol(knownList, S.label, value)
      BY <1>2 DEF LabelInv, StmntRec, LabelOK, Labelled
    <2> QED
      BY <2>1, Added
  <1> QED
    BY <1>1, <1>2

(* A statement assembled, in the text or in the data.                      *)
DataPlaces ==
  \/ phase = "text" /\ Place(AssembleInst)
  \/ phase = "data" /\ Place(AssembleData)

LEMMA DataPlace ==
  ASSUME PassInv, LabelInv, PatchInv, DataInv, line <= Len(program), Here.ok, DataPlaces
  PROVE  DataInv'
  <1> DEFINE value == Truncate(BaseAddress + curr_offset)
             known == Labelled(value)
             item(used) == [stmnt |-> S, at |-> curr_offset, used |-> used,
                            line |-> line, text |-> phase = "text"]
  <1>1. S \in StmntRec /\ line \in Nat /\ curr_offset \in Int
    BY ReadStmnt DEF LabelInv
  <1>2. Memory(memTable) /\ unknownInstList \in Seq(Entry)
    BY DEF PatchInv
  <1>3. value \in Int
    <2>1. BaseAddress + curr_offset \in Int
      BY <1>1, AsmAssumption DEF Word
    <2> QED
      BY <2>1, TruncateInt
  <1>4. \A used \in Nat : /\ item(used) \in Item /\ item(used).stmnt = S /\ item(used).at = curr_offset
                          /\ item(used).used = used
    BY <1>1 DEF Item
  <1>5. \A used : item(used).text <=> phase = "text"
    OBVIOUS
  <1>6. CASE UNCHANGED <<unknownInstList, placed>> /\ phase' = "failed"
    BY <1>6 DEF DataInv
  <1>7. ASSUME NEW r, NEW used \in Nat, used = r.used, LabelOK,
               knownList' = known, memTable' = r.mem, unknownInstList' = r.unknown,
               placed' = Append(placed, item(used)), phase' = phase, phase \in {"text", "data"},
               Adds(r, item(used)), Placed(item(used)) => Clean(r, curr_offset),
               Placed(item(used)) /\ Certain(S) => Holds(item(used), r.mem, known, r.unknown)
        PROVE  DataInv'
    <2>1. \A x : Defined(knownList, x) => Defined(knownList', x) /\ ValueOf(knownList', x) = ValueOf(knownList, x)
      BY <1>1, <1>3, <1>7, LabelsStay
    <2> DEFINE new == item(used)
    <2>2. /\ new \in Item /\ new.stmnt = S /\ new.at = curr_offset
      BY <1>4
    <2>3. /\ placed' = Append(placed, new) /\ Adds(r, new) /\ (Placed(new) => Clean(r, new.at))
          /\ Placed(new) /\ Certain(new.stmnt) => Holds(new, r.mem, knownList', r.unknown)
      BY <1>7, <2>2
    <2> HIDE DEF new
    <2> QED
      BY <1>7, <2>1, <2>2, <2>3, DataPlaced
  <1>8. CASE phase = "text" /\ Place(AssembleInst)
    <2> DEFINE r == AssembleInst(S, curr_offset, known)
               used == r.used
    <2>1. \/ UNCHANGED <<unknownInstList, placed>> /\ phase' = "failed"
          \/ /\ LabelOK /\ r.ok /\ knownList' = known /\ memTable' = r.mem /\ unknownInstList' = r.unknown
             /\ placed' = Append(placed, item(used)) /\ phase' = phase
      BY <1>8 DEF Place, Bind, Go, Fail
    <2>2. used \in Nat
      BY <1>1, InstTakes
    <2> DEFINE new == item(used)
    <2>3. /\ new.stmnt = S /\ new.at = curr_offset /\ new.used = AssembleInst(S, curr_offset, known).used
      BY <1>4, <2>2
    <2>4. new.text
      BY <1>5, <1>8
    <2> HIDE DEF new, known
    <2>5. Adds(r, new)
      BY <1>1, <1>2, <2>3, <2>4, InstAdds
    <2>6. Placed(new) => Clean(r, curr_offset)
      BY <1>1, <2>3, <2>4, InstClean
    <2>7. r.ok /\ Placed(new) /\ Certain(S) => Holds(new, r.mem, known, r.unknown)
      BY <1>1, <1>2, <2>3, <2>4, InstHolds
    <2> HIDE DEF r, item
    <2> QED
      BY <1>6, <1>7, <1>8, <2>1, <2>2, <2>5, <2>6, <2>7 DEF new
  <1>9. CASE phase = "data" /\ Place(AssembleData)
    <2> DEFINE r == AssembleData(S, curr_offset, known)
               used == r.used
    <2>1. \/ UNCHANGED <<unknownInstList, placed>> /\ phase' = "failed"
          \/ /\ LabelOK /\ r.ok /\ knownList' = known /\ memTable' = r.mem /\ unknownInstList' = r.unknown
             /\ placed' = Append(placed, item(used)) /\ phase' = phase
      BY <1>9 DEF Place, Bind, Go, Fail
    <2>2. used \in Nat
      BY <1>1, DataTakes
    <2> DEFINE new == item(used)
    <2>3. /\ new.stmnt = S /\ new.at = curr_offset /\ new.used = AssembleData(S, curr_offset, known).used
      BY <1>4, <2>2
    <2> HIDE DEF new, known
    <2>5. Adds(r, new)
      BY <1>1, <1>2, <2>3, DataAdds
    <2>6. Placed(new) => Clean(r, curr_offset)
      BY <1>1, <2>3, DataClean
    <2>7. r.ok /\ Placed(new) /\ Certain(S) => Holds(new, r.mem, known, r.unknown)
      BY <1>1, <1>2, <2>3, DataHolds
    <2> HIDE DEF r, item
    <2> QED
      BY <1>6, <1>7, <1>9, <2>1, <2>2, <2>5, <2>6, <2>7 DEF new
  <1> QED
    BY <1>8, <1>9 DEF DataPlaces

LEMMA DataNext ==
  PassInv /\ LabelInv /\ PatchInv /\ DataInv /\ [BuildNext]_<<vars, loadVars>> => DataInv'
  <1> SUFFICES ASSUME PassInv, LabelInv, PatchInv, DataInv, [BuildNext]_<<vars, loadVars>> PROVE DataInv'
    OBVIOUS
  <1>1. CASE UNCHANGED <<memTable, knownList, unknownInstList, placed>> /\
             (phase \in {"check", "text", "data", "patch"} => phase' \in {"check", "text", "data", "patch", "failed"}) /\
             (phase \in {"write", "done"} => phase' \in {"write", "done", "failed"}) /\
             (phase = "failed" => phase' = "failed")
    <2>1. phase \in {"check", "text", "data", "patch"} \/ phase \in {"write", "done"} \/ phase = "failed"
      BY DEF PatchInv, Phase
    <2>2. /\ phase' \in {"check", "text", "data", "patch"} => phase \in {"check", "text", "data", "patch"}
          /\ phase' \in {"write", "done"} => phase \in {"write", "done"}
      BY <1>1, <2>1
    <2>3. /\ \A e \in ToSet(unknownInstList') : \E i \in DOMAIN placed' : Patches(placed'[i], e)
          /\ Sane(placed') <=> Sane(placed)
          /\ memTable' = memTable /\ knownList' = knownList /\ unknownInstList' = unknownInstList /\ placed' = placed
      BY <1>1 DEF DataInv
    <2> QED
      BY <2>2, <2>3 DEF DataInv
  <1>2. CASE TextLine \/ DataLine
    <2>1. line <= Len(program) /\ (TextLine => phase = "text") /\ (DataLine => phase = "data")
      BY <1>2, LineRead DEF TextLine, DataLine, AtLine
    <2>2. CASE Here.ok /\ DataPlaces
      BY <2>1, <2>2, DataPlace
    <2>3. CASE UNCHANGED <<memTable, knownList, unknownInstList, placed>> /\ phase' \in {phase, "failed"}
      BY <1>1, <2>3
    <2> QED
      BY <1>2, <2>1, <2>2, <2>3 DEF TextLine, DataLine, Unparsed, Pass, Go, Fail, DataPlaces
  <1>3. CASE Backpatch
    <2>1. phase = "patch" /\ UNCHANGED <<knownList, unknownInstList, placed>>
      BY <1>3 DEF Backpatch
    <2>2. \A e \in ToSet(unknownInstList') : \E i \in DOMAIN placed' : Patches(placed'[i], e)
      BY <2>1 DEF DataInv
    <2>3. CASE phase' = "failed"
      BY <2>2, <2>3 DEF DataInv
    <2>4. CASE /\ \A i \in DOMAIN unknownInstList : Defined(knownList, unknownInstList[i].string)
               /\ phase' = "write" /\ memTable' = Patched
      <3>1. \A e \in ToSet(unknownInstList) : Defined(knownList, e.string)
        BY <2>4 DEF ToSet
      <3>2. ASSUME Sane(placed), NEW i \in DOMAIN placed, Certain(placed[i].stmnt)
            PROVE  HoldsAtLast(placed[i], Patched, knownList)
        BY <2>1, <3>1, <3>2, DataPatched
      <3> QED
        BY <2>1, <2>2, <2>4, <3>2 DEF DataInv
    <2> QED
      BY <1>3, <2>3, <2>4 DEF Backpatch
  <1>4. CASE CheckLine
    BY <1>1, <1>4 DEF CheckLine, Go, Fail, AtLine
  <1>5. CASE EndPass
    BY <1>1, <1>5 DEF EndPass
  <1>6. CASE WriteExec
    BY <1>1, <1>6 DEF WriteExec
  <1>7. CASE UNCHANGED vars
    BY <1>1, <1>7 DEF vars
  <1> QED
    BY <1>2, <1>3, <1>4, <1>5, <1>6, <1>7 DEF BuildNext, Assemble, Next, Load

(* In order, the items are before one another.                             *)
LEMMA InOrderBefore ==
  ASSUME LabelInv, InOrder, NEW i \in DOMAIN placed, NEW j \in DOMAIN placed, i < j
  PROVE  Before(placed[i], placed[j])
  <1> DEFINE n == Len(placed)
             T == {k \in 0 .. j - i - 1 : placed[i].at + placed[i].used <= placed[i + 1 + k].at}
  <1>1. /\ DOMAIN placed = 1 .. n /\ n \in Nat
        /\ \A k \in 1 .. n : placed[k].at \in Int /\ placed[k].used \in Nat
    <2>1. placed \in Seq(Item)
      BY DEF LabelInv
    <2>2. \A x \in Item : x.at \in Int /\ x.used \in Nat
      BY DEF Item
    <2> QED
      BY <2>1, <2>2
  <1>2. \A k \in DOMAIN placed : k # n => placed[k].at + placed[k].used <= placed[k + 1].at
    BY DEF InOrder
  <1> HIDE DEF n
  <1>3. i \in 1 .. n /\ j \in 1 .. n /\ j - i - 1 \in Nat
    BY <1>1
  <1>4. 0 \in T
    <2>1. i # n /\ i + 1 + 0 = i + 1
      BY <1>1, <1>3
    <2> QED
      BY <1>1, <1>2, <1>3, <2>1
  <1> HIDE DEF T
  <1>5. ASSUME NEW k \in 1 .. j - i - 1, k - 1 \in T PROVE k \in T
    <2>1. i + 1 + (k - 1) \in 1 .. n /\ i + 1 + (k - 1) # n /\ i + 1 + (k - 1) + 1 = i + 1 + k /\ i + 1 + k \in 1 .. n
      BY <1>1, <1>3
    <2>2. placed[i + 1 + (k - 1)].at + placed[i + 1 + (k - 1)].used <= placed[i + 1 + k].at
      BY <1>1, <1>2, <2>1
    <2>3. placed[i].at + placed[i].used <= placed[i + 1 + (k - 1)].at
      BY <1>5 DEF T
    <2>4. /\ placed[i].at \in Int /\ placed[i].used \in Nat /\ placed[i + 1 + k].at \in Int
          /\ placed[i + 1 + (k - 1)].at \in Int /\ placed[i + 1 + (k - 1)].used \in Nat
      BY <1>1, <1>3, <2>1
    <2>5. placed[i].at + placed[i].used <= placed[i + 1 + k].at
      BY <2>2, <2>3, <2>4
    <2>6. k \in 0 .. j - i - 1
      BY <1>3
    <2> QED
      BY <2>5, <2>6 DEF T
  <1>6. j - i - 1 \in T
    <2>1. \A k \in 0 .. j - i - 1 : k \in T
      BY <1>3, <1>4, <1>5, BoundedInduction
    <2> QED
      BY <1>3, <2>1
  <1>7. i + 1 + (j - i - 1) = j
    BY <1>1, <1>3
  <1> QED
    BY <1>6, <1>7 DEF T, Before

LEMMA OrderlySane ==
  ASSUME LabelInv, Orderly
  PROVE  Sane(placed)
  <1>1. \A i \in DOMAIN placed : Placed(placed[i])
    BY DEF Orderly, Items
  <1>2. InOrder
    <2>1. CASE NoAddr
      <3>1. \A i \in DOMAIN placed :
              placed[i].at + placed[i].used = IF i = Len(placed) THEN curr_offset ELSE placed[i + 1].at
        BY <2>1 DEF LabelInv, Adjoining
      <3>2. \A i \in DOMAIN placed : placed[i].at + placed[i].used \in Int
        <4>1. \A x \in Item : x.at \in Int /\ x.used \in Nat
          BY DEF Item
        <4>2. \A i \in DOMAIN placed : placed[i] \in Item
          BY DEF LabelInv
        <4> QED
          BY <4>1, <4>2
      <3>3. \A x \in Int : x <= x
        OBVIOUS
      <3> QED
        BY <3>1, <3>2, <3>3 DEF InOrder
    <2> QED
      BY <2>1 DEF Orderly
  <1> QED
    BY <1>1, <1>2, InOrderBefore DEF Sane

(* What is in memory is what the statement says.                           *)
LEMMA BytesThere ==
  ASSUME LabelInv, NEW i \in DOMAIN placed, placed[i].stmnt.op \in DataOps,
         HoldsAtLast(placed[i], memTable, knownList)
  PROVE  MachineBytes(placed[i].at, placed[i].used) = DataOf(placed[i].stmnt)
  <1> DEFINE item == placed[i]
             s == item.stmnt
             n == item.used
  <1>1. s \in StmntRec /\ n \in Nat /\ item.at \in Int
    <2>1. \A x \in Item : x.stmnt \in StmntRec /\ x.used \in Nat /\ x.at \in Int
      BY DEF Item
    <2> QED
      BY <2>1 DEF LabelInv
  <1>2. \A j \in 1 .. n : memTable[Host(item.at + j - 1)] = ByteIs(s, j, knownList)
    BY DEF HoldsAtLast, PlaceOf
  <1>3. MachineBytes(item.at, n) = [j \in 1 .. n |-> ByteIs(s, j, knownList)]
    BY <1>2 DEF MachineBytes
  <1>4. CASE s.op # "WORD"
    <2>1. n = Len(DataBytes(s)) /\ DOMAIN DataBytes(s) = 1 .. n
      BY <1>1, <1>4, DataLength DEF HoldsAtLast, Whole
    <2>2. [j \in 1 .. n |-> ByteIs(s, j, knownList)] = [j \in 1 .. n |-> DataBytes(s)[j]]
      BY <1>4, DataOpsKept, RefersOnly DEF ByteIs, PlainOf
    <2>3. DataBytes(s) = [j \in 1 .. n |-> DataBytes(s)[j]]
      BY <1>1, <2>1, DataLength
    <2>4. DataOf(s) = DataBytes(s)
      BY <1>4 DEF DataOf
    <2> QED
      BY <1>3, <2>2, <2>3, <2>4
  <1>5. CASE s.op = "WORD"
    <2> DEFINE V(a) == IF a.type = "LABEL" THEN Final(a.label) ELSE a.val
               m == 4 * Len(s.args)
    <2>1. n = m
      BY <1>5 DEF HoldsAtLast, Whole
    <2>2. DataOf(s) = [j \in 1 .. m |-> WordOf(V(s.args[((j - 1) \div 4) + 1]))[((j - 1) % 4) + 1]]
      BY <1>5 DEF DataOf
    <2>3. ASSUME NEW j \in 1 .. n
          PROVE  ByteIs(s, j, knownList) = WordOf(V(s.args[((j - 1) \div 4) + 1]))[((j - 1) % 4) + 1]
      <3> DEFINE a == Operand(s, j)
                 k == (j - 1) % 4
      <3>1. k \in 0 .. 3
        BY <1>1
      <3>2. ByteIs(s, j, knownList) = ByteOf(V(a), 3 - k)
        BY <1>5, WordRefers DEF WordByte, ByteNo, Final
      <3> HIDE DEF V, k
      <3>3. WordOf(V(a))[k + 1] = ByteOf(V(a), 3 - k)
        BY <3>1 DEF WordOf
      <3> QED
        BY <3>2, <3>3 DEF Operand, k
    <2> HIDE DEF V, m
    <2> QED
      BY <1>3, <2>1, <2>2, <2>3
  <1> QED
    BY <1>4, <1>5

(* An instruction is four bytes.                                           *)
LEMMA ThreeBytes ==
  ASSUME NEW s
  PROVE  \E a, b, c : InstBytes(s) = <<a, b, c>>
  <1> DEFINE Three(x) == \E a, b, c : x = <<a, b, c>>
  <1>1. \A a, b, c : Three(<<a, b, c>>)
    OBVIOUS
  <1> HIDE DEF Three
  <1>2. Three(InstBytes(s))
    BY <1>1 DEF InstBytes, ThreeReg, LoadStore
  <1> QED
    BY <1>2 DEF Three

LEMMA FourBytes ==
  ASSUME NEW s
  PROVE  <<Code(s.op)>> \o InstBytes(s) = [j \in 1 .. 4 |-> (<<Code(s.op)>> \o InstBytes(s))[j]]
  <1> DEFINE x == Code(s.op)
  <1>1. PICK a, b, c : InstBytes(s) = <<a, b, c>>
    BY ThreeBytes
  <1> DEFINE V == {x, a, b, c}
  <1>2. <<x>> \in Seq(V) /\ <<a, b, c>> \in Seq(V)
    OBVIOUS
  <1>3. <<x>> \o <<a, b, c>> \in Seq(V) /\ Len(<<x>> \o <<a, b, c>>) = 4
    BY <1>2
  <1> HIDE DEF V, x
  <1>4. \A y \in Seq(V) : Len(y) = 4 => y = [j \in 1 .. 4 |-> y[j]]
    OBVIOUS
  <1> QED
    BY <1>1, <1>3, <1>4 DEF x

LEMMA InstsThere ==
  ASSUME NEW item, item.stmnt.op \in Instructions, HoldsAtLast(item, memTable, knownList)
  PROVE  MachineBytes(item.at, item.used) = InstOf(item.stmnt)
  <1> DEFINE s == item.stmnt
             n == item.used
  <1>1. MachineBytes(item.at, n) = [j \in 1 .. n |-> ByteIs(s, j, knownList)]
    BY DEF MachineBytes, HoldsAtLast, PlaceOf
  <1>2. s.op \notin DataOps /\ s.op # "WORD"
    BY InstructionsOnly DEF NotInstructions, DataOps
  <1>3. CASE s.op \in Expanded
    <2>1. n = FormOf(s).size
      BY <1>2, <1>3 DEF HoldsAtLast, Whole
    <2>2. \A j \in 1 .. n : ByteIs(s, j, knownList) = Made(s, Template(FormOf(s), j - 1), knownList)
      BY <1>3, ExpandRefers DEF TempOf
    <2> QED
      BY <1>1, <1>3, <2>1, <2>2 DEF InstOf
  <1>4. CASE s.op \notin Expanded
    <2>1. n = 4
      BY <1>2, <1>4 DEF HoldsAtLast, Whole
    <2>2. \A j \in 1 .. n : ByteIs(s, j, knownList) = (<<Code(s.op)>> \o InstBytes(s))[j]
      BY <1>2, <1>4, RefersOnly DEF ByteIs, PlainOf
    <2>3. InstOf(s) = <<Code(s.op)>> \o InstBytes(s)
      BY <1>4 DEF InstOf
    <2> QED
      BY <1>1, <2>1, <2>2, <2>3, FourBytes
  <1> QED
    BY <1>3, <1>4

(* When the assembler is done the data and the instructions of the source  *)
(* are where the Ant-32 reads them, with the labels as they are in the     *)
(* end: what was assembled behind an item did not touch it, and do_patch   *)
(* (ant_backpatch.c:134) put in it no more than the labels it waited for,  *)
(* though bytes and places are in the order of the host's                  *)
(* (ant32_expand_op.c:597).                                                *)
THEOREM ItemsStayInPlace == Build => []ItemsInPlace
  <1>1. ASSUME LabelInv, DataInv PROVE ItemsInPlace
    <2> SUFFICES ASSUME phase = "done", Orderly, NEW item \in Items
                 PROVE  /\ item.stmnt.op \in DataOps =>
                             MachineBytes(item.at, item.used) = DataOf(item.stmnt)
                        /\ item.stmnt.op \in Instructions /\ ~LchAstray(item.stmnt) =>
                             MachineBytes(item.at, item.used) = InstOf(item.stmnt)
      BY DEF ItemsInPlace, DataOps
    <2>1. PICK i \in DOMAIN placed : item = placed[i]
      BY DEF Items
    <2>2. Certain(item.stmnt) => HoldsAtLast(placed[i], memTable, knownList)
      BY <1>1, <2>1, OrderlySane DEF DataInv
    <2>3. CASE item.stmnt.op \in DataOps
      <3>1. item.stmnt.op \notin Instructions
        BY <2>3, InstructionsOnly DEF NotInstructions
      <3> QED
        BY <1>1, <2>1, <2>2, <2>3, <3>1, BytesThere DEF Certain
    <2>4. CASE item.stmnt.op \notin DataOps
      BY <2>1, <2>2, <2>4, InstsThere DEF Certain
    <2> QED
      BY <2>3, <2>4
  <1>2. BuildInit => PatchInv /\ DataInv
    BY PatchInit, DataInit
  <1>3. PassInv /\ LabelInv /\ PatchInv /\ DataInv /\ [BuildNext]_<<vars, loadVars>> => (PatchInv /\ DataInv)'
    BY PatchNext, DataNext
  <1> QED
    BY <1>1, <1>2, <1>3, LabelsMeetItems, PTL DEF Build
-----------------------------------------------------------------------------
(***************************************************************************)
(* Loading what was assembled.  First what an operation and an address     *)
(* are; then the chain of states the loader goes through, a line of the    *)
(* file at a time, and that no line takes away what one before it put;     *)
(* then what the assembler keeps for the file, and that it holds to it.    *)
(***************************************************************************)

(* A word is two halves, and four bytes can be added.                      *)
LEMMA WordRange ==
  /\ WordSize \in Nat /\ WordSize >= 16 /\ MinInt \in Int /\ MaxInt \in Int /\ MinInt <= -4
  /\ 2 * (WordSize \div 2) = WordSize /\ MinInt = -(WordSize \div 2) /\ MaxInt = MinInt + WordSize - 1
  <1>1. ByteSize \in Nat /\ ByteSize >= 2 /\ ByteSize % 2 = 0
    BY ByteAssumption
  <1>2. PICK h \in Nat : ByteSize = 2 * h /\ h >= 1
    <2>1. ByteSize = 2 * (ByteSize \div 2) /\ ByteSize \div 2 \in Nat
      BY <1>1
    <2> QED
      BY <1>1, <2>1
  <1>3. HwordSize \in Nat /\ HwordSize >= 4 /\ HwordSize = 2 * (h * ByteSize)
    BY <1>1, <1>2 DEF HwordSize
  <1>4. PICK k \in Nat : HwordSize = 2 * k
    BY <1>1, <1>2, <1>3
  <1>5. WordSize \in Nat /\ WordSize >= 16 /\ WordSize = 2 * (k * HwordSize) /\ k * HwordSize \in Nat
    BY <1>3, <1>4 DEF WordSize
  <1>6. WordSize \div 2 = k * HwordSize
    BY <1>5
  <1> QED
    BY <1>5, <1>6 DEF MinInt, MaxInt

(* Truncating takes so many whole words away.                              *)
LEMMA SignedPlus ==
  ASSUME NEW x \in Int
  PROVE  \E q \in Int : Truncate(x) = x + WordSize * q /\ Truncate(x) \in Word
  <1> DEFINE m == WordSize
             u == x % m
             d == x \div m
  <1>1. m \in Nat /\ m > 0 /\ 2 * (m \div 2) = m
    BY WordRange
  <1>2. d \in Int /\ u \in 0 .. m - 1 /\ x = m * d + u
    <2> HIDE DEF m
    <2> QED
      BY <1>1
  <1>3. MinInt = -(m \div 2) /\ MaxInt = -(m \div 2) + m - 1
    BY WordRange
  <1> HIDE DEF m, u, d
  <1>4. Truncate(x) = IF u >= m \div 2 THEN u - m ELSE u
    BY DEF Truncate, Signed, u, m
  <1>5. /\ m * d \in Int /\ m \div 2 \in Int
        /\ -d \in Int /\ -d - 1 \in Int /\ m * (-d) = -(m * d) /\ m * (-d - 1) = -(m * d) - m
    BY <1>1, <1>2
  <1>6. \E q \in Int : Truncate(x) = x + m * q /\ Truncate(x) \in MinInt .. MaxInt
    <2> DEFINE p == m * d
    <2>1. p \in Int /\ x = p + u /\ m * (-d) = -p /\ m * (-d - 1) = -p - m
      BY <1>2, <1>5
    <2> HIDE DEF p
    <2>2. u >= m \div 2 => u - m = x + (-p - m) /\ u - m \in MinInt .. MaxInt
      BY <1>1, <1>2, <1>3, <1>5, <2>1
    <2>3. ~(u >= m \div 2) => u = x + (-p) /\ u \in MinInt .. MaxInt
      BY <1>1, <1>2, <1>3, <1>5, <2>1
    <2> QED
      BY <1>4, <1>5, <2>1, <2>2, <2>3
  <1> QED
    BY <1>6 DEF m, Word

LEMMA SameWord ==
  ASSUME NEW a \in Word, NEW b \in Word, NEW q \in Int, a = b + WordSize * q
  PROVE  a = b
  <1> DEFINE m == WordSize
  <1>1. m \in Nat /\ m > 0 /\ a - b < m /\ b - a < m /\ a \in Int /\ b \in Int
    BY WordRange DEF Word
  <1> HIDE DEF m
  <1>2. q >= 1 => m * q >= m
    BY <1>1
  <1>3. q <= -1 => m * q <= -m
    BY <1>1
  <1>4. m * q \in Int /\ a = b + m * q
    BY <1>1 DEF m
  <1>5. q = 0
    BY <1>1, <1>2, <1>3, <1>4
  <1> QED
    BY <1>1, <1>4, <1>5

(* Cutting an address to a word before or after it goes on is the same.    *)
LEMMA TruncateOn == \A x \in Int : GoesOn(Truncate(x)) = Truncate(x + 4)
  <1> SUFFICES ASSUME NEW x \in Int PROVE Truncate(Truncate(x) + 4) = Truncate(x + 4)
    BY DEF GoesOn
  <1>1. PICK p \in Int : Truncate(x) = x + WordSize * p
    BY SignedPlus
  <1>2. WordSize \in Nat
    BY WordRange
  <1>3. Truncate(x) \in Int /\ Truncate(x) + 4 \in Int /\ x + 4 \in Int
    BY TruncateInt
  <1>4. PICK q \in Int : Truncate(Truncate(x) + 4) = Truncate(x) + 4 + WordSize * q /\ Truncate(Truncate(x) + 4) \in Word
    BY <1>3, SignedPlus
  <1>5. PICK r \in Int : Truncate(x + 4) = x + 4 + WordSize * r /\ Truncate(x + 4) \in Word
    BY <1>3, SignedPlus
  <1> DEFINE a == Truncate(Truncate(x) + 4)
             b == Truncate(x + 4)
  <1>6. WordSize * p \in Int /\ WordSize * q \in Int /\ WordSize * r \in Int
    BY <1>2
  <1>7. p + q - r \in Int /\ WordSize * (p + q - r) = WordSize * p + WordSize * q - WordSize * r
    BY <1>2
  <1>8. a = b + WordSize * (p + q - r)
    BY <1>1, <1>3, <1>4, <1>5, <1>6, <1>7
  <1> QED
    BY <1>4, <1>5, <1>7, <1>8, SameWord

LEMMA TruncateNear ==
  /\ \A x \in Word : Truncate(x) = x
  /\ \A x \in Int : x >= MinInt /\ x <= MaxInt + WordSize =>
       Truncate(x) = IF x <= MaxInt THEN x ELSE x - WordSize
  <1>0. /\ WordSize \in Nat /\ MinInt \in Int /\ MaxInt \in Int /\ MaxInt = MinInt + WordSize - 1
    BY WordRange
  <1>1. ASSUME NEW x \in Word PROVE Truncate(x) = x
    <2>1. x \in Int
      BY WordRange, <1>1 DEF Word
    <2> QED
      BY <2>1, SignedPlus, SameWord
  <1>2. ASSUME NEW x \in Int, x > MaxInt, x <= MaxInt + WordSize PROVE Truncate(x) = x - WordSize
    <2>1. PICK q \in Int : Truncate(x) = x + WordSize * q /\ Truncate(x) \in Word
      BY SignedPlus
    <2>2. x - WordSize \in Word /\ WordSize * q \in Int /\ WordSize * (q + 1) = WordSize * q + WordSize
      BY <1>0, <1>2 DEF Word
    <2>3. Truncate(x) = (x - WordSize) + WordSize * (q + 1) /\ q + 1 \in Int
      BY <1>0, <2>1, <2>2
    <2> QED
      BY <2>1, <2>2, <2>3, SameWord
  <1> QED
    BY <1>0, <1>1, <1>2 DEF Word
-----------------------------------------------------------------------------
(* A function on some integers.                                            *)
Tables(V) == UNION {[d -> V] : d \in SUBSET Int}

LEMMA NoTable == \A V : <<>> \in Tables(V)
  <1> SUFFICES ASSUME NEW V PROVE \E d \in SUBSET Int : <<>> \in [d -> V]
    BY DEF Tables
  <1>1. <<>> \in [1 .. 0 -> V]
    OBVIOUS
  <1>2. 1 .. 0 \in SUBSET Int
    OBVIOUS
  <1> QED
    BY <1>1, <1>2

(* A table with an entry for a key.                                        *)
Gets(g, f, key, v) ==
  /\ DOMAIN g = DOMAIN f \cup {key} /\ g[key] = v
  /\ \A x \in DOMAIN f : x # key => g[x] = f[x]

LEMMA TableEntry ==
  \A V, f, key, v : f \in Tables(V) /\ key \in Int /\ v \in V =>
    Entered(f, key, v) \in Tables(V) /\ Gets(Entered(f, key, v), f, key, v)
  <1> SUFFICES ASSUME NEW V, NEW f \in Tables(V), NEW key \in Int, NEW v \in V
               PROVE  Entered(f, key, v) \in Tables(V) /\ Gets(Entered(f, key, v), f, key, v)
    OBVIOUS
  <1>1. PICK d \in SUBSET Int : f \in [d -> V]
    BY DEF Tables
  <1>2. Entered(f, key, v) \in [d \cup {key} -> V] /\ d \cup {key} \in SUBSET Int
    BY <1>1 DEF Entered
  <1>3. Entered(f, key, v) \in Tables(V)
    BY <1>2 DEF Tables
  <1> QED
    BY <1>1, <1>3 DEF Entered, Gets

(* A file that can be loaded.                                             *)
FileOK(file) ==
  /\ Len(file) \in Nat /\ DOMAIN file = 1 .. Len(file)
  /\ \A k \in DOMAIN file : file[k].code \in Int /\ (file[k].addr \in Word \/ file[k].addr = Plus)

(* The states of the loader, between two lines.                           *)
WordsOf(file) == {file[k].word : k \in DOMAIN file}
Lines32 == [code : Int, lcode : {"SYNTHETIC", "LITERAL"}]
LoadStates(file) ==
  [pmem : Tables(WordsOf(file)), codes : Tables(Lines32), prev : Int, next : Int]
LoadStart == [pmem |-> <<>>, codes |-> <<>>, prev |-> NoCode, next |-> MinInt]

(* What loading one line does.                                             *)
Target(st, l) == IF l.addr = Plus THEN st.next ELSE l.addr

Loads(to, st, l, a, save) ==
  /\ to.next = GoesOn(a)
  /\ DOMAIN to.pmem = IF a \in Physical THEN DOMAIN st.pmem \cup {a} ELSE DOMAIN st.pmem
  /\ a \in Physical => to.pmem[a] = l.word
  /\ \A x \in DOMAIN st.pmem : x # a => to.pmem[x] = st.pmem[x]
  /\ ~save => to.codes = st.codes
  /\ save => /\ to.prev = IF l.code = NoCode THEN st.prev ELSE l.code
             /\ DOMAIN to.codes = DOMAIN st.codes \cup {a}
             /\ to.codes[a] = CodeLine32(to.prev, IF l.code = NoCode THEN "SYNTHETIC" ELSE "LITERAL")
             /\ \A x \in DOMAIN st.codes : x # a => to.codes[x] = st.codes[x]

LEMMA LineLoads ==
  ASSUME FileOK(out), NEW save \in BOOLEAN, NEW st \in LoadStates(out), NEW k \in DOMAIN out
  PROVE  /\ LoadLine(st, out[k], save) \in LoadStates(out)
         /\ Loads(LoadLine(st, out[k], save), st, out[k], Target(st, out[k]), save)
  <1> DEFINE l == out[k]
             a == Target(st, l)
             to == LoadLine(st, l, save)
             text == LineOf(st.prev, l.code)
             W == WordsOf(out)
  <1>1. /\ st.pmem \in Tables(W) /\ st.codes \in Tables(Lines32) /\ st.prev \in Int /\ st.next \in Int
        /\ l.word \in W /\ l.code \in Int
    BY DEF FileOK, LoadStates, WordsOf
  <1>2. a \in Int
    <2>1. l.addr = Plus \/ l.addr \in Int
      BY WordRange DEF FileOK, Word
    <2> QED
      BY <1>1, <2>1 DEF Target
  <1>3. /\ text \in Lines32 /\ text.code = (IF l.code = NoCode THEN st.prev ELSE l.code)
        /\ text = CodeLine32(text.code, IF l.code = NoCode THEN "SYNTHETIC" ELSE "LITERAL")
    BY <1>1 DEF LineOf, CodeLine32, Lines32
  <1>4. /\ to.pmem = Stored(st.pmem, a, l.word)
        /\ to.codes = IF save THEN Entered(st.codes, a, text) ELSE st.codes
        /\ to.prev = IF save THEN text.code ELSE st.prev
        /\ to.next = GoesOn(a)
        /\ to = [pmem |-> to.pmem, codes |-> to.codes, prev |-> to.prev, next |-> to.next]
    BY DEF LoadLine, Target
  <1>5. GoesOn(a) \in Int
    <2>1. a + 4 \in Int
      BY <1>2
    <2> QED
      BY <2>1, TruncateInt DEF GoesOn
  <1>6. text.code \in Int
    BY <1>3, <1>1
  <1> HIDE DEF l, a, to, text, W
  <1>7. /\ to.pmem \in Tables(W)
        /\ DOMAIN to.pmem = IF a \in Physical THEN DOMAIN st.pmem \cup {a} ELSE DOMAIN st.pmem
        /\ a \in Physical => to.pmem[a] = l.word
        /\ \A x \in DOMAIN st.pmem : x # a => to.pmem[x] = st.pmem[x]
    <2>1. Entered(st.pmem, a, l.word) \in Tables(W) /\ Gets(Entered(st.pmem, a, l.word), st.pmem, a, l.word)
      BY <1>1, <1>2, TableEntry, Zenon
    <2>2. CASE a \in Physical
      <3>1. to.pmem = Entered(st.pmem, a, l.word)
        BY <1>4, <2>2 DEF Stored
      <3>2. to.pmem \in Tables(W) /\ Gets(to.pmem, st.pmem, a, l.word)
        BY <2>1, <3>1, Zenon
      <3> QED
        BY <2>2, <3>2 DEF Gets
    <2>3. CASE a \notin Physical
      <3>1. to.pmem = st.pmem
        BY <1>4, <2>3 DEF Stored
      <3> QED
        BY <1>1, <2>3, <3>1, Zenon
    <2> QED
      BY <2>2, <2>3
  <1>8. /\ to.codes \in Tables(Lines32)
        /\ save => /\ DOMAIN to.codes = DOMAIN st.codes \cup {a} /\ to.codes[a] = text
                   /\ \A x \in DOMAIN st.codes : x # a => to.codes[x] = st.codes[x]
    <2>1. Entered(st.codes, a, text) \in Tables(Lines32) /\ Gets(Entered(st.codes, a, text), st.codes, a, text)
      BY <1>1, <1>2, <1>3, TableEntry, Zenon
    <2>2. CASE save
      <3>1. to.codes = Entered(st.codes, a, text)
        BY <1>4, <2>2
      <3>2. to.codes \in Tables(Lines32) /\ Gets(to.codes, st.codes, a, text)
        BY <2>1, <3>1, Zenon
      <3> QED
        BY <2>2, <3>2 DEF Gets
    <2>3. CASE ~save
      <3>1. to.codes = st.codes
        BY <1>4, <2>3
      <3> QED
        BY <1>1, <2>3, <3>1, Zenon
    <2> QED
      BY <2>2, <2>3
  <1>9. to \in LoadStates(out)
    BY <1>1, <1>4, <1>5, <1>6, <1>7, <1>8 DEF LoadStates, W
  <1>10. save => /\ to.prev = IF l.code = NoCode THEN st.prev ELSE l.code
                 /\ to.codes[a] = CodeLine32(to.prev, IF l.code = NoCode THEN "SYNTHETIC" ELSE "LITERAL")
    BY <1>3, <1>4, <1>8
  <1> QED
    BY <1>2, <1>4, <1>7, <1>8, <1>9, <1>10 DEF Loads, l, a, to

(* The states the loader goes through.                                     *)
LEMMA LoadChain ==
  ASSUME FileOK(out), NEW save \in BOOLEAN
  PROVE  \E c : /\ c[0] = LoadStart /\ LoadText(out, save) = c[Len(out)]
                /\ \A k \in 0 .. Len(out) : c[k] \in LoadStates(out)
                /\ \A k \in 1 .. Len(out) : c[k] = LoadLine(c[k - 1], out[k], save)
  <1> DEFINE T == LoadStates(out)
             n == Len(out)
             b == LoadStart
             P(f) == f = [r \in SUBSET DOMAIN out |->
                            IF r = {} THEN b ELSE LoadLine(f[r \ {Max(r)}], out[Max(r)], save)]
             h == CHOOSE f : P(f)
             F == [k \in 1 .. n |-> [t \in T |-> LoadLine(t, out[k], save)]]
  <1>1. b \in T
    BY NoTable, WordRange DEF LoadStart, LoadStates, NoCode
  <1>2. n \in Nat /\ DOMAIN out = 1 .. n
    BY DEF FileOK
  <1>4. LoadText(out, save) = h[DOMAIN out]
    BY DEF LoadText, FoldLeft, MapThenFoldSet, LoadStart
  <1>5. F \in Steps(n, T)
    <2>1. \A k \in 1 .. n, t \in T : LoadLine(t, out[k], save) \in T
      <3> SUFFICES ASSUME NEW k \in 1 .. n, NEW t \in T PROVE LoadLine(t, out[k], save) \in T
        OBVIOUS
      <3>1. k \in DOMAIN out
        BY <1>2
      <3> QED
        BY <3>1, LineLoads
    <2> QED
      BY <2>1 DEF Steps
  <1>6. \A k \in 1 .. n, t \in T : F[k][t] = LoadLine(t, out[k], save)
    OBVIOUS
  <1> HIDE DEF P, F, n, T, b
  <1>7. PICK g : g \in FoldFunctions(T, b, n, F)
    BY <1>1, <1>2, <1>5, FoldExists
  <1>8. /\ g \in [SUBSET (1 .. n) -> T]
        /\ \A r \in SUBSET (1 .. n) :
             g[r] = IF r = {} THEN b ELSE F[Max(r)][g[r \ {Max(r)}]]
    BY <1>7 DEF FoldFunctions
  <1>9. \A r \in SUBSET (1 .. n) : r # {} => Max(r) \in 1 .. n /\ r \ {Max(r)} \in SUBSET (1 .. n)
    BY <1>2, MaxMember
  <1>10. P(g)
    BY <1>2, <1>6, <1>8, <1>9 DEF P
  <1>11. P(h)
    BY <1>10
  <1> HIDE DEF h
  <1>12. h[{}] = b
    BY <1>11 DEF P
  <1>13. \A r \in SUBSET (1 .. n) :
           r # {} => h[r] = LoadLine(h[r \ {Max(r)}], out[Max(r)], save)
    BY <1>2, <1>9, <1>11 DEF P
  <1>14. TakesSteps(h, T, b, n, F)
    BY <1>6, <1>9, <1>12, <1>13 DEF TakesSteps
  <1>15. PICK c : c \in Chains(T, b, n, F) /\ c[n] = h[1 .. n]
    BY <1>1, <1>2, <1>5, <1>14, FoldChain
  <1>16. /\ c \in [0 .. n -> T] /\ c[0] = b
         /\ \A k \in 1 .. n : c[k] = F[k][c[k - 1]] /\ c[k - 1] \in T
    BY <1>2, <1>15 DEF Chains
  <1>17. \A k \in 1 .. n : c[k] = LoadLine(c[k - 1], out[k], save)
    BY <1>6, <1>16
  <1>18. \A k \in 0 .. n : c[k] \in T
    BY <1>16
  <1> QED
    BY <1>2, <1>4, <1>15, <1>16, <1>17, <1>18 DEF n, T, b

(* The same for the labels.                                                *)
LEMMA LabelChain ==
  ASSUME symbols \in SymbolLists
  PROVE  \E c : /\ c[0] = <<>> /\ LoadLabels(symbols) = c[Len(symbols)]
                /\ \A k \in 0 .. Len(symbols) : c[k] \in SymbolLists
                /\ \A k \in 1 .. Len(symbols) :
                     c[k] = AddSymbol(c[k - 1], symbols[k].string, symbols[k].value)
  <1> DEFINE T == SymbolLists
             q == symbols
             n == Len(q)
             b == <<>>
             P(f) == f = [r \in SUBSET DOMAIN q |->
                            IF r = {} THEN b
                            ELSE AddSymbol(f[r \ {Max(r)}], q[Max(r)].string, q[Max(r)].value)]
             h == CHOOSE f : P(f)
             F == [k \in 1 .. n |-> [t \in T |-> AddSymbol(t, q[k].string, q[k].value)]]
  <1>1. b \in T
    BY EmptyList
  <1>2. n \in Nat /\ DOMAIN q = 1 .. n /\ \A k \in 1 .. n : q[k].string \in Spelling /\ q[k].value \in Int
    BY ListFacts DEF SymbolRec
  <1>4. LoadLabels(symbols) = h[DOMAIN q]
    BY DEF LoadLabels, FoldLeft, MapThenFoldSet
  <1>5. F \in Steps(n, T)
    <2>1. \A k \in 1 .. n, t \in T : AddSymbol(t, q[k].string, q[k].value) \in T
      <3> SUFFICES ASSUME NEW k \in 1 .. n, NEW t \in T PROVE AddSymbol(t, q[k].string, q[k].value) \in T
        OBVIOUS
      <3>1. q[k].string \in Spelling /\ q[k].value \in Int
        BY <1>2
      <3>2. CASE CanAdd(t, q[k].string)
        BY <3>1, <3>2, Added
      <3>3. CASE ~CanAdd(t, q[k].string)
        BY <3>3 DEF AddSymbol
      <3> QED
        BY <3>2, <3>3
    <2> QED
      BY <2>1 DEF Steps
  <1>6. \A k \in 1 .. n, t \in T : F[k][t] = AddSymbol(t, q[k].string, q[k].value)
    OBVIOUS
  <1> HIDE DEF P, F, n, T, q, b
  <1>7. PICK g : g \in FoldFunctions(T, b, n, F)
    BY <1>1, <1>2, <1>5, FoldExists
  <1>8. /\ g \in [SUBSET (1 .. n) -> T]
        /\ \A r \in SUBSET (1 .. n) :
             g[r] = IF r = {} THEN b ELSE F[Max(r)][g[r \ {Max(r)}]]
    BY <1>7 DEF FoldFunctions
  <1>9. \A r \in SUBSET (1 .. n) : r # {} => Max(r) \in 1 .. n /\ r \ {Max(r)} \in SUBSET (1 .. n)
    BY <1>2, MaxMember
  <1>10. P(g)
    BY <1>2, <1>6, <1>8, <1>9 DEF P
  <1>11. P(h)
    BY <1>10
  <1> HIDE DEF h
  <1>12. h[{}] = b
    BY <1>11 DEF P
  <1>13. \A r \in SUBSET (1 .. n) :
           r # {} => h[r] = AddSymbol(h[r \ {Max(r)}], q[Max(r)].string, q[Max(r)].value)
    BY <1>2, <1>9, <1>11 DEF P
  <1>14. TakesSteps(h, T, b, n, F)
    BY <1>6, <1>9, <1>12, <1>13 DEF TakesSteps
  <1>15. PICK c : c \in Chains(T, b, n, F) /\ c[n] = h[1 .. n]
    BY <1>1, <1>2, <1>5, <1>14, FoldChain
  <1>16. /\ c \in [0 .. n -> T] /\ c[0] = b
         /\ \A k \in 1 .. n : c[k] = F[k][c[k - 1]] /\ c[k - 1] \in T
    BY <1>2, <1>15 DEF Chains
  <1>17. \A k \in 1 .. n : c[k] = AddSymbol(c[k - 1], q[k].string, q[k].value)
    BY <1>6, <1>16
  <1>18. \A k \in 0 .. n : c[k] \in T
    BY <1>16
  <1> QED
    BY <1>2, <1>4, <1>15, <1>16, <1>17, <1>18 DEF n, T, b, q
-----------------------------------------------------------------------------
(* Where the lines of a file go.                                           *)
LEMMA OneStart ==
  ASSUME FileOK(out), NEW n \in 1 .. Len(out), NEW j \in 1 .. n, NEW k \in 1 .. n, Starts(j, n), Starts(k, n)
  PROVE  j = k
  <1>1. n \in Int /\ j \in Int /\ k \in Int
    BY DEF FileOK
  <1>2. j < k => k \in j + 1 .. n
    BY <1>1
  <1>3. k < j => j \in k + 1 .. n
    BY <1>1
  <1> QED
    BY <1>1, <1>2, <1>3 DEF Starts

LEMMA StartOf ==
  ASSUME FileOK(out), out[1].addr # Plus, NEW n \in 1 .. Len(out)
  PROVE  \E k \in 1 .. n : Starts(k, n) /\ FileAddress(n) = Truncate(out[k].addr + 4 * (n - k))
  <1> DEFINE s == {k \in 1 .. n : out[k].addr # Plus}
             m == Max(s)
  <1>1. n \in Nat /\ 1 \in s /\ s \in SUBSET (1 .. n)
    BY DEF FileOK
  <1>2. m \in s /\ \A k \in s : m >= k
    <2> HIDE DEF s
    <2> QED
      BY <1>1, MaxMember
  <1> HIDE DEF m
  <1>3. ASSUME NEW j \in m + 1 .. n PROVE out[j].addr = Plus
    BY <1>1, <1>2
  <1>4. m \in 1 .. n /\ Starts(m, n)
    BY <1>2, <1>3 DEF Starts
  <1> QED
    BY <1>4 DEF FileAddress

LEMMA LineAddress ==
  ASSUME FileOK(out), out[1].addr # Plus, NEW n \in 1 .. Len(out)
  PROVE  /\ FileAddress(n) \in Int
         /\ out[n].addr # Plus => FileAddress(n) = out[n].addr
         /\ out[n].addr = Plus => n - 1 \in 1 .. Len(out) /\ FileAddress(n) = GoesOn(FileAddress(n - 1))
  <1>1. n \in Nat /\ Len(out) \in Nat /\ DOMAIN out = 1 .. Len(out)
    BY DEF FileOK
  <1>2. PICK k \in 1 .. n : Starts(k, n) /\ FileAddress(n) = Truncate(out[k].addr + 4 * (n - k))
    BY StartOf
  <1>3. out[k].addr \in Word /\ out[k].addr \in Int /\ k \in Int
    <2>1. k \in DOMAIN out /\ k \in Int
      BY <1>1
    <2>2. out[k].addr \in Word
      BY <1>2, <2>1 DEF Starts, FileOK
    <2> QED
      BY <2>1, <2>2, WordRange DEF Word
  <1>4. FileAddress(n) \in Int
    <2>1. out[k].addr + 4 * (n - k) \in Int
      BY <1>1, <1>3
    <2> QED
      BY <1>2, <2>1, TruncateInt
  <1>5. ASSUME out[n].addr # Plus PROVE FileAddress(n) = out[n].addr
    <2>1. k = n
      <3>1. k # n => n \in k + 1 .. n
        BY <1>1
      <3> QED
        BY <1>2, <1>5, <3>1 DEF Starts
    <2>2. out[k].addr + 4 * (n - k) = out[n].addr
      BY <1>1, <1>3, <2>1
    <2> QED
      BY <1>2, <1>3, <2>1, <2>2, TruncateNear
  <1>6. ASSUME out[n].addr = Plus
        PROVE  n - 1 \in 1 .. Len(out) /\ FileAddress(n) = GoesOn(FileAddress(n - 1))
    <2>1. k # n
      BY <1>2, <1>6 DEF Starts
    <2>2. n - 1 \in 1 .. Len(out) /\ k \in 1 .. n - 1
      BY <1>1, <2>1
    <2>3. PICK j \in 1 .. n - 1 : Starts(j, n - 1) /\ FileAddress(n - 1) = Truncate(out[j].addr + 4 * ((n - 1) - j))
      BY <2>2, StartOf
    <2>4. Starts(k, n - 1)
      BY <1>1, <1>2 DEF Starts
    <2>5. j = k
      BY <2>2, <2>3, <2>4, OneStart
    <2>6. out[k].addr + 4 * ((n - 1) - k) \in Int /\ (out[k].addr + 4 * ((n - 1) - k)) + 4 = out[k].addr + 4 * (n - k)
      BY <1>1, <1>3
    <2>7. GoesOn(FileAddress(n - 1)) = Truncate(out[k].addr + 4 * (n - k))
      BY <2>3, <2>5, <2>6, TruncateOn
    <2> QED
      BY <1>2, <2>2, <2>7
  <1> QED
    BY <1>4, <1>5, <1>6

(* The file begins with the words of memory, in order.                     *)
ImageFirst ==
  /\ FileOK(out) /\ WordsWritten \in 1 .. Len(out) /\ 4 * WordsWritten <= WordSize
  /\ out[1].addr = BaseAddress /\ \A i \in 2 .. WordsWritten : out[i].addr = Plus

LEMMA ImageAddress ==
  ASSUME ImageFirst, NEW i \in 1 .. WordsWritten
  PROVE  out[1].addr # Plus /\ FileAddress(i) = Truncate(BaseAddress + 4 * (i - 1))
  <1>1. BaseAddress \in Word /\ BaseAddress \in Int /\ BaseAddress # Plus
    BY AsmAssumption, WordRange DEF Word, Plus
  <1>2. i \in 1 .. Len(out) /\ 1 \in 1 .. i /\ \A j \in 1 + 1 .. i : j \in 2 .. WordsWritten
    BY DEF ImageFirst, FileOK
  <1>3. Starts(1, i)
    BY <1>1, <1>2 DEF ImageFirst, Starts
  <1>4. PICK k \in 1 .. i : Starts(k, i) /\ FileAddress(i) = Truncate(out[k].addr + 4 * (i - k))
    BY <1>1, <1>2, StartOf DEF ImageFirst
  <1>5. k = 1
    BY <1>2, <1>3, <1>4, OneStart DEF ImageFirst
  <1> QED
    BY <1>1, <1>4, <1>5 DEF ImageFirst

LEMMA ImageApart ==
  ASSUME ImageFirst, NEW i \in 1 .. WordsWritten, NEW j \in 1 .. WordsWritten, i < j
  PROVE  FileAddress(i) # FileAddress(j)
  <1> DEFINE x == BaseAddress + 4 * (i - 1)
             y == BaseAddress + 4 * (j - 1)
  <1>1. /\ WordSize \in Nat /\ MinInt \in Int /\ MaxInt \in Int
        /\ BaseAddress \in Int /\ BaseAddress >= MinInt /\ BaseAddress <= MaxInt
        /\ WordsWritten \in Int /\ 4 * WordsWritten <= WordSize /\ i \in Int /\ j \in Int
    BY AsmAssumption, WordRange DEF Word, ImageFirst, FileOK
  <1>2. /\ x \in Int /\ y \in Int /\ x < y /\ y < x + WordSize
        /\ x >= MinInt /\ x <= MaxInt + WordSize /\ y >= MinInt /\ y <= MaxInt + WordSize
    BY <1>1
  <1>3. FileAddress(i) = Truncate(x) /\ FileAddress(j) = Truncate(y)
    BY ImageAddress
  <1> HIDE DEF x, y
  <1>4. /\ Truncate(x) = IF x <= MaxInt THEN x ELSE x - WordSize
        /\ Truncate(y) = IF y <= MaxInt THEN y ELSE y - WordSize
    BY <1>2, TruncateNear
  <1> QED
    BY <1>1, <1>2, <1>3, <1>4

(* A word of the file is in the machine, and its line is shown for it.     *)
There(st, i) == FileAddress(i) \in DOMAIN st.pmem /\ st.pmem[FileAddress(i)] = out[i].word
Shown(st, i, code) ==
  /\ FileAddress(i) \in DOMAIN st.codes
  /\ st.codes[FileAddress(i)] = CodeLine32(code, IF out[i].code = NoCode THEN "SYNTHETIC" ELSE "LITERAL")

LEMMA LinesLoad ==
  ASSUME ImageFirst, Loadable, NEW save \in BOOLEAN
  PROVE  \E p : /\ \A i \in 1 .. WordsWritten :
                     /\ There(LoadText(out, save), i)
                     /\ save => /\ Shown(LoadText(out, save), i, p[i])
                                /\ p[i] = IF out[i].code = NoCode THEN p[i - 1] ELSE out[i].code
                /\ ~save => LoadText(out, save).codes = <<>>
  <1> DEFINE n == Len(out)
             w == WordsWritten
  <1>1. /\ FileOK(out) /\ n \in Nat /\ DOMAIN out = 1 .. n /\ w \in 1 .. n /\ w \in Int
        /\ out[1].addr # Plus
    <2>1. FileOK(out) /\ n \in Nat /\ DOMAIN out = 1 .. n /\ w \in 1 .. n /\ w \in Int
      BY DEF ImageFirst, FileOK
    <2>2. 1 \in 1 .. w
      BY <2>1
    <2> QED
      BY <2>1, <2>2, ImageAddress
  <1>2. PICK c : /\ c[0] = LoadStart /\ LoadText(out, save) = c[n]
                 /\ \A k \in 0 .. n : c[k] \in LoadStates(out)
                 /\ \A k \in 1 .. n : c[k] = LoadLine(c[k - 1], out[k], save)
    <2>1. \E c : /\ c[0] = LoadStart /\ LoadText(out, save) = c[Len(out)]
                 /\ \A k \in 0 .. Len(out) : c[k] \in LoadStates(out)
                 /\ \A k \in 1 .. Len(out) : c[k] = LoadLine(c[k - 1], out[k], save)
      BY <1>1, LoadChain
    <2> QED
      BY <2>1, Zenon
  <1> DEFINE Kept(k) == \A i \in 1 .. k : i <= w => There(c[k], i) /\ (save => Shown(c[k], i, c[i].prev))
             U == {k \in 0 .. n : /\ k >= 1 => c[k].next = GoesOn(FileAddress(k))
                                  /\ Kept(k)
                                  /\ ~save => c[k].codes = <<>>}
  <1> HIDE DEF n, w
  <1>3. 0 \in U
    <2>1. 1 .. 0 = {} /\ 0 \in 0 .. n /\ ~(0 >= 1)
      BY <1>1
    <2> QED
      BY <1>2, <2>1 DEF LoadStart
  <1>4. ASSUME NEW k \in 1 .. n, k - 1 \in U
        PROVE  /\ k \in U
               /\ save => c[k].prev = IF out[k].code = NoCode THEN c[k - 1].prev ELSE out[k].code
    <2> DEFINE a == FileAddress(k)
               st == c[k - 1]
    <2>1. /\ k \in 0 .. n /\ k - 1 \in 0 .. n /\ k \in DOMAIN out /\ k \in 1 .. Len(out)
          /\ \A i \in 1 .. k : i = k \/ i \in 1 .. k - 1
      BY <1>1 DEF n
    <2>2. Target(st, out[k]) = a
      <3>1. out[k].addr # Plus => a = out[k].addr
        BY <1>1, <2>1, LineAddress
      <3>2. out[k].addr = Plus => k - 1 \in 1 .. Len(out) /\ a = GoesOn(FileAddress(k - 1))
        BY <1>1, <2>1, LineAddress
      <3>3. out[k].addr = Plus => st.next = GoesOn(FileAddress(k - 1))
        BY <1>1, <1>4, <3>2
      <3> QED
        BY <3>1, <3>2, <3>3 DEF Target
    <2>3. c[k] = LoadLine(st, out[k], save) /\ st \in LoadStates(out)
      BY <1>2, <2>1
    <2> HIDE DEF a, st, U, Kept
    <2>4. Loads(c[k], st, out[k], a, save)
      BY <1>1, <2>1, <2>2, <2>3, LineLoads
    <2>5. k <= w => There(c[k], k) /\ (save => Shown(c[k], k, c[k].prev))
      <3> SUFFICES ASSUME k <= w PROVE There(c[k], k) /\ (save => Shown(c[k], k, c[k].prev))
        OBVIOUS
      <3>1. k \in 1 .. WordsWritten
        BY <1>1 DEF w
      <3>2. a \in Physical
        BY <3>1 DEF Loadable, a
      <3> QED
        BY <2>4, <3>2 DEF Loads, There, Shown, a
    <2>6. ASSUME NEW i \in 1 .. k - 1, i <= w PROVE There(c[k], i) /\ (save => Shown(c[k], i, c[i].prev))
      <3>1. There(st, i) /\ (save => Shown(st, i, c[i].prev))
        BY <1>4, <2>6 DEF U, Kept, st
      <3>2. i \in 1 .. WordsWritten /\ i < k
        BY <1>1, <2>6 DEF w
      <3>3. FileAddress(i) # a
        <4>1. CASE k \in 1 .. WordsWritten
          BY <3>2, <4>1, ImageApart DEF a
        <4>2. CASE k \in WordsWritten + 1 .. Len(out)
          BY <3>2, <4>2 DEF Loadable, a
        <4> QED
          BY <1>1, <4>1, <4>2 DEF w, n
      <3> QED
        BY <2>4, <3>1, <3>3 DEF Loads, There, Shown
    <2>7. Kept(k)
      BY <2>1, <2>5, <2>6 DEF Kept
    <2>8. ~save => c[k].codes = <<>>
      BY <1>4, <2>4 DEF Loads, U, st
    <2> QED
      BY <2>1, <2>4, <2>7, <2>8 DEF Loads, U, a, st
  <1> HIDE DEF U
  <1>5. \A k \in 0 .. n : k \in U
    BY <1>1, <1>3, <1>4, BoundedInduction
  <1>6. n \in U
    BY <1>1, <1>5
  <1> DEFINE p == [i \in 0 .. n |-> c[i].prev]
  <1>7. ASSUME NEW i \in 1 .. w
        PROVE  /\ There(c[n], i)
               /\ save => Shown(c[n], i, p[i]) /\ p[i] = IF out[i].code = NoCode THEN p[i - 1] ELSE out[i].code
    <2>1. i \in 1 .. n /\ i <= w /\ i - 1 \in 0 .. n /\ i \in 0 .. n
      BY <1>1
    <2>2. There(c[n], i) /\ (save => Shown(c[n], i, c[i].prev))
      BY <1>6, <2>1 DEF U, Kept
    <2>3. save => c[i].prev = IF out[i].code = NoCode THEN c[i - 1].prev ELSE out[i].code
      BY <1>4, <1>5, <2>1
    <2> QED
      BY <2>1, <2>2, <2>3
  <1>8. ~save => c[n].codes = <<>>
    BY <1>6 DEF U
  <1> HIDE DEF p
  <1> QED
    BY <1>2, <1>7, <1>8 DEF w
-----------------------------------------------------------------------------
(* The labels that are loaded.                                             *)
LEMMA LabelsLoad ==
  ASSUME symbols \in SymbolLists, NEW i \in DOMAIN symbols
  PROVE  /\ Defined(LoadLabels(symbols), symbols[i].string)
         /\ ValueOf(LoadLabels(symbols), symbols[i].string) = symbols[i].value
  <1> DEFINE n == Len(symbols)
  <1>1. /\ n \in Nat /\ DOMAIN symbols = 1 .. n
        /\ \A j \in 1 .. n : symbols[j].string \in Spelling /\ symbols[j].value \in Int
        /\ \A j, k \in 1 .. n : symbols[j].string = symbols[k].string => j = k
    BY ListFacts DEF SymbolRec
  <1>2. PICK c : /\ c[0] = <<>> /\ LoadLabels(symbols) = c[n]
                 /\ \A k \in 0 .. n : c[k] \in SymbolLists
                 /\ \A k \in 1 .. n : c[k] = AddSymbol(c[k - 1], symbols[k].string, symbols[k].value)
    <2>1. \E c : /\ c[0] = <<>> /\ LoadLabels(symbols) = c[Len(symbols)]
                 /\ \A k \in 0 .. Len(symbols) : c[k] \in SymbolLists
                 /\ \A k \in 1 .. Len(symbols) :
                      c[k] = AddSymbol(c[k - 1], symbols[k].string, symbols[k].value)
      BY LabelChain
    <2> QED
      BY <2>1, Zenon
  <1> DEFINE U == {k \in 0 .. n :
                     /\ \A x : Defined(c[k], x) => \E j \in 1 .. k : symbols[j].string = x
                     /\ \A j \in 1 .. k : /\ Defined(c[k], symbols[j].string)
                                          /\ ValueOf(c[k], symbols[j].string) = symbols[j].value}
  <1> HIDE DEF n
  <1>3. 0 \in U
    <2>1. 1 .. 0 = {} /\ 0 \in 0 .. n
      BY <1>1
    <2> QED
      BY <1>2, <2>1, EmptyList
  <1>4. ASSUME NEW k \in 1 .. n, k - 1 \in U PROVE k \in U
    <2> DEFINE l == c[k - 1]
               name == symbols[k].string
               value == symbols[k].value
    <2>1. k \in 0 .. n /\ k - 1 \in 0 .. n /\ \A j \in 1 .. k - 1 : j \in 1 .. k /\ j \in 1 .. n /\ j # k
      BY <1>1
    <2>2. \A j \in 1 .. k : j = k \/ j \in 1 .. k - 1
      BY <1>1
    <2>3. l \in SymbolLists /\ name \in Spelling /\ value \in Int /\ c[k] = AddSymbol(l, name, value)
      BY <1>1, <1>2, <2>1
    <2>4. /\ \A x : Defined(l, x) => \E j \in 1 .. k - 1 : symbols[j].string = x
          /\ \A j \in 1 .. k - 1 : /\ Defined(l, symbols[j].string)
                                   /\ ValueOf(l, symbols[j].string) = symbols[j].value
      BY <1>4
    <2>5. CanAdd(l, name)
      BY <1>1, <2>1, <2>4 DEF CanAdd
    <2> HIDE DEF l, name, value
    <2>6. /\ \A x : Defined(c[k], x) <=> x = name \/ Defined(l, x)
          /\ ValueOf(c[k], name) = value
          /\ \A x : Defined(l, x) => x # name /\ ValueOf(c[k], x) = ValueOf(l, x)
      BY <2>3, <2>5, Added
    <2>7. \A x : Defined(c[k], x) => \E j \in 1 .. k : symbols[j].string = x
      <3> SUFFICES ASSUME NEW x, Defined(c[k], x) PROVE \E j \in 1 .. k : symbols[j].string = x
        OBVIOUS
      <3>1. k \in 1 .. k
        BY <1>1
      <3> QED
        BY <2>1, <2>4, <2>6, <3>1 DEF name
    <2>8. \A j \in 1 .. k : /\ Defined(c[k], symbols[j].string)
                            /\ ValueOf(c[k], symbols[j].string) = symbols[j].value
      BY <2>2, <2>4, <2>6 DEF name, value
    <2> QED
      BY <2>1, <2>7, <2>8
  <1> HIDE DEF U
  <1>5. n \in U
    <2>1. \A k \in 0 .. n : k \in U
      BY <1>1, <1>3, <1>4, BoundedInduction
    <2> QED
      BY <1>1, <2>1
  <1>6. \A j \in 1 .. n : /\ Defined(c[n], symbols[j].string)
                          /\ ValueOf(c[n], symbols[j].string) = symbols[j].value
    BY <1>5 DEF U
  <1> QED
    BY <1>1, <1>2, <1>6

(* The lines of source kept while the text is assembled: for an offset the *)
(* line of what was assembled there last.                                  *)
Sourced(item) == item.text /\ item.stmnt.op \in Instructions \cup {"WORD"}

LastAt(items, i, o) ==
  /\ Sourced(items[i]) /\ items[i].at = o
  /\ \A j \in DOMAIN items : Sourced(items[j]) /\ items[j].at = o => j <= i

TextKept(items, table) ==
  /\ \A i \in DOMAIN items : Sourced(items[i]) => items[i].at \in DOMAIN table
  /\ \A o \in DOMAIN table : \E i \in DOMAIN items : LastAt(items, i, o) /\ table[o] = items[i].line

(* What was written and what was loaded.                                  *)
Written == out = Image \o Boot \o options.words /\ symbols = knownList

Loaded ==
  /\ labels = LoadLabels(symbols)
  /\ \E save \in BOOLEAN : pmem = LoadText(out, save).pmem /\ codeLines = LoadText(out, save).codes

(* The lines are kept until they are written, and an instruction is in the*)
(* text; what is written stays, and what is loaded is what was written.   *)
CodeInv ==
  /\ options \in Options
  /\ phase # "failed" => TextKept(placed, codeHash)
  /\ \A i \in DOMAIN placed :
       placed[i].line # NoCode /\ (placed[i].stmnt.op \in Instructions => placed[i].text)
  /\ phase = "done" => Written
  /\ loaded => phase = "done" /\ Loaded

LEMMA CodeInit == BuildInit => CodeInv
  <1> SUFFICES ASSUME BuildInit PROVE CodeInv
    OBVIOUS
  <1>1. /\ phase = "check" /\ options \in Options /\ placed = <<>> /\ codeHash = <<>> /\ loaded = FALSE
    BY DEF BuildInit, Init
  <1>2. DOMAIN placed = {} /\ DOMAIN codeHash = {}
    BY <1>1
  <1> QED
    BY <1>1, <1>2 DEF CodeInv, TextKept

(* An item more, whose line is kept if it has words of its own.            *)
LEMMA TextPlaced ==
  ASSUME NEW items \in Seq(Item), NEW item \in Item, NEW table, NEW later, TextKept(items, table),
         later = IF Sourced(item) THEN Entered(table, item.at, item.line) ELSE table
  PROVE  TextKept(Append(items, item), later)
  <1> DEFINE more == Append(items, item)
             n == Len(items)
  <1>1. /\ n \in Nat /\ DOMAIN items = 1 .. n /\ DOMAIN more = 1 .. n + 1
        /\ more[n + 1] = item /\ \A i \in 1 .. n : more[i] = items[i]
    OBVIOUS
  <1>2. \A i \in 1 .. n + 1 : i = n + 1 \/ i \in 1 .. n
    BY <1>1
  <1>3. n + 1 \in 1 .. n + 1 /\ \A i \in 1 .. n : i \in 1 .. n + 1 /\ i <= n + 1
    BY <1>1
  <1> HIDE DEF more, n
  <1>4. CASE Sourced(item)
    <2> DEFINE at == item.at
    <2>1. /\ DOMAIN later = DOMAIN table \cup {at} /\ later[at] = item.line
          /\ \A o \in DOMAIN table : o # at => later[o] = table[o]
      BY <1>4 DEF Entered
    <2>2. \A i \in DOMAIN more : Sourced(more[i]) => more[i].at \in DOMAIN later
      BY <1>1, <1>2, <2>1 DEF TextKept
    <2>3. n + 1 <= n + 1
      BY <1>1
    <2>4. LastAt(more, n + 1, at) /\ later[at] = more[n + 1].line
      <3>1. \A j \in 1 .. n + 1 : j <= n + 1
        BY <1>2, <1>3, <2>3
      <3> QED
        BY <1>1, <1>4, <2>1, <3>1 DEF LastAt
    <2>5. ASSUME NEW o \in DOMAIN table, o # at
          PROVE  \E i \in DOMAIN more : LastAt(more, i, o) /\ later[o] = more[i].line
      <3>1. PICK i \in DOMAIN items : LastAt(items, i, o) /\ table[o] = items[i].line
        BY DEF TextKept
      <3>2. LastAt(more, i, o)
        BY <1>1, <1>2, <2>5, <3>1 DEF LastAt
      <3> QED
        BY <1>1, <1>3, <2>1, <2>5, <3>1, <3>2
    <2> QED
      BY <1>1, <1>3, <2>1, <2>2, <2>4, <2>5 DEF TextKept, more
  <1>5. CASE ~Sourced(item)
    <2>1. later = table
      BY <1>5
    <2>2. \A i \in DOMAIN more : Sourced(more[i]) => more[i].at \in DOMAIN later
      BY <1>1, <1>2, <1>5, <2>1 DEF TextKept
    <2>3. ASSUME NEW o \in DOMAIN table
          PROVE  \E i \in DOMAIN more : LastAt(more, i, o) /\ later[o] = more[i].line
      <3>1. PICK i \in DOMAIN items : LastAt(items, i, o) /\ table[o] = items[i].line
        BY DEF TextKept
      <3>2. LastAt(more, i, o)
        BY <1>1, <1>2, <1>5, <3>1 DEF LastAt
      <3> QED
        BY <1>1, <1>3, <2>1, <3>1, <3>2
    <2> QED
      BY <2>1, <2>2, <2>3 DEF TextKept, more
  <1> QED
    BY <1>4, <1>5

(* A line that is assembled, or not.                                       *)
LEMMA CodePlace ==
  ASSUME PassInv, LabelInv, CodeInv, line <= Len(program), Here.ok, UNCHANGED <<program, options>>,
         phase \in {"text", "data"}, UNCHANGED loaded,
         \/ phase = "text" /\ CodeLine /\ Place(AssembleInst)
         \/ phase = "data" /\ UNCHANGED codeHash /\ Place(AssembleData)
  PROVE  CodeInv'
  <1> DEFINE known == Labelled(Truncate(BaseAddress + curr_offset))
             item(used) == [stmnt |-> S, at |-> curr_offset, used |-> used,
                            line |-> line, text |-> phase = "text"]
  <1>1. S \in StmntRec /\ line \in Nat /\ line # NoCode /\ curr_offset \in Int /\ placed \in Seq(Item)
    <2>1. line \in 1 .. Len(program) + 1 /\ Len(program) \in Nat
      BY ProgramLines DEF PassInv
    <2> QED
      BY <2>1, ReadStmnt DEF LabelInv, NoCode
  <1>2. ~loaded /\ ~loaded'
    BY DEF CodeInv
  <1>3. \/ phase' = "failed" /\ UNCHANGED placed
        \/ \E used \in Nat :
             /\ phase' = phase /\ placed' = Append(placed, item(used))
             /\ phase = "data" => S.op \notin Instructions
             /\ codeHash' = IF phase = "text" /\ S.op \in Instructions \cup {"WORD"}
                            THEN Entered(codeHash, curr_offset, line) ELSE codeHash
    <2>1. AssembleInst(S, curr_offset, known).used \in Nat
      BY <1>1, InstTakes
    <2>2. AssembleData(S, curr_offset, known).used \in Nat
      BY <1>1, DataTakes
    <2>3. AssembleData(S, curr_offset, known).ok => S.op \notin Instructions
      <3>1. S.op \in Instructions => S.op # "NONE" /\ S.op \notin {"BYTE", "WORD", "ALIGN", "ASCII", "ASCIIZ"}
        BY InstructionsOnly DEF NotInstructions, DataOps
      <3>2. S.op \in Instructions => AssembleData(S, curr_offset, known) = Fails
        BY <3>1, Zenon DEF AssembleData
      <3>3. Fails.ok = FALSE
        BY DEF Fails
      <3> QED
        BY <3>2, <3>3
    <2>4. CASE phase = "text" /\ CodeLine /\ Place(AssembleInst)
      BY <2>1, <2>4 DEF Place, CodeLine, Fail, Go
    <2>5. CASE phase = "data" /\ UNCHANGED codeHash /\ Place(AssembleData)
      BY <2>2, <2>3, <2>5 DEF Place, Fail, Go
    <2> QED
      BY <2>4, <2>5
  <1>4. CASE phase' = "failed" /\ UNCHANGED placed
    BY <1>2, <1>4 DEF CodeInv
  <1>5. ASSUME NEW used \in Nat, phase' = phase, placed' = Append(placed, item(used)),
               phase = "data" => S.op \notin Instructions,
               codeHash' = IF phase = "text" /\ S.op \in Instructions \cup {"WORD"}
                           THEN Entered(codeHash, curr_offset, line) ELSE codeHash
        PROVE  CodeInv'
    <2> DEFINE new == item(used)
    <2>1. /\ new \in Item /\ new.at = curr_offset /\ new.line = line /\ new.stmnt = S
          /\ new.text = (phase = "text")
      BY <1>1 DEF Item
    <2> HIDE DEF new
    <2>2. codeHash' = IF Sourced(new) THEN Entered(codeHash, new.at, new.line) ELSE codeHash
      BY <1>5, <2>1 DEF Sourced
    <2>3. placed' = Append(placed, new)
      BY <1>5 DEF new
    <2>4. TextKept(placed, codeHash)
      BY DEF CodeInv
    <2>5. TextKept(Append(placed, new), codeHash')
      BY <1>1, <2>1, <2>2, <2>4, TextPlaced
    <2>6. TextKept(placed', codeHash')
      BY <2>3, <2>5
    <2>7. \A i \in DOMAIN placed' :
            placed'[i].line # NoCode /\ (placed'[i].stmnt.op \in Instructions => placed'[i].text)
      <3> SUFFICES ASSUME NEW i \in DOMAIN placed'
                   PROVE  placed'[i].line # NoCode /\ (placed'[i].stmnt.op \in Instructions => placed'[i].text)
        OBVIOUS
      <3>1. (i \in DOMAIN placed /\ placed'[i] = placed[i]) \/ placed'[i] = new
        BY <1>1, <2>3
      <3>2. new.stmnt.op \in Instructions => new.text
        BY <1>5, <2>1
      <3>3. new.line # NoCode
        BY <1>1, <2>1
      <3> QED
        BY <3>1, <3>2, <3>3 DEF CodeInv
    <2> QED
      BY <1>2, <1>5, <2>6, <2>7 DEF CodeInv
  <1> QED
    BY <1>3, <1>4, <1>5

LEMMA SameImage ==
  ASSUME UNCHANGED <<memTable, codeHash, curr_offset, options>>
  PROVE  Image' = Image /\ Boot' = Boot
  <1>1. WordsWritten' = WordsWritten /\ \A i : HostWord(i)' = HostWord(i) /\ CodeAt(4 * (i - 1))' = CodeAt(4 * (i - 1))
    BY DEF WordsWritten, HostWord, CodeAt
  <1>2. Boot' = Boot
    BY DEF Boot
  <1>3. Image' = Image
    BY DEF Image, WordsWritten, HostWord, CodeAt
  <1> QED
    BY <1>2, <1>3

LEMMA CodeNext ==
  PassInv /\ LabelInv /\ CodeInv /\ [BuildNext]_<<vars, loadVars>> => CodeInv'
  <1> SUFFICES ASSUME PassInv, LabelInv, CodeInv, [BuildNext]_<<vars, loadVars>> PROVE CodeInv'
    OBVIOUS
  <1>1. CASE UNCHANGED vars /\ (Load \/ UNCHANGED loadVars)
    <2>1. /\ options' = options /\ placed' = placed /\ codeHash' = codeHash /\ phase' = phase
          /\ UNCHANGED <<memTable, codeHash, curr_offset, options, out, symbols, knownList>>
      BY <1>1 DEF vars
    <2>2. phase = "done" => Written'
      BY <2>1, SameImage DEF CodeInv, Written
    <2>3. loaded' => phase = "done" /\ Loaded'
      <3>1. CASE Load
        BY <2>1, <3>1 DEF Load, Loaded
      <3>2. CASE UNCHANGED loadVars
        BY <2>1, <3>2 DEF CodeInv, Loaded, loadVars
      <3> QED
        BY <1>1, <3>1, <3>2
    <2> QED
      BY <2>1, <2>2, <2>3 DEF CodeInv
  <1>2. ASSUME Next, UNCHANGED loadVars PROVE CodeInv'
    <2>1. loaded' = loaded /\ phase # "failed" /\ phase # "done" /\ ~loaded
      BY <1>2 DEF Next, CheckLine, TextLine, DataLine, EndPass, Backpatch, WriteExec, AtLine, CodeInv, loadVars
    <2>2. TextKept(placed, codeHash)
      BY <2>1 DEF CodeInv
    <2>3. CASE CheckLine \/ EndPass \/ Backpatch
      <3>1. UNCHANGED <<options, placed, codeHash>> /\ phase' # "done"
        BY <2>1, <2>3 DEF CheckLine, EndPass, Backpatch, Go, Fail, AtLine
      <3> QED
        BY <2>1, <2>2, <3>1 DEF CodeInv
    <2>4. CASE WriteExec
      <3>1. /\ UNCHANGED <<options, placed, codeHash>>
            /\ UNCHANGED <<memTable, codeHash, curr_offset, options, knownList>>
            /\ phase' = "failed" \/ (out' = Image \o Boot \o options.words /\ symbols' = knownList)
        BY <2>4 DEF WriteExec
      <3>2. phase' # "failed" => Written'
        BY <3>1, SameImage DEF Written
      <3> QED
        BY <2>1, <2>2, <3>1, <3>2 DEF CodeInv
    <2>5. CASE TextLine \/ DataLine
      <3>1. line <= Len(program) /\ phase \in {"text", "data"} /\ UNCHANGED <<program, options>>
        BY <2>5, LineRead DEF TextLine, DataLine
      <3>2. CASE UNCHANGED <<placed, codeHash>> /\ phase' # "done"
        BY <2>1, <2>2, <3>1, <3>2 DEF CodeInv
      <3>3. CASE Here.ok /\ \/ phase = "text" /\ CodeLine /\ Place(AssembleInst)
                            \/ phase = "data" /\ UNCHANGED codeHash /\ Place(AssembleData)
        BY <2>1, <3>1, <3>3, CodePlace
      <3> QED
        BY <2>1, <2>5, <3>1, <3>2, <3>3 DEF TextLine, DataLine, Unparsed, Pass, AtLine, Fail, Go
    <2> QED
      BY <1>2, <2>3, <2>4, <2>5 DEF Next
  <1> QED
    BY <1>1, <1>2 DEF BuildNext, Assemble, Load, vars, loadVars
-----------------------------------------------------------------------------
(* A file put behind another.                                              *)
LEMMA JoinedFile ==
  ASSUME NEW V, NEW s \in Seq(V), NEW t \in Seq(V), FileOK(s), FileOK(t)
  PROVE  /\ s \o t \in Seq(V) /\ FileOK(s \o t) /\ Len(s \o t) = Len(s) + Len(t)
         /\ \A i \in 1 .. Len(s) : (s \o t)[i] = s[i]
  <1> DEFINE m == Len(s)
             n == Len(t)
             u == s \o t
  <1>1. m \in Nat /\ n \in Nat /\ DOMAIN s = 1 .. m /\ DOMAIN t = 1 .. n
    OBVIOUS
  <1>2. /\ u \in Seq(V) /\ Len(u) = m + n /\ DOMAIN u = 1 .. m + n
        /\ \A i \in 1 .. m + n : u[i] = IF i <= m THEN s[i] ELSE t[i - m]
    OBVIOUS
  <1> HIDE DEF m, n, u
  <1>3. ASSUME NEW k \in 1 .. m + n
        PROVE  u[k].code \in Int /\ (u[k].addr \in Word \/ u[k].addr = Plus)
    <2>1. CASE k <= m
      <3>1. k \in DOMAIN s /\ u[k] = s[k]
        BY <1>1, <1>2, <2>1
      <3> QED
        BY <3>1 DEF FileOK
    <2>2. CASE ~(k <= m)
      <3>1. k - m \in DOMAIN t /\ u[k] = t[k - m]
        BY <1>1, <1>2, <2>2
      <3> QED
        BY <3>1 DEF FileOK
    <2> QED
      BY <2>1, <2>2
  <1>4. FileOK(u)
    <2>1. Len(u) \in Nat /\ DOMAIN u = 1 .. Len(u)
      BY <1>1, <1>2
    <2> QED
      BY <1>2, <1>3, <2>1 DEF FileOK
  <1>5. \A i \in 1 .. m : u[i] = s[i]
    BY <1>1, <1>2
  <1> QED
    BY <1>2, <1>4, <1>5 DEF m, n, u

(* What is in the file, when something was assembled and it fits.          *)
LEMMA FileBuilt ==
  ASSUME LabelInv, CodeInv, phase = "done", curr_offset > 0, curr_offset <= MaxBytes
  PROVE  /\ ImageFirst
         /\ \A i \in 1 .. WordsWritten :
              out[i].word = HostWord(i - 1) /\ out[i].code = CodeAt(4 * (i - 1))
  <1> DEFINE w == WordsWritten
             FromRom == [addr : Int, word : Seq(Int), code : Int]
             V == {Image[i] : i \in 1 .. w} \cup {FileLine(ResetPc, WordOf(BaseAddress), BootIt)} \cup FromRom
  <1>1. /\ curr_offset \in Int /\ MaxBytes \in Nat /\ MaxBytes % 4 = 0 /\ MaxBytes <= WordSize
        /\ WordSize \in Nat /\ BaseAddress \in Word
    BY AsmAssumption, WordRange DEF LabelInv
  <1>2. w \in Nat /\ w >= 1 /\ 4 * w <= MaxBytes
    BY <1>1 DEF WordsWritten
  <1>3. \A o \in DOMAIN codeHash : codeHash[o] \in Int
    <2> SUFFICES ASSUME NEW o \in DOMAIN codeHash PROVE codeHash[o] \in Int
      OBVIOUS
    <2>1. PICK i \in DOMAIN placed : codeHash[o] = placed[i].line
      BY DEF CodeInv, TextKept
    <2>2. placed[i] \in Item
      BY DEF LabelInv
    <2> QED
      BY <2>1, <2>2 DEF Item
  <1>4. \A x : CodeAt(x) \in Int
    BY <1>3 DEF CodeAt, NoCode
  <1>5. /\ Image = [i \in 1 .. w |-> Image[i]]
        /\ \A i \in 1 .. w : Image[i] = FileLine(IF i = 1 THEN BaseAddress ELSE Plus, HostWord(i - 1), CodeAt(4 * (i - 1)))
    BY DEF Image
  <1>6. \A i \in 1 .. w : /\ Image[i].addr = (IF i = 1 THEN BaseAddress ELSE Plus)
                          /\ Image[i].word = HostWord(i - 1)
                          /\ Image[i].code = CodeAt(4 * (i - 1))
    BY <1>5 DEF FileLine
  <1> DEFINE img == Image
  <1>7. img = [i \in 1 .. w |-> img[i]]
    BY <1>5
  <1>8. img \in Seq(V) /\ Len(img) = w /\ DOMAIN img = 1 .. w
    <2>1. \A i \in 1 .. w : img[i] \in V
      OBVIOUS
    <2> HIDE DEF img, w, V
    <2> QED
      BY <1>2, <1>7, <2>1
  <1>9. FileOK(img)
    <2>1. \A i \in 1 .. w : img[i].code \in Int /\ (img[i].addr \in Word \/ img[i].addr = Plus)
      BY <1>1, <1>4, <1>6
    <2> HIDE DEF img, w, V
    <2> QED
      BY <1>2, <1>8, <2>1 DEF FileOK
  <1>10. Boot \in Seq(V) /\ FileOK(Boot)
    <2> DEFINE b == FileLine(ResetPc, WordOf(BaseAddress), BootIt)
    <2>1. b.addr \in Word /\ b.code \in Int /\ b \in V
      BY WordRange DEF FileLine, ResetPc, BootIt, Word
    <2>2. Boot = <<>> \/ Boot = <<b>>
      BY DEF Boot
    <2> HIDE DEF b, V
    <2>3. <<>> \in Seq(V) /\ FileOK(<<>>)
      BY DEF FileOK
    <2>4. <<b>> \in Seq(V) /\ FileOK(<<b>>)
      <3>1. <<b>> \in Seq(V) /\ Len(<<b>>) = 1 /\ DOMAIN <<b>> = 1 .. 1 /\ <<b>>[1] = b
        BY <2>1
      <3>2. \A k \in 1 .. 1 : <<b>>[k] = b
        BY <3>1
      <3> QED
        BY <2>1, <3>1, <3>2 DEF FileOK
    <2> QED
      BY <2>2, <2>3, <2>4
  <1> DEFINE ws == options.words
  <1>11. ws \in Seq(V) /\ FileOK(ws)
    <2>1. IsFile(options.words)
      BY SourceAssumption DEF CodeInv
    <2>2. ws \in Seq(FromRom) /\ \A i \in DOMAIN ws : ws[i].addr \in Word \/ ws[i].addr = Plus
      BY <2>1 DEF IsFile
    <2>3. FromRom \subseteq V /\ \A x \in FromRom : x.code \in Int
      OBVIOUS
    <2> HIDE DEF ws, V, FromRom
    <2>4. /\ ws \in Seq(V) /\ Len(ws) \in Nat /\ DOMAIN ws = 1 .. Len(ws)
          /\ \A i \in 1 .. Len(ws) : ws[i] \in FromRom
      BY <2>2, <2>3
    <2> QED
      BY <2>2, <2>3, <2>4 DEF FileOK
  <1>12. out = (img \o Boot) \o ws
    BY DEF CodeInv, Written
  <1> HIDE DEF V, img, ws, w
  <1> DEFINE h == img \o Boot
  <1>13. /\ h \in Seq(V) /\ FileOK(h) /\ Len(h) = Len(img) + Len(Boot)
         /\ \A i \in 1 .. Len(img) : h[i] = img[i]
    BY <1>8, <1>9, <1>10, JoinedFile
  <1> HIDE DEF h
  <1>14. /\ FileOK(h \o ws) /\ Len(h \o ws) = Len(h) + Len(ws)
         /\ \A i \in 1 .. Len(h) : (h \o ws)[i] = h[i]
    BY <1>11, <1>13, JoinedFile
  <1>15. out = h \o ws /\ Len(Boot) \in Nat /\ Len(ws) \in Nat
    BY <1>10, <1>11, <1>12 DEF h, FileOK
  <1>16. FileOK(out) /\ w \in 1 .. Len(out) /\ 4 * w <= WordSize
    BY <1>1, <1>2, <1>8, <1>13, <1>14, <1>15
  <1>17. \A i \in 1 .. w : out[i] = Image[i]
    <2> SUFFICES ASSUME NEW i \in 1 .. w PROVE out[i] = img[i]
      BY DEF img
    <2>1. i \in 1 .. Len(img) /\ i \in 1 .. Len(h)
      BY <1>2, <1>8, <1>13, <1>15
    <2> QED
      BY <1>13, <1>14, <1>15, <2>1
  <1>18. 1 \in 1 .. w /\ \A i \in 2 .. w : i \in 1 .. w /\ i # 1
    BY <1>2
  <1>19. out[1].addr = BaseAddress /\ \A i \in 2 .. w : out[i].addr = Plus
    BY <1>6, <1>17, <1>18
  <1> QED
    BY <1>6, <1>16, <1>17, <1>19 DEF ImageFirst, w

(* An item lies before what the assembler reached in the end.              *)
LEMMA ItemEnds ==
  ASSUME LabelInv, Orderly, NEW d \in DOMAIN placed
  PROVE  /\ placed[d].at \in Int /\ placed[d].used \in Nat /\ placed[d].line \in Nat /\ curr_offset \in Int
         /\ placed[d].at >= 0
         /\ placed[d].at + placed[d].used <= curr_offset
         /\ \A j \in DOMAIN placed : d < j => placed[d].at + placed[d].used <= placed[j].at
         /\ \A j \in DOMAIN placed : j < d => placed[j].at <= placed[d].at
  <1> DEFINE n == Len(placed)
  <1>1. /\ n \in Nat /\ DOMAIN placed = 1 .. n /\ d \in 1 .. n /\ curr_offset \in Int
        /\ \A j \in 1 .. n : placed[j].at \in Int /\ placed[j].used \in Nat /\ placed[j].line \in Nat
    <2>1. \A x \in Item : x.at \in Int /\ x.used \in Nat /\ x.line \in Nat
      BY DEF Item
    <2> QED
      BY <2>1 DEF LabelInv
  <1>2. /\ \A i \in DOMAIN placed : Placed(placed[i])
        /\ \A i, j \in DOMAIN placed : i < j => placed[i].at + placed[i].used <= placed[j].at
    BY OrderlySane DEF Sane, Before
  <1>3. placed[d].at >= 0
    BY <1>2 DEF Placed, InMemory
  <1>4. placed[n].at + placed[n].used <= curr_offset /\ n \in 1 .. n
    <2>1. n \in DOMAIN placed
      BY <1>1
    <2>2. CASE NoAddr
      <3>1. placed[n].at + placed[n].used = curr_offset
        BY <2>1, <2>2 DEF LabelInv, Adjoining
      <3> QED
        BY <1>1, <2>1, <3>1
    <2>3. CASE InOrder
      BY <1>1, <2>1, <2>3 DEF InOrder
    <2> QED
      BY <2>2, <2>3 DEF Orderly
  <1>5. placed[d].at + placed[d].used <= curr_offset
    <2>1. CASE d = n
      BY <1>4, <2>1
    <2>2. CASE d < n
      <3>1. placed[d].at + placed[d].used <= placed[n].at
        BY <1>1, <1>2, <1>4, <2>2
      <3>2. /\ placed[n].at \in Int /\ placed[n].used \in Nat
            /\ placed[d].at \in Int /\ placed[d].used \in Nat
        BY <1>1, <1>4
      <3>3. placed[n].at + placed[n].used <= curr_offset /\ curr_offset \in Int
        BY <1>1, <1>4
      <3> DEFINE a == placed[n].at
                 b == placed[n].used
                 c == placed[d].at
                 e == placed[d].used
      <3>4. a \in Int /\ b \in Nat /\ c \in Int /\ e \in Nat /\ c + e <= a /\ a + b <= curr_offset
        BY <3>1, <3>2, <3>3
      <3> HIDE DEF a, b, c, e
      <3>5. c + e <= curr_offset
        BY <3>3, <3>4
      <3> QED
        BY <3>5 DEF c, e
    <2> QED
      BY <1>1, <2>1, <2>2
  <1>6. ASSUME NEW j \in DOMAIN placed, j < d PROVE placed[j].at <= placed[d].at
    <2>1. placed[j].at + placed[j].used <= placed[d].at
      BY <1>1, <1>2, <1>6
    <2>2. /\ placed[j].at \in Int /\ placed[j].used \in Nat
          /\ placed[d].at \in Int
      BY <1>1, <1>6
    <2> QED
      BY <2>1, <2>2
  <1> QED
    BY <1>1, <1>2, <1>3, <1>5, <1>6

(* The first word of an instruction has its line, the others have none.    *)
LEMMA OwnLines ==
  ASSUME LabelInv, CodeInv, phase = "done", Orderly, NEW d \in DOMAIN placed,
         placed[d].stmnt.op \in Instructions, placed[d].used > 0
  PROVE  /\ CodeAt(placed[d].at) = placed[d].line
         /\ \A o \in Int : o > placed[d].at /\ o < placed[d].at + placed[d].used => CodeAt(o) = NoCode
  <1> DEFINE item == placed[d]
  <1>1. /\ item.at \in Int /\ item.used \in Nat
        /\ \A j \in DOMAIN placed : d < j => item.at + item.used <= placed[j].at
        /\ \A j \in DOMAIN placed : j < d => placed[j].at <= item.at
    BY ItemEnds
  <1>2. /\ Sourced(item) /\ item.at \in DOMAIN codeHash
        /\ \A o \in DOMAIN codeHash : \E i \in DOMAIN placed : LastAt(placed, i, o) /\ codeHash[o] = placed[i].line
    BY DEF CodeInv, TextKept, Sourced
  <1>3. DOMAIN placed \subseteq Int
    BY DEF LabelInv
  <1>4. CodeAt(item.at) = item.line
    <2>1. PICK i \in DOMAIN placed : LastAt(placed, i, item.at) /\ codeHash[item.at] = placed[i].line
      BY <1>2
    <2>2. d <= i /\ placed[i].at = item.at
      BY <1>2, <2>1 DEF LastAt
    <2>3. ~(d < i)
      BY <1>1, <2>2
    <2>4. i = d
      BY <1>3, <2>2, <2>3
    <2> QED
      BY <1>2, <2>1, <2>4 DEF CodeAt
  <1>5. ASSUME NEW o \in Int, o > item.at, o < item.at + item.used PROVE CodeAt(o) = NoCode
    <2> SUFFICES ASSUME o \in DOMAIN codeHash PROVE FALSE
      BY DEF CodeAt
    <2>1. PICK i \in DOMAIN placed : placed[i].at = o
      BY <1>2 DEF LastAt
    <2>2. ~(d < i) /\ ~(i < d) /\ i # d
      BY <1>1, <1>5, <2>1
    <2> QED
      BY <1>3, <2>2
  <1> QED
    BY <1>4, <1>5

(* The words of an item, and its lines.                                    *)
LEMMA ItemLoaded ==
  ASSUME LabelInv, CodeInv, loaded, Orderly, Loadable, NEW d \in DOMAIN placed, placed[d].used > 0
  PROVE  WordsLoaded(placed[d]) /\ LinesLoaded(placed[d])
  <1> DEFINE item == placed[d]
             w == WordsWritten
  <1>1. /\ item.at \in Int /\ item.used \in Nat /\ item.line \in Nat /\ curr_offset \in Int /\ item.at >= 0
        /\ item.at + item.used <= curr_offset /\ item.used > 0 /\ curr_offset > 0
    BY ItemEnds
  <1>2. curr_offset <= MaxBytes /\ phase = "done"
    BY DEF Loadable, CodeInv
  <1>3. /\ ImageFirst
        /\ \A i \in 1 .. w : out[i].word = HostWord(i - 1) /\ out[i].code = CodeAt(4 * (i - 1))
    BY <1>1, <1>2, FileBuilt
  <1>4. PICK save \in BOOLEAN : pmem = LoadText(out, save).pmem /\ codeLines = LoadText(out, save).codes
    BY DEF CodeInv, Loaded
  <1>5. PICK p : /\ \A i \in 1 .. w :
                      /\ There(LoadText(out, save), i)
                      /\ save => /\ Shown(LoadText(out, save), i, p[i])
                                 /\ p[i] = IF out[i].code = NoCode THEN p[i - 1] ELSE out[i].code
                 /\ ~save => LoadText(out, save).codes = <<>>
    <2>1. \E p : /\ \A i \in 1 .. WordsWritten :
                      /\ There(LoadText(out, save), i)
                      /\ save => /\ Shown(LoadText(out, save), i, p[i])
                                 /\ p[i] = IF out[i].code = NoCode THEN p[i - 1] ELSE out[i].code
                 /\ ~save => LoadText(out, save).codes = <<>>
      BY <1>3, LinesLoad
    <2> QED
      BY <2>1, Zenon
  <1>6. BaseAddress \in Int /\ w \in Int /\ w = (curr_offset + 3) \div 4
    BY <1>1, AsmAssumption, WordRange DEF Word, WordsWritten
  <1> HIDE DEF item
  <1>7. WordsLoaded(item)
    <2> SUFFICES ASSUME NEW a \in Room(item)
                 PROVE  LET addr == Truncate(BaseAddress + Lowest(a))
                        IN  addr \in DOMAIN pmem /\ pmem[addr] = HostWord(a \div 4)
      BY DEF WordsLoaded
    <2> DEFINE i == (a \div 4) + 1
    <2>1. a \in Int /\ a >= 0 /\ a < curr_offset
      BY <1>1 DEF Room
    <2>2. i \in 1 .. w /\ i - 1 = a \div 4 /\ 4 * (i - 1) = Lowest(a)
      BY <1>1, <1>6, <2>1 DEF Lowest
    <2> HIDE DEF i, w
    <2>3. FileAddress(i) = Truncate(BaseAddress + Lowest(a))
      BY <1>3, <2>2, ImageAddress DEF w
    <2>4. There(LoadText(out, save), i) /\ out[i].word = HostWord(a \div 4)
      BY <1>3, <1>5, <2>2
    <2> QED
      BY <1>4, <2>3, <2>4 DEF There
  <1>8. LinesLoaded(item)
    <2> DEFINE m == item.used \div 4
               first == (item.at \div 4) + 1
    <2> SUFFICES ASSUME codeLines # <<>>, item.stmnt.op \in Instructions, NEW k \in 0 .. m - 1
                 PROVE  codeLines[Truncate(BaseAddress + item.at + 4 * k)] =
                          CodeLine32(item.line, IF k = 0 THEN "LITERAL" ELSE "SYNTHETIC")
      BY DEF LinesLoaded
    <2>1. save
      BY <1>4, <1>5
    <2>2. item.text /\ item.at % 4 = 0 /\ item.line # NoCode
      <3>1. Placed(item) /\ item.text /\ item.line # NoCode
        BY DEF Orderly, Items, CodeInv, item
      <3> QED
        BY <1>1, <3>1 DEF Placed, InstAstray
    <2>3. m \in Nat /\ 4 * m <= item.used /\ first \in Int /\ 4 * (first - 1) = item.at /\ k \in Int
      BY <1>1, <2>2
    <2> HIDE DEF m, first
    <2>4. ASSUME NEW j \in 0 .. m - 1
          PROVE  /\ first + j \in 1 .. w /\ 4 * ((first + j) - 1) = item.at + 4 * j
                 /\ out[first + j].code = IF j = 0 THEN item.line ELSE NoCode
      <3>1. first + j \in 1 .. w /\ 4 * ((first + j) - 1) = item.at + 4 * j
        <4>1. j \in Int /\ j >= 0 /\ 4 * ((first + j) - 1) = item.at + 4 * j
          BY <1>1, <2>3
        <4>2. 4 * ((first + j) - 1) < curr_offset
          BY <1>1, <2>3, <4>1
        <4>3. (first + j) - 1 < w
          BY <1>1, <1>6, <2>3, <4>1, <4>2
        <4> QED
          BY <1>1, <1>6, <2>3, <4>1, <4>3
      <3>2. out[first + j].code = CodeAt(item.at + 4 * j)
        BY <1>3, <3>1
      <3>3. /\ CodeAt(item.at) = item.line
            /\ \A o \in Int : o > item.at /\ o < item.at + item.used => CodeAt(o) = NoCode
        BY <1>1, <1>2, OwnLines DEF item
      <3>4. CASE j = 0
        <4>1. item.at + 4 * j = item.at
          BY <1>1, <3>4
        <4> QED
          BY <3>1, <3>2, <3>3, <3>4, <4>1
      <3>5. CASE j # 0
        <4>1. item.at + 4 * j \in Int /\ item.at + 4 * j > item.at /\ item.at + 4 * j < item.at + item.used
          BY <1>1, <2>3, <3>5
        <4> QED
          BY <3>1, <3>2, <3>3, <3>5, <4>1
      <3> QED
        BY <3>4, <3>5
    <2> DEFINE V == {j \in 0 .. m - 1 : p[first + j] = item.line}
    <2>5. m - 1 \in Nat /\ 0 \in 0 .. m - 1
      BY <2>3
    <2>6. 0 \in V
      <3>1. first + 0 \in 1 .. w /\ out[first + 0].code = item.line
        BY <2>4, <2>5
      <3>2. p[first + 0] = item.line
        BY <1>5, <2>1, <2>2, <3>1
      <3> QED
        BY <2>5, <3>2
    <2>7. ASSUME NEW j \in 1 .. m - 1, j - 1 \in V PROVE j \in V
      <3>1. j \in 0 .. m - 1 /\ j # 0 /\ (first + j) - 1 = first + (j - 1)
        BY <2>3
      <3>2. first + j \in 1 .. w /\ out[first + j].code = NoCode
        BY <2>4, <3>1
      <3>3. p[first + j] = p[(first + j) - 1]
        BY <1>5, <2>1, <3>2
      <3> QED
        BY <2>7, <3>1, <3>3
    <2> HIDE DEF V
    <2>8. k \in V
      BY <2>5, <2>6, <2>7, BoundedInduction
    <2> DEFINE i == first + k
    <2>9. i \in 1 .. w /\ 4 * (i - 1) = item.at + 4 * k /\ out[i].code = (IF k = 0 THEN item.line ELSE NoCode)
      <3>1. first + k \in 1 .. w /\ 4 * ((first + k) - 1) = item.at + 4 * k
        BY <2>4
      <3>2. out[first + k].code = (IF k = 0 THEN item.line ELSE NoCode)
        BY <2>4
      <3> QED
        BY <3>1, <3>2
    <2>10. p[i] = item.line
      BY <2>8 DEF V
    <2> HIDE DEF i
    <2>11. FileAddress(i) = Truncate(BaseAddress + item.at + 4 * k)
      <3>1. FileAddress(i) = Truncate(BaseAddress + 4 * (i - 1))
        BY <1>3, <2>9, ImageAddress
      <3>2. BaseAddress + 4 * (i - 1) = BaseAddress + item.at + 4 * k
        BY <1>1, <1>6, <2>3, <2>9
      <3> QED
        BY <3>1, <3>2
    <2>12. codeLines[FileAddress(i)] = CodeLine32(p[i], IF out[i].code = NoCode THEN "SYNTHETIC" ELSE "LITERAL")
      BY <1>4, <1>5, <2>1, <2>9 DEF Shown
    <2>13. out[i].code = NoCode <=> k # 0
      BY <2>2, <2>9
    <2> QED
      BY <2>10, <2>11, <2>12, <2>13
  <1> QED
    BY <1>7, <1>8 DEF item

(* What is loaded is what was assembled: ant_load_labels finds every label *)
(* with its value, and ant_load_text puts every word where the program has *)
(* it and shows for it the line it was made from, if the words are mapped  *)
(* and nothing behind them in the file goes to the same place.             *)
THEOREM LoadsAsBuilt == Build => []LoadedAsBuilt
  <1>1. ASSUME LabelInv, CodeInv PROVE LoadedAsBuilt
    <2>1. ASSUME loaded PROVE LabelsLoaded
      <3> SUFFICES ASSUME NEW i \in DOMAIN knownList
                   PROVE  LET name == knownList[i].string
                          IN  Defined(labels, name) /\ ValueOf(labels, name) = Final(name)
        BY DEF LabelsLoaded
      <3>1. symbols = knownList /\ labels = LoadLabels(symbols) /\ knownList \in SymbolLists
        BY <1>1, <2>1 DEF CodeInv, Written, Loaded, LabelInv
      <3>2. ValueOf(knownList, knownList[i].string) = knownList[i].value
        BY <3>1, Found
      <3> QED
        BY <3>1, <3>2, LabelsLoad DEF Final
    <2>2. ASSUME loaded, Orderly, Loadable, NEW item \in Items
          PROVE  WordsLoaded(item) /\ LinesLoaded(item)
      <3>1. PICK d \in DOMAIN placed : item = placed[d]
        BY DEF Items
      <3>2. CASE item.used > 0
        BY <1>1, <2>2, <3>1, <3>2, ItemLoaded
      <3>3. CASE ~(item.used > 0)
        <4>1. item.at \in Int /\ item.used = 0
          BY <1>1, <2>2, <3>1, <3>3, ItemEnds
        <4>2. Room(item) = {} /\ 0 .. (item.used \div 4) - 1 = {}
          BY <4>1 DEF Room
        <4> QED
          BY <4>2 DEF WordsLoaded, LinesLoaded
      <3> QED
        BY <3>2, <3>3
    <2> QED
      BY <2>1, <2>2 DEF LoadedAsBuilt
  <1>2. BuildInit => CodeInv
    BY CodeInit
  <1>3. PassInv /\ LabelInv /\ CodeInv /\ [BuildNext]_<<vars, loadVars>> => CodeInv'
    BY CodeNext
  <1> QED
    BY <1>1, <1>2, <1>3, LabelsMeetItems, PTL DEF Build
=============================================================================
