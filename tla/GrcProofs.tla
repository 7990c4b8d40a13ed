------------------------------ MODULE GrcProofs ------------------------------
(***************************************************************************)
(* What GrcEdits.tla keeps to, whatever the blocks, the expressions, the   *)
(* files and the edits are.                                                *)
(***************************************************************************)
EXTENDS GrcEdits, FiniteSetTheorems, SequenceTheorems, WellFoundedInduction, TLAPS

-----------------------------------------------------------------------------
(* Loops.                                                                  *)

LEMMA NatLeast ==
  ASSUME NEW S, S \subseteq Nat, S # {}
  PROVE  \E x \in S : \A y \in S : x <= y
PROOF
<1>1. PICK x \in S : \A y \in S : ~(<<y, x>> \in OpToRel(<, Nat))
  BY NatLessThanWellFounded, WFMin
<1>2. \A y \in S : <<y, x>> \in Nat \X Nat /\ <<y, x>>[1] = y /\ <<y, x>>[2] = x
  OBVIOUS
<1>3. \A y \in S : ~(y < x)
  <2> SUFFICES ASSUME NEW y \in S, y < x PROVE FALSE
    OBVIOUS
  <2>1. <<y, x>>[1] < <<y, x>>[2]
    BY <1>2
  <2> QED
    BY <1>1, <1>2, <2>1, Zenon DEF OpToRel
<1> QED
  BY <1>3

\* what holds before a loop and is kept by each of its rounds holds throughout:
\* after round i, f[i] is in S[i]
LEMMA LoopKeeps ==
  ASSUME NEW n \in Nat, NEW S, NEW f, f[0] \in S[0],
         \A i \in 1..n : f[i - 1] \in S[i - 1] => f[i] \in S[i]
  PROVE  \A i \in 0..n : f[i] \in S[i]
PROOF
<1> DEFINE Bad == {i \in 0..n : f[i] \notin S[i]}
<1> SUFFICES ASSUME Bad # {} PROVE FALSE
  OBVIOUS
<1>1. PICK i \in Bad : \A j \in Bad : i <= j
  <2>1. Bad \subseteq Nat
    OBVIOUS
  <2> HIDE DEF Bad
  <2> QED BY <2>1, NatLeast
<1>2. i \in 1..n /\ i - 1 \in 0..n /\ ~(i <= i - 1)
  BY <1>1
<1>3. f[i - 1] \in S[i - 1]
  BY <1>1, <1>2
<1> QED BY <1>1, <1>2, <1>3

\* the loop from first, through functions between the sets S[i]
Runs(f, n, S, first, F) ==
  /\ f = [i \in 0..n |-> f[i]] /\ f[0] = first
  /\ \A i \in 1..n : f[i] = F[i][f[i - 1]]
  /\ \A i \in 0..n : f[i] \in S[i]

LEMMA LoopRuns ==
  ASSUME NEW n \in Nat, NEW S, NEW first \in S[0], NEW F,
         \A i \in 1..n : \A x \in S[i - 1] : F[i][x] \in S[i]
  PROVE  \E f : Runs(f, n, S, first, F)
PROOF
<1> DEFINE Run(k, f) == f = [i \in 0..k |-> IF i = 0 THEN first ELSE F[i][f[i - 1]]]
           Bad == {k \in 0..n : ~\E f : Run(k, f)}
<1>1. Bad = {}
  <2> SUFFICES ASSUME Bad # {} PROVE FALSE
    OBVIOUS
  <2>1. PICK k \in Bad : \A j \in Bad : k <= j
    <3>1. Bad \subseteq Nat
      OBVIOUS
    <3> HIDE DEF Bad
    <3> QED BY <3>1, NatLeast
  <2>2. CASE k = 0
    <3> DEFINE f == [i \in 0..0 |-> first]
    <3>1. f = [i \in 0..0 |-> IF i = 0 THEN first ELSE F[i][f[i - 1]]]
      OBVIOUS
    <3>2. Run(0, f)
      BY <3>1
    <3> QED BY <2>1, <2>2, <3>2
  <2>3. CASE k # 0
    <3>1. k \in 1..n /\ k - 1 \in 0..n /\ ~(k <= k - 1)
      BY <2>1, <2>3
    <3>2. PICK f : Run(k - 1, f)
      BY <2>1, <3>1
    <3> DEFINE g == [i \in 0..k |-> IF i = k THEN F[k][f[k - 1]] ELSE f[i]]
    <3>3. \A i \in 0..k : g[i] = IF i = 0 THEN first ELSE F[i][g[i - 1]]
      <4> SUFFICES ASSUME NEW i \in 0..k
                   PROVE  g[i] = IF i = 0 THEN first ELSE F[i][g[i - 1]]
        OBVIOUS
      <4>1. \A j \in 0..(k - 1) : j \in 0..k /\ j # k /\ g[j] = f[j]
        BY <3>1
      <4>2. CASE i = k
        <5>1. g[i] = F[k][f[k - 1]] /\ k - 1 \in 0..(k - 1)
          BY <3>1, <4>2
        <5>2. g[k - 1] = f[k - 1]
          BY <4>1, <5>1
        <5> HIDE DEF g
        <5> QED BY <3>1, <4>2, <5>1, <5>2
      <4>3. CASE i # k
        <5>1. i \in 0..(k - 1) /\ (i = 0 \/ i - 1 \in 0..(k - 1))
          BY <3>1, <4>3
        <5>2. f[i] = IF i = 0 THEN first ELSE F[i][f[i - 1]]
          BY <3>2, <5>1
        <5> HIDE DEF g
        <5> QED BY <4>1, <5>1, <5>2
      <4> QED BY <4>2, <4>3
    <3>4. Run(k, g)
      <4>1. g = [i \in 0..k |-> g[i]]
        OBVIOUS
      <4> HIDE DEF g
      <4> QED BY <3>3, <4>1
    <3> QED BY <2>1, <3>4
  <2> QED BY <2>2, <2>3
<1>2. PICK f : Run(n, f)
  BY <1>1
<1>3. \A i \in 0..n : f[i] \in S[i]
  <2>1. f[0] \in S[0] /\ \A i \in 1..n : f[i] = F[i][f[i - 1]]
    BY <1>2
  <2> QED BY <2>1, LoopKeeps
<1>4. f = [i \in 0..n |-> f[i]] /\ f[0] = first /\ \A i \in 1..n : f[i] = F[i][f[i - 1]]
  BY <1>2
<1> QED BY <1>3, <1>4 DEF Runs

LEMMA RunsFacts ==
  ASSUME NEW n \in Nat, NEW S, NEW first, NEW F, NEW f, Runs(f, n, S, first, F)
  PROVE  \A i \in 0..n : \/ i = 0 /\ f[i] = first
                         \/ /\ i # 0 /\ i \in 1..n /\ f[i] = F[i][f[i - 1]]
                            /\ f[i - 1] \in S[i - 1]
PROOF
<1>1. /\ f[0] = first /\ \A i \in 1..n : f[i] = F[i][f[i - 1]]
      /\ \A i \in 0..n : f[i] \in S[i]
  BY DEF Runs
<1>2. \A i \in 0..n : i = 0 \/ (i # 0 /\ i \in 1..n /\ i - 1 \in 0..n)
  OBVIOUS
<1> QED BY <1>1, <1>2

-----------------------------------------------------------------------------
(* Lists.                                                                  *)

\* rounds 1..i have kept what they found
Kept(list, gone, i, kept) ==
  /\ Len(kept) <= i /\ IsInjective(kept)
  /\ ToSet(kept) = {list[j] : j \in 1..i} \ gone
  /\ (\A j \in 1..i : list[j] \notin gone) => kept = SubSeq(list, 1, i)

LEMMA Appended ==
  ASSUME NEW T, NEW s \in Seq(T), NEW x \in T
  PROVE  /\ Append(s, x) \in Seq(T) /\ Len(Append(s, x)) = Len(s) + 1
         /\ ToSet(Append(s, x)) = ToSet(s) \cup {x}
         /\ IsInjective(s) /\ x \notin ToSet(s) => IsInjective(Append(s, x))
PROOF
<1> DEFINE a == Append(s, x)
<1>1. /\ a \in Seq(T) /\ Len(a) = Len(s) + 1 /\ a[Len(s) + 1] = x
      /\ \A i \in 1..Len(s) : a[i] = s[i]
  BY AppendProperties
<1> HIDE DEF a
<1>2. /\ DOMAIN s = 1..Len(s) /\ Len(s) \in Nat
      /\ DOMAIN a = 1..Len(a) /\ DOMAIN a = DOMAIN s \cup {Len(s) + 1} /\ Len(s) + 1 \notin DOMAIN s
  BY <1>1
<1>3. ToSet(a) = ToSet(s) \cup {x}
  BY <1>1, <1>2 DEF ToSet
<1>4. IsInjective(s) /\ x \notin ToSet(s) => IsInjective(a)
  BY <1>1, <1>2 DEF IsInjective, ToSet
<1> QED BY <1>1, <1>3, <1>4 DEF a

LEMMA NarrowList ==
  ASSUME NEW T, NEW U, NEW s \in Seq(T), ToSet(s) \subseteq U
  PROVE  s \in Seq(U)
PROOF
<1>1. Len(s) \in Nat /\ s \in [1..Len(s) -> T] /\ DOMAIN s = 1..Len(s)
  OBVIOUS
<1>2. \A i \in 1..Len(s) : s[i] \in U
  BY <1>1 DEF ToSet
<1>3. s \in [1..Len(s) -> U]
  BY <1>1, <1>2
<1> QED BY <1>1, <1>3

LEMMA WithoutFacts ==
  ASSUME NEW T, NEW list \in Seq(T), IsInjective(list), NEW gone
  PROVE  /\ Without(list, gone) \in Seq(T) /\ Len(Without(list, gone)) <= Len(list)
         /\ IsInjective(Without(list, gone))
         /\ ToSet(Without(list, gone)) = ToSet(list) \ gone
         /\ gone \cap ToSet(list) = {} => Without(list, gone) = list
PROOF
<1> DEFINE n == Len(list)
           step(kept, i) == IF list[i] \in gone THEN kept ELSE Append(kept, list[i])
           S == [i \in 0..n |-> {kept \in Seq(T) : Kept(list, gone, i, kept)}]
           F == [i \in 1..n |-> [kept \in Seq(T) |-> step(kept, i)]]
           IsRun(f) == f = [i \in 0..n |-> IF i = 0 THEN << >> ELSE step(f[i - 1], i)]
           after == CHOOSE f : IsRun(f)
<1>1. n \in Nat
  OBVIOUS
<1>2. << >> \in S[0]
  <2>1. << >> \in Seq(T) /\ Len(<< >>) = 0 /\ SubSeq(list, 1, 0) = << >>
    BY SubSeqEmpty
  <2>2. IsInjective(<< >>) /\ ToSet(<< >>) = {}
    BY DEF IsInjective, ToSet
  <2>3. {list[j] : j \in 1..0} = {}
    OBVIOUS
  <2> QED BY <1>1, <2>1, <2>2, <2>3 DEF Kept
<1>3. ASSUME NEW i \in 1..n, NEW kept \in S[i - 1]
      PROVE  step(kept, i) \in S[i]
  <2>1. i - 1 \in 0..n /\ kept \in Seq(T) /\ Kept(list, gone, i - 1, kept) /\ i \in 0..n
    BY <1>1, <1>3
  <2>2. /\ 1..i = 1..(i - 1) \cup {i} /\ list[i] \in T
        /\ \A j \in 1..(i - 1) : list[j] # list[i]
    BY <1>1 DEF IsInjective
  <2>3. {list[j] : j \in 1..i} = {list[j] : j \in 1..(i - 1)} \cup {list[i]}
    BY <2>2
  <2>4. CASE list[i] \in gone
    <3>1. Kept(list, gone, i, kept)
      BY <1>1, <2>1, <2>2, <2>3, <2>4 DEF Kept
    <3> QED BY <2>1, <2>4, <3>1
  <2>5. CASE list[i] \notin gone
    <3>1. list[i] \notin ToSet(kept)
      BY <2>1, <2>2 DEF Kept
    <3>2. SubSeq(list, 1, i) = Append(SubSeq(list, 1, i - 1), list[i])
      <4>1. SubSeq(list, 1, i) = SubSeq(list, 1, i - 1) \o <<list[i]>>
        BY SubSeqRecursiveSecond
      <4>2. SubSeq(list, 1, i - 1) \in Seq(T)
        BY SubSeqProperties
      <4> QED BY <2>2, <4>1, <4>2, AppendIsConcat
    <3>3. Kept(list, gone, i, Append(kept, list[i]))
      BY <1>1, <2>1, <2>2, <2>3, <2>5, <3>1, <3>2, Appended DEF Kept
    <3> QED BY <2>1, <2>2, <2>5, <3>3
  <2> QED BY <2>4, <2>5
<1>4. \A i \in 1..n : \A kept \in S[i - 1] : F[i][kept] \in S[i] /\ F[i][kept] = step(kept, i)
  <2> SUFFICES ASSUME NEW i \in 1..n, NEW kept \in S[i - 1]
               PROVE  F[i][kept] \in S[i] /\ F[i][kept] = step(kept, i)
    OBVIOUS
  <2>1. kept \in Seq(T)
    BY <1>1
  <2>2. F[i][kept] = step(kept, i)
    BY <2>1
  <2> QED BY <1>3, <2>2
<1> HIDE DEF S, F, step
<1>5. PICK f : Runs(f, n, S, << >>, F)
  BY <1>1, <1>2, <1>4, LoopRuns
<1>6. IsRun(f)
  <2>1. \A i \in 0..n : f[i] = IF i = 0 THEN << >> ELSE step(f[i - 1], i)
    BY <1>1, <1>4, <1>5, RunsFacts
  <2> QED BY <1>5, <2>1 DEF Runs
<1>7. IsRun(after)
  BY <1>6
<1>8. \A i \in 0..n : after[i] \in S[i]
  <2>1. after[0] \in S[0] /\ \A i \in 1..n : after[i - 1] \in S[i - 1] => after[i] \in S[i]
    <3> HIDE DEF after
    <3> QED BY <1>1, <1>2, <1>3, <1>7
  <2> HIDE DEF after
  <2> QED BY <1>1, <2>1, LoopKeeps
<1>9. Without(list, gone) = after[n]
  BY DEF Without, Iterate, step
<1>10. Without(list, gone) \in Seq(T) /\ Kept(list, gone, n, Without(list, gone))
  <2>1. after[n] \in S[n]
    BY <1>1, <1>8
  <2> HIDE DEF after
  <2> QED BY <1>1, <1>9, <2>1 DEF S
<1>11. ToSet(list) = {list[j] : j \in 1..n} /\ SubSeq(list, 1, n) = list
  BY SubSeqFull DEF ToSet
<1> QED BY <1>10, <1>11 DEF Kept

-----------------------------------------------------------------------------
(* The namespace.                                                          *)

Maps == UNION {[D -> Nat] : D \in SUBSET Variables}
ParamMaps == UNION {[D -> Params] : D \in SUBSET Ids}

Needs(params, v) == Dependencies(params[v].expr)

\* ns means what the variables in L say
Means(ns, params, L) ==
  /\ DOMAIN ns \subseteq L
  /\ \A v \in L : v \in DOMAIN ns <=> Needs(params, v) \subseteq DOMAIN ns \ {v}
  /\ \A v \in DOMAIN ns : ns[v] = Value(params[v].expr, ns)

LEMMA ExprFacts ==
  ASSUME NEW p \in Params
  PROVE  /\ p.expr \in [number : Nat] \cup [name : Variables]
         /\ p.enabled \in BOOLEAN
         /\ Dependencies(p.expr) \subseteq Variables
         /\ \A ns \in Maps : Evaluates(p.expr, ns) => Value(p.expr, ns) \in Nat
         /\ \A ns, more :
              Evaluates(p.expr, ns) /\ (\A v \in DOMAIN ns : more[v] = ns[v])
                => Value(p.expr, more) = Value(p.expr, ns)
PROOF
<1>1. p.enabled \in BOOLEAN /\ p.expr \in {Number(1)} \cup UNION {Exprs[b] : b \in Ids}
  BY DEF Params
<1>2. p.expr \in [number : Nat] \cup [name : Variables]
  BY <1>1, ExprsAssumption DEF Number
<1>3. CASE p.expr \in [number : Nat]
  <2>1. DOMAIN p.expr = {"number"} /\ p.expr.number \in Nat
    BY <1>3
  <2> QED BY <1>1, <1>2, <2>1 DEF Dependencies, Value
<1>4. CASE p.expr \in [name : Variables]
  <2>1. DOMAIN p.expr = {"name"} /\ p.expr.name \in Variables /\ "number" \notin DOMAIN p.expr
    BY <1>4
  <2> DEFINE e == p.expr
  <2>2. Dependencies(e) = {e.name} /\ \A ns : Value(e, ns) = ns[e.name]
    BY <2>1 DEF Dependencies, Value
  <2>3. \A ns \in Maps : e.name \in DOMAIN ns => ns[e.name] \in Nat
    BY DEF Maps
  <2> HIDE DEF e
  <2>4. \A ns : Evaluates(e, ns) => e.name \in DOMAIN ns
    BY <2>2 DEF Evaluates
  <2> QED BY <1>1, <1>2, <2>1, <2>2, <2>3, <2>4 DEF e
<1> QED BY <1>2, <1>3, <1>4

LEMMA ExtendedFacts ==
  ASSUME NEW params \in ParamMaps, NEW ns \in Maps,
         NEW vs, vs \subseteq EnabledVariables(params)
  PROVE  /\ Extended(params, ns, vs) \in Maps
         /\ \A L : /\ Means(ns, params, L) /\ L \cap vs = {}
                   /\ L \subseteq EnabledVariables(params)
                   /\ \A v \in L : Needs(params, v) \cap vs = {}
                   /\ \A v \in vs : Needs(params, v) \cap vs \subseteq {v}
                   => Means(Extended(params, ns, vs), params, L \cup vs)
PROOF
<1> DEFINE more == {v \in vs : Evaluates(params[v].expr, ns)}
           new == Extended(params, ns, vs)
<1>1. \A v \in vs : v \in Variables /\ v \in DOMAIN params /\ params[v] \in Params
  BY DEF EnabledVariables, ParamMaps
<1>2. new = [v \in DOMAIN ns \cup more |->
               IF v \in more THEN Value(params[v].expr, ns) ELSE ns[v]]
  BY DEF Extended
<1>3. DOMAIN ns \subseteq Variables /\ \A v \in DOMAIN ns : ns[v] \in Nat
  BY DEF Maps
<1>4. \A v \in more : v \in Variables /\ Value(params[v].expr, ns) \in Nat
  BY <1>1, ExprFacts
<1>5. new \in Maps
  <2>1. new \in [DOMAIN ns \cup more -> Nat] /\ DOMAIN ns \cup more \in SUBSET Variables
    BY <1>2, <1>3, <1>4
  <2> HIDE DEF new, more
  <2> QED BY <2>1 DEF Maps
<1>6. ASSUME NEW L, Means(ns, params, L), L \cap vs = {}, L \subseteq EnabledVariables(params),
             \A v \in L : Needs(params, v) \cap vs = {},
             \A v \in vs : Needs(params, v) \cap vs \subseteq {v}
      PROVE  Means(new, params, L \cup vs)
  <2>1. DOMAIN new = DOMAIN ns \cup more /\ \A v \in more : new[v] = Value(params[v].expr, ns)
    BY <1>2
  <2>2. \A v \in more : v \in vs /\ Needs(params, v) \subseteq DOMAIN ns
    BY DEF Evaluates, Needs
  <2>3. \A v \in vs : Needs(params, v) \subseteq DOMAIN ns => v \in more
    BY DEF Evaluates, Needs
  <2>4. DOMAIN ns \subseteq L /\ more \subseteq vs
    BY <1>6 DEF Means
  <2>5. \A v \in DOMAIN ns : new[v] = ns[v]
    BY <1>2, <1>6, <2>4
  <2> HIDE DEF new, more
  <2>6. /\ DOMAIN new \subseteq L \cup vs
        /\ \A v \in L \cup vs : v \in DOMAIN new <=> Needs(params, v) \subseteq DOMAIN new \ {v}
    <3>1. ASSUME NEW v \in L
          PROVE  v \in DOMAIN new <=> Needs(params, v) \subseteq DOMAIN new \ {v}
      <4>1. v \in DOMAIN new <=> v \in DOMAIN ns
        BY <1>6, <2>1, <2>4
      <4>2. v \in DOMAIN ns <=> Needs(params, v) \subseteq DOMAIN ns \ {v}
        BY <1>6 DEF Means
      <4>3. Needs(params, v) \subseteq DOMAIN new \ {v} <=> Needs(params, v) \subseteq DOMAIN ns \ {v}
        BY <1>6, <2>1, <2>4
      <4> QED BY <4>1, <4>2, <4>3
    <3>2. ASSUME NEW v \in vs
          PROVE  v \in DOMAIN new <=> Needs(params, v) \subseteq DOMAIN new \ {v}
      <4>1. v \notin DOMAIN ns
        BY <1>6, <2>4
      <4>2. v \in DOMAIN new <=> Needs(params, v) \subseteq DOMAIN ns
        BY <2>1, <2>2, <2>3, <4>1
      <4>3. Needs(params, v) \subseteq DOMAIN ns <=> Needs(params, v) \subseteq DOMAIN new \ {v}
        BY <1>6, <2>1, <2>4, <4>1
      <4> QED BY <4>2, <4>3
    <3> QED BY <2>1, <2>4, <3>1, <3>2
  <2>7. ASSUME NEW v \in DOMAIN new
        PROVE  new[v] = Value(params[v].expr, new)
    <3>1. CASE v \in more
      <4>1. params[v] \in Params /\ Evaluates(params[v].expr, ns)
        BY <1>1, <2>2, <3>1 DEF Evaluates, Needs
      <4>2. Value(params[v].expr, new) = Value(params[v].expr, ns)
        BY <2>5, <4>1, ExprFacts
      <4> QED BY <2>1, <3>1, <4>2
    <3>2. CASE v \in DOMAIN ns
      <4>1. /\ Needs(params, v) \subseteq DOMAIN ns /\ ns[v] = Value(params[v].expr, ns)
            /\ v \in EnabledVariables(params)
        BY <1>6, <3>2 DEF Means
      <4>2. params[v] \in Params
        BY <4>1 DEF EnabledVariables, ParamMaps
      <4>3. Value(params[v].expr, new) = Value(params[v].expr, ns)
        BY <2>5, <4>1, <4>2, ExprFacts DEF Needs, Evaluates
      <4> QED BY <2>5, <3>2, <4>1, <4>3
    <3> QED BY <2>1, <3>1, <3>2
  <2> QED BY <2>6, <2>7 DEF Means
<1> QED BY <1>5, <1>6

\* what is left after k rounds, and what nothing that is left depends on
LEMMA LeftFacts ==
  ASSUME NEW params \in ParamMaps
  PROVE  /\ Left(params, 0) = EnabledVariables(params)
         /\ \A k \in Nat : Left(params, k + 1) = Left(params, k) \ Free(params, Left(params, k))
         /\ \A k \in Nat :
              /\ Left(params, k) \subseteq EnabledVariables(params)
              /\ \A v \in Left(params, k) :
                   Needs(params, v) \cap EnabledVariables(params) \subseteq Left(params, k)
PROOF
<1> DEFINE all == EnabledVariables(params)
           step(left, i) == left \ Free(params, left)
           IsRun(k, f) == f = [i \in 0..k |-> IF i = 0 THEN all ELSE step(f[i - 1], i)]
           after(k) == CHOOSE f : IsRun(k, f)
<1>1. ASSUME NEW k \in Nat
      PROVE  IsRun(k, after(k))
  <2> DEFINE S == [i \in 0..k |-> SUBSET all]
             F == [i \in 1..k |-> [left \in SUBSET all |-> step(left, i)]]
  <2>1. \A i \in 1..k : \A left \in S[i - 1] : F[i][left] \in S[i] /\ F[i][left] = step(left, i)
    <3> SUFFICES ASSUME NEW i \in 1..k, NEW left \in S[i - 1]
                 PROVE  F[i][left] \in S[i] /\ F[i][left] = step(left, i)
      OBVIOUS
    <3>1. S[i - 1] = SUBSET all /\ S[i] = SUBSET all
      OBVIOUS
    <3>2. step(left, i) \in SUBSET all /\ F[i][left] = step(left, i)
      BY <3>1
    <3> QED BY <3>1, <3>2
  <2>2. all \in S[0]
    OBVIOUS
  <2> HIDE DEF S, F, step, all
  <2>3. PICK f : Runs(f, k, S, all, F)
    BY <2>1, <2>2, LoopRuns
  <2>4. \A i \in 0..k : f[i] = IF i = 0 THEN all ELSE step(f[i - 1], i)
    BY <2>1, <2>3, RunsFacts
  <2>5. IsRun(k, f)
    BY <2>3, <2>4 DEF Runs
  <2> QED BY <2>5
<1>2. \A k \in Nat : Left(params, k) = after(k)[k]
  BY DEF Left, Iterate
<1> HIDE DEF after
<1>3. ASSUME NEW k \in Nat
      PROVE  \A i \in 0..k : after(k + 1)[i] = after(k)[i]
  <2> DEFINE S == [i \in 0..k |-> {after(k)[i]}]
             g == after(k + 1)
  <2>1. IsRun(k, after(k)) /\ IsRun(k + 1, g)
    <3>1. \A m \in Nat : IsRun(m, after(m))
      BY <1>1
    <3>2. k \in Nat /\ k + 1 \in Nat
      OBVIOUS
    <3> HIDE DEF IsRun
    <3> QED BY <3>1, <3>2
  <2>2. g[0] \in S[0]
    BY <2>1
  <2>3. \A i \in 1..k : g[i - 1] \in S[i - 1] => g[i] \in S[i]
    <3> SUFFICES ASSUME NEW i \in 1..k, g[i - 1] \in S[i - 1] PROVE g[i] \in S[i]
      OBVIOUS
    <3>1. i - 1 \in 0..k /\ i \in 0..k /\ i \in 0..(k + 1) /\ i # 0
      OBVIOUS
    <3>2. g[i - 1] = after(k)[i - 1]
      BY <3>1
    <3>3. g[i] = step(g[i - 1], i) /\ after(k)[i] = step(after(k)[i - 1], i)
      BY <2>1, <3>1
    <3> QED BY <3>1, <3>2, <3>3
  <2> HIDE DEF g
  <2>4. \A i \in 0..k : g[i] \in S[i]
    <3> HIDE DEF S
    <3> QED BY <2>2, <2>3, LoopKeeps
  <2> QED BY <2>4 DEF g
<1>4. Left(params, 0) = all
  BY <1>1, <1>2
<1>5. ASSUME NEW k \in Nat
      PROVE  Left(params, k + 1) = Left(params, k) \ Free(params, Left(params, k))
  <2>1. k + 1 \in 0..(k + 1) /\ k + 1 # 0 /\ (k + 1) - 1 = k /\ k \in 0..k /\ k + 1 \in Nat
    OBVIOUS
  <2>2. after(k + 1)[k + 1] = step(after(k + 1)[k], k + 1)
    BY <1>1, <2>1
  <2> QED BY <1>2, <1>3, <2>1, <2>2
<1>6. ASSUME NEW k \in Nat
      PROVE  /\ Left(params, k) \subseteq all
             /\ \A v \in Left(params, k) : Needs(params, v) \cap all \subseteq Left(params, k)
  <2> DEFINE Closed(left) == left \subseteq all /\ \A v \in left : Needs(params, v) \cap all \subseteq left
             S == [i \in 0..k |-> {left \in SUBSET all : Closed(left)}]
             f == [i \in 0..k |-> Left(params, i)]
  <2>1. f[0] \in S[0]
    BY <1>4
  <2>2. ASSUME NEW i \in 1..k, f[i - 1] \in S[i - 1]
        PROVE  f[i] \in S[i]
    <3> DEFINE left == Left(params, i - 1)
    <3>1. f[i - 1] = left /\ i - 1 \in Nat /\ (i - 1) + 1 = i /\ i - 1 \in 0..k
      OBVIOUS
    <3>2. f[i] = left \ Free(params, left)
      BY <1>5, <3>1
    <3>3. Closed(left)
      BY <2>2, <3>1
    <3> HIDE DEF left, f
    <3>4. Closed(left \ Free(params, left))
      BY <3>3 DEF Free, Needs
    <3> QED BY <3>2, <3>4
  <2>3. \A i \in 0..k : f[i] \in S[i]
    <3> HIDE DEF S, f
    <3> QED BY <2>1, <2>2, LoopKeeps
  <2> QED BY <2>3
<1> QED BY <1>4, <1>5, <1>6

\* the loop of Namespace
LEMMA NamespaceRun ==
  ASSUME NEW params \in ParamMaps, Rounds(params) \in Nat
  PROVE  \E f : /\ f[0] = << >> /\ Namespace(params) = f[Rounds(params)]
                /\ \A i \in 0..Rounds(params) : f[i] \in Maps
                /\ \A i \in 1..Rounds(params) :
                     f[i] = Extended(params, f[i - 1], Layer(params, Rounds(params) - i + 1))
PROOF
<1> DEFINE n == Rounds(params)
           step(ns, i) == Extended(params, ns, Layer(params, n - i + 1))
           S == [i \in 0..n |-> Maps]
           F == [i \in 1..n |-> [ns \in Maps |-> step(ns, i)]]
           IsRun(f) == f = [i \in 0..n |-> IF i = 0 THEN << >> ELSE step(f[i - 1], i)]
           after == CHOOSE f : IsRun(f)
<1>1. << >> \in S[0]
  <2>1. << >> \in [{} -> Nat]
    OBVIOUS
  <2>2. << >> \in Maps
    BY <2>1 DEF Maps
  <2> QED BY <2>2
<1>2. ASSUME NEW i \in 1..n, NEW ns \in Maps
      PROVE  step(ns, i) \in Maps
  <2>1. n - i + 1 \in Nat /\ (n - i + 1) - 1 \in Nat
    OBVIOUS
  <2>2. Layer(params, n - i + 1) \subseteq EnabledVariables(params)
    BY <2>1, LeftFacts DEF Layer
  <2> QED BY <2>2, ExtendedFacts
<1>3. \A i \in 1..n : \A ns \in S[i - 1] : F[i][ns] \in S[i] /\ F[i][ns] = step(ns, i)
  <2> SUFFICES ASSUME NEW i \in 1..n, NEW ns \in S[i - 1]
               PROVE  F[i][ns] \in S[i] /\ F[i][ns] = step(ns, i)
    OBVIOUS
  <2>1. ns \in Maps /\ S[i] = Maps
    OBVIOUS
  <2>2. F[i][ns] = step(ns, i)
    BY <2>1
  <2> QED BY <1>2, <2>1, <2>2
<1> HIDE DEF S, F, step
<1>4. PICK f : Runs(f, n, S, << >>, F)
  BY <1>1, <1>3, LoopRuns
<1>5. IsRun(f)
  <2>1. \A i \in 0..n : f[i] = IF i = 0 THEN << >> ELSE step(f[i - 1], i)
    BY <1>3, <1>4, RunsFacts
  <2> QED BY <1>4, <2>1 DEF Runs
<1>6. IsRun(after)
  BY <1>5
<1>7. after[0] = << >> /\ \A i \in 1..n : after[i] = step(after[i - 1], i)
  <2>1. 0 \in 0..n /\ \A i \in 1..n : i \in 0..n /\ i # 0
    OBVIOUS
  <2> HIDE DEF after
  <2> QED BY <1>6, <2>1
<1>8. Namespace(params) = after[n]
  BY DEF Namespace, Iterate, step
<1> HIDE DEF after
<1>9. \A i \in 0..n : after[i] \in S[i]
  <2>1. \A i \in 1..n : after[i - 1] \in S[i - 1] => after[i] \in S[i]
    BY <1>3, <1>7
  <2> QED BY <1>1, <1>7, <2>1, LoopKeeps
<1>10. \A i \in 0..n : after[i] \in Maps
  BY <1>9 DEF S
<1> QED BY <1>7, <1>8, <1>10 DEF step

LEMMA NamespaceFacts ==
  ASSUME NEW params \in ParamMaps, Rounds(params) \in Nat
  PROVE  /\ Namespace(params) \in Maps
         /\ Circular(params) \/ IsMeaning(Namespace(params), params)
PROOF
<1> DEFINE n == Rounds(params)
           left(k) == Left(params, k)
           S == [i \in 0..n |-> {ns \in Maps : Circular(params) \/ Means(ns, params, left(n - i))}]
<1>1. PICK f : /\ f[0] = << >> /\ Namespace(params) = f[n]
               /\ \A i \in 0..n : f[i] \in Maps
               /\ \A i \in 1..n : f[i] = Extended(params, f[i - 1], Layer(params, n - i + 1))
  BY NamespaceRun
<1>2. f[0] \in S[0]
  <2>1. DOMAIN << >> = {} /\ n - 0 = n /\ 0 \in 0..n
    OBVIOUS
  <2>2. Circular(params) \/ Means(<< >>, params, left(n - 0))
    BY <2>1 DEF Circular, Means
  <2>3. f[0] \in Maps
    BY <1>1, <2>1
  <2> QED BY <1>1, <2>1, <2>2, <2>3
<1>3. ASSUME NEW i \in 1..n, f[i - 1] \in S[i - 1]
      PROVE  f[i] \in S[i]
  <2> DEFINE k == n - i
             vs == Layer(params, k + 1)
             ns == f[i - 1]
  <2>1. i - 1 \in 0..n /\ k \in Nat /\ n - (i - 1) = k + 1 /\ n - i + 1 = k + 1 /\ (k + 1) - 1 = k
    OBVIOUS
  <2>2. ns \in Maps /\ (Circular(params) \/ Means(ns, params, left(k + 1)))
    BY <1>3, <2>1
  <2>3. f[i] = Extended(params, ns, vs) /\ i \in 0..n
    BY <1>1, <2>1
  <2> HIDE DEF ns
  <2> HIDE DEF k
  <2>4. vs = left(k) \ left(k + 1) /\ left(k + 1) = left(k) \ Free(params, left(k))
    BY <2>1, LeftFacts DEF Layer
  <2>5. /\ left(k) \subseteq EnabledVariables(params)
        /\ \A v \in left(k + 1) : Needs(params, v) \cap EnabledVariables(params) \subseteq left(k + 1)
    BY <2>1, LeftFacts
  <2> HIDE DEF vs, left
  <2>6. vs \subseteq EnabledVariables(params) /\ left(k + 1) \cup vs = left(k)
    BY <2>4, <2>5
  <2>7. /\ left(k + 1) \cap vs = {} /\ left(k + 1) \subseteq EnabledVariables(params)
        /\ \A v \in left(k + 1) : Needs(params, v) \cap vs = {}
    BY <2>4, <2>5, <2>6
  <2>8. \A v \in vs : Needs(params, v) \cap vs \subseteq {v}
    BY <2>4 DEF Free, Needs
  <2>9. /\ Extended(params, ns, vs) \in Maps
        /\ Circular(params) \/ Means(Extended(params, ns, vs), params, left(k))
    BY <2>2, <2>6, <2>7, <2>8, ExtendedFacts
  <2> QED BY <2>3, <2>9 DEF k
<1>4. f[n] \in S[n]
  <2>1. \A i \in 0..n : f[i] \in S[i]
    <3> HIDE DEF S
    <3> QED BY <1>2, <1>3, LoopKeeps
  <2> HIDE DEF S
  <2> QED BY <2>1
<1>5. /\ Namespace(params) \in Maps
      /\ Circular(params) \/ Means(Namespace(params), params, EnabledVariables(params))
  <2>1. n - n = 0 /\ n \in 0..n
    OBVIOUS
  <2> QED BY <1>1, <1>4, <2>1, LeftFacts DEF S
<1>6. \A ns : Means(ns, params, EnabledVariables(params)) => IsMeaning(ns, params)
  BY DEF Means, IsMeaning, Needs
<1> QED BY <1>5, <1>6

\* the namespace depends on the enabled variables only
LEMMA SameNamespace ==
  ASSUME NEW p \in ParamMaps, NEW q \in ParamMaps, Rounds(p) \in Nat,
         EnabledVariables(p) = EnabledVariables(q),
         \A v \in EnabledVariables(p) : p[v].expr = q[v].expr
  PROVE  Namespace(p) = Namespace(q) /\ Circular(p) = Circular(q)
PROOF
<1> DEFINE n == Rounds(p)
           all == EnabledVariables(p)
<1>1. Rounds(q) = n
  BY DEF Rounds
<1>2. \A left : left \subseteq all => Free(p, left) = Free(q, left)
  BY DEF Free
<1>3. ASSUME NEW k \in Nat
      PROVE  Left(p, k) = Left(q, k)
  <2> DEFINE f == [i \in 0..k |-> Left(p, i)]
             S == [i \in 0..k |-> {Left(q, i)}]
  <2>1. f[0] \in S[0]
    BY LeftFacts
  <2>2. ASSUME NEW i \in 1..k, f[i - 1] \in S[i - 1]
        PROVE  f[i] \in S[i]
    <3>1. i - 1 \in 0..k /\ i \in 0..k /\ i - 1 \in Nat /\ (i - 1) + 1 = i
      OBVIOUS
    <3>2. Left(p, i - 1) = Left(q, i - 1) /\ Left(p, i - 1) \subseteq all
      BY <2>2, <3>1, LeftFacts
    <3>3. /\ Left(p, (i - 1) + 1) = Left(p, i - 1) \ Free(p, Left(p, i - 1))
          /\ Left(q, (i - 1) + 1) = Left(q, i - 1) \ Free(q, Left(q, i - 1))
      BY <3>1, LeftFacts
    <3>4. Left(p, (i - 1) + 1) = Left(q, (i - 1) + 1)
      <4> DEFINE left == Left(p, i - 1)
      <4>1. left \subseteq all /\ Left(q, i - 1) = left
        BY <3>2
      <4>2. /\ Left(p, (i - 1) + 1) = left \ Free(p, left)
            /\ Left(q, (i - 1) + 1) = left \ Free(q, left)
        BY <3>3, <4>1, Zenon
      <4> HIDE DEF left
      <4>3. Free(p, left) = Free(q, left)
        BY <1>2, <4>1
      <4> QED BY <4>2, <4>3, Zenon
    <3>5. Left(p, i) = Left(q, i)
      BY <3>1, <3>4, Zenon
    <3> QED BY <3>1, <3>5
  <2>3. \A i \in 0..k : f[i] \in S[i]
    <3> HIDE DEF f, S
    <3> QED BY <2>1, <2>2, LoopKeeps
  <2> QED BY <2>3
<1>4. Circular(p) = Circular(q)
  BY <1>1, <1>3 DEF Circular
<1>5. ASSUME NEW ns, NEW vs, vs \subseteq all
      PROVE  Extended(p, ns, vs) = Extended(q, ns, vs)
  <2>1. {v \in vs : Evaluates(p[v].expr, ns)} = {v \in vs : Evaluates(q[v].expr, ns)}
    BY <1>5
  <2> DEFINE more == {v \in vs : Evaluates(p[v].expr, ns)}
  <2>2. \A v \in more : p[v].expr = q[v].expr
    BY <1>5
  <2> HIDE DEF more
  <2>3. [v \in DOMAIN ns \cup more |-> IF v \in more THEN Value(p[v].expr, ns) ELSE ns[v]]
        = [v \in DOMAIN ns \cup more |-> IF v \in more THEN Value(q[v].expr, ns) ELSE ns[v]]
    BY <2>2
  <2> QED BY <2>1, <2>3 DEF Extended, more
<1>6. PICK f : /\ f[0] = << >> /\ Namespace(p) = f[n]
               /\ \A i \in 1..n : f[i] = Extended(p, f[i - 1], Layer(p, n - i + 1))
  BY NamespaceRun
<1>7. PICK g : /\ g[0] = << >> /\ Namespace(q) = g[n]
               /\ \A i \in 1..n : g[i] = Extended(q, g[i - 1], Layer(q, n - i + 1))
  BY <1>1, NamespaceRun
<1> DEFINE S == [i \in 0..n |-> {g[i]}]
<1>8. ASSUME NEW i \in 1..n, f[i - 1] \in S[i - 1]
      PROVE  f[i] \in S[i]
  <2>1. i - 1 \in 0..n /\ i \in 0..n /\ n - i + 1 \in Nat /\ (n - i + 1) - 1 \in Nat
    OBVIOUS
  <2>2. Layer(p, n - i + 1) = Layer(q, n - i + 1) /\ Layer(p, n - i + 1) \subseteq all
    BY <1>3, <2>1, LeftFacts DEF Layer
  <2>3. f[i - 1] = g[i - 1]
    BY <1>8, <2>1
  <2>4. f[i] = Extended(p, f[i - 1], Layer(p, n - i + 1)) /\ g[i] = Extended(q, g[i - 1], Layer(q, n - i + 1))
    BY <1>6, <1>7
  <2>5. f[i] = g[i]
    BY <1>5, <2>2, <2>3, <2>4
  <2> QED BY <2>1, <2>5
<1>9. f[n] \in S[n]
  <2>1. f[0] \in S[0] /\ n \in 0..n
    BY <1>6, <1>7
  <2> HIDE DEF S
  <2> QED BY <1>8, <2>1, LoopKeeps
<1> QED BY <1>4, <1>6, <1>7, <1>9

-----------------------------------------------------------------------------
(* Flow graphs.                                                            *)

Spaces == Maps \cup {NoNamespace}
PortMaps == UNION {[D -> [Dirs -> Nat]] : D \in SUBSET Ids}

FlowGraphs == [elements : Seq(Elements), params : ParamMaps, ports : PortMaps,
               ns : Spaces, renew : BOOLEAN]

BlocksListed(g) == {e \in ToSet(g.elements) : IsBlock(e)} = {Options} \cup {Block(b) : b \in HasBlocks(g)}
PortsOf(g) == DOMAIN g.ports = HasBlocks(g)
PlainPorts(g) == \A b \in HasBlocks(g) : \A d \in Dirs \ Cloned[b] : g.ports[b][d] = Fixed[b][d]
Attached(g) == \A c \in Connections(g) : CanConnect(g, c)

Sound(g) ==
  /\ g \in FlowGraphs /\ IsInjective(g.elements)
  /\ BlocksListed(g) /\ PortsOf(g) /\ PlainPorts(g) /\ Attached(g)

\* h is g with some connections less and perhaps other numbers of ports
Thinned(g, h) ==
  /\ Sound(h) /\ h.params = g.params
  /\ ToSet(h.elements) \subseteq ToSet(g.elements) /\ Len(h.elements) <= Len(g.elements)
  /\ Connections(h) = Connections(g) => h.elements = g.elements

LEMMA ElementFacts ==
  /\ \A e \in Elements : (IsBlock(e) <=> e \in {Options} \cup {Block(b) : b \in Ids})
                         /\ (IsConnection(e) <=> e \in Wires)
  /\ \A b : IsBlock(Block(b)) /\ Block(b).block = b /\ (b \in Ids => Block(b) # Options)
  /\ \A b, c : Block(b) = Block(c) => b = c
  /\ \A e \in Wires : e.source \in Ids \X Nat /\ e.sink \in Ids \X Nat /\ ~IsBlock(e)
PROOF
<1>1. \A b : DOMAIN Block(b) = {"block"} /\ Block(b).block = b
  BY DEF Block
<1>2. \A e \in Wires : DOMAIN e = {"source", "sink"} /\ e.source \in Ids \X Nat /\ e.sink \in Ids \X Nat
  BY DEF Wires
<1>3. \A b : IsBlock(Block(b))
  BY <1>1 DEF IsBlock
<1>4. \A e \in Wires : ~IsBlock(e)
  BY <1>2 DEF IsBlock
<1>5. \A b, c : Block(b) = Block(c) => b = c
  <2> SUFFICES ASSUME NEW b, NEW c, Block(b) = Block(c) PROVE b = c
    OBVIOUS
  <2>1. Block(b).block = b /\ Block(c).block = c
    BY <1>1
  <2> QED BY <2>1
<1>6. \A b \in Ids : Block(b) # Options
  BY <1>5, IdsAssumption DEF Options
<1>7. \A e \in Elements : e \in Wires \/ e \in {Options} \cup {Block(b) : b \in Ids}
  BY DEF Elements
<1>8. \A e \in {Options} \cup {Block(b) : b \in Ids} : IsBlock(e)
  BY <1>3 DEF Options
<1> QED BY <1>1, <1>2, <1>3, <1>4, <1>5, <1>6, <1>7, <1>8 DEF IsConnection

LEMMA ElementsExcept ==
  ASSUME NEW g \in FlowGraphs, NEW X \in Seq(Elements)
  PROVE  LET h == [g EXCEPT !.elements = X]
         IN  /\ h \in FlowGraphs /\ h.elements = X /\ h.params = g.params /\ h.ports = g.ports
             /\ h.ns = g.ns /\ h.renew = g.renew
PROOF
  BY DEF FlowGraphs

LEMMA PortsExcept ==
  ASSUME NEW g \in FlowGraphs, NEW X \in PortMaps
  PROVE  LET h == [g EXCEPT !.ports = X]
         IN  /\ h \in FlowGraphs /\ h.ports = X /\ h.params = g.params /\ h.elements = g.elements
             /\ h.ns = g.ns /\ h.renew = g.renew
PROOF
  BY DEF FlowGraphs

LEMMA ParamsExcept ==
  ASSUME NEW g \in FlowGraphs, NEW X \in ParamMaps
  PROVE  LET h == [g EXCEPT !.params = X]
         IN  /\ h \in FlowGraphs /\ h.params = X /\ h.ports = g.ports /\ h.elements = g.elements
             /\ h.ns = g.ns /\ h.renew = g.renew
PROOF
  BY DEF FlowGraphs

LEMMA RenewExcept ==
  ASSUME NEW g \in FlowGraphs, NEW X \in BOOLEAN, NEW Y \in Spaces
  PROVE  LET h == [g EXCEPT !.renew = X, !.ns = Y]
         IN  /\ h \in FlowGraphs /\ h.renew = X /\ h.ns = Y
             /\ h.params = g.params /\ h.ports = g.ports /\ h.elements = g.elements
PROOF
  BY DEF FlowGraphs

LEMMA GraphFacts ==
  ASSUME NEW g, Sound(g)
  PROVE  /\ g.params \in ParamMaps /\ HasBlocks(g) \subseteq Ids
         /\ \A b \in HasBlocks(g) : g.params[b] \in Params /\ g.ports[b] \in [Dirs -> Nat]
         /\ g.ns \in Spaces /\ g.renew \in BOOLEAN /\ g.elements \in Seq(Elements)
         /\ Connections(g) \subseteq Wires
         /\ Connections(g) = ToSet(g.elements) \cap Wires
         /\ \A b \in HasBlocks(g) : Block(b) \in ToSet(g.elements)
PROOF
<1>1. /\ g.params \in ParamMaps /\ g.ports \in PortMaps /\ g.elements \in Seq(Elements)
      /\ g.ns \in Spaces /\ g.renew \in BOOLEAN /\ DOMAIN g.ports = DOMAIN g.params
  BY DEF Sound, FlowGraphs, PortsOf, HasBlocks
<1>2. ToSet(g.elements) \subseteq Elements
  BY <1>1 DEF ToSet
<1>3. Connections(g) = ToSet(g.elements) \cap Wires
  BY <1>2, ElementFacts DEF Connections
<1>4. \A b \in HasBlocks(g) : Block(b) \in ToSet(g.elements)
  BY DEF Sound, BlocksListed
<1>5. /\ HasBlocks(g) \subseteq Ids
      /\ \A b \in HasBlocks(g) : g.params[b] \in Params
  BY <1>1 DEF HasBlocks, ParamMaps
<1>6. \A b \in HasBlocks(g) : g.ports[b] \in [Dirs -> Nat]
  BY <1>1 DEF HasBlocks, PortMaps
<1> QED BY <1>1, <1>3, <1>4, <1>5, <1>6

LEMMA RoundsAreFinite ==
  ASSUME NEW g, Sound(g)
  PROVE  Rounds(g.params) \in Nat
PROOF
<1> DEFINE s == g.elements
           V == EnabledVariables(g.params)
           D == {i \in 1..Len(s) : \E v \in V : s[i] = Block(v)}
           f == [i \in D |-> s[i].block]
<1>1. s \in Seq(Elements) /\ \A v \in V : Block(v) \in ToSet(s)
  BY GraphFacts DEF EnabledVariables, HasBlocks
<1>2. IsFiniteSet(D)
  <2>1. D \in SUBSET (1..Len(s)) /\ Len(s) \in Int /\ 1 \in Int
    BY <1>1
  <2> HIDE DEF D
  <2> QED BY <2>1, FS_Interval, FS_Subset
<1>3. \A i \in D : f[i] \in V /\ s[i] = Block(f[i])
  BY ElementFacts
<1>4. \A v \in V : \E i \in D : f[i] = v
  <2> SUFFICES ASSUME NEW v \in V PROVE \E i \in D : f[i] = v
    OBVIOUS
  <2>1. PICK i \in 1..Len(s) : s[i] = Block(v)
    BY <1>1 DEF ToSet
  <2> QED BY <2>1, ElementFacts
<1>5. f \in Surjection(D, V)
  <2>1. f \in [D -> V]
    BY <1>3
  <2> HIDE DEF f, D, V
  <2> QED BY <1>4, <2>1 DEF Surjection
<1>6. IsFiniteSet(V)
  <2> HIDE DEF f, D, V
  <2> QED BY <1>2, <1>5, FS_Surjection
<1> QED BY <1>6, FS_CardinalityType DEF Rounds

\* the namespace that an evaluation leaves
Renewed(g) == IF Circular(g.params) THEN g.ns ELSE Namespace(g.params)

LEMMA EvaluatedFacts ==
  ASSUME NEW g, Sound(g)
  PROVE  /\ Sound(Evaluated(g))
         /\ Evaluated(g).elements = g.elements /\ Evaluated(g).params = g.params
         /\ Evaluated(g).ports = g.ports /\ Evaluated(g).renew = FALSE
         /\ Evaluated(g).ns = IF g.renew THEN Renewed(g) ELSE g.ns
         /\ Renewed(g) \in Spaces
PROOF
<1> DEFINE h == [g EXCEPT !.renew = FALSE, !.ns = Renewed(g)]
<1>1. g \in FlowGraphs /\ g.params \in ParamMaps /\ Rounds(g.params) \in Nat /\ g.ns \in Spaces
      /\ g.renew \in BOOLEAN
  BY GraphFacts, RoundsAreFinite DEF Sound
<1>2. Renewed(g) \in Spaces
  <2>1. Namespace(g.params) \in Maps
    BY <1>1, NamespaceFacts
  <2> QED BY <1>1, <2>1 DEF Renewed, Spaces
<1>3. /\ h \in FlowGraphs /\ h.renew = FALSE /\ h.ns = Renewed(g)
      /\ h.params = g.params /\ h.ports = g.ports /\ h.elements = g.elements
  BY <1>1, <1>2, RenewExcept
<1>4. Evaluated(g) = IF g.renew THEN h ELSE g
  BY <1>1 DEF Evaluated, Renewed, FlowGraphs
<1> HIDE DEF h
<1>5. Sound(h)
  BY <1>3 DEF Sound, BlocksListed, PortsOf, PlainPorts, Attached, Connections, HasBlocks,
              CanConnect, PortExists
<1> QED BY <1>1, <1>2, <1>3, <1>4, <1>5

LEMMA NportsIsNat ==
  ASSUME NEW p \in Params, NEW ns \in Spaces
  PROVE  Nports(p.expr, ns) \in Nat
PROOF
  BY ExprFacts DEF Nports, Spaces

LEMMA CutFacts ==
  ASSUME NEW g, Sound(g), NEW gone, gone \subseteq Connections(g)
  PROVE  LET h == Cut(g, gone)
         IN  /\ Sound(h) /\ h.params = g.params /\ h.ports = g.ports
             /\ h.ns = g.ns /\ h.renew = g.renew
             /\ ToSet(h.elements) = ToSet(g.elements) \ gone
             /\ Connections(h) = Connections(g) \ gone
             /\ Len(h.elements) <= Len(g.elements)
             /\ gone = {} => h.elements = g.elements
PROOF
<1> DEFINE h == Cut(g, gone)
           kept == Without(g.elements, gone)
<1>1. g \in FlowGraphs /\ g.elements \in Seq(Elements) /\ IsInjective(g.elements)
  BY GraphFacts DEF Sound
<1>2. /\ kept \in Seq(Elements) /\ IsInjective(kept) /\ ToSet(kept) = ToSet(g.elements) \ gone
      /\ Len(kept) <= Len(g.elements) /\ (gone = {} => kept = g.elements)
  BY <1>1, WithoutFacts
<1>3. /\ h \in FlowGraphs /\ h.elements = kept /\ h.params = g.params /\ h.ports = g.ports
      /\ h.ns = g.ns /\ h.renew = g.renew
  BY <1>1, <1>2, ElementsExcept DEF Cut
<1> HIDE DEF h, kept
<1>4. Connections(h) = Connections(g) \ gone
  BY <1>2, <1>3 DEF Connections
<1>5. \A e \in gone : ~IsBlock(e)
  BY DEF Connections, IsConnection
<1>6. BlocksListed(h)
  BY <1>2, <1>3, <1>5 DEF Sound, BlocksListed, HasBlocks
<1>7. Sound(h)
  BY <1>2, <1>3, <1>4, <1>6 DEF Sound, PortsOf, PlainPorts, Attached, HasBlocks, CanConnect, PortExists
<1> QED BY <1>2, <1>3, <1>4, <1>7 DEF h

\* the port that c uses in direction d is one of b, but not one of its first n
Beyond(c, d, b, n) == c[d][1] = b /\ ~(c[d][2] < n)

LEMMA SetPorts ==
  ASSUME NEW g, Sound(g), NEW b \in HasBlocks(g), NEW d \in Cloned[b], NEW n \in Nat,
         \A c \in Connections(g) : ~Beyond(c, d, b, n)
  PROVE  LET h == [g EXCEPT !.ports[b][d] = n]
         IN  /\ Sound(h) /\ h.elements = g.elements /\ h.params = g.params
             /\ h.ns = g.ns /\ h.renew = g.renew
             /\ h.ports = [g.ports EXCEPT ![b][d] = n]
PROOF
<1> DEFINE h == [g EXCEPT !.ports[b][d] = n]
           X == [g.ports EXCEPT ![b][d] = n]
<1>1. /\ g \in FlowGraphs /\ DOMAIN g.ports = HasBlocks(g) /\ HasBlocks(g) \subseteq Ids
      /\ \A x \in HasBlocks(g) : g.ports[x] \in [Dirs -> Nat]
  BY GraphFacts DEF Sound, PortsOf
<1>2. d \in Dirs /\ b \in Ids
  BY <1>1, PortsAssumption
<1>3. X \in PortMaps
  <2>1. g.ports \in PortMaps
    BY <1>1 DEF FlowGraphs
  <2>2. g.ports \in [HasBlocks(g) -> [Dirs -> Nat]]
    BY <1>1, <2>1 DEF PortMaps
  <2>3. X \in [HasBlocks(g) -> [Dirs -> Nat]]
    BY <1>2, <2>2
  <2>4. HasBlocks(g) \in SUBSET Ids
    BY <1>1
  <2> HIDE DEF X
  <2> QED BY <2>3, <2>4 DEF PortMaps
<1>4. /\ h \in FlowGraphs /\ h.ports = X /\ h.params = g.params /\ h.elements = g.elements
      /\ h.ns = g.ns /\ h.renew = g.renew
  BY <1>1, <1>3, PortsExcept
<1>5. /\ DOMAIN X = HasBlocks(g)
      /\ \A x \in HasBlocks(g) : \A e \in Dirs : X[x][e] = IF x = b /\ e = d THEN n ELSE g.ports[x][e]
  BY <1>1, <1>2
<1> HIDE DEF h, X
<1>6. PortsOf(h) /\ BlocksListed(h)
  BY <1>4, <1>5 DEF Sound, PortsOf, BlocksListed, HasBlocks
<1>7. PlainPorts(h)
  BY <1>4, <1>5 DEF Sound, PlainPorts, HasBlocks
<1>8. Attached(h)
  <2> SUFFICES ASSUME NEW c \in Connections(h) PROVE CanConnect(h, c)
    BY DEF Attached
  <2>1. c \in Connections(g) /\ CanConnect(g, c) /\ ~Beyond(c, d, b, n)
    BY <1>4 DEF Connections, Sound, Attached
  <2>2. \A e \in Dirs : PortExists(g, c[e][1], e, c[e][2]) => PortExists(h, c[e][1], e, c[e][2])
    BY <1>4, <1>5, <2>1 DEF PortExists, Beyond, HasBlocks
  <2> QED BY <2>1, <2>2 DEF CanConnect, Dirs
<1>9. Sound(h)
  BY <1>4, <1>6, <1>7, <1>8 DEF Sound
<1> QED BY <1>4, <1>9 DEF h, X

LEMMA RectifyFacts ==
  ASSUME NEW g, Sound(g), NEW b \in HasBlocks(g), NEW d \in Cloned[b]
  PROVE  LET n == Nports(g.params[b].expr, g.ns)
             h == Rectify(g, b, d)
         IN  /\ n \in Nat
             /\ Thinned(g, h) /\ h.ns = g.ns /\ h.renew = g.renew
             /\ h.ports = [g.ports EXCEPT ![b][d] = n]
             /\ \A c \in Connections(g) \ Connections(h) : Beyond(c, d, b, n)
PROOF
<1> DEFINE n == Nports(g.params[b].expr, g.ns)
           gone == {c \in Connections(g) : \E k \in n..(g.ports[b][d] - 1) : UsesPort(c, d, b, k)}
           less == IF n < g.ports[b][d] THEN Cut(g, gone) ELSE g
           h == Rectify(g, b, d)
<1>1. /\ n \in Nat /\ g.ports[b][d] \in Nat /\ d \in Dirs
      /\ \A c \in Connections(g) : c[d] \in Ids \X Nat
  BY GraphFacts, NportsIsNat, PortsAssumption, ElementFacts DEF Dirs
<1>2. h = [less EXCEPT !.ports[b][d] = n]
  BY DEF Rectify
<1>3. /\ Sound(less) /\ less.params = g.params /\ less.ports = g.ports
      /\ less.ns = g.ns /\ less.renew = g.renew
      /\ ToSet(less.elements) \subseteq ToSet(g.elements) /\ Len(less.elements) <= Len(g.elements)
      /\ Connections(less) = IF n < g.ports[b][d] THEN Connections(g) \ gone ELSE Connections(g)
      /\ Connections(less) = Connections(g) => less.elements = g.elements
  <2>1. Len(g.elements) \in Nat
    BY GraphFacts
  <2>2. CASE n < g.ports[b][d]
    <3>1. gone \subseteq Connections(g) /\ less = Cut(g, gone)
      BY <2>2
    <3> HIDE DEF gone, less
    <3> QED BY <2>1, <2>2, <3>1, CutFacts
  <2>3. CASE ~(n < g.ports[b][d])
    <3>1. less = g
      BY <2>3
    <3> HIDE DEF gone, less
    <3> QED BY <2>1, <2>3, <3>1
  <2> QED BY <2>2, <2>3
<1>4. \A c \in Connections(less) : ~Beyond(c, d, b, n)
  <2> SUFFICES ASSUME NEW c \in Connections(less), Beyond(c, d, b, n) PROVE FALSE
    OBVIOUS
  <2>1. c \in Connections(g) /\ CanConnect(g, c)
    BY <1>3 DEF Sound, Attached
  <2>2. PortExists(g, c[d][1], d, c[d][2]) /\ c[d] = <<c[d][1], c[d][2]>> /\ c[d][2] \in Nat
    BY <1>1, <2>1 DEF CanConnect, Dirs
  <2>3. c[d][2] < g.ports[b][d] /\ ~(c[d][2] < n)
    BY <2>2 DEF PortExists, Beyond
  <2>4. n < g.ports[b][d] /\ c[d][2] \in n..(g.ports[b][d] - 1)
    BY <1>1, <2>2, <2>3
  <2>5. UsesPort(c, d, b, c[d][2])
    BY <2>2 DEF UsesPort, Beyond
  <2>6. c \in gone
    BY <2>1, <2>4, <2>5
  <2> QED BY <1>3, <2>4, <2>6
<1>5. \A c \in gone : Beyond(c, d, b, n)
  BY <1>1 DEF UsesPort, Beyond
<1> HIDE DEF n, gone, less, h
<1>6. b \in HasBlocks(less)
  BY <1>3 DEF HasBlocks
<1>7. /\ Sound(h) /\ h.elements = less.elements /\ h.params = less.params
      /\ h.ns = less.ns /\ h.renew = less.renew /\ h.ports = [less.ports EXCEPT ![b][d] = n]
  BY <1>1, <1>2, <1>3, <1>4, <1>6, SetPorts
<1>8. Connections(h) = Connections(less)
  BY <1>7 DEF Connections
<1>9. \A c \in Connections(g) \ Connections(h) : Beyond(c, d, b, n)
  BY <1>3, <1>5, <1>8
<1>10. Thinned(g, h)
  BY <1>3, <1>7, <1>8 DEF Thinned
<1> QED BY <1>1, <1>3, <1>7, <1>9, <1>10 DEF n, h

LEMMA ThinnedTwice ==
  ASSUME NEW g, NEW h, NEW k, Sound(g), Thinned(g, h), Thinned(h, k)
  PROVE  /\ Thinned(g, k) /\ Connections(k) \subseteq Connections(h)
         /\ Connections(h) \subseteq Connections(g) /\ HasBlocks(k) = HasBlocks(g)
PROOF
<1>1. Connections(k) \subseteq Connections(h) /\ Connections(h) \subseteq Connections(g)
  BY DEF Thinned, Connections
<1>2. Len(g.elements) \in Nat /\ Len(h.elements) \in Nat /\ Len(k.elements) \in Nat
  BY GraphFacts DEF Thinned
<1>3. Len(k.elements) <= Len(g.elements)
  BY <1>2 DEF Thinned
<1>4. Connections(k) = Connections(g) => k.elements = g.elements
  BY <1>1 DEF Thinned
<1> QED BY <1>1, <1>3, <1>4 DEF Thinned, HasBlocks

LEMMA ThinnedItself ==
  ASSUME NEW g, NEW h, Sound(g), Sound(h), h.elements = g.elements, h.params = g.params
  PROVE  Thinned(g, h)
PROOF
<1>1. Len(g.elements) \in Nat
  BY GraphFacts
<1> QED BY <1>1 DEF Thinned

LEMMA RewriteBlockFacts ==
  ASSUME NEW g, Sound(g), NEW b \in HasBlocks(g)
  PROVE  LET h == RewriteBlock(g, b)
         IN  /\ Thinned(g, h)
             /\ h.ns = (IF g.renew /\ Cloned[b] # {} THEN Renewed(g) ELSE g.ns)
             /\ h.renew = (g.renew /\ Cloned[b] = {})
             /\ \A x \in HasBlocks(g) \ {b} : h.ports[x] = g.ports[x]
             /\ \A d \in Cloned[b] : h.ports[b][d] = Nports(g.params[b].expr, h.ns)
             /\ \A c \in Connections(g) \ Connections(h) :
                  \E d \in Cloned[b] : Beyond(c, d, b, Nports(g.params[b].expr, h.ns))
PROOF
<1> DEFINE f == IF Cloned[b] = {} THEN g ELSE Evaluated(g)
           s == IF "source" \in Cloned[b] THEN Rectify(f, b, "source") ELSE f
           h == RewriteBlock(g, b)
           n == Nports(g.params[b].expr, f.ns)
<1>1. h = IF "sink" \in Cloned[b] THEN Rectify(s, b, "sink") ELSE s
  BY DEF RewriteBlock
<1>2. /\ Cloned[b] \subseteq Dirs /\ g.renew \in BOOLEAN
      /\ DOMAIN g.ports = HasBlocks(g) /\ g.ports[b] \in [Dirs -> Nat]
  BY GraphFacts, PortsAssumption DEF Sound, PortsOf
<1>3. /\ Sound(f) /\ f.elements = g.elements /\ f.params = g.params /\ f.ports = g.ports
      /\ f.renew = (g.renew /\ Cloned[b] = {})
      /\ f.ns = IF g.renew /\ Cloned[b] # {} THEN Renewed(g) ELSE g.ns
  BY <1>2, EvaluatedFacts
<1>4. Thinned(g, f) /\ Connections(f) = Connections(g) /\ HasBlocks(f) = HasBlocks(g)
  BY <1>3, ThinnedItself DEF Connections, HasBlocks
<1> HIDE DEF f
<1>5. /\ Thinned(f, s) /\ s.ns = f.ns /\ s.renew = f.renew
      /\ s.ports = IF "source" \in Cloned[b] THEN [f.ports EXCEPT ![b]["source"] = n] ELSE f.ports
      /\ \A c \in Connections(f) \ Connections(s) : "source" \in Cloned[b] /\ Beyond(c, "source", b, n)
  <2>1. CASE "source" \in Cloned[b]
    <3>1. s = Rectify(f, b, "source")
      BY <2>1
    <3> HIDE DEF s
    <3> QED BY <1>3, <1>4, <2>1, <3>1, RectifyFacts
  <2>2. CASE "source" \notin Cloned[b]
    BY <1>3, <2>2, ThinnedItself
  <2> QED BY <2>1, <2>2
<1> HIDE DEF s, h
<1>6. /\ Sound(s) /\ b \in HasBlocks(s) /\ s.params = g.params /\ n = Nports(s.params[b].expr, s.ns)
      /\ Thinned(g, s) /\ Connections(s) \subseteq Connections(g)
  BY <1>3, <1>4, <1>5, ThinnedTwice DEF Thinned, HasBlocks
<1> HIDE DEF n
<1>7. /\ Thinned(s, h) /\ h.ns = f.ns /\ h.renew = f.renew
      /\ h.ports = IF "sink" \in Cloned[b] THEN [s.ports EXCEPT ![b]["sink"] = n] ELSE s.ports
      /\ \A c \in Connections(s) \ Connections(h) : "sink" \in Cloned[b] /\ Beyond(c, "sink", b, n)
  <2>1. CASE "sink" \in Cloned[b]
    BY <1>1, <1>5, <1>6, <2>1, RectifyFacts
  <2>2. CASE "sink" \notin Cloned[b]
    BY <1>1, <1>5, <1>6, <2>2, ThinnedItself
  <2> QED BY <2>1, <2>2
<1>8. Thinned(g, h) /\ n = Nports(g.params[b].expr, h.ns)
  BY <1>6, <1>7, ThinnedTwice DEF n
<1>9. \A x \in HasBlocks(g) \ {b} : h.ports[x] = g.ports[x]
  BY <1>2, <1>3, <1>5, <1>7
<1>10. \A d \in Cloned[b] : h.ports[b][d] = n
  <2>1. f.ports[b] \in [Dirs -> Nat] /\ b \in DOMAIN f.ports /\ DOMAIN f.ports[b] = {"source", "sink"}
    BY <1>2, <1>3 DEF Dirs
  <2>2. "source" \in Cloned[b] => s.ports[b]["source"] = n
    BY <1>5, <2>1
  <2>3. b \in DOMAIN s.ports /\ DOMAIN s.ports[b] = {"source", "sink"}
    BY <1>5, <2>1
  <2>4. "source" \in Cloned[b] => h.ports[b]["source"] = n
    BY <1>7, <2>2, <2>3
  <2>5. "sink" \in Cloned[b] => h.ports[b]["sink"] = n
    BY <1>7, <2>3
  <2> QED BY <1>2, <2>4, <2>5 DEF Dirs
<1>11. \A c \in Connections(g) \ Connections(h) : \E d \in Cloned[b] : Beyond(c, d, b, n)
  BY <1>4, <1>5, <1>7
<1> QED BY <1>3, <1>7, <1>8, <1>9, <1>10, <1>11 DEF h

-----------------------------------------------------------------------------
(* Rewriting.                                                              *)

FollowsIn(g, b, ns) == \A d \in Cloned[b] : g.ports[b][d] = Nports(g.params[b].expr, ns)

\* a connection that is in g and not in h had a port that its block has not in ns
LostIn(g, h, ns) ==
  \A c \in Connections(g) \ Connections(h) :
    \E b \in HasBlocks(g) : \E d \in Cloned[b] : Beyond(c, d, b, Nports(g.params[b].expr, ns))

\* what i rounds of the loop of rewrite() make of g
Swept(g, i, h) ==
  /\ Thinned(g, h) /\ LostIn(g, h, Renewed(g))
  /\ h.ns = IF h.renew THEN g.ns ELSE Renewed(g)
  /\ Connections(h) = Connections(g) =>
       \A j \in 1..i : \A b \in HasBlocks(g) :
         g.elements[j] = Block(b) /\ Cloned[b] # {} =>
           ~h.renew /\ FollowsIn(h, b, Renewed(g))

LEMMA RewriteNextSweeps ==
  ASSUME NEW g, Sound(g), NEW i \in 1..Len(g.elements), NEW h, Swept(g, i - 1, h)
  PROVE  Swept(g, i, RewriteNext(h, i))
PROOF
<1> DEFINE k == RewriteNext(h, i)
           here == i <= Len(h.elements) /\ IsBlock(h.elements[i]) /\ h.elements[i] # Options
           ns == Renewed(g)
<1>1. /\ Sound(h) /\ h.params = g.params /\ Thinned(g, h) /\ HasBlocks(h) = HasBlocks(g)
      /\ Thinned(h, h) /\ Connections(h) \subseteq Connections(g)
  <2>1. Sound(h) /\ h.params = g.params /\ Thinned(g, h)
    BY DEF Swept, Thinned
  <2> QED BY <2>1, ThinnedItself, ThinnedTwice DEF HasBlocks
<1>2. /\ g.elements \in Seq(Elements) /\ h.elements \in Seq(Elements) /\ IsInjective(g.elements)
      /\ Len(g.elements) \in Nat /\ Len(h.elements) \in Nat
  BY <1>1, GraphFacts DEF Sound
<1>3. 1..i = 1..(i - 1) \cup {i}
  BY <1>2
<1>4. CASE ~here
  <2>1. k = h
    BY <1>4 DEF RewriteNext
  <2>2. Connections(h) = Connections(g) => \A b \in HasBlocks(g) : g.elements[i] # Block(b)
    <3> SUFFICES ASSUME Connections(h) = Connections(g), NEW b \in HasBlocks(g),
                        g.elements[i] = Block(b)
                 PROVE  FALSE
      OBVIOUS
    <3>1. h.elements = g.elements /\ i <= Len(h.elements)
      BY <1>2 DEF Swept, Thinned
    <3>2. b \in Ids
      BY GraphFacts
    <3> QED BY <1>4, <3>1, <3>2, ElementFacts
  <2> QED BY <1>3, <2>1, <2>2 DEF Swept
<1>5. CASE here
  <2> DEFINE b == h.elements[i].block
  <2>1. h.elements[i] \in Elements /\ h.elements[i] \in ToSet(h.elements)
    BY <1>2, <1>5 DEF ToSet
  <2>2. b \in HasBlocks(h) /\ h.elements[i] = Block(b)
    <3>1. h.elements[i] \in {Options} \cup {Block(x) : x \in HasBlocks(h)}
      BY <1>1, <1>5, <2>1 DEF Sound, BlocksListed
    <3> QED BY <1>5, <3>1, ElementFacts
  <2>3. k = RewriteBlock(h, b)
    BY <1>5 DEF RewriteNext
  <2> HIDE DEF k, b
  <2>4. /\ Thinned(h, k)
        /\ k.ns = (IF h.renew /\ Cloned[b] # {} THEN Renewed(h) ELSE h.ns)
        /\ k.renew = (h.renew /\ Cloned[b] = {})
        /\ \A x \in HasBlocks(h) \ {b} : k.ports[x] = h.ports[x]
        /\ FollowsIn(k, b, k.ns)
        /\ \A c \in Connections(h) \ Connections(k) :
             \E d \in Cloned[b] : Beyond(c, d, b, Nports(g.params[b].expr, k.ns))
    <3>1. k.params = h.params
      BY <1>1, <2>2, <2>3, RewriteBlockFacts DEF Thinned
    <3> QED BY <1>1, <2>2, <2>3, <3>1, RewriteBlockFacts DEF FollowsIn
  <2>5. Thinned(g, k) /\ Connections(k) \subseteq Connections(h)
    BY <1>1, <2>4, ThinnedTwice
  <2>6. h.renew => Renewed(h) = ns
    BY <1>1 DEF Swept, Renewed
  <2>7. h.renew \in BOOLEAN
    BY <1>1, GraphFacts
  <2>8. k.ns = IF k.renew THEN g.ns ELSE ns
    BY <2>4, <2>6, <2>7 DEF Swept
  <2>9. Cloned[b] # {} => ~k.renew /\ k.ns = ns
    BY <2>4, <2>8
  <2>10. LostIn(g, k, ns)
    <3> SUFFICES ASSUME NEW c \in Connections(g) \ Connections(k)
                 PROVE  \E x \in HasBlocks(g) : \E d \in Cloned[x] :
                          Beyond(c, d, x, Nports(g.params[x].expr, ns))
      BY DEF LostIn
    <3>1. CASE c \notin Connections(h)
      BY <3>1 DEF Swept, LostIn
    <3>2. CASE c \in Connections(h)
      <4>1. PICK d \in Cloned[b] : Beyond(c, d, b, Nports(g.params[b].expr, k.ns))
        BY <2>4, <3>2
      <4> QED BY <1>1, <2>2, <2>9, <4>1
    <3> QED BY <3>1, <3>2
  <2>11. ASSUME Connections(k) = Connections(g), NEW j \in 1..i, NEW x \in HasBlocks(g),
                g.elements[j] = Block(x), Cloned[x] # {}
         PROVE  ~k.renew /\ FollowsIn(k, x, ns)
    <3>1. Connections(h) = Connections(g) /\ h.elements = g.elements
      BY <1>1, <2>5, <2>11 DEF Thinned
    <3>2. CASE j = i
      <4>1. x = b
        BY <2>2, <2>11, <3>1, <3>2, ElementFacts
      <4> QED BY <2>4, <2>9, <2>11, <4>1
    <3>3. CASE j # i
      <4>1. j \in 1..(i - 1) /\ j \in DOMAIN g.elements /\ i \in DOMAIN g.elements
        BY <1>2, <1>3, <3>3
      <4>2. x # b
        BY <1>2, <2>2, <2>11, <3>1, <3>3, <4>1 DEF IsInjective
      <4>3. ~h.renew /\ FollowsIn(h, x, ns)
        BY <2>11, <3>1, <4>1 DEF Swept
      <4>4. k.ports[x] = h.ports[x] /\ k.params = h.params
        BY <1>1, <2>4, <4>2 DEF Thinned
      <4> QED BY <2>4, <4>3, <4>4 DEF FollowsIn
    <3> QED BY <3>2, <3>3
  <2> QED BY <2>5, <2>8, <2>10, <2>11 DEF Swept, k
<1> QED BY <1>4, <1>5

LEMMA RewriteFacts ==
  ASSUME NEW g, Sound(g)
  PROVE  LET h == Rewrite(g)
         IN  /\ Thinned(g, h) /\ LostIn(g, h, Renewed(g))
             /\ h.ns = IF h.renew THEN g.ns ELSE Renewed(g)
             /\ Connections(h) = Connections(g) =>
                  \A b \in HasBlocks(g) :
                    Cloned[b] # {} => ~h.renew /\ FollowsIn(h, b, Renewed(g))
PROOF
<1> DEFINE first == [g EXCEPT !.renew = TRUE]
           n == Len(g.elements)
           step(h, i) == RewriteNext(h, i)
           S == [i \in 0..n |-> {h \in FlowGraphs : Swept(first, i, h)}]
           F == [i \in 1..n |-> [h \in FlowGraphs |-> step(h, i)]]
           IsRun(f) == f = [i \in 0..n |-> IF i = 0 THEN first ELSE step(f[i - 1], i)]
           after == CHOOSE f : IsRun(f)
<1>1. g \in FlowGraphs /\ n \in Nat
  BY GraphFacts DEF Sound
<1>2. /\ first \in FlowGraphs /\ first.elements = g.elements /\ first.params = g.params
      /\ first.ports = g.ports /\ first.ns = g.ns /\ first.renew = TRUE
  BY <1>1 DEF FlowGraphs
<1> HIDE DEF first
<1>3. Sound(first)
  BY <1>2 DEF Sound, BlocksListed, PortsOf, PlainPorts, Attached, Connections, HasBlocks,
              CanConnect, PortExists
<1>4. first \in S[0]
  <2>1. Thinned(first, first)
    BY <1>3, ThinnedItself
  <2>2. Swept(first, 0, first)
    BY <1>2, <2>1 DEF Swept, LostIn
  <2> QED BY <1>1, <1>2, <2>2
<1>5. \A i \in 1..n : \A h \in S[i - 1] : F[i][h] \in S[i] /\ F[i][h] = step(h, i)
  <2> SUFFICES ASSUME NEW i \in 1..n, NEW h \in S[i - 1]
               PROVE  F[i][h] \in S[i] /\ F[i][h] = step(h, i)
    OBVIOUS
  <2>1. h \in FlowGraphs /\ Swept(first, i - 1, h) /\ i \in 1..Len(first.elements) /\ i \in 0..n
    BY <1>1, <1>2
  <2>2. F[i][h] = step(h, i)
    BY <2>1
  <2>3. Swept(first, i, step(h, i))
    BY <1>3, <2>1, RewriteNextSweeps
  <2>4. step(h, i) \in FlowGraphs
    BY <2>3 DEF Swept, Thinned, Sound
  <2> QED BY <2>1, <2>2, <2>3, <2>4
<1> HIDE DEF S, F, step
<1>6. PICK f : Runs(f, n, S, first, F)
  BY <1>1, <1>4, <1>5, LoopRuns
<1>7. IsRun(f)
  <2>1. \A i \in 0..n : f[i] = IF i = 0 THEN first ELSE step(f[i - 1], i)
    BY <1>1, <1>5, <1>6, RunsFacts
  <2> QED BY <1>6, <2>1 DEF Runs
<1>8. IsRun(after)
  BY <1>7
<1>9. after[n] \in S[n]
  <2>1. after[0] = first /\ \A i \in 1..n : after[i] = step(after[i - 1], i)
    <3>1. 0 \in 0..n /\ \A i \in 1..n : i \in 0..n /\ i # 0
      BY <1>1
    <3> HIDE DEF after
    <3> QED BY <1>8, <3>1
  <2> HIDE DEF after
  <2>2. \A i \in 1..n : after[i - 1] \in S[i - 1] => after[i] \in S[i]
    BY <1>5, <2>1
  <2> QED BY <1>1, <1>4, <2>1, <2>2, LoopKeeps
<1> DEFINE done == Iterate(RewriteNext, [g EXCEPT !.renew = TRUE], Len(g.elements))
<1>10. done = after[n]
  BY DEF Iterate, step, first
<1>11. Swept(first, n, done)
  <2> HIDE DEF after, done
  <2> QED BY <1>1, <1>9, <1>10 DEF S
<1> DEFINE h == Rewrite(g)
           ns == Renewed(g)
<1>12. h = IF \E b \in HasBlocks(g) : Cloned[b] # {} THEN Evaluated(done) ELSE done
  BY DEF Rewrite
<1> HIDE DEF done, h
<1>13. /\ Sound(done) /\ done.params = g.params
       /\ done.ns = IF done.renew THEN g.ns ELSE Renewed(first)
       /\ Renewed(first) = ns /\ (done.renew => Renewed(done) = ns)
       /\ Connections(first) = Connections(g) /\ HasBlocks(first) = HasBlocks(g)
  BY <1>2, <1>11 DEF Swept, Thinned, Renewed, Connections, HasBlocks
<1>14. /\ Sound(h) /\ h.elements = done.elements /\ h.params = done.params /\ h.ports = done.ports
       /\ h.ns = IF h.renew THEN g.ns ELSE ns
       /\ done.renew = FALSE => h.renew = FALSE
  BY <1>12, <1>13, EvaluatedFacts
<1>15. Connections(h) = Connections(done)
  BY <1>14 DEF Connections
<1>16. Thinned(g, h) /\ LostIn(g, h, ns)
  BY <1>2, <1>11, <1>13, <1>14, <1>15 DEF Swept, Thinned, LostIn
<1>17. ASSUME Connections(h) = Connections(g), NEW b \in HasBlocks(g), Cloned[b] # {}
       PROVE  ~h.renew /\ FollowsIn(h, b, ns)
  <2>1. Block(b) \in ToSet(g.elements) /\ g.elements \in Seq(Elements)
    BY GraphFacts
  <2>2. PICK j \in 1..n : first.elements[j] = Block(b)
    BY <1>2, <2>1 DEF ToSet
  <2>3. ~done.renew /\ FollowsIn(done, b, Renewed(first))
    BY <1>11, <1>13, <1>15, <1>17, <2>2 DEF Swept
  <2>4. done.renew \in BOOLEAN
    BY <1>13, GraphFacts
  <2> QED BY <1>13, <1>14, <2>3, <2>4 DEF FollowsIn
<1> QED BY <1>14, <1>16, <1>17 DEF h

\* update() makes of g what a rewrite makes of it, in the namespace of its variables
Updated(g, h) ==
  /\ Thinned(g, h) /\ LostIn(g, h, h.ns)
  /\ h.renew = FALSE /\ h.ns = Renewed(g)
  /\ Connections(h) = Connections(g) => \A b \in HasBlocks(h) : FollowsIn(h, b, h.ns)

LEMMA UpdateFacts ==
  ASSUME NEW g, Sound(g)
  PROVE  Updated(g, Update(g))
PROOF
<1> DEFINE k == Rewrite(g)
           h == Update(g)
           ns == Renewed(g)
<1>1. /\ Thinned(g, k) /\ LostIn(g, k, ns) /\ k.ns = IF k.renew THEN g.ns ELSE ns
      /\ Connections(k) = Connections(g) =>
           \A b \in HasBlocks(g) : Cloned[b] # {} => ~k.renew /\ FollowsIn(k, b, ns)
  BY RewriteFacts
<1>2. h = Evaluated(k)
  BY DEF Update
<1> HIDE DEF h, k
<1>3. Sound(k) /\ k.params = g.params /\ HasBlocks(k) = HasBlocks(g) /\ k.renew \in BOOLEAN
  BY <1>1, GraphFacts DEF Thinned, HasBlocks
<1>4. k.renew => Renewed(k) = ns
  BY <1>1, <1>3 DEF Renewed
<1>5. /\ Sound(h) /\ h.elements = k.elements /\ h.params = k.params /\ h.ports = k.ports
      /\ h.renew = FALSE /\ h.ns = ns
  BY <1>1, <1>2, <1>3, <1>4, EvaluatedFacts
<1>6. Connections(h) = Connections(k) /\ HasBlocks(h) = HasBlocks(g)
  BY <1>3, <1>5 DEF Connections, HasBlocks
<1>7. Thinned(g, h) /\ LostIn(g, h, ns)
  BY <1>1, <1>3, <1>5, <1>6 DEF Thinned, LostIn
<1>8. ASSUME Connections(h) = Connections(g), NEW b \in HasBlocks(h)
      PROVE  FollowsIn(h, b, ns)
  BY <1>1, <1>3, <1>5, <1>6, <1>8 DEF FollowsIn
<1> QED BY <1>5, <1>7, <1>8 DEF h, Updated

LEMMA LostTwice ==
  ASSUME NEW g, NEW h, NEW k, NEW ns, h.params = g.params, LostIn(g, h, ns), LostIn(h, k, ns)
  PROVE  LostIn(g, k, ns)
PROOF
  BY DEF LostIn, HasBlocks

\* import_data() and then update()
LEMMA RewriteThenUpdate ==
  ASSUME NEW g, Sound(g)
  PROVE  LET h == Update(Rewrite(g))
         IN  /\ Updated(Rewrite(g), h) /\ Thinned(g, h)
             /\ LostIn(g, h, h.ns) /\ h.ns = Renewed(g)
PROOF
<1> DEFINE k == Rewrite(g)
           h == Update(k)
<1>1. /\ Thinned(g, k) /\ LostIn(g, k, Renewed(g)) /\ k.ns = IF k.renew THEN g.ns ELSE Renewed(g)
  BY RewriteFacts
<1> HIDE DEF k
<1>2. Updated(k, h)
  BY <1>1, UpdateFacts DEF Thinned
<1> HIDE DEF h
<1>3. h.ns = Renewed(g)
  BY <1>1, <1>2 DEF Updated, Thinned, Renewed
<1>4. Thinned(g, h) /\ LostIn(g, h, h.ns)
  BY <1>1, <1>2, <1>3, ThinnedTwice, LostTwice DEF Updated, Thinned
<1> QED BY <1>2, <1>3, <1>4 DEF h, k

-----------------------------------------------------------------------------
(* The edits.                                                              *)

LEMMA AddBlockFacts ==
  ASSUME NEW g, Sound(g), NEW b \in Ids, b \notin HasBlocks(g), NEW p \in Params
  PROVE  LET h == AddBlock(g, b, p)
         IN  /\ Sound(h) /\ HasBlocks(h) = HasBlocks(g) \cup {b}
             /\ h.params[b] = p /\ \A x \in HasBlocks(g) : h.params[x] = g.params[x]
             /\ \A x \in HasBlocks(g) : h.ports[x] = g.ports[x]
             /\ h.ns = g.ns /\ h.renew = g.renew /\ Connections(h) = Connections(g)
PROOF
<1> DEFINE h == AddBlock(g, b, p)
           E == Append(g.elements, Block(b))
           D == HasBlocks(g) \cup {b}
           X == [x \in D |-> IF x = b THEN p ELSE g.params[x]]
           N == [d \in Dirs |-> IF d \in Cloned[b] THEN 1 ELSE Fixed[b][d]]
           Y == [x \in D |-> IF x = b THEN N ELSE g.ports[x]]
<1>1. /\ g \in FlowGraphs /\ g.elements \in Seq(Elements) /\ IsInjective(g.elements)
      /\ DOMAIN g.ports = HasBlocks(g) /\ D \in SUBSET Ids
      /\ \A x \in HasBlocks(g) : g.params[x] \in Params /\ g.ports[x] \in [Dirs -> Nat]
  BY GraphFacts DEF Sound, PortsOf
<1>2. Block(b) \in Elements /\ Block(b) \notin ToSet(g.elements)
  <2>1. Block(b) \in Elements
    BY DEF Elements
  <2>2. ASSUME Block(b) \in ToSet(g.elements) PROVE FALSE
    <3>1. Block(b) \in {Options} \cup {Block(x) : x \in HasBlocks(g)}
      BY <2>2, ElementFacts DEF Sound, BlocksListed
    <3> QED BY <3>1, ElementFacts
  <2> QED BY <2>1, <2>2
<1>3. E \in Seq(Elements) /\ IsInjective(E) /\ ToSet(E) = ToSet(g.elements) \cup {Block(b)}
  BY <1>1, <1>2, Appended
<1>4. X \in ParamMaps
  <2>1. X \in [D -> Params]
    BY <1>1
  <2> HIDE DEF X, D
  <2> QED BY <1>1, <2>1 DEF ParamMaps
<1>5. Y \in PortMaps
  <2>1. N \in [Dirs -> Nat]
    BY PortsAssumption
  <2>2. Y \in [D -> [Dirs -> Nat]]
    BY <1>1, <2>1
  <2> HIDE DEF Y, D
  <2> QED BY <1>1, <2>2 DEF PortMaps
<1>6. h = [g EXCEPT !.elements = E, !.params = X, !.ports = Y]
  BY <1>1 DEF AddBlock, FlowGraphs, HasBlocks, Sound, PortsOf
<1>7. /\ DOMAIN X = D /\ X[b] = p /\ \A x \in HasBlocks(g) : X[x] = g.params[x]
      /\ DOMAIN Y = D /\ \A x \in HasBlocks(g) : Y[x] = g.ports[x]
      /\ \A d \in Dirs \ Cloned[b] : Y[b][d] = Fixed[b][d]
  OBVIOUS
<1> HIDE DEF h, E, X, Y
<1>8. /\ h \in FlowGraphs /\ h.elements = E /\ h.params = X /\ h.ports = Y
      /\ h.ns = g.ns /\ h.renew = g.renew
  BY <1>1, <1>3, <1>4, <1>5, <1>6 DEF FlowGraphs
<1>9. HasBlocks(h) = D /\ Connections(h) = Connections(g)
  <2>1. ~IsConnection(Block(b))
    BY ElementFacts DEF IsConnection
  <2> QED BY <1>3, <1>7, <1>8, <2>1 DEF HasBlocks, Connections
<1>10. BlocksListed(h) /\ PortsOf(h)
  <2>1. \A e \in ToSet(E) : IsBlock(e) <=> e = Block(b) \/ (e \in ToSet(g.elements) /\ IsBlock(e))
    BY <1>3, ElementFacts
  <2>2. {e \in ToSet(E) : IsBlock(e)} = {Options} \cup {Block(x) : x \in HasBlocks(g)} \cup {Block(b)}
    BY <1>3, <2>1 DEF Sound, BlocksListed
  <2> QED BY <1>7, <1>8, <1>9, <2>2 DEF BlocksListed, PortsOf
<1>11. PlainPorts(h)
  BY <1>7, <1>8, <1>9 DEF Sound, PlainPorts
<1>12. Attached(h)
  BY <1>7, <1>8, <1>9 DEF Sound, Attached, CanConnect, PortExists
<1> QED BY <1>3, <1>7, <1>8, <1>9, <1>10, <1>11, <1>12 DEF h, Sound

LEMMA ConnectFacts ==
  ASSUME NEW g, Sound(g), NEW c \in Wires, CanConnect(g, c), c \notin Connections(g)
  PROVE  LET h == Connect(g, c)
         IN  /\ Sound(h) /\ h.params = g.params /\ h.ports = g.ports
             /\ h.ns = g.ns /\ h.renew = g.renew
             /\ Connections(h) = Connections(g) \cup {c}
PROOF
<1> DEFINE h == Connect(g, c)
           E == Append(g.elements, c)
<1>1. /\ g \in FlowGraphs /\ g.elements \in Seq(Elements) /\ IsInjective(g.elements)
      /\ c \in Elements /\ c \notin ToSet(g.elements) /\ ~IsBlock(c)
  BY GraphFacts, ElementFacts DEF Sound, Elements
<1>2. E \in Seq(Elements) /\ IsInjective(E) /\ ToSet(E) = ToSet(g.elements) \cup {c}
  BY <1>1, Appended
<1>3. /\ h \in FlowGraphs /\ h.elements = E /\ h.params = g.params /\ h.ports = g.ports
      /\ h.ns = g.ns /\ h.renew = g.renew
  <2>1. h = [g EXCEPT !.elements = E]
    BY <1>1 DEF Connect, FlowGraphs
  <2> HIDE DEF h, E
  <2> QED BY <1>1, <1>2, <2>1, ElementsExcept
<1> HIDE DEF h, E
<1>4. Connections(h) = Connections(g) \cup {c}
  BY <1>1, <1>2, <1>3 DEF Connections, IsConnection
<1>5. BlocksListed(h)
  BY <1>1, <1>2, <1>3 DEF Sound, BlocksListed, HasBlocks
<1>6. Sound(h)
  BY <1>2, <1>3, <1>4, <1>5 DEF Sound, PortsOf, PlainPorts, Attached, HasBlocks, CanConnect, PortExists
<1> QED BY <1>3, <1>4, <1>6 DEF h

LEMMA RaiseFacts ==
  ASSUME NEW g, Sound(g), NEW e \in ToSet(g.elements)
  PROVE  LET h == Raise(g, e)
         IN  /\ Sound(h) /\ h.params = g.params /\ h.ports = g.ports
             /\ h.ns = g.ns /\ h.renew = g.renew
             /\ ToSet(h.elements) = ToSet(g.elements) /\ Connections(h) = Connections(g)
PROOF
<1> DEFINE h == Raise(g, e)
           rest == Without(g.elements, {e})
           E == Append(rest, e)
<1>1. /\ g \in FlowGraphs /\ g.elements \in Seq(Elements) /\ IsInjective(g.elements)
      /\ e \in Elements
  BY GraphFacts DEF Sound, ToSet
<1>2. rest \in Seq(Elements) /\ IsInjective(rest) /\ ToSet(rest) = ToSet(g.elements) \ {e}
  BY <1>1, WithoutFacts
<1> HIDE DEF rest
<1>3. E \in Seq(Elements) /\ IsInjective(E) /\ ToSet(E) = ToSet(g.elements)
  <2>1. /\ E \in Seq(Elements) /\ ToSet(E) = ToSet(rest) \cup {e}
        /\ e \notin ToSet(rest) => IsInjective(E)
    BY <1>1, <1>2, Appended
  <2> QED BY <1>2, <2>1
<1>4. /\ h \in FlowGraphs /\ h.elements = E /\ h.params = g.params /\ h.ports = g.ports
      /\ h.ns = g.ns /\ h.renew = g.renew
  <2>1. h = [g EXCEPT !.elements = E]
    BY <1>1 DEF Raise, FlowGraphs, rest
  <2> HIDE DEF h, E
  <2> QED BY <1>1, <1>3, <2>1, ElementsExcept
<1> HIDE DEF h, E
<1>5. Connections(h) = Connections(g)
  BY <1>3, <1>4 DEF Connections
<1>6. Sound(h)
  BY <1>3, <1>4, <1>5 DEF Sound, BlocksListed, PortsOf, PlainPorts, Attached, HasBlocks, CanConnect, PortExists
<1> QED BY <1>3, <1>4, <1>5, <1>6 DEF h

LEMMA SetParam ==
  ASSUME NEW g, Sound(g), NEW b \in HasBlocks(g), NEW p \in Params
  PROVE  LET h == [g EXCEPT !.params[b] = p]
         IN  /\ Sound(h) /\ h.elements = g.elements /\ HasBlocks(h) = HasBlocks(g)
             /\ h.ns = g.ns /\ h.renew = g.renew /\ Connections(h) = Connections(g)
PROOF
<1> DEFINE h == [g EXCEPT !.params[b] = p]
           X == [g.params EXCEPT ![b] = p]
<1>1. /\ g \in FlowGraphs /\ HasBlocks(g) \in SUBSET Ids
      /\ \A x \in HasBlocks(g) : g.params[x] \in Params
      /\ g.params \in [HasBlocks(g) -> Params]
  BY GraphFacts DEF Sound, ParamMaps, HasBlocks
<1>2. X \in ParamMaps /\ DOMAIN X = HasBlocks(g)
  <2>1. X \in [HasBlocks(g) -> Params]
    BY <1>1
  <2> HIDE DEF X
  <2> QED BY <1>1, <2>1 DEF ParamMaps
<1>3. /\ h \in FlowGraphs /\ h.params = X /\ h.ports = g.ports /\ h.elements = g.elements
      /\ h.ns = g.ns /\ h.renew = g.renew
  BY <1>1, <1>2, ParamsExcept
<1> HIDE DEF h, X
<1>4. HasBlocks(h) = HasBlocks(g) /\ Connections(h) = Connections(g)
  BY <1>2, <1>3 DEF HasBlocks, Connections
<1>5. Sound(h)
  BY <1>3, <1>4 DEF Sound, BlocksListed, PortsOf, PlainPorts, Attached, CanConnect, PortExists
<1> QED BY <1>3, <1>4, <1>5 DEF h

LEMMA RemoveElementSound ==
  ASSUME NEW g, Sound(g), NEW e \in ToSet(g.elements)
  PROVE  Sound(RemoveElement(g, e))
PROOF
<1>1. CASE e = Options
  BY <1>1, RaiseFacts DEF RemoveElement
<1>2. CASE e # Options /\ IsConnection(e)
  <2>1. {e} \subseteq Connections(g)
    BY <1>2 DEF Connections
  <2> QED BY <1>2, <2>1, CutFacts DEF RemoveElement
<1>3. CASE e # Options /\ ~IsConnection(e)
  <2> DEFINE b == e.block
             kept == HasBlocks(g) \ {b}
             gone == {e} \cup {c \in Connections(g) : UsesBlock(c, b)}
             E == Without(g.elements, gone)
             X == [x \in kept |-> g.params[x]]
             Y == [x \in kept |-> g.ports[x]]
             h == RemoveElement(g, e)
  <2>1. /\ g \in FlowGraphs /\ g.elements \in Seq(Elements) /\ IsInjective(g.elements)
        /\ \A x \in HasBlocks(g) : g.params[x] \in Params /\ g.ports[x] \in [Dirs -> Nat]
        /\ HasBlocks(g) \subseteq Ids
    BY GraphFacts DEF Sound
  <2>2. b \in HasBlocks(g) /\ e = Block(b)
    <3>1. e \in {Options} \cup {Block(x) : x \in HasBlocks(g)}
      BY <1>3 DEF Sound, BlocksListed, IsConnection
    <3> QED BY <1>3, <3>1, ElementFacts
  <2>3. h = [g EXCEPT !.elements = E, !.params = X, !.ports = Y]
    <3>1. h = [Cut(g, gone) EXCEPT !.params = X, !.ports = Y]
      BY <1>3 DEF RemoveElement
    <3>2. Cut(g, gone) = [g EXCEPT !.elements = E]
      BY <2>1 DEF Cut, FlowGraphs
    <3> HIDE DEF E, X, Y, gone
    <3> QED BY <2>1, <3>1, <3>2 DEF FlowGraphs
  <2>4. E \in Seq(Elements) /\ IsInjective(E) /\ ToSet(E) = ToSet(g.elements) \ gone
    BY <2>1, WithoutFacts
  <2>5. X \in ParamMaps /\ Y \in PortMaps /\ DOMAIN X = kept /\ DOMAIN Y = kept
    <3>1. X \in [kept -> Params] /\ Y \in [kept -> [Dirs -> Nat]] /\ kept \in SUBSET Ids
      BY <2>1
    <3>2. DOMAIN X = kept /\ DOMAIN Y = kept
      OBVIOUS
    <3> HIDE DEF X, Y, kept
    <3> QED BY <3>1, <3>2 DEF ParamMaps, PortMaps
  <2>6. \A x \in kept : X[x] = g.params[x] /\ Y[x] = g.ports[x]
    OBVIOUS
  <2> HIDE DEF h, E, X, Y
  <2>7. h \in FlowGraphs /\ h.elements = E /\ h.params = X /\ h.ports = Y
    BY <2>1, <2>3, <2>4, <2>5 DEF FlowGraphs
  <2>8. HasBlocks(h) = kept /\ Connections(h) = {c \in Connections(g) : ~UsesBlock(c, b)}
    <3>1. ~IsConnection(e)
      BY <1>3
    <3> QED BY <2>4, <2>5, <2>7, <3>1 DEF HasBlocks, Connections
  <2>9. BlocksListed(h)
    <3>1. \A x \in ToSet(E) : IsBlock(x) <=> x \in ToSet(g.elements) /\ IsBlock(x) /\ x # e
      BY <2>4
    <3>2. \A x \in ToSet(g.elements) : IsBlock(x) /\ x # e => x \in ToSet(E)
      BY <2>4 DEF Connections, IsConnection
    <3>3. {x \in ToSet(E) : IsBlock(x)} = ({Options} \cup {Block(x) : x \in HasBlocks(g)}) \ {e}
      BY <3>1, <3>2 DEF Sound, BlocksListed
    <3>4. ({Options} \cup {Block(x) : x \in HasBlocks(g)}) \ {e} = {Options} \cup {Block(x) : x \in kept}
      BY <1>3, <2>2, ElementFacts
    <3> QED BY <2>7, <2>8, <3>3, <3>4 DEF BlocksListed
  <2>10. PortsOf(h) /\ PlainPorts(h)
    BY <2>5, <2>6, <2>7, <2>8 DEF PortsOf, PlainPorts, Sound
  <2>11. Attached(h)
    <3> SUFFICES ASSUME NEW c \in Connections(h) PROVE CanConnect(h, c)
      BY DEF Attached
    <3>1. c \in Connections(g) /\ CanConnect(g, c) /\ c.source[1] # b /\ c.sink[1] # b
      BY <2>8 DEF Sound, Attached, UsesBlock
    <3> QED BY <2>6, <2>7, <2>8, <3>1 DEF CanConnect, PortExists
  <2>12. Sound(h)
    BY <2>4, <2>7, <2>9, <2>10, <2>11 DEF Sound
  <2> QED BY <2>12 DEF h
<1> QED BY <1>1, <1>2, <1>3

-----------------------------------------------------------------------------
(* Export.                                                                 *)

LEMMA LengthIsSize ==
  ASSUME NEW T, NEW s \in Seq(T), IsInjective(s)
  PROVE  Cardinality(ToSet(s)) = Len(s)
PROOF
<1>1. Len(s) \in Nat /\ DOMAIN s = 1..Len(s) /\ s = [i \in 1..Len(s) |-> s[i]]
  OBVIOUS
<1>2. s \in [1..Len(s) -> ToSet(s)]
  BY <1>1 DEF ToSet
<1>3. \A x \in ToSet(s) : \E i \in 1..Len(s) : s[i] = x
  BY <1>1 DEF ToSet
<1>4. s \in Bijection(1..Len(s), ToSet(s))
  BY <1>2, <1>3 DEF Bijection, Injection, Surjection
<1> QED BY <1>1, <1>4, FS_CountingElements DEF ExistsBijection

LEMMA JoinedFacts ==
  ASSUME NEW T, NEW s \in Seq(T), NEW x \in T, s # << >>, IsInjective(s), x \notin ToSet(s)
  PROVE  LET j == <<Head(s), x>> \o Tail(s)
         IN  /\ j \in Seq(T) /\ Len(j) = Len(s) + 1 /\ IsInjective(j)
             /\ ToSet(j) = ToSet(s) \cup {x}
PROOF
<1> DEFINE n == Len(s)
           j == <<Head(s), x>> \o Tail(s)
<1>1. /\ n \in Nat \ {0} /\ Head(s) = s[1] /\ Tail(s) \in Seq(T) /\ Len(Tail(s)) = n - 1
      /\ \A i \in 1..(n - 1) : Tail(s)[i] = s[i + 1]
  BY HeadTailProperties, EmptySeq
<1>2. <<Head(s), x>> \in Seq(T) /\ Len(<<Head(s), x>>) = 2
  BY <1>1
<1>3. /\ j \in Seq(T) /\ Len(j) = n + 1 /\ j[1] = s[1] /\ j[2] = x
      /\ \A i \in 3..(n + 1) : j[i] = s[i - 1]
  <2>1. /\ j \in Seq(T) /\ Len(j) = 2 + (n - 1)
        /\ \A i \in 1..(2 + (n - 1)) : j[i] = IF i <= 2 THEN <<Head(s), x>>[i] ELSE Tail(s)[i - 2]
    BY <1>1, <1>2, ConcatProperties
  <2> HIDE DEF j
  <2>2. \A i \in 3..(n + 1) : i \in 1..(2 + (n - 1)) /\ ~(i <= 2) /\ i - 2 \in 1..(n - 1) /\ (i - 2) + 1 = i - 1
    BY <1>1
  <2>3. \A i \in 3..(n + 1) : j[i] = s[i - 1]
    BY <1>1, <2>1, <2>2
  <2> QED BY <1>1, <2>1, <2>3
<1> HIDE DEF j
<1>4. DOMAIN s = 1..n /\ DOMAIN j = 1..(n + 1) /\ \A i \in 1..n : s[i] # x
  BY <1>3 DEF ToSet
<1>5. IsInjective(j)
  <2> SUFFICES ASSUME NEW a \in 1..(n + 1), NEW b \in 1..(n + 1), j[a] = j[b] PROVE a = b
    BY <1>4 DEF IsInjective
  <2> DEFINE at(i) == IF i = 1 THEN 1 ELSE i - 1
  <2>1. \A i \in 1..(n + 1) : i # 2 => j[i] = s[at(i)] /\ at(i) \in 1..n
    BY <1>1, <1>3
  <2>2. CASE a = 2 \/ b = 2
    BY <1>3, <1>4, <2>1, <2>2
  <2>3. CASE a # 2 /\ b # 2
    <3>1. at(a) = at(b)
      BY <1>4, <2>1, <2>3 DEF IsInjective
    <3> QED BY <1>1, <2>3, <3>1
  <2> QED BY <2>2, <2>3
<1>6. ToSet(j) = ToSet(s) \cup {x}
  <2>1. \A i \in 1..(n + 1) : j[i] = x \/ \E k \in 1..n : j[i] = s[k]
    <3> SUFFICES ASSUME NEW i \in 1..(n + 1), i # 1, i # 2
                 PROVE  \E k \in 1..n : j[i] = s[k]
      BY <1>1, <1>3
    <3>1. i \in 3..(n + 1) /\ i - 1 \in 1..n
      BY <1>1
    <3> QED BY <1>3, <3>1
  <2>2. \A k \in 1..n : \E i \in 1..(n + 1) : j[i] = s[k]
    <3> SUFFICES ASSUME NEW k \in 1..n PROVE \E i \in 1..(n + 1) : j[i] = s[k]
      OBVIOUS
    <3>1. CASE k = 1
      BY <1>1, <1>3, <3>1
    <3>2. CASE k # 1
      <4>1. k + 1 \in 3..(n + 1) /\ k + 1 \in 1..(n + 1) /\ (k + 1) - 1 = k
        BY <1>1, <3>2
      <4>2. j[k + 1] = s[k]
        BY <1>3, <4>1
      <4> QED BY <4>1, <4>2
    <3> QED BY <3>1, <3>2
  <2>3. 2 \in 1..(n + 1)
    BY <1>1
  <2>4. ToSet(j) = {j[i] : i \in 1..(n + 1)} /\ ToSet(s) = {s[k] : k \in 1..n} /\ j[2] = x
    BY <1>3, <1>4 DEF ToSet
  <2>5. {j[i] : i \in 1..(n + 1)} \subseteq {s[k] : k \in 1..n} \cup {x}
    BY <2>1, Zenon
  <2>6. {s[k] : k \in 1..n} \subseteq {j[i] : i \in 1..(n + 1)}
    BY <2>2, Zenon
  <2>7. x \in {j[i] : i \in 1..(n + 1)}
    BY <2>3, <2>4, Zenon
  <2> QED BY <2>4, <2>5, <2>6, <2>7, Zenon
<1> QED BY <1>3, <1>5, <1>6 DEF j

\* the blocks, each once
InOrder(g, bs) ==
  /\ bs \in Seq(Elements) /\ IsInjective(bs)
  /\ ToSet(bs) = {Options} \cup {Block(b) : b \in HasBlocks(g)}

LEMMA BlocksInOrderFacts ==
  ASSUME NEW g, Sound(g)
  PROVE  InOrder(g, BlocksInOrder(g))
PROOF
<1> DEFINE blocks == Without(g.elements, Connections(g))
           n == Len(blocks)
           second(bs, b) == LET rest == Without(bs, {b}) IN <<Head(rest), b>> \o Tail(rest)
           step(bs, i) == IF bs[i].block \in Variables THEN second(bs, bs[i]) ELSE bs
           S == [i \in 0..n |-> {bs \in Seq(Elements) : InOrder(g, bs)}]
           F == [i \in 1..n |-> [bs \in Seq(Elements) |-> step(bs, i)]]
           IsRun(f) == f = [i \in 0..n |-> IF i = 0 THEN blocks ELSE step(f[i - 1], i)]
           after == CHOOSE f : IsRun(f)
<1>1. /\ g.elements \in Seq(Elements) /\ IsInjective(g.elements) /\ HasBlocks(g) \subseteq Ids
      /\ Connections(g) \subseteq ToSet(g.elements)
  BY GraphFacts DEF Sound, Connections
<1>2. InOrder(g, blocks) /\ n \in Nat
  <2>1. /\ blocks \in Seq(Elements) /\ IsInjective(blocks)
        /\ ToSet(blocks) = ToSet(g.elements) \ Connections(g)
    BY <1>1, WithoutFacts
  <2>2. ToSet(g.elements) \ Connections(g) = {e \in ToSet(g.elements) : IsBlock(e)}
    BY DEF Connections, IsConnection
  <2> QED BY <2>1, <2>2 DEF InOrder, Sound, BlocksListed
<1> HIDE DEF blocks
<1>3. blocks \in S[0]
  BY <1>2 DEF InOrder
<1>4. ASSUME NEW i \in 1..n, NEW bs, InOrder(g, bs)
      PROVE  InOrder(g, step(bs, i))
  <2> DEFINE e == bs[i]
             rest == Without(bs, {e})
  <2>1. Len(bs) = n
    BY <1>2, <1>4, LengthIsSize DEF InOrder
  <2>2. e \in ToSet(bs) /\ e \in Elements
    BY <1>4, <2>1 DEF InOrder, ToSet
  <2>3. CASE e.block \in Variables
    <3>1. e # Options /\ Options \in ToSet(bs)
      <4>1. Options.block \notin Variables
        BY IdsAssumption, ElementFacts DEF Options, Ids
      <4> QED BY <1>4, <2>3, <4>1 DEF InOrder
    <3>2. rest \in Seq(Elements) /\ IsInjective(rest) /\ ToSet(rest) = ToSet(bs) \ {e}
      BY <1>4, WithoutFacts DEF InOrder
    <3> HIDE DEF e, rest
    <3>3. rest # << >>
      <4>1. ToSet(<< >>) = {}
        BY DEF ToSet
      <4> QED BY <3>1, <3>2, <4>1
    <3> DEFINE j == <<Head(rest), e>> \o Tail(rest)
    <3>4. j \in Seq(Elements) /\ IsInjective(j) /\ ToSet(j) = ToSet(rest) \cup {e}
      BY <2>2, <3>2, <3>3, JoinedFacts
    <3>5. InOrder(g, j)
      <4> HIDE DEF j
      <4> QED BY <1>4, <2>2, <3>2, <3>4 DEF InOrder
    <3> QED BY <2>3, <3>5 DEF e, rest
  <2>4. CASE e.block \notin Variables
    BY <1>4, <2>4
  <2> QED BY <2>3, <2>4
<1>5. \A i \in 1..n : \A bs \in S[i - 1] : F[i][bs] \in S[i] /\ F[i][bs] = step(bs, i)
  <2> SUFFICES ASSUME NEW i \in 1..n, NEW bs \in S[i - 1]
               PROVE  F[i][bs] \in S[i] /\ F[i][bs] = step(bs, i)
    OBVIOUS
  <2>1. i - 1 \in 0..n /\ i \in 0..n
    BY <1>2
  <2>2. bs \in Seq(Elements) /\ InOrder(g, bs)
    BY <2>1
  <2>3. F[i][bs] = step(bs, i)
    BY <2>2
  <2>4. InOrder(g, step(bs, i))
    BY <1>4, <2>2
  <2> HIDE DEF F, step
  <2> QED BY <2>1, <2>3, <2>4 DEF InOrder
<1> HIDE DEF S, F, step
<1>6. PICK f : Runs(f, n, S, blocks, F)
  BY <1>2, <1>3, <1>5, LoopRuns
<1>7. IsRun(f)
  <2>1. \A i \in 0..n : f[i] = IF i = 0 THEN blocks ELSE step(f[i - 1], i)
    BY <1>2, <1>5, <1>6, RunsFacts
  <2> QED BY <1>6, <2>1 DEF Runs
<1>8. IsRun(after)
  BY <1>7
<1>9. after[n] \in S[n]
  <2>1. after[0] = blocks /\ \A i \in 1..n : after[i] = step(after[i - 1], i)
    <3>1. 0 \in 0..n /\ \A i \in 1..n : i \in 0..n /\ i # 0
      BY <1>2
    <3> HIDE DEF after
    <3> QED BY <1>8, <3>1
  <2> HIDE DEF after
  <2>2. \A i \in 1..n : after[i - 1] \in S[i - 1] => after[i] \in S[i]
    BY <1>5, <2>1
  <2>3. \A i \in 0..n : after[i] \in S[i]
    BY <1>2, <1>3, <2>1, <2>2, LoopKeeps
  <2> QED BY <1>2, <2>3
<1>10. BlocksInOrder(g) = after[n]
  BY DEF BlocksInOrder, Iterate, step, blocks
<1> HIDE DEF after
<1> QED BY <1>2, <1>9, <1>10 DEF S

\* the blocks of g, as they are recorded
RecordsOf(g) == {[id |-> b, param |-> g.params[b]] : b \in HasBlocks(g)}

LEMMA ExportFacts ==
  ASSUME NEW g, Sound(g)
  PROVE  /\ Export(g) \in Data /\ BlocksOf(Export(g)) = RecordsOf(g)
         /\ ToSet(Export(g).connections) = Connections(g)
PROOF
<1> DEFINE blocks == BlocksInOrder(g)
           record(e) == [id |-> e.block, param |-> IF e = Options THEN << >> ELSE g.params[e.block]]
           rs == [i \in DOMAIN blocks |-> record(blocks[i])]
           cs == Without(g.elements, ToSet(blocks))
<1>1. /\ blocks \in Seq(Elements) /\ IsInjective(blocks)
      /\ ToSet(blocks) = {Options} \cup {Block(b) : b \in HasBlocks(g)}
  BY BlocksInOrderFacts DEF InOrder
<1> HIDE DEF blocks
<1>2. Export(g).blocks = rs /\ Export(g).connections = cs /\ Export(g) = [blocks |-> rs, connections |-> cs]
  BY DEF Export, blocks
<1>3. /\ g.elements \in Seq(Elements) /\ IsInjective(g.elements) /\ HasBlocks(g) \subseteq Ids
      /\ \A b \in HasBlocks(g) : g.params[b] \in Params
  BY GraphFacts DEF Sound
<1>4. cs \in Seq(Wires) /\ IsInjective(cs) /\ ToSet(cs) = Connections(g)
  <2>1. cs \in Seq(Elements) /\ IsInjective(cs) /\ ToSet(cs) = ToSet(g.elements) \ ToSet(blocks)
    BY <1>3, WithoutFacts
  <2>2. ToSet(g.elements) \ ToSet(blocks) = Connections(g)
    BY <1>1, ElementFacts DEF Connections, IsConnection, Sound, BlocksListed, Options
  <2>3. Connections(g) \subseteq Wires
    BY GraphFacts
  <2>4. cs \in Seq(Wires)
    BY <2>1, <2>2, <2>3, NarrowList
  <2> QED BY <2>1, <2>2, <2>4
<1>5. \A e \in ToSet(blocks) :
        /\ e = Block(e.block)
        /\ \/ e = Options /\ record(e) = [id |-> "options", param |-> << >>]
           \/ /\ e # Options /\ e.block \in HasBlocks(g)
              /\ record(e) = [id |-> e.block, param |-> g.params[e.block]]
  <2> SUFFICES ASSUME NEW e \in ToSet(blocks)
               PROVE  /\ e = Block(e.block)
                      /\ \/ e = Options /\ record(e) = [id |-> "options", param |-> << >>]
                         \/ /\ e # Options /\ e.block \in HasBlocks(g)
                            /\ record(e) = [id |-> e.block, param |-> g.params[e.block]]
    OBVIOUS
  <2>1. CASE e = Options
    BY <2>1, ElementFacts DEF Options
  <2>2. CASE e # Options
    <3>1. PICK b \in HasBlocks(g) : e = Block(b)
      BY <1>1, <2>2
    <3> QED BY <2>2, <3>1, ElementFacts
  <2> QED BY <2>1, <2>2
<1>6. \A i \in 1..Len(blocks) : blocks[i] \in ToSet(blocks)
  BY <1>1 DEF ToSet
<1>7. DOMAIN rs = 1..Len(blocks) /\ \A i \in 1..Len(blocks) : rs[i] = record(blocks[i])
  BY <1>1
<1>8. rs \in Seq(Records)
  <2>1. \A e \in ToSet(blocks) : record(e) \in Records
    <3> HIDE DEF record
    <3> QED BY <1>3, <1>5 DEF Records
  <2>2. rs \in [1..Len(blocks) -> Records] /\ Len(blocks) \in Nat
    <3> HIDE DEF record
    <3> QED BY <1>1, <1>6, <2>1
  <2> HIDE DEF rs
  <2> QED BY <2>2
<1>9. \A i, j \in 1..Len(blocks) : rs[i].id = rs[j].id => i = j
  <2> SUFFICES ASSUME NEW i \in 1..Len(blocks), NEW j \in 1..Len(blocks), rs[i].id = rs[j].id
               PROVE  i = j
    OBVIOUS
  <2>1. blocks[i].block = blocks[j].block
    BY <1>7
  <2>2. blocks[i] = blocks[j]
    BY <1>5, <1>6, <2>1
  <2> QED BY <1>1, <2>2 DEF IsInjective
<1>10. \A e \in ToSet(blocks) : record(e).id = e.block
  OBVIOUS
<1> HIDE DEF rs, cs, record
<1>11. Export(g) \in Data
  BY <1>2, <1>4, <1>7, <1>8, <1>9 DEF Data
<1>12. ToSet(rs) = {record(e) : e \in ToSet(blocks)}
  BY <1>1, <1>7 DEF ToSet
<1>13. {r \in ToSet(rs) : r.id # "options"} = RecordsOf(g)
  <2>1. \A e \in ToSet(blocks) : record(e).id # "options" <=> e # Options
    BY <1>3, <1>5, <1>10, IdsAssumption, ElementFacts DEF Options
  <2>2. \A b \in HasBlocks(g) : /\ Block(b) \in ToSet(blocks) /\ Block(b) # Options
                                /\ Block(b).block = b
    BY <1>1, <1>3, ElementFacts
  <2> QED BY <1>5, <1>12, <2>1, <2>2 DEF RecordsOf
<1> QED BY <1>2, <1>4, <1>11, <1>13 DEF BlocksOf

-----------------------------------------------------------------------------
(* Import.                                                                 *)

\* the parameters in a file
ParamsOf(n) ==
  [b \in {n.blocks[i].id : i \in DOMAIN n.blocks} \ {"options"} |->
     n.blocks[CHOOSE i \in DOMAIN n.blocks : n.blocks[i].id = b].param]

LEMMA DataFacts ==
  ASSUME NEW n \in Data
  PROVE  /\ n.blocks \in Seq(Records) /\ Len(n.blocks) \in Nat /\ DOMAIN n.blocks = 1..Len(n.blocks)
         /\ n.connections \in Seq(Wires) /\ IsInjective(n.connections)
         /\ \A i, j \in DOMAIN n.blocks : n.blocks[i].id = n.blocks[j].id => i = j
         /\ \A i \in DOMAIN n.blocks :
              /\ n.blocks[i] = [id |-> n.blocks[i].id, param |-> n.blocks[i].param]
              /\ \/ n.blocks[i].id = "options"
                 \/ /\ n.blocks[i].id \in Ids /\ n.blocks[i].param \in Params
                    /\ n.blocks[i].id \in DOMAIN ParamsOf(n)
                    /\ n.blocks[i].param = ParamsOf(n)[n.blocks[i].id]
         /\ ParamsOf(n) \in ParamMaps
         /\ BlocksOf(n) = {[id |-> b, param |-> ParamsOf(n)[b]] : b \in DOMAIN ParamsOf(n)}
PROOF
<1> DEFINE bs == n.blocks
           Q == ParamsOf(n)
<1>1. /\ bs \in Seq(Records) /\ Len(bs) \in Nat /\ DOMAIN bs = 1..Len(bs)
      /\ n.connections \in Seq(Wires) /\ IsInjective(n.connections)
      /\ \A i, j \in DOMAIN bs : bs[i].id = bs[j].id => i = j
  BY DEF Data
<1>2. \A i \in DOMAIN bs :
        /\ bs[i] = [id |-> bs[i].id, param |-> bs[i].param]
        /\ bs[i].id = "options" \/ (bs[i].id \in Ids /\ bs[i].param \in Params)
  <2> SUFFICES ASSUME NEW i \in DOMAIN bs
               PROVE  /\ bs[i] = [id |-> bs[i].id, param |-> bs[i].param]
                      /\ bs[i].id = "options" \/ (bs[i].id \in Ids /\ bs[i].param \in Params)
    OBVIOUS
  <2> DEFINE r == bs[i]
  <2>1. r \in Records
    BY <1>1
  <2> HIDE DEF r
  <2>2. /\ r = [id |-> r.id, param |-> r.param]
        /\ r.id = "options" \/ (r.id \in Ids /\ r.param \in Params)
    BY <2>1 DEF Records
  <2> QED BY <2>2 DEF r
<1>3. /\ DOMAIN Q = {bs[i].id : i \in DOMAIN bs} \ {"options"}
      /\ \A b \in DOMAIN Q : Q[b] = bs[CHOOSE i \in DOMAIN bs : bs[i].id = b].param
  BY DEF ParamsOf
<1> HIDE DEF bs, Q
<1>4. ASSUME NEW i \in DOMAIN bs, bs[i].id # "options"
      PROVE  bs[i].id \in DOMAIN Q /\ bs[i].param = Q[bs[i].id]
  <2> DEFINE j == CHOOSE j \in DOMAIN bs : bs[j].id = bs[i].id
  <2>1. bs[i].id \in DOMAIN Q
    BY <1>3, <1>4
  <2>2. j \in DOMAIN bs /\ bs[j].id = bs[i].id
    OBVIOUS
  <2>3. j = i
    <3> HIDE DEF j
    <3> QED BY <1>1, <2>2
  <2> QED BY <1>3, <2>1, <2>3
<1>5. \A b \in DOMAIN Q : \E i \in DOMAIN bs : bs[i].id = b /\ b # "options"
  BY <1>3
<1>6. Q \in ParamMaps
  <2>1. \A b \in DOMAIN Q : b \in Ids /\ Q[b] \in Params
    BY <1>2, <1>4, <1>5
  <2>2. Q = [b \in DOMAIN Q |-> Q[b]]
    BY DEF Q, ParamsOf
  <2>3. Q \in [DOMAIN Q -> Params] /\ DOMAIN Q \in SUBSET Ids
    BY <2>1, <2>2
  <2> QED BY <2>3 DEF ParamMaps
<1>7. BlocksOf(n) = {[id |-> b, param |-> Q[b]] : b \in DOMAIN Q}
  <2>1. BlocksOf(n) = {x \in {bs[i] : i \in DOMAIN bs} : x.id # "options"}
    BY DEF BlocksOf, ToSet, bs
  <2>2. ASSUME NEW x \in BlocksOf(n)
        PROVE  x \in {[id |-> b, param |-> Q[b]] : b \in DOMAIN Q}
    <3>1. PICK i \in DOMAIN bs : x = bs[i] /\ bs[i].id # "options"
      BY <2>1
    <3>2. bs[i].id \in DOMAIN Q /\ x = [id |-> bs[i].id, param |-> Q[bs[i].id]]
      BY <1>2, <1>4, <3>1
    <3> QED BY <3>2
  <2>3. ASSUME NEW b \in DOMAIN Q
        PROVE  [id |-> b, param |-> Q[b]] \in BlocksOf(n)
    <3>1. PICK i \in DOMAIN bs : bs[i].id = b /\ b # "options"
      BY <1>5
    <3>2. bs[i] = [id |-> b, param |-> Q[b]]
      BY <1>2, <1>4, <3>1
    <3> QED BY <2>1, <3>1, <3>2
  <2> QED BY <2>2, <2>3
<1> QED BY <1>1, <1>2, <1>4, <1>6, <1>7 DEF bs, Q

LEMMA EmptiedFacts ==
  ASSUME NEW g, g.ns \in Spaces, g.renew \in BOOLEAN
  PROVE  LET h == Emptied(g)
         IN  /\ Sound(h) /\ Connections(h) = {} /\ HasBlocks(h) = {}
             /\ h.ns = g.ns /\ h.renew = g.renew
PROOF
<1> DEFINE h == Emptied(g)
<1>1. /\ <<Options>> \in Seq(Elements) /\ IsInjective(<<Options>>) /\ ToSet(<<Options>>) = {Options}
  <2>1. Options \in Elements
    BY DEF Elements
  <2> QED BY <2>1 DEF IsInjective, ToSet
<1>2. << >> \in ParamMaps /\ << >> \in PortMaps
  <2>1. << >> \in [{} -> Params] /\ << >> \in [{} -> [Dirs -> Nat]] /\ {} \in SUBSET Ids
    OBVIOUS
  <2> QED BY <2>1 DEF ParamMaps, PortMaps
<1>3. /\ NewGraph \in FlowGraphs /\ NewGraph.elements = <<Options>>
      /\ NewGraph.params = << >> /\ NewGraph.ports = << >>
  BY <1>1, <1>2 DEF NewGraph, FlowGraphs, Spaces
<1>4. /\ h \in FlowGraphs /\ h.elements = <<Options>> /\ h.params = << >> /\ h.ports = << >>
      /\ h.ns = g.ns /\ h.renew = g.renew
  BY <1>3 DEF Emptied, FlowGraphs
<1> HIDE DEF h
<1>5. HasBlocks(h) = {} /\ DOMAIN h.ports = {}
  BY <1>4 DEF HasBlocks
<1>6. IsBlock(Options)
  BY ElementFacts DEF Options
<1>7. Connections(h) = {}
  BY <1>1, <1>4, <1>6 DEF Connections, IsConnection
<1>8. Sound(h)
  BY <1>1, <1>4, <1>5, <1>6, <1>7 DEF Sound, BlocksListed, PortsOf, PlainPorts, Attached
<1> QED BY <1>4, <1>5, <1>7, <1>8 DEF h

\* the namespace that loading n into g works in, if it is sure to work in one only: that
\* of g, or the one its own variables give when they come first
Steady(n, g, N) ==
  IF g.renew THEN ~Early(n) /\ ~Circular(ParamsOf(n)) /\ N = Namespace(ParamsOf(n))
             ELSE N = g.ns

InStep(h, N) ==
  /\ ~h.renew => h.ns = N
  /\ \A b \in HasBlocks(h) : FollowsIn(h, b, N) /\ (Cloned[b] # {} => ~h.renew)

LoadedTo(n, g, i, h) ==
  /\ Sound(h) /\ Connections(h) = {}
  /\ HasBlocks(h) = {n.blocks[j].id : j \in 1..i} \ {"options"}
  /\ \A b \in HasBlocks(h) : h.params[b] = ParamsOf(n)[b]
  /\ h.renew => g.renew
  /\ \A N : Steady(n, g, N) => InStep(h, N)

LEMMA LoadKeeps ==
  ASSUME NEW n \in Data, NEW g, NEW i \in 1..Len(n.blocks), NEW h, LoadedTo(n, g, i - 1, h)
  PROVE  LoadedTo(n, g, i, Load(h, n.blocks[i]))
PROOF
<1> DEFINE x == n.blocks[i]
           b == x.id
           k == AddBlock(h, b, x.param)
           r == RewriteBlock(k, b)
           Q == ParamsOf(n)
<1>1. /\ Len(n.blocks) \in Nat /\ DOMAIN n.blocks = 1..Len(n.blocks)
      /\ \A j, l \in DOMAIN n.blocks : n.blocks[j].id = n.blocks[l].id => j = l
      /\ Q \in ParamMaps
  BY DataFacts
<1>2. i \in DOMAIN n.blocks /\ 1..i = 1..(i - 1) \cup {i} /\ i \notin 1..(i - 1)
      /\ 1..(i - 1) \subseteq DOMAIN n.blocks
  BY <1>1
<1>3. b = "options" \/ (b \in Ids /\ x.param \in Params /\ b \in DOMAIN Q /\ x.param = Q[b])
  BY <1>2, DataFacts
<1>4. {n.blocks[j].id : j \in 1..i} = {n.blocks[j].id : j \in 1..(i - 1)} \cup {b}
  BY <1>2
<1>5. CASE b = "options"
  <2>1. Load(h, x) = h
    BY <1>5 DEF Load
  <2> HIDE DEF x
  <2> QED BY <1>4, <1>5, <2>1 DEF LoadedTo, x
<1>6. CASE b # "options"
  <2>1. Load(h, x) = r
    BY <1>6 DEF Load
  <2>2. b \in Ids /\ x.param \in Params /\ x.param = Q[b] /\ b \notin HasBlocks(h)
    BY <1>1, <1>2, <1>3, <1>6 DEF LoadedTo
  <2> HIDE DEF x
  <2> HIDE DEF b
  <2>3. /\ Sound(k) /\ HasBlocks(k) = HasBlocks(h) \cup {b}
        /\ k.params[b] = Q[b] /\ \A y \in HasBlocks(h) : k.params[y] = h.params[y]
        /\ \A y \in HasBlocks(h) : k.ports[y] = h.ports[y]
        /\ k.ns = h.ns /\ k.renew = h.renew /\ Connections(k) = {}
    BY <2>2, AddBlockFacts DEF LoadedTo
  <2> HIDE DEF k
  <2>4. b \in HasBlocks(k)
    BY <2>3
  <2>5. /\ Thinned(k, r)
        /\ r.ns = (IF k.renew /\ Cloned[b] # {} THEN Renewed(k) ELSE k.ns)
        /\ r.renew = (k.renew /\ Cloned[b] = {})
        /\ \A y \in HasBlocks(k) \ {b} : r.ports[y] = k.ports[y]
        /\ FollowsIn(r, b, r.ns)
    <3>1. r.params = k.params
      BY <2>3, <2>4, RewriteBlockFacts DEF Thinned
    <3> QED BY <2>3, <2>4, <3>1, RewriteBlockFacts DEF FollowsIn
  <2> HIDE DEF r
  <2>6. /\ Sound(r) /\ r.params = k.params /\ HasBlocks(r) = HasBlocks(k)
        /\ Connections(r) = {} /\ k.renew \in BOOLEAN
    <3>1. Sound(r) /\ r.params = k.params /\ HasBlocks(r) = HasBlocks(k) /\ k.renew \in BOOLEAN
      BY <2>3, <2>5, GraphFacts DEF Thinned, HasBlocks
    <3>2. Connections(r) \subseteq Connections(k)
      BY <2>5 DEF Thinned, Connections
    <3> QED BY <2>3, <3>1, <3>2
  <2>7. /\ HasBlocks(r) = {n.blocks[j].id : j \in 1..i} \ {"options"}
        /\ \A y \in HasBlocks(r) : r.params[y] = Q[y]
    BY <1>4, <1>6, <2>3, <2>6 DEF LoadedTo
  <2>8. r.renew => g.renew
    BY <2>3, <2>5, <2>6 DEF LoadedTo
  <2>9. ASSUME NEW N, Steady(n, g, N)
        PROVE  InStep(r, N)
    <3>1. InStep(h, N)
      BY <2>9 DEF LoadedTo
    <3>2. ASSUME h.renew, Cloned[b] # {}
          PROVE  Renewed(k) = N
      <4>1. g.renew /\ ~Early(n) /\ ~Circular(Q) /\ N = Namespace(Q)
        BY <2>9, <3>2 DEF LoadedTo, Steady
      <4>2. \A v \in Variables \cap DOMAIN Q : v \in HasBlocks(k)
        <5> SUFFICES ASSUME NEW v \in Variables, v \in DOMAIN Q
                     PROVE  v \in HasBlocks(k)
          OBVIOUS
        <5>1. PICK j \in DOMAIN n.blocks : n.blocks[j].id = v
          BY DEF ParamsOf
        <5>2. j \in 1..i
          <6>1. ~(i < j)
            BY <1>2, <2>2, <3>2, <4>1, <5>1 DEF Early, b, x
          <6> QED BY <1>1, <5>1, <6>1
        <5>3. v # "options"
          BY IdsAssumption DEF Ids
        <5> QED BY <2>6, <2>7, <5>1, <5>2, <5>3
      <4>3. HasBlocks(k) \subseteq DOMAIN Q
        BY <1>1, <1>2, <2>6, <2>7 DEF ParamsOf
      <4>4. k.params \in ParamMaps /\ Rounds(k.params) \in Nat
        BY <2>3, GraphFacts, RoundsAreFinite
      <4>5. /\ EnabledVariables(k.params) = EnabledVariables(Q)
            /\ \A v \in EnabledVariables(k.params) : k.params[v] = Q[v]
        BY <2>6, <2>7, <4>2, <4>3 DEF EnabledVariables, HasBlocks
      <4>6. Namespace(k.params) = Namespace(Q) /\ Circular(k.params) = Circular(Q)
        BY <1>1, <4>4, <4>5, SameNamespace
      <4> QED BY <4>1, <4>6 DEF Renewed
    <3>3. Cloned[b] # {} => ~r.renew /\ r.ns = N
      BY <2>3, <2>5, <3>1, <3>2 DEF InStep
    <3>4. Cloned[b] = {} => r.renew = h.renew /\ r.ns = h.ns
      BY <2>3, <2>5, <2>6
    <3>5. ~r.renew => r.ns = N
      BY <3>1, <3>3, <3>4 DEF InStep
    <3>6. FollowsIn(r, b, N)
      BY <2>5, <3>3 DEF FollowsIn
    <3>7. \A y \in HasBlocks(h) \ {b} : FollowsIn(r, y, N)
      BY <2>3, <2>5, <2>6, <3>1 DEF FollowsIn, InStep
    <3>8. \A y \in HasBlocks(h) : Cloned[y] # {} => ~r.renew
      BY <2>3, <2>5, <2>6, <3>1 DEF InStep
    <3> QED BY <2>3, <2>6, <3>3, <3>5, <3>6, <3>7, <3>8 DEF InStep
  <2>10. LoadedTo(n, g, i, r)
    BY <2>6, <2>7, <2>8, <2>9 DEF LoadedTo
  <2> QED BY <2>1, <2>10 DEF x
<1> QED BY <1>5, <1>6

LEMMA LoadedFacts ==
  ASSUME NEW n \in Data, NEW g, g.ns \in Spaces, g.renew \in BOOLEAN
  PROVE  LoadedTo(n, g, Len(n.blocks), Loaded(g, n))
PROOF
<1> DEFINE first == Emptied(g)
           m == Len(n.blocks)
           step(h, i) == Load(h, n.blocks[i])
           S == [i \in 0..m |-> {h \in FlowGraphs : LoadedTo(n, g, i, h)}]
           F == [i \in 1..m |-> [h \in FlowGraphs |-> step(h, i)]]
           IsRun(f) == f = [i \in 0..m |-> IF i = 0 THEN first ELSE step(f[i - 1], i)]
           after == CHOOSE f : IsRun(f)
<1>1. m \in Nat
  BY DataFacts
<1>2. /\ Sound(first) /\ Connections(first) = {} /\ HasBlocks(first) = {}
      /\ first.ns = g.ns /\ first.renew = g.renew
  BY EmptiedFacts
<1> HIDE DEF first
<1>3. first \in S[0]
  <2>1. \A N : Steady(n, g, N) => InStep(first, N)
    BY <1>2 DEF Steady, InStep
  <2>2. {n.blocks[j].id : j \in 1..0} = {}
    OBVIOUS
  <2>3. LoadedTo(n, g, 0, first) /\ first \in FlowGraphs
    BY <1>2, <2>1, <2>2 DEF LoadedTo, Sound
  <2> QED BY <1>1, <2>3
<1>4. \A i \in 1..m : \A h \in S[i - 1] : F[i][h] \in S[i] /\ F[i][h] = step(h, i)
  <2> SUFFICES ASSUME NEW i \in 1..m, NEW h \in S[i - 1]
               PROVE  F[i][h] \in S[i] /\ F[i][h] = step(h, i)
    OBVIOUS
  <2>1. h \in FlowGraphs /\ LoadedTo(n, g, i - 1, h) /\ i \in 0..m
    BY <1>1
  <2>2. F[i][h] = step(h, i)
    BY <2>1
  <2>3. LoadedTo(n, g, i, step(h, i))
    BY <2>1, LoadKeeps
  <2>4. step(h, i) \in FlowGraphs
    BY <2>3 DEF LoadedTo, Sound
  <2> QED BY <2>1, <2>2, <2>3, <2>4
<1> HIDE DEF S, F, step
<1>5. PICK f : Runs(f, m, S, first, F)
  BY <1>1, <1>3, <1>4, LoopRuns
<1>6. IsRun(f)
  <2>1. \A i \in 0..m : f[i] = IF i = 0 THEN first ELSE step(f[i - 1], i)
    BY <1>1, <1>4, <1>5, RunsFacts
  <2> QED BY <1>5, <2>1 DEF Runs
<1>7. IsRun(after)
  BY <1>6
<1>8. after[m] \in S[m]
  <2>1. after[0] = first /\ \A i \in 1..m : after[i] = step(after[i - 1], i)
    <3>1. 0 \in 0..m /\ \A i \in 1..m : i \in 0..m /\ i # 0
      BY <1>1
    <3> HIDE DEF after
    <3> QED BY <1>7, <3>1
  <2> HIDE DEF after
  <2>2. \A i \in 1..m : after[i - 1] \in S[i - 1] => after[i] \in S[i]
    BY <1>4, <2>1
  <2>3. \A i \in 0..m : after[i] \in S[i]
    BY <1>1, <1>3, <2>1, <2>2, LoopKeeps
  <2> QED BY <1>1, <2>3
<1>9. Loaded(g, n) = after[m]
  BY DEF Loaded, Iterate, step, first
<1> HIDE DEF after
<1> QED BY <1>1, <1>8, <1>9 DEF S

\* the connections of n among the first i that the ports of g allow
Allowed(g, n, i) == {n.connections[j] : j \in {l \in 1..i : CanConnect(g, n.connections[l])}}

LinkedTo(n, g, i, h) ==
  /\ Sound(h) /\ h.params = g.params /\ h.ports = g.ports
  /\ h.ns = g.ns /\ h.renew = g.renew
  /\ Connections(h) = Allowed(g, n, i)

LEMMA LinkKeeps ==
  ASSUME NEW n \in Data, NEW g, NEW i \in 1..Len(n.connections), NEW h, LinkedTo(n, g, i - 1, h)
  PROVE  LinkedTo(n, g, i, Link(h, n.connections[i]))
PROOF
<1> DEFINE c == n.connections[i]
           k == Link(h, c)
<1>1. /\ c \in Wires /\ IsInjective(n.connections) /\ Len(n.connections) \in Nat
      /\ DOMAIN n.connections = 1..Len(n.connections)
  BY DataFacts
<1>2. 1..i = 1..(i - 1) \cup {i} /\ i \notin 1..(i - 1) /\ 1..(i - 1) \subseteq 1..Len(n.connections)
  BY <1>1
<1>3. CanConnect(h, c) <=> CanConnect(g, c)
  BY DEF LinkedTo, CanConnect, PortExists, HasBlocks
<1>4. CASE CanConnect(h, c)
  <2>1. k = Connect(h, c)
    BY <1>4 DEF Link
  <2>2. c \notin Connections(h)
    BY <1>1, <1>2 DEF LinkedTo, Allowed, IsInjective
  <2>3. Allowed(g, n, i) = Allowed(g, n, i - 1) \cup {c}
    BY <1>2, <1>3, <1>4 DEF Allowed
  <2> HIDE DEF k
  <2> HIDE DEF c
  <2>4. /\ Sound(k) /\ k.params = h.params /\ k.ports = h.ports
        /\ k.ns = h.ns /\ k.renew = h.renew
        /\ Connections(k) = Connections(h) \cup {c}
    BY <1>1, <1>4, <2>1, <2>2, ConnectFacts DEF LinkedTo
  <2>5. LinkedTo(n, g, i, k)
    BY <2>3, <2>4 DEF LinkedTo
  <2> QED BY <2>5 DEF k, c
<1>5. CASE ~CanConnect(h, c)
  <2>1. k = h
    BY <1>5 DEF Link
  <2>2. {l \in 1..i : CanConnect(g, n.connections[l])} = {l \in 1..(i - 1) : CanConnect(g, n.connections[l])}
    BY <1>2, <1>3, <1>5
  <2>3. Allowed(g, n, i) = Allowed(g, n, i - 1)
    BY <2>2 DEF Allowed
  <2> QED BY <2>1, <2>3 DEF LinkedTo
<1> QED BY <1>4, <1>5

\* the flow graph that an import makes before it rewrites it
Linked(g, n) ==
  Iterate(LAMBDA h, i : Link(h, n.connections[i]), Loaded(g, n), Len(n.connections))

LEMMA LinkedFacts ==
  ASSUME NEW n \in Data, NEW g, Sound(Loaded(g, n)), Connections(Loaded(g, n)) = {}
  PROVE  LinkedTo(n, Loaded(g, n), Len(n.connections), Linked(g, n))
PROOF
<1> DEFINE first == Loaded(g, n)
           m == Len(n.connections)
           step(h, i) == Link(h, n.connections[i])
           S == [i \in 0..m |-> {h \in FlowGraphs : LinkedTo(n, first, i, h)}]
           F == [i \in 1..m |-> [h \in FlowGraphs |-> step(h, i)]]
           IsRun(f) == f = [i \in 0..m |-> IF i = 0 THEN first ELSE step(f[i - 1], i)]
           after == CHOOSE f : IsRun(f)
<1>1. m \in Nat
  BY DataFacts
<1>2. Linked(g, n) = after[m]
  BY DEF Linked, Iterate, step, first
<1> HIDE DEF first
<1>3. first \in S[0]
  <2>1. Allowed(first, n, 0) = {}
    BY DEF Allowed
  <2>2. LinkedTo(n, first, 0, first) /\ first \in FlowGraphs
    BY <2>1 DEF LinkedTo, first, Sound
  <2> QED BY <1>1, <2>2
<1>4. \A i \in 1..m : \A h \in S[i - 1] : F[i][h] \in S[i] /\ F[i][h] = step(h, i)
  <2> SUFFICES ASSUME NEW i \in 1..m, NEW h \in S[i - 1]
               PROVE  F[i][h] \in S[i] /\ F[i][h] = step(h, i)
    OBVIOUS
  <2>1. h \in FlowGraphs /\ LinkedTo(n, first, i - 1, h) /\ i \in 0..m
    BY <1>1
  <2>2. F[i][h] = step(h, i)
    BY <2>1
  <2>3. LinkedTo(n, first, i, step(h, i))
    BY <2>1, LinkKeeps
  <2>4. step(h, i) \in FlowGraphs
    BY <2>3 DEF LinkedTo, Sound
  <2> QED BY <2>1, <2>2, <2>3, <2>4
<1> HIDE DEF S, F, step
<1>5. PICK f : Runs(f, m, S, first, F)
  BY <1>1, <1>3, <1>4, LoopRuns
<1>6. IsRun(f)
  <2>1. \A i \in 0..m : f[i] = IF i = 0 THEN first ELSE step(f[i - 1], i)
    BY <1>1, <1>4, <1>5, RunsFacts
  <2> QED BY <1>5, <2>1 DEF Runs
<1>7. IsRun(after)
  BY <1>6
<1>8. after[m] \in S[m]
  <2>1. after[0] = first /\ \A i \in 1..m : after[i] = step(after[i - 1], i)
    <3>1. 0 \in 0..m /\ \A i \in 1..m : i \in 0..m /\ i # 0
      BY <1>1
    <3> HIDE DEF after
    <3> QED BY <1>7, <3>1
  <2> HIDE DEF after
  <2>2. \A i \in 1..m : after[i - 1] \in S[i - 1] => after[i] \in S[i]
    BY <1>4, <2>1
  <2>3. \A i \in 0..m : after[i] \in S[i]
    BY <1>1, <1>3, <2>1, <2>2, LoopKeeps
  <2> QED BY <1>1, <2>3
<1> HIDE DEF after
<1> QED BY <1>1, <1>2, <1>8 DEF S, first

LEMMA LinkedInto ==
  ASSUME NEW n \in Data, NEW g, g.ns \in Spaces, g.renew \in BOOLEAN
  PROVE  LET h == Linked(g, n)
         IN  /\ Sound(h) /\ h.params = ParamsOf(n)
             /\ Connections(h) \subseteq ToSet(n.connections)
             /\ \A N : Steady(n, g, N) => Fitting(n, N) \subseteq Connections(h)
PROOF
<1> DEFINE k == Loaded(g, n)
           h == Linked(g, n)
           Q == ParamsOf(n)
           m == Len(n.connections)
<1>1. LoadedTo(n, g, Len(n.blocks), k)
  BY LoadedFacts
<1>2. Sound(k) /\ Connections(k) = {} /\ HasBlocks(k) = DOMAIN Q /\ k.params = Q
  <2>1. HasBlocks(k) = DOMAIN Q
    BY <1>1, DataFacts DEF LoadedTo, ParamsOf
  <2>2. k.params = [b \in DOMAIN k.params |-> k.params[b]] /\ Q = [b \in DOMAIN Q |-> Q[b]]
    <3>1. k.params \in ParamMaps /\ Q \in ParamMaps
      BY <1>1, GraphFacts, DataFacts DEF LoadedTo
    <3> QED BY <3>1 DEF ParamMaps
  <2> HIDE DEF k, Q
  <2>3. \A b \in DOMAIN Q : k.params[b] = Q[b]
    BY <1>1, <2>1 DEF LoadedTo, Q
  <2> QED BY <1>1, <2>1, <2>2, <2>3 DEF LoadedTo, HasBlocks
<1>3. LinkedTo(n, k, m, h)
  BY <1>2, LinkedFacts
<1>4. m \in Nat /\ DOMAIN n.connections = 1..m
  BY DataFacts
<1> HIDE DEF h, k
<1>5. Connections(h) \subseteq ToSet(n.connections)
  BY <1>3, <1>4 DEF LinkedTo, Allowed, ToSet
<1>6. ASSUME NEW N, Steady(n, g, N), NEW c \in Fitting(n, N)
      PROVE  c \in Connections(h)
  <2> DEFINE has(b, d, i) == \E x \in BlocksOf(n) :
               x.id = b /\ i < (IF d \in Cloned[b] THEN Nports(x.param.expr, N) ELSE Fixed[b][d])
  <2>1. PICK j \in 1..m : c = n.connections[j]
    BY <1>4, <1>6 DEF Fitting, ToSet
  <2>2. InStep(k, N)
    BY <1>1, <1>6 DEF LoadedTo
  <2>3. ASSUME NEW b, NEW d \in Dirs, NEW i, has(b, d, i)
        PROVE  PortExists(k, b, d, i)
    <3>1. PICK x \in BlocksOf(n) :
            x.id = b /\ i < (IF d \in Cloned[b] THEN Nports(x.param.expr, N) ELSE Fixed[b][d])
      BY <2>3
    <3>2. b \in DOMAIN Q /\ x.param = Q[b]
      BY <3>1, DataFacts
    <3>3. k.ports[b][d] = IF d \in Cloned[b] THEN Nports(x.param.expr, N) ELSE Fixed[b][d]
      BY <1>2, <2>2, <3>2 DEF InStep, FollowsIn, Sound, PlainPorts
    <3> QED BY <1>2, <3>1, <3>2, <3>3 DEF PortExists
  <2>4. has(c.source[1], "source", c.source[2]) /\ has(c.sink[1], "sink", c.sink[2])
    BY <1>6 DEF Fitting
  <2>5. CanConnect(k, c)
    <3> HIDE DEF has
    <3> QED BY <2>3, <2>4 DEF CanConnect, Dirs
  <2> QED BY <1>3, <2>1, <2>5 DEF LinkedTo, Allowed
<1>7. Sound(h) /\ h.params = Q
  BY <1>2, <1>3 DEF LinkedTo
<1> QED BY <1>5, <1>6, <1>7 DEF h

\* what an import and an update make of a file, or of a recorded state
LEMMA RestoreFacts ==
  ASSUME NEW n \in Data, NEW g, g.ns \in Spaces, g.renew \in BOOLEAN
  PROVE  LET i == Import(g, n)
             h == Update(i)
         IN  /\ Sound(h) /\ Sound(i) /\ Updated(i, h) /\ h.params = ParamsOf(n)
             /\ RecordsOf(h) = BlocksOf(n) /\ Connections(h) \subseteq ToSet(n.connections)
             /\ ~Circular(h.params) => h.ns = Namespace(h.params)
             /\ \A N : Steady(n, g, N) =>
                  Fitting(n, N) \cap Fitting(n, h.ns) \subseteq Connections(h)
PROOF
<1> DEFINE k == Linked(g, n)
           i == Import(g, n)
           h == Update(i)
<1>1. /\ Sound(k) /\ k.params = ParamsOf(n)
      /\ Connections(k) \subseteq ToSet(n.connections)
      /\ \A N : Steady(n, g, N) => Fitting(n, N) \subseteq Connections(k)
  BY LinkedInto
<1>2. i = Rewrite(k)
  BY DEF Import, Linked
<1> HIDE DEF k, i
<1>3. Updated(i, h) /\ Thinned(k, h) /\ LostIn(k, h, h.ns) /\ h.ns = Renewed(k)
  BY <1>1, <1>2, RewriteThenUpdate
<1>4. Sound(i)
  BY <1>1, <1>2, RewriteFacts DEF Thinned
<1> HIDE DEF h
<1>5. Sound(h) /\ h.params = ParamsOf(n) /\ Connections(h) \subseteq Connections(k)
  BY <1>1, <1>3 DEF Thinned, Connections
<1>6. RecordsOf(h) = BlocksOf(n)
  BY <1>5, DataFacts DEF RecordsOf, HasBlocks
<1>7. ~Circular(h.params) => h.ns = Namespace(h.params)
  BY <1>1, <1>3, <1>5 DEF Renewed
<1>8. ASSUME NEW N, Steady(n, g, N), NEW c \in Fitting(n, N) \cap Fitting(n, h.ns),
             c \notin Connections(h)
      PROVE  FALSE
  <2>1. c \in Connections(k)
    BY <1>1, <1>8
  <2>2. PICK b \in HasBlocks(k) :
          \E d \in Cloned[b] : Beyond(c, d, b, Nports(k.params[b].expr, h.ns))
    BY <1>3, <1>8, <2>1 DEF LostIn
  <2>3. PICK d \in Cloned[b] : Beyond(c, d, b, Nports(k.params[b].expr, h.ns))
    BY <2>2
  <2>4. d \in {"source", "sink"}
    BY <1>1, <2>3, GraphFacts, PortsAssumption DEF Dirs
  <2>5. \E x \in BlocksOf(n) : x.id = b /\ c[d][2] < Nports(x.param.expr, h.ns)
    BY <1>8, <2>3, <2>4 DEF Fitting, Beyond
  <2>6. PICK x \in BlocksOf(n) : x.id = b /\ c[d][2] < Nports(x.param.expr, h.ns)
    BY <2>5
  <2>7. x.param = k.params[b]
    BY <1>1, <2>6, DataFacts
  <2> QED BY <2>3, <2>6, <2>7 DEF Beyond
<1> QED BY <1>1, <1>3, <1>4, <1>5, <1>6, <1>7, <1>8 DEF h, i

-----------------------------------------------------------------------------
(* Copying and pasting.                                                    *)

IdsOf(n) == {n.blocks[i].id : i \in DOMAIN n.blocks}

\* blocks and connections between them
Closed(n) ==
  /\ n \in Data /\ "options" \notin IdsOf(n)
  /\ \A c \in ToSet(n.connections) : c.source[1] \in IdsOf(n) /\ c.sink[1] \in IdsOf(n)

LEMMA CopyFacts ==
  ASSUME NEW g, Sound(g), NEW chosen \in SUBSET HasBlocks(g), IsFiniteSet(chosen),
         NEW order \in SetToSeqs(chosen)
  PROVE  Closed([blocks |-> [i \in DOMAIN order |->
                               [id |-> order[i], param |-> g.params[order[i]]]],
                 connections |-> Without(g.elements,
                   {e \in ToSet(g.elements) :
                      IsBlock(e) \/ ~({e.source[1], e.sink[1]} \subseteq chosen)})])
PROOF
<1> DEFINE bs == [i \in DOMAIN order |-> [id |-> order[i], param |-> g.params[order[i]]]]
           gone == {e \in ToSet(g.elements) :
                      IsBlock(e) \/ ~({e.source[1], e.sink[1]} \subseteq chosen)}
           cs == Without(g.elements, gone)
           m == Cardinality(chosen)
           n == [blocks |-> bs, connections |-> cs]
<1>1. /\ m \in Nat /\ order \in [1..m -> chosen] /\ DOMAIN order = 1..m
      /\ \A i, j \in 1..m : i # j => order[i] # order[j]
  BY FS_CardinalityType DEF SetToSeqs
<1>2. \A b \in chosen : \E i \in 1..m : order[i] = b
  <2>1. order \in Injection(1..m, chosen)
    BY <1>1 DEF Injection, IsInjective
  <2>2. Cardinality(1..m) = m
    <3>1. 1 \in Int /\ m \in Int /\ (IF 1 > m THEN 0 ELSE m - 1 + 1) = m
      BY <1>1
    <3> QED BY <3>1, FS_Interval
  <2>3. order \in Surjection(1..m, chosen)
    BY <2>1, <2>2, FS_Injection
  <2> QED BY <2>3 DEF Surjection
<1>3. /\ g.elements \in Seq(Elements) /\ IsInjective(g.elements) /\ HasBlocks(g) \subseteq Ids
      /\ \A b \in HasBlocks(g) : g.params[b] \in Params
  BY GraphFacts DEF Sound
<1>4. /\ DOMAIN bs = 1..m
      /\ \A i \in 1..m : /\ bs[i] = [id |-> order[i], param |-> g.params[order[i]]]
                         /\ bs[i].id = order[i] /\ order[i] \in chosen
  BY <1>1
<1>5. bs \in Seq(Records)
  <2>1. \A i \in 1..m : bs[i] \in Records
    <3> HIDE DEF bs
    <3> QED BY <1>3, <1>4 DEF Records
  <2>2. bs = [i \in 1..m |-> bs[i]]
    BY <1>1
  <2> HIDE DEF bs
  <2>3. bs \in [1..m -> Records]
    BY <2>1, <2>2
  <2> QED BY <1>1, <2>3
<1>6. /\ cs \in Seq(Elements) /\ IsInjective(cs) /\ ToSet(cs) = ToSet(g.elements) \ gone
  BY <1>3, WithoutFacts
<1>7. \A e \in ToSet(cs) : e \in Wires /\ e.source[1] \in chosen /\ e.sink[1] \in chosen
  <2> SUFFICES ASSUME NEW e \in ToSet(cs)
               PROVE  e \in Wires /\ e.source[1] \in chosen /\ e.sink[1] \in chosen
    OBVIOUS
  <2>1. e \in ToSet(g.elements) /\ ~IsBlock(e) /\ {e.source[1], e.sink[1]} \subseteq chosen
    BY <1>6
  <2>2. e \in Connections(g)
    BY <2>1 DEF Connections, IsConnection
  <2> QED BY <2>1, <2>2, GraphFacts
<1>8. n.blocks = bs /\ n.connections = cs
  OBVIOUS
<1>9. cs \in Seq(Wires)
  <2>1. ToSet(cs) \subseteq Wires
    BY <1>7
  <2> HIDE DEF cs
  <2> QED BY <1>6, <2>1, NarrowList
<1>10. n \in Data
  <2>1. \A i, j \in DOMAIN bs : bs[i].id = bs[j].id => i = j
    <3> HIDE DEF bs
    <3> QED BY <1>1, <1>4
  <2> HIDE DEF bs, cs
  <2> QED BY <1>5, <1>6, <1>9, <2>1 DEF Data
<1>11. IdsOf(n) = chosen
  <2> HIDE DEF bs, n
  <2> QED BY <1>2, <1>4, <1>8 DEF IdsOf
<1>12. Closed(n)
  <2> HIDE DEF bs, n, cs
  <2> QED BY <1>3, <1>7, <1>8, <1>10, <1>11, IdsAssumption DEF Closed
<1> QED BY <1>12

PasteIds(g, n) == [i \in DOMAIN n.blocks |-> PastedId(g, n.blocks[i].id)]

\* the blocks that are pasted get ids that nothing has
Fresh(g, n) ==
  Closed(n) /\ IsInjective(PasteIds(g, n)) /\ ToSet(PasteIds(g, n)) \cap HasBlocks(g) = {}

LEMMA FreshFacts ==
  ASSUME NEW g, NEW n, Fresh(g, n)
  PROVE  /\ \A i \in DOMAIN n.blocks :
              /\ PasteIds(g, n)[i] = PastedId(g, n.blocks[i].id)
              /\ PasteIds(g, n)[i] \in Ids /\ PasteIds(g, n)[i] \notin HasBlocks(g)
              /\ n.blocks[i].param \in Params
         /\ \A i, j \in DOMAIN n.blocks : PasteIds(g, n)[i] = PasteIds(g, n)[j] => i = j
         /\ \A i \in DOMAIN n.connections :
              LET c == n.connections[i]
              IN  /\ c.source[1] \in IdsOf(n) /\ c.sink[1] \in IdsOf(n)
                  /\ c.source = <<c.source[1], c.source[2]>> /\ c.sink = <<c.sink[1], c.sink[2]>>
                  /\ c.source[2] \in Nat /\ c.sink[2] \in Nat
                  /\ c = [source |-> c.source, sink |-> c.sink]
PROOF
<1> DEFINE ids == PasteIds(g, n)
<1>1. n \in Data /\ Closed(n) /\ IsInjective(ids) /\ ToSet(ids) \cap HasBlocks(g) = {}
  BY DEF Fresh, Closed
<1>2. DOMAIN ids = DOMAIN n.blocks /\ \A i \in DOMAIN ids : ids[i] = PastedId(g, n.blocks[i].id)
  BY DEF PasteIds
<1> HIDE DEF ids
<1>3. \A i \in DOMAIN n.blocks : n.blocks[i].id \in Ids /\ n.blocks[i].param \in Params
  BY <1>1, DataFacts DEF Closed, IdsOf
<1>4. \A i \in DOMAIN n.blocks : ids[i] \in Ids /\ ids[i] \notin HasBlocks(g)
  BY <1>1, <1>2, <1>3, CopyAssumption DEF PastedId, ToSet
<1>5. ASSUME NEW i \in DOMAIN n.connections
      PROVE  LET c == n.connections[i]
             IN  /\ c.source[1] \in IdsOf(n) /\ c.sink[1] \in IdsOf(n)
                 /\ c.source = <<c.source[1], c.source[2]>> /\ c.sink = <<c.sink[1], c.sink[2]>>
                 /\ c.source[2] \in Nat /\ c.sink[2] \in Nat
                 /\ c = [source |-> c.source, sink |-> c.sink]
  <2> DEFINE c == n.connections[i]
  <2>1. c \in Wires /\ c \in ToSet(n.connections)
    <3>1. n.connections \in Seq(Wires) /\ DOMAIN n.connections = 1..Len(n.connections)
      BY <1>1, DataFacts
    <3> QED BY <3>1 DEF ToSet
  <2> HIDE DEF c
  <2>2. c.source \in Ids \X Nat /\ c.sink \in Ids \X Nat /\ c = [source |-> c.source, sink |-> c.sink]
    BY <2>1 DEF Wires
  <2>3. c.source[1] \in IdsOf(n) /\ c.sink[1] \in IdsOf(n)
    BY <1>1, <2>1 DEF Closed
  <2>4. /\ c.source = <<c.source[1], c.source[2]>> /\ c.sink = <<c.sink[1], c.sink[2]>>
        /\ c.source[2] \in Nat /\ c.sink[2] \in Nat
    BY <2>2
  <2> QED BY <2>2, <2>3, <2>4 DEF c
<1> QED BY <1>1, <1>2, <1>3, <1>4, <1>5 DEF IsInjective, ids

GrownTo(g, n, i, h) ==
  /\ Sound(h) /\ Connections(h) = Connections(g)
  /\ HasBlocks(h) = HasBlocks(g) \cup {PasteIds(g, n)[j] : j \in 1..i}

LEMMA GrownFacts ==
  ASSUME NEW g, Sound(g), NEW n, Fresh(g, n)
  PROVE  GrownTo(g, n, Len(n.blocks), Grown(g, n))
PROOF
<1> DEFINE m == Len(n.blocks)
           ids == PasteIds(g, n)
           step(h, i) == AddBlock(h, PastedId(g, n.blocks[i].id), n.blocks[i].param)
           S == [i \in 0..m |-> {h \in FlowGraphs : GrownTo(g, n, i, h)}]
           F == [i \in 1..m |-> [h \in FlowGraphs |-> step(h, i)]]
           IsRun(f) == f = [i \in 0..m |-> IF i = 0 THEN g ELSE step(f[i - 1], i)]
           after == CHOOSE f : IsRun(f)
<1>1. m \in Nat /\ DOMAIN n.blocks = 1..m
  BY DataFacts DEF Fresh, Closed
<1>2. g \in S[0]
  <2>1. {ids[j] : j \in 1..0} = {}
    OBVIOUS
  <2>2. GrownTo(g, n, 0, g) /\ g \in FlowGraphs
    BY <2>1 DEF GrownTo, Sound
  <2> QED BY <1>1, <2>2
<1>3. \A i \in 1..m : \A h \in S[i - 1] : F[i][h] \in S[i] /\ F[i][h] = step(h, i)
  <2> SUFFICES ASSUME NEW i \in 1..m, NEW h \in S[i - 1]
               PROVE  F[i][h] \in S[i] /\ F[i][h] = step(h, i)
    OBVIOUS
  <2>1. h \in FlowGraphs /\ GrownTo(g, n, i - 1, h) /\ i \in 0..m
    BY <1>1
  <2>2. F[i][h] = step(h, i)
    BY <2>1
  <2>3. /\ ids[i] = PastedId(g, n.blocks[i].id) /\ ids[i] \in Ids /\ ids[i] \notin HasBlocks(g)
        /\ n.blocks[i].param \in Params /\ \A j \in 1..m : ids[i] = ids[j] => i = j
    BY <1>1, FreshFacts
  <2>4. 1..i = 1..(i - 1) \cup {i} /\ i \notin 1..(i - 1) /\ 1..(i - 1) \subseteq 1..m
    BY <1>1
  <2> HIDE DEF ids
  <2>5. ids[i] \notin HasBlocks(h)
    BY <2>1, <2>3, <2>4 DEF GrownTo, ids
  <2>6. step(h, i) = AddBlock(h, ids[i], n.blocks[i].param)
    BY <2>3
  <2> HIDE DEF step
  <2>7. /\ Sound(step(h, i)) /\ HasBlocks(step(h, i)) = HasBlocks(h) \cup {ids[i]}
        /\ Connections(step(h, i)) = Connections(h)
    BY <2>1, <2>3, <2>5, <2>6, AddBlockFacts DEF GrownTo
  <2>8. GrownTo(g, n, i, step(h, i)) /\ step(h, i) \in FlowGraphs
    BY <2>1, <2>4, <2>7 DEF GrownTo, ids, Sound
  <2> QED BY <2>1, <2>2, <2>8
<1> HIDE DEF S, F, step
<1>4. PICK f : Runs(f, m, S, g, F)
  BY <1>1, <1>2, <1>3, LoopRuns
<1>5. IsRun(f)
  <2>1. \A i \in 0..m : f[i] = IF i = 0 THEN g ELSE step(f[i - 1], i)
    <3>1. \A i \in 0..m :
            \/ (i = 0 /\ f[i] = g)
            \/ (i # 0 /\ i \in 1..m /\ f[i] = F[i][f[i - 1]] /\ f[i - 1] \in S[i - 1])
      BY <1>1, <1>4, RunsFacts
    <3> QED BY <1>3, <3>1
  <2> QED BY <1>4, <2>1 DEF Runs
<1>6. IsRun(after)
  BY <1>5
<1>7. after[m] \in S[m]
  <2>1. after[0] = g /\ \A i \in 1..m : after[i] = step(after[i - 1], i)
    <3>1. 0 \in 0..m /\ \A i \in 1..m : i \in 0..m /\ i # 0
      BY <1>1
    <3> HIDE DEF after
    <3> QED BY <1>6, <3>1
  <2> HIDE DEF after
  <2>2. \A i \in 1..m : after[i - 1] \in S[i - 1] => after[i] \in S[i]
    BY <1>3, <2>1
  <2>3. \A i \in 0..m : after[i] \in S[i]
    BY <1>1, <1>2, <2>1, <2>2, LoopKeeps
  <2> QED BY <1>1, <2>3
<1>8. Grown(g, n) = after[m]
  BY DEF Grown, Iterate, step
<1> HIDE DEF after
<1> QED BY <1>1, <1>7, <1>8 DEF S

\* what is pasted connects new blocks, each pair of ports once
LEMMA MovedFacts ==
  ASSUME NEW g, Sound(g), NEW n, Fresh(g, n)
  PROVE  /\ \A i \in DOMAIN n.connections :
              Moved(g, n.connections[i]) \in Wires \ Connections(g)
         /\ \A i, j \in DOMAIN n.connections :
              Moved(g, n.connections[i]) = Moved(g, n.connections[j]) => i = j
PROOF
<1> DEFINE new(b) == PastedId(g, b)
<1>1. \A b \in IdsOf(n) : new(b) \in Ids /\ new(b) \notin HasBlocks(g)
  BY FreshFacts DEF IdsOf
<1>2. \A b, c \in IdsOf(n) : new(b) = new(c) => b = c
  BY FreshFacts DEF IdsOf
<1>3. \A c : Moved(g, c) = [source |-> <<new(c.source[1]), c.source[2]>>,
                            sink |-> <<new(c.sink[1]), c.sink[2]>>]
  BY DEF Moved, Connection
<1> HIDE DEF new
<1>4. ASSUME NEW i \in DOMAIN n.connections
      PROVE  Moved(g, n.connections[i]) \in Wires \ Connections(g)
  <2> DEFINE c == n.connections[i]
             w == Moved(g, c)
  <2>1. /\ c.source[1] \in IdsOf(n) /\ c.sink[1] \in IdsOf(n)
        /\ c.source[2] \in Nat /\ c.sink[2] \in Nat
    BY FreshFacts
  <2>2. w = [source |-> <<new(c.source[1]), c.source[2]>>, sink |-> <<new(c.sink[1]), c.sink[2]>>]
    BY <1>3
  <2> HIDE DEF c
  <2>3. w \in Wires /\ w.source[1] \notin HasBlocks(g)
    BY <1>1, <2>1, <2>2 DEF Wires
  <2> HIDE DEF w
  <2>4. w \notin Connections(g)
    BY <2>3 DEF Sound, Attached, CanConnect, PortExists
  <2> QED BY <2>3, <2>4 DEF w, c
<1>5. ASSUME NEW i \in DOMAIN n.connections, NEW j \in DOMAIN n.connections,
             Moved(g, n.connections[i]) = Moved(g, n.connections[j])
      PROVE  i = j
  <2> DEFINE c == n.connections[i]
             d == n.connections[j]
  <2>1. /\ c.source[1] \in IdsOf(n) /\ c.sink[1] \in IdsOf(n)
        /\ c.source = <<c.source[1], c.source[2]>> /\ c.sink = <<c.sink[1], c.sink[2]>>
        /\ c = [source |-> c.source, sink |-> c.sink]
    BY FreshFacts
  <2>2. /\ d.source[1] \in IdsOf(n) /\ d.sink[1] \in IdsOf(n)
        /\ d.source = <<d.source[1], d.source[2]>> /\ d.sink = <<d.sink[1], d.sink[2]>>
        /\ d = [source |-> d.source, sink |-> d.sink]
    BY FreshFacts
  <2> HIDE DEF c, d
  <2>3. /\ <<new(c.source[1]), c.source[2]>> = <<new(d.source[1]), d.source[2]>>
        /\ <<new(c.sink[1]), c.sink[2]>> = <<new(d.sink[1]), d.sink[2]>>
    <3> DEFINE x == Moved(g, c)
               y == Moved(g, d)
    <3>1. /\ x = [source |-> <<new(c.source[1]), c.source[2]>>,
                   sink |-> <<new(c.sink[1]), c.sink[2]>>]
          /\ y = [source |-> <<new(d.source[1]), d.source[2]>>,
                   sink |-> <<new(d.sink[1]), d.sink[2]>>]
      BY <1>3
    <3>2. x = y
      BY <1>5 DEF c, d
    <3> HIDE DEF x, y
    <3> QED BY <3>1, <3>2
  <2>4. /\ new(c.source[1]) = new(d.source[1]) /\ c.source[2] = d.source[2]
        /\ new(c.sink[1]) = new(d.sink[1]) /\ c.sink[2] = d.sink[2]
    BY <2>3
  <2>5. c.source[1] = d.source[1] /\ c.sink[1] = d.sink[1]
    BY <1>2, <2>1, <2>2, <2>4
  <2>6. c = d
    BY <2>1, <2>2, <2>4, <2>5
  <2>7. IsInjective(n.connections)
    BY DataFacts DEF Fresh, Closed
  <2> QED BY <2>6, <2>7 DEF IsInjective, c, d
<1> QED BY <1>4, <1>5

\* what i rounds of the loop over the connections make of the updated flow graph u
ReconnectedTo(g, n, u, i, p) ==
  /\ p \in [ok : BOOLEAN, graph : FlowGraphs] /\ Sound(p.graph)
  /\ p.graph.params = u.params /\ p.graph.ports = u.ports
  /\ p.graph.ns = u.ns /\ p.graph.renew = u.renew
  /\ Connections(p.graph) \subseteq
       Connections(u) \cup {Moved(g, n.connections[j]) : j \in 1..i}

LEMMA ReconnectKeeps ==
  ASSUME NEW g, Sound(g), NEW n, Fresh(g, n), NEW u, Connections(u) \subseteq Connections(g),
         NEW i \in 1..Len(n.connections), NEW p, ReconnectedTo(g, n, u, i - 1, p)
  PROVE  ReconnectedTo(g, n, u, i, Reconnect(p, Moved(g, n.connections[i])))
PROOF
<1> DEFINE c == Moved(g, n.connections[i])
           q == Reconnect(p, c)
           h == Connect(p.graph, c)
           among(k) == {Moved(g, n.connections[j]) : j \in 1..k}
<1>1. Len(n.connections) \in Nat /\ DOMAIN n.connections = 1..Len(n.connections)
  BY DataFacts DEF Fresh, Closed
<1>2. /\ 1..i = 1..(i - 1) \cup {i} /\ i \notin 1..(i - 1)
      /\ 1..(i - 1) \subseteq DOMAIN n.connections /\ i \in DOMAIN n.connections
  BY <1>1
<1>3. among(i) = among(i - 1) \cup {c}
  BY <1>2
<1>4. c \in Wires \ Connections(g) /\ c \notin among(i - 1)
  BY <1>2, MovedFacts
<1>5. p = [ok |-> p.ok, graph |-> p.graph] /\ p.ok \in BOOLEAN /\ p.graph \in FlowGraphs
  BY DEF ReconnectedTo
<1> HIDE DEF c, among
<1>6. CASE p.ok /\ CanConnect(p.graph, c)
  <2>1. q = [p EXCEPT !.graph = h]
    BY <1>5, <1>6 DEF Reconnect
  <2>2. c \notin Connections(p.graph)
    BY <1>4 DEF ReconnectedTo, among
  <2> HIDE DEF h
  <2>3. /\ Sound(h) /\ h.params = u.params /\ h.ports = u.ports
        /\ h.ns = u.ns /\ h.renew = u.renew
        /\ Connections(h) = Connections(p.graph) \cup {c}
    BY <1>4, <1>6, <2>2, ConnectFacts DEF ReconnectedTo, h
  <2>4. h \in FlowGraphs
    BY <2>3 DEF Sound
  <2>5. q \in [ok : BOOLEAN, graph : FlowGraphs] /\ q.graph = h
    BY <1>5, <2>1, <2>4
  <2> HIDE DEF q
  <2>6. ReconnectedTo(g, n, u, i, q)
    BY <1>3, <2>3, <2>5 DEF ReconnectedTo, among
  <2> QED BY <2>6 DEF q, c
<1>7. CASE ~(p.ok /\ CanConnect(p.graph, c))
  <2>1. q = [p EXCEPT !.ok = FALSE]
    BY <1>7 DEF Reconnect
  <2>2. q \in [ok : BOOLEAN, graph : FlowGraphs] /\ q.graph = p.graph
    BY <1>5, <2>1
  <2> HIDE DEF q
  <2>3. ReconnectedTo(g, n, u, i, q)
    BY <1>3, <2>2 DEF ReconnectedTo, among
  <2> QED BY <2>3 DEF q, c
<1> QED BY <1>6, <1>7

LEMMA ReconnectedFacts ==
  ASSUME NEW g, Sound(g), NEW n, Fresh(g, n)
  PROVE  LET k == Grown(g, n)
         IN  /\ Sound(k) /\ Updated(k, Update(k))
             /\ ReconnectedTo(g, n, Update(k), Len(n.connections), Reconnected(g, n))
PROOF
<1> DEFINE k == Grown(g, n)
           u == Update(k)
           first == [ok |-> TRUE, graph |-> u]
           m == Len(n.connections)
           step(p, i) == Reconnect(p, Moved(g, n.connections[i]))
           S == [i \in 0..m |-> {p \in [ok : BOOLEAN, graph : FlowGraphs] : ReconnectedTo(g, n, u, i, p)}]
           F == [i \in 1..m |-> [p \in [ok : BOOLEAN, graph : FlowGraphs] |-> step(p, i)]]
           IsRun(f) == f = [i \in 0..m |-> IF i = 0 THEN first ELSE step(f[i - 1], i)]
           after == CHOOSE f : IsRun(f)
<1>1. m \in Nat
  BY DataFacts DEF Fresh, Closed
<1>2. Sound(k) /\ Connections(k) = Connections(g)
  BY GrownFacts DEF GrownTo
<1>3. Reconnected(g, n) = after[m]
  BY DEF Reconnected, Iterate, step, first, u, k
<1> HIDE DEF k
<1>4. Updated(k, u)
  BY <1>2, UpdateFacts
<1> HIDE DEF u
<1>5. Sound(u) /\ Connections(u) \subseteq Connections(g)
  BY <1>2, <1>4 DEF Updated, Thinned, Connections
<1>6. first \in S[0]
  <2>1. first.graph = u /\ u \in FlowGraphs
    BY <1>5 DEF Sound
  <2>2. first \in [ok : BOOLEAN, graph : FlowGraphs]
    BY <2>1
  <2> HIDE DEF first
  <2>3. ReconnectedTo(g, n, u, 0, first)
    BY <1>5, <2>1, <2>2 DEF ReconnectedTo
  <2> QED BY <1>1, <2>2, <2>3
<1>7. \A i \in 1..m : \A p \in S[i - 1] : F[i][p] \in S[i] /\ F[i][p] = step(p, i)
  <2> SUFFICES ASSUME NEW i \in 1..m, NEW p \in S[i - 1]
               PROVE  F[i][p] \in S[i] /\ F[i][p] = step(p, i)
    OBVIOUS
  <2>1. /\ p \in [ok : BOOLEAN, graph : FlowGraphs] /\ ReconnectedTo(g, n, u, i - 1, p)
        /\ i \in 0..m
    BY <1>1
  <2>2. F[i][p] = step(p, i)
    BY <2>1
  <2>3. ReconnectedTo(g, n, u, i, step(p, i))
    BY <1>5, <2>1, ReconnectKeeps
  <2>4. step(p, i) \in [ok : BOOLEAN, graph : FlowGraphs]
    BY <2>3 DEF ReconnectedTo
  <2> QED BY <2>1, <2>2, <2>3, <2>4
<1> HIDE DEF S, F, step, first
<1>8. PICK f : Runs(f, m, S, first, F)
  BY <1>1, <1>6, <1>7, LoopRuns
<1>9. IsRun(f)
  <2>1. \A i \in 0..m : f[i] = IF i = 0 THEN first ELSE step(f[i - 1], i)
    <3>1. \A i \in 0..m :
            \/ (i = 0 /\ f[i] = first)
            \/ (i # 0 /\ i \in 1..m /\ f[i] = F[i][f[i - 1]] /\ f[i - 1] \in S[i - 1])
      BY <1>1, <1>8, RunsFacts
    <3> QED BY <1>7, <3>1
  <2> QED BY <1>8, <2>1 DEF Runs
<1>10. IsRun(after)
  BY <1>9
<1>11. after[m] \in S[m]
  <2>1. after[0] = first /\ \A i \in 1..m : after[i] = step(after[i - 1], i)
    <3>1. 0 \in 0..m /\ \A i \in 1..m : i \in 0..m /\ i # 0
      BY <1>1
    <3> HIDE DEF after
    <3> QED BY <1>10, <3>1
  <2> HIDE DEF after
  <2>2. \A i \in 1..m : after[i - 1] \in S[i - 1] => after[i] \in S[i]
    BY <1>7, <2>1
  <2>3. \A i \in 0..m : after[i] \in S[i]
    BY <1>1, <1>6, <2>1, <2>2, LoopKeeps
  <2> QED BY <1>1, <2>3
<1> HIDE DEF after
<1>12. ReconnectedTo(g, n, u, m, Reconnected(g, n))
  BY <1>1, <1>3, <1>11 DEF S
<1> QED BY <1>2, <1>4, <1>12 DEF u, k

-----------------------------------------------------------------------------
(* The undo list.                                                          *)

\* every slot holds a state, or those do that have been written since slot 0
Filled(c) ==
  \/ \A s \in History!Slots : c.states[s] \in Data
  \/ /\ c.num_prev <= c.current /\ c.current + c.num_next < STATE_CACHE_SIZE
     /\ \A s \in 0..(c.current + c.num_next) : c.states[s] \in Data

CacheOK(c) ==
  /\ c \in [states : [History!Slots -> Data \cup {NoState}], current : History!Slots,
            num_prev : Nat, num_next : Nat]
  /\ Filled(c)

LEMMA SlotFacts ==
  ASSUME NEW i \in History!Slots
  PROVE  /\ History!NextSlot(i) = IF i + 1 < STATE_CACHE_SIZE THEN i + 1 ELSE 0
         /\ History!PrevSlot(i) = IF i > 0 THEN i - 1 ELSE STATE_CACHE_SIZE - 1
         /\ History!NextSlot(i) \in History!Slots /\ History!PrevSlot(i) \in History!Slots
PROOF
<1> DEFINE N == STATE_CACHE_SIZE
<1>1. N \in Nat /\ N > 0 /\ i \in Nat /\ i < N /\ History!Slots = 0..(N - 1)
  BY CacheAssumption DEF History!Slots
<1>2. (i + 1) % N = IF i + 1 < N THEN i + 1 ELSE 0
  BY <1>1
<1>3. (i + N - 1) % N = IF i > 0 THEN i - 1 ELSE N - 1
  BY <1>1
<1> QED BY <1>1, <1>2, <1>3 DEF History!NextSlot, History!PrevSlot

LEMMA CacheFacts ==
  ASSUME NEW c, CacheOK(c)
  PROVE  /\ History!CurrentState(c) \in Data
         /\ \A n \in Data : /\ CacheOK(History!SaveNewState(c, n))
                            /\ History!CurrentState(History!SaveNewState(c, n)) = n
         /\ History!CanUndo(c) => CacheOK(History!ToPrevState(c))
         /\ History!CanRedo(c) => CacheOK(History!ToNextState(c))
PROOF
<1> DEFINE N == STATE_CACHE_SIZE
           next == History!NextSlot(c.current)
           prev == History!PrevSlot(c.current)
<1>1. /\ N \in Nat /\ N > 0 /\ History!Slots = 0..(N - 1)
      /\ c.states \in [History!Slots -> Data \cup {NoState}]
      /\ c.current \in Nat /\ c.current < N /\ c.current \in History!Slots
      /\ c.num_prev \in Nat /\ c.num_next \in Nat /\ Filled(c)
      /\ c = [states |-> c.states, current |-> c.current,
              num_prev |-> c.num_prev, num_next |-> c.num_next]
  BY CacheAssumption DEF CacheOK, History!Slots
<1>2. /\ next = IF c.current + 1 < N THEN c.current + 1 ELSE 0
      /\ prev = IF c.current > 0 THEN c.current - 1 ELSE N - 1
      /\ next \in History!Slots /\ prev \in History!Slots
  BY <1>1, SlotFacts
<1> HIDE DEF next, prev
<1>3. History!CurrentState(c) \in Data
  <2>1. c.current \in 0..(c.current + c.num_next)
    BY <1>1
  <2> QED BY <1>1, <2>1 DEF Filled, History!CurrentState
<1>4. ASSUME NEW n \in Data
      PROVE  /\ CacheOK(History!SaveNewState(c, n))
             /\ History!CurrentState(History!SaveNewState(c, n)) = n
  <2> DEFINE X == [c.states EXCEPT ![next] = n]
             p == IF c.num_prev + 1 = N THEN N - 1 ELSE c.num_prev + 1
             d == History!SaveNewState(c, n)
  <2>1. d = [states |-> X, current |-> next, num_prev |-> p, num_next |-> 0]
    BY DEF History!SaveNewState, next
  <2>2. /\ X \in [History!Slots -> Data \cup {NoState}] /\ p \in Nat
        /\ X[next] = n /\ \A s \in History!Slots : c.states[s] \in Data => X[s] \in Data
    BY <1>1, <1>2
  <2>3. d.states = X /\ d.current = next /\ d.num_prev = p /\ d.num_next = 0
    BY <2>1
  <2>4. Filled(d)
    <3>1. CASE \A s \in History!Slots : c.states[s] \in Data
      BY <2>2, <2>3, <3>1 DEF Filled
    <3>2. CASE /\ c.num_prev <= c.current /\ c.current + c.num_next < N
               /\ \A s \in 0..(c.current + c.num_next) : c.states[s] \in Data
      <4>1. \A s \in 0..c.current : s \in History!Slots /\ s \in 0..(c.current + c.num_next)
        BY <1>1
      <4>2. \A s \in 0..c.current : X[s] \in Data
        BY <2>2, <3>2, <4>1
      <4>3. CASE c.current + 1 < N
        <5>1. /\ next = c.current + 1 /\ p = c.num_prev + 1 /\ p <= next /\ next + 0 < N
              /\ \A s \in 0..(next + 0) : s \in 0..c.current \/ s = next
          BY <1>1, <1>2, <3>2, <4>3
        <5> HIDE DEF X, p, d
        <5>2. \A s \in 0..(next + 0) : X[s] \in Data
          BY <2>2, <4>2, <5>1
        <5> QED BY <2>3, <5>1, <5>2 DEF Filled
      <4>4. CASE ~(c.current + 1 < N)
        <5>1. \A s \in History!Slots : s \in 0..c.current
          BY <1>1, <4>4
        <5> QED BY <2>3, <4>2, <5>1 DEF Filled
      <4> QED BY <4>3, <4>4
    <3> QED BY <1>1, <3>1, <3>2 DEF Filled
  <2> HIDE DEF X, p
  <2>5. CacheOK(d)
    <3> HIDE DEF d
    <3> QED BY <1>2, <2>1, <2>2, <2>4 DEF CacheOK
  <2>6. History!CurrentState(d) = n
    BY <2>2, <2>3 DEF History!CurrentState
  <2> QED BY <2>5, <2>6
<1>5. ASSUME History!CanUndo(c)
      PROVE  CacheOK(History!ToPrevState(c))
  <2> DEFINE d == History!ToPrevState(c)
  <2>1. c.num_prev > 0 /\ c.num_prev - 1 \in Nat /\ c.num_next + 1 \in Nat
    BY <1>1, <1>5 DEF History!CanUndo
  <2>2. d = [c EXCEPT !.current = prev, !.num_next = c.num_next + 1, !.num_prev = c.num_prev - 1]
    BY DEF History!ToPrevState, prev
  <2>3. /\ d \in [states : [History!Slots -> Data \cup {NoState}], current : History!Slots,
                  num_prev : Nat, num_next : Nat]
        /\ d.states = c.states /\ d.current = prev
        /\ d.num_prev = c.num_prev - 1 /\ d.num_next = c.num_next + 1
    BY <1>2, <2>1, <2>2 DEF CacheOK
  <2> HIDE DEF d
  <2>4. Filled(d)
    <3>1. CASE \A s \in History!Slots : c.states[s] \in Data
      BY <2>3, <3>1 DEF Filled
    <3>2. CASE /\ c.num_prev <= c.current /\ c.current + c.num_next < N
               /\ \A s \in 0..(c.current + c.num_next) : c.states[s] \in Data
      <4>1. prev = c.current - 1 /\ prev + (c.num_next + 1) = c.current + c.num_next
            /\ c.num_prev - 1 <= prev
        BY <1>1, <1>2, <2>1, <3>2
      <4> QED BY <2>3, <3>2, <4>1 DEF Filled
    <3> QED BY <1>1, <3>1, <3>2 DEF Filled
  <2>5. CacheOK(d)
    BY <2>3, <2>4 DEF CacheOK
  <2> QED BY <2>5 DEF d
<1>6. ASSUME History!CanRedo(c)
      PROVE  CacheOK(History!ToNextState(c))
  <2> DEFINE d == History!ToNextState(c)
  <2>1. c.num_next > 0 /\ c.num_prev + 1 \in Nat /\ c.num_next - 1 \in Nat
    BY <1>1, <1>6 DEF History!CanRedo
  <2>2. d = [c EXCEPT !.current = next, !.num_next = c.num_next - 1, !.num_prev = c.num_prev + 1]
    BY DEF History!ToNextState, next
  <2>3. /\ d \in [states : [History!Slots -> Data \cup {NoState}], current : History!Slots,
                  num_prev : Nat, num_next : Nat]
        /\ d.states = c.states /\ d.current = next
        /\ d.num_prev = c.num_prev + 1 /\ d.num_next = c.num_next - 1
    BY <1>2, <2>1, <2>2 DEF CacheOK
  <2> HIDE DEF d
  <2>4. Filled(d)
    <3>1. CASE \A s \in History!Slots : c.states[s] \in Data
      BY <2>3, <3>1 DEF Filled
    <3>2. CASE /\ c.num_prev <= c.current /\ c.current + c.num_next < N
               /\ \A s \in 0..(c.current + c.num_next) : c.states[s] \in Data
      <4>1. c.current + 1 < N
        BY <1>1, <2>1, <3>2
      <4>2. next = c.current + 1
        BY <1>2, <4>1
      <4>3. c.current \in Nat /\ c.num_prev \in Nat /\ c.num_next \in Nat
        BY <1>1
      <4>4. next + (c.num_next - 1) = c.current + c.num_next /\ c.num_prev + 1 <= next
        BY <3>2, <4>2, <4>3
      <4> QED BY <2>3, <3>2, <4>1, <4>4 DEF Filled
    <3> QED BY <1>1, <3>1, <3>2 DEF Filled
  <2>5. CacheOK(d)
    BY <2>3, <2>4 DEF CacheOK
  <2> QED BY <2>5 DEF d
<1> QED BY <1>3, <1>4, <1>5, <1>6

LEMMA NewCacheFacts ==
  ASSUME NEW n \in Data
  PROVE  CacheOK(History!NewCache(n)) /\ History!CurrentState(History!NewCache(n)) = n
PROOF
<1> DEFINE X == [i \in History!Slots |-> IF i = 0 THEN n ELSE NoState]
           d == History!NewCache(n)
<1>1. STATE_CACHE_SIZE \in Nat /\ STATE_CACHE_SIZE > 0 /\ 0 \in History!Slots
  BY CacheAssumption DEF History!Slots
<1>2. d = [states |-> X, current |-> 0, num_prev |-> 0, num_next |-> 0]
  BY DEF History!NewCache
<1>3. X \in [History!Slots -> Data \cup {NoState}] /\ X[0] = n
  BY <1>1
<1>4. d.states = X /\ d.current = 0 /\ d.num_prev = 0 /\ d.num_next = 0
  BY <1>2
<1>5. \A s \in 0..(0 + 0) : s = 0
  OBVIOUS
<1> HIDE DEF X
<1>6. Filled(d)
  <2> HIDE DEF d
  <2> QED BY <1>1, <1>3, <1>4, <1>5 DEF Filled
<1>7. CacheOK(d)
  <2> HIDE DEF d
  <2> QED BY <1>1, <1>2, <1>3, <1>6 DEF CacheOK
<1> QED BY <1>3, <1>4, <1>7 DEF History!CurrentState

-----------------------------------------------------------------------------
(* The invariant.                                                          *)

\* outside the dialog: the namespace is that of the variables, what is recorded is what
\* is shown, and the ports are those that the parameters ask for
Rested(g, c, left, lost) ==
  /\ Circular(g.params) \/ g.ns = Namespace(g.params)
  /\ ~left => /\ RecordsOf(g) = BlocksOf(History!CurrentState(c))
              /\ Connections(g) \subseteq ToSet(History!CurrentState(c).connections)
  /\ ~lost => \A b \in HasBlocks(g) : FollowsIn(g, b, g.ns)

Inv ==
  /\ Sound(graph) /\ graph.renew = FALSE
  /\ dialog \in HasBlocks(graph) \cup {"none"}
  /\ Closed(clipboard) /\ CacheOK(cache)
  /\ torn \in BOOLEAN /\ cut \in BOOLEAN /\ acts \in 0..MaxActs
  /\ Idle => Rested(graph, cache, torn, cut)

\* an edit that ends with update() and save_new_state()
LEMMA RecordRests ==
  ASSUME NEW g, Sound(g), NEW c, CacheOK(c)
  PROVE  LET h == Update(g)
             d == History!SaveNewState(c, Export(h))
         IN  /\ Sound(h) /\ h.renew = FALSE /\ HasBlocks(h) = HasBlocks(g)
             /\ CacheOK(d) /\ Rested(h, d, FALSE, Connections(h) # Connections(g))
PROOF
<1> DEFINE h == Update(g)
           d == History!SaveNewState(c, Export(h))
<1>1. Updated(g, h)
  BY UpdateFacts
<1> HIDE DEF h
<1>2. Sound(h) /\ h.params = g.params /\ h.renew = FALSE /\ h.ns = Renewed(g)
  BY <1>1 DEF Updated, Thinned
<1>3. /\ Export(h) \in Data /\ BlocksOf(Export(h)) = RecordsOf(h)
      /\ ToSet(Export(h).connections) = Connections(h)
  BY <1>2, ExportFacts
<1>4. CacheOK(d) /\ History!CurrentState(d) = Export(h)
  BY <1>3, CacheFacts
<1> HIDE DEF d
<1>5. Circular(h.params) \/ h.ns = Namespace(h.params)
  BY <1>2 DEF Renewed
<1>6. Rested(h, d, FALSE, Connections(h) # Connections(g))
  BY <1>1, <1>3, <1>4, <1>5 DEF Rested, Updated
<1> QED BY <1>2, <1>4, <1>6 DEF h, d, HasBlocks

\* an import of the state that is then the current one
LEMMA RestoreRests ==
  ASSUME NEW g, g.ns \in Spaces, g.renew \in BOOLEAN,
         NEW c, CacheOK(c), NEW n \in Data, History!CurrentState(c) = n
  PROVE  LET i == Import(g, n)
             h == Update(i)
         IN  /\ Sound(h) /\ h.renew = FALSE
             /\ Rested(h, c, FALSE, Connections(h) # Connections(i))
PROOF
<1> DEFINE i == Import(g, n)
           h == Update(i)
<1>1. /\ Sound(h) /\ Updated(i, h)
      /\ RecordsOf(h) = BlocksOf(n) /\ Connections(h) \subseteq ToSet(n.connections)
      /\ ~Circular(h.params) => h.ns = Namespace(h.params)
  BY RestoreFacts
<1> HIDE DEF h, i
<1>2. Rested(h, c, FALSE, Connections(h) # Connections(i))
  BY <1>1 DEF Rested, Updated
<1> QED BY <1>1, <1>2 DEF Updated, h, i

LEMMA InitInv ==
  ASSUME Init
  PROVE  Inv
PROOF
<1>1. PICK n \in Files :
        /\ cache = History!NewCache(n)
        /\ graph = Update(Import(NewGraph, n))
        /\ cut = (Connections(graph) # Connections(Import(NewGraph, n)))
  BY DEF Init
<1>2. n \in Data
  BY FilesAssumption
<1>3. CacheOK(cache) /\ History!CurrentState(cache) = n
  BY <1>1, <1>2, NewCacheFacts
<1>4. NewGraph.ns \in Spaces /\ NewGraph.renew \in BOOLEAN
  BY DEF NewGraph, Spaces
<1>5. Sound(graph) /\ graph.renew = FALSE /\ Rested(graph, cache, FALSE, cut)
  BY <1>1, <1>2, <1>3, <1>4, RestoreRests
<1>6. Closed(clipboard)
  <2>1. /\ NoClipboard.blocks = << >> /\ NoClipboard.connections = << >>
        /\ DOMAIN << >> = {} /\ ToSet(<< >>) = {} /\ IsInjective(<< >>)
    BY DEF NoClipboard, ToSet, IsInjective
  <2>2. NoClipboard \in Data
    BY <2>1 DEF Data, NoClipboard
  <2>3. clipboard = NoClipboard
    BY DEF Init
  <2> QED BY <2>1, <2>2, <2>3 DEF Closed, IdsOf
<1>7. dialog = "none" /\ torn = FALSE /\ cut \in BOOLEAN /\ acts \in 0..MaxActs
  BY <1>1, CacheAssumption DEF Init
<1> QED BY <1>3, <1>5, <1>6, <1>7 DEF Inv

\* what the actions have to show, but for the count of actions
StepOK ==
  /\ Sound(graph') /\ graph'.renew = FALSE
  /\ dialog' \in HasBlocks(graph') \cup {"none"}
  /\ Closed(clipboard') /\ CacheOK(cache')
  /\ torn' \in BOOLEAN /\ cut' \in BOOLEAN
  /\ Idle' => Rested(graph', cache', torn', cut')

\* an edit of a sound flow graph that is recorded
LEMMA RecordStep ==
  ASSUME Inv, NEW g, Sound(g), Record(g), dialog' = "none", clipboard' = clipboard
  PROVE  StepOK
PROOF
<1>1. /\ graph' = Update(g) /\ cut' = (Connections(graph') # Connections(g)) /\ torn' = FALSE
      /\ cache' = History!SaveNewState(cache, Export(graph'))
  BY DEF Record, Updates
<1>2. /\ Sound(graph') /\ graph'.renew = FALSE /\ CacheOK(cache')
      /\ Rested(graph', cache', torn', cut')
  BY <1>1, RecordRests DEF Inv
<1> QED BY <1>1, <1>2 DEF StepOK, Inv

\* an import, in undo, redo and a cancelled dialog
LEMMA RestoreStep ==
  ASSUME Inv, NEW c, CacheOK(c), Restore(c), dialog' = "none", clipboard' = clipboard
  PROVE  StepOK
PROOF
<1> DEFINE n == History!CurrentState(c)
           i == Import(graph, n)
<1>1. /\ cache' = c /\ graph' = Update(i) /\ torn' = FALSE
      /\ cut' = (Connections(graph') # Connections(i))
  BY DEF Restore, Updates
<1>2. n \in Data /\ graph.ns \in Spaces /\ graph.renew \in BOOLEAN
  BY CacheFacts, GraphFacts DEF Inv
<1>3. Sound(graph') /\ graph'.renew = FALSE /\ Rested(graph', cache', torn', cut')
  BY <1>1, <1>2, RestoreRests
<1> QED BY <1>1, <1>3 DEF StepOK, Inv

\* an edit that is neither recorded nor followed by an update
LEMMA StillRests ==
  ASSUME Inv, Idle, NEW g, g.params = graph.params, g.ports = graph.ports, g.ns = graph.ns,
         Connections(g) = Connections(graph)
  PROVE  Rested(g, cache, torn, cut)
BY DEF Inv, Rested, RecordsOf, HasBlocks, FollowsIn

LEMMA ClickStep ==
  ASSUME Inv, NEW e \in ToSet(graph.elements), Click(e)
  PROVE  StepOK
PROOF
<1>1. /\ Idle /\ graph' = Raise(graph, e)
      /\ UNCHANGED <<cache, torn, cut, dialog, clipboard>>
  BY DEF Click, NotRecorded, history
<1>2. /\ Sound(graph') /\ graph'.params = graph.params /\ graph'.ports = graph.ports
      /\ graph'.ns = graph.ns /\ graph'.renew = graph.renew
      /\ Connections(graph') = Connections(graph)
  BY <1>1, RaiseFacts DEF Inv
<1>3. Rested(graph', cache, torn, cut)
  BY <1>1, <1>2, StillRests
<1> QED BY <1>1, <1>2, <1>3 DEF StepOK, Inv, Idle, HasBlocks

LEMMA CreateStep ==
  ASSUME Inv, NEW b \in Ids, Create(b)
  PROVE  StepOK
PROOF
<1> DEFINE p == [expr |-> Number(1), enabled |-> TRUE]
<1>1. p \in Params
  BY DEF Params
<1>2. b \notin HasBlocks(graph) /\ Record(AddBlock(graph, b, p))
      /\ dialog' = "none" /\ clipboard' = clipboard
  BY DEF Create, Idle
<1> HIDE DEF p
<1>3. Sound(AddBlock(graph, b, p))
  BY <1>1, <1>2, AddBlockFacts DEF Inv
<1> QED BY <1>2, <1>3, RecordStep

LEMMA ConnectStep ==
  ASSUME Inv, NEW b \in HasBlocks(graph), NEW c \in HasBlocks(graph),
         NEW i \in 0..(graph.ports[b]["source"] - 1), NEW j \in 0..(graph.ports[c]["sink"] - 1),
         ConnectPorts(Connection(b, i, c, j))
  PROVE  StepOK
PROOF
<1> DEFINE e == Connection(b, i, c, j)
           first == Raise(graph, Block(b))
           raised == Raise(first, Block(c))
<1>1. Sound(graph) /\ Block(b) \in ToSet(graph.elements) /\ Block(c) \in ToSet(graph.elements)
      /\ b \in Ids /\ c \in Ids
  BY GraphFacts DEF Inv
<1>2. i \in Nat /\ j \in Nat
  <2>1. graph.ports[b] \in [Dirs -> Nat] /\ graph.ports[c] \in [Dirs -> Nat]
    BY <1>1, GraphFacts
  <2>2. graph.ports[b]["source"] \in Nat /\ graph.ports[c]["sink"] \in Nat
    BY <2>1 DEF Dirs
  <2> QED BY <2>2
<1>3. e \in Wires /\ e.source = <<b, i>> /\ e.sink = <<c, j>>
  BY <1>1, <1>2 DEF Wires, Connection
<1>4. /\ Sound(first) /\ first.params = graph.params /\ first.ports = graph.ports
      /\ first.ns = graph.ns /\ first.renew = graph.renew
      /\ ToSet(first.elements) = ToSet(graph.elements)
      /\ Connections(first) = Connections(graph)
  BY <1>1, RaiseFacts
<1> HIDE DEF first
<1>5. /\ Sound(raised) /\ raised.params = graph.params /\ raised.ports = graph.ports
      /\ raised.ns = graph.ns /\ raised.renew = graph.renew
      /\ Connections(raised) = Connections(graph)
  BY <1>1, <1>4, RaiseFacts
<1>6. raised = Raise(Raise(graph, Block(e.source[1])), Block(e.sink[1]))
  BY <1>3 DEF first
<1> HIDE DEF raised, e
<1>7. /\ Idle /\ CanConnect(graph, e) /\ UNCHANGED <<dialog, clipboard>>
      /\ IF e \in Connections(graph) THEN graph' = raised /\ NotRecorded
                                     ELSE Record(Connect(raised, e))
  <2>1. ConnectPorts(e)
    BY DEF e
  <2> QED BY <2>1, <1>6 DEF ConnectPorts
<1>8. CASE e \in Connections(graph)
  <2>1. graph' = raised /\ UNCHANGED <<cache, torn, cut>>
    BY <1>7, <1>8 DEF NotRecorded, history
  <2>2. Rested(graph', cache, torn, cut)
    BY <1>5, <1>7, <2>1, StillRests
  <2> QED BY <1>5, <1>7, <2>1, <2>2 DEF StepOK, Inv, Idle, HasBlocks
<1>9. CASE e \notin Connections(graph)
  <2>1. CanConnect(raised, e)
    BY <1>5, <1>7 DEF CanConnect, PortExists, HasBlocks
  <2>2. Sound(Connect(raised, e))
    BY <1>3, <1>5, <1>9, <2>1, ConnectFacts
  <2> QED BY <1>7, <1>9, <2>2, RecordStep DEF Idle
<1> QED BY <1>8, <1>9

LEMMA DeleteStep ==
  ASSUME Inv, NEW e \in ToSet(graph.elements), Delete(e)
  PROVE  StepOK
PROOF
<1>1. Sound(RemoveElement(graph, e))
  BY RemoveElementSound DEF Inv
<1> QED BY <1>1, RecordStep DEF Delete, Idle

LEMMA EnableStep ==
  ASSUME Inv, NEW b \in Ids, NEW to \in BOOLEAN, Enable(b, to)
  PROVE  StepOK
PROOF
<1> DEFINE p == [graph.params[b] EXCEPT !.enabled = to]
           g == [graph EXCEPT !.params[b] = p]
<1>1. /\ b \in HasBlocks(graph) /\ Record([graph EXCEPT !.params[b].enabled = to])
      /\ dialog' = "none" /\ clipboard' = clipboard
  BY DEF Enable, Idle
<1>2. graph.params[b] \in Params
  BY <1>1, GraphFacts DEF Inv
<1>3. p \in Params
  BY <1>2 DEF Params
<1>4. g = [graph EXCEPT !.params[b].enabled = to]
  OBVIOUS
<1> HIDE DEF p
<1>5. Sound(g)
  BY <1>1, <1>3, SetParam DEF Inv
<1> QED BY <1>1, <1>4, <1>5, RecordStep

LEMMA MoveStep ==
  ASSUME Inv, Move
  PROVE  StepOK
PROOF
<1>1. /\ Idle /\ cache' = History!SaveNewState(cache, Export(graph)) /\ torn' = FALSE
      /\ UNCHANGED <<graph, dialog, clipboard, cut>>
  BY DEF Move
<1>2. /\ Export(graph) \in Data /\ BlocksOf(Export(graph)) = RecordsOf(graph)
      /\ ToSet(Export(graph).connections) = Connections(graph)
  BY ExportFacts DEF Inv
<1>3. CacheOK(cache') /\ History!CurrentState(cache') = Export(graph)
  BY <1>1, <1>2, CacheFacts DEF Inv
<1>4. Rested(graph, cache', torn', cut)
  BY <1>1, <1>2, <1>3 DEF Inv, Rested
<1> QED BY <1>1, <1>3, <1>4 DEF StepOK, Inv, Idle

LEMMA OpenStep ==
  ASSUME Inv, NEW b \in Ids, OpenProperties(b)
  PROVE  StepOK
PROOF
<1>1. /\ Idle /\ b \in HasBlocks(graph) /\ dialog' = b
      /\ UNCHANGED <<graph, cache, torn, cut, clipboard>>
  BY DEF OpenProperties, NotRecorded, history
<1> QED BY <1>1 DEF StepOK, Inv, Idle

LEMMA TypeStep ==
  ASSUME Inv, ~Idle, NEW e \in Exprs[dialog], Type(e)
  PROVE  StepOK
PROOF
<1> DEFINE p == [graph.params[dialog] EXCEPT !.expr = e]
           g == [graph EXCEPT !.params[dialog] = p]
           h == RewriteBlock(g, dialog)
<1>1. /\ graph' = Evaluated(RewriteBlock([graph EXCEPT !.params[dialog].expr = e], dialog))
      /\ UNCHANGED <<cache, torn, cut, dialog, clipboard>>
  BY DEF Type, NotRecorded, history
<1>2. dialog \in HasBlocks(graph) /\ dialog \in Ids
  BY GraphFacts DEF Inv, Idle
<1>3. graph.params[dialog] \in Params
  BY <1>2, GraphFacts DEF Inv
<1>4. p \in Params
  BY <1>2, <1>3 DEF Params
<1>5. g = [graph EXCEPT !.params[dialog].expr = e]
  OBVIOUS
<1> HIDE DEF p
<1>6. Sound(g) /\ HasBlocks(g) = HasBlocks(graph)
  BY <1>2, <1>4, SetParam DEF Inv
<1> HIDE DEF g
<1>7. Sound(h) /\ h.params = g.params
  BY <1>2, <1>6, RewriteBlockFacts DEF Thinned
<1>8. graph' = Evaluated(h)
  BY <1>1, <1>5
<1> HIDE DEF h
<1>9. Sound(graph') /\ graph'.renew = FALSE /\ HasBlocks(graph') = HasBlocks(graph)
  BY <1>6, <1>7, <1>8, EvaluatedFacts DEF HasBlocks
<1> QED BY <1>1, <1>9 DEF StepOK, Inv, Idle

LEMMA AcceptStep ==
  ASSUME Inv, Accept
  PROVE  StepOK
BY RecordStep DEF Accept, Inv

LEMMA CancelStep ==
  ASSUME Inv, Cancel
  PROVE  StepOK
BY RestoreStep DEF Cancel, Inv

LEMMA CopyStep ==
  ASSUME Inv, NEW chosen \in Selections, Copy(chosen)
  PROVE  StepOK
PROOF
<1>1. /\ Idle /\ chosen \in SUBSET HasBlocks(graph)
      /\ UNCHANGED <<graph, cache, torn, cut, dialog>>
  BY DEF Copy, NotRecorded, history
<1>2. IsFiniteSet(chosen)
  BY SelectionsAssumption
<1>3. PICK order \in SetToSeqs(chosen) :
        clipboard' = [blocks |-> [i \in DOMAIN order |->
                                    [id |-> order[i], param |-> graph.params[order[i]]]],
                      connections |-> Without(graph.elements,
                        {e \in ToSet(graph.elements) :
                           IsBlock(e) \/ ~({e.source[1], e.sink[1]} \subseteq chosen)})]
  BY DEF Copy
<1>4. Closed(clipboard')
  BY <1>1, <1>2, <1>3, CopyFacts DEF Inv
<1> QED BY <1>1, <1>4 DEF StepOK, Inv, Idle

LEMMA PasteStep ==
  ASSUME Inv, Paste
  PROVE  StepOK
PROOF
<1> DEFINE n == clipboard
           k == Grown(graph, n)
           u == Update(k)
           p == Reconnected(graph, n)
<1>1. /\ Idle /\ UNCHANGED <<dialog, clipboard>>
      /\ IsInjective(PasteIds(graph, n)) /\ ToSet(PasteIds(graph, n)) \cap HasBlocks(graph) = {}
      /\ IF p.ok THEN Record(p.graph)
         ELSE /\ graph' = p.graph /\ torn' = TRUE /\ UNCHANGED cache
              /\ cut' = (Connections(u) # Connections(k))
  BY DEF Paste, PasteIds
<1>2. Sound(graph) /\ Fresh(graph, n)
  BY <1>1 DEF Inv, Fresh
<1>3. /\ Sound(k) /\ Updated(k, u)
      /\ ReconnectedTo(graph, n, u, Len(n.connections), p)
  BY <1>2, ReconnectedFacts
<1>4. GrownTo(graph, n, Len(n.blocks), k)
  BY <1>2, GrownFacts
<1> HIDE DEF k, u, p
<1>5. CASE p.ok
  BY <1>1, <1>3, <1>5, RecordStep DEF ReconnectedTo, Idle
<1>6. CASE ~p.ok
  <2>1. /\ graph' = p.graph /\ torn' = TRUE /\ cache' = cache
        /\ cut' = (Connections(u) # Connections(k))
    BY <1>1, <1>6
  <2>2. /\ Sound(p.graph) /\ p.graph.params = u.params /\ p.graph.ports = u.ports
        /\ p.graph.ns = u.ns /\ p.graph.renew = u.renew
    BY <1>3 DEF ReconnectedTo
  <2>3. /\ u.renew = FALSE /\ u.ns = Renewed(k) /\ u.params = k.params
        /\ Connections(u) = Connections(k) => \A b \in HasBlocks(u) : FollowsIn(u, b, u.ns)
    BY <1>3 DEF Updated, Thinned
  <2>4. Circular(u.params) \/ u.ns = Namespace(u.params)
    BY <2>3 DEF Renewed
  <2>5. Rested(graph', cache', torn', cut')
    BY <2>1, <2>2, <2>3, <2>4 DEF Rested, FollowsIn, HasBlocks
  <2> QED BY <1>1, <2>1, <2>2, <2>3, <2>5 DEF StepOK, Inv, Idle
<1> QED BY <1>5, <1>6

LEMMA UndoStep ==
  ASSUME Inv, Undo
  PROVE  StepOK
PROOF
<1>1. CacheOK(History!ToPrevState(cache))
  BY CacheFacts DEF Inv, Undo
<1> QED BY <1>1, RestoreStep DEF Undo, Idle

LEMMA RedoStep ==
  ASSUME Inv, Redo
  PROVE  StepOK
PROOF
<1>1. CacheOK(History!ToNextState(cache))
  BY CacheFacts DEF Inv, Redo
<1> QED BY <1>1, RestoreStep DEF Redo, Idle

LEMMA ReopenStep ==
  ASSUME Inv, Reopen
  PROVE  StepOK
PROOF
<1> DEFINE n == Export(graph)
           i == Import(NewGraph, n)
<1>1. /\ Idle /\ cache' = History!NewCache(n) /\ UNCHANGED <<dialog, clipboard>>
      /\ graph' = Update(i) /\ cut' = (Connections(graph') # Connections(i)) /\ torn' = FALSE
  BY DEF Reopen, Updates
<1>2. n \in Data
  BY ExportFacts DEF Inv
<1>3. NewGraph.ns \in Spaces /\ NewGraph.renew \in BOOLEAN
  BY DEF NewGraph, Spaces
<1> HIDE DEF n
<1>4. CacheOK(cache') /\ History!CurrentState(cache') = n
  BY <1>1, <1>2, NewCacheFacts
<1>5. Sound(graph') /\ graph'.renew = FALSE /\ Rested(graph', cache', torn', cut')
  BY <1>1, <1>2, <1>3, <1>4, RestoreRests
<1> QED BY <1>1, <1>4, <1>5 DEF StepOK, Inv, Idle

LEMMA StepInv ==
  ASSUME Inv, [Next]_vars
  PROVE  Inv'
PROOF
<1>1. CASE acts < MaxActs /\ Act /\ acts' = acts + 1
  <2>1. acts' \in 0..MaxActs
    BY <1>1, CacheAssumption DEF Inv
  <2>2. ASSUME NEW e \in ToSet(graph.elements), Click(e) \/ Delete(e)
        PROVE  StepOK
    BY <2>2, ClickStep, DeleteStep
  <2>3. ASSUME NEW b \in Ids, Create(b) \/ OpenProperties(b) \/ \E to \in BOOLEAN : Enable(b, to)
        PROVE  StepOK
    BY <2>3, CreateStep, OpenStep, EnableStep
  <2>4. ASSUME NEW b \in HasBlocks(graph), NEW c \in HasBlocks(graph),
               NEW i \in 0..(graph.ports[b]["source"] - 1),
               NEW j \in 0..(graph.ports[c]["sink"] - 1), ConnectPorts(Connection(b, i, c, j))
        PROVE  StepOK
    BY <2>4, ConnectStep
  <2>5. ASSUME NEW chosen \in Selections, Copy(chosen)
        PROVE  StepOK
    BY <2>5, CopyStep
  <2>6. StepOK
    BY <1>1, <2>2, <2>3, <2>4, <2>5, MoveStep, PasteStep, UndoStep, RedoStep, ReopenStep DEF Act
  <2> QED BY <2>1, <2>6 DEF StepOK, Inv
<1>2. CASE Dialog /\ UNCHANGED acts
  <2>1. StepOK
    BY <1>2, AcceptStep, CancelStep, TypeStep DEF Dialog
  <2> QED BY <1>2, <2>1 DEF StepOK, Inv
<1>3. CASE UNCHANGED vars
  BY <1>3 DEF vars, history, Inv, Idle
<1> QED BY <1>1, <1>2, <1>3 DEF Next

LEMMA SpecInv == Spec => []Inv
PROOF
<1>1. Init => Inv
  BY InitInv
<1>2. Inv /\ [Next]_vars => Inv'
  BY StepInv
<1> QED BY <1>1, <1>2, PTL DEF Spec

-----------------------------------------------------------------------------
(* The properties.                                                         *)

LEMMA InvTypeOK ==
  ASSUME Inv
  PROVE  TypeOK
PROOF
<1>1. graph.elements \in Seq(Elements) /\ IsInjective(graph.elements)
  BY GraphFacts DEF Inv, Sound
<1>2. {e \in ToSet(graph.elements) : IsBlock(e)} =
        {Options} \cup {Block(b) : b \in HasBlocks(graph)}
  BY DEF Inv, Sound, BlocksListed
<1>3. DOMAIN graph.ports = HasBlocks(graph)
  BY DEF Inv, Sound, PortsOf
<1>4. \A b \in HasBlocks(graph) : graph.params[b] \in Params /\ graph.ports[b] \in [Dirs -> Nat]
  BY GraphFacts DEF Inv
<1>5. clipboard \in Data /\ Recorded \in Data
  BY CacheFacts DEF Inv, Closed, Recorded
<1>6. dialog \in HasBlocks(graph) \cup {"none"}
      /\ torn \in BOOLEAN /\ cut \in BOOLEAN /\ acts \in 0..MaxActs
  BY DEF Inv
<1> QED BY <1>1, <1>2, <1>3, <1>4, <1>5, <1>6 DEF TypeOK

LEMMA InvDerivedInStep ==
  ASSUME Inv
  PROVE  DerivedInStep
PROOF
<1>1. ConnectionsAttached
  BY DEF Inv, Sound, Attached, ConnectionsAttached
<1>2. ASSUME Idle, ~Circular(graph.params)
      PROVE  IsMeaning(graph.ns, graph.params)
  <2>1. graph.ns = Namespace(graph.params)
    BY <1>2 DEF Inv, Rested
  <2>2. graph.params \in ParamMaps /\ Rounds(graph.params) \in Nat
    BY GraphFacts, RoundsAreFinite DEF Inv
  <2>3. IsMeaning(Namespace(graph.params), graph.params)
    BY <1>2, <2>2, NamespaceFacts
  <2> QED BY <2>1, <2>3
<1> QED BY <1>1, <1>2 DEF DerivedInStep, NamespaceIsCurrent

LEMMA InvRecordedIsShown ==
  ASSUME Inv
  PROVE  RecordedIsShown
PROOF
<1>1. BlocksOf(Export(graph)) = RecordsOf(graph)
  BY ExportFacts DEF Inv
<1> QED BY <1>1 DEF Inv, Rested, RecordedIsShown, Recorded

LEMMA InvPortsFollow ==
  ASSUME Inv
  PROVE  PortsFollowUnlessCut
BY DEF Inv, Rested, FollowsIn, PortsFollowUnlessCut

\* undo, redo and a cancelled dialog load the blocks in the namespace that is left
LEMMA RestoreLoses ==
  ASSUME Inv, NEW c, CacheOK(c), Restore(c)
  PROVE  Fitting(Recorded', graph.ns) \cap Fitting(Recorded', graph'.ns) \subseteq Connections(graph')
PROOF
<1> DEFINE n == History!CurrentState(c)
<1>1. cache' = c /\ graph' = Update(Import(graph, n))
  BY DEF Restore, Updates
<1>2. n \in Data /\ graph.ns \in Spaces /\ graph.renew = FALSE
  BY CacheFacts, GraphFacts DEF Inv
<1>3. Recorded' = n
  BY <1>1 DEF Recorded
<1> HIDE DEF n
<1>4. Steady(n, graph, graph.ns)
  BY <1>2 DEF Steady
<1>5. Fitting(n, graph.ns) \cap Fitting(n, graph'.ns) \subseteq Connections(graph')
  BY <1>1, <1>2, <1>4, RestoreFacts
<1> QED BY <1>3, <1>5

\* a file is loaded in the namespace of its own variables
LEMMA ReopenLoses ==
  ASSUME Inv, Reopen, ~Early(Recorded'), ~Circular(graph.params)
  PROVE  Fitting(Recorded', graph'.ns) \subseteq Connections(graph')
PROOF
<1> DEFINE n == Export(graph)
           h == Update(Import(NewGraph, n))
<1>1. cache' = History!NewCache(n) /\ graph' = h
  BY DEF Reopen, Updates
<1>2. n \in Data /\ BlocksOf(n) = RecordsOf(graph)
  BY ExportFacts DEF Inv
<1>3. NewGraph.ns \in Spaces /\ NewGraph.renew = TRUE
  BY DEF NewGraph, Spaces
<1> HIDE DEF n
<1>4. Recorded' = n
  BY <1>1, <1>2, NewCacheFacts DEF Recorded
<1>5. /\ h.params = ParamsOf(n)
      /\ ~Circular(h.params) => h.ns = Namespace(h.params)
      /\ \A N : Steady(n, NewGraph, N) =>
           Fitting(n, N) \cap Fitting(n, h.ns) \subseteq Connections(h)
  BY <1>2, <1>3, RestoreFacts
<1> HIDE DEF h
<1>6. ParamsOf(n) = graph.params
  <2> DEFINE P == ParamsOf(n)
             Q == graph.params
             rec(F, b) == [id |-> b, param |-> F[b]]
  <2>1. P \in ParamMaps /\ Q \in ParamMaps
    BY <1>2, DataFacts, GraphFacts DEF Inv
  <2>2. {rec(P, b) : b \in DOMAIN P} = {rec(Q, b) : b \in DOMAIN Q}
    BY <1>2, DataFacts DEF RecordsOf, HasBlocks
  <2> HIDE DEF P, Q
  <2>3. \A x, y : rec(P, x) = rec(Q, y) => x = y /\ P[x] = Q[y]
    <3>1. ASSUME NEW x, NEW y, rec(P, x) = rec(Q, y)
          PROVE  x = y /\ P[x] = Q[y]
      <4>1. rec(P, x).id = x /\ rec(Q, y).id = y /\ rec(P, x).param = P[x] /\ rec(Q, y).param = Q[y]
        OBVIOUS
      <4> QED BY <3>1, <4>1
    <3> QED BY <3>1
  <2> HIDE DEF rec
  <2>4. DOMAIN P = DOMAIN Q /\ \A b \in DOMAIN P : P[b] = Q[b]
    <3>1. ASSUME NEW b \in DOMAIN P
          PROVE  b \in DOMAIN Q /\ P[b] = Q[b]
      <4>1. rec(P, b) \in {rec(P, x) : x \in DOMAIN P}
        OBVIOUS
      <4>2. PICK y \in DOMAIN Q : rec(P, b) = rec(Q, y)
        BY <2>2, <4>1
      <4> QED BY <2>3, <4>2
    <3>2. ASSUME NEW b \in DOMAIN Q
          PROVE  b \in DOMAIN P
      <4>1. rec(Q, b) \in {rec(Q, x) : x \in DOMAIN Q}
        OBVIOUS
      <4>2. PICK x \in DOMAIN P : rec(P, x) = rec(Q, b)
        BY <2>2, <4>1
      <4> QED BY <2>3, <4>2
    <3> QED BY <3>1, <3>2
  <2>5. P = [b \in DOMAIN P |-> P[b]] /\ Q = [b \in DOMAIN Q |-> Q[b]]
    BY <2>1 DEF ParamMaps
  <2>6. P = Q
    BY <2>4, <2>5
  <2> QED BY <2>6 DEF P, Q
<1>7. Steady(n, NewGraph, h.ns)
  BY <1>3, <1>4, <1>5, <1>6 DEF Steady
<1>8. Fitting(n, h.ns) \subseteq Connections(h)
  BY <1>5, <1>7
<1> QED BY <1>1, <1>4, <1>8

LEMMA StepLosesOnlyUnfit ==
  ASSUME Inv, [Next]_vars
  PROVE  [/\ Undo \/ Redo \/ Cancel =>
               Fitting(Recorded', graph.ns) \cap Fitting(Recorded', graph'.ns) \subseteq Connections(graph')
          /\ Reopen /\ ~Early(Recorded') /\ ~Circular(graph.params) =>
               Fitting(Recorded', graph'.ns) \subseteq Connections(graph')]_vars
PROOF
<1>1. ASSUME Undo \/ Redo \/ Cancel
      PROVE  Fitting(Recorded', graph.ns) \cap Fitting(Recorded', graph'.ns) \subseteq Connections(graph')
  <2>1. PICK c : CacheOK(c) /\ Restore(c)
    BY <1>1, CacheFacts DEF Undo, Redo, Cancel, Inv
  <2> QED BY <2>1, RestoreLoses
<1>2. ASSUME Reopen, ~Early(Recorded'), ~Circular(graph.params)
      PROVE  Fitting(Recorded', graph'.ns) \subseteq Connections(graph')
  BY <1>2, ReopenLoses
<1> QED BY <1>1, <1>2

\* TypeOK: the list of a flow graph holds each element once, the blocks in it are those
\* that have parameters and ports, and what is recorded and copied can be imported again.
THEOREM GrcTyping == Spec => []TypeOK
PROOF
<1>1. Inv => TypeOK
  BY InvTypeOK
<1> QED BY <1>1, SpecInv, PTL

\* Every connection ends at ports that are there, and outside the dialog the namespace is
\* that of the variables: whatever remove_element(), rewrite(), import_data() and
\* paste_from_clipboard() are called on, and in whatever order.
THEOREM GrcDerivedInStep == Spec => []DerivedInStep
PROOF
<1>1. Inv => DerivedInStep
  BY InvDerivedInStep
<1> QED BY <1>1, SpecInv, PTL

\* The current state of the undo list is what is shown, but after a paste that raised.
THEOREM GrcRecordedIsShown == Spec => []RecordedIsShown
PROOF
<1>1. Inv => RecordedIsShown
  BY InvRecordedIsShown
<1> QED BY <1>1, SpecInv, PTL

\* rewrite() goes past a block only when it removes a connection from the list.
THEOREM GrcPortsFollow == Spec => []PortsFollowUnlessCut
PROOF
<1>1. Inv => PortsFollowUnlessCut
  BY InvPortsFollow
<1> QED BY <1>1, SpecInv, PTL

\* import_data() drops only connections whose ports are missing in the namespace that the
\* blocks are loaded in.
THEOREM GrcRestoreLoses == Spec => RestoreLosesOnlyUnfit
PROOF
<1>1. Inv /\ [Next]_vars =>
        [/\ Undo \/ Redo \/ Cancel =>
              Fitting(Recorded', graph.ns) \cap Fitting(Recorded', graph'.ns) \subseteq Connections(graph')
         /\ Reopen /\ ~Early(Recorded') /\ ~Circular(graph.params) =>
              Fitting(Recorded', graph'.ns) \subseteq Connections(graph')]_vars
  BY StepLosesOnlyUnfit
<1> QED BY <1>1, SpecInv, PTL DEF Spec, RestoreLosesOnlyUnfit
=============================================================================
