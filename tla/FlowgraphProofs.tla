--------------------------- MODULE FlowgraphProofs ---------------------------
(***************************************************************************)
(* What HierBlock.tla and FlatFlowgraph.tla keep to, whatever the blocks,  *)
(* the applications and their graphs are.  Of the hierarchical blocks:     *)
(* their types, and that lock() finds the top block.  Of the flat graph:   *)
(* its types, that the readers of a running graph are those of its edges   *)
(* and stand in their streams, and that an edge that stays through a       *)
(* reconfiguration keeps its reader.                                       *)
(***************************************************************************)
EXTENDS HierBlock, FlatFlowgraph, FiniteSetTheorems, SequenceTheorems,
        WellFoundedInduction, TLAPS

Wires == [src : Blocks \X Nat, dst : Blocks \X Nat]
MsgWires == [src : Blocks \X STRING, dst : Blocks \X STRING]

\* what the inputs and the outputs of some hierarchical block can be
Inputs == UNION {[Ports(h, "in") -> SUBSET (Blocks \X Nat)] : h \in Hiers}
Outputs == UNION {[Ports(h, "out") -> (Blocks \X Nat) \cup {NoEndpoint}] : h \in Hiers}

Nets == [edges : [Hiers -> SUBSET Wires], msgs : [Hiers -> Seq(MsgWires)],
         inputs : [Hiers -> Inputs], outputs : [Hiers -> Outputs],
         blocks : [Hiers -> [Blocks -> Nat]], parent : [Hiers -> Hiers \cup {NoParent}]]

IsNet(n) ==
  /\ n \in Nets
  /\ \A h \in Hiers :
       /\ n.inputs[h] \in [Ports(h, "in") -> SUBSET (Blocks \X Nat)]
       /\ n.outputs[h] \in [Ports(h, "out") -> (Blocks \X Nat) \cup {NoEndpoint}]

\* what is connected in h is what the application asks for there
Asked(n, h) ==
  /\ n.edges[h] \subseteq app[h].edges /\ ToSet(n.msgs[h]) \subseteq app[h].msgs
  /\ AtPorts(n, h) \subseteq UNION {{e.src, e.dst} : e \in app[h].edges}
  /\ n.blocks[h] \in [Blocks -> 0 .. MaxListed]

\* m differs from n at h alone, but for parents
Beside(n, m, h) ==
  \A k \in Hiers \ {h} :
    /\ m.edges[k] = n.edges[k] /\ m.msgs[k] = n.msgs[k]
    /\ m.inputs[k] = n.inputs[k] /\ m.outputs[k] = n.outputs[k]
    /\ m.blocks[k] = n.blocks[k]

\* the hierarchical blocks among bs, but for h, get another parent
Adopts(n, m, h, bs, to) ==
  \A b \in Hiers : m.parent[b] = IF b \in bs \ {h} THEN to ELSE n.parent[b]

\* what a call on h makes of n: it names the blocks bs
Call(n, m, h, bs, to) ==
  /\ IsNet(m) /\ Beside(n, m, h) /\ Adopts(n, m, h, bs, to) /\ Asked(m, h)

HomeOf(h) == IF h \in DOMAIN app THEN Homed(app, h) ELSE {}

\* a block that no disconnect named has the block that it is in for its parent
Parented ==
  \A h \in Hiers :
    /\ Members(net, h) \subseteq HomeOf(h)
    /\ \A b \in Members(net, h) \ cleared : net.parent[b] = h

Inv == TypeOK /\ IsNet(net) /\ Parented
-----------------------------------------------------------------------------
(* Sets and sequences.                                                     *)

LEMMA NatLeast ==
  ASSUME NEW S, S \subseteq Nat, S # {}
  PROVE  \E x \in S : \A y \in S : x <= y
PROOF
<1>1. PICK x \in S : \A y \in S : ~(<<y, x>> \in OpToRel(<, Nat))
  BY NatLessThanWellFounded, WFMin
<1>2. \A y \in S : <<y, x>> \in Nat \X Nat /\ <<y, x>>[1] = y /\ <<y, x>>[2] = x
  OBVIOUS
<1>3. \A y \in S : ~(y < x)
  <2> SUFFICES ASSUME NEW y \in S, y < x PROVE FALSE
    OBVIOUS
  <2>1. <<y, x>>[1] < <<y, x>>[2]
    BY <1>2
  <2> QED
    BY <1>1, <1>2, <2>1, Zenon DEF OpToRel
<1> QED
  BY <1>3

LEMMA FromSet ==
  ASSUME NEW S, IsFiniteSet(S)
  PROVE  ToSet(SetToSeq(S)) \subseteq S
PROOF
<1> DEFINE D == 1..Cardinality(S)
           s == SetToSeq(S)
<1>1. PICK f : f \in Bijection(D, S)
  BY FS_CardinalityType DEF ExistsBijection
<1>2. f \in [D -> S] /\ IsInjective(f)
  BY <1>1 DEF Bijection, Injection, IsInjective
<1>3. s \in [D -> S] /\ IsInjective(s)
  BY <1>2, Zenon DEF SetToSeq
<1> QED BY <1>3 DEF ToSet

LEMMA MinIsIn ==
  ASSUME NEW S, S \subseteq Nat, S # {}
  PROVE  Min(S) \in S
PROOF
  BY NatLeast DEF Min

LEMMA RemovingFirst ==
  ASSUME NEW T, NEW s \in Seq(T), NEW e
  PROVE  RemoveFirst(s, e) \in Seq(T) /\ ToSet(RemoveFirst(s, e)) \subseteq ToSet(s)
PROOF
<1>1. CASE ~\E i \in 1..Len(s) : s[i] = e
  BY <1>1 DEF RemoveFirst
<1>2. CASE \E i \in 1..Len(s) : s[i] = e
  <2> DEFINE I == {i \in 1..Len(s) : s[i] = e}
             i == Min(I)
  <2>0. I \subseteq Nat /\ I # {}
    BY <1>2
  <2> HIDE DEF I
  <2>1. i \in 1..Len(s)
    <3>1. i \in I
      BY <2>0, MinIsIn
    <3> QED BY <3>1 DEF I
  <2>2. RemoveFirst(s, e) = SubSeq(s, 1, i - 1) \o SubSeq(s, i + 1, Len(s))
    BY <1>2 DEF RemoveFirst, RemoveAt, SelectInSeq, I
  <2> HIDE DEF i
  <2> DEFINE a == SubSeq(s, 1, i - 1)
             b == SubSeq(s, i + 1, Len(s))
  <2>3. /\ a \in Seq(T) /\ Len(a) = i - 1 /\ \A k \in 1..Len(a) : a[k] = s[k]
        /\ b \in Seq(T) /\ Len(b) = Len(s) - i /\ \A k \in 1..Len(b) : b[k] = s[i + k]
    BY <2>1, SubSeqProperties
  <2> HIDE DEF a, b
  <2>4. /\ a \o b \in Seq(T) /\ Len(a \o b) = Len(a) + Len(b)
        /\ \A k \in 1..Len(a \o b) : (a \o b)[k] = IF k <= Len(a) THEN a[k] ELSE b[k - Len(a)]
    BY <2>3, ConcatProperties
  <2>5. \A k \in 1..Len(a \o b) : (a \o b)[k] \in ToSet(s)
    <3> SUFFICES ASSUME NEW k \in 1..Len(a \o b) PROVE (a \o b)[k] \in ToSet(s)
      OBVIOUS
    <3>1. CASE k <= Len(a)
      <4>1. k \in 1..Len(s) /\ (a \o b)[k] = s[k]
        BY <2>1, <2>3, <2>4, <3>1
      <4> QED BY <4>1 DEF ToSet
    <3>2. CASE k > Len(a)
      <4>1. k - Len(a) \in 1..Len(b) /\ i + (k - Len(a)) \in 1..Len(s)
        BY <2>1, <2>3, <2>4, <3>2
      <4>2. (a \o b)[k] = s[i + (k - Len(a))]
        BY <2>1, <2>3, <2>4, <3>2, <4>1
      <4> QED BY <4>1, <4>2 DEF ToSet
    <3> QED BY <2>1, <2>3, <2>4, <3>1, <3>2
  <2>6. RemoveFirst(s, e) = a \o b
    BY <2>2 DEF a, b
  <2>7. ToSet(a \o b) \subseteq ToSet(s)
    <3> DEFINE t == a \o b
    <3>1. t \in Seq(T) /\ \A k \in 1..Len(t) : t[k] \in ToSet(s)
      BY <2>4, <2>5
    <3> HIDE DEF t
    <3>2. ToSet(t) \subseteq ToSet(s)
      BY <3>1 DEF ToSet
    <3> QED BY <3>2 DEF t
  <2> QED BY <2>4, <2>6, <2>7
<1> QED BY <1>1, <1>2
-----------------------------------------------------------------------------
(* Closures.                                                               *)

IsClosed(R, U) == \A b \in U : R[b] \subseteq U
Least(R, T) == {b \in Hiers : \A U \in SUBSET Hiers : T \subseteq U /\ IsClosed(R, U) => b \in U}
More(R, T) == T \cup UNION {R[b] : b \in T}

LEMMA FiniteHiers == IsFiniteSet(Hiers)
PROOF
  BY HiersAssumption, SignatureAssumption, FS_Subset

LEMMA LeastFacts ==
  ASSUME NEW R \in [Hiers -> SUBSET Hiers], NEW T \in SUBSET Hiers
  PROVE  /\ T \subseteq Least(R, T) /\ IsClosed(R, Least(R, T))
         /\ More(R, T) \in SUBSET Hiers
         /\ Least(R, T) = IF More(R, T) = T THEN T ELSE Least(R, More(R, T))
PROOF
<1>1. T \subseteq Least(R, T)
  BY DEF Least
<1>2. IsClosed(R, Least(R, T))
  <2> SUFFICES ASSUME NEW b \in Least(R, T), NEW c \in R[b], NEW U \in SUBSET Hiers,
                      T \subseteq U, IsClosed(R, U)
               PROVE  c \in Hiers /\ c \in U
    BY DEF IsClosed, Least
  <2>1. b \in Hiers /\ b \in U
    BY DEF Least
  <2> QED BY <2>1 DEF IsClosed
<1>3. More(R, T) \in SUBSET Hiers
  BY DEF More
<1>4. CASE More(R, T) = T
  <2>1. IsClosed(R, T)
    BY <1>4 DEF More, IsClosed
  <2>2. Least(R, T) \subseteq T
    BY <2>1 DEF Least
  <2> QED BY <1>1, <1>2, <1>3, <1>4, <2>2
<1>5. CASE More(R, T) # T
  <2>1. \A U \in SUBSET Hiers : IsClosed(R, U) => (T \subseteq U <=> More(R, T) \subseteq U)
    BY DEF IsClosed, More
  <2>2. Least(R, T) = Least(R, More(R, T))
    BY <2>1 DEF Least
  <2> QED BY <1>1, <1>2, <1>3, <1>5, <2>2
<1> QED BY <1>4, <1>5

LEMMA SmallerSet ==
  ASSUME NEW A, IsFiniteSet(A), NEW B, B \subseteq A, B # A
  PROVE  ~(Cardinality(A) <= Cardinality(B))
PROOF
<1>1. /\ Cardinality(A) \in Nat /\ Cardinality(B) \in Nat /\ Cardinality(B) <= Cardinality(A)
      /\ Cardinality(A) # Cardinality(B)
  BY FS_Subset, FS_CardinalityType
<1> QED BY <1>1

\* Closure(R, S) is the least set that has S and follows R
LEMMA ClosureIsLeast ==
  ASSUME NEW R \in [Hiers -> SUBSET Hiers], NEW S \in SUBSET Hiers
  PROVE  Closure(R, S) = Least(R, S)
PROOF
<1> DEFINE IsGrown(f) == f = [T \in SUBSET Hiers |->
                                IF More(R, T) = T THEN T ELSE f[More(R, T)]]
           g == CHOOSE f : IsGrown(f)
           l == [T \in SUBSET Hiers |-> Least(R, T)]
<1>1. IsGrown(l)
  <2>1. ASSUME NEW T \in SUBSET Hiers
        PROVE  Least(R, T) = IF More(R, T) = T THEN T ELSE l[More(R, T)]
    BY LeastFacts
  <2> QED BY <2>1
<1>2. IsGrown(g)
  BY <1>1
<1>3. \A T \in SUBSET Hiers : g[T] = Least(R, T)
  <2> DEFINE Rest(T) == Cardinality(Hiers \ T)
             Bad == {T \in SUBSET Hiers : g[T] # Least(R, T)}
             Sizes == {Rest(T) : T \in Bad}
  <2> SUFFICES ASSUME Bad # {} PROVE FALSE
    OBVIOUS
  <2>1. \A T \in SUBSET Hiers : IsFiniteSet(Hiers \ T) /\ Rest(T) \in Nat
    BY FiniteHiers, FS_Subset, FS_CardinalityType
  <2>2. Sizes \subseteq Nat /\ Sizes # {}
    BY <2>1
  <2>3. PICK T \in Bad : \A U \in Bad : Rest(T) <= Rest(U)
    <3> HIDE DEF Sizes
    <3>1. PICK x \in Sizes : \A y \in Sizes : x <= y
      BY <2>2, NatLeast
    <3> QED BY <3>1 DEF Sizes
  <2> DEFINE M == More(R, T)
  <2>4. T \in SUBSET Hiers /\ M \in SUBSET Hiers /\ T \subseteq M
    BY LeastFacts DEF More
  <2>5. g[T] = IF M = T THEN T ELSE g[M]
    BY <1>2, <2>4
  <2>6. M # T /\ g[M] # Least(R, M)
    BY <2>4, <2>5, LeastFacts
  <2>7. Rest(T) <= Rest(M)
    BY <2>3, <2>4, <2>6
  <2>8. Hiers \ M \in SUBSET (Hiers \ T) /\ Hiers \ M # Hiers \ T
    BY <2>4, <2>6
  <2> HIDE DEF Bad, M
  <2> QED BY <2>1, <2>4, <2>7, <2>8, SmallerSet
<1>4. Closure(R, S) = g[S]
  BY DEF Closure, More
<1> QED BY <1>3, <1>4

\* the two uses of it
LEMMA ClosureFacts ==
  ASSUME NEW R \in [Hiers -> SUBSET Hiers], NEW S \in SUBSET Hiers
  PROVE  /\ S \subseteq Closure(R, S) /\ Closure(R, S) \subseteq Hiers
         /\ \A b \in Closure(R, S) : R[b] \subseteq Closure(R, S)
         /\ \A U \in SUBSET Hiers :
              S \subseteq U /\ (\A b \in U : R[b] \subseteq U) => Closure(R, S) \subseteq U
PROOF
<1>1. S \subseteq Least(R, S) /\ IsClosed(R, Least(R, S))
  BY LeastFacts
<1> QED BY <1>1, ClosureIsLeast DEF Least, IsClosed
-----------------------------------------------------------------------------
(* What a call does to a net, part by part.                                *)

\* n and m have the same graphs
SameGraphs(n, m) ==
  /\ m.edges = n.edges /\ m.msgs = n.msgs /\ m.inputs = n.inputs
  /\ m.outputs = n.outputs /\ m.blocks = n.blocks

\* a net with one of its functions replaced
LEMMA EdgesExcept ==
  ASSUME NEW n \in Nets, NEW X \in [Hiers -> SUBSET Wires]
  PROVE  LET m == [n EXCEPT !.edges = X]
         IN  /\ m \in Nets /\ m.edges = X /\ m.msgs = n.msgs /\ m.inputs = n.inputs
             /\ m.outputs = n.outputs /\ m.blocks = n.blocks /\ m.parent = n.parent
PROOF
  BY DEF Nets

LEMMA MsgsExcept ==
  ASSUME NEW n \in Nets, NEW X \in [Hiers -> Seq(MsgWires)]
  PROVE  LET m == [n EXCEPT !.msgs = X]
         IN  /\ m \in Nets /\ m.msgs = X /\ m.edges = n.edges /\ m.inputs = n.inputs
             /\ m.outputs = n.outputs /\ m.blocks = n.blocks /\ m.parent = n.parent
PROOF
  BY DEF Nets

LEMMA InputExcept ==
  ASSUME NEW n \in Nets, NEW X \in [Hiers -> Inputs]
  PROVE  LET m == [n EXCEPT !.inputs = X]
         IN  /\ m \in Nets /\ m.inputs = X /\ m.edges = n.edges /\ m.msgs = n.msgs
             /\ m.outputs = n.outputs /\ m.blocks = n.blocks /\ m.parent = n.parent
PROOF
  BY DEF Nets

LEMMA OutputExcept ==
  ASSUME NEW n \in Nets, NEW X \in [Hiers -> Outputs]
  PROVE  LET m == [n EXCEPT !.outputs = X]
         IN  /\ m \in Nets /\ m.outputs = X /\ m.edges = n.edges /\ m.msgs = n.msgs
             /\ m.inputs = n.inputs /\ m.blocks = n.blocks /\ m.parent = n.parent
PROOF
  BY DEF Nets

LEMMA BlocksExcept ==
  ASSUME NEW n \in Nets, NEW X \in [Hiers -> [Blocks -> Nat]]
  PROVE  LET m == [n EXCEPT !.blocks = X]
         IN  /\ m \in Nets /\ m.blocks = X /\ m.edges = n.edges /\ m.msgs = n.msgs
             /\ m.inputs = n.inputs /\ m.outputs = n.outputs /\ m.parent = n.parent
PROOF
  BY DEF Nets

LEMMA ParentExcept ==
  ASSUME NEW n \in Nets, NEW X \in [Hiers -> Hiers \cup {NoParent}]
  PROVE  LET m == [n EXCEPT !.parent = X]
         IN  /\ m \in Nets /\ m.parent = X /\ m.edges = n.edges /\ m.msgs = n.msgs
             /\ m.inputs = n.inputs /\ m.outputs = n.outputs /\ m.blocks = n.blocks
PROOF
  BY DEF Nets

LEMMA ParentNet ==
  ASSUME NEW n, IsNet(n), NEW h \in Hiers, NEW ends, NEW to \in {h, NoParent}
  PROVE  LET m == SetParent(n, h, ends, to)
         IN  IsNet(m) /\ SameGraphs(n, m) /\ Adopts(n, m, h, ToSet(ends), to)
PROOF
<1> DEFINE g == [b \in Hiers |-> IF b \in ToSet(ends) \ {h} THEN to ELSE n.parent[b]]
           m == [n EXCEPT !.parent = g]
<1>1. g \in [Hiers -> Hiers \cup {NoParent}] /\ n \in Nets
  BY DEF IsNet, Nets
<1>2. SetParent(n, h, ends, to) = m
  BY DEF SetParent
<1>3. \A b \in Hiers : g[b] = IF b \in ToSet(ends) \ {h} THEN to ELSE n.parent[b]
  OBVIOUS
<1> HIDE DEF g
<1>4. m \in Nets /\ SameGraphs(n, m) /\ m.parent = g
  BY <1>1, ParentExcept DEF SameGraphs
<1> HIDE DEF m
<1> QED BY <1>2, <1>3, <1>4 DEF IsNet, SameGraphs, Adopts

BlockPorts == Blocks \X Nat

\* the net with one part of h replaced
PutEdges(n, h, X) == [n EXCEPT !.edges[h] = X]
PutMsgs(n, h, X) == [n EXCEPT !.msgs[h] = X]
PutInput(n, h, i, X) == [n EXCEPT !.inputs[h][i] = X]
PutOutput(n, h, i, X) == [n EXCEPT !.outputs[h][i] = X]
PutCount(n, h, b, X) == [n EXCEPT !.blocks[h][b] = X]

LEMMA EdgesNet ==
  ASSUME NEW n, IsNet(n), NEW h \in Hiers,
         NEW X \in SUBSET Wires
  PROVE  LET m == PutEdges(n, h, X)
         IN  /\ IsNet(m) /\ Beside(n, m, h) /\ m.parent = n.parent
             /\ m.edges[h] = X
             /\ m.msgs = n.msgs /\ m.inputs = n.inputs
             /\ m.outputs = n.outputs /\ m.blocks = n.blocks
PROOF
<1> DEFINE g == [n.edges EXCEPT ![h] = X]
           m == [n EXCEPT !.edges = g]
<1>0. n \in Nets
  BY DEF IsNet
<1>1. /\ g \in [Hiers -> SUBSET Wires] /\ g[h] = X
      /\ \A k \in Hiers \ {h} : g[k] = n.edges[k]
  BY <1>0 DEF Nets
<1> HIDE DEF g
<1>2. /\ m \in Nets /\ m.edges = g /\ m.parent = n.parent
      /\ m.msgs = n.msgs /\ m.inputs = n.inputs
      /\ m.outputs = n.outputs /\ m.blocks = n.blocks
  BY <1>0, <1>1, EdgesExcept
<1> HIDE DEF m
<1>3. IsNet(m) /\ Beside(n, m, h)
  BY <1>0, <1>1, <1>2 DEF IsNet, Beside
<1> QED BY <1>0, <1>1, <1>2, <1>3 DEF PutEdges, m, g

LEMMA MsgsNet ==
  ASSUME NEW n, IsNet(n), NEW h \in Hiers,
         NEW X \in Seq(MsgWires)
  PROVE  LET m == PutMsgs(n, h, X)
         IN  /\ IsNet(m) /\ Beside(n, m, h) /\ m.parent = n.parent
             /\ m.msgs[h] = X
             /\ m.edges = n.edges /\ m.inputs = n.inputs
             /\ m.outputs = n.outputs /\ m.blocks = n.blocks
PROOF
<1> DEFINE g == [n.msgs EXCEPT ![h] = X]
           m == [n EXCEPT !.msgs = g]
<1>0. n \in Nets
  BY DEF IsNet
<1>1. /\ g \in [Hiers -> Seq(MsgWires)] /\ g[h] = X
      /\ \A k \in Hiers \ {h} : g[k] = n.msgs[k]
  BY <1>0 DEF Nets
<1> HIDE DEF g
<1>2. /\ m \in Nets /\ m.msgs = g /\ m.parent = n.parent
      /\ m.edges = n.edges /\ m.inputs = n.inputs
      /\ m.outputs = n.outputs /\ m.blocks = n.blocks
  BY <1>0, <1>1, MsgsExcept
<1> HIDE DEF m
<1>3. IsNet(m) /\ Beside(n, m, h)
  BY <1>0, <1>1, <1>2 DEF IsNet, Beside
<1> QED BY <1>0, <1>1, <1>2, <1>3 DEF PutMsgs, m, g

LEMMA InputNet ==
  ASSUME NEW n, IsNet(n), NEW h \in Hiers, NEW i \in Ports(h, "in"),
         NEW X \in SUBSET BlockPorts
  PROVE  LET m == PutInput(n, h, i, X)
         IN  /\ IsNet(m) /\ Beside(n, m, h) /\ m.parent = n.parent
             /\ \A j \in Ports(h, "in") : m.inputs[h][j] = IF j = i THEN X ELSE n.inputs[h][j]
             /\ AtPorts(m, h) \subseteq AtPorts(n, h) \cup X /\ n.inputs[h][i] \subseteq AtPorts(n, h)
             /\ m.edges = n.edges /\ m.msgs = n.msgs
             /\ m.outputs = n.outputs /\ m.blocks = n.blocks
PROOF
<1> DEFINE f == [n.inputs[h] EXCEPT ![i] = X]
           g == [n.inputs EXCEPT ![h] = f]
           m == [n EXCEPT !.inputs = g]
<1>0. n \in Nets /\ f \in [Ports(h, "in") -> SUBSET (Blocks \X Nat)]
      /\ \A j \in Ports(h, "in") : f[j] = IF j = i THEN X ELSE n.inputs[h][j]
  BY DEF IsNet, BlockPorts
<1> HIDE DEF f
<1>1. /\ g \in [Hiers -> Inputs] /\ g[h] = f
      /\ \A k \in Hiers \ {h} : g[k] = n.inputs[k]
  BY <1>0 DEF Nets, Inputs
<1> HIDE DEF g
<1>2. /\ m \in Nets /\ m.inputs = g /\ m.parent = n.parent
      /\ m.edges = n.edges /\ m.msgs = n.msgs
      /\ m.outputs = n.outputs /\ m.blocks = n.blocks
  BY <1>0, <1>1, InputExcept
<1> HIDE DEF m
<1>3. IsNet(m) /\ Beside(n, m, h)
  BY <1>0, <1>1, <1>2 DEF IsNet, Beside
<1>4. AtPorts(m, h) \subseteq AtPorts(n, h) \cup X /\ n.inputs[h][i] \subseteq AtPorts(n, h)
  <2>1. \A j \in Ports(h, "in") : m.inputs[h][j] = IF j = i THEN X ELSE n.inputs[h][j]
    BY <1>0, <1>1, <1>2
  <2>2. UNION {m.inputs[h][j] : j \in Ports(h, "in")} \subseteq (UNION {n.inputs[h][j] : j \in Ports(h, "in")}) \cup X
    BY <2>1
  <2> QED BY <1>2, <2>2 DEF AtPorts
<1> QED BY <1>0, <1>1, <1>2, <1>3, <1>4 DEF PutInput, m, g, f

LEMMA OutputNet ==
  ASSUME NEW n, IsNet(n), NEW h \in Hiers, NEW i \in Ports(h, "out"),
         NEW X \in (Blocks \X Nat) \cup {NoEndpoint}
  PROVE  LET m == PutOutput(n, h, i, X)
         IN  /\ IsNet(m) /\ Beside(n, m, h) /\ m.parent = n.parent
             /\ \A j \in Ports(h, "out") : m.outputs[h][j] = IF j = i THEN X ELSE n.outputs[h][j]
             /\ AtPorts(m, h) \subseteq AtPorts(n, h) \cup ({X} \ {NoEndpoint})
             /\ m.edges = n.edges /\ m.msgs = n.msgs
             /\ m.inputs = n.inputs /\ m.blocks = n.blocks
PROOF
<1> DEFINE f == [n.outputs[h] EXCEPT ![i] = X]
           g == [n.outputs EXCEPT ![h] = f]
           m == [n EXCEPT !.outputs = g]
<1>0. n \in Nets /\ f \in [Ports(h, "out") -> (Blocks \X Nat) \cup {NoEndpoint}]
      /\ \A j \in Ports(h, "out") : f[j] = IF j = i THEN X ELSE n.outputs[h][j]
  BY DEF IsNet
<1> HIDE DEF f
<1>1. /\ g \in [Hiers -> Outputs] /\ g[h] = f
      /\ \A k \in Hiers \ {h} : g[k] = n.outputs[k]
  BY <1>0 DEF Nets, Outputs
<1> HIDE DEF g
<1>2. /\ m \in Nets /\ m.outputs = g /\ m.parent = n.parent
      /\ m.edges = n.edges /\ m.msgs = n.msgs
      /\ m.inputs = n.inputs /\ m.blocks = n.blocks
  BY <1>0, <1>1, OutputExcept
<1> HIDE DEF m
<1>3. IsNet(m) /\ Beside(n, m, h)
  BY <1>0, <1>1, <1>2 DEF IsNet, Beside
<1>4. AtPorts(m, h) \subseteq AtPorts(n, h) \cup ({X} \ {NoEndpoint})
  <2>1. \A j \in Ports(h, "out") : m.outputs[h][j] = IF j = i THEN X ELSE n.outputs[h][j]
    BY <1>0, <1>1, <1>2
  <2>2. {m.outputs[h][j] : j \in Ports(h, "out")} \subseteq {n.outputs[h][j] : j \in Ports(h, "out")} \cup {X}
    BY <2>1
  <2> QED BY <1>2, <2>2 DEF AtPorts
<1> QED BY <1>0, <1>1, <1>2, <1>3, <1>4 DEF PutOutput, m, g, f

LEMMA BlocksNet ==
  ASSUME NEW n, IsNet(n), NEW h \in Hiers, NEW b \in Blocks,
         NEW X \in Nat
  PROVE  LET m == PutCount(n, h, b, X)
         IN  /\ IsNet(m) /\ Beside(n, m, h) /\ m.parent = n.parent
             /\ \A j \in Blocks : m.blocks[h][j] = IF j = b THEN X ELSE n.blocks[h][j]
             /\ m.edges = n.edges /\ m.msgs = n.msgs
             /\ m.inputs = n.inputs /\ m.outputs = n.outputs
PROOF
<1> DEFINE f == [n.blocks[h] EXCEPT ![b] = X]
           g == [n.blocks EXCEPT ![h] = f]
           m == [n EXCEPT !.blocks = g]
<1>0. n \in Nets /\ f \in [Blocks -> Nat]
      /\ \A j \in Blocks : f[j] = IF j = b THEN X ELSE n.blocks[h][j]
  BY DEF IsNet, Nets
<1> HIDE DEF f
<1>1. /\ g \in [Hiers -> [Blocks -> Nat]] /\ g[h] = f
      /\ \A k \in Hiers \ {h} : g[k] = n.blocks[k]
  BY <1>0 DEF Nets
<1> HIDE DEF g
<1>2. /\ m \in Nets /\ m.blocks = g /\ m.parent = n.parent
      /\ m.edges = n.edges /\ m.msgs = n.msgs
      /\ m.inputs = n.inputs /\ m.outputs = n.outputs
  BY <1>0, <1>1, BlocksExcept
<1> HIDE DEF m
<1>3. IsNet(m) /\ Beside(n, m, h)
  BY <1>0, <1>1, <1>2 DEF IsNet, Beside
<1> QED BY <1>0, <1>1, <1>2, <1>3 DEF PutCount, m, g, f
-----------------------------------------------------------------------------
(* What a call connects is what it is asked to.                            *)

\* m connects nothing in h that n does not, but for the blocks new
Grows(n, m, h, new) == Members(m, h) \subseteq Members(n, h) \cup new

LEMMA AppFacts ==
  ASSUME app \in Applications, NEW h \in DOMAIN app
  PROVE  /\ h \in Hiers /\ h \in Blocks
         /\ app[h].edges \subseteq Wires /\ app[h].msgs \subseteq MsgWires
         /\ app[h].singles \subseteq Blocks
PROOF
  BY ApplicationsAssumption, HiersAssumption DEF Wires, MsgWires

\* m has in h what n has, and the edges E, the messages M, the endpoints P
\* and the single blocks new, which name no other blocks than new
Adds(n, m, h, E, M, P, new) ==
  /\ m.edges[h] \subseteq n.edges[h] \cup E
  /\ ToSet(m.msgs[h]) \subseteq ToSet(n.msgs[h]) \cup M
  /\ \A b \in Blocks : m.blocks[h][b] > 0 => n.blocks[h][b] > 0 \/ b \in new
  /\ AtPorts(m, h) \subseteq AtPorts(n, h) \cup P
  /\ Ends(E \cup M) \subseteq new /\ \A p \in P : p[1] \in new

LEMMA PartsGrow ==
  ASSUME NEW n, NEW m, NEW h, NEW E, NEW M, NEW P, NEW new, Adds(n, m, h, E, M, P, new)
  PROVE  Grows(n, m, h, new)
PROOF
<1>1. Ends(m.edges[h] \cup ToSet(m.msgs[h])) \subseteq Ends(n.edges[h] \cup ToSet(n.msgs[h])) \cup new
  BY DEF Adds, Ends
<1>2. {e[1] : e \in AtPorts(m, h)} \subseteq {e[1] : e \in AtPorts(n, h)} \cup new
  BY DEF Adds
<1> QED BY <1>1, <1>2 DEF Adds, Grows, Members

LEMMA SamePorts ==
  ASSUME NEW n, NEW m, NEW h, m.inputs = n.inputs, m.outputs = n.outputs
  PROVE  AtPorts(m, h) = AtPorts(n, h)
PROOF
  BY DEF AtPorts

\* an edge as seen from a call on h
LEMMA WireFacts ==
  ASSUME app \in Applications, NEW h \in DOMAIN app, NEW e \in app[h].edges
  PROVE  /\ e \in Wires /\ e.src \in Blocks \X Nat /\ e.dst \in Blocks \X Nat
         /\ {e.src, e.dst} \subseteq UNION {{x.src, x.dst} : x \in app[h].edges}
         /\ Ends({e}) \subseteq {e.src[1], e.dst[1]}
         /\ {e.src[1], e.dst[1]} \cap (Hiers \ {h}) \subseteq Homed(app, h)
PROOF
<1>1. e \in Wires
  BY AppFacts
<1> QED BY <1>1 DEF Wires, Ends, Homed
-----------------------------------------------------------------------------
(* The calls that connect.                                                 *)

LEMMA BlockConnected ==
  ASSUME app \in Applications, NEW h \in DOMAIN app, NEW n, IsNet(n), Asked(n, h),
         NEW b \in app[h].singles
  PROVE  LET m == ConnectBlock(n, h, b)
         IN  m = n \/ (Call(n, m, h, {b}, h) /\ Grows(n, m, h, {b}))
PROOF
<1> DEFINE a == SetParent(n, h, <<b>>, h)
           m == Listed(a, h, b)
<1>0. b \in Blocks /\ n.blocks[h][b] \in Nat
  BY AppFacts DEF Asked
<1> SUFFICES ASSUME n.blocks[h][b] = 0 PROVE Call(n, m, h, {b}, h) /\ Grows(n, m, h, {b})
  <2> DEFINE c == ConnectBlock(n, h, b)
  <2>1. c = n \/ (n.blocks[h][b] = 0 /\ c = m)
    BY <1>0 DEF ConnectBlock
  <2> HIDE DEF m
  <2> QED BY <2>1
<1>1. h \in Hiers /\ b \in Blocks
  BY AppFacts
<1>2. IsNet(a) /\ SameGraphs(n, a) /\ Adopts(n, a, h, {b}, h)
  <2>1. ToSet(<<b>>) = {b}
    BY DEF ToSet
  <2> QED BY <1>1, <2>1, ParentNet
<1> HIDE DEF a
<1>3. m = PutCount(a, h, b, 1)
  BY <1>2 DEF SameGraphs, Listed, PutCount
<1> HIDE DEF m
<1>4. /\ IsNet(m) /\ Beside(a, m, h) /\ m.parent = a.parent
      /\ \A j \in Blocks : m.blocks[h][j] = IF j = b THEN 1 ELSE a.blocks[h][j]
      /\ m.edges = a.edges /\ m.msgs = a.msgs /\ m.inputs = a.inputs /\ m.outputs = a.outputs
  BY <1>1, <1>2, <1>3, BlocksNet
<1>5. Beside(n, m, h) /\ Adopts(n, m, h, {b}, h)
  BY <1>2, <1>4 DEF Beside, SameGraphs, Adopts
<1>6. AtPorts(m, h) = AtPorts(n, h)
  BY <1>2, <1>4, SamePorts DEF SameGraphs
<1>7. Asked(m, h)
  <2>1. m.blocks[h] \in [Blocks -> 0 .. MaxListed]
    <3>1. m.blocks[h] \in [Blocks -> Nat]
      BY <1>1, <1>4 DEF IsNet, Nets
    <3>2. \A j \in Blocks : m.blocks[h][j] \in 0 .. MaxListed
      BY <1>2, <1>4, HiersAssumption DEF SameGraphs, Asked
    <3> QED BY <3>1, <3>2
  <2> QED BY <1>2, <1>4, <1>6, <2>1 DEF Asked, SameGraphs
<1>8. Grows(n, m, h, {b})
  <2>1. /\ m.edges[h] \subseteq n.edges[h] \cup {} /\ ToSet(m.msgs[h]) \subseteq ToSet(n.msgs[h]) \cup {}
        /\ \A j \in Blocks : m.blocks[h][j] > 0 => n.blocks[h][j] > 0 \/ j \in {b}
    BY <1>2, <1>4 DEF SameGraphs
  <2>2. Ends({} \cup {}) = {}
    BY DEF Ends
  <2>3. Adds(n, m, h, {}, {}, {}, {b})
    BY <1>6, <2>1, <2>2 DEF Adds
  <2> QED BY <2>3, PartsGrow
<1> QED BY <1>4, <1>5, <1>7, <1>8 DEF Call

\* what a net that differs in h keeps to, from its parts
LEMMA PartsAsked ==
  ASSUME NEW n, NEW m, NEW h, Asked(n, h),
         m.edges[h] \subseteq n.edges[h] \cup app[h].edges,
         ToSet(m.msgs[h]) \subseteq ToSet(n.msgs[h]) \cup app[h].msgs,
         AtPorts(m, h) \subseteq AtPorts(n, h) \cup UNION {{e.src, e.dst} : e \in app[h].edges},
         m.blocks[h] = n.blocks[h]
  PROVE  Asked(m, h)
PROOF
  BY DEF Asked

LEMMA EdgeConnected ==
  ASSUME app \in Applications, NEW h \in DOMAIN app, NEW n, IsNet(n), Asked(n, h),
         NEW e \in app[h].edges, e.src[1] # e.dst[1]
  PROVE  LET m == Connect(n, h, e)
         IN  /\ Call(n, m, h, {e.src[1], e.dst[1]}, h)
             /\ Grows(n, m, h, {e.src[1], e.dst[1]})
PROOF
<1> DEFINE bs == {e.src[1], e.dst[1]}
           a == SetParent(n, h, <<e.src[1], e.dst[1]>>, h)
           asked == UNION {{x.src, x.dst} : x \in app[h].edges}
<1>1. /\ h \in Hiers /\ e \in Wires /\ e.src \in Blocks \X Nat /\ e.dst \in Blocks \X Nat
      /\ e.src \in asked /\ e.dst \in asked /\ Ends({e}) \subseteq bs /\ e.src # NoEndpoint
  BY AppFacts, WireFacts, HiersAssumption
<1>2. IsNet(a) /\ SameGraphs(n, a) /\ Adopts(n, a, h, bs, h)
  <2> DEFINE ends == <<e.src[1], e.dst[1]>>
  <2>1. ToSet(ends) = bs
    BY DEF ToSet
  <2> HIDE DEF ends, bs
  <2>2. LET p == SetParent(n, h, ends, h)
        IN  IsNet(p) /\ SameGraphs(n, p) /\ Adopts(n, p, h, ToSet(ends), h)
    BY <1>1, ParentNet
  <2> QED BY <2>1, <2>2 DEF ends
<1> HIDE DEF a
<1>3. Asked(a, h) /\ AtPorts(a, h) = AtPorts(n, h)
  <2>1. AtPorts(a, h) = AtPorts(n, h)
    BY <1>2, SamePorts DEF SameGraphs
  <2> QED BY <1>2, <2>1 DEF Asked, SameGraphs
<1> SUFFICES ASSUME NEW m, IsNet(m), Beside(a, m, h), m.parent = a.parent,
                    m.edges[h] \subseteq n.edges[h] \cup {e}, m.msgs = n.msgs, m.blocks = n.blocks,
                    AtPorts(m, h) \subseteq AtPorts(n, h) \cup {e.src, e.dst}
             PROVE  Call(n, m, h, bs, h) /\ Grows(n, m, h, bs)
  <2> DEFINE m == Connect(n, h, e)
  <2> HIDE DEF asked
  <2> SUFFICES /\ IsNet(m) /\ Beside(a, m, h) /\ m.parent = a.parent
               /\ m.edges[h] \subseteq n.edges[h] \cup {e} /\ m.msgs = n.msgs /\ m.blocks = n.blocks
               /\ AtPorts(m, h) \subseteq AtPorts(n, h) \cup {e.src, e.dst}
    OBVIOUS
  <2>0. /\ IsNet(a) /\ Beside(a, a, h) /\ a.edges = n.edges /\ a.msgs = n.msgs /\ a.blocks = n.blocks
        /\ a.inputs = n.inputs /\ a.outputs = n.outputs
    BY <1>2 DEF SameGraphs, Beside
  <2>1. CASE m = a
    BY <1>3, <2>0, <2>1
  <2>2. CASE e.src[2] \in Ports(h, "in") /\ m = PutInput(a, h, e.src[2], a.inputs[h][e.src[2]] \cup {e.dst})
    <3> DEFINE i == e.src[2]
               X == a.inputs[h][i] \cup {e.dst}
    <3>1. X \in SUBSET BlockPorts /\ m = PutInput(a, h, i, X) /\ i \in Ports(h, "in")
      BY <1>1, <2>0, <2>2 DEF IsNet, BlockPorts
    <3>2. X \subseteq a.inputs[h][i] \cup {e.dst}
      OBVIOUS
    <3> HIDE DEF X, m, i
    <3>3. /\ IsNet(m) /\ Beside(a, m, h) /\ m.parent = a.parent
          /\ AtPorts(m, h) \subseteq AtPorts(a, h) \cup X /\ a.inputs[h][i] \subseteq AtPorts(a, h)
          /\ m.edges = a.edges /\ m.msgs = a.msgs /\ m.outputs = a.outputs /\ m.blocks = a.blocks
      BY <1>1, <2>0, <3>1, InputNet
    <3> QED BY <1>3, <2>0, <3>2, <3>3
  <2>3. CASE e.dst[2] \in Ports(h, "out") /\ m = PutOutput(a, h, e.dst[2], e.src)
    <3> DEFINE i == e.dst[2]
    <3> HIDE DEF m
    <3>3. /\ IsNet(m) /\ Beside(a, m, h) /\ m.parent = a.parent
          /\ AtPorts(m, h) \subseteq AtPorts(a, h) \cup ({e.src} \ {NoEndpoint})
          /\ m.edges = a.edges /\ m.msgs = a.msgs /\ m.inputs = a.inputs /\ m.blocks = a.blocks
      BY <1>1, <2>0, <2>3, OutputNet
    <3> QED BY <1>3, <2>0, <3>3
  <2>4. CASE m = PutEdges(a, h, a.edges[h] \cup {e})
    <3> DEFINE X == a.edges[h] \cup {e}
    <3>1. X \in SUBSET Wires /\ X = n.edges[h] \cup {e}
      BY <1>1, <2>0 DEF IsNet, Nets
    <3> HIDE DEF X, m
    <3>3. /\ IsNet(m) /\ Beside(a, m, h) /\ m.parent = a.parent /\ m.edges[h] = X
          /\ m.msgs = a.msgs /\ m.inputs = a.inputs /\ m.outputs = a.outputs /\ m.blocks = a.blocks
      BY <1>1, <2>0, <2>4, <3>1, EdgesNet DEF X
    <3>4. AtPorts(m, h) = AtPorts(a, h)
      BY <3>3, SamePorts
    <3> QED BY <1>3, <2>0, <3>1, <3>3, <3>4
  <2>5. \/ m = a
        \/ e.src[2] \in Ports(h, "in") /\ m = PutInput(a, h, e.src[2], a.inputs[h][e.src[2]] \cup {e.dst})
        \/ e.dst[2] \in Ports(h, "out") /\ m = PutOutput(a, h, e.dst[2], e.src)
        \/ m = PutEdges(a, h, a.edges[h] \cup {e})
    <3>1. CASE e.src[1] = h
      BY <3>1 DEF Connect, ConnectInput, a, PutInput
    <3>2. CASE e.src[1] # h /\ e.dst[1] = h
      BY <3>2 DEF Connect, ConnectOutput, a, PutOutput
    <3>3. CASE e.src[1] # h /\ e.dst[1] # h
      BY <3>3 DEF Connect, a, PutEdges
    <3> QED BY <3>1, <3>2, <3>3
  <2> QED BY <2>1, <2>2, <2>3, <2>4, <2>5
<1>4. Beside(n, m, h) /\ Adopts(n, m, h, bs, h)
  BY <1>2 DEF Beside, SameGraphs, Adopts
<1>5. Asked(m, h)
  <2>1. AtPorts(m, h) \subseteq AtPorts(n, h) \cup asked
    BY <1>1
  <2> QED BY <2>1, PartsAsked
<1>6. Grows(n, m, h, bs)
  <2>1. Ends({e} \cup {}) \subseteq bs /\ \A p \in {e.src, e.dst} : p[1] \in bs
    BY <1>1
  <2>2. /\ ToSet(m.msgs[h]) \subseteq ToSet(n.msgs[h]) \cup {}
        /\ \A b \in Blocks : m.blocks[h][b] > 0 => n.blocks[h][b] > 0 \/ b \in bs
    OBVIOUS
  <2>3. Adds(n, m, h, {e}, {}, {e.src, e.dst}, bs)
    BY <2>1, <2>2 DEF Adds
  <2> QED BY <2>3, PartsGrow
<1> QED BY <1>4, <1>5, <1>6 DEF Call
-----------------------------------------------------------------------------
(* The calls that disconnect.                                              *)

\* a net that has less than a in h, where a differs from n in parents
LEMMA LessNet ==
  ASSUME NEW n, NEW a, NEW m, NEW h \in Hiers, NEW bs, NEW to,
         IsNet(m), Asked(n, h), SameGraphs(n, a), Adopts(n, a, h, bs, to), Beside(a, m, h),
         m.parent = a.parent, m.edges[h] \subseteq n.edges[h],
         ToSet(m.msgs[h]) \subseteq ToSet(n.msgs[h]), AtPorts(m, h) \subseteq AtPorts(n, h),
         \A b \in Blocks : m.blocks[h][b] \in 0 .. n.blocks[h][b]
  PROVE  Call(n, m, h, bs, to) /\ Grows(n, m, h, {})
PROOF
<1>1. Beside(n, m, h) /\ Adopts(n, m, h, bs, to)
  BY DEF Beside, SameGraphs, Adopts
<1>2. m.blocks[h] \in [Blocks -> 0 .. MaxListed]
  <2>1. m.blocks[h] \in [Blocks -> Nat]
    BY DEF IsNet, Nets
  <2>2. \A b \in Blocks : m.blocks[h][b] \in 0 .. MaxListed
    BY HiersAssumption DEF Asked
  <2> QED BY <2>1, <2>2
<1>3. Asked(m, h)
  BY <1>2 DEF Asked
<1>4. Adds(n, m, h, {}, {}, {}, {})
  <2>1. Ends({} \cup {}) = {}
    BY DEF Ends
  <2>2. \A b \in Blocks : m.blocks[h][b] > 0 => n.blocks[h][b] > 0
    BY DEF Asked
  <2> QED BY <2>1, <2>2 DEF Adds
<1> QED BY <1>1, <1>3, <1>4, PartsGrow DEF Call

LEMMA EdgeDisconnected ==
  ASSUME app \in Applications, NEW h \in DOMAIN app, NEW n, IsNet(n), Asked(n, h),
         NEW e \in app[h].edges, e.src[1] # e.dst[1]
  PROVE  LET m == Disconnect(n, h, e)
         IN  /\ Call(n, m, h, {e.src[1], e.dst[1]}, NoParent)
             /\ Grows(n, m, h, {})
PROOF
<1> DEFINE bs == {e.src[1], e.dst[1]}
           a == SetParent(n, h, <<e.src[1], e.dst[1]>>, NoParent)
           m == Disconnect(n, h, e)
<1>1. h \in Hiers /\ e \in Wires /\ e.src \in Blocks \X Nat /\ e.dst \in Blocks \X Nat
  BY AppFacts, WireFacts
<1>2. IsNet(a) /\ SameGraphs(n, a) /\ Adopts(n, a, h, bs, NoParent)
  <2> DEFINE ends == <<e.src[1], e.dst[1]>>
  <2>1. ToSet(ends) = bs
    BY DEF ToSet
  <2> HIDE DEF ends, bs
  <2>2. LET p == SetParent(n, h, ends, NoParent)
        IN  IsNet(p) /\ SameGraphs(n, p) /\ Adopts(n, p, h, ToSet(ends), NoParent)
    BY <1>1, ParentNet
  <2> QED BY <2>1, <2>2 DEF ends
<1> HIDE DEF a
<1>3. AtPorts(a, h) = AtPorts(n, h)
  BY <1>2, SamePorts DEF SameGraphs
<1>4. \A b \in Blocks : n.blocks[h][b] \in 0 .. n.blocks[h][b]
  BY DEF Asked
<1> SUFFICES /\ IsNet(m) /\ Beside(a, m, h) /\ m.parent = a.parent
             /\ m.edges[h] \subseteq a.edges[h] /\ m.msgs = a.msgs /\ m.blocks = a.blocks
             /\ AtPorts(m, h) \subseteq AtPorts(a, h)
  <2> HIDE DEF m, bs
  <2>1. SameGraphs(n, a) => a.edges = n.edges /\ a.msgs = n.msgs /\ a.blocks = n.blocks
    BY DEF SameGraphs
  <2>2. Call(n, m, h, bs, NoParent) /\ Grows(n, m, h, {})
    BY <1>1, <1>2, <1>3, <1>4, <2>1, LessNet
  <2> QED BY <2>2 DEF m, bs
<1>5. CASE m = a
  BY <1>2, <1>5 DEF Beside
<1>6. CASE e.src[2] \in Ports(h, "in") /\ m = PutInput(a, h, e.src[2], a.inputs[h][e.src[2]] \ {e.dst})
  <2> DEFINE i == e.src[2]
             X == a.inputs[h][i] \ {e.dst}
  <2>1. X \in SUBSET BlockPorts /\ m = PutInput(a, h, i, X) /\ i \in Ports(h, "in")
    BY <1>1, <1>2, <1>6 DEF IsNet, BlockPorts
  <2>2. X \subseteq a.inputs[h][i]
    OBVIOUS
  <2> HIDE DEF X, m, i
  <2>3. /\ IsNet(m) /\ Beside(a, m, h) /\ m.parent = a.parent
        /\ AtPorts(m, h) \subseteq AtPorts(a, h) \cup X /\ a.inputs[h][i] \subseteq AtPorts(a, h)
        /\ m.edges = a.edges /\ m.msgs = a.msgs /\ m.outputs = a.outputs /\ m.blocks = a.blocks
    BY <1>1, <1>2, <2>1, InputNet
  <2> QED BY <2>2, <2>3
<1>7. CASE e.dst[2] \in Ports(h, "out") /\ m = PutOutput(a, h, e.dst[2], NoEndpoint)
  <2> DEFINE i == e.dst[2]
  <2> HIDE DEF m
  <2>1. /\ IsNet(m) /\ Beside(a, m, h) /\ m.parent = a.parent
        /\ AtPorts(m, h) \subseteq AtPorts(a, h) \cup ({NoEndpoint} \ {NoEndpoint})
        /\ m.edges = a.edges /\ m.msgs = a.msgs /\ m.inputs = a.inputs /\ m.blocks = a.blocks
    BY <1>1, <1>2, <1>7, OutputNet
  <2> QED BY <2>1
<1>8. CASE m = PutEdges(a, h, a.edges[h] \ {e})
  <2> DEFINE X == a.edges[h] \ {e}
  <2>1. X \in SUBSET Wires /\ X \subseteq a.edges[h]
    BY <1>1, <1>2 DEF IsNet, Nets
  <2> HIDE DEF X, m
  <2>2. /\ IsNet(m) /\ Beside(a, m, h) /\ m.parent = a.parent /\ m.edges[h] = X
        /\ m.msgs = a.msgs /\ m.inputs = a.inputs /\ m.outputs = a.outputs /\ m.blocks = a.blocks
    BY <1>1, <1>2, <1>8, <2>1, EdgesNet DEF X
  <2>3. AtPorts(m, h) = AtPorts(a, h)
    BY <2>2, SamePorts
  <2> QED BY <2>1, <2>2, <2>3
<1>9. \/ m = a
      \/ e.src[2] \in Ports(h, "in") /\ m = PutInput(a, h, e.src[2], a.inputs[h][e.src[2]] \ {e.dst})
      \/ e.dst[2] \in Ports(h, "out") /\ m = PutOutput(a, h, e.dst[2], NoEndpoint)
      \/ m = PutEdges(a, h, a.edges[h] \ {e})
  <2>1. CASE e.src[1] = h
    BY <2>1 DEF Disconnect, DisconnectInput, a, PutInput
  <2>2. CASE e.src[1] # h /\ e.dst[1] = h
    BY <2>2 DEF Disconnect, DisconnectOutput, a, PutOutput
  <2>3. CASE e.src[1] # h /\ e.dst[1] # h
    BY <2>3 DEF Disconnect, a, PutEdges
  <2> QED BY <2>1, <2>2, <2>3
<1> QED BY <1>5, <1>6, <1>7, <1>8, <1>9

LEMMA BlockDisconnected ==
  ASSUME app \in Applications, NEW h \in DOMAIN app, NEW n, IsNet(n), Asked(n, h),
         NEW b \in Blocks
  PROVE  LET m == DisconnectBlock(n, h, b)
         IN  \E bs \in SUBSET Named(n, h, b) : Call(n, m, h, bs, NoParent) /\ Grows(n, m, h, {})
PROOF
<1> DEFINE ends == SetToSeq(Named(n, h, b))
           a == SetParent(n, h, ends, NoParent)
           m == DisconnectBlock(n, h, b)
<1>1. h \in Hiers /\ n.blocks[h][b] \in Nat
  BY AppFacts DEF Asked
<1>2. ToSet(ends) \in SUBSET Named(n, h, b)
  <2>1. Named(n, h, b) \subseteq Blocks
    BY <1>1 DEF Named, Ends, EdgesAt, IsNet, Nets, Wires
  <2>2. IsFiniteSet(Named(n, h, b))
    BY <2>1, SignatureAssumption, FS_Subset
  <2> QED BY <2>2, FromSet
<1>3. IsNet(a) /\ SameGraphs(n, a) /\ Adopts(n, a, h, ToSet(ends), NoParent)
  <2> HIDE DEF ends
  <2> QED BY <1>1, ParentNet
<1>4. m = IF n.blocks[h][b] > 0 THEN PutCount(a, h, b, a.blocks[h][b] - 1)
          ELSE PutEdges(a, h, a.edges[h] \ EdgesAt(n, h, b))
  BY DEF DisconnectBlock, PutCount, PutEdges
<1> HIDE DEF a, ends, m
<1>5. AtPorts(a, h) = AtPorts(n, h)
  BY <1>3, SamePorts DEF SameGraphs
<1>6. \A j \in Blocks : n.blocks[h][j] \in Nat
  BY DEF Asked
<1>7. Call(n, m, h, ToSet(ends), NoParent) /\ Grows(n, m, h, {})
  <2>1. CASE n.blocks[h][b] > 0
    <3> DEFINE X == a.blocks[h][b] - 1
    <3>1. X \in Nat /\ X \in 0 .. n.blocks[h][b] /\ m = PutCount(a, h, b, X)
      BY <1>1, <1>3, <1>4, <2>1 DEF SameGraphs
    <3> HIDE DEF X
    <3>2. /\ IsNet(m) /\ Beside(a, m, h) /\ m.parent = a.parent
          /\ \A j \in Blocks : m.blocks[h][j] = IF j = b THEN X ELSE a.blocks[h][j]
          /\ m.edges = a.edges /\ m.msgs = a.msgs /\ m.inputs = a.inputs /\ m.outputs = a.outputs
      BY <1>1, <1>3, <3>1, BlocksNet
    <3>3. \A j \in Blocks : m.blocks[h][j] \in 0 .. n.blocks[h][j]
      BY <1>3, <1>6, <3>1, <3>2 DEF SameGraphs
    <3>4. AtPorts(m, h) = AtPorts(a, h)
      BY <3>2, SamePorts
    <3>5. m.edges = n.edges /\ m.msgs = n.msgs
      BY <1>3, <3>2 DEF SameGraphs
    <3> QED BY <1>3, <1>5, <3>2, <3>3, <3>4, <3>5, <1>1, LessNet
  <2>2. CASE ~(n.blocks[h][b] > 0)
    <3> DEFINE X == a.edges[h] \ EdgesAt(n, h, b)
    <3>1. X \in SUBSET Wires /\ X \subseteq n.edges[h] /\ m = PutEdges(a, h, X)
      BY <1>1, <1>3, <1>4, <2>2 DEF IsNet, Nets, SameGraphs
    <3> HIDE DEF X
    <3>2. /\ IsNet(m) /\ Beside(a, m, h) /\ m.parent = a.parent /\ m.edges[h] = X
          /\ m.msgs = a.msgs /\ m.inputs = a.inputs /\ m.outputs = a.outputs /\ m.blocks = a.blocks
      BY <1>1, <1>3, <3>1, EdgesNet
    <3>3. \A j \in Blocks : m.blocks[h][j] \in 0 .. n.blocks[h][j]
      BY <1>3, <1>6, <3>2 DEF SameGraphs
    <3>4. AtPorts(m, h) = AtPorts(a, h)
      BY <3>2, SamePorts
    <3>5. m.msgs = n.msgs
      BY <1>3, <3>2 DEF SameGraphs
    <3> QED BY <1>3, <1>5, <3>1, <3>2, <3>3, <3>4, <3>5, <1>1, LessNet
  <2> QED BY <2>1, <2>2
<1> QED BY <1>2, <1>7 DEF m

LEMMA AllDisconnected ==
  ASSUME app \in Applications, NEW h \in DOMAIN app, NEW n, IsNet(n), Asked(n, h)
  PROVE  LET m == Emptied(n, h)
         IN  Call(n, m, h, {}, NoParent) /\ Grows(n, m, h, {})
PROOF
<1> DEFINE ins == [i \in Ports(h, "in") |-> {}]
           outs == [i \in Ports(h, "out") |-> NoEndpoint]
           none == [b \in Blocks |-> 0]
           m == Emptied(n, h)
<1>1. h \in Hiers /\ n \in Nets
  BY AppFacts DEF IsNet
<1>2. /\ ins \in [Ports(h, "in") -> SUBSET (Blocks \X Nat)] /\ \A i \in Ports(h, "in") : ins[i] = {}
      /\ outs \in [Ports(h, "out") -> (Blocks \X Nat) \cup {NoEndpoint}]
      /\ \A i \in Ports(h, "out") : outs[i] = NoEndpoint
      /\ none \in [Blocks -> Nat] /\ \A b \in Blocks : none[b] = 0
  OBVIOUS
<1>3. m = [n EXCEPT !.edges[h] = {}, !.inputs[h] = ins, !.outputs[h] = outs,
                    !.blocks[h] = none]
  BY <1>1 DEF Emptied, ClearedGraph, Nets
<1> HIDE DEF ins, outs, none
<1>4. ins \in Inputs /\ outs \in Outputs
  BY <1>1, <1>2 DEF Inputs, Outputs
<1> HIDE DEF m
<1>5. /\ m.edges = [n.edges EXCEPT ![h] = {}] /\ m.msgs = n.msgs
      /\ m.inputs = [n.inputs EXCEPT ![h] = ins] /\ m.outputs = [n.outputs EXCEPT ![h] = outs]
      /\ m.blocks = [n.blocks EXCEPT ![h] = none] /\ m.parent = n.parent
  BY <1>1, <1>3 DEF Nets
<1>6. m \in Nets
  <2>1. /\ [n.edges EXCEPT ![h] = {}] \in [Hiers -> SUBSET Wires]
        /\ [n.inputs EXCEPT ![h] = ins] \in [Hiers -> Inputs]
        /\ [n.outputs EXCEPT ![h] = outs] \in [Hiers -> Outputs]
        /\ [n.blocks EXCEPT ![h] = none] \in [Hiers -> [Blocks -> Nat]]
    BY <1>1, <1>2, <1>4 DEF Nets
  <2>2. m = [edges |-> m.edges, msgs |-> m.msgs, inputs |-> m.inputs, outputs |-> m.outputs,
             blocks |-> m.blocks, parent |-> m.parent]
    BY <1>1, <1>3 DEF Nets
  <2> QED BY <1>1, <1>5, <2>1, <2>2 DEF Nets
<1>7. /\ m.edges[h] = {} /\ m.inputs[h] = ins /\ m.outputs[h] = outs /\ m.blocks[h] = none
      /\ \A k \in Hiers \ {h} :
           /\ m.edges[k] = n.edges[k] /\ m.msgs[k] = n.msgs[k] /\ m.inputs[k] = n.inputs[k]
           /\ m.outputs[k] = n.outputs[k] /\ m.blocks[k] = n.blocks[k]
  BY <1>1, <1>5 DEF Nets
<1>8. IsNet(m) /\ Beside(n, m, h) /\ Adopts(n, m, h, {}, NoParent)
  <2>1. Beside(n, m, h) /\ Adopts(n, m, h, {}, NoParent)
    BY <1>5, <1>7 DEF Beside, Adopts
  <2>2. IsNet(m)
    BY <1>2, <1>6, <1>7 DEF IsNet
  <2> QED BY <2>1, <2>2
<1>9. AtPorts(m, h) = {} /\ m.msgs[h] = n.msgs[h]
  BY <1>2, <1>5, <1>7 DEF AtPorts
<1>10. Asked(m, h)
  BY <1>2, <1>7, <1>9, HiersAssumption DEF Asked
<1>11. Adds(n, m, h, {}, {}, {}, {})
  <2>1. Ends({} \cup {}) = {}
    BY DEF Ends
  <2> QED BY <1>2, <1>7, <1>9, <2>1 DEF Adds
<1> QED BY <1>8, <1>10, <1>11, PartsGrow DEF Call, m
-----------------------------------------------------------------------------
(* The calls about messages.                                               *)

\* a block may go into the list once more
LEMMA ListedNet ==
  ASSUME NEW h \in Hiers, NEW n, IsNet(n), NEW b \in Blocks
  PROVE  LET m == Listed(n, h, b)
         IN  /\ IsNet(m) /\ Beside(n, m, h) /\ m.parent = n.parent
             /\ \A j \in Blocks : m.blocks[h][j] = IF j = b THEN n.blocks[h][b] + 1 ELSE n.blocks[h][j]
             /\ m.edges = n.edges /\ m.msgs = n.msgs
             /\ m.inputs = n.inputs /\ m.outputs = n.outputs
PROOF
<1> DEFINE X == n.blocks[h][b] + 1
<1>1. X \in Nat /\ Listed(n, h, b) = PutCount(n, h, b, X)
  BY DEF IsNet, Nets, Listed, PutCount
<1> HIDE DEF X
<1>2. LET m == PutCount(n, h, b, X)
      IN  /\ IsNet(m) /\ Beside(n, m, h) /\ m.parent = n.parent
          /\ \A j \in Blocks : m.blocks[h][j] = IF j = b THEN X ELSE n.blocks[h][j]
          /\ m.edges = n.edges /\ m.msgs = n.msgs
          /\ m.inputs = n.inputs /\ m.outputs = n.outputs
  BY <1>1, BlocksNet
<1> QED BY <1>1, <1>2 DEF X

LEMMA MsgWireFacts ==
  ASSUME app \in Applications, NEW h \in DOMAIN app, NEW c \in app[h].msgs
  PROVE  /\ c \in MsgWires /\ c.src[1] \in Blocks /\ c.dst[1] \in Blocks
         /\ Ends({c}) \subseteq {c.src[1], c.dst[1]}
         /\ {c.src[1], c.dst[1]} \cap (Hiers \ {h}) \subseteq Homed(app, h)
PROOF
<1>1. c \in MsgWires
  BY AppFacts
<1> QED BY <1>1 DEF MsgWires, Ends, Homed

LEMMA Appending ==
  ASSUME NEW T, NEW s \in Seq(T), NEW c \in T
  PROVE  Append(s, c) \in Seq(T) /\ ToSet(Append(s, c)) \subseteq ToSet(s) \cup {c}
PROOF
  BY DEF ToSet

LEMMA MsgConnected ==
  ASSUME app \in Applications, NEW h \in DOMAIN app, NEW n, IsNet(n), Asked(n, h),
         NEW c \in app[h].msgs, \A b \in {c.src[1], c.dst[1]} : n.blocks[h][b] < MaxListed
  PROVE  LET m == MsgConnect(n, h, c)
         IN  /\ Call(n, m, h, {c.src[1], c.dst[1]}, h)
             /\ Grows(n, m, h, {c.src[1], c.dst[1]})
PROOF
<1> DEFINE bs == {c.src[1], c.dst[1]}
           l == IF n.blocks[h][c.dst[1]] > 0 THEN n ELSE Listed(Listed(n, h, c.src[1]), h, c.dst[1])
           a == SetParent(l, h, <<c.src[1], c.dst[1]>>, h)
           m == MsgConnect(n, h, c)
<1>1. /\ h \in Hiers /\ c \in MsgWires /\ c.src[1] \in Blocks /\ c.dst[1] \in Blocks
      /\ Ends({c}) \subseteq bs /\ n.blocks[h] \in [Blocks -> 0 .. MaxListed]
  BY AppFacts, MsgWireFacts DEF Asked
<1>2. /\ IsNet(l) /\ Beside(n, l, h) /\ l.parent = n.parent
      /\ l.edges = n.edges /\ l.msgs = n.msgs /\ l.inputs = n.inputs /\ l.outputs = n.outputs
      /\ \A j \in Blocks : /\ l.blocks[h][j] \in 0 .. MaxListed
                           /\ l.blocks[h][j] > 0 => n.blocks[h][j] > 0 \/ j \in bs
  <2>1. CASE n.blocks[h][c.dst[1]] > 0
    <3>1. l = n
      BY <2>1
    <3> HIDE DEF l
    <3> QED BY <1>1, <3>1 DEF Beside
  <2>2. CASE ~(n.blocks[h][c.dst[1]] > 0)
    <3> DEFINE k == Listed(n, h, c.src[1])
               d == Listed(k, h, c.dst[1])
    <3>1. /\ IsNet(k) /\ Beside(n, k, h) /\ k.parent = n.parent
          /\ \A j \in Blocks : k.blocks[h][j] = IF j = c.src[1] THEN n.blocks[h][j] + 1 ELSE n.blocks[h][j]
          /\ k.edges = n.edges /\ k.msgs = n.msgs /\ k.inputs = n.inputs /\ k.outputs = n.outputs
      BY <1>1, ListedNet
    <3> HIDE DEF k
    <3>2. /\ IsNet(d) /\ Beside(k, d, h) /\ d.parent = k.parent
          /\ \A j \in Blocks : d.blocks[h][j] = IF j = c.dst[1] THEN k.blocks[h][j] + 1 ELSE k.blocks[h][j]
          /\ d.edges = k.edges /\ d.msgs = k.msgs /\ d.inputs = k.inputs /\ d.outputs = k.outputs
      <4>1. h \in Hiers /\ c.dst[1] \in Blocks /\ IsNet(k)
        BY <1>1, <3>1
      <4>2. ASSUME NEW x \in Blocks
            PROVE  LET p == Listed(k, h, x) IN
                /\ IsNet(p) /\ Beside(k, p, h) /\ p.parent = k.parent
                /\ \A j \in Blocks : p.blocks[h][j] = IF j = x THEN k.blocks[h][x] + 1 ELSE k.blocks[h][j]
                /\ p.edges = k.edges /\ p.msgs = k.msgs /\ p.inputs = k.inputs /\ p.outputs = k.outputs
        BY <4>1, ListedNet
      <4> QED BY <4>1, <4>2
    <3>3. l = d
      BY <2>2 DEF k
    <3> HIDE DEF d, l
    <3>4. \A j \in Blocks : /\ d.blocks[h][j] \in 0 .. MaxListed
                            /\ d.blocks[h][j] > 0 => n.blocks[h][j] > 0 \/ j \in bs
      BY <1>1, <2>2, <3>1, <3>2, HiersAssumption
    <3>5. Beside(n, d, h)
      BY <3>1, <3>2 DEF Beside
    <3> QED BY <3>1, <3>2, <3>3, <3>4, <3>5
  <2> QED BY <2>1, <2>2
<1> HIDE DEF l
<1>3. IsNet(a) /\ SameGraphs(l, a) /\ Adopts(l, a, h, bs, h)
  <2> DEFINE ends == <<c.src[1], c.dst[1]>>
  <2>1. ToSet(ends) = bs
    BY DEF ToSet
  <2> HIDE DEF ends, bs
  <2>2. LET p == SetParent(l, h, ends, h)
        IN  IsNet(p) /\ SameGraphs(l, p) /\ Adopts(l, p, h, ToSet(ends), h)
    BY Zenon, <1>1, <1>2, ParentNet
  <2> QED BY <2>1, <2>2 DEF ends
<1>4. m = a \/ m = PutMsgs(a, h, Append(a.msgs[h], c))
  BY Zenon DEF MsgConnect, PutMsgs, a, l
<1> HIDE DEF a, m
<1>5. a.msgs[h] \in Seq(MsgWires) /\ a.msgs[h] = n.msgs[h]
  BY <1>1, <1>2, <1>3 DEF IsNet, Nets, SameGraphs
<1>6. /\ IsNet(m) /\ Beside(a, m, h) /\ m.parent = a.parent
      /\ m.edges = a.edges /\ m.inputs = a.inputs /\ m.outputs = a.outputs /\ m.blocks = a.blocks
      /\ ToSet(m.msgs[h]) \subseteq ToSet(n.msgs[h]) \cup {c}
  <2>1. CASE m = a
    BY <1>3, <1>5, <2>1 DEF Beside
  <2>2. CASE m = PutMsgs(a, h, Append(a.msgs[h], c))
    <3> DEFINE X == Append(a.msgs[h], c)
    <3>1. X \in Seq(MsgWires) /\ ToSet(X) \subseteq ToSet(n.msgs[h]) \cup {c}
      BY <1>1, <1>5, Appending
    <3> HIDE DEF X
    <3>2. LET p == PutMsgs(a, h, X)
          IN  /\ IsNet(p) /\ Beside(a, p, h) /\ p.parent = a.parent /\ p.msgs[h] = X
              /\ p.edges = a.edges /\ p.inputs = a.inputs /\ p.outputs = a.outputs /\ p.blocks = a.blocks
      BY <1>1, <1>3, <3>1, MsgsNet
    <3>3. m = PutMsgs(a, h, X)
      BY <2>2 DEF X
    <3> QED BY <3>1, <3>2, <3>3
  <2> QED BY <1>4, <2>1, <2>2
<1>7. Beside(n, m, h) /\ Adopts(n, m, h, bs, h)
  BY <1>2, <1>3, <1>6 DEF Beside, SameGraphs, Adopts
<1>8. /\ m.edges = n.edges /\ m.inputs = n.inputs /\ m.outputs = n.outputs /\ m.blocks = l.blocks
  BY <1>2, <1>3, <1>6 DEF SameGraphs
<1>9. AtPorts(m, h) = AtPorts(n, h)
  BY <1>8, SamePorts
<1>10. Asked(m, h)
  <2>1. m.blocks[h] \in [Blocks -> Nat]
    BY <1>1, <1>6 DEF IsNet, Nets
  <2>2. m.blocks[h] \in [Blocks -> 0 .. MaxListed]
    BY <1>2, <1>8, <2>1
  <2> QED BY <1>6, <1>8, <1>9, <2>2 DEF Asked
<1>11. Grows(n, m, h, bs)
  <2>1. Adds(n, m, h, {}, {c}, {}, bs)
    <3>1. {} \cup {c} = {c}
      OBVIOUS
    <3> QED BY <1>1, <1>2, <1>6, <1>8, <1>9, <3>1 DEF Adds
  <2> QED BY <2>1, PartsGrow
<1> QED BY <1>6, <1>7, <1>10, <1>11 DEF Call, m

LEMMA MsgDisconnected ==
  ASSUME app \in Applications, NEW h \in DOMAIN app, NEW n, IsNet(n), Asked(n, h),
         NEW c \in app[h].msgs
  PROVE  LET m == MsgDisconnect(n, h, c)
         IN  Call(n, m, h, {}, NoParent) /\ Grows(n, m, h, {})
PROOF
<1> DEFINE X == RemoveFirst(n.msgs[h], c)
           m == MsgDisconnect(n, h, c)
<1>1. h \in Hiers /\ n.msgs[h] \in Seq(MsgWires)
  BY AppFacts DEF IsNet, Nets
<1>2. X \in Seq(MsgWires) /\ ToSet(X) \subseteq ToSet(n.msgs[h])
  BY <1>1, RemovingFirst
<1>3. m = n \/ m = PutMsgs(n, h, X)
  BY DEF MsgDisconnect, PutMsgs
<1> HIDE DEF X, m
<1>4. LET p == PutMsgs(n, h, X)
      IN  /\ IsNet(p) /\ Beside(n, p, h) /\ p.parent = n.parent /\ p.msgs[h] = X
          /\ p.edges = n.edges /\ p.inputs = n.inputs /\ p.outputs = n.outputs /\ p.blocks = n.blocks
  BY <1>1, <1>2, MsgsNet
<1>5. /\ IsNet(m) /\ Beside(n, m, h) /\ m.parent = n.parent /\ ToSet(m.msgs[h]) \subseteq ToSet(n.msgs[h])
      /\ m.edges = n.edges /\ m.inputs = n.inputs /\ m.outputs = n.outputs /\ m.blocks = n.blocks
  BY <1>2, <1>3, <1>4 DEF Beside
<1>6. AtPorts(m, h) = AtPorts(n, h)
  BY <1>5, SamePorts
<1>7. SameGraphs(n, n) /\ Adopts(n, n, h, {}, NoParent)
  BY DEF SameGraphs, Adopts
<1>8. \A b \in Blocks : m.blocks[h][b] \in 0 .. n.blocks[h][b]
  BY <1>5 DEF Asked
<1>9. Call(n, m, h, {}, NoParent) /\ Grows(n, m, h, {})
  BY <1>1, <1>5, <1>6, <1>7, <1>8, LessNet
<1> QED BY <1>9 DEF m
-----------------------------------------------------------------------------
(* The steps.                                                              *)

\* a net that keeps to the types
LEMMA CallTypes ==
  ASSUME TypeOK, NEW h \in DOMAIN app, NEW bs, NEW to \in {h, NoParent},
         IsNet(net), Call(net, net', h, bs, to), app' = app,
         cleared' \subseteq Hiers, crashed' \in BOOLEAN
  PROVE  TypeOK' /\ IsNet(net)'
PROOF
<1>1. DOMAIN app \subseteq Hiers /\ h \in Hiers
  BY AppFacts DEF TypeOK
<1>2. \A k \in DOMAIN app : Asked(net', k)
  <2> SUFFICES ASSUME NEW k \in DOMAIN app, k # h PROVE Asked(net', k)
    BY DEF Call
  <2>1. Asked(net, k)
    BY DEF TypeOK, Asked
  <2>2. /\ net'.edges[k] = net.edges[k] /\ net'.msgs[k] = net.msgs[k]
        /\ net'.inputs[k] = net.inputs[k] /\ net'.outputs[k] = net.outputs[k]
        /\ net'.blocks[k] = net.blocks[k]
    BY <1>1 DEF Call, Beside
  <2>3. AtPorts(net', k) = AtPorts(net, k)
    BY <2>2 DEF AtPorts
  <2> QED BY <2>1, <2>2, <2>3 DEF Asked
<1>3. \A k \in DOMAIN app : net'.parent[k] \in (Hiers \ {k}) \cup {NoParent}
  BY <1>1, HiersAssumption DEF Call, Adopts, TypeOK
<1>4. TypeOK'
  <2>1. \A k \in DOMAIN app :
          /\ net'.edges[k] \subseteq app[k].edges /\ ToSet(net'.msgs[k]) \subseteq app[k].msgs
          /\ AtPorts(net', k) \subseteq UNION {{e.src, e.dst} : e \in app[k].edges}
          /\ net'.blocks[k] \in [Blocks -> 0 .. MaxListed]
    BY <1>2 DEF Asked
  <2> QED BY <1>3, <2>1 DEF TypeOK, AtPorts, Ports, ToSet
<1>5. IsNet(net)'
  BY DEF Call, IsNet
<1> QED BY <1>4, <1>5

\* the blocks in a hierarchical block that is not called
LEMMA OtherMembers ==
  ASSUME NEW n, NEW m, NEW h, Beside(n, m, h), NEW k \in Hiers \ {h}
  PROVE  Members(m, k) = Members(n, k)
PROOF
<1>1. /\ m.edges[k] = n.edges[k] /\ m.msgs[k] = n.msgs[k] /\ m.inputs[k] = n.inputs[k]
      /\ m.outputs[k] = n.outputs[k] /\ m.blocks[k] = n.blocks[k]
  BY DEF Beside
<1>2. AtPorts(m, k) = AtPorts(n, k)
  BY <1>1 DEF AtPorts
<1> QED BY <1>1, <1>2 DEF Members

\* the block that is called adopts what it is given
LEMMA AdoptingStep ==
  ASSUME Inv, NEW h \in DOMAIN app, NEW bs, Call(net, net', h, bs, h), Grows(net, net', h, bs),
         bs \cap (Hiers \ {h}) \subseteq Homed(app, h), app' = app,
         cleared' = cleared \ (bs \ {h}), crashed' \in BOOLEAN
  PROVE  Inv'
PROOF
<1>1. TypeOK /\ IsNet(net) /\ Parented /\ app \in Applications /\ h \in Hiers
  BY AppFacts DEF Inv, TypeOK
<1>2. TypeOK' /\ IsNet(net)'
  BY <1>1, CallTypes DEF TypeOK
<1>3. \A k \in Hiers : HomeOf(k)' = HomeOf(k)
  BY DEF HomeOf, Homed, Ends
<1>4. \A k \in Hiers : Members(net', k) \subseteq Hiers \ {k}
  BY DEF Members
<1>5. \A k \in Hiers : Members(net', k) \subseteq HomeOf(k)
  <2> SUFFICES ASSUME NEW k \in Hiers PROVE Members(net', k) \subseteq HomeOf(k)
    OBVIOUS
  <2>1. CASE k = h
    BY <1>1, <1>4, <2>1 DEF Grows, Parented, HomeOf
  <2>2. CASE k # h
    BY <1>1, <2>2, OtherMembers DEF Call, Parented
  <2> QED BY <2>1, <2>2
<1>6. \A k \in Hiers : \A b \in Members(net', k) \ cleared' : net'.parent[b] = k
  <2> SUFFICES ASSUME NEW k \in Hiers, NEW b \in Members(net', k), b \notin cleared'
               PROVE  net'.parent[b] = k
    OBVIOUS
  <2>0. b \in Hiers /\ b # k /\ b \in HomeOf(k)
    BY <1>4, <1>5
  <2>1. CASE k = h
    <3>1. CASE b \in bs
      BY <2>0, <2>1, <3>1 DEF Call, Adopts
    <3>2. CASE b \notin bs
      BY <1>1, <2>0, <2>1, <3>2 DEF Grows, Parented, Call, Adopts
    <3> QED BY <3>1, <3>2
  <2>2. CASE k # h
    <3>1. b \in Members(net, k)
      BY <1>1, <2>2, OtherMembers DEF Call
    <3>2. b \notin bs \ {h}
      <4>1. k \in DOMAIN app /\ b \in Homed(app, k)
        BY <2>0 DEF HomeOf
      <4>2. Homed(app, h) \cap Homed(app, k) = {}
        BY <1>1, <2>2, <4>1, ApplicationsAssumption
      <4> QED BY <2>0, <4>1, <4>2
    <3> QED BY <1>1, <2>0, <3>1, <3>2 DEF Parented, Call, Adopts
  <2> QED BY <2>1, <2>2
<1>7. Parented'
  <2>1. \A k \in Hiers : Members(net, k)' = Members(net', k)
    BY DEF Members, AtPorts, Ends, Ports, ToSet
  <2> QED BY <1>3, <1>5, <1>6, <2>1 DEF Parented
<1> QED BY <1>2, <1>7 DEF Inv

\* the blocks that are named in a disconnect are noted
LEMMA ClearingStep ==
  ASSUME Inv, NEW h \in DOMAIN app, NEW bs, Call(net, net', h, bs, NoParent), Grows(net, net', h, {}),
         app' = app, cleared' \subseteq Hiers, cleared \cup (bs \cap (Hiers \ {h})) \subseteq cleared',
         crashed' \in BOOLEAN
  PROVE  Inv'
PROOF
<1>1. TypeOK /\ IsNet(net) /\ Parented /\ app \in Applications /\ h \in Hiers
  BY AppFacts DEF Inv, TypeOK
<1>2. TypeOK' /\ IsNet(net)'
  BY <1>1, CallTypes
<1>3. \A k \in Hiers : HomeOf(k)' = HomeOf(k)
  BY DEF HomeOf, Homed, Ends
<1>4. \A k \in Hiers : Members(net', k) \subseteq Members(net, k)
  <2> SUFFICES ASSUME NEW k \in Hiers PROVE Members(net', k) \subseteq Members(net, k)
    OBVIOUS
  <2>1. CASE k = h
    BY <2>1 DEF Grows
  <2>2. CASE k # h
    BY <2>2, OtherMembers DEF Call
  <2> QED BY <2>1, <2>2
<1>5. \A k \in Hiers : \A b \in Members(net', k) \ cleared' : net'.parent[b] = k
  <2> SUFFICES ASSUME NEW k \in Hiers, NEW b \in Members(net', k), b \notin cleared'
               PROVE  net'.parent[b] = k
    OBVIOUS
  <2>1. b \in Hiers /\ b \in Members(net, k) /\ b \notin cleared /\ b \notin bs \ {h}
    BY <1>4 DEF Members
  <2> QED BY <1>1, <2>1 DEF Parented, Call, Adopts
<1>6. Parented'
  <2>1. \A k \in Hiers : Members(net, k)' = Members(net', k)
    BY DEF Members, AtPorts, Ends, Ports, ToSet
  <2> QED BY <1>1, <1>3, <1>4, <1>5, <2>1 DEF Parented
<1> QED BY <1>2, <1>6 DEF Inv

\* nothing but the program's end
LEMMA IdleStep ==
  ASSUME Inv, UNCHANGED <<app, net, cleared>>, crashed' \in BOOLEAN
  PROVE  Inv'
PROOF
<1>1. TypeOK'
  BY DEF Inv, TypeOK
<1>2. IsNet(net)'
  BY DEF Inv, IsNet
<1>3. Parented'
  BY DEF Inv, Parented, Members, AtPorts, HomeOf, Homed, Ends, Ports, ToSet
<1> QED BY <1>1, <1>2, <1>3 DEF Inv

LEMMA InvStarts == Init => Inv
PROOF
<1> SUFFICES ASSUME Init PROVE Inv
  OBVIOUS
<1> DEFINE ins(h) == [i \in Ports(h, "in") |-> {}]
           outs(h) == [i \in Ports(h, "out") |-> NoEndpoint]
<1>1. \A h \in Hiers : /\ net.edges[h] = {} /\ net.msgs[h] = << >>
                       /\ net.inputs[h] = ins(h) /\ net.outputs[h] = outs(h)
                       /\ net.blocks[h] = [b \in Blocks |-> 0] /\ net.parent[h] = NoParent
  BY DEF Init
<1>2. \A h \in Hiers : /\ ins(h) \in [Ports(h, "in") -> SUBSET (Blocks \X Nat)]
                       /\ outs(h) \in [Ports(h, "out") -> (Blocks \X Nat) \cup {NoEndpoint}]
  OBVIOUS
<1>3. \A h \in Hiers : AtPorts(net, h) = {}
  <2> TAKE h \in Hiers
  <2>1. \A i \in Ports(h, "in") : net.inputs[h][i] = {}
    BY <1>1
  <2>2. \A i \in Ports(h, "out") : net.outputs[h][i] = NoEndpoint
    <3>1. net.outputs[h] = outs(h)
      BY <1>1
    <3> QED BY <3>1
  <2> QED BY <2>1, <2>2 DEF AtPorts
<1>4. \A h \in Hiers : ToSet(net.msgs[h]) = {}
  <2> TAKE h \in Hiers
  <2>1. net.msgs[h] = << >>
    BY <1>1
  <2> QED BY <2>1 DEF ToSet
<1>5. net \in Nets
  <2>1. /\ [h \in Hiers |-> ins(h)] \in [Hiers -> Inputs]
        /\ [h \in Hiers |-> outs(h)] \in [Hiers -> Outputs]
    BY <1>2 DEF Inputs, Outputs
  <2>2. /\ [h \in Hiers |-> {}] \in [Hiers -> SUBSET Wires]
        /\ [h \in Hiers |-> << >>] \in [Hiers -> Seq(MsgWires)]
        /\ [h \in Hiers |-> [b \in Blocks |-> 0]] \in [Hiers -> [Blocks -> Nat]]
        /\ [h \in Hiers |-> NoParent] \in [Hiers -> Hiers \cup {NoParent}]
    OBVIOUS
  <2> QED BY <2>1, <2>2 DEF Init, Nets
<1>6. IsNet(net)
  BY <1>1, <1>2, <1>5 DEF IsNet
<1>7. TypeOK
  <2>1. \A h \in DOMAIN app : h \in Hiers
    BY ApplicationsAssumption DEF Init
  <2>2. \A h \in Hiers : net.blocks[h] \in [Blocks -> 0 .. MaxListed]
    <3> TAKE h \in Hiers
    <3>1. net.blocks[h] = [b \in Blocks |-> 0]
      BY <1>1
    <3>2. 0 \in 0 .. MaxListed
      BY HiersAssumption
    <3> QED BY <3>1, <3>2
  <2> QED BY <1>1, <1>3, <1>4, <2>1, <2>2 DEF Init, TypeOK
<1>8. Parented
  <2>1. \A h \in Hiers : Members(net, h) = {}
    <3>1. \A h \in Hiers : {b \in Blocks : net.blocks[h][b] > 0} = {}
      <4> TAKE h \in Hiers
      <4>1. net.blocks[h] = [b \in Blocks |-> 0]
        BY <1>1
      <4> QED BY <4>1
    <3> QED BY <1>1, <1>3, <1>4, <3>1 DEF Members, Ends
  <2> QED BY <2>1 DEF Parented
<1> QED BY <1>6, <1>7, <1>8 DEF Inv

\* in h, what is connected is what the application asks for
LEMMA InvFacts ==
  ASSUME Inv, NEW h \in DOMAIN app
  PROVE  /\ app \in Applications /\ h \in Hiers /\ IsNet(net) /\ Asked(net, h)
         /\ cleared \subseteq Hiers
PROOF
  BY AppFacts DEF Inv, TypeOK, Asked

LEMMA InvStays ==
  ASSUME Inv, [Next]_vars
  PROVE  Inv'
PROOF
<1>1. CASE UNCHANGED vars
  BY <1>1, IdleStep DEF vars, Inv, TypeOK
<1> SUFFICES ASSUME NEW h \in DOMAIN app,
                    \/ AddBlock(h) \/ AddEdge(h) \/ AddMsg(h)
                    \/ RemoveEdge(h) \/ RemoveBlock(h) \/ RemoveMsg(h) \/ RemoveAll(h)
                    \/ Lock(h)
             PROVE  Inv'
  BY <1>1 DEF Next
<1>2. /\ app \in Applications /\ h \in Hiers /\ IsNet(net) /\ Asked(net, h)
      /\ cleared \subseteq Hiers /\ crashed \in BOOLEAN
  BY InvFacts DEF Inv, TypeOK
<1>3. CASE AddBlock(h)
  <2>1. PICK b \in app[h].singles :
          /\ net' = ConnectBlock(net, h, b)
          /\ cleared' = IF net' = net THEN cleared ELSE cleared \ ({b} \ {h})
    BY <1>3 DEF AddBlock
  <2>2. app' = app /\ crashed' = crashed
    BY <1>3 DEF AddBlock, Goes
  <2>3. CASE net' = net
    BY <1>2, <2>1, <2>2, <2>3, IdleStep
  <2>4. CASE net' # net
    <3>1. Call(net, net', h, {b}, h) /\ Grows(net, net', h, {b})
      BY <1>2, <2>1, <2>4, BlockConnected
    <3>2. {b} \cap (Hiers \ {h}) \subseteq Homed(app, h)
      BY DEF Homed
    <3>3. cleared' = cleared \ ({b} \ {h})
      BY <2>1, <2>4
    <3> DEFINE bs == {b}
    <3> HIDE DEF bs
    <3>4. /\ Call(net, net', h, bs, h) /\ Grows(net, net', h, bs)
          /\ bs \cap (Hiers \ {h}) \subseteq Homed(app, h) /\ cleared' = cleared \ (bs \ {h})
      BY <3>1, <3>2, <3>3 DEF bs
    <3> QED BY <1>2, <2>2, <3>4, AdoptingStep
  <2> QED BY <2>3, <2>4
<1>4. CASE AddEdge(h)
  <2>1. PICK e \in app[h].edges :
          /\ net' = Connect(net, h, e)
          /\ cleared' = IF e.src[1] = e.dst[1] THEN cleared ELSE cleared \ ({e.src[1], e.dst[1]} \ {h})
    BY <1>4 DEF AddEdge
  <2>2. app' = app /\ crashed' = crashed
    BY <1>4 DEF AddEdge, Goes
  <2>3. CASE e.src[1] = e.dst[1]
    <3>1. net' = net /\ cleared' = cleared
      BY <2>1, <2>3 DEF Connect
    <3> QED BY <1>2, <2>2, <3>1, IdleStep
  <2>4. CASE e.src[1] # e.dst[1]
    <3> DEFINE bs == {e.src[1], e.dst[1]}
    <3>1. Call(net, net', h, bs, h) /\ Grows(net, net', h, bs)
      BY <1>2, <2>1, <2>4, EdgeConnected
    <3>2. bs \cap (Hiers \ {h}) \subseteq Homed(app, h) /\ cleared' = cleared \ (bs \ {h})
      BY <1>2, <2>1, <2>4, WireFacts
    <3> HIDE DEF bs
    <3> QED BY <1>2, <2>2, <3>1, <3>2, AdoptingStep
  <2> QED BY <2>3, <2>4
<1>5. CASE AddMsg(h)
  <2>1. PICK c \in app[h].msgs :
          /\ MayList(h, {c.src[1], c.dst[1]}) /\ net' = MsgConnect(net, h, c)
          /\ cleared' = cleared \ ({c.src[1], c.dst[1]} \ {h})
    BY <1>5 DEF AddMsg
  <2>2. app' = app /\ crashed' = crashed
    BY <1>5 DEF AddMsg, Goes
  <2> DEFINE bs == {c.src[1], c.dst[1]}
  <2>3. Call(net, net', h, bs, h) /\ Grows(net, net', h, bs)
    BY <1>2, <2>1, MsgConnected DEF MayList
  <2>4. bs \cap (Hiers \ {h}) \subseteq Homed(app, h) /\ cleared' = cleared \ (bs \ {h})
    BY <1>2, <2>1, MsgWireFacts
  <2> HIDE DEF bs
  <2> QED BY <1>2, <2>2, <2>3, <2>4, AdoptingStep
<1>6. CASE RemoveEdge(h)
  <2>1. PICK e \in app[h].edges :
          /\ net' = Disconnect(net, h, e)
          /\ cleared' = IF e.src[1] = e.dst[1] THEN cleared
                        ELSE cleared \cup ({e.src[1], e.dst[1]} \cap (Hiers \ {h}))
    BY <1>6 DEF RemoveEdge
  <2>2. app' = app /\ crashed' = crashed
    BY <1>6 DEF RemoveEdge, Goes
  <2>3. CASE e.src[1] = e.dst[1]
    <3>1. net' = net /\ cleared' = cleared
      BY <2>1, <2>3 DEF Disconnect
    <3> QED BY <1>2, <2>2, <3>1, IdleStep
  <2>4. CASE e.src[1] # e.dst[1]
    <3> DEFINE bs == {e.src[1], e.dst[1]}
    <3>1. Call(net, net', h, bs, NoParent) /\ Grows(net, net', h, {})
      BY <1>2, <2>1, <2>4, EdgeDisconnected
    <3>2. cleared' = cleared \cup (bs \cap (Hiers \ {h})) /\ cleared' \subseteq Hiers
      BY <1>2, <2>1, <2>4
    <3> HIDE DEF bs
    <3> QED BY <1>2, <2>2, <3>1, <3>2, ClearingStep
  <2> QED BY <2>3, <2>4
<1>7. CASE RemoveBlock(h)
  <2>1. PICK b \in Blocks :
          /\ net' = DisconnectBlock(net, h, b)
          /\ cleared' = cleared \cup (Named(net, h, b) \cap (Hiers \ {h}))
          /\ crashed' = FollowsNull(net, h, b)
    BY <1>7 DEF RemoveBlock
  <2>2. app' = app /\ crashed' \in BOOLEAN
    BY <1>7, <2>1 DEF RemoveBlock, FollowsNull
  <2>3. PICK bs \in SUBSET Named(net, h, b) :
          Call(net, net', h, bs, NoParent) /\ Grows(net, net', h, {})
    BY <1>2, <2>1, BlockDisconnected
  <2>4. cleared \cup (bs \cap (Hiers \ {h})) \subseteq cleared' /\ cleared' \subseteq Hiers
    BY <1>2, <2>1
  <2> QED BY <1>2, <2>2, <2>3, <2>4, ClearingStep
<1>8. CASE RemoveMsg(h)
  <2>1. PICK c \in app[h].msgs : net' = MsgDisconnect(net, h, c)
    BY <1>8 DEF RemoveMsg
  <2>2. app' = app /\ crashed' = crashed /\ cleared' = cleared
    BY <1>8 DEF RemoveMsg, Goes
  <2>3. Call(net, net', h, {}, NoParent) /\ Grows(net, net', h, {})
    BY <1>2, <2>1, MsgDisconnected
  <2>4. cleared \cup ({} \cap (Hiers \ {h})) \subseteq cleared'
    BY <2>2
  <2> QED BY <1>2, <2>2, <2>3, <2>4, ClearingStep
<1>9. CASE RemoveAll(h)
  <2>1. net' = Emptied(net, h) /\ app' = app /\ crashed' = crashed /\ cleared' = cleared
    BY <1>9 DEF RemoveAll, Goes
  <2>2. Call(net, net', h, {}, NoParent) /\ Grows(net, net', h, {})
    BY <1>2, <2>1, AllDisconnected
  <2>3. cleared \cup ({} \cap (Hiers \ {h})) \subseteq cleared'
    BY <2>1
  <2> QED BY <1>2, <2>1, <2>2, <2>3, ClearingStep
<1>10. CASE Lock(h)
  BY <1>10, IdleStep DEF Lock
<1> QED BY <1>3, <1>4, <1>5, <1>6, <1>7, <1>8, <1>9, <1>10
-----------------------------------------------------------------------------
(* Parents lead to the top block.                                          *)

LEMMA InvGivesLocks == Inv => LocksReachTop
PROOF
<1> SUFFICES ASSUME Inv PROVE LocksReachTop
  OBVIOUS
<1> DEFINE R == [b \in Hiers |-> Members(net, b)]
           P == [b \in Hiers |-> {c \in Hiers : net.parent[c] = b}]
           C == Closure(R, {Top})
           V == Closure(P, {Top})
           Intact(b) == \A h \in C : b \in Closure(R, {h}) => h \notin cleared
           T == {b \in C : Intact(b) => b \in V}
<1>1. /\ R \in [Hiers -> SUBSET Hiers] /\ \A b \in Hiers : R[b] = Members(net, b)
      /\ P \in [Hiers -> SUBSET Hiers] /\ \A b \in Hiers : P[b] = {c \in Hiers : net.parent[c] = b}
      /\ Top \in Hiers
  BY HiersAssumption DEF Members
<1>2. \A b \in Hiers : WithMembers(b) = Closure(R, {b}) /\ (ReachesTop(net, b) <=> b \in V)
  BY DEF WithMembers, ReachesTop
<1>3. Contained = C
  BY <1>1, <1>2 DEF Contained
<1> HIDE DEF R, P
<1>4. /\ {Top} \subseteq C /\ C \subseteq Hiers /\ \A b \in C : R[b] \subseteq C
      /\ \A U \in SUBSET Hiers : {Top} \subseteq U /\ (\A b \in U : R[b] \subseteq U) => C \subseteq U
  BY <1>1, ClosureFacts
<1>5. {Top} \subseteq V /\ V \subseteq Hiers /\ \A b \in V : P[b] \subseteq V
  BY <1>1, ClosureFacts
<1>6. \A h \in Hiers : h \in Closure(R, {h}) /\ \A b \in Closure(R, {h}) : R[b] \subseteq Closure(R, {h})
  <2> TAKE h \in Hiers
  <2>1. {h} \subseteq Closure(R, {h}) /\ \A b \in Closure(R, {h}) : R[b] \subseteq Closure(R, {h})
    BY <1>1, ClosureFacts
  <2> QED BY <2>1
<1> HIDE DEF C, V
<1>7. T \in SUBSET Hiers /\ {Top} \subseteq T
  BY <1>4, <1>5
<1>8. \A b \in T : R[b] \subseteq T
  <2> SUFFICES ASSUME NEW b \in T, NEW c \in R[b], Intact(c) PROVE c \in C /\ c \in V
    BY <1>4
  <2>1. b \in C /\ b \in Hiers /\ c \in C /\ c \in Hiers
    BY <1>4
  <2>2. Intact(b)
    BY <1>4, <1>6
  <2>3. b \in V /\ c \notin cleared
    BY <1>6, <2>1, <2>2
  <2>4. net.parent[c] = b
    BY <1>1, <2>1, <2>3 DEF Inv, Parented
  <2>5. c \in P[b]
    BY <1>1, <2>1, <2>4
  <2> QED BY <1>5, <2>1, <2>3, <2>5
<1>9. C \subseteq T
  <2> HIDE DEF T
  <2> QED BY <1>4, <1>7, <1>8
<1>10. \A b \in C : b \in Hiers /\ (Intact(b) => b \in V)
  BY <1>4, <1>9
<1>11. \A b \in Contained :
         (\A h \in Contained : b \in WithMembers(h) => h \notin cleared) => Intact(b)
  BY <1>2, <1>3, <1>4
<1> QED BY <1>2, <1>3, <1>10, <1>11 DEF LocksReachTop
-----------------------------------------------------------------------------

LEMMA InvHolds == Spec => []Inv
PROOF
<1>1. Init => Inv
  BY InvStarts
<1>2. Inv /\ [Next]_vars => Inv'
  BY InvStays
<1> QED BY <1>1, <1>2, PTL DEF Spec

(* What connect, disconnect and their like for blocks and messages leave   *)
(* in a hierarchical block is what they were asked for, and a block is     *)
(* never its own parent (hier_block2_detail.cc).                           *)

THEOREM HierTyping == Spec => []TypeOK
PROOF
<1>1. Inv => TypeOK
  BY DEF Inv
<1> QED BY <1>1, InvHolds, PTL

(* lock() and unlock() (hier_block2.cc, top_block) find the top block from *)
(* whatever block in it they are called on, however the graphs were        *)
(* connected, as long as no disconnect has named the block or one around   *)
(* it since.                                                               *)

THEOREM LocksTheorem == Spec => []LocksReachTop
PROOF
<1>1. Inv => LocksReachTop
  BY InvGivesLocks
<1> QED BY <1>1, InvHolds, PTL
-----------------------------------------------------------------------------
(* Loops.                                                                  *)

\* what holds before a loop and is kept by each of its rounds holds throughout:
\* after round i, f[i] is in S[i]
LEMMA LoopKeeps ==
  ASSUME NEW n \in Nat, NEW S, NEW f, f[0] \in S[0],
         \A i \in 1..n : f[i - 1] \in S[i - 1] => f[i] \in S[i]
  PROVE  \A i \in 0..n : f[i] \in S[i]
PROOF
<1> DEFINE Bad == {i \in 0..n : f[i] \notin S[i]}
<1> SUFFICES ASSUME Bad # {} PROVE FALSE
  OBVIOUS
<1>1. PICK i \in Bad : \A j \in Bad : i <= j
  <2>1. Bad \subseteq Nat
    OBVIOUS
  <2> HIDE DEF Bad
  <2> QED BY <2>1, NatLeast
<1>2. i \in 1..n /\ i - 1 \in 0..n /\ ~(i <= i - 1)
  BY <1>1
<1>3. f[i - 1] \in S[i - 1]
  BY <1>1, <1>2
<1> QED BY <1>1, <1>2, <1>3

\* the loop from first, through functions between the sets S[i]
Runs(f, n, S, first, F) ==
  /\ f = [i \in 0..n |-> f[i]] /\ f[0] = first
  /\ \A i \in 1..n : f[i] = F[i][f[i - 1]]
  /\ \A i \in 0..n : f[i] \in S[i]

LEMMA LoopRuns ==
  ASSUME NEW n \in Nat, NEW S, NEW first \in S[0], NEW F,
         \A i \in 1..n : \A x \in S[i - 1] : F[i][x] \in S[i]
  PROVE  \E f : Runs(f, n, S, first, F)
PROOF
<1> DEFINE Run(k, f) == f = [i \in 0..k |-> IF i = 0 THEN first ELSE F[i][f[i - 1]]]
           Bad == {k \in 0..n : ~\E f : Run(k, f)}
<1>1. Bad = {}
  <2> SUFFICES ASSUME Bad # {} PROVE FALSE
    OBVIOUS
  <2>1. PICK k \in Bad : \A j \in Bad : k <= j
    <3>1. Bad \subseteq Nat
      OBVIOUS
    <3> HIDE DEF Bad
    <3> QED BY <3>1, NatLeast
  <2>2. CASE k = 0
    <3> DEFINE f == [i \in 0..0 |-> first]
    <3>1. f = [i \in 0..0 |-> IF i = 0 THEN first ELSE F[i][f[i - 1]]]
      OBVIOUS
    <3>2. Run(0, f)
      BY <3>1
    <3> QED BY <2>1, <2>2, <3>2
  <2>3. CASE k # 0
    <3>1. k \in 1..n /\ k - 1 \in 0..n /\ ~(k <= k - 1)
      BY <2>1, <2>3
    <3>2. PICK f : Run(k - 1, f)
      BY <2>1, <3>1
    <3> DEFINE g == [i \in 0..k |-> IF i = k THEN F[k][f[k - 1]] ELSE f[i]]
    <3>3. \A i \in 0..k : g[i] = IF i = 0 THEN first ELSE F[i][g[i - 1]]
      <4> SUFFICES ASSUME NEW i \in 0..k
                   PROVE  g[i] = IF i = 0 THEN first ELSE F[i][g[i - 1]]
        OBVIOUS
      <4>1. \A j \in 0..(k - 1) : j \in 0..k /\ j # k /\ g[j] = f[j]
        BY <3>1
      <4>2. CASE i = k
        <5>1. g[i] = F[k][f[k - 1]] /\ k - 1 \in 0..(k - 1)
          BY <3>1, <4>2
        <5>2. g[k - 1] = f[k - 1]
          BY <4>1, <5>1
        <5> HIDE DEF g
        <5> QED BY <3>1, <4>2, <5>1, <5>2
      <4>3. CASE i # k
        <5>1. i \in 0..(k - 1) /\ (i = 0 \/ i - 1 \in 0..(k - 1))
          BY <3>1, <4>3
        <5>2. f[i] = IF i = 0 THEN first ELSE F[i][f[i - 1]]
          BY <3>2, <5>1
        <5> HIDE DEF g
        <5> QED BY <4>1, <5>1, <5>2
      <4> QED BY <4>2, <4>3
    <3>4. Run(k, g)
      <4>1. g = [i \in 0..k |-> g[i]]
        OBVIOUS
      <4> HIDE DEF g
      <4> QED BY <3>3, <4>1
    <3> QED BY <2>1, <3>4
  <2> QED BY <2>2, <2>3
<1>2. PICK f : Run(n, f)
  BY <1>1
<1>3. \A i \in 0..n : f[i] \in S[i]
  <2>1. f[0] \in S[0] /\ \A i \in 1..n : f[i] = F[i][f[i - 1]]
    BY <1>2
  <2> QED BY <2>1, LoopKeeps
<1>4. f = [i \in 0..n |-> f[i]] /\ f[0] = first /\ \A i \in 1..n : f[i] = F[i][f[i - 1]]
  BY <1>2
<1> QED BY <1>3, <1>4 DEF Runs

LEMMA RunsFacts ==
  ASSUME NEW n \in Nat, NEW S, NEW first, NEW F, NEW f, Runs(f, n, S, first, F)
  PROVE  \A i \in 0..n : \/ i = 0 /\ f[i] = first
                         \/ /\ i # 0 /\ i \in 1..n /\ f[i] = F[i][f[i - 1]]
                            /\ f[i - 1] \in S[i - 1]
PROOF
<1>1. /\ f[0] = first /\ \A i \in 1..n : f[i] = F[i][f[i - 1]]
      /\ \A i \in 0..n : f[i] \in S[i]
  BY DEF Runs
<1>2. \A i \in 0..n : i = 0 \/ (i # 0 /\ i \in 1..n /\ i - 1 \in 0..n)
  OBVIOUS
<1> QED BY <1>1, <1>2
-----------------------------------------------------------------------------
(* Sorted sets.                                                            *)

Below(S, x) == {y \in S : y < x}

LEMMA BelowFacts ==
  ASSUME NEW S \in SUBSET Nat, IsFiniteSet(S), NEW x \in S
  PROVE  /\ IsFiniteSet(Below(S, x)) /\ Cardinality(Below(S, x)) \in Nat
         /\ Cardinality(Below(S, x)) + 1 \in 1..Cardinality(S)
         /\ \A z \in S : x < z => Cardinality(Below(S, x)) < Cardinality(Below(S, z))
PROOF
<1>1. \A z \in S : IsFiniteSet(Below(S, z)) /\ Cardinality(Below(S, z)) \in Nat
  BY FS_Subset, FS_CardinalityType DEF Below
<1>2. Below(S, x) \subseteq S /\ Below(S, x) # S
  BY DEF Below
<1>3. ~(Cardinality(S) <= Cardinality(Below(S, x))) /\ Cardinality(S) \in Nat
  BY <1>2, SmallerSet, FS_CardinalityType
<1>4. ASSUME NEW z \in S, x < z PROVE Cardinality(Below(S, x)) < Cardinality(Below(S, z))
  <2>1. Below(S, x) \subseteq Below(S, z) /\ Below(S, x) # Below(S, z)
    <3>1. \A y \in S : y < x => y < z
      BY <1>4
    <3>2. x \in Below(S, z) /\ x \notin Below(S, x)
      BY <1>4 DEF Below
    <3>3. Below(S, x) \subseteq Below(S, z)
      BY <3>1 DEF Below
    <3> QED BY <3>2, <3>3
  <2>2. ~(Cardinality(Below(S, z)) <= Cardinality(Below(S, x)))
    BY <1>1, <2>1, SmallerSet
  <2> QED BY <1>1, <2>2
<1> QED BY <1>1, <1>3, <1>4

\* the kth of n numbers is the one with k - 1 below it
LEMMA InOrderFacts ==
  ASSUME NEW S \in SUBSET Nat, IsFiniteSet(S)
  PROVE  LET n == Cardinality(S)
         IN  /\ n \in Nat /\ InOrder(S) \in Seq(S) /\ Len(InOrder(S)) = n
             /\ \A k \in 1..n : /\ InOrder(S)[k] \in S
                               /\ Cardinality(Below(S, InOrder(S)[k])) = k - 1
             /\ \A x \in S : \E k \in 1..n : InOrder(S)[k] = x
PROOF
<1> DEFINE n == Cardinality(S)
           f == [x \in S |-> Cardinality(Below(S, x)) + 1]
<1>1. n \in Nat /\ IsFiniteSet(1..n) /\ Cardinality(1..n) = n
  BY FS_CardinalityType, FS_Interval
<1>2. f \in [S -> 1..n]
  BY BelowFacts
<1>3. \A x, z \in S : f[x] = f[z] => x = z
  <2> SUFFICES ASSUME NEW x \in S, NEW z \in S, x # z PROVE f[x] # f[z]
    OBVIOUS
  <2>1. x < z \/ z < x
    OBVIOUS
  <2> QED BY <2>1, BelowFacts
<1>4. f \in Surjection(S, 1..n)
  <2>1. f \in Injection(S, 1..n)
    BY <1>2, <1>3 DEF Injection, IsInjective
  <2> QED BY <1>1, <2>1, FS_Injection
<1>5. \A k \in 1..n : \E x \in S : f[x] = k
  BY <1>4 DEF Surjection
<1>6. \A k \in 1..n : InOrder(S)[k] \in S /\ Cardinality(Below(S, InOrder(S)[k])) = k - 1
  <2> SUFFICES ASSUME NEW k \in 1..n
               PROVE  InOrder(S)[k] \in S /\ Cardinality(Below(S, InOrder(S)[k])) = k - 1
    OBVIOUS
  <2>1. PICK x \in S : f[x] = k
    BY <1>5
  <2>2. Cardinality({y \in S : y < x}) = k - 1
    BY <2>1, BelowFacts DEF Below
  <2>3. InOrder(S)[k] = CHOOSE z \in S : Cardinality({y \in S : y < z}) = k - 1
    BY DEF InOrder
  <2> QED BY <2>2, <2>3 DEF Below
<1>7. \A x \in S : \E k \in 1..n : InOrder(S)[k] = x
  <2> SUFFICES ASSUME NEW x \in S PROVE \E k \in 1..n : InOrder(S)[k] = x
    OBVIOUS
  <2>1. f[x] \in 1..n /\ f[x] - 1 = Cardinality(Below(S, x))
    BY <1>2, BelowFacts
  <2>2. InOrder(S)[f[x]] \in S /\ f[InOrder(S)[f[x]]] = f[x]
    BY <1>1, <1>6, <2>1
  <2> QED BY <1>3, <2>1, <2>2
<1>8. InOrder(S) \in [1..n -> S]
  BY <1>6 DEF InOrder
<1> QED BY <1>1, <1>6, <1>7, <1>8

\* ports that are contiguous
LEMMA ContiguousPorts ==
  ASSUME NEW S \in SUBSET Nat, IsFiniteSet(S), NEW sig, sig.min \in Nat, Contiguous(S, sig)
  PROVE  S = 0..(Cardinality(S) - 1)
PROOF
<1> DEFINE n == Cardinality(S)
<1>1. n \in Nat
  BY FS_CardinalityType
<1>2. CASE n = 0
  BY <1>2, FS_EmptySet
<1>3. CASE n # 0
  <2>1. n \in 1..n /\ InOrder(S)[n] + 1 = n /\ InOrder(S)[n] \in S
    BY <1>1, <1>3, InOrderFacts DEF Contiguous
  <2>2. Cardinality(Below(S, n - 1)) = n - 1 /\ n - 1 \in S
    <3>1. InOrder(S)[n] = n - 1
      <4>1. PICK m \in Nat : InOrder(S)[n] = m
        BY <2>1
      <4> QED BY <1>1, <2>1, <4>1
    <3>2. Cardinality(Below(S, InOrder(S)[n])) = n - 1
      BY <2>1, InOrderFacts
    <3> QED BY <2>1, <3>1, <3>2
  <2>3. \A x \in S : x <= n - 1
    <3> SUFFICES ASSUME NEW x \in S, n - 1 < x PROVE FALSE
      BY <1>1
    <3>1. /\ Cardinality(Below(S, x)) + 1 <= n /\ Cardinality(Below(S, x)) \in Nat
          /\ n - 1 < Cardinality(Below(S, x))
      BY <1>1, <2>2, BelowFacts
    <3> QED BY <1>1, <3>1
  <2>4. S \subseteq 0..(n - 1)
    BY <1>1, <2>3
  <2>5. IsFiniteSet(0..(n - 1)) /\ Cardinality(0..(n - 1)) = n
    <3>1. 0 \in Int /\ n - 1 \in Int /\ ~(0 > n - 1) /\ n - 1 - 0 + 1 = n
      BY <1>1, <1>3
    <3> HIDE DEF n
    <3> QED BY <3>1, FS_Interval
  <2> QED BY <2>4, <2>5, FS_Subset
<1> QED BY <1>2, <1>3

LEMMA MaxFacts ==
  ASSUME NEW S \in SUBSET Nat, IsFiniteSet(S), S # {}
  PROVE  Max(S) \in S /\ \A y \in S : Max(S) >= y
PROOF
<1> DEFINE n == Cardinality(S)
           top == InOrder(S)[n]
<1>1. n \in Nat /\ n \in 1..n
  BY FS_EmptySet, FS_CardinalityType
<1>2. top \in S /\ Cardinality(Below(S, top)) = n - 1
  BY <1>1, InOrderFacts
<1>3. \A y \in S : top >= y
  <2> HIDE DEF top
  <2> SUFFICES ASSUME NEW y \in S, top < y PROVE FALSE
    BY <1>2
  <2>1. /\ Cardinality(Below(S, y)) + 1 <= n /\ Cardinality(Below(S, y)) \in Nat
        /\ n - 1 < Cardinality(Below(S, y))
    BY <1>1, <1>2, BelowFacts
  <2> QED BY <1>1, <2>1
<1> HIDE DEF top
<1> QED BY <1>2, <1>3 DEF Max
-----------------------------------------------------------------------------
(* The size of a buffer.                                                   *)

Positive == Nat \ {0}

LEMMA Quotient ==
  ASSUME NEW x \in Int, NEW m \in Positive
  PROVE  /\ x \div m \in Int /\ x % m \in Int /\ 0 <= x % m
         /\ x = (x \div m) * m + (x % m) /\ x < (x \div m) * m + m
PROOF
  BY Z3 DEF Positive

LEMMA AtLeastOnce ==
  ASSUME NEW q \in Int, NEW m \in Positive, q * m > 0
  PROVE  q * m >= m
PROOF
<1>1. CASE q <= 0
  <2>1. q * m <= 0
    BY <1>1, Z3 DEF Positive
  <2>2. q * m \in Int
    BY DEF Positive
  <2> QED BY <2>1, <2>2
<1>2. CASE q >= 1
  BY <1>2, Z3 DEF Positive
<1> QED BY <1>1, <1>2

LEMMA RoundUpFacts ==
  ASSUME NEW n \in Positive, NEW m \in Positive
  PROVE  RoundUp(n, m) \in Nat /\ RoundUp(n, m) >= n /\ RoundUp(n, m) >= m
PROOF
<1> DEFINE x == n + m - 1
           q == x \div m
<1>1. x \in Int /\ m \in Int /\ n \in Int /\ n >= 1
  BY DEF Positive
<1>2. q \in Int /\ q * m \in Int /\ x < q * m + m
  BY <1>1, Quotient DEF Positive
<1>3. RoundUp(n, m) = q * m
  BY DEF RoundUp
<1> HIDE DEF q
<1>4. q * m >= n
  BY <1>1, <1>2
<1>5. q * m >= m
  BY <1>1, <1>2, <1>4, AtLeastOnce
<1> QED BY <1>1, <1>2, <1>3, <1>4, <1>5

LEMMA MultiplesFacts ==
  ASSUME NEW n \in Int, NEW m \in Positive
  PROVE  /\ WholeMultiples(n, m) \in Int
         /\ WholeMultiples(n, m) >= 1 => WholeMultiples(n, m) >= m
PROOF
<1> DEFINE q == n \div m
<1>1. q \in Int /\ n % m \in Int /\ n = q * m + (n % m) /\ q * m \in Int
  BY Quotient DEF Positive
<1>2. WholeMultiples(n, m) = q * m
  <2> HIDE DEF q
  <2> QED BY <1>1 DEF WholeMultiples
<1> HIDE DEF q
<1> QED BY <1>1, <1>2, AtLeastOnce

LEMMA PairFacts ==
  ASSUME NEW x \in Int, NEW y \in Int
  PROVE  /\ Max({x, y}) \in {x, y} /\ Max({x, y}) >= x /\ Max({x, y}) >= y
         /\ Min({x, y}) \in {x, y}
PROOF
<1>1. \E z \in {x, y} : \A v \in {x, y} : z >= v
  OBVIOUS
<1>2. \E z \in {x, y} : \A v \in {x, y} : z <= v
  OBVIOUS
<1> QED BY <1>1, <1>2 DEF Max, Min
-----------------------------------------------------------------------------
(* The graphs that can be built.                                           *)

LEMMA ImageFacts ==
  ASSUME NEW f, IsFiniteSet(DOMAIN f)
  PROVE  LET T == {f[x] : x \in DOMAIN f}
         IN  IsFiniteSet(T) /\ Cardinality(T) <= Cardinality(DOMAIN f)
PROOF
<1> DEFINE g == [x \in DOMAIN f |-> f[x]]
           T == {f[x] : x \in DOMAIN f}
<1>1. g \in Surjection(DOMAIN f, T)
  BY DEF Surjection
<1> QED BY <1>1, FS_Surjection

LEMMA GraphFacts ==
  ASSUME NEW E \in Buildable
  PROVE  /\ E \subseteq Cables
         /\ \A e \in E : /\ e.src \in Blocks \X Nat /\ e.dst \in Blocks \X Nat
                         /\ e.src[1] # e.dst[1]
         /\ \A e, f \in E : e.dst = f.dst => e = f
PROOF
<1>1. E \subseteq Cables /\ \A e \in E : MayConnect(E \ {e}, e)
  BY DEF Buildable
<1>2. \A e \in E : e.src[1] # e.dst[1] /\ DstNotUsed(E \ {e}, e.dst)
  BY <1>1 DEF MayConnect, MayJoin
<1>3. \A e, f \in E : e.dst = f.dst => e = f
  BY <1>2 DEF DstNotUsed
<1> QED BY <1>1, <1>2, <1>3, CablesAssumption

LEMMA UsedFacts ==
  ASSUME NEW E \in Buildable, NEW M \in SUBSET MsgCables
  PROVE  /\ UsedBlocks(E, M) \subseteq Blocks /\ UsedBlocks(E, M) \in SUBSET Nat
         /\ IsFiniteSet(UsedBlocks(E, M))
         /\ \A e \in E : e.src[1] \in UsedBlocks(E, M) /\ e.dst[1] \in UsedBlocks(E, M)
PROOF
<1>1. UsedBlocks(E, M) \subseteq Blocks
  <2>1. \A e \in E : e.src[1] \in Blocks /\ e.dst[1] \in Blocks
    BY GraphFacts
  <2>2. \A m \in M : m.dst[1] \in Blocks
    BY CablesAssumption
  <2> QED BY <2>1, <2>2 DEF UsedBlocks
<1>2. IsFiniteSet(UsedBlocks(E, M))
  BY <1>1, SignatureAssumption, FS_Subset
<1>3. \A e \in E : e.src[1] \in UsedBlocks(E, M) /\ e.dst[1] \in UsedBlocks(E, M)
  BY DEF UsedBlocks
<1> QED BY <1>1, <1>2, <1>3, SignatureAssumption

LEMMA PortFacts ==
  ASSUME NEW E \in Buildable, NEW b, NEW input \in BOOLEAN
  PROVE  /\ UsedPorts(E, b, input) \in SUBSET Nat /\ IsFiniteSet(UsedPorts(E, b, input))
         /\ Cardinality(UsedPorts(E, b, input)) \in PortNumbers
         /\ \A e \in E : EndOf(e, input)[1] = b => EndOf(e, input)[2] \in UsedPorts(E, b, input)
PROOF
<1> DEFINE C == Connections(E, b, input)
           f == [e \in C |-> EndOf(e, input)[2]]
           P == UsedPorts(E, b, input)
<1>1. \A e \in C : e \in E /\ EndOf(e, input) \in Blocks \X Nat
  BY GraphFacts DEF Connections, EndOf
<1>2. C \subseteq Cables /\ IsFiniteSet(Cables)
  BY <1>1, GraphFacts, CablesAssumption
<1>3. IsFiniteSet(C) /\ Cardinality(C) <= Cardinality(Cables) /\ Cardinality(C) \in Nat
      /\ Cardinality(Cables) \in Nat
  BY <1>2, FS_Subset, FS_CardinalityType
<1>4. P = {f[e] : e \in DOMAIN f} /\ DOMAIN f = C
  BY DEF UsedPorts
<1>5. IsFiniteSet(P) /\ Cardinality(P) <= Cardinality(C) /\ Cardinality(P) \in Nat
  <2> HIDE DEF f, P, C
  <2> QED BY <1>3, <1>4, ImageFacts, FS_CardinalityType
<1>6. P \in SUBSET Nat
  BY <1>1 DEF UsedPorts
<1>7. \A e \in E : EndOf(e, input)[1] = b => EndOf(e, input)[2] \in P
  BY DEF UsedPorts, Connections
<1>8. Cardinality(P) \in PortNumbers
  BY <1>3, <1>5 DEF PortNumbers
<1> QED BY <1>5, <1>6, <1>7, <1>8

LEMMA UpstreamFacts ==
  ASSUME NEW E \in Buildable, NEW b
  PROVE  /\ \A i \in UsedPorts(E, b, TRUE) :
              UpstreamEdge(E, b, i) \in E /\ UpstreamEdge(E, b, i).dst = <<b, i>>
         /\ \A e \in E : \A i : e.dst = <<b, i>> =>
              UpstreamEdge(E, b, i) = e /\ i \in UsedPorts(E, b, TRUE)
PROOF
<1>1. \A i \in UsedPorts(E, b, TRUE) : \E e \in E : e.dst = <<b, i>>
  <2> SUFFICES ASSUME NEW i \in UsedPorts(E, b, TRUE) PROVE \E e \in E : e.dst = <<b, i>>
    OBVIOUS
  <2>1. PICK e \in E : e.dst[1] = b /\ e.dst[2] = i
    BY DEF UsedPorts, Connections, EndOf
  <2>2. e.dst \in Blocks \X Nat
    BY GraphFacts
  <2> QED BY <2>1, <2>2
<1>2. \A i : (\E e \in E : e.dst = <<b, i>>) =>
               UpstreamEdge(E, b, i) \in E /\ UpstreamEdge(E, b, i).dst = <<b, i>>
  BY DEF UpstreamEdge
<1>3. \A e \in E : \A i : e.dst = <<b, i>> =>
        UpstreamEdge(E, b, i) = e /\ i \in UsedPorts(E, b, TRUE)
  BY <1>2, GraphFacts DEF UsedPorts, Connections, EndOf
<1> QED BY <1>1, <1>2, <1>3

LEMMA AcceptedFacts ==
  ASSUME NEW E \in Buildable, NEW M \in SUBSET MsgCables, <<E, M>> \in Accepted,
         NEW b \in UsedBlocks(E, M), NEW input \in BOOLEAN
  PROVE  UsedPorts(E, b, input) = 0..(Cardinality(UsedPorts(E, b, input)) - 1)
PROOF
<1>1. Validates(E, M)
  BY DEF Accepted
<1>2. Contiguous(UsedPorts(E, b, input), Signature[b][Side(input)])
  BY <1>1 DEF Validates
<1>3. Signature[b][Side(input)].min \in Nat
  BY UsedFacts, SignatureAssumption DEF Side
<1> QED BY <1>2, <1>3, PortFacts, ContiguousPorts
-----------------------------------------------------------------------------
(* Wirings.                                                                *)

Lists(T) == UNION {[0..(n - 1) -> T] : n \in Nat}
AnyReader == [buffer : Buffers, at : Int, moved : BOOLEAN]
Details == [ins : Lists(AnyReader \cup {NoReader}), outs : Lists(Buffers), start : Nat]
Writtens == UNION {[B -> Nat] : B \in SUBSET Buffers}
Wirings == [detail : UNION {[B -> Details] : B \in SUBSET Blocks}, written : Writtens,
            most : [Blocks -> [PortNumbers -> Int]], outcome : {"ok", "throws", "crashed"}]

\* a history is no longer than what buffers are rounded up to
HistoriesFit == \A b \in Blocks : Settings[b].history <= Granularity

InPlace(r, wr) == r.at <= wr[r.buffer] /\ wr[r.buffer] - r.at < r.buffer.size
SoundReader(r, wr) == r.buffer \in DOMAIN wr /\ (HistoriesFit /\ ~r.moved => InPlace(r, wr))

\* what was written under the starts up to s
SoundWritten(wr, s) ==
  /\ wr \in Writtens
  /\ \A buffer \in DOMAIN wr : buffer.start \in 1..s /\ buffer.size >= Granularity

SoundOutputs(d, b, wr) ==
  \A p \in DOMAIN d.outs :
    /\ d.outs[p] \in DOMAIN wr /\ d.outs[p].block = b /\ d.outs[p].port = p
    /\ d.outs[p].start = d.start /\ d.outs[p].size >= Settings[b].multiple

SoundDetail(d, b, wr, s) ==
  /\ d \in Details /\ d.start \in 1..s /\ SoundOutputs(d, b, wr)
  /\ \A i \in DOMAIN d.ins : d.ins[i] # NoReader => SoundReader(d.ins[i], wr)

\* a wiring under the starts up to s
SoundWiring(w, s) ==
  /\ w \in Wirings /\ SoundWritten(w.written, s)
  /\ \A b \in DOMAIN w.detail : SoundDetail(w.detail[b], b, w.written, s)

LEMMA ListFacts ==
  ASSUME NEW T, NEW l
  PROVE  l \in Lists(T) <=> \E n \in Nat : l \in [0..(n - 1) -> T]
PROOF
  BY DEF Lists

LEMMA WiringFacts ==
  ASSUME NEW w \in Wirings
  PROVE  /\ w = [detail |-> w.detail, written |-> w.written, most |-> w.most,
                 outcome |-> w.outcome]
         /\ DOMAIN w.detail \subseteq Blocks
         /\ w.detail = [b \in DOMAIN w.detail |-> w.detail[b]]
         /\ \A b \in DOMAIN w.detail : w.detail[b] \in Details
         /\ w.written \in Writtens /\ DOMAIN w.written \subseteq Buffers
         /\ w.written = [buffer \in DOMAIN w.written |-> w.written[buffer]]
         /\ \A buffer \in DOMAIN w.written : w.written[buffer] \in Nat
         /\ w.most \in [Blocks -> [PortNumbers -> Int]]
         /\ w.outcome \in {"ok", "throws", "crashed"}
PROOF
<1>1. /\ w = [detail |-> w.detail, written |-> w.written, most |-> w.most,
              outcome |-> w.outcome]
      /\ w.detail \in UNION {[B -> Details] : B \in SUBSET Blocks} /\ w.written \in Writtens
      /\ w.most \in [Blocks -> [PortNumbers -> Int]]
      /\ w.outcome \in {"ok", "throws", "crashed"}
  BY DEF Wirings
<1>2. PICK B \in SUBSET Blocks : w.detail \in [B -> Details]
  BY <1>1
<1>3. PICK C \in SUBSET Buffers : w.written \in [C -> Nat]
  BY <1>1 DEF Writtens
<1> QED BY <1>1, <1>2, <1>3

LEMMA DetailExcept ==
  ASSUME NEW w \in Wirings, NEW f
  PROVE  [w EXCEPT !.detail = f] =
           [detail |-> f, written |-> w.written, most |-> w.most, outcome |-> w.outcome]
PROOF
  BY DEF Wirings

LEMMA MakesWiring ==
  ASSUME NEW w \in Wirings, NEW B \in SUBSET Blocks, NEW d \in [B -> Details],
         NEW wr \in Writtens, NEW m \in [Blocks -> [PortNumbers -> Int]],
         NEW o \in {"ok", "throws", "crashed"}
  PROVE  [detail |-> d, written |-> wr, most |-> m, outcome |-> o] \in Wirings
PROOF
<1>1. d \in UNION {[C -> Details] : C \in SUBSET Blocks}
  OBVIOUS
<1> QED BY <1>1 DEF Wirings

LEMMA DetailFacts ==
  ASSUME NEW d \in Details
  PROVE  /\ d = [ins |-> d.ins, outs |-> d.outs, start |-> d.start] /\ d.start \in Nat
         /\ \E n \in Nat : d.ins \in [0..(n - 1) -> AnyReader \cup {NoReader}]
         /\ \E n \in Nat : d.outs \in [0..(n - 1) -> Buffers]
         /\ \A i \in DOMAIN d.ins : i \in Nat /\ d.ins[i] \in AnyReader \cup {NoReader}
         /\ \A p \in DOMAIN d.outs : p \in Nat /\ d.outs[p] \in Buffers
         /\ d.ins = [i \in DOMAIN d.ins |-> d.ins[i]]
         /\ d.outs = [p \in DOMAIN d.outs |-> d.outs[p]]
PROOF
<1>1. /\ d = [ins |-> d.ins, outs |-> d.outs, start |-> d.start] /\ d.start \in Nat
      /\ d.ins \in Lists(AnyReader \cup {NoReader}) /\ d.outs \in Lists(Buffers)
  BY DEF Details
<1>2. PICK n \in Nat : d.ins \in [0..(n - 1) -> AnyReader \cup {NoReader}]
  BY <1>1, ListFacts
<1>3. PICK m \in Nat : d.outs \in [0..(m - 1) -> Buffers]
  BY <1>1, ListFacts
<1>4. (\A i \in 0..(n - 1) : i \in Nat) /\ (\A i \in 0..(m - 1) : i \in Nat)
  OBVIOUS
<1> QED BY <1>1, <1>2, <1>3, <1>4

LEMMA ReaderFacts ==
  ASSUME NEW r \in AnyReader
  PROVE  /\ r # NoReader /\ r = [buffer |-> r.buffer, at |-> r.at, moved |-> r.moved]
         /\ r.buffer \in Buffers /\ r.at \in Int /\ r.moved \in BOOLEAN
PROOF
  BY NoReaderAssumption DEF AnyReader

\* a wiring that ends otherwise
LEMMA OutcomeFacts ==
  ASSUME NEW s, NEW w, SoundWiring(w, s), NEW o \in {"ok", "throws", "crashed"}
  PROVE  LET v == [w EXCEPT !.outcome = o]
         IN  /\ SoundWiring(v, s) /\ v.detail = w.detail /\ v.written = w.written
             /\ v.most = w.most /\ v.outcome = o
PROOF
<1> DEFINE v == [w EXCEPT !.outcome = o]
<1>1. w \in Wirings
  BY DEF SoundWiring
<1>2. /\ v = [detail |-> w.detail, written |-> w.written, most |-> w.most, outcome |-> o]
      /\ v.detail = w.detail /\ v.written = w.written /\ v.most = w.most /\ v.outcome = o
  BY <1>1 DEF Wirings
<1>3. v \in Wirings
  <2>1. /\ DOMAIN w.detail \in SUBSET Blocks /\ w.detail \in [DOMAIN w.detail -> Details]
        /\ w.written \in Writtens /\ w.most \in [Blocks -> [PortNumbers -> Int]]
    BY <1>1, WiringFacts
  <2> HIDE DEF v
  <2> QED BY <1>1, <1>2, <2>1, MakesWiring
<1> HIDE DEF v
<1>4. SoundWiring(v, s)
  BY <1>2, <1>3 DEF SoundWiring
<1> QED BY <1>2, <1>4 DEF v

\* v is w with another reader at input i of b
OneInput(w, v, b, i, r) ==
  /\ v.written = w.written /\ v.most = w.most /\ v.outcome = w.outcome
  /\ DOMAIN v.detail = DOMAIN w.detail
  /\ \A c \in DOMAIN w.detail :
       /\ v.detail[c].outs = w.detail[c].outs /\ v.detail[c].start = w.detail[c].start
       /\ DOMAIN v.detail[c].ins = DOMAIN w.detail[c].ins
       /\ \A j \in DOMAIN w.detail[c].ins :
            v.detail[c].ins[j] = IF c = b /\ j = i THEN r ELSE w.detail[c].ins[j]

LEMMA InputFacts ==
  ASSUME NEW s, NEW w, SoundWiring(w, s), NEW b \in DOMAIN w.detail,
         NEW i \in DOMAIN w.detail[b].ins, NEW r \in AnyReader \cup {NoReader},
         r # NoReader => SoundReader(r, w.written)
  PROVE  LET v == [w EXCEPT !.detail[b].ins[i] = r]
         IN  SoundWiring(v, s) /\ OneInput(w, v, b, i, r)
PROOF
<1> DEFINE v == [w EXCEPT !.detail[b].ins[i] = r]
           d == w.detail[b]
           e == [d EXCEPT !.ins = [@ EXCEPT ![i] = r]]
           f == [w.detail EXCEPT ![b] = e]
<1>1. w \in Wirings /\ SoundWritten(w.written, s)
      /\ \A c \in DOMAIN w.detail : SoundDetail(w.detail[c], c, w.written, s)
  BY DEF SoundWiring
<1>2. d \in Details
  BY <1>1, WiringFacts
<1>3. PICK n \in Nat : d.ins \in [0..(n - 1) -> AnyReader \cup {NoReader}]
  BY <1>2, DetailFacts
<1>4. /\ d.outs \in Lists(Buffers) /\ d.start \in Nat
      /\ d = [ins |-> d.ins, outs |-> d.outs, start |-> d.start]
  BY <1>2 DEF Details
<1>5. /\ e.ins \in [0..(n - 1) -> AnyReader \cup {NoReader}] /\ e.outs = d.outs
      /\ e.start = d.start /\ e = [ins |-> e.ins, outs |-> e.outs, start |-> e.start]
      /\ DOMAIN e.ins = DOMAIN d.ins
      /\ \A j \in DOMAIN d.ins : e.ins[j] = IF j = i THEN r ELSE d.ins[j]
  BY <1>3, <1>4
<1>6. e \in Details
  <2>1. e.ins \in Lists(AnyReader \cup {NoReader})
    BY <1>5, ListFacts
  <2> HIDE DEF e, d
  <2> QED BY <1>4, <1>5, <2>1 DEF Details
<1>7. /\ v = [detail |-> f, written |-> w.written, most |-> w.most, outcome |-> w.outcome]
      /\ v.detail = f /\ v.written = w.written /\ v.most = w.most /\ v.outcome = w.outcome
  <2>1. v = [w EXCEPT !.detail = f]
    OBVIOUS
  <2> HIDE DEF f, v
  <2> QED BY <1>1, <2>1 DEF Wirings
<1>8. /\ f \in [DOMAIN w.detail -> Details] /\ DOMAIN w.detail \in SUBSET Blocks
      /\ \A c \in DOMAIN w.detail : f[c] = IF c = b THEN e ELSE w.detail[c]
  <2> HIDE DEF e
  <2> QED BY <1>1, <1>6, WiringFacts
<1> HIDE DEF e, f, v
<1>9. OneInput(w, v, b, i, r)
  BY <1>5, <1>7, <1>8 DEF OneInput
<1>10. v \in Wirings
  BY <1>1, <1>7, <1>8, WiringFacts, MakesWiring
<1>11. ASSUME NEW c \in DOMAIN w.detail PROVE SoundDetail(f[c], c, w.written, s)
  <2>1. CASE c # b
    BY <1>1, <1>8, <2>1
  <2>2. CASE c = b
    <3>1. SoundDetail(d, b, w.written, s)
      BY <1>1
    <3>2. SoundDetail(e, b, w.written, s)
      <4> HIDE DEF d
      <4> QED BY <1>5, <1>6, <3>1 DEF SoundDetail, SoundOutputs
    <3> QED BY <1>8, <2>2, <3>2
  <2> QED BY <2>1, <2>2
<1>12. SoundWiring(v, s)
  BY <1>1, <1>7, <1>8, <1>10, <1>11 DEF SoundWiring
<1> QED BY <1>9, <1>12 DEF v
-----------------------------------------------------------------------------
(* What one step does to a wiring.                                         *)

LEMMA SettingFacts ==
  ASSUME NEW b \in Blocks
  PROVE  /\ Settings[b].history \in Positive /\ Settings[b].multiple \in Positive
         /\ Settings[b].decimation \in Positive
         /\ Settings[b].least \in Int /\ Settings[b].most \in Int
         /\ FixedItems \in Positive /\ Granularity \in Positive /\ Alignment \in Positive
         /\ Signature[b].in.size \in Positive /\ Signature[b].out.size \in Positive
PROOF
<1>1. /\ Settings[b].history \in Positive /\ Settings[b].multiple \in Positive
      /\ Settings[b].decimation \in Positive
      /\ Settings[b].least \in Int /\ Settings[b].most \in Int
      /\ FixedItems \in Positive /\ Granularity \in Positive /\ Alignment \in Positive
  BY SettingsAssumption DEF Positive
<1>2. Signature[b]["in"].size \in Positive /\ Signature[b]["out"].size \in Positive
  BY SignatureAssumption DEF Positive
<1> QED BY <1>1, <1>2

LEMMA AddReaderFacts ==
  ASSUME NEW s, NEW w, SoundWiring(w, s), NEW buffer \in DOMAIN w.written, NEW b \in Blocks
  PROVE  LET r == AddReader(w, buffer, b)
         IN  r \in AnyReader /\ r.buffer = buffer /\ SoundReader(r, w.written)
PROOF
<1> DEFINE r == AddReader(w, buffer, b)
           h == Settings[b].history
           at == w.written[buffer]
<1>1. h \in Int /\ h >= 1 /\ (HistoriesFit => h <= Granularity) /\ Granularity \in Int
  BY SettingFacts DEF HistoriesFit, Positive
<1>2. at \in Nat /\ buffer \in Buffers /\ buffer.size \in Int /\ buffer.size >= Granularity
  <2>1. w \in Wirings /\ SoundWritten(w.written, s)
    BY DEF SoundWiring
  <2>2. at \in Nat /\ buffer \in Buffers /\ buffer.size >= Granularity
    BY <2>1, WiringFacts DEF SoundWritten
  <2> QED BY <2>2 DEF Buffers
<1>3. r = [buffer |-> buffer, at |-> at - (h - 1), moved |-> FALSE]
  BY DEF AddReader
<1> HIDE DEF r, at, h
<1>4. /\ r.buffer = buffer /\ r.at = at - (h - 1) /\ r.moved = FALSE
      /\ r.at \in Int /\ r.at <= at /\ at - r.at = h - 1
  BY <1>1, <1>2, <1>3
<1>5. r \in AnyReader
  BY <1>2, <1>3, <1>4 DEF AnyReader
<1>6. SoundReader(r, w.written)
  BY <1>1, <1>2, <1>4 DEF SoundReader, InPlace, at
<1> QED BY <1>4, <1>5, <1>6 DEF r

\* a new reader, or an exception
LEMMA AttachFacts ==
  ASSUME NEW s, NEW w, SoundWiring(w, s), w.outcome = "ok", NEW b \in DOMAIN w.detail, NEW i,
         NEW E, UpstreamEdge(E, b, i).src[1] \in DOMAIN w.detail
  PROVE  LET v == Attach(E, b, w, i)
             src == UpstreamEdge(E, b, i).src
         IN  /\ SoundWiring(v, s)
             /\ v.outcome = "ok" =>
                  /\ i \in DOMAIN w.detail[b].ins /\ src[2] \in DOMAIN w.detail[src[1]].outs
                  /\ \E r \in AnyReader : /\ r.buffer = w.detail[src[1]].outs[src[2]]
                                          /\ OneInput(w, v, b, i, r)
PROOF
<1> DEFINE v == Attach(E, b, w, i)
           src == UpstreamEdge(E, b, i).src
           buffer == w.detail[src[1]].outs[src[2]]
           r == AddReader(w, buffer, b)
           thrown == [w EXCEPT !.outcome = "throws"]
<1>1. SoundWiring(thrown, s) /\ thrown.outcome = "throws"
  BY OutcomeFacts
<1>2. v = IF src[2] \notin DOMAIN w.detail[src[1]].outs \/ i \notin DOMAIN w.detail[b].ins
            THEN thrown ELSE [w EXCEPT !.detail[b].ins[i] = r]
  BY DEF Attach, SetInput, InputsOf, OutputsOf
<1> HIDE DEF v, thrown
<1>3. CASE src[2] \notin DOMAIN w.detail[src[1]].outs \/ i \notin DOMAIN w.detail[b].ins
  <2>1. v = thrown /\ v.outcome # "ok"
    BY <1>1, <1>2, <1>3
  <2> QED BY <1>1, <2>1 DEF v
<1>4. CASE src[2] \in DOMAIN w.detail[src[1]].outs /\ i \in DOMAIN w.detail[b].ins
  <2>1. buffer \in DOMAIN w.written
    <3>1. SoundDetail(w.detail[src[1]], src[1], w.written, s)
      BY DEF SoundWiring
    <3> QED BY <1>4, <3>1 DEF SoundDetail, SoundOutputs
  <2>2. b \in Blocks
    BY WiringFacts DEF SoundWiring
  <2> HIDE DEF src, buffer, r
  <2>3. r \in AnyReader /\ r.buffer = buffer /\ SoundReader(r, w.written)
    BY <2>1, <2>2, AddReaderFacts DEF r
  <2>4. v = [w EXCEPT !.detail[b].ins[i] = r]
    BY <1>2, <1>4
  <2>5. SoundWiring(v, s) /\ OneInput(w, v, b, i, r)
    BY <1>4, <2>3, <2>4, InputFacts
  <2> QED BY Zenon, <1>4, <2>3, <2>5 DEF v, src, buffer
<1> QED BY <1>3, <1>4

\* an input cleared, or an exception
LEMMA ClearFacts ==
  ASSUME NEW s, NEW w, SoundWiring(w, s), w.outcome = "ok", NEW e, e.dst[1] \in DOMAIN w.detail
  PROVE  LET v == ClearReader(w, e)
         IN  /\ SoundWiring(v, s)
             /\ v.outcome = "ok" => /\ e.dst[2] \in DOMAIN w.detail[e.dst[1]].ins
                                    /\ OneInput(w, v, e.dst[1], e.dst[2], NoReader)
PROOF
<1> DEFINE v == ClearReader(w, e)
           b == e.dst[1]
           i == e.dst[2]
           thrown == [w EXCEPT !.outcome = "throws"]
<1>1. SoundWiring(thrown, s) /\ thrown.outcome = "throws"
  BY OutcomeFacts
<1>2. v = IF i \notin DOMAIN w.detail[b].ins THEN thrown
          ELSE [w EXCEPT !.detail[b].ins[i] = NoReader]
  BY DEF ClearReader, SetInput, InputsOf
<1> HIDE DEF v, thrown, b, i
<1>3. CASE i \notin DOMAIN w.detail[b].ins
  <2>1. v = thrown /\ v.outcome # "ok"
    BY <1>1, <1>2, <1>3
  <2> QED BY <1>1, <2>1 DEF v
<1>4. CASE i \in DOMAIN w.detail[b].ins
  <2>1. v = [w EXCEPT !.detail[b].ins[i] = NoReader] /\ b \in DOMAIN w.detail
    BY <1>2, <1>4 DEF b
  <2>2. SoundWiring(v, s) /\ OneInput(w, v, b, i, NoReader)
    BY Zenon, <1>4, <2>1, InputFacts
  <2> QED BY <1>4, <2>2 DEF v, b, i
<1> QED BY <1>3, <1>4

\* an input rewired: its reader is kept when it reads the right buffer already
LEMMA RewireFacts ==
  ASSUME NEW s, NEW w, SoundWiring(w, s), w.outcome = "ok", NEW b \in DOMAIN w.detail, NEW i,
         NEW E, UpstreamEdge(E, b, i).src[1] \in DOMAIN w.detail
  PROVE  LET v == Rewire(E, b, w, i)
             src == UpstreamEdge(E, b, i).src
             Right(r) == r # NoReader /\ r.buffer = w.detail[src[1]].outs[src[2]]
         IN  /\ SoundWiring(v, s)
             /\ v.outcome = "ok" =>
                  /\ i \in DOMAIN w.detail[b].ins /\ src[2] \in DOMAIN w.detail[src[1]].outs
                  /\ IF Right(w.detail[b].ins[i]) THEN v = w
                     ELSE \E r \in AnyReader : Right(r) /\ OneInput(w, v, b, i, r)
PROOF
<1> DEFINE v == Rewire(E, b, w, i)
           src == UpstreamEdge(E, b, i).src
           Right(r) == r # NoReader /\ r.buffer = w.detail[src[1]].outs[src[2]]
           thrown == [w EXCEPT !.outcome = "throws"]
<1>1. SoundWiring(thrown, s) /\ thrown.outcome = "throws"
  BY OutcomeFacts
<1>2. CASE src[2] \notin DOMAIN w.detail[src[1]].outs
  <2>1. v = thrown
    BY <1>2 DEF Rewire
  <2> HIDE DEF v, thrown
  <2>2. v.outcome # "ok"
    BY <1>1, <2>1
  <2> QED BY <1>1, <2>1, <2>2 DEF v
<1>3. CASE /\ src[2] \in DOMAIN w.detail[src[1]].outs
           /\ i \in DOMAIN w.detail[b].ins /\ Right(w.detail[b].ins[i])
  <2>1. v = w
    BY Zenon, <1>3 DEF Rewire, InputsOf
  <2> HIDE DEF v
  <2> QED BY <1>3, <2>1 DEF v
<1>4. CASE /\ src[2] \in DOMAIN w.detail[src[1]].outs
           /\ ~(i \in DOMAIN w.detail[b].ins /\ Right(w.detail[b].ins[i]))
  <2>1. v = Attach(E, b, w, i)
    BY <1>4 DEF Rewire, InputsOf
  <2> DEFINE a == Attach(E, b, w, i)
  <2>2. /\ SoundWiring(a, s)
        /\ a.outcome = "ok" =>
             /\ i \in DOMAIN w.detail[b].ins /\ src[2] \in DOMAIN w.detail[src[1]].outs
             /\ \E r \in AnyReader : /\ r.buffer = w.detail[src[1]].outs[src[2]]
                                     /\ OneInput(w, a, b, i, r)
    BY AttachFacts
  <2> HIDE DEF v, a, src
  <2>3. v.outcome = "ok" => \E r \in AnyReader : Right(r) /\ OneInput(w, v, b, i, r)
    BY <2>1, <2>2, ReaderFacts DEF a
  <2> QED BY Zenon, <1>4, <2>1, <2>2, <2>3 DEF v, a, src
<1> QED BY Zenon, <1>2, <1>3, <1>4

\* moving on never goes back
LEMMA MovedOnFacts ==
  ASSUME NEW index \in Nat, NEW itemsize \in Positive
  PROVE  MovedOn(index, itemsize) \in Int /\ MovedOn(index, itemsize) >= index
PROOF
<1> DEFINE off == (index * itemsize) % Alignment
           q == off \div itemsize
<1>1. Alignment \in Positive
  BY SettingsAssumption DEF Positive
<1>2. index * itemsize \in Int
  BY DEF Positive
<1>3. off \in Int /\ 0 <= off /\ off < Alignment
  <2> DEFINE x == index * itemsize
  <2> HIDE DEF x
  <2>1. x \in Int
    BY <1>2 DEF x
  <2>2. x % Alignment \in Int /\ 0 <= x % Alignment /\ x % Alignment < Alignment
    BY <1>1, <2>1, Z3 DEF Positive
  <2> QED BY <2>2 DEF x
<1> HIDE DEF off
<1>4. q \in Int /\ q <= off
  <2>1. q \in Int /\ off % itemsize \in Int /\ 0 <= off % itemsize
        /\ off = q * itemsize + (off % itemsize)
    BY <1>3, Quotient
  <2> HIDE DEF q
  <2>2. CASE q <= 0
    BY <1>3, <2>1, <2>2
  <2>3. CASE q >= 1
    <3>1. q * itemsize >= q
      BY <2>1, <2>3, Z3 DEF Positive
    <3>2. q * itemsize \in Int
      BY <2>1 DEF Positive
    <3> QED BY <1>3, <2>1, <3>1, <3>2
  <2> QED BY <2>1, <2>2, <2>3
<1>5. MovedOn(index, itemsize) = index + Alignment - q
  BY DEF MovedOn, Misaligned, off
<1> HIDE DEF q
<1> QED BY <1>1, <1>3, <1>4, <1>5 DEF Positive

LEMMA SizeFacts ==
  ASSUME NEW s, NEW wr, SoundWritten(wr, s), NEW buffer \in DOMAIN wr
  PROVE  /\ buffer \in Buffers /\ buffer.size \in Positive /\ wr[buffer] \in Nat
         /\ \A at \in Int : at % buffer.size \in Nat
PROOF
<1>1. wr \in Writtens /\ buffer.size >= Granularity
  BY DEF SoundWritten
<1>2. PICK B \in SUBSET Buffers : wr \in [B -> Nat]
  BY <1>1 DEF Writtens
<1>3. buffer \in Buffers /\ wr[buffer] \in Nat
  BY <1>2
<1>4. buffer.size \in Positive
  <2>1. Granularity \in Nat \ {0}
    BY SettingsAssumption
  <2>2. buffer.size \in Nat
    BY <1>3 DEF Buffers
  <2> QED BY <1>1, <2>1, <2>2 DEF Positive
<1>5. ASSUME NEW at \in Int PROVE at % buffer.size \in Nat
  <2> DEFINE n == buffer.size
  <2>1. n \in Positive
    BY <1>4
  <2> HIDE DEF n
  <2>2. at % n \in Int /\ 0 <= at % n
    BY <2>1, Quotient
  <2> QED BY <2>2 DEF n
<1> QED BY <1>3, <1>4, <1>5

\* a reader and what it is after alignment
Alias(r, q) == IF r = NoReader THEN q = NoReader ELSE q # NoReader /\ q.buffer = r.buffer

SameShape(w, v) ==
  /\ DOMAIN v.detail = DOMAIN w.detail
  /\ \A c \in DOMAIN w.detail :
       /\ v.detail[c].outs = w.detail[c].outs /\ v.detail[c].start = w.detail[c].start
       /\ DOMAIN v.detail[c].ins = DOMAIN w.detail[c].ins

\* v is w with some of the readers moved on that b has or that read from b
MovedAround(w, v, b) ==
  /\ SameShape(w, v)
  /\ \A c \in DOMAIN w.detail : \A j \in DOMAIN w.detail[c].ins :
       LET r == w.detail[c].ins[j]
           q == v.detail[c].ins[j]
       IN  /\ Alias(r, q)
           /\ c # b /\ (r # NoReader => r.buffer.block # b) => q = r

LEMMA MovedNowhere ==
  ASSUME NEW w, NEW b
  PROVE  MovedAround(w, w, b)
PROOF
  BY DEF MovedAround, SameShape, Alias

LEMMA MovedTwice ==
  ASSUME NEW w, NEW v, NEW u, NEW b, MovedAround(w, v, b), MovedAround(v, u, b)
  PROVE  MovedAround(w, u, b)
PROOF
  BY DEF MovedAround, SameShape, Alias

LEMMA OneInputMoves ==
  ASSUME NEW w, NEW v, NEW b, NEW i, NEW r, OneInput(w, v, b, i, r),
         i \in DOMAIN w.detail[b].ins => Alias(w.detail[b].ins[i], r)
  PROVE  MovedAround(w, v, b)
PROOF
  BY DEF OneInput, MovedAround, SameShape, Alias

LEMMA AlignInputFacts ==
  ASSUME NEW s, NEW w, SoundWiring(w, s), w.outcome = "ok", NEW b \in DOMAIN w.detail,
         NEW i \in DOMAIN w.detail[b].ins
  PROVE  LET v == AlignInput(b, w, i)
         IN  SoundWiring(v, s) /\ (v.outcome = "ok" => MovedAround(w, v, b))
PROOF
<1> DEFINE v == AlignInput(b, w, i)
           r == w.detail[b].ins[i]
           index == r.at % r.buffer.size
           itemsize == Signature[b].in.size
           q == [r EXCEPT !.at = r.at - index + MovedOn(index, itemsize), !.moved = TRUE]
<1>1. CASE r = NoReader
  <2> DEFINE x == [w EXCEPT !.outcome = "crashed"]
  <2>1. SoundWiring(x, s) /\ x.outcome = "crashed"
    BY OutcomeFacts
  <2>2. v = x
    BY <1>1 DEF AlignInput
  <2> HIDE DEF x, v
  <2> QED BY <2>1, <2>2 DEF v
<1>2. CASE r # NoReader
  <2>1. v = w \/ v = [w EXCEPT !.detail[b].ins[i] = q]
    BY Zenon, <1>2 DEF AlignInput
  <2>2. /\ SoundDetail(w.detail[b], b, w.written, s) /\ SoundWritten(w.written, s)
        /\ b \in Blocks
    BY WiringFacts DEF SoundWiring
  <2>3. r \in AnyReader /\ r.buffer \in DOMAIN w.written
    BY <1>2, <2>2, DetailFacts DEF SoundDetail, SoundReader
  <2>4. index \in Nat /\ r.at \in Int /\ itemsize \in Positive
    BY <2>2, <2>3, ReaderFacts, SizeFacts, SettingFacts
  <2>5. r.at - index + MovedOn(index, itemsize) \in Int
    <3> HIDE DEF index, itemsize, r
    <3>1. MovedOn(index, itemsize) \in Int
      BY <2>4, MovedOnFacts
    <3> QED BY <2>4, <3>1
  <2>6. q \in AnyReader /\ q.buffer = r.buffer /\ q.moved = TRUE
    <3> DEFINE at == r.at - index + MovedOn(index, itemsize)
    <3>1. at \in Int
      BY <2>5
    <3> HIDE DEF at, r
    <3>2. q = [r EXCEPT !.at = at, !.moved = TRUE]
      BY DEF at
    <3> QED BY <2>3, <3>1, <3>2 DEF AnyReader
  <2> HIDE DEF q, v
  <2>7. SoundReader(q, w.written)
    BY <2>3, <2>6 DEF SoundReader
  <2> DEFINE u == [w EXCEPT !.detail[b].ins[i] = q]
  <2>8. SoundWiring(u, s) /\ OneInput(w, u, b, i, q)
    BY <2>6, <2>7, InputFacts
  <2> HIDE DEF u
  <2>9. MovedAround(w, u, b)
    BY <1>2, <2>6, <2>8, OneInputMoves, ReaderFacts DEF Alias
  <2> QED BY <2>1, <2>8, <2>9, MovedNowhere DEF u, v
<1> QED BY <1>1, <1>2

LEMMA AlignOutputFacts ==
  ASSUME NEW s, NEW w, SoundWiring(w, s), w.outcome = "ok", NEW b \in DOMAIN w.detail,
         NEW p \in DOMAIN w.detail[b].outs
  PROVE  LET v == AlignOutput(b, w, p)
         IN  SoundWiring(v, s) /\ v.outcome = "ok" /\ MovedAround(w, v, b)
PROOF
<1> DEFINE v == AlignOutput(b, w, p)
           buffer == w.detail[b].outs[p]
           at == w.written[buffer]
           index == at % buffer.size
           itemsize == Signature[b].out.size
           next == at - index + MovedOn(index, itemsize)
           wr == [w.written EXCEPT ![buffer] = next]
           moving(d) == Passed(d, buffer)
           f == [c \in DOMAIN w.detail |-> moving(w.detail[c])]
<1>1. /\ w \in Wirings /\ SoundWritten(w.written, s) /\ b \in Blocks
      /\ \A c \in DOMAIN w.detail : SoundDetail(w.detail[c], c, w.written, s)
  BY WiringFacts DEF SoundWiring
<1>2. /\ buffer \in DOMAIN w.written /\ buffer.block = b
  BY <1>1 DEF SoundDetail, SoundOutputs
<1>3. at \in Nat /\ index \in Nat /\ itemsize \in Positive
  BY <1>1, <1>2, SizeFacts, SettingFacts
<1>4. next \in Nat
  <2> HIDE DEF at, index, itemsize
  <2>1. MovedOn(index, itemsize) \in Int /\ MovedOn(index, itemsize) >= index
    BY <1>3, MovedOnFacts
  <2> QED BY <1>3, <2>1
<1>5. /\ v = w \/ v = [detail |-> f, written |-> wr, most |-> w.most, outcome |-> w.outcome]
  <2> DEFINE u == [w EXCEPT !.written = wr, !.detail = f]
  <2>1. v = w \/ v = u
    BY DEF AlignOutput
  <2> HIDE DEF f, wr, v
  <2>2. u = [detail |-> f, written |-> wr, most |-> w.most, outcome |-> w.outcome]
    <3> DEFINE x == [w EXCEPT !.written = wr]
    <3>1. x = [detail |-> w.detail, written |-> wr, most |-> w.most, outcome |-> w.outcome]
      BY <1>1 DEF Wirings
    <3>2. u = [x EXCEPT !.detail = f]
      OBVIOUS
    <3> HIDE DEF x
    <3> QED BY <3>1, <3>2
  <2> QED BY Zenon, <2>1, <2>2
<1> HIDE DEF next, at, index, itemsize, v
<1>6. /\ wr \in Writtens /\ DOMAIN wr = DOMAIN w.written
      /\ \A x \in DOMAIN w.written : wr[x] = IF x = buffer THEN next ELSE w.written[x]
  <2>1. w.written \in Writtens
    BY <1>1, WiringFacts
  <2>2. PICK B \in SUBSET Buffers : w.written \in [B -> Nat]
    BY <2>1 DEF Writtens
  <2>3. wr \in [B -> Nat]
    BY <1>4, <2>2
  <2> QED BY <2>2, <2>3 DEF Writtens
<1> HIDE DEF wr
<1>7. SoundWritten(wr, s)
  BY <1>1, <1>6 DEF SoundWritten
<1> HIDE DEF buffer
<1>8. ASSUME NEW c \in DOMAIN w.detail
      PROVE  LET d == w.detail[c]
                 e == moving(d)
             IN  /\ SoundDetail(e, c, wr, s) /\ e \in Details
                 /\ e.outs = d.outs /\ e.start = d.start /\ DOMAIN e.ins = DOMAIN d.ins
                 /\ \A j \in DOMAIN d.ins :
                      /\ Alias(d.ins[j], e.ins[j])
                      /\ e.ins[j] # d.ins[j] => d.ins[j] # NoReader /\ d.ins[j].buffer = buffer
  <2> DEFINE d == w.detail[c]
             e == moving(d)
  <2>1. d \in Details /\ SoundDetail(d, c, w.written, s)
    BY <1>1, WiringFacts
  <2>2. PICK n \in Nat : d.ins \in [0..(n - 1) -> AnyReader \cup {NoReader}]
    BY <2>1, DetailFacts
  <2> DEFINE ins == Passed(d, buffer).ins
             moved(r) == [r EXCEPT !.moved = TRUE]
  <2> DEFINE list == [j \in DOMAIN d.ins |-> IF d.ins[j] # NoReader /\ d.ins[j].buffer = buffer
                                               THEN moved(d.ins[j]) ELSE d.ins[j]]
  <2>a. /\ e = [ins |-> list, outs |-> d.outs, start |-> d.start] /\ ins = list
    <3>1. e = [d EXCEPT !.ins = list]
      BY DEF Passed
    <3> HIDE DEF d, list, e
    <3>2. e = [ins |-> list, outs |-> d.outs, start |-> d.start]
      BY <2>1, <3>1 DEF Details
    <3> QED BY <3>2 DEF e
  <2>3. \A j \in DOMAIN d.ins :
          /\ ins[j] = IF d.ins[j] # NoReader /\ d.ins[j].buffer = buffer
                        THEN moved(d.ins[j]) ELSE d.ins[j]
          /\ d.ins[j] \in AnyReader \cup {NoReader}
    BY <2>2, <2>a
  <2>4. \A r \in AnyReader :
          /\ moved(r) \in AnyReader /\ moved(r).buffer = r.buffer
          /\ moved(r).moved = TRUE /\ moved(r) # NoReader
    BY NoReaderAssumption DEF AnyReader
  <2> HIDE DEF moved
  <2>5. DOMAIN ins = DOMAIN d.ins /\ ins \in [0..(n - 1) -> AnyReader \cup {NoReader}]
    <3>1. \A j \in 0..(n - 1) : ins[j] \in AnyReader \cup {NoReader}
      BY <2>2, <2>3, <2>4
    <3> QED BY <2>2, <2>a, <3>1
  <2> HIDE DEF ins, list
  <2>6. /\ e = [ins |-> ins, outs |-> d.outs, start |-> d.start]
        /\ e.ins = ins /\ e.outs = d.outs /\ e.start = d.start
    <3> HIDE DEF d, e
    <3> QED BY <2>a
  <2>7. e \in Details
    <3>1. ins \in Lists(AnyReader \cup {NoReader})
      BY <2>5, ListFacts
    <3> HIDE DEF d, e
    <3> QED BY <2>1, <2>6, <3>1 DEF Details
  <2> HIDE DEF d, e
  <2>8. \A j \in DOMAIN d.ins :
          /\ Alias(d.ins[j], e.ins[j])
          /\ e.ins[j] # d.ins[j] => d.ins[j] # NoReader /\ d.ins[j].buffer = buffer
    BY <2>3, <2>4, <2>6 DEF Alias
  <2>9. ASSUME NEW j \in DOMAIN e.ins, e.ins[j] # NoReader PROVE SoundReader(e.ins[j], wr)
    <3>1. j \in DOMAIN d.ins /\ d.ins[j] # NoReader /\ e.ins[j].buffer = d.ins[j].buffer
      BY <2>5, <2>6, <2>8, <2>9 DEF Alias
    <3>2. SoundReader(d.ins[j], w.written) /\ d.ins[j].buffer \in DOMAIN w.written
      BY <2>1, <3>1 DEF SoundDetail, SoundReader
    <3>3. CASE d.ins[j].buffer = buffer
      <4>1. e.ins[j].moved = TRUE
        BY <2>3, <2>4, <2>6, <3>1, <3>3
      <4> QED BY <1>6, <3>1, <3>2, <4>1 DEF SoundReader
    <3>4. CASE d.ins[j].buffer # buffer
      <4>1. e.ins[j] = d.ins[j] /\ wr[d.ins[j].buffer] = w.written[d.ins[j].buffer]
        BY <1>6, <2>3, <2>6, <3>1, <3>2, <3>4
      <4> QED BY <1>6, <3>2, <4>1 DEF SoundReader, InPlace
    <3> QED BY <3>3, <3>4
  <2>10. SoundDetail(e, c, wr, s)
    BY <1>6, <2>1, <2>6, <2>7, <2>9 DEF SoundDetail, SoundOutputs
  <2> QED BY <2>5, <2>6, <2>7, <2>8, <2>10 DEF d, e
<1>9. CASE v = [detail |-> f, written |-> wr, most |-> w.most, outcome |-> w.outcome]
  <2>1. /\ v.detail = f /\ v.written = wr /\ v.most = w.most /\ v.outcome = "ok"
    BY <1>9
  <2>2. \A c \in DOMAIN w.detail : f[c] = moving(w.detail[c])
    OBVIOUS
  <2>3. f \in [DOMAIN w.detail -> Details] /\ DOMAIN w.detail \in SUBSET Blocks
    BY <1>1, <1>8, WiringFacts
  <2> HIDE DEF moving, f
  <2>4. v \in Wirings
    BY <1>1, <1>6, <1>9, <2>3, WiringFacts, MakesWiring
  <2>5. SoundWiring(v, s)
    BY <1>7, <1>8, <2>1, <2>2, <2>3, <2>4 DEF SoundWiring
  <2>6. MovedAround(w, v, b)
    BY <1>2, <1>8, <2>1, <2>2, <2>3 DEF MovedAround, SameShape
  <2> QED BY <2>1, <2>5, <2>6 DEF v
<1>10. CASE v = w
  BY <1>10, MovedNowhere DEF v
<1> QED BY <1>5, <1>9, <1>10

LEMMA NeededFacts ==
  ASSUME NEW w \in Wirings, NEW E \in Buildable, NEW b \in Blocks, NEW p \in PortNumbers
  PROVE  LET n == NeededItems(w, E, b, p)
         IN  n = 0 \/ (n \in Positive /\ n >= Settings[b].multiple)
PROOF
<1> DEFINE m == Settings[b].multiple
           least == Settings[b].least
           most == w.most[b][p]
           twice == Max({FixedItems, 2 * m})
           limited == IF most > 0 THEN WholeMultiples(Min({twice, most}), m)
                      ELSE IF least > 0 THEN WholeMultiples(Max({twice, least}), m)
                      ELSE twice
           down == DownstreamOfPort(E, <<b, p>>)
           wanted(d) == 2 * (Settings[d].decimation * Settings[d].multiple + Settings[d].history)
           wants == {wanted(d) : d \in down}
           n == NeededItems(w, E, b, p)
<1>1. n = IF limited < 1 THEN 0 ELSE Max({limited} \cup wants)
  BY DEF NeededItems
<1>2. /\ m \in Positive /\ m \in Int /\ least \in Int /\ FixedItems \in Int /\ 2 * m \in Int
      /\ 2 * m >= m /\ most \in Int
  <2>1. m \in Positive /\ least \in Int /\ FixedItems \in Positive
    BY SettingFacts
  <2>2. most \in Int
    <3>1. w.most \in [Blocks -> [PortNumbers -> Int]]
      BY WiringFacts
    <3> QED BY <3>1
  <2> HIDE DEF m, least, most
  <2> QED BY <2>1, <2>2 DEF Positive
<1>3. twice \in Int /\ twice >= m
  <2> DEFINE dd == 2 * m
  <2>1. dd \in Int /\ dd >= m
    BY <1>2
  <2> HIDE DEF dd
  <2>2. Max({FixedItems, dd}) \in {FixedItems, dd} /\ Max({FixedItems, dd}) >= dd
    BY <1>2, <2>1, PairFacts
  <2>3. twice \in Int /\ twice >= dd
    BY <1>2, <2>1, <2>2 DEF dd
  <2> HIDE DEF twice
  <2> QED BY <1>2, <2>1, <2>3
<1> HIDE DEF twice
<1>4. limited \in Int /\ (limited >= 1 => limited >= m)
  <2> HIDE DEF m, most, least
  <2>1. Min({twice, most}) \in Int /\ Max({twice, least}) \in Int
    BY <1>2, <1>3, PairFacts
  <2> QED BY <1>2, <1>3, <2>1, MultiplesFacts
<1> HIDE DEF limited
<1>5. IsFiniteSet(wants) /\ wants \subseteq Nat
  <2> DEFINE C == {x \in E : x.src = <<b, p>>}
             f == [e \in C |-> e.dst[1]]
             g == [d \in down |-> wanted(d)]
  <2>1. E \subseteq Cables /\ \A e \in E : e.dst \in Blocks \X Nat
    BY GraphFacts
  <2>2. IsFiniteSet(C)
    BY <2>1, CablesAssumption, FS_Subset
  <2>3. down = {f[e] : e \in DOMAIN f} /\ DOMAIN f = C
    BY DEF DownstreamOfPort
  <2>4. IsFiniteSet(down)
    <3> HIDE DEF f, C, down
    <3> QED BY <2>2, <2>3, ImageFacts
  <2>5. down \subseteq Blocks
    BY <2>1 DEF DownstreamOfPort
  <2>6. \A d \in Blocks : wanted(d) \in Nat
    <3> SUFFICES ASSUME NEW d \in Blocks PROVE wanted(d) \in Nat
      OBVIOUS
    <3>1. /\ Settings[d].decimation \in Nat /\ Settings[d].multiple \in Nat
          /\ Settings[d].history \in Nat
      BY SettingFacts DEF Positive
    <3> QED BY <3>1
  <2>7. wants = {g[d] : d \in DOMAIN g} /\ DOMAIN g = down
    OBVIOUS
  <2>8. IsFiniteSet(wants)
    <3> HIDE DEF g, down, wants
    <3> QED BY <2>4, <2>7, ImageFacts
  <2> HIDE DEF wanted, down
  <2> QED BY <2>5, <2>6, <2>8
<1> HIDE DEF wants
<1>6. CASE limited < 1
  BY <1>1, <1>6
<1>7. CASE limited >= 1
  <2> DEFINE S == {limited} \cup wants
  <2>1. S \in SUBSET Nat /\ IsFiniteSet(S) /\ S # {} /\ limited \in S
    <3>1. IsFiniteSet(wants \cup {limited})
      BY <1>5, FS_AddElement
    <3>2. wants \cup {limited} = S
      OBVIOUS
    <3> QED BY <1>4, <1>5, <1>7, <3>1, <3>2
  <2> HIDE DEF S
  <2>2. Max(S) \in Nat /\ Max(S) >= limited
    BY <2>1, MaxFacts
  <2>3. n = Max(S)
    BY <1>1, <1>4, <1>7 DEF S
  <2> HIDE DEF n, m
  <2>4. n \in Positive /\ n >= m
    BY <1>2, <1>4, <1>7, <2>2, <2>3 DEF Positive
  <2> QED BY <2>4 DEF n, m
<1> QED BY <1>4, <1>6, <1>7

\* w and v differ at b alone, where v has a buffer more, for port p
OutputAdded(w, v, b, p) ==
  /\ DOMAIN v.detail = DOMAIN w.detail
  /\ \A c \in DOMAIN w.detail : c # b => v.detail[c] = w.detail[c]
  /\ v.detail[b].ins = w.detail[b].ins /\ v.detail[b].start = w.detail[b].start
  /\ DOMAIN v.detail[b].outs = 0..p
Longer(wr, longer) ==
  /\ DOMAIN wr \subseteq DOMAIN longer
  /\ \A buffer \in DOMAIN wr : longer[buffer] = wr[buffer]

LEMMA AllocateOutputFacts ==
  ASSUME NEW s \in Nat, NEW w, SoundWiring(w, s), w.outcome = "ok", NEW E \in Buildable,
         NEW b \in DOMAIN w.detail, NEW p \in PortNumbers, DOMAIN w.detail[b].outs = 0..(p - 1),
         NEW start, start = w.detail[b].start
  PROVE  LET v == AllocateOutput(E, b, start, w, p)
         IN  /\ SoundWiring(v, s) /\ Longer(w.written, v.written)
             /\ v.outcome = "ok" => OutputAdded(w, v, b, p)
PROOF
<1> DEFINE v == AllocateOutput(E, b, start, w, p)
           n == NeededItems(w, E, b, p)
           size == RoundUp(n, Granularity)
           buffer == [block |-> b, port |-> p, start |-> start, size |-> size]
           d == w.detail[b]
           outs == With(d.outs, p, buffer)
           e == [d EXCEPT !.outs = outs]
           f == [w.detail EXCEPT ![b] = e]
           wr == Opened(w.written, buffer)
           m == [w.most EXCEPT ![b][p] = size]
           thrown == [w EXCEPT !.outcome = "throws"]
<1>1. /\ w \in Wirings /\ SoundWritten(w.written, s) /\ b \in Blocks
      /\ \A c \in DOMAIN w.detail : SoundDetail(w.detail[c], c, w.written, s)
  BY WiringFacts DEF SoundWiring
<1>2. SoundWiring(thrown, s) /\ thrown.outcome = "throws" /\ thrown.written = w.written
  BY OutcomeFacts
<1>3. v = IF n = 0 THEN thrown
          ELSE [w EXCEPT !.detail[b].outs = outs, !.written = wr, !.most[b][p] = size]
  BY DEF AllocateOutput
<1>4. n = 0 \/ (n \in Positive /\ n >= Settings[b].multiple)
  BY <1>1, NeededFacts
<1> HIDE DEF n, thrown
<1>5. CASE n = 0
  <2>1. v = thrown
    BY <1>3, <1>5
  <2> HIDE DEF v
  <2> QED BY <1>2, <2>1 DEF v, Longer
<1>6. CASE n # 0
  <2>1. size \in Nat /\ size >= Settings[b].multiple /\ size >= Granularity
    <3>1. Granularity \in Positive /\ Settings[b].multiple \in Positive
      BY <1>1, SettingFacts
    <3>2. size \in Nat /\ size >= n /\ size >= Granularity
      BY <1>4, <1>6, <3>1, RoundUpFacts
    <3> HIDE DEF size
    <3> QED BY <1>4, <1>6, <3>1, <3>2 DEF Positive
  <2> HIDE DEF size
  <2>2. d \in Details /\ SoundDetail(d, b, w.written, s) /\ p \in Nat
    <3>1. p \in Nat
      BY DEF PortNumbers
    <3> QED BY <1>1, <3>1, WiringFacts
  <2>3. /\ buffer \in Buffers /\ buffer.start \in 1..s /\ buffer.size >= Granularity
        /\ buffer.size >= Settings[b].multiple /\ buffer.block = b /\ buffer.port = p
        /\ buffer.start = start
    <3>1. start \in 1..s /\ start \in Nat
      BY <2>2, DetailFacts DEF SoundDetail
    <3> QED BY <1>1, <2>1, <2>2, <3>1 DEF Buffers
  <2> HIDE DEF buffer
  <2>4. /\ wr \in Writtens /\ DOMAIN wr = DOMAIN w.written \cup {buffer}
        /\ \A x \in DOMAIN w.written : wr[x] = w.written[x]
    <3>1. PICK B \in SUBSET Buffers : w.written \in [B -> Nat]
      BY <1>1, WiringFacts DEF Writtens
    <3>2. wr = [x \in B \cup {buffer} |-> IF x \in B THEN w.written[x] ELSE 0]
      BY <3>1 DEF Opened
    <3> HIDE DEF wr
    <3>3. wr \in [B \cup {buffer} -> Nat] /\ B \cup {buffer} \in SUBSET Buffers
      BY <2>3, <3>1, <3>2
    <3> QED BY <3>1, <3>2, <3>3 DEF Writtens
  <2> HIDE DEF wr
  <2>5. SoundWritten(wr, s)
    BY <1>1, <2>3, <2>4 DEF SoundWritten
  <2>6. /\ outs \in Lists(Buffers) /\ DOMAIN outs = 0..p
        /\ \A k \in 0..p : outs[k] = IF k \in DOMAIN d.outs THEN d.outs[k] ELSE buffer
        /\ \A k \in 0..p : k \notin DOMAIN d.outs => k = p
    <3>1. PICK k \in Nat : d.outs \in [0..(k - 1) -> Buffers]
      BY <2>2, DetailFacts
    <3>2. DOMAIN d.outs = 0..(p - 1) /\ (0..(p - 1)) \cup {p} = 0..p
      BY <2>2
    <3>3. outs = [x \in 0..p |-> IF x \in DOMAIN d.outs THEN d.outs[x] ELSE buffer]
      <4>1. outs = [x \in (0..(p - 1)) \cup {p} |-> IF x = p THEN buffer ELSE d.outs[x]]
        BY <3>2 DEF With
      <4>2. \A x \in 0..p : x = p <=> x \notin 0..(p - 1)
        BY <2>2
      <4> HIDE DEF outs, d
      <4> QED BY <3>2, <4>1, <4>2
    <3>4. \A x \in DOMAIN d.outs : d.outs[x] \in Buffers
      BY <3>1
    <3> HIDE DEF outs, d
    <3>5. outs \in [0..p -> Buffers]
      BY <2>3, <3>3, <3>4
    <3>6. outs \in [0..((p + 1) - 1) -> Buffers] /\ p + 1 \in Nat
      BY <2>2, <3>5
    <3>7. outs \in Lists(Buffers)
      BY <3>6, ListFacts
    <3>8. \A x \in 0..p : x \notin DOMAIN d.outs => x = p
      BY <2>2, <3>2
    <3> QED BY <3>3, <3>7, <3>8
  <2> HIDE DEF outs
  <2>7. /\ e = [ins |-> d.ins, outs |-> outs, start |-> d.start]
        /\ e \in Details /\ e.ins = d.ins /\ e.outs = outs /\ e.start = d.start
    <3> HIDE DEF d
    <3>1. e = [ins |-> d.ins, outs |-> outs, start |-> d.start]
      BY <2>2 DEF Details
    <3> HIDE DEF e
    <3> QED BY <2>2, <2>6, <3>1 DEF Details
  <2> HIDE DEF e
  <2>8. /\ f \in [DOMAIN w.detail -> Details] /\ DOMAIN w.detail \in SUBSET Blocks
        /\ \A c \in DOMAIN w.detail : f[c] = IF c = b THEN e ELSE w.detail[c]
    BY <1>1, <2>7, WiringFacts
  <2>9. m \in [Blocks -> [PortNumbers -> Int]]
    <3>1. w.most \in [Blocks -> [PortNumbers -> Int]]
      BY <1>1, WiringFacts
    <3>2. w.most[b] \in [PortNumbers -> Int]
      BY <1>1, <3>1
    <3>3. [w.most[b] EXCEPT ![p] = size] \in [PortNumbers -> Int]
      BY <2>1, <3>2
    <3> QED BY <3>1, <3>3
  <2>10. v = [detail |-> f, written |-> wr, most |-> m, outcome |-> "ok"]
    <3> DEFINE u1 == [w EXCEPT !.detail = f]
               u2 == [u1 EXCEPT !.written = wr]
               u3 == [u2 EXCEPT !.most = m]
    <3>1. v = u3
      BY <1>3, <1>6 DEF e
    <3> HIDE DEF f, m, v
    <3>2. u1 = [detail |-> f, written |-> w.written, most |-> w.most, outcome |-> w.outcome]
      BY <1>1, DetailExcept
    <3> HIDE DEF u1
    <3>3. u2 = [detail |-> f, written |-> wr, most |-> w.most, outcome |-> w.outcome]
      BY <3>2
    <3> HIDE DEF u2
    <3>4. u3 = [detail |-> f, written |-> wr, most |-> m, outcome |-> w.outcome]
      BY <3>3
    <3> HIDE DEF u3
    <3> QED BY <3>1, <3>4
  <2> HIDE DEF f, m, v
  <2>11. v \in Wirings
    BY <1>1, <2>4, <2>8, <2>9, <2>10, MakesWiring
  <2>12. ASSUME NEW c \in DOMAIN w.detail PROVE SoundDetail(f[c], c, wr, s)
    <3>1. \A r : SoundReader(r, w.written) => SoundReader(r, wr)
      BY <2>4 DEF SoundReader, InPlace
    <3>2. CASE c # b
      <4>1. SoundDetail(w.detail[c], c, w.written, s) /\ f[c] = w.detail[c]
        BY <1>1, <2>8, <3>2
      <4> QED BY <2>4, <3>1, <4>1 DEF SoundDetail, SoundOutputs
    <3>3. CASE c = b
      <4>1. SoundOutputs(e, b, wr)
        <5> HIDE DEF d
        <5>1. ASSUME NEW k \in DOMAIN e.outs
              PROVE  /\ e.outs[k] \in DOMAIN wr /\ e.outs[k].block = b /\ e.outs[k].port = k
                     /\ e.outs[k].start = e.start /\ e.outs[k].size >= Settings[b].multiple
          <6>1. CASE k \in DOMAIN d.outs
            <7>1. e.outs[k] = d.outs[k]
              BY <2>6, <2>7, <6>1
            <7> QED BY <2>2, <2>4, <2>7, <6>1, <7>1 DEF SoundDetail, SoundOutputs
          <6>2. CASE k \notin DOMAIN d.outs
            <7>1. e.outs[k] = buffer /\ k = p
              BY <2>6, <2>7, <6>2
            <7> QED BY <2>3, <2>4, <2>7, <7>1 DEF d
          <6> QED BY <6>1, <6>2
        <5> QED BY <5>1 DEF SoundOutputs
      <4>2. SoundDetail(e, b, wr, s)
        <5> HIDE DEF d
        <5> QED BY <2>2, <2>7, <3>1, <4>1 DEF SoundDetail
      <4> QED BY <2>8, <3>3, <4>2
    <3> QED BY <3>2, <3>3
  <2>13. SoundWiring(v, s)
    <3>1. v.detail = f /\ v.written = wr
      BY <2>10
    <3> QED BY <2>5, <2>8, <2>11, <2>12, <3>1 DEF SoundWiring
  <2>14. OutputAdded(w, v, b, p)
    <3>1. v.detail = f
      BY <2>10
    <3> QED BY <2>6, <2>7, <2>8, <3>1 DEF OutputAdded
  <2>15. Longer(w.written, v.written)
    BY <2>4, <2>10 DEF Longer
  <2> QED BY <2>13, <2>14, <2>15 DEF v
<1> QED BY <1>5, <1>6
-----------------------------------------------------------------------------
(* Loops over wirings.                                                     *)

LEMMA OrderOfInterval ==
  ASSUME NEW n \in Nat
  PROVE  LET seq == InOrder(0..(n - 1))
         IN  Len(seq) = n /\ \A k \in 1..n : seq[k] = k - 1
PROOF
<1> DEFINE S == 0..(n - 1)
           seq == InOrder(S)
<1>1. S \in SUBSET Nat /\ IsFiniteSet(S) /\ Cardinality(S) = n
  <2>1. /\ IsFiniteSet(0..(n - 1))
        /\ Cardinality(0..(n - 1)) = IF 0 > n - 1 THEN 0 ELSE n - 1 - 0 + 1
    BY FS_Interval
  <2>2. S \in SUBSET Nat
    OBVIOUS
  <2> QED BY <2>1, <2>2
<1>2. Len(seq) = n /\ \A k \in 1..n : seq[k] \in S /\ Cardinality(Below(S, seq[k])) = k - 1
  <2> HIDE DEF S
  <2> QED BY <1>1, InOrderFacts
<1>3. ASSUME NEW k \in 1..n PROVE seq[k] = k - 1
  <2>1. PICK x \in S : x = seq[k] /\ Cardinality(Below(S, x)) = k - 1
    BY <1>2
  <2>2. Below(S, x) = 0..(x - 1) /\ x \in Nat
    BY DEF Below
  <2>3. Cardinality(0..(x - 1)) = x
    <3>1. /\ IsFiniteSet(0..(x - 1))
          /\ Cardinality(0..(x - 1)) = IF 0 > x - 1 THEN 0 ELSE x - 1 - 0 + 1
      BY <2>2, FS_Interval
    <3> QED BY <2>2, <3>1
  <2> QED BY <2>1, <2>2, <2>3
<1> HIDE DEF seq
<1> QED BY <1>2, <1>3 DEF seq

\* what AllocateDetail leaves when nothing goes wrong
DetailAdded(w, v, E, b, start) ==
  /\ DOMAIN v.detail = DOMAIN w.detail \cup {b}
  /\ \A c \in DOMAIN w.detail : c # b => v.detail[c] = w.detail[c]
  /\ v.detail[b].start = start
  /\ DOMAIN v.detail[b].ins = 0..(Cardinality(UsedPorts(E, b, TRUE)) - 1)
  /\ \A i \in DOMAIN v.detail[b].ins : v.detail[b].ins[i] = NoReader

LEMMA AllocateDetailFacts ==
  ASSUME NEW s \in Nat, NEW w, SoundWiring(w, s), w.outcome = "ok", NEW E \in Buildable,
         NEW b \in Blocks, NEW start \in 1..s
  PROVE  LET v == AllocateDetail(E, start, w, b)
         IN  SoundWiring(v, s) /\ (v.outcome = "ok" => DetailAdded(w, v, E, b, start))
PROOF
<1> DEFINE ninputs == Cardinality(UsedPorts(E, b, TRUE))
           noutputs == Cardinality(UsedPorts(E, b, FALSE))
           ins == [i \in 0 .. (ninputs - 1) |-> NoReader]
           bare == [ins |-> ins, outs |-> [p \in {} |-> 0], start |-> start]
           f == With(w.detail, b, bare)
           first == [w EXCEPT !.detail = f]
           seq == InOrder(0 .. (noutputs - 1))
           Step(v, p) == AllocateOutput(E, b, start, v, p)
           n == Len(seq)
           made == ForEach(Step, first, seq)
           Good(v, k) == /\ DetailAdded(w, v, E, b, start)
                         /\ DOMAIN v.detail[b].outs = 0..(k - 1)
           S == [k \in 0..n |-> {v \in Wirings : /\ SoundWiring(v, s) /\ Longer(w.written, v.written)
                                                 /\ v.outcome = "ok" => Good(v, k)}]
           F == [k \in 1..n |-> [v \in Wirings |-> IF v.outcome = "ok" THEN Step(v, seq[k]) ELSE v]]
           IsRun(g) == g = [k \in 0..n |-> IF k = 0 THEN first ELSE
                              IF g[k - 1].outcome = "ok" THEN Step(g[k - 1], seq[k]) ELSE g[k - 1]]
           after == CHOOSE g : IsRun(g)
<1>1. /\ w \in Wirings /\ SoundWritten(w.written, s)
      /\ \A c \in DOMAIN w.detail : SoundDetail(w.detail[c], c, w.written, s)
  BY DEF SoundWiring
<1>2. ninputs \in Nat /\ noutputs \in PortNumbers /\ noutputs \in Nat
  <2>1. ninputs \in PortNumbers /\ noutputs \in PortNumbers
    BY PortFacts
  <2>2. \A k \in PortNumbers : k \in Nat
    BY CablesAssumption, FS_CardinalityType DEF PortNumbers
  <2> HIDE DEF ninputs, noutputs
  <2> QED BY <2>1, <2>2
<1>3. n = noutputs /\ n \in Nat /\ \A k \in 1..n : seq[k] = k - 1 /\ k - 1 \in PortNumbers
  <2>1. Len(seq) = noutputs /\ \A k \in 1..noutputs : seq[k] = k - 1
    <3> HIDE DEF noutputs
    <3> QED BY <1>2, OrderOfInterval
  <2>2. \A k \in 1..noutputs : k - 1 \in PortNumbers
    <3>1. Cardinality(Cables) \in Nat
      BY CablesAssumption, FS_CardinalityType
    <3> HIDE DEF noutputs
    <3> QED BY <1>2, <3>1 DEF PortNumbers
  <2> HIDE DEF seq, noutputs
  <2> QED BY <1>2, <2>1, <2>2
<1> HIDE DEF ninputs, noutputs, seq
<1>4. /\ bare \in Details /\ bare.ins = ins /\ bare.outs = [p \in {} |-> 0] /\ bare.start = start
      /\ SoundDetail(bare, b, w.written, s)
  <2>1. ins \in Lists(AnyReader \cup {NoReader})
    <3>1. ins \in [0..(ninputs - 1) -> AnyReader \cup {NoReader}]
      OBVIOUS
    <3> HIDE DEF ins
    <3> QED BY <1>2, <3>1, ListFacts
  <2>2. [p \in {} |-> 0] \in Lists(Buffers)
    <3>1. 0..(0 - 1) = {}
      OBVIOUS
    <3>2. [p \in {} |-> 0] \in [0..(0 - 1) -> Buffers]
      BY <3>1
    <3> QED BY <3>2, ListFacts
  <2>3. start \in Nat
    OBVIOUS
  <2>4. bare \in Details /\ bare.ins = ins /\ bare.outs = [p \in {} |-> 0] /\ bare.start = start
    BY <2>1, <2>2, <2>3 DEF Details
  <2> HIDE DEF bare
  <2> QED BY <2>4 DEF SoundDetail, SoundOutputs
<1>5. first \in S[0]
  <2>1. first = [detail |-> f, written |-> w.written, most |-> w.most, outcome |-> w.outcome]
    BY <1>1, DetailExcept
  <2> HIDE DEF bare, first
  <2>2. /\ DOMAIN f = DOMAIN w.detail \cup {b}
        /\ \A c \in DOMAIN f : f[c] = IF c = b THEN bare ELSE w.detail[c]
    BY DEF With
  <2>3. f \in [DOMAIN w.detail \cup {b} -> Details] /\ DOMAIN w.detail \cup {b} \in SUBSET Blocks
    <3>1. f = [c \in DOMAIN w.detail \cup {b} |-> f[c]]
      BY DEF With
    <3> HIDE DEF f
    <3> QED BY <1>1, <1>4, <2>2, <3>1, WiringFacts
  <2> HIDE DEF f
  <2>4. first \in Wirings
    BY <1>1, <2>1, <2>3, WiringFacts, MakesWiring
  <2>5. \A c \in DOMAIN f : SoundDetail(f[c], c, w.written, s)
    BY <1>1, <1>4, <2>2
  <2>6. SoundWiring(first, s)
    BY <1>1, <2>1, <2>4, <2>5 DEF SoundWiring
  <2>7. Longer(w.written, first.written)
    BY <2>1 DEF Longer
  <2>8. Good(first, 0)
    <3>1. first.detail = f /\ f[b] = bare /\ b \in DOMAIN f
      BY <2>1, <2>2
    <3>2. DetailAdded(w, first, E, b, start)
      BY <1>4, <2>2, <3>1 DEF DetailAdded, ninputs
    <3>3. DOMAIN first.detail[b].outs = 0..(0 - 1)
      BY <1>4, <3>1
    <3> QED BY <3>2, <3>3
  <2> HIDE DEF Good
  <2> QED BY <1>3, <2>4, <2>6, <2>7, <2>8
<1> HIDE DEF first, f, bare
<1>6. \A k \in 1..n : \A v \in S[k - 1] :
        F[k][v] \in S[k] /\ F[k][v] = IF v.outcome = "ok" THEN Step(v, seq[k]) ELSE v
  <2> SUFFICES ASSUME NEW k \in 1..n, NEW v \in S[k - 1]
               PROVE  F[k][v] \in S[k] /\ F[k][v] = IF v.outcome = "ok" THEN Step(v, seq[k]) ELSE v
    OBVIOUS
  <2>1. /\ v \in Wirings /\ SoundWiring(v, s) /\ Longer(w.written, v.written)
        /\ (v.outcome = "ok" => Good(v, k - 1)) /\ k - 1 \in PortNumbers /\ k \in 0..n
    BY <1>3
  <2>2. F[k][v] = IF v.outcome = "ok" THEN Step(v, seq[k]) ELSE v
    BY <2>1
  <2>3. CASE v.outcome # "ok"
    <3> HIDE DEF F, Good
    <3> QED BY <2>1, <2>2, <2>3
  <2>4. CASE v.outcome = "ok"
    <3> DEFINE u == AllocateOutput(E, b, start, v, k - 1)
    <3>1. /\ Good(v, k - 1) /\ b \in DOMAIN v.detail /\ start = v.detail[b].start
          /\ DOMAIN v.detail[b].outs = 0..((k - 1) - 1)
      BY <2>1, <2>4 DEF DetailAdded
    <3>2. /\ SoundWiring(u, s) /\ Longer(v.written, u.written)
          /\ u.outcome = "ok" => OutputAdded(v, u, b, k - 1)
      BY <2>1, <2>4, <3>1, AllocateOutputFacts
    <3> HIDE DEF u
    <3>3. u.outcome = "ok" => Good(u, k)
      BY <3>1, <3>2 DEF OutputAdded, DetailAdded
    <3>4. Longer(w.written, u.written) /\ u \in Wirings
      BY <2>1, <3>2 DEF Longer, SoundWiring
    <3>5. F[k][v] = u
      BY <1>3, <2>2, <2>4 DEF u
    <3> HIDE DEF F, Good
    <3> QED BY <2>1, <2>2, <3>2, <3>3, <3>4, <3>5
  <2> QED BY <2>3, <2>4
<1> HIDE DEF S, F, Step
<1>7. PICK g : Runs(g, n, S, first, F)
  BY <1>3, <1>5, <1>6, LoopRuns
<1>8. IsRun(g)
  <2> HIDE DEF n
  <2>1. \A k \in 0..n : \/ k = 0 /\ g[k] = first
                        \/ k # 0 /\ k \in 1..n /\ g[k] = F[k][g[k - 1]] /\ g[k - 1] \in S[k - 1]
    BY <1>3, <1>7, RunsFacts
  <2>2. \A k \in 0..n : g[k] = IF k = 0 THEN first ELSE
                         IF g[k - 1].outcome = "ok" THEN Step(g[k - 1], seq[k]) ELSE g[k - 1]
    BY Z3, <1>6, <2>1
  <2> QED BY <1>7, <2>2 DEF Runs
<1>9. IsRun(after)
  BY Zenon, <1>8
<1>10. made = after[n]
  BY DEF ForEach
<1>11. after[n] \in S[n]
  <2>1. after[0] = first /\ \A k \in 1..n : after[k] =
          IF after[k - 1].outcome = "ok" THEN Step(after[k - 1], seq[k]) ELSE after[k - 1]
    <3>1. 0 \in 0..n /\ \A k \in 1..n : k \in 0..n /\ k # 0
      BY <1>3
    <3> HIDE DEF after
    <3> QED BY <1>9, <3>1
  <2> HIDE DEF after
  <2>2. \A k \in 1..n : after[k - 1] \in S[k - 1] => after[k] \in S[k]
    BY <1>6, <2>1
  <2>3. n \in 0..n
    BY <1>3
  <2> QED BY <1>3, <1>5, <2>1, <2>2, <2>3, LoopKeeps
<1>12. /\ SoundWiring(made, s) /\ Longer(w.written, made.written)
       /\ made.outcome = "ok" => DetailAdded(w, made, E, b, start)
  <2> HIDE DEF made, after
  <2>1. made \in S[n] /\ n \in 0..n
    BY <1>3, <1>10, <1>11
  <2> QED BY <2>1 DEF S
<1> DEFINE v == AllocateDetail(E, start, w, b)
<1>13. v = IF made.outcome = "ok" THEN made ELSE [made EXCEPT !.detail = w.detail]
  BY DEF AllocateDetail, Step, first, f, bare, seq, ninputs, noutputs
<1> HIDE DEF made, v, after
<1>14. CASE made.outcome = "ok"
  BY <1>12, <1>13, <1>14 DEF v
<1>15. CASE made.outcome # "ok"
  <2>1. made \in Wirings /\ SoundWritten(made.written, s)
    BY <1>12 DEF SoundWiring
  <2>2. v = [detail |-> w.detail, written |-> made.written, most |-> made.most,
             outcome |-> made.outcome]
    BY <1>13, <1>15, <2>1, DetailExcept
  <2>3. v \in Wirings
    <3>1. /\ DOMAIN w.detail \in SUBSET Blocks /\ w.detail \in [DOMAIN w.detail -> Details]
      BY <1>1, WiringFacts
    <3>2. /\ made.written \in Writtens /\ made.most \in [Blocks -> [PortNumbers -> Int]]
          /\ made.outcome \in {"ok", "throws", "crashed"}
      BY <2>1, WiringFacts
    <3> QED BY <2>1, <2>2, <3>1, <3>2, MakesWiring
  <2>4. \A r : SoundReader(r, w.written) => SoundReader(r, made.written)
    BY <1>12 DEF SoundReader, InPlace, Longer
  <2>5. ASSUME NEW c \in DOMAIN w.detail PROVE SoundDetail(w.detail[c], c, made.written, s)
    <3>1. SoundDetail(w.detail[c], c, w.written, s)
      BY <1>1
    <3> QED BY <1>12, <2>4, <3>1 DEF SoundDetail, SoundOutputs, Longer
  <2>6. SoundWiring(v, s)
    BY <2>1, <2>2, <2>3, <2>5 DEF SoundWiring
  <2>7. v.outcome # "ok"
    BY <1>15, <2>2
  <2> QED BY <2>6, <2>7 DEF v
<1> QED BY <1>14, <1>15

\* input i of b reads the buffer at the other end of its edge
Linked(w, E, b, i) ==
  LET src == UpstreamEdge(E, b, i).src
  IN  /\ i \in DOMAIN w.detail[b].ins /\ src[2] \in DOMAIN w.detail[src[1]].outs
      /\ w.detail[b].ins[i] # NoReader
      /\ w.detail[b].ins[i].buffer = w.detail[src[1]].outs[src[2]]

\* v is w with the inputs P of b linked
InputsLinked(w, v, E, b, P) ==
  /\ SameShape(w, v)
  /\ \A c \in DOMAIN w.detail : \A j \in DOMAIN w.detail[c].ins :
       c # b \/ j \notin P => v.detail[c].ins[j] = w.detail[c].ins[j]
  /\ \A i \in P : Linked(v, E, b, i)

LEMMA LinkedNowhere ==
  ASSUME NEW w, NEW E, NEW b
  PROVE  InputsLinked(w, w, E, b, {})
PROOF
  BY DEF InputsLinked, SameShape

LEMMA OneMoreLinked ==
  ASSUME NEW w, NEW v, NEW E, NEW b, NEW P, NEW i, InputsLinked(w, v, E, b, P),
         b \in DOMAIN w.detail, UpstreamEdge(E, b, i).src[1] \in DOMAIN w.detail,
         \A j \in P : UpstreamEdge(E, b, j).src[1] \in DOMAIN w.detail,
         NEW u, NEW r \in AnyReader, OneInput(v, u, b, i, r), i \in DOMAIN v.detail[b].ins,
         LET src == UpstreamEdge(E, b, i).src
         IN  src[2] \in DOMAIN v.detail[src[1]].outs /\ r.buffer = v.detail[src[1]].outs[src[2]]
  PROVE  InputsLinked(w, u, E, b, P \cup {i})
PROOF
<1>1. SameShape(w, v) /\ SameShape(v, u) /\ SameShape(w, u)
  BY DEF InputsLinked, OneInput, SameShape
<1>2. r # NoReader
  BY ReaderFacts
<1>3. Linked(u, E, b, i)
  BY <1>1, <1>2 DEF OneInput, SameShape, Linked
<1>4. ASSUME NEW j \in P, j # i PROVE Linked(u, E, b, j)
  <2>1. Linked(v, E, b, j)
    BY DEF InputsLinked
  <2>2. u.detail[b].ins[j] = v.detail[b].ins[j]
    BY <1>1, <1>4, <2>1 DEF OneInput, SameShape, Linked
  <2> QED BY <1>1, <2>1, <2>2 DEF SameShape, Linked
<1>5. ASSUME NEW c \in DOMAIN w.detail, NEW j \in DOMAIN w.detail[c].ins,
             c # b \/ j \notin P \cup {i}
      PROVE  u.detail[c].ins[j] = w.detail[c].ins[j]
  <2>1. v.detail[c].ins[j] = w.detail[c].ins[j]
    BY <1>5 DEF InputsLinked
  <2>2. u.detail[c].ins[j] = v.detail[c].ins[j]
    BY <1>1, <1>5 DEF OneInput, SameShape
  <2> QED BY <2>1, <2>2
<1> QED BY <1>1, <1>3, <1>4, <1>5 DEF InputsLinked

LEMMA ConnectFacts ==
  ASSUME NEW s, NEW w, SoundWiring(w, s), w.outcome = "ok", NEW E \in Buildable,
         NEW b \in DOMAIN w.detail, \A e \in E : e.src[1] \in DOMAIN w.detail
  PROVE  LET v == ConnectBlockInputs(E, w, b)
         IN  /\ SoundWiring(v, s)
             /\ v.outcome = "ok" => InputsLinked(w, v, E, b, UsedPorts(E, b, TRUE))
PROOF
<1> DEFINE T == UsedPorts(E, b, TRUE)

<1> DEFINE first == w
           seq == InOrder(T)
           Step(v, i) == Attach(E, b, v, i)
           n == Len(seq)
           end == ForEach(Step, first, seq)
           Good(v, k) == InputsLinked(w, v, E, b, {seq[j] : j \in 1..k})
           S == [k \in 0..n |-> {v \in Wirings : SoundWiring(v, s) /\ (v.outcome = "ok" => Good(v, k))}]
           F == [k \in 1..n |-> [v \in Wirings |-> IF v.outcome = "ok" THEN Step(v, seq[k]) ELSE v]]
           IsRun(g) == g = [k \in 0..n |-> IF k = 0 THEN first ELSE
                              IF g[k - 1].outcome = "ok" THEN Step(g[k - 1], seq[k]) ELSE g[k - 1]]
           after == CHOOSE g : IsRun(g)
<1>1. n \in Nat /\ (\A k \in 1..n : seq[k] \in T) /\ T = {seq[j] : j \in 1..n}
  <2>1. T \in SUBSET Nat /\ IsFiniteSet(T)
    BY PortFacts
  <2> HIDE DEF T
  <2>2. /\ n \in Nat /\ (\A k \in 1..n : seq[k] \in T)
        /\ \A x \in T : \E k \in 1..n : seq[k] = x
    BY <2>1, InOrderFacts
  <2> QED BY <2>2
<1>2. first \in S[0]
  <2>1. InputsLinked(w, w, E, b, {seq[j] : j \in 1..0})
    <3>1. {seq[j] : j \in 1..0} = {}
      OBVIOUS
    <3> QED BY <3>1, LinkedNowhere
  <2>2. w \in Wirings
    BY DEF SoundWiring
  <2>3. 0 \in 0..n
    <3> HIDE DEF n
    <3> QED BY <1>1
  <2> HIDE DEF Good
  <2> QED BY <2>1, <2>2, <2>3 DEF Good
<1>3. \A i \in T : UpstreamEdge(E, b, i).src[1] \in DOMAIN w.detail
  BY UpstreamFacts
<1> HIDE DEF T, seq
<1>4. \A k \in 1..n : \A v \in S[k - 1] :
        F[k][v] \in S[k] /\ F[k][v] = IF v.outcome = "ok" THEN Step(v, seq[k]) ELSE v
  <2> SUFFICES ASSUME NEW k \in 1..n, NEW v \in S[k - 1]
               PROVE  F[k][v] \in S[k] /\ F[k][v] = IF v.outcome = "ok" THEN Step(v, seq[k]) ELSE v
    OBVIOUS
  <2>1. /\ v \in Wirings /\ SoundWiring(v, s) /\ k \in 0..n /\ k - 1 \in 0..n
        /\ (v.outcome = "ok" => Good(v, k - 1))
    BY <1>1
  <2>2. F[k][v] = IF v.outcome = "ok" THEN Step(v, seq[k]) ELSE v
    BY <2>1
  <2>3. CASE v.outcome # "ok"
    <3> HIDE DEF F, Good
    <3> QED BY <2>1, <2>2, <2>3
  <2>4. CASE v.outcome = "ok"
    <3> DEFINE i == seq[k]
               P == {seq[j] : j \in 1..(k - 1)}
               u == Attach(E, b, v, i)
               src == UpstreamEdge(E, b, i).src
    <3>1. InputsLinked(w, v, E, b, P) /\ DOMAIN v.detail = DOMAIN w.detail
      BY <2>1, <2>4 DEF InputsLinked, SameShape
    <3>2. i \in T /\ P \subseteq T /\ P \cup {i} = {seq[j] : j \in 1..k}
      <4> HIDE DEF n, S
      <4>1. 1..k = (1..(k - 1)) \cup {k} /\ 1..k \subseteq 1..n
        BY <1>1
      <4> QED BY <1>1, <4>1
    <3>3. /\ SoundWiring(u, s)
          /\ u.outcome = "ok" =>
               /\ i \in DOMAIN v.detail[b].ins /\ src[2] \in DOMAIN v.detail[src[1]].outs
               /\ \E r \in AnyReader : /\ r.buffer = v.detail[src[1]].outs[src[2]]
                                       /\ OneInput(v, u, b, i, r)
      BY <1>3, <2>1, <2>4, <3>1, <3>2, AttachFacts
    <3>4. F[k][v] = u
      BY <2>2, <2>4
    <3> HIDE DEF P, i, u, src
    <3>5. ASSUME u.outcome = "ok" PROVE InputsLinked(w, u, E, b, P \cup {i})
      BY <1>3, <3>1, <3>2, <3>3, <3>5, OneMoreLinked DEF src
    <3>6. u.outcome = "ok" => Good(u, k)
      BY <3>2, <3>5
    <3> HIDE DEF F, Good
    <3> QED BY <2>1, <2>2, <3>3, <3>4, <3>6 DEF SoundWiring
  <2> QED BY <2>3, <2>4
<1> HIDE DEF S, F, Step, Good
<1>5. PICK g : Runs(g, n, S, first, F)
  BY <1>1, <1>2, <1>4, LoopRuns
<1>6. IsRun(g)
  <2> HIDE DEF n
  <2>1. \A k \in 0..n : \/ k = 0 /\ g[k] = first
                        \/ k # 0 /\ k \in 1..n /\ g[k] = F[k][g[k - 1]] /\ g[k - 1] \in S[k - 1]
    BY <1>1, <1>5, RunsFacts
  <2>2. \A k \in 0..n : g[k] = IF k = 0 THEN first ELSE
                         IF g[k - 1].outcome = "ok" THEN Step(g[k - 1], seq[k]) ELSE g[k - 1]
    BY <1>4, <2>1
  <2> QED BY <1>5, <2>2 DEF Runs
<1>7. IsRun(after)
  BY Zenon, <1>6
<1>8. end = after[n]
  BY DEF ForEach
<1>9. after[n] \in S[n]
  <2>1. after[0] = first /\ \A k \in 1..n : after[k] =
          IF after[k - 1].outcome = "ok" THEN Step(after[k - 1], seq[k]) ELSE after[k - 1]
    <3>1. 0 \in 0..n /\ \A k \in 1..n : k \in 0..n /\ k # 0
      BY <1>1
    <3> HIDE DEF after
    <3> QED BY <1>7, <3>1
  <2> HIDE DEF after
  <2>2. \A k \in 1..n : after[k - 1] \in S[k - 1] => after[k] \in S[k]
    BY <1>4, <2>1
  <2>3. n \in 0..n
    BY <1>1
  <2> QED BY <1>1, <1>2, <2>1, <2>2, <2>3, LoopKeeps
<1>10. SoundWiring(end, s) /\ (end.outcome = "ok" => Good(end, n))
  <2> HIDE DEF end, after, Good
  <2>1. end \in S[n] /\ n \in 0..n
    BY <1>1, <1>8, <1>9
  <2> QED BY <2>1 DEF S
<1>11. ConnectBlockInputs(E, w, b) = end
  BY DEF ConnectBlockInputs, T, seq, Step
<1> HIDE DEF end
<1> QED BY <1>1, <1>10, <1>11 DEF Good, T

\* the inputs of b that were linked keep their readers
KeptLinks(w, v, E, b) ==
  \A i : Linked(w, E, b, i) => v.detail[b].ins[i] = w.detail[b].ins[i]

LEMMA OneMoreKept ==
  ASSUME NEW w, NEW v, NEW E, NEW b, NEW P, NEW i, InputsLinked(w, v, E, b, P),
         KeptLinks(w, v, E, b), b \in DOMAIN w.detail,
         UpstreamEdge(E, b, i).src[1] \in DOMAIN w.detail,
         \A j \in P : UpstreamEdge(E, b, j).src[1] \in DOMAIN w.detail,
         NEW u, i \in DOMAIN v.detail[b].ins,
         LET src == UpstreamEdge(E, b, i).src
             Right(r) == r # NoReader /\ r.buffer = v.detail[src[1]].outs[src[2]]
         IN  /\ src[2] \in DOMAIN v.detail[src[1]].outs
             /\ IF Right(v.detail[b].ins[i]) THEN u = v
                ELSE \E r \in AnyReader : Right(r) /\ OneInput(v, u, b, i, r)
  PROVE  InputsLinked(w, u, E, b, P \cup {i}) /\ KeptLinks(w, u, E, b)
PROOF
<1> DEFINE src == UpstreamEdge(E, b, i).src
           Right(r) == r # NoReader /\ r.buffer = v.detail[src[1]].outs[src[2]]
<1>1. SameShape(w, v)
  BY DEF InputsLinked
<1>2. CASE Right(v.detail[b].ins[i])
  <2>1. u = v
    BY <1>2
  <2>2. Linked(v, E, b, i)
    BY <1>2 DEF Linked
  <2> QED BY <2>1, <2>2 DEF InputsLinked
<1>3. CASE ~Right(v.detail[b].ins[i])
  <2>1. PICK r \in AnyReader : Right(r) /\ OneInput(v, u, b, i, r)
    BY Zenon, <1>3
  <2>2. InputsLinked(w, u, E, b, P \cup {i})
    BY Zenon, <2>1, OneMoreLinked
  <2>3. ~Linked(w, E, b, i)
    <3> SUFFICES ASSUME Linked(w, E, b, i) PROVE FALSE
      OBVIOUS
    <3>1. /\ w.detail[b].ins[i] # NoReader
          /\ w.detail[b].ins[i].buffer = w.detail[src[1]].outs[src[2]]
      BY DEF Linked
    <3>2. v.detail[b].ins[i] = w.detail[b].ins[i]
      BY DEF KeptLinks
    <3>3. v.detail[src[1]].outs = w.detail[src[1]].outs
      BY <1>1 DEF SameShape
    <3> QED BY <1>3, <3>1, <3>2, <3>3
  <2>4. ASSUME NEW j, Linked(w, E, b, j) PROVE u.detail[b].ins[j] = w.detail[b].ins[j]
    <3>1. v.detail[b].ins[j] = w.detail[b].ins[j] /\ j # i
      BY <2>3, <2>4 DEF KeptLinks
    <3>2. j \in DOMAIN v.detail[b].ins /\ b \in DOMAIN v.detail
      BY Zenon, <1>1, <2>4 DEF Linked, SameShape
    <3>3. u.detail[b].ins[j] = v.detail[b].ins[j]
      BY <2>1, <3>1, <3>2 DEF OneInput
    <3> QED BY <3>1, <3>3
  <2>5. KeptLinks(w, u, E, b)
    BY <2>4 DEF KeptLinks
  <2> QED BY Zenon, <2>2, <2>5
<1> QED BY <1>2, <1>3

LEMMA RewireAllFacts ==
  ASSUME NEW s, NEW w, SoundWiring(w, s), w.outcome = "ok",
         NEW E \in Buildable, NEW M \in SUBSET MsgCables, <<E, M>> \in Accepted,
         NEW b \in DOMAIN w.detail, b \in UsedBlocks(E, M),
         \A e \in E : e.src[1] \in DOMAIN w.detail
  PROVE  LET v == ForEach(LAMBDA x, i : Rewire(E, b, x, i), w,
                          InOrder(0 .. Cardinality(UsedPorts(E, b, TRUE)) - 1))
         IN  /\ SoundWiring(v, s)
             /\ v.outcome = "ok" => /\ InputsLinked(w, v, E, b, UsedPorts(E, b, TRUE))
                                    /\ KeptLinks(w, v, E, b)
PROOF
<1> DEFINE ports == 0 .. Cardinality(UsedPorts(E, b, TRUE)) - 1
           T == UsedPorts(E, b, TRUE)
<1> DEFINE first == w
           seq == InOrder(ports)
           Step(v, i) == Rewire(E, b, v, i)
           n == Len(seq)
           end == ForEach(Step, first, seq)
           Good(v, k) == InputsLinked(w, v, E, b, {seq[j] : j \in 1..k}) /\ KeptLinks(w, v, E, b)
           S == [k \in 0..n |-> {v \in Wirings : SoundWiring(v, s) /\ (v.outcome = "ok" => Good(v, k))}]
           F == [k \in 1..n |-> [v \in Wirings |-> IF v.outcome = "ok" THEN Step(v, seq[k]) ELSE v]]
           IsRun(g) == g = [k \in 0..n |-> IF k = 0 THEN first ELSE
                              IF g[k - 1].outcome = "ok" THEN Step(g[k - 1], seq[k]) ELSE g[k - 1]]
           after == CHOOSE g : IsRun(g)
<1>1. n \in Nat /\ (\A k \in 1..n : seq[k] \in T) /\ T = {seq[j] : j \in 1..n}
  <2>1. T \in SUBSET Nat /\ IsFiniteSet(T)
    BY PortFacts
  <2>2. ports = T
    BY AcceptedFacts
  <2> HIDE DEF T, ports
  <2>3. /\ n \in Nat /\ (\A k \in 1..n : seq[k] \in T)
        /\ \A x \in T : \E k \in 1..n : seq[k] = x
    BY <2>1, <2>2, InOrderFacts
  <2> QED BY <2>3
<1>2. first \in S[0]
  <2>1. InputsLinked(w, w, E, b, {seq[j] : j \in 1..0}) /\ KeptLinks(w, w, E, b)
    <3>1. {seq[j] : j \in 1..0} = {}
      OBVIOUS
    <3> QED BY <3>1, LinkedNowhere DEF KeptLinks
  <2>2. w \in Wirings
    BY DEF SoundWiring
  <2>3. 0 \in 0..n
    <3> HIDE DEF n
    <3> QED BY <1>1
  <2> HIDE DEF Good
  <2> QED BY <2>1, <2>2, <2>3 DEF Good
<1>3. \A i \in T : UpstreamEdge(E, b, i).src[1] \in DOMAIN w.detail
  BY UpstreamFacts
<1> HIDE DEF T, seq
<1>4. \A k \in 1..n : \A v \in S[k - 1] :
        F[k][v] \in S[k] /\ F[k][v] = IF v.outcome = "ok" THEN Step(v, seq[k]) ELSE v
  <2> SUFFICES ASSUME NEW k \in 1..n, NEW v \in S[k - 1]
               PROVE  F[k][v] \in S[k] /\ F[k][v] = IF v.outcome = "ok" THEN Step(v, seq[k]) ELSE v
    OBVIOUS
  <2>1. /\ v \in Wirings /\ SoundWiring(v, s) /\ k \in 0..n /\ k - 1 \in 0..n
        /\ (v.outcome = "ok" => Good(v, k - 1))
    BY <1>1
  <2>2. F[k][v] = IF v.outcome = "ok" THEN Step(v, seq[k]) ELSE v
    BY <2>1
  <2>3. CASE v.outcome # "ok"
    <3> HIDE DEF F, Good
    <3> QED BY <2>1, <2>2, <2>3
  <2>4. CASE v.outcome = "ok"
    <3> DEFINE i == seq[k]
               P == {seq[j] : j \in 1..(k - 1)}
               u == Rewire(E, b, v, i)
               src == UpstreamEdge(E, b, i).src
               Right(r) == r # NoReader /\ r.buffer = v.detail[src[1]].outs[src[2]]
    <3>1. InputsLinked(w, v, E, b, P) /\ KeptLinks(w, v, E, b) /\ DOMAIN v.detail = DOMAIN w.detail
      BY <2>1, <2>4 DEF InputsLinked, SameShape
    <3>2. i \in T /\ P \subseteq T /\ P \cup {i} = {seq[j] : j \in 1..k}
      <4> HIDE DEF n, S
      <4>1. 1..k = (1..(k - 1)) \cup {k} /\ 1..k \subseteq 1..n
        BY Z3, <1>1
      <4> QED BY <1>1, <4>1
    <3>3. /\ SoundWiring(u, s)
          /\ u.outcome = "ok" =>
               /\ i \in DOMAIN v.detail[b].ins /\ src[2] \in DOMAIN v.detail[src[1]].outs
               /\ IF Right(v.detail[b].ins[i]) THEN u = v
                  ELSE \E r \in AnyReader : Right(r) /\ OneInput(v, u, b, i, r)
      BY Zenon, <1>3, <2>1, <2>4, <3>1, <3>2, RewireFacts
    <3>4. F[k][v] = u
      BY <2>2, <2>4
    <3> HIDE DEF P, i, u
    <3>5. ASSUME u.outcome = "ok"
          PROVE  InputsLinked(w, u, E, b, P \cup {i}) /\ KeptLinks(w, u, E, b)
      BY Zenon, <1>3, <3>1, <3>2, <3>3, <3>5, OneMoreKept
    <3>6. u.outcome = "ok" => Good(u, k)
      BY <3>2, <3>5
    <3> HIDE DEF F, Good
    <3> QED BY <2>1, <2>2, <3>3, <3>4, <3>6 DEF SoundWiring
  <2> QED BY <2>3, <2>4
<1> HIDE DEF S, F, Step, Good
<1>5. PICK g : Runs(g, n, S, first, F)
  BY <1>1, <1>2, <1>4, LoopRuns
<1>6. IsRun(g)
  <2> HIDE DEF n
  <2>1. \A k \in 0..n : \/ k = 0 /\ g[k] = first
                        \/ k # 0 /\ k \in 1..n /\ g[k] = F[k][g[k - 1]] /\ g[k - 1] \in S[k - 1]
    BY <1>1, <1>5, RunsFacts
  <2>2. \A k \in 0..n : g[k] = IF k = 0 THEN first ELSE
                         IF g[k - 1].outcome = "ok" THEN Step(g[k - 1], seq[k]) ELSE g[k - 1]
    BY Z3, <1>4, <2>1
  <2> QED BY <1>5, <2>2 DEF Runs
<1>7. IsRun(after)
  BY Zenon, <1>6
<1>8. end = after[n]
  BY DEF ForEach
<1>9. after[n] \in S[n]
  <2>1. after[0] = first /\ \A k \in 1..n : after[k] =
          IF after[k - 1].outcome = "ok" THEN Step(after[k - 1], seq[k]) ELSE after[k - 1]
    <3>1. 0 \in 0..n /\ \A k \in 1..n : k \in 0..n /\ k # 0
      BY <1>1
    <3> HIDE DEF after
    <3> QED BY <1>7, <3>1
  <2> HIDE DEF after
  <2>2. \A k \in 1..n : after[k - 1] \in S[k - 1] => after[k] \in S[k]
    BY <1>4, <2>1
  <2>3. n \in 0..n
    BY <1>1
  <2> QED BY <1>1, <1>2, <2>1, <2>2, <2>3, LoopKeeps
<1>10. SoundWiring(end, s) /\ (end.outcome = "ok" => Good(end, n))
  <2> HIDE DEF end, after, Good
  <2>1. end \in S[n] /\ n \in 0..n
    BY <1>1, <1>8, <1>9
  <2> QED BY <2>1 DEF S
<1>11. ForEach(LAMBDA x, i : Rewire(E, b, x, i), w, InOrder(ports)) = end
  BY DEF T, seq, Step
<1> HIDE DEF end
<1> QED BY <1>1, <1>10, <1>11 DEF Good, T

LEMMA AlignInputsFacts ==
  ASSUME NEW s, NEW w, SoundWiring(w, s), NEW b \in DOMAIN w.detail,
         NEW a, SoundWiring(a, s), a.outcome = "ok" => MovedAround(w, a, b)
  PROVE  LET v == ForEach(LAMBDA x, i : AlignInput(b, x, i), a, InOrder(InputsOf(w, b)))
         IN  SoundWiring(v, s) /\ (v.outcome = "ok" => MovedAround(w, v, b))
PROOF
<1> DEFINE T == DOMAIN w.detail[b].ins
<1> DEFINE first == a
           seq == InOrder(T)
           Step(v, i) == AlignInput(b, v, i)
           n == Len(seq)
           end == ForEach(Step, first, seq)
           Good(v, k) == MovedAround(w, v, b)
           S == [k \in 0..n |-> {v \in Wirings : SoundWiring(v, s) /\ (v.outcome = "ok" => Good(v, k))}]
           F == [k \in 1..n |-> [v \in Wirings |-> IF v.outcome = "ok" THEN Step(v, seq[k]) ELSE v]]
           IsRun(g) == g = [k \in 0..n |-> IF k = 0 THEN first ELSE
                              IF g[k - 1].outcome = "ok" THEN Step(g[k - 1], seq[k]) ELSE g[k - 1]]
           after == CHOOSE g : IsRun(g)
<1>1. n \in Nat /\ (\A k \in 1..n : seq[k] \in T)
  <2>1. w.detail[b] \in Details
    BY WiringFacts DEF SoundWiring
  <2>2. PICK m \in Nat : T = 0..(m - 1)
    BY <2>1, DetailFacts
  <2>3. T \in SUBSET Nat /\ IsFiniteSet(T)
    <3>1. IsFiniteSet(0..(m - 1)) /\ \A i \in 0..(m - 1) : i \in Nat
      BY FS_Interval
    <3> QED BY <2>2, <3>1
  <2> HIDE DEF T
  <2> QED BY <2>3, InOrderFacts
<1> HIDE DEF T, seq
<1>2. first \in S[0]
  <2>1. a \in Wirings
    BY DEF SoundWiring
  <2>2. 0 \in 0..n
    BY <1>1
  <2> QED BY <2>1, <2>2
<1>4. \A k \in 1..n : \A v \in S[k - 1] :
        F[k][v] \in S[k] /\ F[k][v] = IF v.outcome = "ok" THEN Step(v, seq[k]) ELSE v
  <2> SUFFICES ASSUME NEW k \in 1..n, NEW v \in S[k - 1]
               PROVE  F[k][v] \in S[k] /\ F[k][v] = IF v.outcome = "ok" THEN Step(v, seq[k]) ELSE v
    OBVIOUS
  <2>1. /\ v \in Wirings /\ SoundWiring(v, s) /\ k \in 0..n /\ k - 1 \in 0..n
        /\ (v.outcome = "ok" => Good(v, k - 1))
    BY <1>1
  <2>2. F[k][v] = IF v.outcome = "ok" THEN Step(v, seq[k]) ELSE v
    BY <2>1
  <2>3. CASE v.outcome # "ok"
    <3> HIDE DEF F, Good
    <3> QED BY <2>1, <2>2, <2>3
  <2>4. CASE v.outcome = "ok"
    <3> DEFINE u == AlignInput(b, v, seq[k])
    <3>1. b \in DOMAIN v.detail /\ seq[k] \in DOMAIN v.detail[b].ins
      BY <1>1, <2>1, <2>4 DEF MovedAround, SameShape, T
    <3>2. SoundWiring(u, s) /\ (u.outcome = "ok" => MovedAround(v, u, b))
      BY <2>1, <2>4, <3>1, AlignInputFacts
    <3>3. F[k][v] = u
      BY <2>2, <2>4
    <3> HIDE DEF u
    <3>4. u.outcome = "ok" => Good(u, k)
      BY <2>1, <2>4, <3>2, MovedTwice
    <3>5. u \in Wirings
      BY <3>2 DEF SoundWiring
    <3> HIDE DEF F, Good
    <3> QED BY <2>1, <2>2, <3>2, <3>3, <3>4, <3>5
  <2> QED BY <2>3, <2>4
<1> HIDE DEF S, F, Step, Good
<1>5. PICK g : Runs(g, n, S, first, F)
  BY <1>1, <1>2, <1>4, LoopRuns
<1>6. IsRun(g)
  <2> HIDE DEF n
  <2>1. \A k \in 0..n : \/ k = 0 /\ g[k] = first
                        \/ k # 0 /\ k \in 1..n /\ g[k] = F[k][g[k - 1]] /\ g[k - 1] \in S[k - 1]
    BY <1>1, <1>5, RunsFacts
  <2>2. \A k \in 0..n : g[k] = IF k = 0 THEN first ELSE
                         IF g[k - 1].outcome = "ok" THEN Step(g[k - 1], seq[k]) ELSE g[k - 1]
    BY Z3, <1>4, <2>1
  <2> QED BY <1>5, <2>2 DEF Runs
<1>7. IsRun(after)
  BY Zenon, <1>6
<1>8. end = after[n]
  BY DEF ForEach
<1>9. after[n] \in S[n]
  <2>1. after[0] = first /\ \A k \in 1..n : after[k] =
          IF after[k - 1].outcome = "ok" THEN Step(after[k - 1], seq[k]) ELSE after[k - 1]
    <3>1. 0 \in 0..n /\ \A k \in 1..n : k \in 0..n /\ k # 0
      BY <1>1
    <3> HIDE DEF after
    <3> QED BY <1>7, <3>1
  <2> HIDE DEF after
  <2>2. \A k \in 1..n : after[k - 1] \in S[k - 1] => after[k] \in S[k]
    BY <1>4, <2>1
  <2>3. n \in 0..n
    BY <1>1
  <2> QED BY <1>1, <1>2, <2>1, <2>2, <2>3, LoopKeeps
<1>10. SoundWiring(end, s) /\ (end.outcome = "ok" => Good(end, n))
  <2> HIDE DEF end, after, Good
  <2>1. end \in S[n] /\ n \in 0..n
    BY <1>1, <1>8, <1>9
  <2> QED BY <2>1 DEF S
<1>11. ForEach(LAMBDA x, i : AlignInput(b, x, i), a, InOrder(InputsOf(w, b))) = end
  BY DEF T, seq, Step, InputsOf
<1> HIDE DEF end
<1> QED BY <1>10, <1>11 DEF Good

LEMMA AlignOutputsFacts ==
  ASSUME NEW s, NEW w, SoundWiring(w, s), NEW b \in DOMAIN w.detail,
         NEW a, SoundWiring(a, s), a.outcome = "ok" => MovedAround(w, a, b)
  PROVE  LET v == ForEach(LAMBDA x, i : AlignOutput(b, x, i), a, InOrder(OutputsOf(w, b)))
         IN  SoundWiring(v, s) /\ (v.outcome = "ok" => MovedAround(w, v, b))
PROOF
<1> DEFINE T == DOMAIN w.detail[b].outs
<1> DEFINE first == a
           seq == InOrder(T)
           Step(v, i) == AlignOutput(b, v, i)
           n == Len(seq)
           end == ForEach(Step, first, seq)
           Good(v, k) == MovedAround(w, v, b)
           S == [k \in 0..n |-> {v \in Wirings : SoundWiring(v, s) /\ (v.outcome = "ok" => Good(v, k))}]
           F == [k \in 1..n |-> [v \in Wirings |-> IF v.outcome = "ok" THEN Step(v, seq[k]) ELSE v]]
           IsRun(g) == g = [k \in 0..n |-> IF k = 0 THEN first ELSE
                              IF g[k - 1].outcome = "ok" THEN Step(g[k - 1], seq[k]) ELSE g[k - 1]]
           after == CHOOSE g : IsRun(g)
<1>1. n \in Nat /\ (\A k \in 1..n : seq[k] \in T)
  <2>1. w.detail[b] \in Details
    BY WiringFacts DEF SoundWiring
  <2>2. PICK m \in Nat : T = 0..(m - 1)
    BY <2>1, DetailFacts
  <2>3. T \in SUBSET Nat /\ IsFiniteSet(T)
    <3>1. IsFiniteSet(0..(m - 1)) /\ \A i \in 0..(m - 1) : i \in Nat
      BY FS_Interval
    <3> QED BY <2>2, <3>1
  <2> HIDE DEF T
  <2> QED BY <2>3, InOrderFacts
<1> HIDE DEF T, seq
<1>2. first \in S[0]
  <2>1. a \in Wirings
    BY DEF SoundWiring
  <2>2. 0 \in 0..n
    BY <1>1
  <2> QED BY <2>1, <2>2
<1>4. \A k \in 1..n : \A v \in S[k - 1] :
        F[k][v] \in S[k] /\ F[k][v] = IF v.outcome = "ok" THEN Step(v, seq[k]) ELSE v
  <2> SUFFICES ASSUME NEW k \in 1..n, NEW v \in S[k - 1]
               PROVE  F[k][v] \in S[k] /\ F[k][v] = IF v.outcome = "ok" THEN Step(v, seq[k]) ELSE v
    OBVIOUS
  <2>1. /\ v \in Wirings /\ SoundWiring(v, s) /\ k \in 0..n /\ k - 1 \in 0..n
        /\ (v.outcome = "ok" => Good(v, k - 1))
    BY <1>1
  <2>2. F[k][v] = IF v.outcome = "ok" THEN Step(v, seq[k]) ELSE v
    BY <2>1
  <2>3. CASE v.outcome # "ok"
    <3> HIDE DEF F, Good
    <3> QED BY <2>1, <2>2, <2>3
  <2>4. CASE v.outcome = "ok"
    <3> DEFINE u == AlignOutput(b, v, seq[k])
    <3>1. b \in DOMAIN v.detail /\ seq[k] \in DOMAIN v.detail[b].outs
      BY <1>1, <2>1, <2>4 DEF MovedAround, SameShape, T
    <3>2. SoundWiring(u, s) /\ (u.outcome = "ok" => MovedAround(v, u, b))
      BY <2>1, <2>4, <3>1, AlignOutputFacts
    <3>3. F[k][v] = u
      BY <2>2, <2>4
    <3> HIDE DEF u
    <3>4. u.outcome = "ok" => Good(u, k)
      BY <2>1, <2>4, <3>2, MovedTwice
    <3>5. u \in Wirings
      BY <3>2 DEF SoundWiring
    <3> HIDE DEF F, Good
    <3> QED BY <2>1, <2>2, <3>2, <3>3, <3>4, <3>5
  <2> QED BY <2>3, <2>4
<1> HIDE DEF S, F, Step, Good
<1>5. PICK g : Runs(g, n, S, first, F)
  BY <1>1, <1>2, <1>4, LoopRuns
<1>6. IsRun(g)
  <2> HIDE DEF n
  <2>1. \A k \in 0..n : \/ k = 0 /\ g[k] = first
                        \/ k # 0 /\ k \in 1..n /\ g[k] = F[k][g[k - 1]] /\ g[k - 1] \in S[k - 1]
    BY <1>1, <1>5, RunsFacts
  <2>2. \A k \in 0..n : g[k] = IF k = 0 THEN first ELSE
                         IF g[k - 1].outcome = "ok" THEN Step(g[k - 1], seq[k]) ELSE g[k - 1]
    BY <1>4, <2>1
  <2> QED BY <1>5, <2>2 DEF Runs
<1>7. IsRun(after)
  BY <1>6
<1>8. end = after[n]
  BY DEF ForEach
<1>9. after[n] \in S[n]
  <2>1. after[0] = first /\ \A k \in 1..n : after[k] =
          IF after[k - 1].outcome = "ok" THEN Step(after[k - 1], seq[k]) ELSE after[k - 1]
    <3>1. 0 \in 0..n /\ \A k \in 1..n : k \in 0..n /\ k # 0
      BY <1>1
    <3> HIDE DEF after
    <3> QED BY <1>7, <3>1
  <2> HIDE DEF after
  <2>2. \A k \in 1..n : after[k - 1] \in S[k - 1] => after[k] \in S[k]
    BY <1>4, <2>1
  <2>3. n \in 0..n
    BY <1>1
  <2> QED BY <1>1, <1>2, <2>1, <2>2, <2>3, LoopKeeps
<1>10. SoundWiring(end, s) /\ (end.outcome = "ok" => Good(end, n))
  <2> HIDE DEF end, after, Good
  <2>1. end \in S[n] /\ n \in 0..n
    BY <1>1, <1>8, <1>9
  <2> QED BY <2>1 DEF S
<1>11. ForEach(LAMBDA x, i : AlignOutput(b, x, i), a, InOrder(OutputsOf(w, b))) = end
  BY DEF T, seq, Step, OutputsOf
<1> HIDE DEF end
<1> QED BY <1>10, <1>11 DEF Good

LEMMA AlignBuffersFacts ==
  ASSUME NEW s, NEW w, SoundWiring(w, s), w.outcome = "ok", NEW b \in DOMAIN w.detail
  PROVE  LET v == AlignBuffers(w, b)
         IN  SoundWiring(v, s) /\ (v.outcome = "ok" => MovedAround(w, v, b))
PROOF
<1> DEFINE a == ForEach(LAMBDA x, i : AlignInput(b, x, i), w, InOrder(InputsOf(w, b)))
           v == ForEach(LAMBDA x, i : AlignOutput(b, x, i), a, InOrder(OutputsOf(w, b)))
<1>1. SoundWiring(a, s) /\ (a.outcome = "ok" => MovedAround(w, a, b))
  BY MovedNowhere, AlignInputsFacts
<1> HIDE DEF a
<1>2. SoundWiring(v, s) /\ (v.outcome = "ok" => MovedAround(w, v, b))
  BY <1>1, AlignOutputsFacts
<1>3. AlignBuffers(w, b) = v
  BY DEF AlignBuffers, a
<1> HIDE DEF v
<1> QED BY <1>2, <1>3
-----------------------------------------------------------------------------
(* The blocks of a graph merged into a wiring.                             *)

\* v is w with the blocks B of the graph E merged into it: they are linked, what was
\* linked stays so, with its very reader when both ends were in the old graph, and
\* inputs that E does not wire read what they read
Merged(w, v, old, E, B) ==
  /\ SameShape(w, v)
  /\ \A c \in B : \A i \in UsedPorts(E, c, TRUE) : Linked(v, E, c, i)
  /\ \A c \in DOMAIN w.detail : \A i \in UsedPorts(E, c, TRUE) :
       Linked(w, E, c, i) =>
         /\ Linked(v, E, c, i)
         /\ c \in old.blocks /\ UpstreamEdge(E, c, i).src[1] \in old.blocks =>
              v.detail[c].ins[i] = w.detail[c].ins[i]
  /\ \A c \in DOMAIN w.detail : \A i \in DOMAIN w.detail[c].ins :
       i \notin UsedPorts(E, c, TRUE) => Alias(w.detail[c].ins[i], v.detail[c].ins[i])

LEMMA MergedNowhere ==
  ASSUME NEW w, NEW old, NEW E
  PROVE  Merged(w, w, old, E, {})
PROOF
  BY DEF Merged, SameShape, Alias

LEMMA MergedTwice ==
  ASSUME NEW w, NEW v, NEW u, NEW old, NEW E, NEW B, NEW C, B \subseteq DOMAIN w.detail,
         Merged(w, v, old, E, B), Merged(v, u, old, E, C)
  PROVE  Merged(w, u, old, E, B \cup C)
PROOF
<1>1. SameShape(w, v) /\ SameShape(v, u) /\ SameShape(w, u)
  BY DEF Merged, SameShape
<1>2. ASSUME NEW c \in B \cup C, NEW i \in UsedPorts(E, c, TRUE) PROVE Linked(u, E, c, i)
  <2>1. CASE c \in C
    BY <2>1 DEF Merged
  <2>2. CASE c \in B
    <3>1. Linked(v, E, c, i) /\ c \in DOMAIN v.detail
      BY <1>1, <2>2 DEF Merged, SameShape
    <3> QED BY <3>1 DEF Merged
  <2> QED BY <2>1, <2>2
<1>3. ASSUME NEW c \in DOMAIN w.detail, NEW i \in UsedPorts(E, c, TRUE), Linked(w, E, c, i)
      PROVE  /\ Linked(u, E, c, i)
             /\ c \in old.blocks /\ UpstreamEdge(E, c, i).src[1] \in old.blocks =>
                  u.detail[c].ins[i] = w.detail[c].ins[i]
  <2>1. /\ Linked(v, E, c, i) /\ c \in DOMAIN v.detail
        /\ c \in old.blocks /\ UpstreamEdge(E, c, i).src[1] \in old.blocks =>
             v.detail[c].ins[i] = w.detail[c].ins[i]
    BY <1>1, <1>3 DEF Merged, SameShape
  <2>2. /\ Linked(u, E, c, i)
        /\ c \in old.blocks /\ UpstreamEdge(E, c, i).src[1] \in old.blocks =>
             u.detail[c].ins[i] = v.detail[c].ins[i]
    BY <2>1 DEF Merged
  <2> QED BY <2>1, <2>2
<1>4. ASSUME NEW c \in DOMAIN w.detail, NEW i \in DOMAIN w.detail[c].ins,
             i \notin UsedPorts(E, c, TRUE)
      PROVE  Alias(w.detail[c].ins[i], u.detail[c].ins[i])
  <2>1. c \in DOMAIN v.detail /\ i \in DOMAIN v.detail[c].ins
    BY <1>1 DEF SameShape
  <2>2. /\ Alias(w.detail[c].ins[i], v.detail[c].ins[i])
        /\ Alias(v.detail[c].ins[i], u.detail[c].ins[i])
    BY <1>4, <2>1 DEF Merged
  <2> QED BY <2>2 DEF Alias
<1> QED BY <1>1, <1>2, <1>3, <1>4 DEF Merged

LEMMA MergedByLinks ==
  ASSUME NEW w, NEW v, NEW old, NEW E, NEW b \in DOMAIN w.detail,
         \A e \in E : e.src[1] \in DOMAIN w.detail, E \in Buildable,
         InputsLinked(w, v, E, b, UsedPorts(E, b, TRUE)),
         b \in old.blocks => KeptLinks(w, v, E, b)
  PROVE  Merged(w, v, old, E, {b})
PROOF
<1>1. SameShape(w, v) /\ \A i \in UsedPorts(E, b, TRUE) : Linked(v, E, b, i)
  BY DEF InputsLinked
<1>2. ASSUME NEW c \in DOMAIN w.detail, NEW i \in UsedPorts(E, c, TRUE), Linked(w, E, c, i)
      PROVE  /\ Linked(v, E, c, i)
             /\ c \in old.blocks => v.detail[c].ins[i] = w.detail[c].ins[i]
  <2>1. CASE c = b
    BY <1>1, <1>2, <2>1 DEF KeptLinks
  <2>2. CASE c # b
    <3>1. v.detail[c].ins[i] = w.detail[c].ins[i]
      BY <1>2, <2>2 DEF InputsLinked, Linked
    <3>2. UpstreamEdge(E, c, i).src[1] \in DOMAIN w.detail
      BY UpstreamFacts
    <3> QED BY <1>1, <1>2, <3>1, <3>2 DEF Linked, SameShape
  <2> QED BY <2>1, <2>2
<1>3. ASSUME NEW c \in DOMAIN w.detail, NEW i \in DOMAIN w.detail[c].ins,
             i \notin UsedPorts(E, c, TRUE)
      PROVE  Alias(w.detail[c].ins[i], v.detail[c].ins[i])
  BY <1>3 DEF InputsLinked, Alias
<1> QED BY <1>1, <1>2, <1>3 DEF Merged

LEMMA MergedByMoves ==
  ASSUME NEW s, NEW w, SoundWiring(w, s), NEW v, NEW old, NEW E, NEW b \in DOMAIN w.detail,
         \A e \in E : e.src[1] \in DOMAIN w.detail, E \in Buildable,
         b \notin old.blocks, MovedAround(w, v, b)
  PROVE  Merged(w, v, old, E, {})
PROOF
<1>1. SameShape(w, v)
  BY DEF MovedAround
<1>2. ASSUME NEW c \in DOMAIN w.detail, NEW i \in UsedPorts(E, c, TRUE), Linked(w, E, c, i)
      PROVE  /\ Linked(v, E, c, i)
             /\ c \in old.blocks /\ UpstreamEdge(E, c, i).src[1] \in old.blocks =>
                  v.detail[c].ins[i] = w.detail[c].ins[i]
  <2> DEFINE src == UpstreamEdge(E, c, i).src
             r == w.detail[c].ins[i]
             q == v.detail[c].ins[i]
  <2>1. src[1] \in DOMAIN w.detail
    BY UpstreamFacts
  <2>2. /\ i \in DOMAIN w.detail[c].ins /\ src[2] \in DOMAIN w.detail[src[1]].outs
        /\ r # NoReader /\ r.buffer = w.detail[src[1]].outs[src[2]]
    BY <1>2 DEF Linked
  <2>3. Alias(r, q) /\ (c # b /\ (r # NoReader => r.buffer.block # b) => q = r)
    BY <2>2 DEF MovedAround
  <2>4. Linked(v, E, c, i)
    BY Zenon, <1>1, <2>1, <2>2, <2>3 DEF Linked, SameShape, Alias
  <2>5. r.buffer.block = src[1]
    <3>1. SoundOutputs(w.detail[src[1]], src[1], w.written)
      BY <2>1 DEF SoundWiring, SoundDetail
    <3>2. \A p \in DOMAIN w.detail[src[1]].outs : w.detail[src[1]].outs[p].block = src[1]
      BY <3>1 DEF SoundOutputs
    <3> QED BY <2>2, <3>2
  <2> QED BY <2>3, <2>4, <2>5
<1>3. ASSUME NEW c \in DOMAIN w.detail, NEW i \in DOMAIN w.detail[c].ins
      PROVE  Alias(w.detail[c].ins[i], v.detail[c].ins[i])
  BY DEF MovedAround
<1> QED BY <1>1, <1>2, <1>3 DEF Merged

LEMMA MergeBlockFacts ==
  ASSUME NEW s, NEW w, SoundWiring(w, s), w.outcome = "ok",
         NEW E \in Buildable, NEW M \in SUBSET MsgCables, <<E, M>> \in Accepted,
         NEW b \in DOMAIN w.detail, b \in UsedBlocks(E, M), NEW old,
         \A e \in E : e.src[1] \in DOMAIN w.detail
  PROVE  LET v == MergeBlock(old, E, w, b)
         IN  SoundWiring(v, s) /\ (v.outcome = "ok" => Merged(w, v, old, E, {b}))
PROOF
<1> DEFINE v == MergeBlock(old, E, w, b)
<1>1. CASE b \in old.blocks
  <2> DEFINE u == ForEach(LAMBDA x, i : Rewire(E, b, x, i), w,
                          InOrder(0 .. Cardinality(UsedPorts(E, b, TRUE)) - 1))
  <2>1. /\ SoundWiring(u, s)
        /\ u.outcome = "ok" => /\ InputsLinked(w, u, E, b, UsedPorts(E, b, TRUE))
                               /\ KeptLinks(w, u, E, b)
    BY RewireAllFacts
  <2>2. v = u
    BY <1>1 DEF MergeBlock
  <2> HIDE DEF u, v
  <2>3. u.outcome = "ok" => Merged(w, u, old, E, {b})
    BY <2>1, MergedByLinks
  <2> QED BY <2>1, <2>2, <2>3 DEF v
<1>2. CASE b \notin old.blocks
  <2> DEFINE c == ConnectBlockInputs(E, w, b)
             a == AlignBuffers(c, b)
  <2>1. SoundWiring(c, s) /\ (c.outcome = "ok" => InputsLinked(w, c, E, b, UsedPorts(E, b, TRUE)))
    BY ConnectFacts
  <2>2. v = IF c.outcome = "ok" THEN a ELSE c
    BY <1>2 DEF MergeBlock
  <2> HIDE DEF c, a, v
  <2>3. CASE c.outcome # "ok"
    <3>1. v = c
      BY <2>2, <2>3
    <3> QED BY <2>1, <2>3, <3>1 DEF v
  <2>4. CASE c.outcome = "ok"
    <3>1. Merged(w, c, old, E, {b})
      BY <1>2, <2>1, <2>4, MergedByLinks
    <3>2. DOMAIN c.detail = DOMAIN w.detail
      BY <3>1 DEF Merged, SameShape
    <3>3. SoundWiring(a, s) /\ (a.outcome = "ok" => MovedAround(c, a, b))
      BY <2>1, <2>4, <3>2, AlignBuffersFacts DEF a
    <3>4. ASSUME a.outcome = "ok" PROVE Merged(w, a, old, E, {b})
      <4>1. Merged(c, a, old, E, {})
        BY <1>2, <2>1, <3>2, <3>3, <3>4, MergedByMoves
      <4>2. {b} \cup {} = {b} /\ {b} \subseteq DOMAIN w.detail
        OBVIOUS
      <4>3. Merged(w, a, old, E, {b} \cup {})
        BY <3>1, <4>1, <4>2, MergedTwice
      <4> QED BY <4>2, <4>3
    <3>5. v = a
      BY <2>2, <2>4
    <3> QED BY <3>3, <3>4, <3>5 DEF v
  <2> QED BY <2>3, <2>4
<1> QED BY <1>1, <1>2

LEMMA OrderOfUsed ==
  ASSUME NEW E \in Buildable, NEW M \in SUBSET MsgCables
  PROVE  LET seq == InOrder(UsedBlocks(E, M))
         IN  /\ Len(seq) \in Nat /\ \A k \in 1..Len(seq) : seq[k] \in UsedBlocks(E, M)
             /\ UsedBlocks(E, M) = {seq[j] : j \in 1..Len(seq)}
PROOF
<1> DEFINE T == UsedBlocks(E, M)
           seq == InOrder(T)
<1>1. T \in SUBSET Nat /\ IsFiniteSet(T)
  BY UsedFacts
<1> HIDE DEF T
<1>2. /\ Len(seq) \in Nat /\ (\A k \in 1..Len(seq) : seq[k] \in T)
      /\ \A x \in T : \E k \in 1..Len(seq) : seq[k] = x
  BY <1>1, InOrderFacts
<1>3. T = {seq[j] : j \in 1..Len(seq)}
  BY <1>2
<1> HIDE DEF seq
<1> QED BY <1>2, <1>3 DEF T, seq

\* v is w with a new detail, under the start s, for each of the blocks B
Allocated(w, v, E, B, s) ==
  /\ DOMAIN v.detail = DOMAIN w.detail \cup B
  /\ \A c \in DOMAIN w.detail \ B : v.detail[c] = w.detail[c]
  /\ \A c \in B :
       /\ v.detail[c].start = s
       /\ DOMAIN v.detail[c].ins = 0..(Cardinality(UsedPorts(E, c, TRUE)) - 1)
       /\ \A i \in DOMAIN v.detail[c].ins : v.detail[c].ins[i] = NoReader

LEMMA AllocatedNowhere ==
  ASSUME NEW w, NEW E, NEW s
  PROVE  Allocated(w, w, E, {}, s)
PROOF
  BY DEF Allocated

LEMMA OneMoreAllocated ==
  ASSUME NEW w, NEW v, NEW u, NEW E, NEW B, NEW b, NEW s,
         Allocated(w, v, E, B, s), DetailAdded(v, u, E, b, s)
  PROVE  Allocated(w, u, E, B \cup {b}, s)
PROOF
<1>1. DOMAIN u.detail = DOMAIN w.detail \cup (B \cup {b})
  BY DEF Allocated, DetailAdded
<1>2. ASSUME NEW c \in DOMAIN w.detail \ (B \cup {b})
      PROVE  u.detail[c] = w.detail[c]
  BY DEF Allocated, DetailAdded
<1>3. ASSUME NEW c \in B \cup {b}
      PROVE  /\ u.detail[c].start = s
             /\ DOMAIN u.detail[c].ins = 0..(Cardinality(UsedPorts(E, c, TRUE)) - 1)
             /\ \A i \in DOMAIN u.detail[c].ins : u.detail[c].ins[i] = NoReader
  <2>1. CASE c = b
    BY <2>1 DEF DetailAdded
  <2>2. CASE c # b
    <3>1. c \in B /\ u.detail[c] = v.detail[c]
      BY <2>2 DEF Allocated, DetailAdded
    <3> QED BY <3>1 DEF Allocated
  <2> QED BY <2>1, <2>2
<1> QED BY Zenon, <1>1, <1>2, <1>3 DEF Allocated

\* the details made by setup_connections
LEMMA AllocateAllFacts ==
  ASSUME NEW s \in Nat, NEW a, SoundWiring(a, s), NEW E \in Buildable, NEW M \in SUBSET MsgCables,
         s >= 1
  PROVE  LET v == ForEach(LAMBDA w, b : AllocateDetail(E, s, w, b), a, InOrder(UsedBlocks(E, M)))
         IN  SoundWiring(v, s) /\ (v.outcome = "ok" => Allocated(a, v, E, UsedBlocks(E, M), s))
PROOF
<1> DEFINE T == UsedBlocks(E, M)
<1> DEFINE first == a
           seq == InOrder(T)
           Step(v, b) == AllocateDetail(E, s, v, b)
           n == Len(seq)
           end == ForEach(Step, first, seq)
           Good(v, k) == Allocated(a, v, E, {seq[j] : j \in 1..k}, s)
           S == [k \in 0..n |-> {v \in Wirings : SoundWiring(v, s) /\ (v.outcome = "ok" => Good(v, k))}]
           F == [k \in 1..n |-> [v \in Wirings |-> IF v.outcome = "ok" THEN Step(v, seq[k]) ELSE v]]
           IsRun(g) == g = [k \in 0..n |-> IF k = 0 THEN first ELSE
                              IF g[k - 1].outcome = "ok" THEN Step(g[k - 1], seq[k]) ELSE g[k - 1]]
           after == CHOOSE g : IsRun(g)
<1>1. n \in Nat /\ (\A k \in 1..n : seq[k] \in T) /\ T = {seq[j] : j \in 1..n}
  BY OrderOfUsed
<1>a. T \subseteq Blocks
  BY UsedFacts
<1> HIDE DEF T, seq
<1>2. first \in S[0]
  <2>1. a.outcome = "ok" => Good(a, 0)
    <3>1. {seq[j] : j \in 1..0} = {}
      OBVIOUS
    <3> QED BY <3>1, AllocatedNowhere
  <2>2. a \in Wirings
    BY DEF SoundWiring
  <2>3. 0 \in 0..n
    <3> HIDE DEF n
    <3> QED BY <1>1
  <2> HIDE DEF Good
  <2> QED BY <2>1, <2>2, <2>3
<1>4. \A k \in 1..n : \A v \in S[k - 1] :
        F[k][v] \in S[k] /\ F[k][v] = IF v.outcome = "ok" THEN Step(v, seq[k]) ELSE v
  <2> SUFFICES ASSUME NEW k \in 1..n, NEW v \in S[k - 1]
               PROVE  F[k][v] \in S[k] /\ F[k][v] = IF v.outcome = "ok" THEN Step(v, seq[k]) ELSE v
    OBVIOUS
  <2>1. /\ v \in Wirings /\ SoundWiring(v, s) /\ k \in 0..n /\ k - 1 \in 0..n
        /\ (v.outcome = "ok" => Good(v, k - 1))
    BY <1>1
  <2>2. F[k][v] = IF v.outcome = "ok" THEN Step(v, seq[k]) ELSE v
    BY <2>1
  <2>3. CASE v.outcome # "ok"
    <3> HIDE DEF F, Good
    <3> QED BY <2>1, <2>2, <2>3
  <2>4. CASE v.outcome = "ok"
    <3> DEFINE b == seq[k]
               P == {seq[j] : j \in 1..(k - 1)}
               u == AllocateDetail(E, s, v, b)
    <3>1. b \in T /\ P \subseteq T /\ P \cup {b} = {seq[j] : j \in 1..k}
      <4> HIDE DEF n, S
      <4>1. 1..k = (1..(k - 1)) \cup {k} /\ 1..k \subseteq 1..n
        BY <1>1
      <4> QED BY <1>1, <4>1
    <3>2. F[k][v] = u
      BY <2>2, <2>4
    <3> HIDE DEF P, b, u
    <3>3. Allocated(a, v, E, P, s)
      BY <2>1, <2>4 DEF P
    <3>4. SoundWiring(u, s) /\ (u.outcome = "ok" => DetailAdded(v, u, E, b, s))
      <4>1. b \in Blocks /\ s \in 1..s
        BY <1>a, <3>1
      <4> QED BY <2>1, <2>4, <4>1, AllocateDetailFacts DEF u
    <3>5. SoundWiring(u, s)
      BY <3>4
    <3>6. u.outcome = "ok" => Good(u, k)
      BY <3>1, <3>3, <3>4, OneMoreAllocated
    <3> HIDE DEF F, Good
    <3> QED BY <2>1, <2>2, <3>2, <3>5, <3>6 DEF SoundWiring
  <2> QED BY <2>3, <2>4
<1> HIDE DEF S, F, Step, Good
<1>5. PICK g : Runs(g, n, S, first, F)
  BY <1>1, <1>2, <1>4, LoopRuns
<1>6. IsRun(g)
  <2> HIDE DEF n
  <2>1. \A k \in 0..n : \/ k = 0 /\ g[k] = first
                        \/ k # 0 /\ k \in 1..n /\ g[k] = F[k][g[k - 1]] /\ g[k - 1] \in S[k - 1]
    BY <1>1, <1>5, RunsFacts
  <2>2. \A k \in 0..n : g[k] = IF k = 0 THEN first ELSE
                         IF g[k - 1].outcome = "ok" THEN Step(g[k - 1], seq[k]) ELSE g[k - 1]
    BY <1>4, <2>1
  <2> QED BY <1>5, <2>2 DEF Runs
<1>7. IsRun(after)
  BY Zenon, <1>6
<1>8. end = after[n]
  BY DEF ForEach
<1>9. after[n] \in S[n]
  <2>1. after[0] = first /\ \A k \in 1..n : after[k] =
          IF after[k - 1].outcome = "ok" THEN Step(after[k - 1], seq[k]) ELSE after[k - 1]
    <3>1. 0 \in 0..n /\ \A k \in 1..n : k \in 0..n /\ k # 0
      BY <1>1
    <3> HIDE DEF after
    <3> QED BY <1>7, <3>1
  <2> HIDE DEF after
  <2>2. \A k \in 1..n : after[k - 1] \in S[k - 1] => after[k] \in S[k]
    BY <1>4, <2>1
  <2>3. n \in 0..n
    BY <1>1
  <2> QED BY <1>1, <1>2, <2>1, <2>2, <2>3, LoopKeeps
<1>10. SoundWiring(end, s) /\ (end.outcome = "ok" => Good(end, n))
  <2> HIDE DEF end, after, Good
  <2>1. end \in S[n] /\ n \in 0..n
    BY <1>1, <1>8, <1>9
  <2> QED BY <2>1 DEF S
<1>11. ForEach(LAMBDA w, b : AllocateDetail(E, s, w, b), a, InOrder(UsedBlocks(E, M))) = end
  BY DEF T, seq, Step
<1> HIDE DEF end
<1> QED BY <1>1, <1>10, <1>11 DEF Good, T

\* the details that merge_connections makes for the blocks that have none
LEMMA NewAllFacts ==
  ASSUME NEW s \in Nat, NEW a, SoundWiring(a, s), NEW E \in Buildable, NEW M \in SUBSET MsgCables,
         s >= 1
  PROVE  LET v == ForEach(LAMBDA w, b : IF b \in DOMAIN w.detail THEN w ELSE AllocateDetail(E, s, w, b), a, InOrder(UsedBlocks(E, M)))
         IN  SoundWiring(v, s) /\ (v.outcome = "ok" => Allocated(a, v, E, UsedBlocks(E, M) \ DOMAIN a.detail, s))
PROOF
<1> DEFINE T == UsedBlocks(E, M)
<1> DEFINE first == a
           seq == InOrder(T)
           Step(v, b) == IF b \in DOMAIN v.detail THEN v ELSE AllocateDetail(E, s, v, b)
           n == Len(seq)
           end == ForEach(Step, first, seq)
           Good(v, k) == Allocated(a, v, E, {seq[j] : j \in 1..k} \ DOMAIN a.detail, s)
           S == [k \in 0..n |-> {v \in Wirings : SoundWiring(v, s) /\ (v.outcome = "ok" => Good(v, k))}]
           F == [k \in 1..n |-> [v \in Wirings |-> IF v.outcome = "ok" THEN Step(v, seq[k]) ELSE v]]
           IsRun(g) == g = [k \in 0..n |-> IF k = 0 THEN first ELSE
                              IF g[k - 1].outcome = "ok" THEN Step(g[k - 1], seq[k]) ELSE g[k - 1]]
           after == CHOOSE g : IsRun(g)
<1>1. n \in Nat /\ (\A k \in 1..n : seq[k] \in T) /\ T = {seq[j] : j \in 1..n}
  BY OrderOfUsed
<1>a. T \subseteq Blocks
  BY UsedFacts
<1> HIDE DEF T, seq
<1>2. first \in S[0]
  <2>1. a.outcome = "ok" => Good(a, 0)
    <3>1. {seq[j] : j \in 1..0} = {}
      OBVIOUS
    <3> QED BY <3>1, AllocatedNowhere
  <2>2. a \in Wirings
    BY DEF SoundWiring
  <2>3. 0 \in 0..n
    <3> HIDE DEF n
    <3> QED BY <1>1
  <2> HIDE DEF Good
  <2> QED BY <2>1, <2>2, <2>3
<1>4. \A k \in 1..n : \A v \in S[k - 1] :
        F[k][v] \in S[k] /\ F[k][v] = IF v.outcome = "ok" THEN Step(v, seq[k]) ELSE v
  <2> SUFFICES ASSUME NEW k \in 1..n, NEW v \in S[k - 1]
               PROVE  F[k][v] \in S[k] /\ F[k][v] = IF v.outcome = "ok" THEN Step(v, seq[k]) ELSE v
    OBVIOUS
  <2>1. /\ v \in Wirings /\ SoundWiring(v, s) /\ k \in 0..n /\ k - 1 \in 0..n
        /\ (v.outcome = "ok" => Good(v, k - 1))
    BY <1>1
  <2>2. F[k][v] = IF v.outcome = "ok" THEN Step(v, seq[k]) ELSE v
    BY <2>1
  <2>3. CASE v.outcome # "ok"
    <3> HIDE DEF F, Good
    <3> QED BY <2>1, <2>2, <2>3
  <2>4. CASE v.outcome = "ok"
    <3> DEFINE b == seq[k]
               P == {seq[j] : j \in 1..(k - 1)}
               u == IF b \in DOMAIN v.detail THEN v ELSE AllocateDetail(E, s, v, b)
    <3>1. b \in T /\ P \subseteq T /\ P \cup {b} = {seq[j] : j \in 1..k}
      <4> HIDE DEF n, S
      <4>1. 1..k = (1..(k - 1)) \cup {k} /\ 1..k \subseteq 1..n
        BY <1>1
      <4> QED BY <1>1, <4>1
    <3>2. F[k][v] = u
      BY <2>2, <2>4
    <3> HIDE DEF P, b, u
    <3>3. Allocated(a, v, E, P \ DOMAIN a.detail, s)
      BY <2>1, <2>4 DEF P
    <3> DEFINE x == AllocateDetail(E, s, v, b)
    <3>4. SoundWiring(x, s) /\ (x.outcome = "ok" => DetailAdded(v, x, E, b, s))
      <4>1. b \in Blocks /\ s \in 1..s
        BY <1>a, <3>1
      <4> QED BY <2>1, <2>4, <4>1, AllocateDetailFacts
    <3> HIDE DEF x
    <3>5. SoundWiring(u, s)
      BY <2>1, <3>4 DEF u, x
    <3>6. u.outcome = "ok" => Good(u, k)
      <4>1. CASE b \in DOMAIN v.detail
        <5>1. u = v /\ (P \cup {b}) \ DOMAIN a.detail = P \ DOMAIN a.detail
          BY <3>3, <4>1 DEF u, Allocated
        <5> QED BY <3>1, <3>3, <5>1
      <4>2. CASE b \notin DOMAIN v.detail
        <5>1. /\ u = x /\ b \notin DOMAIN a.detail
              /\ (P \cup {b}) \ DOMAIN a.detail = (P \ DOMAIN a.detail) \cup {b}
          BY <3>3, <4>2 DEF u, x, Allocated
        <5>2. x.outcome = "ok" => Allocated(a, x, E, (P \ DOMAIN a.detail) \cup {b}, s)
          BY <3>3, <3>4, OneMoreAllocated
        <5> QED BY <3>1, <5>1, <5>2
      <4> QED BY <4>1, <4>2
    <3> HIDE DEF F, Good
    <3> QED BY <2>1, <2>2, <3>2, <3>5, <3>6 DEF SoundWiring
  <2> QED BY <2>3, <2>4
<1> HIDE DEF S, F, Step, Good
<1>5. PICK g : Runs(g, n, S, first, F)
  BY <1>1, <1>2, <1>4, LoopRuns
<1>6. IsRun(g)
  <2> HIDE DEF n
  <2>1. \A k \in 0..n : \/ k = 0 /\ g[k] = first
                        \/ k # 0 /\ k \in 1..n /\ g[k] = F[k][g[k - 1]] /\ g[k - 1] \in S[k - 1]
    BY <1>1, <1>5, RunsFacts
  <2>2. \A k \in 0..n : g[k] = IF k = 0 THEN first ELSE
                         IF g[k - 1].outcome = "ok" THEN Step(g[k - 1], seq[k]) ELSE g[k - 1]
    BY <1>4, <2>1
  <2> QED BY <1>5, <2>2 DEF Runs
<1>7. IsRun(after)
  BY <1>6
<1>8. end = after[n]
  BY DEF ForEach
<1>9. after[n] \in S[n]
  <2>1. after[0] = first /\ \A k \in 1..n : after[k] =
          IF after[k - 1].outcome = "ok" THEN Step(after[k - 1], seq[k]) ELSE after[k - 1]
    <3>1. 0 \in 0..n /\ \A k \in 1..n : k \in 0..n /\ k # 0
      BY <1>1
    <3> HIDE DEF after
    <3> QED BY <1>7, <3>1
  <2> HIDE DEF after
  <2>2. \A k \in 1..n : after[k - 1] \in S[k - 1] => after[k] \in S[k]
    BY <1>4, <2>1
  <2>3. n \in 0..n
    BY <1>1
  <2> QED BY <1>1, <1>2, <2>1, <2>2, <2>3, LoopKeeps
<1>10. SoundWiring(end, s) /\ (end.outcome = "ok" => Good(end, n))
  <2> HIDE DEF end, after, Good
  <2>1. end \in S[n] /\ n \in 0..n
    BY <1>1, <1>8, <1>9
  <2> QED BY <2>1 DEF S
<1>11. ForEach(LAMBDA w, b : IF b \in DOMAIN w.detail THEN w ELSE AllocateDetail(E, s, w, b), a, InOrder(UsedBlocks(E, M))) = end
  BY DEF T, seq, Step
<1> HIDE DEF end
<1> QED BY <1>1, <1>10, <1>11 DEF Good, T

\* the readers that setup_connections gives to all blocks
LEMMA ConnectAllFacts ==
  ASSUME NEW s \in Nat, NEW a, SoundWiring(a, s), NEW E \in Buildable, NEW M \in SUBSET MsgCables,
         a.outcome = "ok" => UsedBlocks(E, M) \subseteq DOMAIN a.detail
  PROVE  LET v == ForEach(LAMBDA w, b : ConnectBlockInputs(E, w, b), a, InOrder(UsedBlocks(E, M)))
         IN  SoundWiring(v, s) /\ (v.outcome = "ok" => a.outcome = "ok" /\ Merged(a, v, NoGraph, E, UsedBlocks(E, M)))
PROOF
<1> DEFINE T == UsedBlocks(E, M)
<1> DEFINE first == a
           seq == InOrder(T)
           Step(v, b) == ConnectBlockInputs(E, v, b)
           n == Len(seq)
           end == ForEach(Step, first, seq)
           Good(v, k) == a.outcome = "ok" /\ Merged(a, v, NoGraph, E, {seq[j] : j \in 1..k})
           S == [k \in 0..n |-> {v \in Wirings : SoundWiring(v, s) /\ (v.outcome = "ok" => Good(v, k))}]
           F == [k \in 1..n |-> [v \in Wirings |-> IF v.outcome = "ok" THEN Step(v, seq[k]) ELSE v]]
           IsRun(g) == g = [k \in 0..n |-> IF k = 0 THEN first ELSE
                              IF g[k - 1].outcome = "ok" THEN Step(g[k - 1], seq[k]) ELSE g[k - 1]]
           after == CHOOSE g : IsRun(g)
<1>1. n \in Nat /\ (\A k \in 1..n : seq[k] \in T) /\ T = {seq[j] : j \in 1..n}
  BY OrderOfUsed
<1>a. T \subseteq Blocks
  BY UsedFacts
<1> HIDE DEF T, seq
<1>2. first \in S[0]
  <2>1. a.outcome = "ok" => Good(a, 0)
    <3>1. {seq[j] : j \in 1..0} = {}
      OBVIOUS
    <3> QED BY <3>1, MergedNowhere
  <2>2. a \in Wirings
    BY DEF SoundWiring
  <2>3. 0 \in 0..n
    <3> HIDE DEF n
    <3> QED BY <1>1
  <2> HIDE DEF Good
  <2> QED BY <2>1, <2>2, <2>3
<1>4. \A k \in 1..n : \A v \in S[k - 1] :
        F[k][v] \in S[k] /\ F[k][v] = IF v.outcome = "ok" THEN Step(v, seq[k]) ELSE v
  <2> SUFFICES ASSUME NEW k \in 1..n, NEW v \in S[k - 1]
               PROVE  F[k][v] \in S[k] /\ F[k][v] = IF v.outcome = "ok" THEN Step(v, seq[k]) ELSE v
    OBVIOUS
  <2>1. /\ v \in Wirings /\ SoundWiring(v, s) /\ k \in 0..n /\ k - 1 \in 0..n
        /\ (v.outcome = "ok" => Good(v, k - 1))
    BY <1>1
  <2>2. F[k][v] = IF v.outcome = "ok" THEN Step(v, seq[k]) ELSE v
    BY <2>1
  <2>3. CASE v.outcome # "ok"
    <3> HIDE DEF F, Good
    <3> QED BY <2>1, <2>2, <2>3
  <2>4. CASE v.outcome = "ok"
    <3> DEFINE b == seq[k]
               P == {seq[j] : j \in 1..(k - 1)}
               u == ConnectBlockInputs(E, v, b)
    <3>1. b \in T /\ P \subseteq T /\ P \cup {b} = {seq[j] : j \in 1..k}
      <4> HIDE DEF n, S
      <4>1. 1..k = (1..(k - 1)) \cup {k} /\ 1..k \subseteq 1..n
        BY <1>1
      <4> QED BY <1>1, <4>1
    <3>2. F[k][v] = u
      BY <2>2, <2>4
    <3> HIDE DEF P, b, u
    <3>3. a.outcome = "ok" /\ Merged(a, v, NoGraph, E, P) /\ DOMAIN v.detail = DOMAIN a.detail
      BY <2>1, <2>4 DEF P, Merged, SameShape
    <3>4. b \in DOMAIN v.detail /\ \A e \in E : e.src[1] \in DOMAIN v.detail
      BY <3>1, <3>3, UsedFacts DEF T
    <3>5. SoundWiring(u, s)
      BY <2>1, <2>4, <3>4, ConnectFacts DEF u
    <3>6. u.outcome = "ok" => Good(u, k)
      <4> SUFFICES ASSUME u.outcome = "ok" PROVE Merged(a, u, NoGraph, E, P \cup {b})
        BY <3>1, <3>3
      <4>1. InputsLinked(v, u, E, b, UsedPorts(E, b, TRUE))
        BY <2>1, <2>4, <3>4, ConnectFacts DEF u
      <4>2. Merged(v, u, NoGraph, E, {b})
        BY <3>4, <4>1, MergedByLinks DEF NoGraph
      <4>3. P \subseteq DOMAIN a.detail
        BY <3>1, <3>3 DEF T
      <4> QED BY <3>3, <4>2, <4>3, MergedTwice
    <3> HIDE DEF F, Good
    <3> QED BY <2>1, <2>2, <3>2, <3>5, <3>6 DEF SoundWiring
  <2> QED BY <2>3, <2>4
<1> HIDE DEF S, F, Step, Good
<1>5. PICK g : Runs(g, n, S, first, F)
  BY <1>1, <1>2, <1>4, LoopRuns
<1>6. IsRun(g)
  <2> HIDE DEF n
  <2>1. \A k \in 0..n : \/ k = 0 /\ g[k] = first
                        \/ k # 0 /\ k \in 1..n /\ g[k] = F[k][g[k - 1]] /\ g[k - 1] \in S[k - 1]
    BY <1>1, <1>5, RunsFacts
  <2>2. \A k \in 0..n : g[k] = IF k = 0 THEN first ELSE
                         IF g[k - 1].outcome = "ok" THEN Step(g[k - 1], seq[k]) ELSE g[k - 1]
    BY Z3, <1>4, <2>1
  <2> QED BY <1>5, <2>2 DEF Runs
<1>7. IsRun(after)
  BY Zenon, <1>6
<1>8. end = after[n]
  BY DEF ForEach
<1>9. after[n] \in S[n]
  <2>1. after[0] = first /\ \A k \in 1..n : after[k] =
          IF after[k - 1].outcome = "ok" THEN Step(after[k - 1], seq[k]) ELSE after[k - 1]
    <3>1. 0 \in 0..n /\ \A k \in 1..n : k \in 0..n /\ k # 0
      BY <1>1
    <3> HIDE DEF after
    <3> QED BY <1>7, <3>1
  <2> HIDE DEF after
  <2>2. \A k \in 1..n : after[k - 1] \in S[k - 1] => after[k] \in S[k]
    BY <1>4, <2>1
  <2>3. n \in 0..n
    BY <1>1
  <2> QED BY <1>1, <1>2, <2>1, <2>2, <2>3, LoopKeeps
<1>10. SoundWiring(end, s) /\ (end.outcome = "ok" => Good(end, n))
  <2> HIDE DEF end, after, Good
  <2>1. end \in S[n] /\ n \in 0..n
    BY <1>1, <1>8, <1>9
  <2> QED BY <2>1 DEF S
<1>11. ForEach(LAMBDA w, b : ConnectBlockInputs(E, w, b), a, InOrder(UsedBlocks(E, M))) = end
  BY DEF T, seq, Step
<1> HIDE DEF end
<1> QED BY <1>1, <1>10, <1>11 DEF Good, T

\* what merge_connections does to all blocks
MergeAll(old, E, M, a) ==
  ForEach(LAMBDA w, b : MergeBlock(old, E, w, b), a, InOrder(UsedBlocks(E, M)))

LEMMA MergeAllFacts ==
  ASSUME NEW s \in Nat, NEW a, SoundWiring(a, s), NEW E \in Buildable, NEW M \in SUBSET MsgCables,
         <<E, M>> \in Accepted, NEW old, a.outcome = "ok" => UsedBlocks(E, M) \subseteq DOMAIN a.detail
  PROVE  LET v == MergeAll(old, E, M, a)
         IN  SoundWiring(v, s) /\ (v.outcome = "ok" => a.outcome = "ok" /\ Merged(a, v, old, E, UsedBlocks(E, M)))
PROOF
<1> DEFINE T == UsedBlocks(E, M)
<1> DEFINE first == a
           seq == InOrder(T)
           Step(v, b) == MergeBlock(old, E, v, b)
           n == Len(seq)
           end == ForEach(Step, first, seq)
           Good(v, k) == a.outcome = "ok" /\ Merged(a, v, old, E, {seq[j] : j \in 1..k})
           S == [k \in 0..n |-> {v \in Wirings : SoundWiring(v, s) /\ (v.outcome = "ok" => Good(v, k))}]
           F == [k \in 1..n |-> [v \in Wirings |-> IF v.outcome = "ok" THEN Step(v, seq[k]) ELSE v]]
           IsRun(g) == g = [k \in 0..n |-> IF k = 0 THEN first ELSE
                              IF g[k - 1].outcome = "ok" THEN Step(g[k - 1], seq[k]) ELSE g[k - 1]]
           after == CHOOSE g : IsRun(g)
<1>1. n \in Nat /\ (\A k \in 1..n : seq[k] \in T) /\ T = {seq[j] : j \in 1..n}
  BY OrderOfUsed
<1>a. T \subseteq Blocks
  BY UsedFacts
<1> HIDE DEF T, seq
<1>2. first \in S[0]
  <2>1. a.outcome = "ok" => Good(a, 0)
    <3>1. {seq[j] : j \in 1..0} = {}
      OBVIOUS
    <3> QED BY <3>1, MergedNowhere
  <2>2. a \in Wirings
    BY DEF SoundWiring
  <2>3. 0 \in 0..n
    <3> HIDE DEF n
    <3> QED BY <1>1
  <2> HIDE DEF Good
  <2> QED BY <2>1, <2>2, <2>3
<1>4. \A k \in 1..n : \A v \in S[k - 1] :
        F[k][v] \in S[k] /\ F[k][v] = IF v.outcome = "ok" THEN Step(v, seq[k]) ELSE v
  <2> SUFFICES ASSUME NEW k \in 1..n, NEW v \in S[k - 1]
               PROVE  F[k][v] \in S[k] /\ F[k][v] = IF v.outcome = "ok" THEN Step(v, seq[k]) ELSE v
    OBVIOUS
  <2>1. /\ v \in Wirings /\ SoundWiring(v, s) /\ k \in 0..n /\ k - 1 \in 0..n
        /\ (v.outcome = "ok" => Good(v, k - 1))
    BY <1>1
  <2>2. F[k][v] = IF v.outcome = "ok" THEN Step(v, seq[k]) ELSE v
    BY <2>1
  <2>3. CASE v.outcome # "ok"
    <3> HIDE DEF F, Good
    <3> QED BY <2>1, <2>2, <2>3
  <2>4. CASE v.outcome = "ok"
    <3> DEFINE b == seq[k]
               P == {seq[j] : j \in 1..(k - 1)}
               u == MergeBlock(old, E, v, b)
    <3>1. b \in T /\ P \subseteq T /\ P \cup {b} = {seq[j] : j \in 1..k}
      <4> HIDE DEF n, S
      <4>1. 1..k = (1..(k - 1)) \cup {k} /\ 1..k \subseteq 1..n
        BY <1>1
      <4> QED BY <1>1, <4>1
    <3>2. F[k][v] = u
      BY <2>2, <2>4
    <3> HIDE DEF P, b, u
    <3>3. a.outcome = "ok" /\ Merged(a, v, old, E, P) /\ DOMAIN v.detail = DOMAIN a.detail
      BY <2>1, <2>4 DEF P, Merged, SameShape
    <3>4. b \in DOMAIN v.detail /\ \A e \in E : e.src[1] \in DOMAIN v.detail
      BY <3>1, <3>3, UsedFacts DEF T
    <3>5. SoundWiring(u, s) /\ (u.outcome = "ok" => Merged(v, u, old, E, {b}))
      <4>1. b \in UsedBlocks(E, M)
        BY <3>1 DEF T
      <4> QED BY <2>1, <2>4, <3>4, <4>1, MergeBlockFacts DEF u
    <3>6. u.outcome = "ok" => Good(u, k)
      <4> SUFFICES ASSUME u.outcome = "ok" PROVE Merged(a, u, old, E, P \cup {b})
        BY <3>1, <3>3
      <4>3. P \subseteq DOMAIN a.detail
        BY <3>1, <3>3 DEF T
      <4> QED BY <3>3, <3>5, <4>3, MergedTwice
    <3> HIDE DEF F, Good
    <3> QED BY <2>1, <2>2, <3>2, <3>5, <3>6 DEF SoundWiring
  <2> QED BY <2>3, <2>4
<1> HIDE DEF S, F, Step, Good
<1>5. PICK g : Runs(g, n, S, first, F)
  BY <1>1, <1>2, <1>4, LoopRuns
<1>6. IsRun(g)
  <2> HIDE DEF n
  <2>1. \A k \in 0..n : \/ k = 0 /\ g[k] = first
                        \/ k # 0 /\ k \in 1..n /\ g[k] = F[k][g[k - 1]] /\ g[k - 1] \in S[k - 1]
    BY <1>1, <1>5, RunsFacts
  <2>2. \A k \in 0..n : g[k] = IF k = 0 THEN first ELSE
                         IF g[k - 1].outcome = "ok" THEN Step(g[k - 1], seq[k]) ELSE g[k - 1]
    BY <1>4, <2>1
  <2> QED BY <1>5, <2>2 DEF Runs
<1>7. IsRun(after)
  BY Zenon, <1>6
<1>8. end = after[n]
  BY DEF ForEach
<1>9. after[n] \in S[n]
  <2>1. after[0] = first /\ \A k \in 1..n : after[k] =
          IF after[k - 1].outcome = "ok" THEN Step(after[k - 1], seq[k]) ELSE after[k - 1]
    <3>1. 0 \in 0..n /\ \A k \in 1..n : k \in 0..n /\ k # 0
      BY <1>1
    <3> HIDE DEF after
    <3> QED BY <1>7, <3>1
  <2> HIDE DEF after
  <2>2. \A k \in 1..n : after[k - 1] \in S[k - 1] => after[k] \in S[k]
    BY <1>4, <2>1
  <2>3. n \in 0..n
    BY <1>1
  <2> QED BY <1>1, <1>2, <2>1, <2>2, <2>3, LoopKeeps
<1>10. SoundWiring(end, s) /\ (end.outcome = "ok" => Good(end, n))
  <2> HIDE DEF end, after, Good
  <2>1. end \in S[n] /\ n \in 0..n
    BY <1>1, <1>8, <1>9
  <2> QED BY <2>1 DEF S
<1>11. MergeAll(old, E, M, a) = end
  BY DEF MergeAll, T, seq, Step
<1> HIDE DEF end
<1> QED BY <1>1, <1>10, <1>11 DEF Good, T

LEMMA FromWholeSet ==
  ASSUME NEW G, IsFiniteSet(G)
  PROVE  LET seq == SetToSeq(G)
         IN  /\ Len(seq) \in Nat /\ \A k \in 1..Len(seq) : seq[k] \in G
             /\ G = {seq[j] : j \in 1..Len(seq)}
PROOF
<1> DEFINE D == 1..Cardinality(G)
           seq == SetToSeq(G)
<1>1. PICK f : f \in Bijection(D, G)
  BY FS_CardinalityType DEF ExistsBijection
<1>2. f \in [D -> G] /\ IsInjective(f)
  BY <1>1 DEF Bijection, Injection, IsInjective
<1>3. seq \in [D -> G] /\ IsInjective(seq)
  BY <1>2, Zenon DEF SetToSeq
<1> HIDE DEF seq
<1>4. Cardinality(G) \in Nat /\ IsFiniteSet(D) /\ Cardinality(D) = Cardinality(G)
  BY FS_CardinalityType, FS_Interval
<1>5. seq \in Injection(D, G)
  BY <1>3 DEF Injection, IsInjective
<1>6. seq \in Surjection(D, G)
  <2> HIDE DEF D
  <2> QED BY <1>4, <1>5, FS_Injection
<1>7. Len(seq) = Cardinality(G)
  BY <1>3, <1>4
<1>8. G = {seq[j] : j \in D}
  BY <1>3, <1>6 DEF Surjection
<1> QED BY <1>3, <1>4, <1>7, <1>8 DEF seq

\* v is w without the readers at the right ends of the edges G
Cleared(w, v, G) ==
  /\ SameShape(w, v)
  /\ \A c \in DOMAIN w.detail : \A j \in DOMAIN w.detail[c].ins :
       v.detail[c].ins[j] = IF \E e \in G : e.dst[1] = c /\ e.dst[2] = j THEN NoReader
                            ELSE w.detail[c].ins[j]

LEMMA ClearAllFacts ==
  ASSUME NEW s \in Nat, NEW a, SoundWiring(a, s), NEW G, IsFiniteSet(G),
         a.outcome = "ok" => \A e \in G : e.dst[1] \in DOMAIN a.detail
  PROVE  LET v == ForEach(ClearReader, a, SetToSeq(G))
         IN  SoundWiring(v, s) /\ (v.outcome = "ok" => a.outcome = "ok" /\ Cleared(a, v, G))
PROOF
<1> DEFINE first == a
           seq == SetToSeq(G)
           Step(v, e) == ClearReader(v, e)
           n == Len(seq)
           end == ForEach(Step, first, seq)
           Good(v, k) == a.outcome = "ok" /\ Cleared(a, v, {seq[j] : j \in 1..k})
           S == [k \in 0..n |-> {v \in Wirings : SoundWiring(v, s) /\ (v.outcome = "ok" => Good(v, k))}]
           F == [k \in 1..n |-> [v \in Wirings |-> IF v.outcome = "ok" THEN Step(v, seq[k]) ELSE v]]
           IsRun(g) == g = [k \in 0..n |-> IF k = 0 THEN first ELSE
                              IF g[k - 1].outcome = "ok" THEN Step(g[k - 1], seq[k]) ELSE g[k - 1]]
           after == CHOOSE g : IsRun(g)
<1>1. n \in Nat /\ (\A k \in 1..n : seq[k] \in G) /\ G = {seq[j] : j \in 1..n}
  BY FromWholeSet
<1> HIDE DEF seq
<1>2. first \in S[0]
  <2>1. a.outcome = "ok" => Good(a, 0)
    <3>1. {seq[j] : j \in 1..0} = {}
      OBVIOUS
    <3>2. Cleared(a, a, {})
      BY DEF Cleared, SameShape
    <3> QED BY <3>1, <3>2
  <2>2. a \in Wirings
    BY DEF SoundWiring
  <2>3. 0 \in 0..n
    <3> HIDE DEF n
    <3> QED BY <1>1
  <2> HIDE DEF Good
  <2> QED BY <2>1, <2>2, <2>3
<1>4. \A k \in 1..n : \A v \in S[k - 1] :
        F[k][v] \in S[k] /\ F[k][v] = IF v.outcome = "ok" THEN Step(v, seq[k]) ELSE v
  <2> SUFFICES ASSUME NEW k \in 1..n, NEW v \in S[k - 1]
               PROVE  F[k][v] \in S[k] /\ F[k][v] = IF v.outcome = "ok" THEN Step(v, seq[k]) ELSE v
    OBVIOUS
  <2>1. /\ v \in Wirings /\ SoundWiring(v, s) /\ k \in 0..n /\ k - 1 \in 0..n
        /\ (v.outcome = "ok" => Good(v, k - 1))
    BY <1>1
  <2>2. F[k][v] = IF v.outcome = "ok" THEN Step(v, seq[k]) ELSE v
    BY <2>1
  <2>3. CASE v.outcome # "ok"
    <3> HIDE DEF F, Good
    <3> QED BY <2>1, <2>2, <2>3
  <2>4. CASE v.outcome = "ok"
    <3> DEFINE e == seq[k]
               P == {seq[j] : j \in 1..(k - 1)}
               u == ClearReader(v, e)
    <3>1. e \in G /\ P \subseteq G /\ P \cup {e} = {seq[j] : j \in 1..k}
      <4> HIDE DEF n, S
      <4>1. 1..k = (1..(k - 1)) \cup {k} /\ 1..k \subseteq 1..n
        BY <1>1
      <4> QED BY <1>1, <4>1
    <3>2. F[k][v] = u
      BY <2>2, <2>4
    <3> HIDE DEF P, e, u
    <3>3. a.outcome = "ok" /\ Cleared(a, v, P) /\ SameShape(a, v) /\ DOMAIN v.detail = DOMAIN a.detail
      BY <2>1, <2>4 DEF P, Cleared, SameShape
    <3>4. e.dst[1] \in DOMAIN v.detail
      BY <3>1, <3>3
    <3>5. /\ SoundWiring(u, s)
          /\ u.outcome = "ok" => OneInput(v, u, e.dst[1], e.dst[2], NoReader)
      BY <2>1, <2>4, <3>4, ClearFacts DEF u
    <3>6. u.outcome = "ok" => Good(u, k)
      <4> SUFFICES ASSUME u.outcome = "ok" PROVE Cleared(a, u, P \cup {e})
        BY <3>1, <3>3
      <4>1. SameShape(a, u)
        BY <3>3, <3>5 DEF OneInput, SameShape
      <4>2. ASSUME NEW c \in DOMAIN a.detail, NEW j \in DOMAIN a.detail[c].ins
            PROVE  u.detail[c].ins[j] =
                     IF \E x \in P \cup {e} : x.dst[1] = c /\ x.dst[2] = j THEN NoReader
                     ELSE a.detail[c].ins[j]
        <5>1. c \in DOMAIN v.detail /\ j \in DOMAIN v.detail[c].ins
          BY <3>3 DEF SameShape
        <5>2. u.detail[c].ins[j] = IF c = e.dst[1] /\ j = e.dst[2] THEN NoReader
                                   ELSE v.detail[c].ins[j]
          BY <3>5, <5>1 DEF OneInput
        <5>3. v.detail[c].ins[j] = IF \E x \in P : x.dst[1] = c /\ x.dst[2] = j THEN NoReader
                                   ELSE a.detail[c].ins[j]
          BY <3>3 DEF Cleared
        <5> QED BY <5>2, <5>3
      <4> QED BY <4>1, <4>2 DEF Cleared
    <3> HIDE DEF F, Good
    <3> QED BY <2>1, <2>2, <3>2, <3>5, <3>6 DEF SoundWiring
  <2> QED BY <2>3, <2>4
<1> HIDE DEF S, F, Step, Good
<1>5. PICK g : Runs(g, n, S, first, F)
  BY <1>1, <1>2, <1>4, LoopRuns
<1>6. IsRun(g)
  <2> HIDE DEF n
  <2>1. \A k \in 0..n : \/ k = 0 /\ g[k] = first
                        \/ k # 0 /\ k \in 1..n /\ g[k] = F[k][g[k - 1]] /\ g[k - 1] \in S[k - 1]
    BY <1>1, <1>5, RunsFacts
  <2>2. \A k \in 0..n : g[k] = IF k = 0 THEN first ELSE
                         IF g[k - 1].outcome = "ok" THEN Step(g[k - 1], seq[k]) ELSE g[k - 1]
    BY Z3, <1>4, <2>1
  <2> QED BY <1>5, <2>2 DEF Runs
<1>7. IsRun(after)
  BY Zenon, <1>6
<1>8. end = after[n]
  BY DEF ForEach
<1>9. after[n] \in S[n]
  <2>1. after[0] = first /\ \A k \in 1..n : after[k] =
          IF after[k - 1].outcome = "ok" THEN Step(after[k - 1], seq[k]) ELSE after[k - 1]
    <3>1. 0 \in 0..n /\ \A k \in 1..n : k \in 0..n /\ k # 0
      BY <1>1
    <3> HIDE DEF after
    <3> QED BY <1>7, <3>1
  <2> HIDE DEF after
  <2>2. \A k \in 1..n : after[k - 1] \in S[k - 1] => after[k] \in S[k]
    BY <1>4, <2>1
  <2>3. n \in 0..n
    BY <1>1
  <2> QED BY <1>1, <1>2, <2>1, <2>2, <2>3, LoopKeeps
<1>10. SoundWiring(end, s) /\ (end.outcome = "ok" => Good(end, n))
  <2> HIDE DEF end, after, Good
  <2>1. end \in S[n] /\ n \in 0..n
    BY <1>1, <1>8, <1>9
  <2> QED BY <2>1 DEF S
<1>11. ForEach(ClearReader, a, SetToSeq(G)) = end
  BY DEF ForEach, seq, Step
<1> HIDE DEF end
<1> QED BY <1>1, <1>10, <1>11 DEF Good
-----------------------------------------------------------------------------
(* What setup_connections and merge_connections leave when nothing goes    *)
(* wrong.                                                                  *)

\* each connection of E is wired
AllLinked(w, E) ==
  \A e \in E :
    /\ e.src[1] \in DOMAIN w.detail /\ e.dst[1] \in DOMAIN w.detail
    /\ e.dst[2] \in DOMAIN w.detail[e.dst[1]].ins /\ e.src[2] \in DOMAIN w.detail[e.src[1]].outs
    /\ w.detail[e.dst[1]].ins[e.dst[2]] # NoReader
    /\ w.detail[e.dst[1]].ins[e.dst[2]].buffer = w.detail[e.src[1]].outs[e.src[2]]

\* readers that belong to no connection of E are older than the start s, and so is what they read
OthersAreOlder(w, E, s) ==
  \A b \in DOMAIN w.detail : \A i \in DOMAIN w.detail[b].ins :
    LET r == w.detail[b].ins[i]
    IN  r # NoReader /\ ~(\E e \in E : e.dst = <<b, i>>) =>
          w.detail[b].start < s /\ r.buffer.start < s

LEMMA LaterWiring ==
  ASSUME NEW s \in Nat, NEW w, SoundWiring(w, s)
  PROVE  SoundWiring(w, s + 1)
PROOF
<1>1. \A k \in 1..s : k \in 1..(s + 1)
  OBVIOUS
<1>2. SoundWritten(w.written, s + 1)
  BY <1>1 DEF SoundWiring, SoundWritten
<1>3. \A b \in DOMAIN w.detail : SoundDetail(w.detail[b], b, w.written, s + 1)
  BY <1>1 DEF SoundWiring, SoundDetail
<1> QED BY <1>2, <1>3 DEF SoundWiring

LEMMA MergedLinks ==
  ASSUME NEW w, NEW v, NEW old, NEW E \in Buildable, NEW M \in SUBSET MsgCables,
         UsedBlocks(E, M) \subseteq DOMAIN w.detail, Merged(w, v, old, E, UsedBlocks(E, M))
  PROVE  AllLinked(v, E)
PROOF
<1> SUFFICES ASSUME NEW e \in E
             PROVE  /\ e.src[1] \in DOMAIN v.detail /\ e.dst[1] \in DOMAIN v.detail
                    /\ e.dst[2] \in DOMAIN v.detail[e.dst[1]].ins
                    /\ e.src[2] \in DOMAIN v.detail[e.src[1]].outs
                    /\ v.detail[e.dst[1]].ins[e.dst[2]] # NoReader
                    /\ v.detail[e.dst[1]].ins[e.dst[2]].buffer = v.detail[e.src[1]].outs[e.src[2]]
  BY DEF AllLinked
<1>1. DOMAIN v.detail = DOMAIN w.detail
  BY DEF Merged, SameShape
<1>2. e.src[1] \in UsedBlocks(E, M) /\ e.dst[1] \in UsedBlocks(E, M)
  BY UsedFacts
<1>3. e.dst = <<e.dst[1], e.dst[2]>>
  <2>1. e.dst \in Blocks \X Nat
    BY GraphFacts
  <2> QED BY <2>1
<1> DEFINE b == e.dst[1]
           i == e.dst[2]
<1>4. i \in UsedPorts(E, b, TRUE) /\ UpstreamEdge(E, b, i) = e
  <2>1. e.dst = <<b, i>>
    BY <1>3
  <2> HIDE DEF b, i
  <2>2. \A j : e.dst = <<b, j>> => UpstreamEdge(E, b, j) = e /\ j \in UsedPorts(E, b, TRUE)
    BY UpstreamFacts
  <2> QED BY Zenon, <2>1, <2>2
<1>5. Linked(v, E, e.dst[1], e.dst[2])
  BY <1>2, <1>4 DEF Merged
<1> QED BY <1>1, <1>2, <1>4, <1>5 DEF Linked

LEMMA SetupFacts ==
  ASSUME starts \in Nat, SoundWiring(Now, starts), NEW E \in Buildable, NEW M \in SUBSET MsgCables,
         <<E, M>> \in Accepted
  PROVE  LET v == Setup(E, M, starts + 1)
         IN  /\ SoundWiring(v, starts + 1)
             /\ v.outcome = "ok" => /\ UsedBlocks(E, M) \subseteq DOMAIN v.detail
                                    /\ AllLinked(v, E) /\ OthersAreOlder(v, E, starts + 1)
PROOF
<1> DEFINE s == starts + 1
           T == UsedBlocks(E, M)
           w == Now
           a == ForEach(LAMBDA x, b : AllocateDetail(E, s, x, b), w, InOrder(T))
           v == ForEach(LAMBDA x, b : ConnectBlockInputs(E, x, b), a, InOrder(T))
<1>1. v = Setup(E, M, starts + 1)
  BY DEF Setup
<1>2. s \in Nat /\ s >= 1 /\ SoundWiring(w, s) /\ w.outcome = "ok"
  <2>1. SoundWiring(w, s)
    BY LaterWiring
  <2> QED BY <2>1 DEF Now
<1>3. \A x \in 1..starts : x < s
  OBVIOUS
<1> HIDE DEF w
<1>4. SoundWiring(a, s) /\ (a.outcome = "ok" => Allocated(w, a, E, T, s))
  <2> HIDE DEF s
  <2> QED BY <1>2, AllocateAllFacts
<1> HIDE DEF a
<1>5. a.outcome = "ok" => T \subseteq DOMAIN a.detail
  BY <1>4 DEF Allocated
<1>6. SoundWiring(v, s) /\ (v.outcome = "ok" => a.outcome = "ok" /\ Merged(a, v, NoGraph, E, T))
  <2> HIDE DEF s
  <2> QED BY <1>2, <1>4, <1>5, ConnectAllFacts
<1> HIDE DEF v, s
<1>7. ASSUME v.outcome = "ok"
      PROVE  T \subseteq DOMAIN v.detail /\ AllLinked(v, E) /\ OthersAreOlder(v, E, s)
  <2>1. /\ Allocated(w, a, E, T, s) /\ Merged(a, v, NoGraph, E, T) /\ SameShape(a, v)
        /\ T \subseteq DOMAIN a.detail
    BY <1>4, <1>5, <1>6, <1>7 DEF Merged
  <2>2. AllLinked(v, E)
    BY <2>1, MergedLinks
  <2>3. ASSUME NEW b \in DOMAIN v.detail, NEW i \in DOMAIN v.detail[b].ins,
               v.detail[b].ins[i] # NoReader, ~(\E e \in E : e.dst = <<b, i>>)
        PROVE  v.detail[b].start < s /\ v.detail[b].ins[i].buffer.start < s
    <3>1. b \in DOMAIN a.detail /\ i \in DOMAIN a.detail[b].ins
      BY <2>1, <2>3 DEF SameShape
    <3>2. i \notin UsedPorts(E, b, TRUE)
      BY <2>3, UpstreamFacts
    <3>3. Alias(a.detail[b].ins[i], v.detail[b].ins[i])
      BY <2>1, <3>1, <3>2 DEF Merged
    <3>4. /\ a.detail[b].ins[i] # NoReader
          /\ a.detail[b].ins[i].buffer = v.detail[b].ins[i].buffer
      BY <2>3, <3>3 DEF Alias
    <3>5. b \in DOMAIN w.detail /\ a.detail[b] = w.detail[b]
      BY <2>1, <3>1, <3>4 DEF Allocated
    <3>6. /\ w.detail[b].start \in 1..starts
          /\ w.detail[b].ins[i].buffer \in DOMAIN w.written
          /\ \A buffer \in DOMAIN w.written : buffer.start \in 1..starts
      <4>1. SoundDetail(w.detail[b], b, w.written, starts) /\ SoundWritten(w.written, starts)
        BY <3>5 DEF SoundWiring, w
      <4> QED BY <3>1, <3>4, <3>5, <4>1 DEF SoundDetail, SoundReader, SoundWritten
    <3>7. v.detail[b].start = w.detail[b].start
      BY <2>1, <3>1, <3>5 DEF SameShape
    <3> QED BY <1>3, <3>4, <3>5, <3>6, <3>7
  <2>4. OthersAreOlder(v, E, s)
    BY <2>3 DEF OthersAreOlder
  <2>5. T \subseteq DOMAIN v.detail
    BY <2>1 DEF SameShape
  <2> QED BY <2>2, <2>4, <2>5
<1> QED BY <1>1, <1>6, <1>7 DEF s

LEMMA MergeFacts ==
  ASSUME starts \in Nat, starts >= 1, SoundWiring(Now, starts),
         NEW old, old.edges \in Buildable, AllLinked(Now, old.edges),
         OthersAreOlder(Now, old.edges, starts),
         \A e \in old.edges : e.src[1] \in old.blocks /\ e.dst[1] \in old.blocks,
         NEW E \in Buildable, NEW M \in SUBSET MsgCables, <<E, M>> \in Accepted
  PROVE  LET v == Merge(old, E, M)
         IN  /\ SoundWiring(v, starts)
             /\ v.outcome = "ok" =>
                  /\ UsedBlocks(E, M) \subseteq DOMAIN v.detail
                  /\ AllLinked(v, E) /\ OthersAreOlder(v, E, starts)
                  /\ \A e \in old.edges \cap E :
                       v.detail[e.dst[1]].ins[e.dst[2]] = detail[e.dst[1]].ins[e.dst[2]]
PROOF
<1> DEFINE s == starts
           T == UsedBlocks(E, M)
           w == Now
           G == GoingAway(old, E)
           a == ForEach(LAMBDA x, b : IF b \in DOMAIN x.detail THEN x ELSE AllocateDetail(E, s, x, b),
                        w, InOrder(T))
           c == ForEach(ClearReader, a, SetToSeq(G))
           v == MergeAll(old, E, M, c)
<1>1. v = Merge(old, E, M)
  BY DEF Merge, MergeAll
<1>2. w.outcome = "ok" /\ w.detail = detail
  BY DEF Now
<1>3. G \subseteq old.edges /\ G \cap E = {} /\ IsFiniteSet(G) /\ old.edges \subseteq E \cup G
  <2>1. G \subseteq old.edges /\ G \cap E = {} /\ old.edges \subseteq E \cup G
    BY DEF GoingAway
  <2>2. G \subseteq Cables /\ IsFiniteSet(Cables)
    BY <2>1, GraphFacts, CablesAssumption
  <2> HIDE DEF G
  <2> QED BY <2>1, <2>2, FS_Subset
<1> HIDE DEF w, G, s
<1>4. SoundWiring(a, s) /\ (a.outcome = "ok" => Allocated(w, a, E, T \ DOMAIN w.detail, s))
  BY NewAllFacts DEF s, w
<1> HIDE DEF a
<1>5. a.outcome = "ok" =>
        /\ T \subseteq DOMAIN a.detail /\ DOMAIN w.detail \subseteq DOMAIN a.detail
        /\ \A b \in DOMAIN w.detail : a.detail[b] = w.detail[b]
  BY <1>4 DEF Allocated
<1>6. SoundWiring(c, s) /\ (c.outcome = "ok" => a.outcome = "ok" /\ Cleared(a, c, G))
  <2>1. a.outcome = "ok" => \A e \in G : e.dst[1] \in DOMAIN a.detail
    BY <1>3, <1>5 DEF AllLinked, w
  <2>2. s \in Nat
    BY DEF s
  <2> QED BY <1>3, <1>4, <2>1, <2>2, ClearAllFacts
<1> HIDE DEF c
<1>7. SoundWiring(v, s) /\ (v.outcome = "ok" => c.outcome = "ok" /\ Merged(c, v, old, E, T))
  <2>1. c.outcome = "ok" => T \subseteq DOMAIN c.detail
    BY <1>5, <1>6 DEF Cleared, SameShape
  <2>2. s \in Nat
    BY DEF s
  <2> QED BY <1>6, <2>1, <2>2, MergeAllFacts
<1> HIDE DEF v
<1>8. ASSUME v.outcome = "ok"
      PROVE  /\ T \subseteq DOMAIN v.detail /\ AllLinked(v, E) /\ OthersAreOlder(v, E, s)
             /\ \A e \in old.edges \cap E :
                  v.detail[e.dst[1]].ins[e.dst[2]] = w.detail[e.dst[1]].ins[e.dst[2]]
  <2>1. /\ Allocated(w, a, E, T \ DOMAIN w.detail, s) /\ Cleared(a, c, G) /\ SameShape(a, c)
        /\ Merged(c, v, old, E, T) /\ SameShape(c, v) /\ T \subseteq DOMAIN c.detail
        /\ DOMAIN w.detail \subseteq DOMAIN a.detail
        /\ \A b \in DOMAIN w.detail : a.detail[b] = w.detail[b]
    BY <1>4, <1>5, <1>6, <1>7, <1>8 DEF Merged, Cleared, SameShape
  <2>2. AllLinked(v, E)
    BY <2>1, MergedLinks
  <2>3. ASSUME NEW b \in DOMAIN v.detail, NEW i \in DOMAIN v.detail[b].ins,
               v.detail[b].ins[i] # NoReader, ~(\E e \in E : e.dst = <<b, i>>)
        PROVE  v.detail[b].start < s /\ v.detail[b].ins[i].buffer.start < s
    <3>1. /\ b \in DOMAIN c.detail /\ i \in DOMAIN c.detail[b].ins
          /\ b \in DOMAIN a.detail /\ i \in DOMAIN a.detail[b].ins
      BY <2>1, <2>3 DEF SameShape
    <3>2. i \notin UsedPorts(E, b, TRUE)
      BY <2>3, UpstreamFacts
    <3>3. Alias(c.detail[b].ins[i], v.detail[b].ins[i])
      BY <2>1, <3>1, <3>2 DEF Merged
    <3>4. /\ c.detail[b].ins[i] # NoReader
          /\ c.detail[b].ins[i].buffer = v.detail[b].ins[i].buffer
      BY <2>3, <3>3 DEF Alias
    <3>5. /\ a.detail[b].ins[i] = c.detail[b].ins[i]
          /\ ~\E e \in G : e.dst[1] = b /\ e.dst[2] = i
      BY <2>1, <3>1, <3>4 DEF Cleared
    <3>6. b \in DOMAIN w.detail /\ a.detail[b] = w.detail[b]
      BY <2>1, <3>1, <3>4, <3>5 DEF Allocated
    <3>7. ~\E e \in old.edges : e.dst = <<b, i>>
      BY <1>3, <2>3, <3>5
    <3>8. w.detail[b].start < s /\ w.detail[b].ins[i].buffer.start < s
      BY <3>1, <3>4, <3>5, <3>6, <3>7 DEF OthersAreOlder, s, w
    <3>9. v.detail[b].start = w.detail[b].start
      BY <2>1, <3>1, <3>6 DEF SameShape
    <3> QED BY <3>4, <3>5, <3>6, <3>8, <3>9
  <2>4. OthersAreOlder(v, E, s)
    BY <2>3 DEF OthersAreOlder
  <2>5. T \subseteq DOMAIN v.detail
    BY <2>1 DEF SameShape
  <2>6. ASSUME NEW e \in old.edges \cap E
        PROVE  v.detail[e.dst[1]].ins[e.dst[2]] = w.detail[e.dst[1]].ins[e.dst[2]]
    <3> DEFINE b == e.dst[1]
               i == e.dst[2]
    <3>1. e \in old.edges /\ e \in E /\ e.dst = <<b, i>> /\ e.src[1] \in old.blocks /\ b \in old.blocks
      <4>1. e.dst \in Blocks \X Nat
        BY GraphFacts
      <4> QED BY <4>1
    <3>2. /\ b \in DOMAIN w.detail /\ e.src[1] \in DOMAIN w.detail
          /\ i \in DOMAIN w.detail[b].ins /\ e.src[2] \in DOMAIN w.detail[e.src[1]].outs
          /\ w.detail[b].ins[i] # NoReader
          /\ w.detail[b].ins[i].buffer = w.detail[e.src[1]].outs[e.src[2]]
      BY <3>1 DEF AllLinked, w
    <3>3. ~\E x \in G : x.dst[1] = b /\ x.dst[2] = i
      <4> SUFFICES ASSUME NEW x \in G, x.dst[1] = b, x.dst[2] = i PROVE FALSE
        OBVIOUS
      <4>1. x \in old.edges /\ x \notin E
        BY <1>3
      <4>2. x.dst \in Blocks \X Nat
        BY <4>1, GraphFacts
      <4>3. x = e
        BY <3>1, <4>1, <4>2, GraphFacts
      <4> QED BY <3>1, <4>1, <4>3
    <3> HIDE DEF b, i
    <3>4. UpstreamEdge(E, b, i) = e /\ i \in UsedPorts(E, b, TRUE)
      BY <3>1, UpstreamFacts
    <3>5. /\ a.detail[b] = w.detail[b] /\ a.detail[e.src[1]] = w.detail[e.src[1]]
          /\ b \in DOMAIN a.detail /\ e.src[1] \in DOMAIN a.detail
      BY <2>1, <3>2
    <3>6. c.detail[b].ins[i] = w.detail[b].ins[i]
      BY <2>1, <3>2, <3>3, <3>5 DEF Cleared
    <3>7. /\ b \in DOMAIN c.detail /\ DOMAIN c.detail[b].ins = DOMAIN w.detail[b].ins
          /\ c.detail[e.src[1]].outs = w.detail[e.src[1]].outs
      BY <2>1, <3>5 DEF SameShape
    <3>8. Linked(c, E, b, i)
      BY <3>2, <3>4, <3>6, <3>7 DEF Linked
    <3>9. v.detail[b].ins[i] = c.detail[b].ins[i]
      BY <2>1, <3>1, <3>4, <3>7, <3>8 DEF Merged
    <3> QED BY <3>6, <3>9 DEF b, i
  <2> QED BY <2>2, <2>4, <2>5, <2>6
<1> QED BY <1>1, <1>2, <1>7, <1>8 DEF s
-----------------------------------------------------------------------------
(* The invariant: the readers of all details are sound, and those of a     *)
(* running graph are the ones of its connections.                          *)

Running ==
  /\ starts >= 1 /\ d_ffg.edges \in Buildable /\ d_ffg.blocks \subseteq DOMAIN detail
  /\ \A e \in d_ffg.edges : e.src[1] \in d_ffg.blocks /\ e.dst[1] \in d_ffg.blocks
  /\ AllLinked(Now, d_ffg.edges) /\ OthersAreOlder(Now, d_ffg.edges, starts)
  /\ \A b \in d_ffg.blocks : \A i \in DOMAIN detail[b].ins : detail[b].ins[i] # NoReader

FlatInv ==
  /\ status \in {"idle", "running", "crashed"}
  /\ starts \in 0..MaxStarts /\ subscriptions \subseteq MsgCables
  /\ d_ffg.edges \subseteq Cables /\ d_ffg.blocks \subseteq Blocks
  /\ SoundWiring(Now, starts) /\ DOMAIN written = Held(detail)
  /\ status = "running" => Running

LEMMA NowFacts ==
  Now.detail = detail /\ Now.written = written /\ Now.most = max_output_buffer /\ Now.outcome = "ok"
PROOF
  BY DEF Now

LEMMA HeldFacts ==
  ASSUME NEW d
  PROVE  /\ \A buffer \in Held(d) : \E b \in DOMAIN d :
              \/ \E i \in DOMAIN d[b].ins : d[b].ins[i] # NoReader /\ d[b].ins[i].buffer = buffer
              \/ \E p \in DOMAIN d[b].outs : d[b].outs[p] = buffer
         /\ \A b \in DOMAIN d :
              /\ \A i \in DOMAIN d[b].ins : d[b].ins[i] # NoReader => d[b].ins[i].buffer \in Held(d)
              /\ \A p \in DOMAIN d[b].outs : d[b].outs[p] \in Held(d)
PROOF
<1> DEFINE own(b) == {r.buffer : r \in Readers(d, b)} \cup {d[b].outs[p] : p \in DOMAIN d[b].outs}
<1>1. \A x : x \in Held(d) <=> \E b \in DOMAIN d : x \in own(b)
  BY DEF Held
<1>2. \A b, x : x \in own(b) <=>
        \/ \E i \in DOMAIN d[b].ins : d[b].ins[i] # NoReader /\ d[b].ins[i].buffer = x
        \/ \E p \in DOMAIN d[b].outs : d[b].outs[p] = x
  BY DEF Readers
<1> HIDE DEF own
<1> QED BY <1>1, <1>2

\* what somebody holds was written, and letting go of the rest changes nothing
LEMMA LettingGo ==
  ASSUME NEW s, NEW w, SoundWiring(w, s),
         NEW wr, wr = [buffer \in Held(w.detail) |-> w.written[buffer]]
  PROVE  /\ Held(w.detail) \subseteq DOMAIN w.written
         /\ SoundWiring([detail |-> w.detail, written |-> wr, most |-> w.most, outcome |-> "ok"], s)
PROOF
<1> DEFINE v == [detail |-> w.detail, written |-> wr, most |-> w.most, outcome |-> "ok"]
<1>1. /\ w \in Wirings /\ SoundWritten(w.written, s)
      /\ \A c \in DOMAIN w.detail : SoundDetail(w.detail[c], c, w.written, s)
  BY DEF SoundWiring
<1>2. Held(w.detail) \subseteq DOMAIN w.written
  <2> SUFFICES ASSUME NEW buffer \in Held(w.detail) PROVE buffer \in DOMAIN w.written
    OBVIOUS
  <2>1. PICK b \in DOMAIN w.detail :
          \/ \E i \in DOMAIN w.detail[b].ins :
                w.detail[b].ins[i] # NoReader /\ w.detail[b].ins[i].buffer = buffer
          \/ \E p \in DOMAIN w.detail[b].outs : w.detail[b].outs[p] = buffer
    BY HeldFacts
  <2>2. SoundDetail(w.detail[b], b, w.written, s)
    BY <1>1
  <2> QED BY <2>1, <2>2 DEF SoundDetail, SoundOutputs, SoundReader
<1>3. /\ DOMAIN wr = Held(w.detail)
      /\ \A buffer \in Held(w.detail) : wr[buffer] = w.written[buffer]
  OBVIOUS
<1>4. wr \in Writtens
  <2>1. PICK B \in SUBSET Buffers : w.written \in [B -> Nat]
    BY <1>1, WiringFacts DEF Writtens
  <2>2. Held(w.detail) \in SUBSET Buffers /\ wr \in [Held(w.detail) -> Nat]
    BY <1>2, <2>1
  <2> QED BY <2>2 DEF Writtens
<1>5. v \in Wirings
  <2>1. /\ DOMAIN w.detail \in SUBSET Blocks /\ w.detail \in [DOMAIN w.detail -> Details]
        /\ w.most \in [Blocks -> [PortNumbers -> Int]]
    BY <1>1, WiringFacts
  <2> QED BY <1>1, <1>4, <2>1, MakesWiring
<1>6. SoundWritten(wr, s)
  BY <1>1, <1>2, <1>3, <1>4 DEF SoundWritten
<1>7. ASSUME NEW c \in DOMAIN w.detail PROVE SoundDetail(w.detail[c], c, wr, s)
  <2>1. SoundDetail(w.detail[c], c, w.written, s)
    BY <1>1
  <2>2. /\ \A i \in DOMAIN w.detail[c].ins :
             w.detail[c].ins[i] # NoReader => w.detail[c].ins[i].buffer \in Held(w.detail)
        /\ \A p \in DOMAIN w.detail[c].outs : w.detail[c].outs[p] \in Held(w.detail)
    BY HeldFacts
  <2>3. SoundOutputs(w.detail[c], c, wr)
    BY <1>3, <2>1, <2>2 DEF SoundDetail, SoundOutputs
  <2>4. \A i \in DOMAIN w.detail[c].ins :
          w.detail[c].ins[i] # NoReader => SoundReader(w.detail[c].ins[i], wr)
    BY <1>3, <2>1, <2>2 DEF SoundDetail, SoundReader, InPlace
  <2> QED BY <2>1, <2>3, <2>4 DEF SoundDetail
<1>8. v.detail = w.detail /\ v.written = wr
  OBVIOUS
<1> HIDE DEF v
<1>9. SoundWiring(v, s)
  BY <1>5, <1>6, <1>7, <1>8 DEF SoundWiring
<1> QED BY <1>2, <1>9 DEF v

\* a wiring that takes effect
LEMMA TakeOverFacts ==
  ASSUME NEW s \in 1..MaxStarts, starts' = s, NEW w, SoundWiring(w, s),
         NEW E \in Buildable, NEW M \in SUBSET MsgCables,
         w.outcome = "ok" => /\ UsedBlocks(E, M) \subseteq DOMAIN w.detail
                             /\ AllLinked(w, E) /\ OthersAreOlder(w, E, s),
         TakeOver(w, E, M), subscriptions' \subseteq MsgCables
  PROVE  FlatInv'
PROOF
<1> DEFINE T == UsedBlocks(E, M)
           v == [detail |-> w.detail, written |-> written', most |-> w.most, outcome |-> "ok"]
<1>1. /\ status' = StatusAfter(w, E, M) /\ max_output_buffer' = w.most /\ detail' = w.detail
      /\ d_ffg' = IF status' = "running" THEN [edges |-> E, blocks |-> T] ELSE NoGraph
      /\ written' = [buffer \in Held(w.detail) |-> w.written[buffer]]
  BY DEF TakeOver
<1>2. SoundWiring(v, s) /\ DOMAIN written' = Held(detail')
  BY <1>1, LettingGo
<1>3. Now' = v /\ v.detail = w.detail
  BY <1>1 DEF Now
<1>4. /\ status' \in {"idle", "running", "crashed"}
      /\ status' = "running" => w.outcome = "ok" /\ \A b \in T : \A i \in InputsOf(w, b) :
                                                     w.detail[b].ins[i] # NoReader
  <2>1. w.outcome \in {"ok", "throws", "crashed"}
    BY WiringFacts DEF SoundWiring
  <2> QED BY <1>1, <2>1 DEF StatusAfter
<1> HIDE DEF v
<1>5. E \subseteq Cables /\ T \subseteq Blocks
  BY GraphFacts, UsedFacts
<1>6. d_ffg'.edges \subseteq Cables /\ d_ffg'.blocks \subseteq Blocks
  <2>1. CASE status' = "running"
    BY <1>1, <1>5, <2>1
  <2>2. CASE status' # "running"
    BY <1>1, <2>2 DEF NoGraph
  <2> QED BY <2>1, <2>2
<1>7. ASSUME status' = "running" PROVE Running'
  <2>1. d_ffg'.edges = E /\ d_ffg'.blocks = T
    BY <1>1, <1>7
  <2>2. AllLinked(v, E) /\ OthersAreOlder(v, E, s) /\ T \subseteq DOMAIN w.detail
    BY <1>3, <1>4, <1>7 DEF AllLinked, OthersAreOlder
  <2>3. \A e \in E : e.src[1] \in T /\ e.dst[1] \in T
    BY UsedFacts
  <2>4. \A b \in T : \A i \in DOMAIN detail'[b].ins : detail'[b].ins[i] # NoReader
    BY <1>1, <1>4, <1>7 DEF InputsOf
  <2>5. s >= 1
    OBVIOUS
  <2> HIDE DEF T
  <2>6. AllLinked(Now, d_ffg.edges)' /\ OthersAreOlder(Now, d_ffg.edges, starts)'
    BY Zenon, <1>3, <2>1, <2>2 DEF AllLinked, OthersAreOlder
  <2> QED BY <1>1, <2>1, <2>2, <2>3, <2>4, <2>5, <2>6 DEF Running
<1>8. SoundWiring(Now, starts)'
  BY <1>2, <1>3 DEF SoundWiring, SoundWritten, SoundDetail, SoundOutputs, SoundReader, InPlace
<1>9. starts' \in 0..MaxStarts
  OBVIOUS
<1> QED BY <1>2, <1>4, <1>6, <1>7, <1>8, <1>9 DEF FlatInv

LEMMA InitHolds ==
  ASSUME FlatInit
  PROVE  FlatInv
PROOF
<1>1. /\ status = "idle" /\ d_ffg = NoGraph /\ detail = [b \in {} |-> 0]
      /\ written = [buffer \in {} |-> 0] /\ subscriptions = {} /\ starts = 0
      /\ max_output_buffer = [b \in Blocks |-> [p \in PortNumbers |-> Settings[b].most]]
  BY DEF FlatInit
<1>2. detail \in [{} -> Details] /\ written \in Writtens
  <2>1. written \in [{} -> Nat] /\ {} \in SUBSET Buffers
    BY <1>1
  <2> QED BY <1>1, <2>1 DEF Writtens
<1>3. max_output_buffer \in [Blocks -> [PortNumbers -> Int]]
  <2>1. \A b \in Blocks : Settings[b].most \in Int
    BY SettingFacts
  <2> QED BY <1>1, <2>1
<1>4. Now \in Wirings
  <2>1. {} \in SUBSET Blocks
    OBVIOUS
  <2>2. [outcome |-> "ok"].outcome \in {"ok", "throws", "crashed"}
    OBVIOUS
  <2>3. detail \in UNION {[B -> Details] : B \in SUBSET Blocks}
    BY <1>2, <2>1
  <2> QED BY <1>2, <1>3, <2>3 DEF Now, Wirings
<1>5. DOMAIN detail = {} /\ DOMAIN written = {}
  BY <1>1
<1>6. SoundWiring(Now, starts)
  BY <1>2, <1>4, <1>5, NowFacts DEF SoundWiring, SoundWritten
<1>7. Held(detail) = {}
  BY <1>5, HeldFacts
<1>8. d_ffg.edges \subseteq Cables /\ d_ffg.blocks \subseteq Blocks
  BY <1>1 DEF NoGraph
<1>9. starts \in 0..MaxStarts
  BY <1>1, SettingsAssumption
<1> QED BY <1>1, <1>5, <1>6, <1>7, <1>8, <1>9 DEF FlatInv

\* readers that only move read what they read
SameReaders(w, v) ==
  /\ SameShape(w, v)
  /\ \A c \in DOMAIN w.detail : \A j \in DOMAIN w.detail[c].ins :
       Alias(w.detail[c].ins[j], v.detail[c].ins[j])

LEMMA SameReadersFacts ==
  ASSUME NEW w, NEW v, SameReaders(w, v)
  PROVE  /\ Held(v.detail) = Held(w.detail)
         /\ \A E : AllLinked(w, E) => AllLinked(v, E)
         /\ \A E, s : OthersAreOlder(w, E, s) => OthersAreOlder(v, E, s)
PROOF
<1>1. /\ DOMAIN v.detail = DOMAIN w.detail
      /\ \A c \in DOMAIN w.detail :
           /\ v.detail[c].outs = w.detail[c].outs /\ v.detail[c].start = w.detail[c].start
           /\ DOMAIN v.detail[c].ins = DOMAIN w.detail[c].ins
           /\ \A j \in DOMAIN w.detail[c].ins :
                /\ v.detail[c].ins[j] = NoReader <=> w.detail[c].ins[j] = NoReader
                /\ v.detail[c].ins[j] # NoReader =>
                     v.detail[c].ins[j].buffer = w.detail[c].ins[j].buffer
  BY DEF SameReaders, SameShape, Alias
<1>2. Held(v.detail) \subseteq Held(w.detail)
  <2> SUFFICES ASSUME NEW buffer \in Held(v.detail) PROVE buffer \in Held(w.detail)
    OBVIOUS
  <2>1. PICK b \in DOMAIN v.detail :
          \/ \E i \in DOMAIN v.detail[b].ins :
                v.detail[b].ins[i] # NoReader /\ v.detail[b].ins[i].buffer = buffer
          \/ \E p \in DOMAIN v.detail[b].outs : v.detail[b].outs[p] = buffer
    BY HeldFacts
  <2> QED BY <1>1, <2>1, HeldFacts
<1>3. Held(w.detail) \subseteq Held(v.detail)
  <2> SUFFICES ASSUME NEW buffer \in Held(w.detail) PROVE buffer \in Held(v.detail)
    OBVIOUS
  <2>1. PICK b \in DOMAIN w.detail :
          \/ \E i \in DOMAIN w.detail[b].ins :
                w.detail[b].ins[i] # NoReader /\ w.detail[b].ins[i].buffer = buffer
          \/ \E p \in DOMAIN w.detail[b].outs : w.detail[b].outs[p] = buffer
    BY HeldFacts
  <2> QED BY <1>1, <2>1, HeldFacts
<1>4. \A E : AllLinked(w, E) => AllLinked(v, E)
  BY <1>1 DEF AllLinked
<1>5. ASSUME NEW E, NEW s, OthersAreOlder(w, E, s) PROVE OthersAreOlder(v, E, s)
  <2> SUFFICES ASSUME NEW b \in DOMAIN v.detail, NEW i \in DOMAIN v.detail[b].ins,
                      v.detail[b].ins[i] # NoReader, ~(\E e \in E : e.dst = <<b, i>>)
               PROVE  v.detail[b].start < s /\ v.detail[b].ins[i].buffer.start < s
    BY DEF OthersAreOlder
  <2>1. /\ b \in DOMAIN w.detail /\ i \in DOMAIN w.detail[b].ins
        /\ w.detail[b].ins[i] # NoReader
        /\ v.detail[b].start = w.detail[b].start
        /\ v.detail[b].ins[i].buffer = w.detail[b].ins[i].buffer
    BY <1>1
  <2>2. w.detail[b].start < s /\ w.detail[b].ins[i].buffer.start < s
    BY <1>5, <2>1 DEF OthersAreOlder
  <2> QED BY <2>1, <2>2
<1> QED BY <1>2, <1>3, <1>4, <1>5

LEMMA SmallRemainder ==
  ASSUME NEW x \in Nat, NEW m \in Positive, x < m
  PROVE  x % m = x
PROOF
  BY Z3 DEF Positive

\* a writer has space only when every reader of the buffer has
LEMMA SpaceFacts ==
  ASSUME SoundWiring(Now, starts), NEW buffer \in DOMAIN written, SpaceAvailable(buffer) >= 1,
         NEW c \in DOMAIN detail, NEW j \in DOMAIN detail[c].ins,
         detail[c].ins[j] # NoReader, detail[c].ins[j].buffer = buffer
  PROVE  ItemsAvailable(detail[c].ins[j]) \in Nat
         /\ ItemsAvailable(detail[c].ins[j]) <= buffer.size - 2
PROOF
<1> DEFINE items == [r \in ReadersOf(buffer) |-> ItemsAvailable(r)]
           A == {0} \cup {items[r] : r \in DOMAIN items}
<1>1. /\ Now \in Wirings /\ SoundWritten(written, starts)
      /\ \A b \in DOMAIN detail : SoundDetail(detail[b], b, written, starts)
  BY NowFacts DEF SoundWiring
<1>2. buffer.size \in Positive /\ written[buffer] \in Nat /\ \A at \in Int : at % buffer.size \in Nat
  BY <1>1, SizeFacts
<1>3. \A r \in ReadersOf(buffer) : items[r] \in Nat
  <2> SUFFICES ASSUME NEW r \in ReadersOf(buffer) PROVE ItemsAvailable(r) \in Nat
    OBVIOUS
  <2>1. PICK b \in DOMAIN detail : r \in Readers(detail, b) /\ r.buffer = buffer
    BY DEF ReadersOf
  <2>2. PICK i \in DOMAIN detail[b].ins : r = detail[b].ins[i] /\ r # NoReader
    BY <2>1 DEF Readers
  <2>3. r.at \in Int
    <3>1. detail[b] \in Details
      BY <1>1 DEF SoundDetail
    <3>2. r \in AnyReader
      BY <2>2, <3>1, DetailFacts
    <3> QED BY <3>2, ReaderFacts
  <2>4. written[buffer] - r.at \in Int
    BY <1>2, <2>3
  <2> QED BY <1>2, <2>1, <2>4 DEF ItemsAvailable
<1>4. IsFiniteSet(ReadersOf(buffer))
  <2> DEFINE g == [b \in DOMAIN detail |-> Readers(detail, b)]
             All == {g[b] : b \in DOMAIN g}
  <2>1. IsFiniteSet(DOMAIN g)
    <3>1. DOMAIN detail \subseteq Blocks
      BY <1>1, NowFacts, WiringFacts
    <3> QED BY <3>1, SignatureAssumption, FS_Subset
  <2>2. IsFiniteSet(All)
    <3> HIDE DEF g
    <3> QED BY <2>1, ImageFacts
  <2>3. ASSUME NEW b \in DOMAIN detail PROVE IsFiniteSet(Readers(detail, b))
    <3> DEFINE list == detail[b].ins
               T == {list[i] : i \in DOMAIN list}
    <3>1. detail[b] \in Details
      BY <1>1 DEF SoundDetail
    <3>2. PICK m \in Nat : DOMAIN list = 0..(m - 1)
      BY <3>1, DetailFacts
    <3>3. IsFiniteSet(0..(m - 1))
      <4>1. 0 \in Int /\ m - 1 \in Int
        OBVIOUS
      <4> QED BY <4>1, FS_Interval
    <3>4. IsFiniteSet(T)
      <4> HIDE DEF list
      <4> QED BY <3>2, <3>3, ImageFacts
    <3>5. Readers(detail, b) \subseteq T
      BY DEF Readers
    <3> HIDE DEF T
    <3> QED BY <3>4, <3>5, FS_Subset
  <2>4. \A T \in All : IsFiniteSet(T)
    BY <2>3
  <2>5. ReadersOf(buffer) \subseteq UNION All
    BY DEF ReadersOf
  <2> HIDE DEF All
  <2>6. IsFiniteSet(UNION All)
    BY <2>2, <2>4, FS_UNION
  <2> QED BY <2>5, <2>6, FS_Subset
<1>5. A \in SUBSET Nat /\ IsFiniteSet(A) /\ A # {}
  <2> DEFINE B == {items[r] : r \in DOMAIN items}
  <2>1. DOMAIN items = ReadersOf(buffer)
    OBVIOUS
  <2>2. IsFiniteSet(B)
    <3> HIDE DEF items
    <3> QED BY <1>4, <2>1, ImageFacts
  <2>3. B \subseteq Nat
    BY <1>3
  <2> HIDE DEF B, items
  <2>4. IsFiniteSet(B \cup {0})
    BY <2>2, FS_AddElement
  <2>5. A = B \cup {0}
    BY DEF B
  <2> HIDE DEF A
  <2> QED BY <2>3, <2>4, <2>5
<1>6. detail[c].ins[j] \in ReadersOf(buffer)
  BY DEF ReadersOf, Readers
<1>7. SpaceAvailable(buffer) = buffer.size - 1 - Max(A)
  <2>1. A = {0} \cup {ItemsAvailable(r) : r \in ReadersOf(buffer)}
    OBVIOUS
  <2> HIDE DEF A
  <2> QED BY <2>1 DEF SpaceAvailable
<1>8. /\ ItemsAvailable(detail[c].ins[j]) \in A /\ ItemsAvailable(detail[c].ins[j]) \in Nat
  BY <1>3, <1>6
<1> HIDE DEF A, items
<1>9. Max(A) \in Nat /\ Max(A) >= ItemsAvailable(detail[c].ins[j])
  BY <1>5, <1>8, MaxFacts
<1>10. buffer.size \in Int
  BY <1>2 DEF Positive
<1> DEFINE m == Max(A)
           x == ItemsAvailable(detail[c].ins[j])
           z == buffer.size
<1>11. m \in Nat /\ x \in Nat /\ z \in Int /\ m >= x /\ z - 1 - m >= 1
  BY <1>7, <1>8, <1>9, <1>10
<1> HIDE DEF m, x, z
<1>12. x <= z - 2
  BY <1>11
<1> QED BY <1>11, <1>12 DEF x, z

LEMMA ConsumedFacts ==
  ASSUME NEW r \in AnyReader
  PROVE  /\ Consumed(r) \in AnyReader /\ Consumed(r) # NoReader
         /\ Consumed(r).buffer = r.buffer /\ Consumed(r).at = r.at + 1
         /\ Consumed(r).moved = r.moved
PROOF
<1>1. Consumed(r) = [buffer |-> r.buffer, at |-> r.at + 1, moved |-> r.moved]
  BY DEF Consumed, AnyReader
<1>2. r.buffer \in Buffers /\ r.at \in Int /\ r.moved \in BOOLEAN
  BY ReaderFacts
<1>3. Consumed(r) \in AnyReader
  <2>1. r.at + 1 \in Int
    BY <1>2
  <2> QED BY <1>1, <1>2, <2>1 DEF AnyReader
<1> QED BY <1>1, <1>3, ReaderFacts

\* a step of work leaves every reader where it is or an item further, and in its place
LEMMA WorkHolds ==
  ASSUME FlatInv, NEW b \in Blocks, Work(b)
  PROVE  /\ FlatInv' /\ SameReaders(Now, Now')
         /\ \A c \in DOMAIN detail : \A j \in DOMAIN detail[c].ins : detail[c].ins[j] # NoReader =>
              detail'[c].ins[j].at \in {detail[c].ins[j].at, detail[c].ins[j].at + 1}
PROOF
<1> DEFINE d == detail[b]
           list == [i \in DOMAIN d.ins |-> Consumed(d.ins[i])]
           e == [d EXCEPT !.ins = list]
           f == [detail EXCEPT ![b] = e]
           Fed(x) == \E p \in DOMAIN d.outs : d.outs[p] = x
           wr == [x \in DOMAIN written |-> IF Fed(x) THEN written[x] + 1 ELSE written[x]]
<1>1. /\ status = "running" /\ b \in d_ffg.blocks /\ detail' = f /\ written' = wr
      /\ \A i \in DOMAIN d.ins : ItemsAvailable(d.ins[i]) >= Settings[b].history
      /\ \A p \in DOMAIN d.outs : SpaceAvailable(d.outs[p]) >= 1
      /\ UNCHANGED <<status, d_ffg, max_output_buffer, subscriptions, starts>>
  BY DEF Work
<1>2. /\ Running /\ b \in DOMAIN detail /\ \A i \in DOMAIN d.ins : d.ins[i] # NoReader
      /\ SoundWiring(Now, starts) /\ DOMAIN written = Held(detail)
  BY <1>1 DEF FlatInv, Running
<1>3. /\ Now \in Wirings /\ SoundWritten(written, starts)
      /\ \A c \in DOMAIN detail : SoundDetail(detail[c], c, written, starts) /\ detail[c] \in Details
  BY <1>2, NowFacts DEF SoundWiring, SoundDetail
<1> HIDE DEF wr, f
<1>4. /\ DOMAIN wr = DOMAIN written /\ wr \in Writtens
      /\ \A x \in DOMAIN written :
           written[x] \in Nat /\ (wr[x] = written[x] \/ (Fed(x) /\ wr[x] = written[x] + 1))
  <2>1. PICK B \in SUBSET Buffers : written \in [B -> Nat]
    BY <1>3 DEF SoundWritten, Writtens
  <2>2. /\ wr = [x \in B |-> IF Fed(x) THEN written[x] + 1 ELSE written[x]]
        /\ \A x \in B : written[x] \in Nat
    BY <2>1 DEF wr
  <2> HIDE DEF Fed
  <2>3. wr \in [B -> Nat]
    BY <2>2
  <2> QED BY <2>1, <2>2, <2>3 DEF Writtens
<1>5. PICK n \in Nat : d.ins \in [0..(n - 1) -> AnyReader \cup {NoReader}]
  BY <1>2, <1>3, DetailFacts
<1>6. \A i \in DOMAIN d.ins : d.ins[i] \in AnyReader /\ list[i] = Consumed(d.ins[i])
  BY <1>2, <1>5
<1>7. /\ e \in Details /\ e.ins = list /\ e.outs = d.outs /\ e.start = d.start
      /\ DOMAIN e.ins = DOMAIN d.ins
  <2>1. list \in [0..(n - 1) -> AnyReader \cup {NoReader}] /\ DOMAIN list = DOMAIN d.ins
    <3>1. \A i \in 0..(n - 1) : Consumed(d.ins[i]) \in AnyReader
      BY <1>5, <1>6, ConsumedFacts
    <3> QED BY <1>5, <3>1
  <2> HIDE DEF list
  <2>2. list \in Lists(AnyReader \cup {NoReader})
    BY <2>1, ListFacts
  <2>3. d \in Details
    BY <1>2, <1>3
  <2> HIDE DEF d
  <2>4. /\ e = [ins |-> list, outs |-> d.outs, start |-> d.start]
    BY <2>3 DEF Details
  <2>5. e \in Details
    BY <2>2, <2>3, <2>4 DEF Details
  <2> QED BY <2>1, <2>4, <2>5
<1> HIDE DEF list, e
<1>8. /\ DOMAIN f = DOMAIN detail /\ f \in [DOMAIN detail -> Details]
      /\ \A c \in DOMAIN detail : f[c] = IF c = b THEN e ELSE detail[c]
  BY <1>2, <1>3, <1>7, NowFacts, WiringFacts DEF f
<1> DEFINE v == [detail |-> f, written |-> wr, most |-> max_output_buffer, outcome |-> "ok"]
<1>9. Now' = v /\ v.detail = f /\ v.written = wr
  BY <1>1 DEF Now
<1> HIDE DEF v
<1>10. ASSUME NEW c \in DOMAIN detail, NEW j \in DOMAIN detail[c].ins, detail[c].ins[j] # NoReader
       PROVE  LET r == detail[c].ins[j]
                  q == f[c].ins[j]
              IN  /\ q # NoReader /\ q.buffer = r.buffer /\ q.at \in {r.at, r.at + 1}
                  /\ SoundReader(q, wr)
  <2> DEFINE r == detail[c].ins[j]
             q == f[c].ins[j]
  <2>1. /\ r \in AnyReader /\ SoundReader(r, written) /\ r.buffer \in DOMAIN written
        /\ r.at \in Int
    <3>1. SoundDetail(detail[c], c, written, starts) /\ detail[c] \in Details
      BY <1>3
    <3>2. r \in AnyReader
      BY <1>10, <3>1, DetailFacts
    <3>3. SoundReader(r, written)
      BY <1>10, <3>1 DEF SoundDetail
    <3> HIDE DEF r
    <3> QED BY <3>2, <3>3, ReaderFacts DEF SoundReader
  <2>2. q = IF c = b THEN Consumed(r) ELSE r
    BY <1>6, <1>7, <1>8
  <2>3. /\ q # NoReader /\ q.buffer = r.buffer /\ q.moved = r.moved
        /\ q.at = IF c = b THEN r.at + 1 ELSE r.at
    BY <1>10, <2>1, <2>2, ConsumedFacts
  <2>4. ASSUME HistoriesFit, ~q.moved PROVE InPlace(q, wr)
    <3> DEFINE size == r.buffer.size
               at == r.at
               w == written[r.buffer]
    <3>1. /\ at <= w /\ w - at < size /\ at \in Int /\ w \in Nat
      BY <1>4, <2>1, <2>3, <2>4 DEF SoundReader, InPlace
    <3>2. size \in Positive /\ size \in Int
      <4>1. size \in Positive
        BY <1>3, <2>1, SizeFacts
      <4> QED BY <4>1 DEF Positive
    <3>3. ItemsAvailable(r) = w - at
      <4>1. ItemsAvailable(r) = (w - at) % size
        BY DEF ItemsAvailable
      <4> HIDE DEF size, at, w
      <4>2. w - at \in Nat
        BY <3>1
      <4> DEFINE x == w - at
      <4> HIDE DEF x
      <4>3. x % size = x
        BY <3>1, <3>2, <4>2, SmallRemainder DEF x
      <4> QED BY <4>1, <4>3 DEF x
    <3>4. c = b => w - at >= 1
      <4>1. c = b => ItemsAvailable(r) >= Settings[b].history
        BY <1>1
      <4>2. Settings[b].history \in Nat /\ Settings[b].history >= 1
        BY SettingFacts DEF Positive
      <4> HIDE DEF size, at, w, r
      <4> QED BY <3>1, <3>3, <4>1, <4>2
    <3>5. Fed(r.buffer) => w - at <= size - 2
      <4> SUFFICES ASSUME Fed(r.buffer) PROVE w - at <= size - 2
        OBVIOUS
      <4>1. SpaceAvailable(r.buffer) >= 1
        BY <1>1
      <4>2. ItemsAvailable(r) <= r.buffer.size - 2
        BY <1>2, <1>10, <2>1, <4>1, SpaceFacts
      <4> QED BY <3>3, <4>2
    <3>6. wr[r.buffer] = w \/ (Fed(r.buffer) /\ wr[r.buffer] = w + 1)
      BY <1>4, <2>1
    <3> HIDE DEF size, at, w, Fed
    <3>7. q.at = (IF c = b THEN at + 1 ELSE at) /\ q.buffer = r.buffer
      BY <2>3 DEF at
    <3> HIDE DEF q
    <3>8. q.at <= wr[r.buffer] /\ wr[r.buffer] - q.at < size
      <4>1. CASE wr[r.buffer] = w
        BY <3>1, <3>2, <3>4, <3>7, <4>1
      <4>2. CASE Fed(r.buffer) /\ wr[r.buffer] = w + 1
        BY <3>1, <3>2, <3>4, <3>5, <3>7, <4>2
      <4> QED BY <3>6, <4>1, <4>2
    <3> QED BY <3>7, <3>8 DEF InPlace, size
  <2>5. SoundReader(q, wr)
    BY <1>4, <2>1, <2>3, <2>4 DEF SoundReader
  <2>6. q.at \in {r.at, r.at + 1}
    BY <2>3
  <2> HIDE DEF q
  <2> QED BY <2>3, <2>5, <2>6 DEF q
<1>11. ASSUME NEW c \in DOMAIN detail
       PROVE  /\ f[c].outs = detail[c].outs /\ f[c].start = detail[c].start
              /\ DOMAIN f[c].ins = DOMAIN detail[c].ins
              /\ \A j \in DOMAIN detail[c].ins : Alias(detail[c].ins[j], f[c].ins[j])
  <2>1. /\ f[c].outs = detail[c].outs /\ f[c].start = detail[c].start
        /\ DOMAIN f[c].ins = DOMAIN detail[c].ins
    BY <1>7, <1>8
  <2>2. ASSUME NEW j \in DOMAIN detail[c].ins PROVE Alias(detail[c].ins[j], f[c].ins[j])
    <3>1. CASE detail[c].ins[j] # NoReader
      BY <1>10, <3>1 DEF Alias
    <3>2. CASE detail[c].ins[j] = NoReader
      <4>1. c # b
        BY <1>2, <3>2
      <4> QED BY <1>8, <3>2, <4>1 DEF Alias
    <3> QED BY <3>1, <3>2
  <2> QED BY <2>1, <2>2
<1>12. SameReaders(Now, v)
  BY <1>8, <1>9, <1>11, NowFacts DEF SameReaders, SameShape
<1>13. ASSUME NEW c \in DOMAIN detail PROVE SoundDetail(f[c], c, wr, starts)
  <2>1. SoundDetail(detail[c], c, written, starts)
    BY <1>3
  <2>2. f[c] \in Details
    BY <1>8
  <2>3. SoundOutputs(f[c], c, wr)
    BY <1>4, <1>11, <2>1 DEF SoundDetail, SoundOutputs
  <2>4. ASSUME NEW j \in DOMAIN f[c].ins, f[c].ins[j] # NoReader PROVE SoundReader(f[c].ins[j], wr)
    <3>1. j \in DOMAIN detail[c].ins /\ detail[c].ins[j] # NoReader
      BY <1>11, <2>4 DEF Alias
    <3> QED BY <1>10, <3>1
  <2> QED BY <1>11, <2>1, <2>2, <2>3, <2>4 DEF SoundDetail
<1>14. SoundWiring(v, starts)
  <2>1. v \in Wirings
    <3>1. DOMAIN detail \in SUBSET Blocks /\ max_output_buffer \in [Blocks -> [PortNumbers -> Int]]
      BY <1>3, NowFacts, WiringFacts
    <3> QED BY <1>3, <1>4, <1>8, <3>1, MakesWiring DEF v
  <2>2. SoundWritten(wr, starts)
    BY <1>3, <1>4 DEF SoundWritten
  <2> QED BY <1>8, <1>9, <1>13, <2>1, <2>2 DEF SoundWiring
<1>15. Held(f) = Held(detail) /\ AllLinked(v, d_ffg.edges) /\ OthersAreOlder(v, d_ffg.edges, starts)
  BY <1>2, <1>9, <1>12, NowFacts, SameReadersFacts DEF Running
<1>16. \A c \in d_ffg.blocks : \A i \in DOMAIN f[c].ins : f[c].ins[i] # NoReader
  <2>1. \A c \in d_ffg.blocks : c \in DOMAIN detail /\
          \A i \in DOMAIN detail[c].ins : detail[c].ins[i] # NoReader
    BY <1>2 DEF Running
  <2> QED BY <1>11, <2>1 DEF Alias
<1>17. Running'
  <2>1. AllLinked(Now, d_ffg.edges)' /\ OthersAreOlder(Now, d_ffg.edges, starts)'
    BY <1>1, <1>9, <1>15 DEF AllLinked, OthersAreOlder
  <2> QED BY <1>1, <1>2, <1>8, <1>16, <2>1 DEF Running
<1>18. SoundWiring(Now, starts)'
  BY <1>1, <1>9, <1>14 DEF SoundWiring, SoundWritten, SoundDetail, SoundOutputs, SoundReader, InPlace
<1>19. FlatInv'
  BY <1>1, <1>2, <1>4, <1>15, <1>17, <1>18 DEF FlatInv
<1> QED BY <1>1, <1>9, <1>10, <1>12, <1>19

LEMMA StartHolds ==
  ASSUME FlatInv, NEW E \in Buildable, NEW M \in SUBSET MsgCables, Start(E, M)
  PROVE  FlatInv' /\ status # "running"
PROOF
<1>1. status = "idle" /\ starts < MaxStarts /\ starts \in 0..MaxStarts /\ SoundWiring(Now, starts)
      /\ subscriptions \subseteq MsgCables /\ MaxStarts \in Nat
  BY SettingsAssumption DEF Start, FlatInv
<1>2. CASE <<E, M>> \in Accepted
  <2> DEFINE w == Setup(E, M, starts + 1)
  <2>1. TakeOver(w, E, M) /\ starts' = starts + 1 /\ subscriptions' = Subscribed(w, M)
    BY <1>2 DEF Start
  <2>2. starts + 1 \in 1..MaxStarts /\ starts \in Nat
    BY <1>1
  <2>3. /\ SoundWiring(w, starts + 1)
        /\ w.outcome = "ok" => /\ UsedBlocks(E, M) \subseteq DOMAIN w.detail
                               /\ AllLinked(w, E) /\ OthersAreOlder(w, E, starts + 1)
    BY <1>1, <1>2, <2>2, SetupFacts
  <2> HIDE DEF w
  <2>4. subscriptions' \subseteq MsgCables
    BY <1>1, <2>1 DEF Subscribed
  <2>5. FlatInv'
    BY <2>1, <2>2, <2>3, <2>4, TakeOverFacts
  <2> QED BY <1>1, <2>5
<1>3. CASE <<E, M>> \notin Accepted
  <2>1. /\ subscriptions' = subscriptions \cap M
        /\ UNCHANGED <<status, d_ffg, detail, written, max_output_buffer, starts>>
    BY <1>3 DEF Start
  <2>2. Now' = Now
    BY <2>1 DEF Now
  <2>3. SoundWiring(Now, starts)'
    BY <1>1, <2>1, <2>2 DEF SoundWiring, SoundWritten, SoundDetail, SoundOutputs, SoundReader, InPlace
  <2> QED BY <1>1, <2>1, <2>3 DEF FlatInv
<1> QED BY <1>2, <1>3

LEMMA RestartHolds ==
  ASSUME FlatInv, NEW E \in Buildable, NEW M \in SUBSET MsgCables, Restart(E, M)
  PROVE  /\ FlatInv'
         /\ status' = "running" => \A e \in d_ffg.edges \cap d_ffg'.edges :
              detail'[e.dst[1]].ins[e.dst[2]] = detail[e.dst[1]].ins[e.dst[2]]
PROOF
<1>1. /\ status = "running" /\ Running /\ starts \in 0..MaxStarts /\ starts \in 1..MaxStarts
      /\ SoundWiring(Now, starts) /\ DOMAIN written = Held(detail)
      /\ subscriptions' \subseteq MsgCables /\ starts' = starts
  <2>1. /\ status = "running" /\ Running /\ starts \in 0..MaxStarts /\ SoundWiring(Now, starts)
        /\ DOMAIN written = Held(detail)
        /\ subscriptions' \subseteq MsgCables /\ starts' = starts
    BY DEF Restart, FlatInv
  <2>2. starts >= 1 /\ MaxStarts \in Nat
    BY <2>1, SettingsAssumption DEF Running
  <2> QED BY <2>1, <2>2
<1>2. CASE <<E, M>> \in Accepted
  <2> DEFINE old == d_ffg
             w == Merge(old, E, M)
  <2>1. TakeOver(w, E, M)
    BY <1>2 DEF Restart
  <2>2. /\ old.edges \in Buildable /\ AllLinked(Now, old.edges)
        /\ OthersAreOlder(Now, old.edges, starts)
        /\ \A e \in old.edges : e.src[1] \in old.blocks /\ e.dst[1] \in old.blocks
        /\ starts \in Nat /\ starts >= 1
    BY <1>1 DEF Running
  <2> HIDE DEF old
  <2>3. /\ SoundWiring(w, starts)
        /\ w.outcome = "ok" =>
             /\ UsedBlocks(E, M) \subseteq DOMAIN w.detail
             /\ AllLinked(w, E) /\ OthersAreOlder(w, E, starts)
             /\ \A e \in old.edges \cap E :
                  w.detail[e.dst[1]].ins[e.dst[2]] = detail[e.dst[1]].ins[e.dst[2]]
    BY <1>1, <1>2, <2>2, MergeFacts
  <2> HIDE DEF w
  <2>4. FlatInv'
    BY <1>1, <2>1, <2>3, TakeOverFacts
  <2>5. ASSUME status' = "running", NEW e \in old.edges \cap d_ffg'.edges
        PROVE  detail'[e.dst[1]].ins[e.dst[2]] = detail[e.dst[1]].ins[e.dst[2]]
    <3>1. /\ status' = StatusAfter(w, E, M) /\ detail' = w.detail
          /\ d_ffg' = IF status' = "running"
                        THEN [edges |-> E, blocks |-> UsedBlocks(E, M)] ELSE NoGraph
      BY <2>1 DEF TakeOver
    <3>2. w.outcome = "ok"
      <4>1. w.outcome \in {"ok", "throws", "crashed"}
        BY <2>3, WiringFacts DEF SoundWiring
      <4> QED BY <2>5, <3>1, <4>1 DEF StatusAfter
    <3>3. d_ffg'.edges = E
      BY <2>5, <3>1
    <3>4. e \in old.edges \cap E
      BY <2>5, <3>3
    <3> QED BY <2>3, <3>1, <3>2, <3>4
  <2> QED BY <2>4, <2>5 DEF old
<1>3. CASE <<E, M>> \notin Accepted
  <2>1. /\ status' = "idle" /\ d_ffg' = NoGraph
        /\ UNCHANGED <<detail, written, max_output_buffer>>
    BY <1>3 DEF Restart
  <2>2. Now' = Now
    BY <2>1 DEF Now
  <2>3. SoundWiring(Now, starts)'
    BY <1>1, <2>1, <2>2 DEF SoundWiring, SoundWritten, SoundDetail, SoundOutputs, SoundReader, InPlace
  <2>4. d_ffg'.edges \subseteq Cables /\ d_ffg'.blocks \subseteq Blocks
    BY <2>1 DEF NoGraph
  <2> QED BY <1>1, <2>1, <2>3, <2>4 DEF FlatInv
<1> QED BY <1>2, <1>3

LEMMA StopHolds ==
  ASSUME FlatInv, Stop
  PROVE  FlatInv' /\ status' # "running"
PROOF
<1>1. /\ status' = "idle" /\ d_ffg' = NoGraph
      /\ UNCHANGED <<detail, written, max_output_buffer, subscriptions, starts>>
  BY DEF Stop
<1>2. Now' = Now
  BY <1>1 DEF Now
<1>3. SoundWiring(Now, starts)'
  BY <1>1, <1>2 DEF FlatInv, SoundWiring, SoundWritten, SoundDetail, SoundOutputs, SoundReader, InPlace
<1>4. d_ffg'.edges \subseteq Cables /\ d_ffg'.blocks \subseteq Blocks
  BY <1>1 DEF NoGraph
<1> QED BY <1>1, <1>3, <1>4 DEF FlatInv

LEMMA StutterHolds ==
  ASSUME FlatInv, UNCHANGED flat_vars
  PROVE  FlatInv'
PROOF
<1>1. UNCHANGED <<status, d_ffg, detail, written, max_output_buffer, subscriptions, starts>>
  BY DEF flat_vars
<1>2. Now' = Now
  BY <1>1 DEF Now
<1>3. SoundWiring(Now, starts)'
  BY <1>1, <1>2 DEF FlatInv, SoundWiring, SoundWritten, SoundDetail, SoundOutputs, SoundReader, InPlace
<1>4. Running => Running'
  BY <1>1, <1>2 DEF Running, AllLinked, OthersAreOlder
<1> QED BY <1>1, <1>3, <1>4 DEF FlatInv

LEMMA FlatInvariant ==
  FlatSpec => []FlatInv
PROOF
<1>1. FlatInit => FlatInv
  BY InitHolds
<1>2. FlatInv /\ [FlatNext]_flat_vars => FlatInv'
  <2> SUFFICES ASSUME FlatInv, [FlatNext]_flat_vars PROVE FlatInv'
    OBVIOUS
  <2>1. ASSUME NEW E \in Buildable, NEW M \in SUBSET MsgCables, Start(E, M) PROVE FlatInv'
    BY <2>1, StartHolds
  <2>2. ASSUME NEW E \in Buildable, NEW M \in SUBSET MsgCables, Restart(E, M) PROVE FlatInv'
    BY <2>2, RestartHolds
  <2>3. ASSUME NEW b \in Blocks, Work(b) PROVE FlatInv'
    BY <2>3, WorkHolds
  <2> QED BY <2>1, <2>2, <2>3, StopHolds, StutterHolds DEF FlatNext
<1> QED BY <1>1, <1>2, PTL DEF FlatSpec

LEMMA InvTypes ==
  ASSUME FlatInv
  PROVE  FlatTypeOK
PROOF
<1>1. /\ Now \in Wirings /\ SoundWritten(written, starts) /\ DOMAIN written = Held(detail)
      /\ \A b \in DOMAIN detail : SoundDetail(detail[b], b, written, starts)
  BY NowFacts DEF FlatInv, SoundWiring
<1>2. /\ DOMAIN detail \subseteq Blocks /\ max_output_buffer \in [Blocks -> [PortNumbers -> Int]]
      /\ \A buffer \in DOMAIN written : written[buffer] \in Nat
  BY <1>1, NowFacts, WiringFacts
<1>3. ASSUME NEW b \in DOMAIN detail
      PROVE  /\ Readers(detail, b) \subseteq ReaderRecords
             /\ \A p \in DOMAIN detail[b].outs :
                  /\ detail[b].outs[p].block = b /\ detail[b].outs[p].port = p
                  /\ detail[b].outs[p].start = detail[b].start
                  /\ detail[b].outs[p].size >= Settings[b].multiple
             /\ detail[b].start \in 1..starts
  <2>1. /\ detail[b] \in Details /\ detail[b].start \in 1..starts
        /\ SoundOutputs(detail[b], b, written)
        /\ \A i \in DOMAIN detail[b].ins :
             detail[b].ins[i] # NoReader => detail[b].ins[i].buffer \in DOMAIN written
    BY <1>1 DEF SoundDetail, SoundReader
  <2>2. ASSUME NEW r \in Readers(detail, b) PROVE r \in ReaderRecords
    <3>1. PICK i \in DOMAIN detail[b].ins : r = detail[b].ins[i] /\ r # NoReader
      BY DEF Readers
    <3>2. r \in AnyReader
      BY <2>1, <3>1, DetailFacts
    <3>3. /\ r = [buffer |-> r.buffer, at |-> r.at, moved |-> r.moved]
          /\ r.buffer \in Held(detail) /\ r.at \in Int /\ r.moved \in BOOLEAN
      BY <1>1, <2>1, <3>1, <3>2, ReaderFacts
    <3> QED BY <3>3 DEF ReaderRecords
  <2> QED BY <2>1, <2>2 DEF SoundOutputs
<1>4. /\ status \in {"idle", "running", "crashed"}
      /\ d_ffg.edges \subseteq Cables /\ d_ffg.blocks \subseteq Blocks
      /\ subscriptions \subseteq MsgCables /\ starts \in 0..MaxStarts
  BY DEF FlatInv
<1> QED BY <1>1, <1>2, <1>3, <1>4 DEF FlatTypeOK

LEMMA InvPlaces ==
  ASSUME HistoriesFit, FlatInv
  PROVE  ReadersAreInPlace
PROOF
<1>1. /\ Now \in Wirings
      /\ \A b \in DOMAIN detail : SoundDetail(detail[b], b, written, starts)
  BY NowFacts DEF FlatInv, SoundWiring
<1>2. Wired
  BY NowFacts DEF Wired, ReaderOf, FlatInv, Running, AllLinked
<1>3. StrayReadersAreOlder
  <2> SUFFICES ASSUME status = "running", NEW b \in DOMAIN detail, NEW i \in DOMAIN detail[b].ins,
                      detail[b].ins[i] # NoReader, ~\E e \in d_ffg.edges : e.dst = <<b, i>>
               PROVE  detail[b].start < starts /\ detail[b].ins[i].buffer.start < starts
    BY DEF StrayReadersAreOlder
  <2>1. OthersAreOlder(Now, d_ffg.edges, starts)
    BY DEF FlatInv, Running
  <2> QED BY <2>1, NowFacts DEF OthersAreOlder
<1>4. AheadOnlyWhenMoved
  <2> SUFFICES ASSUME NEW b \in DOMAIN detail, NEW r \in Readers(detail, b), ~r.moved
               PROVE  r.at <= written[r.buffer] /\ written[r.buffer] - r.at < r.buffer.size
    BY DEF AheadOnlyWhenMoved
  <2>1. PICK i \in DOMAIN detail[b].ins : r = detail[b].ins[i] /\ r # NoReader
    BY DEF Readers
  <2>2. SoundReader(r, written)
    BY <1>1, <2>1 DEF SoundDetail
  <2> QED BY <2>2 DEF SoundReader, InPlace
<1> QED BY <1>2, <1>3, <1>4 DEF ReadersAreInPlace

\* Whatever graphs are started, reconfigured, refused or left half wired, every block
\* keeps the buffers it lists, of at least one output multiple, under the start its
\* detail was made at, every reader reads a buffer that somebody holds, and only such
\* buffers exist (setup_connections, merge_connections).
THEOREM FlatTyping ==
  FlatSpec => []FlatTypeOK
PROOF
  BY FlatInvariant, InvTypes, PTL

\* When a flowgraph runs, every connection is wired to the right buffer, a reader of no
\* connection is older than the start that runs, and none that alignment left alone is
\* ahead of its writer or a whole buffer behind, provided that histories are no longer
\* than what buffers are rounded up to.
THEOREM ReadersTheorem ==
  ASSUME HistoriesFit
  PROVE  FlatSpec => []ReadersAreInPlace
PROOF
<1>1. FlatInv => ReadersAreInPlace
  BY InvPlaces
<1> QED BY <1>1, FlatInvariant, PTL

\* A connection that is there before and after a step keeps its reader: a step of work
\* moves it by an item at most, and a reconfiguration not at all.
THEOREM SurvivorsTheorem ==
  FlatSpec => SurvivorsKeepTheirPlace
PROOF
<1> DEFINE Keeps == (status = "running" /\ status' = "running") =>
       \A e \in d_ffg.edges \cap d_ffg'.edges :
          /\ ReaderOf(e)'.buffer = ReaderOf(e).buffer
          /\ ReaderOf(e)'.at \in {ReaderOf(e).at, ReaderOf(e).at + 1}
          /\ d_ffg' # d_ffg => ReaderOf(e)' = ReaderOf(e)
<1>1. FlatInv /\ [FlatNext]_flat_vars => [Keeps]_flat_vars
  <2> SUFFICES ASSUME FlatInv, FlatNext, status = "running", status' = "running",
                      NEW e \in d_ffg.edges \cap d_ffg'.edges
               PROVE  LET r == detail[e.dst[1]].ins[e.dst[2]]
                          q == detail'[e.dst[1]].ins[e.dst[2]]
                      IN  q.buffer = r.buffer /\ q.at \in {r.at, r.at + 1} /\ (d_ffg' # d_ffg => q = r)
    BY Zenon DEF ReaderOf
  <2> DEFINE r == detail[e.dst[1]].ins[e.dst[2]]
             q == detail'[e.dst[1]].ins[e.dst[2]]
  <2>1. CASE \E E \in Buildable, M \in SUBSET MsgCables : Start(E, M)
    BY Zenon, <2>1, StartHolds
  <2>2. CASE \E E \in Buildable, M \in SUBSET MsgCables : Restart(E, M)
    <3>1. q = r
      BY Zenon, <2>2, RestartHolds
    <3> HIDE DEF q, r
    <3> QED BY <3>1 DEF q, r
  <2>3. CASE Stop
    BY Zenon, <2>3, StopHolds
  <2>4. CASE \E b \in Blocks : Work(b)
    <3>1. PICK b \in Blocks : Work(b)
      BY <2>4
    <3>2. d_ffg' = d_ffg
      BY <3>1 DEF Work
    <3>3. /\ e.dst[1] \in DOMAIN detail /\ e.dst[2] \in DOMAIN detail[e.dst[1]].ins /\ r # NoReader
      BY Zenon, NowFacts DEF FlatInv, Running, AllLinked
    <3>4. q.at \in {r.at, r.at + 1} /\ SameReaders(Now, Now')
      BY Zenon, <3>1, <3>3, WorkHolds
    <3>5. Now.detail = detail /\ Now'.detail = detail'
      BY DEF Now
    <3>6. q.buffer = r.buffer
      BY <3>3, <3>4, <3>5 DEF SameReaders, Alias
    <3> HIDE DEF q, r
    <3> QED BY Zenon, <3>2, <3>4, <3>6 DEF q, r
  <2> QED BY Zenon, <2>1, <2>2, <2>3, <2>4 DEF FlatNext
<1>2. FlatSpec => [][Keeps]_flat_vars
  <2> HIDE DEF Keeps
  <2> QED BY <1>1, FlatInvariant, PTL DEF FlatSpec
<1> QED BY Zenon, <1>2 DEF SurvivorsKeepTheirPlace
=============================================================================
