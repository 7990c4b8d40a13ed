------------------------------ MODULE GrcGraph ------------------------------
(***************************************************************************)
(* Flow graphs of the companion (src/grc/base, src/grc/python): the list   *)
(* of elements, the ports that the blocks' parameters ask for, the         *)
(* namespace in which parameters are evaluated, and the two conversions    *)
(* export_data and import_data.                                            *)
(*                                                                         *)
(* A block is named by its id; variables are the blocks of kind variable.  *)
(* Every block has one parameter that matters: the value of a variable,    *)
(* the number of ports of another block.  A port is its block, its         *)
(* direction and its key; ports are cloned from a master port and removed  *)
(* from the end, so the keys of a direction are 0 .. n-1.  Buses, virtual  *)
(* sources and sinks, and blocks with several master ports in a direction  *)
(* are left out.                                                           *)
(***************************************************************************)
EXTENDS Integers, Sequences, FiniteSets, SequencesExt

CONSTANTS
  Variables,    \* ids of the variables
  BlockIds,     \* ids of the other blocks
  Cloned,       \* Cloned[b]: the directions whose ports the parameter counts
  Fixed,        \* Fixed[b][d]: how many ports b has in the other directions
  NoNamespace   \* FlowGraph.n before the first evaluation

Ids == Variables \cup BlockIds
Dirs == {"source", "sink"}

ASSUME IdsAssumption == Variables \cap BlockIds = {} /\ "options" \notin Ids
ASSUME PortsAssumption ==
  \A b \in Ids : Cloned[b] \subseteq Dirs /\ \A d \in Dirs : Fixed[b][d] \in Nat

\* a loop: step(x, i) for i = 1 .. n, from first on
Iterate(step(_, _), first, n) ==
  LET after[i \in 0..n] == IF i = 0 THEN first ELSE step(after[i - 1], i)
  IN  after[n]

\* the list without the members of gone
Without(list, gone) ==
  Iterate(LAMBDA kept, i : IF list[i] \in gone THEN kept ELSE Append(kept, list[i]),
          << >>, Len(list))

\* expressions: a number, or the name of a variable
Number(i) == [number |-> i]
Name(v) == [name |-> v]
Dependencies(e) == IF "name" \in DOMAIN e THEN {e.name} ELSE {}

\* elements: the options block, blocks, connections between ports
Block(b) == [block |-> b]
Options == Block("options")
IsBlock(e) == "block" \in DOMAIN e
IsConnection(e) == ~IsBlock(e)
Connection(b, i, c, j) == [source |-> <<b, i>>, sink |-> <<c, j>>]

(* A flow graph is a record:                                               *)
(*   elements  FlowGraph._elements                                         *)
(*   params    of each block in it: its expression and whether it is enabled *)
(*   ports     of each block in it: how many ports there are per direction *)
(*   ns, renew the namespace and the flag that it has to be renewed        *)

Connections(g) == {e \in ToSet(g.elements) : IsConnection(e)}
HasBlocks(g) == DOMAIN g.params
UsesPort(c, d, b, k) == c[d] = <<b, k>>
UsesBlock(c, b) == c.source[1] = b \/ c.sink[1] = b

NewGraph == [elements |-> <<Options>>, params |-> << >>, ports |-> << >>,
             ns |-> NoNamespace, renew |-> TRUE]

\* get_blocks(): the variables are moved to the second place, one after the other
BlocksInOrder(g) ==
  LET blocks == Without(g.elements, Connections(g))
      second(bs, b) == LET rest == Without(bs, {b}) IN <<Head(rest), b>> \o Tail(rest)
  IN  Iterate(LAMBDA bs, i : IF bs[i].block \in Variables THEN second(bs, bs[i]) ELSE bs,
              blocks, Len(blocks))

-----------------------------------------------------------------------------
(* Evaluation.                                                             *)

EnabledVariables(params) == {v \in Variables \cap DOMAIN params : params[v].enabled}

\* sort_variables(): the variables that no other one of those left depends on are
\* taken away, again and again; in a circle there are none
Free(params, left) ==
  {v \in left : \A w \in left \ {v} : v \notin Dependencies(params[w].expr)}

Left(params, k) ==
  Iterate(LAMBDA left, i : left \ Free(params, left), EnabledVariables(params), k)

Rounds(params) == Cardinality(EnabledVariables(params))
Circular(params) == Left(params, Rounds(params)) # {}

Evaluates(e, ns) == Dependencies(e) \subseteq DOMAIN ns
Value(e, ns) == IF "number" \in DOMAIN e THEN e.number ELSE ns[e.name]

\* evaluates vs; one that raises is skipped
Extended(params, ns, vs) ==
  LET more == {v \in vs : Evaluates(params[v].expr, ns)}
  IN  [v \in DOMAIN ns \cup more |->
         IF v \in more THEN Value(params[v].expr, ns) ELSE ns[v]]

\* the variables that are taken away in round k
Layer(params, k) == Left(params, k - 1) \ Left(params, k)

\* they are evaluated, those that were taken away last before the others
Namespace(params) ==
  Iterate(LAMBDA ns, i : Extended(params, ns, Layer(params, Rounds(params) - i + 1)),
          << >>, Rounds(params))

\* what a call of evaluate() leaves: the flag is cleared first, and when the
\* variables depend on each other in a circle the old namespace stays
Evaluated(g) ==
  IF g.renew
  THEN [g EXCEPT !.renew = FALSE, !.ns = IF Circular(g.params) THEN @ ELSE Namespace(g.params)]
  ELSE g

\* get_nports(): 1 when the evaluation fails.  Numbers of ports are positive here.
Nports(e, ns) ==
  IF ns # NoNamespace /\ Evaluates(e, ns) THEN Value(e, ns) ELSE 1

-----------------------------------------------------------------------------
(* Rewriting.                                                              *)

Cut(g, gone) == [g EXCEPT !.elements = Without(@, gone)]

\* Mutant: excess ports are removed, their connections stay.
RectifyAlone(g, b, d) == [g EXCEPT !.ports[b][d] = Nports(g.params[b].expr, g.ns)]

\* Block.rewrite() in one direction: excess ports go with their connections.  The
\* namespace has been renewed by then: the master ports are found by evaluating.
Rectify(g, b, d) ==
  LET n == Nports(g.params[b].expr, g.ns)
      h == IF n < g.ports[b][d]
           THEN Cut(g, {c \in Connections(g) :
                          \E k \in n..(g.ports[b][d] - 1) : UsesPort(c, d, b, k)})
           ELSE g
  IN  [h EXCEPT !.ports[b][d] = n]

RewriteBlock(g, b) ==
  LET h == IF Cloned[b] = {} THEN g ELSE Evaluated(g)
      s == IF "source" \in Cloned[b] THEN Rectify(h, b, "source") ELSE h
  IN  IF "sink" \in Cloned[b] THEN Rectify(s, b, "sink") ELSE s

\* Mutant: the loop ends one element early.
RewriteButLast(g, i) ==
  IF i < Len(g.elements) /\ IsBlock(g.elements[i]) /\ g.elements[i] # Options
  THEN RewriteBlock(g, g.elements[i].block) ELSE g

\* the loop runs over the list from which the blocks it calls remove connections, so
\* the i-th step is on the element that is then the i-th
RewriteNext(g, i) ==
  IF i <= Len(g.elements) /\ IsBlock(g.elements[i]) /\ g.elements[i] # Options
  THEN RewriteBlock(g, g.elements[i].block) ELSE g

\* FlowGraph.rewrite().  What the loop skips is evaluated after it, when bus structures
\* are formed.
Rewrite(g) ==
  LET done == Iterate(RewriteNext, [g EXCEPT !.renew = TRUE], Len(g.elements))
  IN  IF \E b \in HasBlocks(g) : Cloned[b] # {} THEN Evaluated(done) ELSE done

\* update(): rewrite, then validate, which evaluates every parameter
Update(g) == Evaluated(Rewrite(g))

-----------------------------------------------------------------------------
(* Adding and removing.                                                    *)

\* get_new_block() and the parameters that are set next
AddBlock(g, b, p) ==
  [g EXCEPT !.elements = Append(@, Block(b)),
            !.params = [x \in DOMAIN @ \cup {b} |-> IF x = b THEN p ELSE @[x]],
            !.ports = [x \in DOMAIN @ \cup {b} |->
                         IF x = b THEN [d \in Dirs |-> IF d \in Cloned[b] THEN 1 ELSE Fixed[b][d]]
                                  ELSE @[x]]]

PortExists(g, b, d, k) == b \in HasBlocks(g) /\ k < g.ports[b][d]

CanConnect(g, c) ==
  /\ PortExists(g, c.source[1], "source", c.source[2])
  /\ PortExists(g, c.sink[1], "sink", c.sink[2])

Connect(g, c) == [g EXCEPT !.elements = Append(@, c)]

\* what_is_selected(): a clicked element is drawn last
Raise(g, e) == [g EXCEPT !.elements = Append(Without(@, {e}), e)]

\* remove_element(); the options block comes back at the end of the list
RemoveElement(g, e) ==
  IF e = Options THEN Raise(g, e)
  ELSE IF IsConnection(e) THEN Cut(g, {e})
  ELSE LET kept == HasBlocks(g) \ {e.block}
       IN  [Cut(g, {e} \cup {c \in Connections(g) : UsesBlock(c, e.block)}) EXCEPT
              !.params = [x \in kept |-> g.params[x]],
              !.ports = [x \in kept |-> g.ports[x]]]

-----------------------------------------------------------------------------
(* Export and import.                                                      *)

Export(g) ==
  LET record(e) == [id |-> e.block,
                    param |-> IF e = Options THEN << >> ELSE g.params[e.block]]
      blocks == BlocksInOrder(g)
  IN  [blocks |-> [i \in DOMAIN blocks |-> record(blocks[i])],
       connections |-> Without(g.elements, ToSet(blocks))]

Emptied(g) == [NewGraph EXCEPT !.ns = g.ns, !.renew = g.renew]

\* Mutant: the blocks are loaded without making their ports.
LoadPortless(g, x) == IF x.id = "options" THEN g ELSE AddBlock(g, x.id, x.param)

Load(g, x) == IF x.id = "options" THEN g ELSE RewriteBlock(AddBlock(g, x.id, x.param), x.id)
Link(g, c) == IF CanConnect(g, c) THEN Connect(g, c) ELSE g

\* Block.import_data() for each block, in the namespace the flow graph has then; then
\* the connections whose ports are there; then a rewrite
Loaded(g, n) == Iterate(LAMBDA h, i : Load(h, n.blocks[i]), Emptied(g), Len(n.blocks))
Import(g, n) ==
  Rewrite(Iterate(LAMBDA h, i : Link(h, n.connections[i]), Loaded(g, n), Len(n.connections)))
=============================================================================
