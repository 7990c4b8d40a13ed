------------------------------ MODULE Flowgraph ------------------------------
(***************************************************************************)
(* gr::flowgraph: the checks made when a graph is built and the orders the *)
(* schedulers take from it, as operators on a set of edges.                *)
(*                                                                         *)
(* A block is the number of its address, by which unique_vector sorts; an  *)
(* endpoint is a block and a port.  connect() never lets a destination be  *)
(* used twice, so the vector of edges is a set.                            *)
(***************************************************************************)
EXTENDS Integers, FiniteSets, SequencesExt

CONSTANTS
  Blocks,               \* the blocks of the application, by address
  Signature,            \* block -> [in, out |-> [min, max, size]]: the least
                        \* and largest number of streams, the size of an item
  Infinite              \* io_signature::IO_INFINITE

ASSUME SignatureAssumption ==
  /\ Blocks \subseteq Nat /\ IsFiniteSet(Blocks)
  /\ \A b \in Blocks : \A side \in {"in", "out"} :
       /\ Signature[b][side].min \in Nat /\ Signature[b][side].size \in Nat \ {0}
       /\ Signature[b][side].max \in Nat \cup {Infinite}
  /\ Infinite = -1

Side(input) == IF input THEN "in" ELSE "out"
EndOf(e, input) == IF input THEN e.dst ELSE e.src
(* The members of a set of numbers from the least to the greatest.         *)
InOrder(S) ==
  [k \in 1 .. Cardinality(S) |->
     CHOOSE x \in S : Cardinality({y \in S : y < x}) = k - 1]
-----------------------------------------------------------------------------
(* Building a graph.                                                       *)
ValidPort(endpoint, input) ==
  LET max == Signature[endpoint[1]][Side(input)].max
  IN  endpoint[2] >= 0 /\ (max = Infinite \/ endpoint[2] < max)

DstNotUsed(E, dst) == \A e \in E : e.dst # dst

TypeMatch(e) == Signature[e.src[1]].out.size = Signature[e.dst[1]].in.size

(* What connect() accepts once E is there.                                 *)
MayJoin(E, e) ==
  /\ ValidPort(e.src, FALSE)
  /\ ValidPort(e.dst, TRUE)
  /\ DstNotUsed(E, e.dst)
  /\ TypeMatch(e)

(* A hierarchical block does not let a block feed itself.                  *)
MayConnect(E, e) == e.src[1] # e.dst[1] /\ MayJoin(E, e)
-----------------------------------------------------------------------------
(* Looking at a graph: E its edges, M its message edges.                   *)
UsedBlocks(E, M) == {m.dst[1] : m \in M} \cup UNION {{e.src[1], e.dst[1]} : e \in E}

Connections(E, b, input) == {e \in E : EndOf(e, input)[1] = b}

UsedPorts(E, b, input) == {EndOf(e, input)[2] : e \in Connections(E, b, input)}

DownstreamOfPort(E, endpoint) == {e.dst[1] : e \in {x \in E : x.src = endpoint}}
Downstream(E, b) == {e.dst[1] : e \in Connections(E, b, FALSE)}
UpstreamEdges(E, b) == Connections(E, b, TRUE)
UpstreamEdge(E, b, port) == CHOOSE e \in E : e.dst = <<b, port>>
IsSource(E, b) == UpstreamEdges(E, b) = {}
(* Mutant: only the blocks that it feeds are adjacent to a block.          *)
AdjacentDownstream(E, b) == Downstream(E, b)
Adjacent(E, b) == {e.src[1] : e \in UpstreamEdges(E, b)} \cup Downstream(E, b)

(* check_contiguity: the last of the used ports tells whether one is       *)
(* missing.                                                                *)
Contiguous(ports, sig) ==
  LET n == Cardinality(ports)
  IN  \/ n = 0 /\ sig.min = 0
      \/ /\ n >= sig.min
         /\ sig.max = Infinite \/ n <= sig.max
         /\ InOrder(ports)[n] + 1 = n

(* validate; check_topology accepts everything unless a block overrides    *)
(* it, which none of the runtime's blocks does.                            *)
Validates(E, M) ==
  \A b \in UsedBlocks(E, M), input \in BOOLEAN :
     Contiguous(UsedPorts(E, b, input), Signature[b][Side(input)])
-----------------------------------------------------------------------------
(* topological_sort: depth first from the sources, then from the others; a *)
(* grey block met again is a loop, and the search is given up.             *)
Colors == {"white", "grey", "black"}
Searches == [color : [Blocks -> Colors], output : Seq(Blocks), loop : BOOLEAN]

Searched(E) ==
  LET Visit[search \in Searches, b \in Blocks] ==
        LET Meet(s, d) ==
              IF s.loop \/ s.color[d] = "black" THEN s
              ELSE IF s.color[d] = "grey" THEN [s EXCEPT !.loop = TRUE]
              ELSE Visit[s, d]
            after == FoldLeft(Meet, [search EXCEPT !.color[b] = "grey"],
                              InOrder(Downstream(E, b)))
        IN  [after EXCEPT !.color[b] = "black", !.output = Append(@, b)]
  IN  Visit

SourcesFirst(E, S) ==
  LET sources == {b \in S : IsSource(E, b)}
  IN  InOrder(sources) \o InOrder(S \ sources)

TopologicalSort(E, S) ==
  LET Begin(s, b) ==
        IF s.loop \/ s.color[b] # "white" THEN s ELSE Searched(E)[s, b]
      end == FoldLeft(Begin, [color |-> [b \in Blocks |-> "white"],
                              output |-> <<>>, loop |-> FALSE],
                      SourcesFirst(E, S))
  IN  [order |-> Reverse(end.output), loop |-> end.loop]

(* calc_reachable_blocks: those met by following edges either way.         *)
Reachable(E, b) ==
  LET Mark[seen \in SUBSET Blocks, c \in Blocks] ==
        FoldLeft(LAMBDA s, d : IF d \in s THEN s ELSE Mark[s, d],
                 seen \cup {c}, InOrder(Adjacent(E, c)))
  IN  Mark[{}, b]

(* partition: take the first block left and all that is reachable from it. *)
Partition(E, M) ==
  LET Part[left \in SUBSET Blocks] ==
        IF left = {} THEN <<>>
        ELSE LET graph == Reachable(E, InOrder(left)[1]) \cap left
             IN  <<TopologicalSort(E, graph)>> \o Part[left \ graph]
  IN  Part[UsedBlocks(E, M)]
=============================================================================
