----------------------------- MODULE HierBlock -----------------------------
(***************************************************************************)
(* gr::hier_block2: a block with a graph inside.  The application connects *)
(* and disconnects blocks in the graph of each hierarchical block, the     *)
(* owner of a graph standing for its own ports; flatten() resolves all of  *)
(* them into the flat graph that is run (FlatFlowgraph).                   *)
(*                                                                         *)
(* The blocks are those of Flowgraph; an endpoint is a block and a port, a *)
(* message endpoint a block and the name of a port.  A call yields the net *)
(* it leaves behind, also when it throws: what it changed before stays.    *)
(* A series in hier_block2.py, or a tuple of ports, is one call after the  *)
(* other.                                                                  *)
(***************************************************************************)
EXTENDS Flowgraph

CONSTANTS
  Hiers, Top,          \* the hierarchical blocks; the top block is one of them
  MsgIn, MsgOut,       \* block -> names of its message ports; for a hierarchical one
                       \* hier_message_ports_in and _out, as seen from its inside
  Applications,        \* what an application may ask for: each of the hierarchical
                       \* blocks that it uses -> [edges, msgs, singles]
  NoEndpoint, NoParent,
  MaxListed            \* bound: how often a block may be in d_blocks

LeafBlocks == Blocks \ Hiers

(* The constructor refuses a variable number of ports.                     *)
ASSUME HiersAssumption ==
  /\ Hiers \subseteq Blocks /\ Top \in Hiers
  /\ NoEndpoint \notin Blocks \X Nat /\ NoParent \notin Hiers
  /\ MaxListed \in Nat \ {0, 1}
  /\ \A h \in Hiers, side \in {"in", "out"} :
       Signature[h][side].min = Signature[h][side].max /\ Signature[h][side].max # Infinite

Ends(edges) == UNION {{e.src[1], e.dst[1]} : e \in edges}

(* The hierarchical blocks that an application puts into another one.      *)
Homed(a, h) == (Ends(a[h].edges \cup a[h].msgs) \cup a[h].singles) \cap (Hiers \ {h})

(* A hierarchical block has one parent, and flatten() would join what is   *)
(* inside it once for each place it is in, which the second time throws:   *)
(* an application puts it into one other, and the top block into none.     *)
ASSUME ApplicationsAssumption ==
  \A a \in Applications :
    /\ DOMAIN a \subseteq Hiers
    /\ \A h \in DOMAIN a :
         /\ a[h].edges \subseteq [src : Blocks \X Nat, dst : Blocks \X Nat]
         /\ a[h].msgs \subseteq [src : Blocks \X STRING, dst : Blocks \X STRING]
         /\ a[h].singles \subseteq Blocks
         /\ Top \notin Homed(a, h)
         /\ \A k \in DOMAIN a : h # k => Homed(a, h) \cap Homed(a, k) = {}

(* S and what can be reached from it by following R.                       *)
Closure(R, S) ==
  LET grown[T \in SUBSET Hiers] ==
        LET more == T \cup UNION {R[b] : b \in T} IN IF more = T THEN T ELSE grown[more]
  IN  grown[S]

VARIABLES
  app,                 \* what the application asks for, one of Applications
  net,                 \* the details of the hierarchical blocks
  cleared,             \* history: named in a disconnect since they were connected
  crashed              \* a call followed a null pointer or called itself for ever

vars == <<app, net, cleared, crashed>>

(***************************************************************************)
(* net is a record of functions of the hierarchical block:                 *)
(*   edges, msgs       of d_fg, the messages in the order of connecting    *)
(*   inputs, outputs   d_inputs: the endpoints at each input; d_outputs    *)
(*   blocks            d_blocks: how often each block is in the list       *)
(*   parent            d_parent_detail, by the owner of that detail        *)
(***************************************************************************)
Ports(h, side) == 0 .. (Signature[h][side].max - 1)

(* flowgraph::clear: the message edges stay.                               *)
ClearedGraph(n, h) == [n EXCEPT !.edges[h] = {}]

(* disconnect_all: messages still go the ways they went, and a connection  *)
(* of them made again is refused.                                          *)
Emptied(n, h) ==
  [ClearedGraph(n, h) EXCEPT
            !.inputs[h] = [i \in Ports(h, "in") |-> {}],
            !.outputs[h] = [i \in Ports(h, "out") |-> NoEndpoint],
            !.blocks[h] = [b \in Blocks |-> 0]]

-----------------------------------------------------------------------------
(* Mutant: a block at the source of a connection is not adopted.           *)
SetParentOfLast(n, h, ends, to) ==
  [n EXCEPT !.parent = [b \in Hiers |-> IF ends # << >> /\ b = Last(ends) /\ b # h THEN to ELSE @[b]]]

SetParent(n, h, ends, to) ==
  [n EXCEPT !.parent = [b \in Hiers |-> IF b \in ToSet(ends) \ {h} THEN to ELSE @[b]]]

Listed(n, h, b) == [n EXCEPT !.blocks[h][b] = @ + 1]

(* connect of a single block                                               *)
ConnectBlock(n, h, b) ==
  IF n.blocks[h][b] > 0 \/ Signature[b].in.max # 0 \/ Signature[b].out.max # 0 THEN n
  ELSE Listed(SetParent(n, h, <<b>>, h), h, b)

ConnectInput(n, h, e) ==
  IF e.src[2] \in Ports(h, "in") /\ e.dst \notin n.inputs[h][e.src[2]]
  THEN [n EXCEPT !.inputs[h][e.src[2]] = @ \cup {e.dst}] ELSE n

ConnectOutput(n, h, e) ==
  IF e.dst[2] \in Ports(h, "out") /\ n.outputs[h][e.dst[2]] = NoEndpoint
  THEN [n EXCEPT !.outputs[h][e.dst[2]] = e.src] ELSE n

(* connect: the parent is set before anything else is checked.             *)
Connect(n, h, e) ==
  LET adopted == SetParent(n, h, <<e.src[1], e.dst[1]>>, h)
  IN  IF e.src[1] = e.dst[1] THEN n
      ELSE CASE e.src[1] = h -> ConnectInput(adopted, h, e)
             [] e.dst[1] = h -> ConnectOutput(adopted, h, e)
             [] OTHER -> IF MayJoin(n.edges[h], e) THEN [adopted EXCEPT !.edges[h] = @ \cup {e}]
                                                   ELSE adopted

DisconnectInput(n, h, e) ==
  IF e.src[2] \in Ports(h, "in") THEN [n EXCEPT !.inputs[h][e.src[2]] = @ \ {e.dst}] ELSE n

(* Only the block is compared, not its port.                               *)
DisconnectOutput(n, h, e) ==
  IF /\ e.dst[2] \in Ports(h, "out")
     /\ n.outputs[h][e.dst[2]] # NoEndpoint /\ n.outputs[h][e.dst[2]][1] = e.src[1]
  THEN [n EXCEPT !.outputs[h][e.dst[2]] = NoEndpoint] ELSE n

(* disconnect: the parent is cleared whatever else is connected.           *)
Disconnect(n, h, e) ==
  LET orphaned == SetParent(n, h, <<e.src[1], e.dst[1]>>, NoParent)
  IN  IF e.src[1] = e.dst[1] THEN n
      ELSE CASE e.src[1] = h -> DisconnectInput(orphaned, h, e)
             [] e.dst[1] = h -> DisconnectOutput(orphaned, h, e)
             [] OTHER -> [orphaned EXCEPT !.edges[h] = @ \ {e}]

(* disconnect of a single block: one entry of the list, or else the edges  *)
(* of d_fg, which leaves out those to the owner's own ports.               *)
EdgesAt(n, h, b) == {e \in n.edges[h] : b \in {e.src[1], e.dst[1]}}

Named(n, h, b) ==
  IF n.blocks[h][b] > 0 THEN {b}
  ELSE Ends(EdgesAt(n, h, b))

(* Mutant: the entry is taken out of the list without looking for it.      *)
DisconnectUnlisted(n, h, b) ==
  [SetParent(n, h, SetToSeq(Named(n, h, b)), NoParent) EXCEPT !.blocks[h][b] = @ - 1]

DisconnectBlock(n, h, b) ==
  LET orphaned == SetParent(n, h, SetToSeq(Named(n, h, b)), NoParent)
  IN  IF n.blocks[h][b] > 0 THEN [orphaned EXCEPT !.blocks[h][b] = @ - 1]
      ELSE [orphaned EXCEPT !.edges[h] = @ \ EdgesAt(n, h, b)]

(* A block of the list is taken for a hierarchical one.                    *)
FollowsNull(n, h, b) == n.blocks[h][b] > 0 /\ b \in LeafBlocks

(* msg_connect: blocks go into the list, the source only together with its *)
(* destination, and get their parent before the ports are checked.         *)
HasMsgPort(endpoint) == endpoint[2] \in MsgIn[endpoint[1]] \cup MsgOut[endpoint[1]]

MsgConnect(n, h, m) ==
  LET listed == IF n.blocks[h][m.dst[1]] > 0 THEN n
                ELSE Listed(Listed(n, h, m.src[1]), h, m.dst[1])
      adopted == SetParent(listed, h, <<m.src[1], m.dst[1]>>, h)
  IN  IF HasMsgPort(m.src) /\ HasMsgPort(m.dst) /\ ~Contains(n.msgs[h], m)
      THEN [adopted EXCEPT !.msgs[h] = Append(@, m)] ELSE adopted

(* msg_disconnect: message_port_unsub throws for a source that has no      *)
(* subscribers of its own, as no hierarchical block has.                   *)
Subscribable(endpoint) == endpoint[1] \in LeafBlocks /\ endpoint[2] \in MsgOut[endpoint[1]]

MsgDisconnect(n, h, m) ==
  IF Subscribable(m.src) /\ HasMsgPort(m.dst) THEN [n EXCEPT !.msgs[h] = RemoveFirst(@, m)] ELSE n

(* lock and unlock go from parent to parent; one without a parent calls    *)
(* itself for ever, unless it is the top block.                            *)
ReachesTop(n, h) == h \in Closure([b \in Hiers |-> {c \in Hiers : n.parent[c] = b}], {Top})

-----------------------------------------------------------------------------
(* flatten().                                                              *)

(* resolve_endpoint, resolve_port: the leaves behind an endpoint, with     *)
(* NoEndpoint among them where the code throws.                            *)
Inside(n, e, input) ==
  LET h == e[1] IN
  IF e[2] \notin Ports(h, Side(input)) \/ (input /\ n.inputs[h][e[2]] = {}) THEN <<NoEndpoint>>
  ELSE IF input THEN SetToSeq(n.inputs[h][e[2]]) ELSE <<n.outputs[h][e[2]]>>

Resolved(n, endpoint, input) ==
  LET resolve[e \in (Blocks \X Nat) \cup {NoEndpoint}] ==
        IF e = NoEndpoint \/ e[1] \in LeafBlocks THEN <<e>>
        ELSE FlattenSeq([i \in DOMAIN Inside(n, e, input) |-> resolve[Inside(n, e, input)[i]]])
  IN  resolve[endpoint]

EmptyFlat == [ok |-> TRUE, edges |-> {}, msgs |-> {}]

Join(f, e) ==
  IF f.ok /\ NoEndpoint \notin {e.src, e.dst} /\ MayJoin(f.edges, e)
  THEN [f EXCEPT !.edges = @ \cup {e}] ELSE [f EXCEPT !.ok = FALSE]

(* An edge joins the leaf at its source to every leaf at its destination.  *)
FlattenEdge(n, f, e) ==
  LET s == Resolved(n, e.src, FALSE)[1]
  IN  FoldLeft(LAMBDA g, d : Join(g, [src |-> s, dst |-> d]), f, Resolved(n, e.dst, TRUE))

(* An edge at a message port of the owner is put in the place of those     *)
(* that the flat graph has at that port (replace_endpoint), which go when  *)
(* all edges are through (clear_endpoint).                                 *)
FromOwner(h, m) == m.src[1] = h /\ m.src[2] \in MsgOut[h]
ToOwner(h, m) == m.dst[1] = h /\ m.dst[2] \in MsgIn[h]

(* Mutant: the edge that is replaced goes at once.                         *)
MoveDestination(M, e, r) ==
  {x \in M : x.dst # e} \cup {[m EXCEPT !.dst = r] : m \in {x \in M : x.dst = e}}

ReplaceSource(M, e, r) == M \cup {[m EXCEPT !.src = r] : m \in {x \in M : x.src = e}}
ReplaceDestination(M, e, r) == M \cup {[m EXCEPT !.dst = r] : m \in {x \in M : x.dst = e}}

FlattenMsgEdge(h, f, m) ==
  LET out == IF ToOwner(h, m) THEN ReplaceSource(f.msgs, m.dst, m.src) ELSE f.msgs
      both == IF FromOwner(h, m) THEN ReplaceDestination(out, m.src, m.dst) ELSE out
  IN  IF ToOwner(h, m) \/ FromOwner(h, m) THEN [f EXCEPT !.msgs = both]
      ELSE [f EXCEPT !.ok = @ /\ m \notin f.msgs, !.msgs = @ \cup {m}]

ClearEndpoints(n, h, f) ==
  [f EXCEPT !.msgs = {x \in @ : \A m \in ToSet(n.msgs[h]) :
                         /\ ToOwner(h, m) => x.src # m.dst
                         /\ FromOwner(h, m) => x.dst # m.src}]

(* Every port of the owner has to be connected inside.                     *)
Connected(n, h) ==
  /\ \A i \in Ports(h, "in") : n.inputs[h][i] # {}
  /\ \A i \in Ports(h, "out") : n.outputs[h][i] # NoEndpoint

AtPorts(n, h) ==
  (UNION {n.inputs[h][i] : i \in Ports(h, "in")})
    \cup ({n.outputs[h][i] : i \in Ports(h, "out")} \ {NoEndpoint})

Children(n, h) ==
  (UsedBlocks(n.edges[h], ToSet(n.msgs[h])) \cup {b \in Blocks : n.blocks[h][b] > 0}
     \cup {e[1] : e \in AtPorts(n, h)}) \cap (Hiers \ {h})

(* flatten_aux: the owner's edges first, then the blocks inside.           *)
OwnEdges(n, h, f) ==
  LET streams == FoldLeft(LAMBDA g, e : FlattenEdge(n, g, e), f, SetToSeq(n.edges[h]))
      msgs == FoldLeft(LAMBDA g, m : FlattenMsgEdge(h, g, m), streams, n.msgs[h])
  IN  [ClearEndpoints(n, h, msgs) EXCEPT !.ok = @ /\ Connected(n, h)]

Endpoints == LeafBlocks \X Nat
MsgEndpoints == Blocks \X STRING
FlatGraphs == [ok : BOOLEAN, edges : SUBSET [src : Endpoints, dst : Endpoints],
               msgs : SUBSET [src : MsgEndpoints, dst : MsgEndpoints]]

Flatten(n) ==
  LET aux[h \in Hiers, f \in FlatGraphs] ==
        FoldLeft(LAMBDA g, b : IF g.ok THEN aux[b, g] ELSE g, OwnEdges(n, h, f),
                 InOrder(Children(n, h)))
  IN  aux[Top, EmptyFlat]

-----------------------------------------------------------------------------
Init ==
  /\ app \in Applications
  /\ net = [edges |-> [h \in Hiers |-> {}], msgs |-> [h \in Hiers |-> << >>],
            inputs |-> [h \in Hiers |-> [i \in Ports(h, "in") |-> {}]],
            outputs |-> [h \in Hiers |-> [i \in Ports(h, "out") |-> NoEndpoint]],
            blocks |-> [h \in Hiers |-> [b \in Blocks |-> 0]],
            parent |-> [h \in Hiers |-> NoParent]]
  /\ cleared = {} /\ crashed = FALSE

(* The program goes on with another call.                                  *)
Goes == ~crashed /\ UNCHANGED <<app, crashed>>

MayList(h, bs) == \A b \in bs : net.blocks[h][b] < MaxListed

AddBlock(h) ==
  /\ Goes
  /\ \E b \in app[h].singles :
       /\ net' = ConnectBlock(net, h, b)
       /\ cleared' = IF net' = net THEN cleared ELSE cleared \ ({b} \ {h})

AddEdge(h) ==
  /\ Goes
  /\ \E e \in app[h].edges :
       /\ net' = Connect(net, h, e)
       /\ cleared' = IF e.src[1] = e.dst[1] THEN cleared ELSE cleared \ ({e.src[1], e.dst[1]} \ {h})

RemoveEdge(h) ==
  /\ Goes
  /\ \E e \in app[h].edges :
       /\ net' = Disconnect(net, h, e)
       /\ cleared' = IF e.src[1] = e.dst[1] THEN cleared
                     ELSE cleared \cup ({e.src[1], e.dst[1]} \cap (Hiers \ {h}))

RemoveBlock(h) ==
  /\ ~crashed /\ UNCHANGED app
  /\ \E b \in Blocks :
       /\ net' = DisconnectBlock(net, h, b)
       /\ cleared' = cleared \cup (Named(net, h, b) \cap (Hiers \ {h}))
       /\ crashed' = FollowsNull(net, h, b)

RemoveAll(h) == Goes /\ net' = Emptied(net, h) /\ UNCHANGED cleared

AddMsg(h) ==
  /\ Goes
  /\ \E m \in app[h].msgs :
       /\ MayList(h, {m.src[1], m.dst[1]})
       /\ net' = MsgConnect(net, h, m)
       /\ cleared' = cleared \ ({m.src[1], m.dst[1]} \ {h})

RemoveMsg(h) ==
  /\ Goes
  /\ \E m \in app[h].msgs : net' = MsgDisconnect(net, h, m)
  /\ UNCHANGED cleared

Lock(h) == ~crashed /\ crashed' = ~ReachesTop(net, h) /\ UNCHANGED <<app, net, cleared>>

Next ==
  \E h \in DOMAIN app :
    \/ AddBlock(h) \/ AddEdge(h) \/ AddMsg(h)
    \/ RemoveEdge(h) \/ RemoveBlock(h) \/ RemoveMsg(h) \/ RemoveAll(h)
    \/ Lock(h)

Spec == Init /\ [][Next]_vars

-----------------------------------------------------------------------------
(* Everything in a net is of its kind, and no block is in a list fewer     *)
(* times than never.                                                       *)
TypeOK ==
  /\ app \in Applications /\ cleared \subseteq Hiers /\ crashed \in BOOLEAN
  /\ \A h \in DOMAIN app :
       /\ net.edges[h] \subseteq app[h].edges /\ ToSet(net.msgs[h]) \subseteq app[h].msgs
       /\ AtPorts(net, h) \subseteq UNION {{e.src, e.dst} : e \in app[h].edges}
       /\ net.blocks[h] \in [Blocks -> 0 .. MaxListed]
       /\ net.parent[h] \in (Hiers \ {h}) \cup {NoParent}

(* The hierarchical blocks that anything connected in h names, and those   *)
(* of them that flatten() does not see.                                    *)
Members(n, h) ==
  (Ends(n.edges[h] \cup ToSet(n.msgs[h])) \cup {b \in Blocks : n.blocks[h][b] > 0}
     \cup {e[1] : e \in AtPorts(n, h)}) \cap (Hiers \ {h})

WithMembers(h) == Closure([b \in Hiers |-> Members(net, b)], {h})

Contained == WithMembers(Top)
Overlooked == UNION {Members(net, h) \ Children(net, h) : h \in Contained}

(* What is connected, as arcs: of streams between the sides of ports, of   *)
(* messages between endpoints; and what can be reached along arcs.         *)
Out(endpoint) == <<"out", endpoint>>
In(endpoint) == <<"in", endpoint>>

StreamArcs ==
  UNION {{<<Out(e.src), In(e.dst)>> : e \in net.edges[h]}
           \cup (UNION {{<<In(<<h, i>>), In(e)>> : e \in net.inputs[h][i]} : i \in Ports(h, "in")})
           \cup {<<Out(net.outputs[h][i]), Out(<<h, i>>)>> :
                   i \in {j \in Ports(h, "out") : net.outputs[h][j] # NoEndpoint}}
           : h \in Contained}

MsgArcs == UNION {{<<m.src, m.dst>> : m \in ToSet(net.msgs[h])} : h \in Contained}

Along(arcs, S) ==
  LET reach[T \in SUBSET (S \cup {a[2] : a \in arcs})] ==
        LET more == T \cup {a[2] : a \in {x \in arcs : x[1] \in T}}
        IN  IF more = T THEN T ELSE reach[more]
  IN  reach[S]

(* Leaf to leaf, ends not in between.                                      *)
LeafOutputs == {a[1] : a \in {x \in StreamArcs : x[1][1] = "out" /\ x[1][2][1] \in LeafBlocks}}
StreamPaths ==
  LET arcs == StreamArcs
  IN  UNION {{[src |-> s[2], dst |-> d[2]] :
                d \in {x \in Along(arcs, {s}) : x[1] = "in" /\ x[2][1] \in LeafBlocks}} : s \in LeafOutputs}

MsgPaths ==
  LET arcs == MsgArcs
  IN  UNION {{[src |-> s, dst |-> d] : d \in Along({a \in arcs : a[1] = s \/ a[1][1] \in Hiers}, {s}) \ {s}}
               : s \in {a[1] : a \in arcs}}

AtLeaves(M) == {m \in M : m.src[1] \in LeafBlocks /\ m.dst[1] \in LeafBlocks}

(* An input of a leaf or a hierarchical block that is fed is fed once; the *)
(* ports exist and the ends of each path agree on the size of an item.     *)
Sound ==
  LET arcs == StreamArcs
      fed == Along(arcs, LeafOutputs)
  IN  /\ \A h \in Contained : Connected(net, h)
      /\ \A x \in {y \in fed : y[1] = "in"} :
           Cardinality({a \in arcs : a[2] = x /\ a[1] \in fed}) = 1
      /\ \A e \in StreamPaths : ValidPort(e.src, FALSE) /\ ValidPort(e.dst, TRUE) /\ TypeMatch(e)

(* A message port of a hierarchical block that is connected straight to    *)
(* another one of the same block.                                          *)
PassesThrough ==
  \E h \in Contained : \E m \in ToSet(net.msgs[h]) : FromOwner(h, m) /\ ToOwner(h, m)

(***************************************************************************)
(* flatten() (hier_block2_detail.cc) joins exactly the leaves between      *)
(* which the nested graphs have a path, for streams and for messages, and  *)
(* throws exactly when a hierarchical block has an unconnected port or a   *)
(* path ends where no edge may.  Message edges count that a disconnect_all *)
(* left behind.  Two things are left out of the promise: a hierarchical    *)
(* block that does nothing but send, to blocks that were connected before  *)
(* or by edges left behind, is overlooked; and so is a message that passes *)
(* straight through.                                                       *)
(***************************************************************************)
FlattenFollowsPaths ==
  LET flat == Flatten(net)
      missed == Overlooked
  IN  /\ \A h \in Contained : \A b \in Members(net, h) \cap missed :
           b \notin {e[1] : e \in AtPorts(net, h)} /\ ~\E m \in ToSet(net.msgs[h]) : m.dst[1] = b
      /\ missed = {} =>
           /\ flat.ok <=> Sound
           /\ flat.ok => flat.edges = StreamPaths
           /\ flat.ok /\ ~PassesThrough => AtLeaves(flat.msgs) = AtLeaves(MsgPaths)

(***************************************************************************)
(* hier_block2.h: lock() prepares the flowgraph for a change from whatever *)
(* block of it is asked, however deep: its parents lead to the top block.  *)
(* The exception is a block that, or whose container, was named in a       *)
(* disconnect and not connected again, whatever else still connects it.    *)
(***************************************************************************)
LocksReachTop ==
  \A b \in Contained :
    (\A h \in Contained : b \in WithMembers(h) => h \notin cleared) => ReachesTop(net, b)
=============================================================================
