------------------------------ MODULE GrcEdits ------------------------------
(***************************************************************************)
(* What a user does to one flow graph (src/grc/gui/FlowGraph.py and the    *)
(* handlers of ActionHandler.py that change it): clicking, creating,       *)
(* connecting, deleting, enabling, typing in the properties dialog, copy   *)
(* and paste, undo and redo, saving and opening again.  A handler runs to  *)
(* its end on the gtk main loop, so each is one step; the dialog is modal. *)
(***************************************************************************)
EXTENDS GrcGraph

CONSTANTS
  Exprs,             \* Exprs[b]: what can be typed for b
  Selections,        \* the sets of blocks that can be copied
  CopyOf,            \* CopyOf[b]: the unique id a pasted b gets when b is taken
  Files,             \* the flow graphs in the file that is opened first
  STATE_CACHE_SIZE, Graphs, NoState,
  MaxActs            \* bound: how many actions the user takes

History == INSTANCE StateCache

ASSUME ExprsAssumption == \A b \in Ids : Exprs[b] \subseteq [number : Nat] \cup [name : Variables]
ASSUME SelectionsAssumption == \A chosen \in Selections : IsFiniteSet(chosen)
ASSUME CopyAssumption == \A b \in Ids : CopyOf[b] \in Ids
ASSUME CacheAssumption == STATE_CACHE_SIZE \in Nat \ {0} /\ MaxActs \in Nat

\* what files hold and what is recorded and copied: blocks with different ids, different
\* connections between ports
Params == [expr : {Number(1)} \cup UNION {Exprs[b] : b \in Ids}, enabled : BOOLEAN]
Wires == [source : Ids \X Nat, sink : Ids \X Nat]
Elements == {Options} \cup {Block(b) : b \in Ids} \cup Wires

Records == [id : Ids, param : Params] \cup {[id |-> "options", param |-> << >>]}

Data ==
  {n \in [blocks : Seq(Records), connections : Seq(Wires)] :
     /\ \A i, j \in DOMAIN n.blocks : n.blocks[i].id = n.blocks[j].id => i = j
     /\ IsInjective(n.connections)}

ASSUME FilesAssumption == Files \subseteq Data

VARIABLES
  graph,     \* the flow graph
  cache,     \* its undo list
  dialog,    \* the block whose properties are open, or "none"
  clipboard, \* what was copied, or NoClipboard
  torn, cut, \* history: a paste was left half way; the last update cut connections
  acts       \* how many actions the user has taken

history == <<torn, cut>>
vars == <<graph, cache, dialog, clipboard, history, acts>>

NoClipboard == [blocks |-> << >>, connections |-> << >>]

Idle == dialog = "none"

Updates(g) ==
  /\ graph' = Update(g)
  /\ cut' = (Connections(graph') # Connections(g))
  /\ torn' = FALSE

\* the end of every edit: update() and save_new_state(export_data())
Record(g) ==
  /\ Updates(g)
  /\ cache' = History!SaveNewState(cache, Export(graph'))

NotRecorded == UNCHANGED <<cache, history>>

\* import_data() and update(), as undo, redo and a cancelled dialog do
Restore(c) ==
  /\ cache' = c
  /\ Updates(Import(graph, History!CurrentState(c)))

-----------------------------------------------------------------------------

Click(e) ==
  /\ Idle /\ e \in ToSet(graph.elements)
  /\ graph' = Raise(graph, e)
  /\ NotRecorded /\ UNCHANGED <<dialog, clipboard>>

\* add_new_block(): a block comes with the default of its parameter
Create(b) ==
  /\ Idle /\ b \in Ids \ HasBlocks(graph)
  /\ Record(AddBlock(graph, b, [expr |-> Number(1), enabled |-> TRUE]))
  /\ UNCHANGED <<dialog, clipboard>>

\* Mutant: nobody looks whether the connection is there.
ConnectAgain(c) ==
  /\ Idle /\ CanConnect(graph, c)
  /\ Record(Connect(Raise(Raise(graph, Block(c.source[1])), Block(c.sink[1])), c))
  /\ UNCHANGED <<dialog, clipboard>>

\* two ports are clicked, which raises their blocks; a second connection between
\* them is refused
ConnectPorts(c) ==
  LET raised == Raise(Raise(graph, Block(c.source[1])), Block(c.sink[1])) IN
  /\ Idle /\ CanConnect(graph, c)
  /\ IF c \in Connections(graph) THEN graph' = raised /\ NotRecorded
                                 ELSE Record(Connect(raised, c))
  /\ UNCHANGED <<dialog, clipboard>>

Delete(e) ==
  /\ Idle /\ e \in ToSet(graph.elements)
  /\ Record(RemoveElement(graph, e))
  /\ UNCHANGED <<dialog, clipboard>>

\* BLOCK_ENABLE and BLOCK_DISABLE, of a variable: no other block is looked at for
\* whether it is enabled
Enable(b, to) ==
  /\ Idle /\ b \in HasBlocks(graph) \cap Variables
  /\ graph.params[b].enabled # to
  /\ Record([graph EXCEPT !.params[b].enabled = to])
  /\ UNCHANGED <<dialog, clipboard>>

\* BLOCK_MOVE: where a block is drawn is not modelled, that its move is recorded is;
\* there is no update
Move ==
  /\ Idle /\ HasBlocks(graph) # {}
  /\ cache' = History!SaveNewState(cache, Export(graph))
  /\ torn' = FALSE
  /\ UNCHANGED <<graph, dialog, clipboard, cut>>

\* the properties of a block whose parameter matters
OpenProperties(b) ==
  /\ Idle /\ b \in HasBlocks(graph)
  /\ b \in Variables \/ Cloned[b] # {}
  /\ dialog' = b
  /\ NotRecorded /\ UNCHANGED <<graph, clipboard>>

\* every change of the text is set and the block alone is rewritten and validated
Type(e) ==
  /\ graph.params[dialog].expr # e
  /\ graph' = Evaluated(RewriteBlock([graph EXCEPT !.params[dialog].expr = e], dialog))
  /\ NotRecorded /\ UNCHANGED <<dialog, clipboard>>

Accept ==
  /\ ~Idle /\ dialog' = "none"
  /\ Record(graph)
  /\ UNCHANGED clipboard

\* Mutant: what was typed stays when the dialog is cancelled.
CancelKeeps ==
  /\ ~Idle /\ dialog' = "none"
  /\ Updates(graph)
  /\ UNCHANGED <<clipboard, cache>>

Cancel ==
  /\ ~Idle /\ dialog' = "none"
  /\ Restore(cache)
  /\ UNCHANGED clipboard

\* copy_to_clipboard(): the selected blocks, in any order, and the connections
\* between them
Copy(chosen) ==
  /\ Idle /\ chosen \subseteq HasBlocks(graph)
  /\ \E order \in SetToSeqs(chosen) :
       clipboard' = [blocks |-> [i \in DOMAIN order |->
                                   [id |-> order[i], param |-> graph.params[order[i]]]],
                     connections |-> Without(graph.elements,
                       {e \in ToSet(graph.elements) :
                          IsBlock(e) \/ ~({e.source[1], e.sink[1]} \subseteq chosen)})]
  /\ NotRecorded /\ UNCHANGED <<graph, dialog>>

\* the id that b gets when it is pasted
PastedId(g, b) == IF b \in HasBlocks(g) THEN CopyOf[b] ELSE b
Moved(g, c) ==
  Connection(PastedId(g, c.source[1]), c.source[2], PastedId(g, c.sink[1]), c.sink[2])

Grown(g, n) ==
  Iterate(LAMBDA h, i : AddBlock(h, PastedId(g, n.blocks[i].id), n.blocks[i].param),
          g, Len(n.blocks))

\* a port that is not there raises, and nothing is connected any more
Reconnect(p, c) ==
  IF p.ok /\ CanConnect(p.graph, c) THEN [p EXCEPT !.graph = Connect(@, c)]
                                    ELSE [p EXCEPT !.ok = FALSE]

Reconnected(g, n) ==
  Iterate(LAMBDA p, i : Reconnect(p, Moved(g, n.connections[i])),
          [ok |-> TRUE, graph |-> Update(Grown(g, n))], Len(n.connections))

\* paste_from_clipboard(): the blocks, under a new id where theirs is taken, an update,
\* then the connections one by one; the handler ends where one raises.  Two blocks never
\* get the same id.
Paste ==
  LET grown == Grown(graph, clipboard)
      pasted == Reconnected(graph, clipboard)
      ids == [i \in DOMAIN clipboard.blocks |-> PastedId(graph, clipboard.blocks[i].id)]
  IN
  /\ Idle /\ clipboard # NoClipboard
  /\ IsInjective(ids) /\ ToSet(ids) \cap HasBlocks(graph) = {}
  /\ IF pasted.ok THEN Record(pasted.graph)
     ELSE /\ graph' = pasted.graph
          /\ torn' = TRUE
          /\ cut' = (Connections(Update(grown)) # Connections(grown))
          /\ UNCHANGED cache
  /\ UNCHANGED <<dialog, clipboard>>

Undo ==
  /\ Idle /\ History!CanUndo(cache)
  /\ Restore(History!ToPrevState(cache))
  /\ UNCHANGED <<dialog, clipboard>>

Redo ==
  /\ Idle /\ History!CanRedo(cache)
  /\ Restore(History!ToNextState(cache))
  /\ UNCHANGED <<dialog, clipboard>>

\* FLOW_GRAPH_SAVE, FLOW_GRAPH_CLOSE and FLOW_GRAPH_OPEN: a new page imports the file
\* into a new flow graph and updates it when it is shown
Reopen ==
  /\ Idle
  /\ cache' = History!NewCache(Export(graph))
  /\ Updates(Import(NewGraph, Export(graph)))
  /\ UNCHANGED <<dialog, clipboard>>

-----------------------------------------------------------------------------

Init ==
  /\ \E n \in Files : LET h == Import(NewGraph, n) IN
       /\ cache = History!NewCache(n)
       /\ graph = Update(h)
       /\ cut = (Connections(graph) # Connections(h))
  /\ dialog = "none"
  /\ clipboard = NoClipboard
  /\ torn = FALSE
  /\ acts = 0

Act ==
  \/ \E e \in ToSet(graph.elements) : Click(e) \/ Delete(e)
  \/ \E b \in Ids : Create(b) \/ OpenProperties(b) \/ \E to \in BOOLEAN : Enable(b, to)
  \/ \E b, c \in HasBlocks(graph) :
       \E i \in 0..(graph.ports[b]["source"] - 1), j \in 0..(graph.ports[c]["sink"] - 1) :
         ConnectPorts(Connection(b, i, c, j))
  \/ \E chosen \in Selections : Copy(chosen)
  \/ Move \/ Paste \/ Undo \/ Redo \/ Reopen

Dialog == ~Idle /\ (Accept \/ Cancel \/ \E e \in Exprs[dialog] : Type(e))

Next ==
  \/ acts < MaxActs /\ Act /\ acts' = acts + 1
  \/ Dialog /\ UNCHANGED acts
  \/ Idle /\ acts = MaxActs /\ UNCHANGED vars

Spec == Init /\ [][Next]_vars

-----------------------------------------------------------------------------
(* Properties.                                                             *)

Recorded == History!CurrentState(cache)
BlocksOf(n) == {x \in ToSet(n.blocks) : x.id # "options"}

TypeOK ==
  /\ graph.elements \in Seq(Elements) /\ IsInjective(graph.elements)
  /\ {e \in ToSet(graph.elements) : IsBlock(e)} =
       {Options} \cup {Block(b) : b \in HasBlocks(graph)}
  /\ \A b \in HasBlocks(graph) : graph.params[b] \in Params
  /\ DOMAIN graph.ports = HasBlocks(graph)
  /\ \A b \in HasBlocks(graph), d \in Dirs : graph.ports[b][d] \in Nat
  /\ dialog \in HasBlocks(graph) \cup {"none"}
  /\ clipboard \in Data /\ Recorded \in Data
  /\ torn \in BOOLEAN /\ cut \in BOOLEAN /\ acts \in 0..MaxActs

\* Every connection ends at ports of blocks that are in the flow graph: deleting,
\* lowering a number of ports, undo and a paste that fails take it away with them.
ConnectionsAttached == \A c \in Connections(graph) : CanConnect(graph, c)

\* Outside the dialog the namespace means what the variables say now: it has each enabled
\* variable whose expression names only others that it has, with the value of that
\* expression, whatever order they depend on each other in.  Only a circle keeps an older
\* namespace.
IsMeaning(ns, params) ==
  /\ DOMAIN ns = {v \in EnabledVariables(params) :
                    Dependencies(params[v].expr) \subseteq DOMAIN ns \ {v}}
  /\ \A v \in DOMAIN ns : ns[v] = Value(params[v].expr, ns)

NamespaceIsCurrent == Idle => Circular(graph.params) \/ IsMeaning(graph.ns, graph.params)

\* What the flow graph derives from its blocks stays in step with them: connections
\* with their ports, the namespace with the variables.
DerivedInStep == ConnectionsAttached /\ NamespaceIsCurrent

\* What the undo list has as its current state is what is shown, but for its order and
\* for connections that an import dropped; a paste that raised is the exception.
RecordedIsShown ==
  Idle /\ ~torn =>
    /\ BlocksOf(Export(graph)) = BlocksOf(Recorded)
    /\ Connections(graph) \subseteq ToSet(Recorded.connections)

\* Outside the dialog every block has the ports that its parameter asks for, unless the
\* last update removed a connection from the list it was going through, and so went
\* past a block.
PortsFollowUnlessCut ==
  Idle /\ ~cut =>
    \A b \in HasBlocks(graph) : \A d \in Cloned[b] :
      graph.ports[b][d] = Nports(graph.params[b].expr, graph.ns)

\* The connections of n whose ports the parameters of n ask for in this namespace
Fitting(n, ns) ==
  LET has(b, d, k) == \E x \in BlocksOf(n) :
        x.id = b /\ k < (IF d \in Cloned[b] THEN Nports(x.param.expr, ns) ELSE Fixed[b][d])
  IN  {c \in ToSet(n.connections) :
         has(c.source[1], "source", c.source[2]) /\ has(c.sink[1], "sink", c.sink[2])}

\* a file in which a block that needs a variable may come before the variable
Early(n) ==
  \E i, j \in DOMAIN n.blocks :
    /\ i < j /\ n.blocks[j].id \in Variables
    /\ n.blocks[i].id \in Ids /\ Cloned[n.blocks[i].id] # {}

\* An import loses a connection only if its port is not there in the namespace the blocks
\* are loaded in.  That is the one of the flow graph that is being left, for undo, redo
\* and a cancelled dialog, and for a file the one made when the first block that needs
\* it is loaded.
RestoreLosesOnlyUnfit ==
  [][/\ Undo \/ Redo \/ Cancel =>
          Fitting(Recorded', graph.ns) \cap Fitting(Recorded', graph'.ns) \subseteq Connections(graph')
     /\ Reopen /\ ~Early(Recorded') /\ ~Circular(graph.params) =>
          Fitting(Recorded', graph'.ns) \subseteq Connections(graph')]_vars
=============================================================================
