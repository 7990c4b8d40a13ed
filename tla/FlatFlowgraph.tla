---------------------------- MODULE FlatFlowgraph ----------------------------
(***************************************************************************)
(* gr::flat_flowgraph: giving blocks their details, output ports their     *)
(* buffers and input ports their readers, when a flowgraph is started      *)
(* (setup_connections) and when a running one was reconfigured             *)
(* (merge_connections).                                                    *)
(*                                                                         *)
(* A block keeps its detail for as long as it lives, whatever graphs it    *)
(* enters and leaves; an exception leaves what was done so far.  A buffer  *)
(* is named by its block and port, the start under which it was allocated  *)
(* and its size.  Between two reconfigurations each block repeats one step *)
(* of work that takes an item of each input and gives one to each output:  *)
(* what is connected is what matters here, how it is scheduled is the      *)
(* subject of TpbScheduler.                                                *)
(***************************************************************************)
EXTENDS Flowgraph, Graphs

CONSTANTS
  Cables, MsgCables,    \* what the application may connect
  SortedCables,         \* edges over which sorting is compared with its promise
  FixedItems,           \* s_fixed_buffer_size * 2 / item_size, in items
  Granularity,          \* the multiple of items a buffer is rounded up to
  Alignment,            \* volk_get_alignment, in bytes
  Settings,             \* block -> [history, multiple, decimation, least, most]:
                        \* least and most are min/max_output_buffer, -1 if unset
  NoReader,
  MaxStarts,            \* bound: times the flowgraph is started
  MaxItems              \* bound: items written to one buffer

ASSUME SettingsAssumption ==
  /\ FixedItems \in Nat \ {0} /\ Granularity \in Nat \ {0}
  /\ Alignment \in Nat \ {0} /\ MaxStarts \in Nat /\ MaxItems \in Nat
  /\ \A b \in Blocks :
       /\ Settings[b].history \in Nat \ {0} /\ Settings[b].multiple \in Nat \ {0}
       /\ Settings[b].decimation \in Nat \ {0}
       /\ Settings[b].least \in Nat \cup {-1} /\ Settings[b].most \in Nat \cup {-1}

ASSUME CablesAssumption ==
  /\ IsFiniteSet(Cables) /\ Cables \subseteq [src : Blocks \X Nat, dst : Blocks \X Nat]
  /\ \A m \in MsgCables : m.dst[1] \in Blocks

Buffers == [block : Blocks, port : Nat, start : Nat, size : Nat]
ASSUME NoReaderAssumption == NoReader \notin [buffer : Buffers, at : Int, moved : BOOLEAN]

VARIABLES
  status,               \* "idle", "running", or "crashed" at a null pointer
  d_ffg,                \* the flat graph that runs: its edges and blocks
  detail,               \* block -> its d_detail: readers, buffers; its domain is
                        \* the blocks that have one
  written,              \* buffer -> items written so far; its domain is the
                        \* buffers that somebody still holds
  max_output_buffer,    \* block -> port -> the limit, set by the allocation
  subscriptions,        \* message edges subscribed
  starts                \* times setup_connections ran

flat_vars == <<status, d_ffg, detail, written, max_output_buffer, subscriptions, starts>>

(* start() sets d_ffg before anything looks at it again, so nothing of it  *)
(* is kept when the flowgraph does not run.                                *)
NoGraph == [edges |-> {}, blocks |-> {}]
PortNumbers == 0 .. Cardinality(Cables)

FlatInit ==
  /\ status = "idle"
  /\ d_ffg = NoGraph
  /\ detail = [b \in {} |-> 0]
  /\ written = [buffer \in {} |-> 0]
  /\ max_output_buffer = [b \in Blocks |-> [p \in PortNumbers |-> Settings[b].most]]
  /\ subscriptions = {}
  /\ starts = 0
-----------------------------------------------------------------------------
(* The wiring as it is built: a record of the variables it changes and of  *)
(* how far it has come, "ok", "throws" or "crashed".                       *)
Now == [detail |-> detail, written |-> written, most |-> max_output_buffer,
        outcome |-> "ok"]

(* One step for each member of a sequence, until something goes wrong.     *)
ForEach(Step(_, _), wiring, seq) ==
  LET after[k \in 0 .. Len(seq)] ==
        IF k = 0 THEN wiring
        ELSE LET w == after[k - 1] IN IF w.outcome = "ok" THEN Step(w, seq[k]) ELSE w
  IN  after[Len(seq)]

InputsOf(w, b) == DOMAIN w.detail[b].ins
OutputsOf(w, b) == DOMAIN w.detail[b].outs

(* block_detail::set_input                                                 *)
SetInput(w, b, i, reader) ==
  IF i \in InputsOf(w, b) THEN [w EXCEPT !.detail[b].ins[i] = reader]
  ELSE [w EXCEPT !.outcome = "throws"]
-----------------------------------------------------------------------------
(* Allocation.                                                             *)
RoundUp(n, m) == ((n + m - 1) \div m) * m
WholeMultiples(n, m) == n - (n % m)

(* What allocate_buffer asks for, 0 when it throws.                        *)
NeededItems(w, E, b, p) ==
  LET s == Settings[b]
      twice == Max({FixedItems, 2 * s.multiple})
      limited == IF w.most[b][p] > 0
                   THEN WholeMultiples(Min({twice, w.most[b][p]}), s.multiple)
                 ELSE IF s.least > 0
                   THEN WholeMultiples(Max({twice, s.least}), s.multiple)
                 ELSE twice
      wants == {2 * (Settings[d].decimation * Settings[d].multiple + Settings[d].history) :
                  d \in DownstreamOfPort(E, <<b, p>>)}
  IN  IF limited < 1 THEN 0 ELSE Max({limited} \cup wants)

With(f, x, value) == [y \in DOMAIN f \cup {x} |-> IF y = x THEN value ELSE f[y]]

(* A new buffer is empty.                                                  *)
Opened(wr, buffer) ==
  [x \in DOMAIN wr \cup {buffer} |-> IF x \in DOMAIN wr THEN wr[x] ELSE 0]

(* Mutant: the buffer of each port is set one port too far.                *)
AllocateNextOutput(E, b, start, w, p) ==
  LET n == NeededItems(w, E, b, p)
      size == RoundUp(n, Granularity)
      buffer == [block |-> b, port |-> p, start |-> start, size |-> size]
  IN  [w EXCEPT !.detail[b].outs = With(@, p + 1, buffer),
                !.written = Opened(@, buffer)]

AllocateOutput(E, b, start, w, p) ==
  LET n == NeededItems(w, E, b, p)
      size == RoundUp(n, Granularity)
      buffer == [block |-> b, port |-> p, start |-> start, size |-> size]
  IN  IF n = 0 THEN [w EXCEPT !.outcome = "throws"]
      ELSE [w EXCEPT !.detail[b].outs = With(@, p, buffer),
                     !.written = Opened(@, buffer),
                     !.most[b][p] = size]

(* allocate_block_detail and set_detail: the detail is given to the block  *)
(* once its buffers are there.                                             *)
AllocateDetail(E, start, w, b) ==
  LET ninputs == Cardinality(UsedPorts(E, b, TRUE))
      noutputs == Cardinality(UsedPorts(E, b, FALSE))
      bare == [ins |-> [i \in 0 .. ninputs - 1 |-> NoReader],
               outs |-> [p \in {} |-> 0], start |-> start]
      made == ForEach(LAMBDA v, p : AllocateOutput(E, b, start, v, p),
                      [w EXCEPT !.detail = With(@, b, bare)], InOrder(0 .. noutputs - 1))
  IN  IF made.outcome = "ok" THEN made
      ELSE [made EXCEPT !.detail = w.detail]
-----------------------------------------------------------------------------
(* Readers.                                                                *)

(* buffer_add_reader: history - 1 items back from where the writer is.     *)
AddReader(w, buffer, b) ==
  [buffer |-> buffer, at |-> w.written[buffer] - (Settings[b].history - 1),
   moved |-> FALSE]

(* A new reader for input i, on the buffer at the other end of its edge.   *)
Attach(E, b, w, i) ==
  LET src == UpstreamEdge(E, b, i).src
  IN  IF src[2] \notin OutputsOf(w, src[1]) THEN [w EXCEPT !.outcome = "throws"]
      ELSE SetInput(w, b, i, AddReader(w, w.detail[src[1]].outs[src[2]], b))

ConnectBlockInputs(E, w, b) ==
  ForEach(LAMBDA v, i : Attach(E, b, v, i), w, InOrder(UsedPorts(E, b, TRUE)))

(* setup_connections                                                       *)
Setup(E, M, start) ==
  LET blocks == InOrder(UsedBlocks(E, M))
      allocated == ForEach(LAMBDA w, b : AllocateDetail(E, start, w, b), Now, blocks)
  IN  ForEach(LAMBDA w, b : ConnectBlockInputs(E, w, b), allocated, blocks)
-----------------------------------------------------------------------------
(* Merging.                                                                *)

(* Mutant: it keeps its reader.                                            *)
KeepReader(w, e) == w

(* The right end of an edge that goes away loses its reader.               *)
ClearReader(w, e) == SetInput(w, e.dst[1], e.dst[2], NoReader)

GoingAway(old, E) == old.edges \ E

(* Mutant: every input of a block that stays gets a new reader.            *)
RewireAll(E, b, w, i) == Attach(E, b, w, i)

(* An input of a block that stays: its reader is kept when it reads the    *)
(* right buffer.                                                           *)
Rewire(E, b, w, i) ==
  LET src == UpstreamEdge(E, b, i).src
      outs == w.detail[src[1]].outs
      old_reader == IF i \in InputsOf(w, b) THEN w.detail[b].ins[i] ELSE NoReader
      matched == old_reader # NoReader /\ old_reader.buffer = outs[src[2]]
  IN  IF src[2] \notin DOMAIN outs THEN [w EXCEPT !.outcome = "throws"]
      ELSE IF matched THEN w
      ELSE Attach(E, b, w, i)

(* setup_buffer_alignment: pointers that are not aligned are moved on by   *)
(* alignment - offset / itemsize items.                                    *)
Misaligned(index, itemsize) == (index * itemsize) % Alignment
MovedOn(index, itemsize) == index + Alignment - Misaligned(index, itemsize) \div itemsize

AlignInput(b, w, i) ==
  LET r == w.detail[b].ins[i]
      itemsize == Signature[b].in.size
  IN  IF r = NoReader THEN [w EXCEPT !.outcome = "crashed"]
      ELSE IF Misaligned(r.at % r.buffer.size, itemsize) = 0 THEN w
      ELSE [w EXCEPT !.detail[b].ins[i] =
              [r EXCEPT !.at = r.at - (r.at % r.buffer.size)
                                 + MovedOn(r.at % r.buffer.size, itemsize),
                        !.moved = TRUE]]

(* Mutant: its readers are taken to stand where they were put.             *)
PassedNobody(d, buffer) == d

(* A writer that is moved on passes items that nobody wrote to all its     *)
(* readers.                                                                *)
Passed(d, buffer) ==
  [d EXCEPT !.ins = [i \in DOMAIN d.ins |->
     IF d.ins[i] # NoReader /\ d.ins[i].buffer = buffer
       THEN [d.ins[i] EXCEPT !.moved = TRUE] ELSE d.ins[i]]]

AlignOutput(b, w, p) ==
  LET buffer == w.detail[b].outs[p]
      at == w.written[buffer]
      index == at % buffer.size
      itemsize == Signature[b].out.size
  IN  IF Misaligned(index, itemsize) = 0 THEN w
      ELSE [w EXCEPT !.written[buffer] = at - index + MovedOn(index, itemsize),
                     !.detail = [c \in DOMAIN w.detail |-> Passed(w.detail[c], buffer)]]

AlignBuffers(w, b) ==
  LET aligned == ForEach(LAMBDA v, i : AlignInput(b, v, i), w, InOrder(InputsOf(w, b)))
  IN  ForEach(LAMBDA v, p : AlignOutput(b, v, p), aligned, InOrder(OutputsOf(w, b)))

MergeBlock(old, E, w, b) ==
  IF b \in old.blocks
    THEN ForEach(LAMBDA v, i : Rewire(E, b, v, i), w,
                 InOrder(0 .. Cardinality(UsedPorts(E, b, TRUE)) - 1))
    ELSE LET connected == ConnectBlockInputs(E, w, b)
         IN  IF connected.outcome = "ok" THEN AlignBuffers(connected, b)
             ELSE connected

(* merge_connections                                                       *)
Merge(old, E, M) ==
  LET blocks == InOrder(UsedBlocks(E, M))
      New(w, b) == IF b \in DOMAIN w.detail THEN w ELSE AllocateDetail(E, starts, w, b)
      cleared == ForEach(ClearReader, ForEach(New, Now, blocks),
                         SetToSeq(GoingAway(old, E)))
  IN  ForEach(LAMBDA w, b : MergeBlock(old, E, w, b), cleared, blocks)
-----------------------------------------------------------------------------
(* What connect() lets an application build.                               *)
Buildable ==
  {E \in SUBSET Cables : \A e \in E : MayConnect(E \ {e}, e)}

Accepted == {graph \in Buildable \X SUBSET MsgCables : Validates(graph[1], graph[2])}

Readers(details, b) == {details[b].ins[i] : i \in DOMAIN details[b].ins} \ {NoReader}
Held(details) ==
  UNION {{r.buffer : r \in Readers(details, b)}
           \cup {details[b].outs[p] : p \in DOMAIN details[b].outs} : b \in DOMAIN details}

(* The scheduler sorts the blocks, which throws at a loop, and then clears *)
(* the done flag of every input of every block, be there a reader or not.  *)
StatusAfter(w, E, M) ==
  LET blocks == UsedBlocks(E, M)
  IN  IF w.outcome = "crashed" THEN "crashed"
      ELSE IF w.outcome = "throws" \/ TopologicalSort(E, blocks).loop THEN "idle"
      ELSE IF \E b \in blocks : \E i \in InputsOf(w, b) : w.detail[b].ins[i] = NoReader
             THEN "crashed"
      ELSE "running"

(* The wiring takes effect; a buffer goes when nobody holds it any more.   *)
TakeOver(w, E, M) ==
  /\ status' = StatusAfter(w, E, M)
  /\ d_ffg' = IF status' = "running"
                THEN [edges |-> E, blocks |-> UsedBlocks(E, M)] ELSE NoGraph
  /\ max_output_buffer' = w.most
  /\ detail' = w.detail
  /\ written' = [buffer \in Held(w.detail) |-> w.written[buffer]]

(* The end of setup_connections subscribes every message edge.             *)
Subscribed(w, M) == IF w.outcome = "ok" THEN M ELSE subscriptions \cap M

(* start(), after whatever connecting and disconnecting: disconnecting a   *)
(* message edge has taken its subscription away.                           *)
Start(E, M) ==
  /\ status = "idle" /\ starts < MaxStarts
  /\ IF <<E, M>> \in Accepted
       THEN LET w == Setup(E, M, starts + 1)
            IN  /\ TakeOver(w, E, M)
                /\ starts' = starts + 1
                /\ subscriptions' = Subscribed(w, M)
       ELSE /\ subscriptions' = subscriptions \cap M
            /\ UNCHANGED <<status, d_ffg, detail, written, max_output_buffer, starts>>

Stop ==
  /\ status = "running"
  /\ status' = "idle" /\ d_ffg' = NoGraph
  /\ UNCHANGED <<detail, written, max_output_buffer, subscriptions, starts>>

(* unlock(), after the application made E and M of the graph: the old      *)
(* scheduler ends, the new graph is merged.  A new message edge is not     *)
(* subscribed here.                                                        *)
Restart(E, M) ==
  /\ status = "running"
  /\ subscriptions' = subscriptions \cap M
  /\ UNCHANGED starts
  /\ IF <<E, M>> \in Accepted
       THEN TakeOver(Merge(d_ffg, E, M), E, M)
       ELSE /\ status' = "idle" /\ d_ffg' = NoGraph
            /\ UNCHANGED <<detail, written, max_output_buffer>>
-----------------------------------------------------------------------------
(* The running graph.                                                      *)
ItemsAvailable(r) == (written[r.buffer] - r.at) % r.buffer.size
ReadersOf(buffer) ==
  {r \in UNION {Readers(detail, b) : b \in DOMAIN detail} : r.buffer = buffer}
SpaceAvailable(buffer) ==
  buffer.size - 1 - Max({0} \cup {ItemsAvailable(r) : r \in ReadersOf(buffer)})

Consumed(r) == [r EXCEPT !.at = @ + 1]

(* One step of work; the executor looks at every input the detail has.     *)
Work(b) ==
  /\ status = "running" /\ b \in d_ffg.blocks
  /\ LET ins == detail[b].ins
         outs == detail[b].outs
     IN  /\ DOMAIN ins \cup DOMAIN outs # {}
         /\ \A i \in DOMAIN ins : ItemsAvailable(ins[i]) >= Settings[b].history
         /\ \A p \in DOMAIN outs : SpaceAvailable(outs[p]) >= 1 /\ written[outs[p]] < MaxItems
         /\ detail' = [detail EXCEPT ![b].ins = [i \in DOMAIN ins |-> Consumed(ins[i])]]
         /\ written' = [buffer \in DOMAIN written |->
                          IF \E p \in DOMAIN outs : outs[p] = buffer
                            THEN written[buffer] + 1 ELSE written[buffer]]
  /\ UNCHANGED <<status, d_ffg, max_output_buffer, subscriptions, starts>>

FlatNext ==
  \/ \E E \in Buildable, M \in SUBSET MsgCables : Start(E, M) \/ Restart(E, M)
  \/ Stop
  \/ \E b \in Blocks : Work(b)

FlatSpec == FlatInit /\ [][FlatNext]_flat_vars
-----------------------------------------------------------------------------
ReaderRecords == [buffer : Held(detail), at : Int, moved : BOOLEAN]

(* Every detail owns the buffers it lists, and only held buffers exist.    *)
FlatTypeOK ==
  /\ status \in {"idle", "running", "crashed"}
  /\ d_ffg.edges \subseteq Cables /\ d_ffg.blocks \subseteq Blocks
  /\ DOMAIN detail \subseteq Blocks
  /\ \A b \in DOMAIN detail :
       /\ Readers(detail, b) \subseteq ReaderRecords
       /\ \A p \in DOMAIN detail[b].outs :
            /\ detail[b].outs[p].block = b /\ detail[b].outs[p].port = p
            /\ detail[b].outs[p].start = detail[b].start
            /\ detail[b].outs[p].size >= Settings[b].multiple
       /\ detail[b].start \in 1..starts
  /\ DOMAIN written = Held(detail)
  /\ \A buffer \in DOMAIN written : written[buffer] \in Nat
  /\ max_output_buffer \in [Blocks -> [PortNumbers -> Int]]
  /\ subscriptions \subseteq MsgCables
  /\ starts \in 0..MaxStarts

ReaderOf(e) == detail[e.dst[1]].ins[e.dst[2]]

(* When a flowgraph runs, every connection of it is wired: the input at    *)
(* its right end reads the buffer of the output at its left end.  Whatever *)
(* graphs the blocks have been in, and whatever failed to start before     *)
(* (setup_connections, merge_connections).                                 *)
Wired ==
  status = "running" =>
    \A e \in d_ffg.edges :
       /\ e.dst[2] \in DOMAIN detail[e.dst[1]].ins
       /\ e.src[2] \in DOMAIN detail[e.src[1]].outs
       /\ ReaderOf(e) # NoReader
       /\ ReaderOf(e).buffer = detail[e.src[1]].outs[e.src[2]]

(* A reader that belongs to no connection would hold its writer up for     *)
(* ever, since nobody reads there.  Buffers of a running graph have none,  *)
(* with one exception: a block left out of the graph by a stop and a later *)
(* start() keeps its readers, and so does a buffer older than that start   *)
(* that it reads, when a restart brings back the block that owns it.       *)
StrayReadersAreOlder ==
  status = "running" =>
    \A b \in DOMAIN detail : \A i \in DOMAIN detail[b].ins :
       LET r == detail[b].ins[i]
           wired == \E e \in d_ffg.edges : e.dst = <<b, i>>
       IN  (r # NoReader /\ ~wired /\ r.buffer.block \in d_ffg.blocks
              /\ r.buffer = detail[r.buffer.block].outs[r.buffer.port])
           => detail[b].start < starts /\ r.buffer.start < starts

(* A reader is never ahead of its writer nor a whole buffer behind, except *)
(* for those that setup_buffer_alignment moved: a block that joins a       *)
(* running buffer at an unaligned item starts ahead of the writer, and     *)
(* items_available takes what is left in the buffer for new items.         *)
AheadOnlyWhenMoved ==
  \A b \in DOMAIN detail : \A r \in Readers(detail, b) :
     ~r.moved => /\ r.at <= written[r.buffer]
                 /\ written[r.buffer] - r.at < r.buffer.size

(* The three together: the readers of a running graph are those of its     *)
(* connections, at places in their streams, whatever graphs came before.   *)
ReadersAreInPlace == Wired /\ StrayReadersAreOlder /\ AheadOnlyWhenMoved

(* A connection that is there before and after a reconfiguration keeps its *)
(* reader and its place in the stream: nothing is lost or read twice       *)
(* ("reuse buffers, etc", top_block_impl.cc).                              *)
SurvivorsKeepTheirPlace ==
  [][(status = "running" /\ status' = "running") =>
       \A e \in d_ffg.edges \cap d_ffg'.edges :
          /\ ReaderOf(e)'.buffer = ReaderOf(e).buffer
          /\ ReaderOf(e)'.at \in {ReaderOf(e).at, ReaderOf(e).at + 1}
          /\ d_ffg' # d_ffg => ReaderOf(e)' = ReaderOf(e)]_flat_vars

(* The orders the schedulers take from a graph that validates:             *)
(* topological_sort finds a loop exactly when there is one, otherwise      *)
(* lists every block once and each after those it reads from; partition    *)
(* splits the blocks by connectedness and sorts each part.                 *)
Arrows(E) == {<<e.src[1], e.dst[1]>> : e \in E}
Digraph(E) == [node |-> UsedBlocks(E, {}), edge |-> Arrows(E)]
Undirected(E) ==
  [node |-> UsedBlocks(E, {}), edge |-> Arrows(E) \cup {<<a[2], a[1]>> : a \in Arrows(E)}]
Sorted(order, E) ==
  \A i, j \in DOMAIN order : <<order[i], order[j]>> \in Arrows(E) => i < j

GoodOrders(E) ==
  LET whole == TopologicalSort(E, UsedBlocks(E, {}))
      parts == Partition(E, {})
      together == ConnectionsIn(Undirected(E))
  IN  /\ whole.loop <=> HasCycle(Digraph(E))
      /\ ~whole.loop =>
           /\ ToSet(whole.order) = UsedBlocks(E, {})
           /\ IsInjective(whole.order) /\ Sorted(whole.order, E)
           /\ UNION {ToSet(parts[k].order) : k \in DOMAIN parts} = UsedBlocks(E, {})
           /\ \A k \in DOMAIN parts : Sorted(parts[k].order, E)
           /\ \A k, l \in DOMAIN parts :
                \A b \in ToSet(parts[k].order), c \in ToSet(parts[l].order) :
                   (k = l) <=> together[b, c]

(* They depend on the edges alone, so they are looked at once, at first.   *)
OrdersAreGood == starts = 0 => \A E \in SUBSET SortedCables : GoodOrders(E)
=============================================================================
