# Formal models of the GNU Radio runtime and companion

TLA+ models of `src/gnuradio-runtime`, the part of GNU Radio that moves samples,
tags and messages between signal-processing blocks and decides when each block
runs, and of `src/grc`, the graphical companion in which flow graphs are drawn, saved,
turned into scripts and run. What a block computes is not modelled; what the runtime
promises to blocks and to the application is, and what the companion promises to the
user about their work. Paths below are relative to `src/gnuradio-runtime`
unless they start with `src/`; file names in the parts about the companion are those of
`src/grc`.

Contents: [the system](#1-the-system), [the modules](#2-the-modules-and-the-code),
[the runs](#3-the-runs), [disagreements found](#4-where-the-code-and-its-documentation-disagree),
[the proofs](#5-the-proofs), [what is not modelled](#6-what-is-not-modelled),
[the plan](#7-the-plan).

## 1. The system

An application connects blocks into a nested graph and calls `start`. The graph is
flattened, validated and wired up: every output port gets a circular buffer, every
input port a reader on one. A scheduler then runs one thread per block until each
block is done or the application calls `stop`.

| Component | State | Operations | Talks to |
|---|---|---|---|
| Stream buffer (`lib/buffer.cc`) | write index and absolute offset, readers with theirs, tags, done flag, a mutex | `space_available`, `write_pointer`, `update_write_pointer`, `items_available`, `update_read_pointer`, `add/remove_item_tag`, `get_tags_in_range`, `prune_tags`, add and drop readers | executors of the writer and of the readers, each under the buffer's mutex, but the data itself without it |
| Block executor (`lib/block_executor.cc`) | what it sampled in this call; the block's alignment state | `run_one_iteration`: sample, size the request, ask for input, call `general_work`, propagate tags, verdict | buffers, block |
| Thread-per-block scheduler (`lib/scheduler_tpb.cc`, `tpb_thread_body.cc`, `tpb_detail.cc`) | per block a mutex, two condition variables and two changed flags | the thread's loop: messages, one iteration, notify or wait; `stop`, `wait` | neighbours' `tpb_detail`, executor |
| Message ports (`lib/basic_block.cc`, `block_registry.cc`) | queue per port, mutex per block, a global registry | `message_port_pub`, `_post`/`insert_tail`, `delete_head_nowait`, `notify_blk` | any thread posts; the block's thread handles |
| Top block (`lib/top_block_impl.cc`) | state, lock count, flat graph, scheduler | `start`, `stop`, `wait`, `lock`, `unlock`, `restart` | application threads, scheduler |
| Flat flowgraph (`lib/flat_flowgraph.cc`) | edges, block details | `setup_connections`, `merge_connections`, alignment, buffer sizes | buffers, top block |
| Flowgraph (`lib/flowgraph.cc`) | blocks and edges | `connect`, `disconnect`, `validate`, `topological_sort`, `partition` | flat flowgraph, schedulers |
| Hierarchical blocks (`lib/hier_block2_detail.cc`) | inner graph, endpoints at its own ports, list of blocks, parent | `connect`, `disconnect`, `msg_connect`, `msg_disconnect`, `disconnect_all`, `lock`, `unlock`, `flatten` | flowgraph, flat flowgraph, top block |
| Single-threaded scheduler | round-robin position, progress flags | `main_loop`, `stop` | buffers |
| `msg_queue`, `pmt_pool`, `circular_file`, `tagged_stream_block` | small utilities with a protocol of their own | | blocks |
| Companion: undo list (`gui/StateCache.py`) | a circular array of exported flow graphs, an index, how many can be undone and redone | `save_new_state`, `get_current_state`, `get_prev_state`, `get_next_state` | one per page; the undo and redo buttons |
| Companion: editor (`gui/ActionHandler.py`, `MainWindow.py`, `NotebookPage.py`) | pages with path, saved flag, flow graph, undo list and process; the page to be closed; buttons | `_handle_action` for every Action, `new_page`, `close_page`, `close_pages`, `ExecFlowGraphThread` | the user through menus and modal dialogs; files; generated scripts; threads that wait for processes |
| Companion: flow graphs (`base/`, `python/` and `gui/FlowGraph.py`, `Block.py`, `Port.py`, `expr_utils.py`) | list of elements, parameters, ports, the namespace of the variables | `connect`, `remove_element`, `rewrite`, `evaluate`, `import_data`, `export_data`, copy and paste | the editor's actions, the undo list |

`PROJECT.json` lists every component, also those left out.

**What is hard.** Every block is a thread; the writer and the readers of a buffer
store and load outside its mutex; a thread decides from samples taken one mutex after
the other; threads sleep on conditions that several parties signal, one of them
without the mutex; done flags live in buffers that several readers share; the
application reconfigures a running graph from several threads; an unaligned request is
rounded up after it was limited to the room there is. The runtime has no persistence and no
network, so crashes and lost packets do not arise; interruption of threads does.

The companion is one gtk main loop, but its handlers nest: an Action called by a handler
runs its own handler at once, closing a page may save it, which may ask for a path, and
every dialog turns the main loop, on which the ends of processes are noticed. Writing a
file may fail half way. A flow graph is evaluated in a namespace that depends on it,
has ports that depend on the namespace, and connections that depend on the ports, and
`import_data` meets them in the order of the file.
`PROJECT.json` ("hazards") lists these places, each at its line, with the properties
that would catch it going wrong.

**What makes each component correct.**

- *Buffer*: no unread item is overwritten, none is lost, duplicated or reordered, for
  any number of readers; no tag is pruned before its reader gets to it.
- *Executor*: a request fits the room, respects the output multiple, and keeps the
  alignment bookkeeping; every refusal has a reason that a neighbour can remove.
- *Scheduler*: no lost wakeup and no deadlock; a stream that ends makes every block end,
  after it has used all it could; `stop` ends everything.
- *Message ports*: order is kept, posting always returns, messages are handled.
- *Flat flowgraph*: every connection is wired and no other reader is left; connections that stay
  keep their place; the schedulers' orders respect the edges.
- *Hierarchical blocks*: the flat graph has an edge where the nested graphs have a path, and no
  other; a block deep inside can lock the flowgraph.
- *Top block*: never two schedulers; the state tells the truth; what runs is what is
  connected; `wait` and `unlock` return when they should.
- *Undo list*: it is a history of bounded depth, whatever the place in the array.
- *Editor*: a page agrees with its file and with its undo list; no unsaved work is lost
  unasked; every process can be stopped and its end is noticed.
- *Companion flow graphs*: connections end at ports; parameters are evaluated in the
  namespace of the present variables; restoring a recorded state brings it back.

## 2. The modules and the code

Every definition that stands for code is mapped to its lines in `PROJECT.json` ("map").
A definition preceded by "Mutant:" is not part of the model: it is the form a plausible
bug would give to the definition after it, and is used to see that the properties notice.

### StreamFifo, Buffer, MCBuffer

`StreamFifo` is what a stream connection promises: a FIFO to each reader of at most
`d_bufsize - 1` items. `Buffer` is `gr::buffer` with its readers. Items are numbered by
their absolute position, so `base[i]` says which item is in slot `i`; the
double mapping of `vmcircbuf` appears only as addressing modulo the size. One writer:
sample the space (`MinAvailableSpace`), store without the mutex (`WriteItems`), publish
(`Produce`, in several calls, or `ProduceEach` after the work). Each reader: sample,
consume, look for tags. `space_available` also prunes tags up to the minimum it saw the
time before (`NoteMinItemsRead`); that is part of the same action. `AddReader` and
`DropReader` happen when the flowgraph is not running, as `tpb_detail.cc:33-37` demands
(`Configuring`). `attach`, `base` and `start_written` are history that the properties
compare the code's indices with.

### Executor, BlockCalls, MCBlockCalls

`Executor` has no state. It is `run_one_iteration` between the sampling and
`general_work`, as operators on a record of the block's settings: how much room counts
(`Room`: half the buffer, rounded to the multiple), the fixed-rate limit, the alignment
(`Aligned`), the halving of requests that lack input (`Request`, a recursive function over `Pass`, `TryAgain`
and `Halved`), and the verdict (`Decision`). `BlockCalls` drives one block through every sequence of
arrivals, drains, ends of its neighbours and calls, which is where the alignment
bookkeeping of one call meets the next one. `MCBlockCalls` gives the kinds of block: a
sync block that called `set_alignment` (with two inputs), an interpolator with history
and `min_noutput_items`, a decimator working on pairs, a sink of pairs, a source of
frames under a limit that is not a multiple of the frame.

### TpbScheduler, MCTpb

One thread per block of a graph given by constants (`Ins`, `Outs`, `Readers`, `Order`,
`Rate`). A thread clears its flags, samples each input and then each output in an
action of its own (each is one critical section of the code), decides with the
operators of `Executor`, works, publishes, gives notice to each neighbour in an action
of its own, and waits. A block may produce less than asked (`PartialWork`), drop items
(`Droppers`) or end by itself (`Supply`, as `head` does). Waiting is the guard of `Wake`:
the flags are set under the mutex that the waiting thread holds until it sleeps, so the
loop around the condition variable is exactly a wait for the flag. `Stop` interrupts
every thread, which ends it at an interruption point without setting anything done.
Buffers appear as counts here: `Buffer` and its proofs show that the counts stand for the
contents. Tags and messages are left to `Buffer` and `MsgPort`.

### MsgPort, MCMsg

Message ports at the grain of `insert_tail`: push under the receiver's block mutex, then
the registry's mutex, then one notification of each condition variable (`Stages`). The
block's thread scans its ports at the top of its loop and inside both wait loops, unlocks
its tpb mutex while a handler runs, and goes to sleep in two steps, testing its queues
(`InnerTest`) and then waiting (`Wait`): the place in between is the state `"armed"`. The
stream side is what `run_one_iteration` may return, and neighbours that raise flags.
`MCMsg` connects a streaming relay and a message-only block that post to each other, with
a thread outside the scheduler posting to the relay.

### TopBlock, MCTop

Application threads calling `start`, `stop`, `wait`, `lock`, `unlock`, and connecting
between lock and unlock. A step inside a call is an action: the mutex is held from the
first to the last step of `start` and of a restart; `stop` and `wait` take none. Each
scheduler ever made keeps its identity, so that "the threads of the old one" can be told
from those of the new one; the assignment of `d_scheduler` destroys the old scheduler,
whose destructor stops it. Graphs are values, some of which `validate` rejects.
No call is kept apart from another one: a `wait` goes on beside other waits, beside a `start` and
beside the restart of an `unlock`. It joins the scheduler it found and then writes `IDLE`
without the mutex, by when another thread may have made a new scheduler; `overtaken` is history that says
that this happened (`Overtakes`) and that threads are left from then. That the assignment of `d_scheduler` in one thread
destroys the scheduler that another one is joining, and that the pointer is read without lock, is
undefined behaviour; in the model the join goes on and ends with the threads.

### Flowgraph, FlatFlowgraph, MCFlat, FlowgraphProofs

`Flowgraph` has no state: the checks of `connect`, `validate`, the queries on edges, and
`topological_sort` and `partition` as recursive functions over the colours of the blocks.
A block is the number of its address, by which `unique_vector` sorts. `FlatFlowgraph` is
what `start` (`setup_connections`) and `unlock` (`merge_connections`) do to the blocks'
details, buffers and readers. The application may have built any graph that `connect`
allows by then (`Buildable`), so a `Start` or `Restart` takes the graph as its parameter.
The wiring is a record of what the calls change, taken from block to block and from port to port (`ForEach`), with an outcome:
an exception (a port the old detail does not have, a graph with a loop) leaves what was done
so far, a null reader that is dereferenced ends the program. A buffer lives as long as a
detail or a reader holds it. Between reconfigurations `Work` moves items, one per port, so that
places in the stream can be compared; scheduling is left to `TpbScheduler`, done flags too.
`MCFlat` gives a sink of one or two streams, an adder with history, a source of one or two
streams and a decimator that can stand before or behind the adder, and with it a loop.
The proofs about `FlatFlowgraph` and about `HierBlock` share the module `FlowgraphProofs`.

### HierBlock, MCHier

The details of all hierarchical blocks are one record, `net`, on which each call is an operator that
yields what the call leaves behind, also when it throws: `connect` sets the parent before it
checks, `msg_connect` lists the blocks before it does, `disconnect_all` (`Emptied`) empties the list
and the stream edges and leaves the message edges (`ClearedGraph`). `hier_block2.py` makes series of such calls,
one after the other. `Flatten` is `flatten_aux` as a recursive function on the graph
it builds, with `MayJoin`, the checks of `flowgraph::connect`, for each pair of leaves
(`Resolved`). The order in which children are visited is that of their addresses. `ReachesTop` is the
climb of `lock` through the parents, from the top down: what the top block's `Closure` under "has for
its parent" holds. The application asks for connections from a fixed set,
which includes some that do not stand together and some that only `flatten` can refuse; it puts a hierarchical
block into one other block at most, and the top block into none (`ApplicationsAssumption`): a detail has one parent
pointer, and `flatten` would join the inside of a block once for each place it is in and
throw the second time. Two calls end the program (`crashed`). `cleared` is history. The properties state paths by themselves,
as arcs between the sides of ports. That a flat graph is then wired is `FlatFlowgraph`, that `lock` counts is `TopBlock`.

### UndoHistory, StateCache

`UndoHistory` is what undo and redo promise: a past, a present and a future, of bounded
depth. `StateCache` has no variables: a cache is a record of the array `states`, its index
and its two counts, and each method is an operator on it, with the slots named by
`NextSlot` and `PrevSlot`. `Past` and `Future` read the history off the array; the proofs show
that each method does to them what the history's operation does.

### Editor, MCEditor, EditorProofs

`Editor` is the notebook. What is left of the nested calls of the main thread is the stack
`calls`, one entry per handler, rest of a handler or modal dialog; an action takes the
innermost one (`At`, `Then`, `Invoke`). `GLOBALS` is the end of `_handle_action`, common to all
actions. The user starts an action when no handler runs (`UserStarts`: menu, tool bar and keys
call the Action whatever its button shows, the close button of a tab names its page) and
answers a dialog (`UserAnswers`). A process runs, ends, its thread sees the end of its
output, and `done()` runs when the main loop turns (`InLoop`), in a dialog too. A flow graph
is a value here; `Imported` says what `import_data` makes of a recorded one, which is the
subject of the next module. Files may be damaged by a write that fails half way
(`Damaged`). A paste may raise when it comes to its connections: `PasteRaises` is the handler of
`BLOCK_PASTE` that ends there, and `CreateHier` the one that goes on after the paste it called raised (an Action
called by a handler is a gtk signal; pygtk prints what its handler raises) and that may raise itself. `astray`, `unrecorded` and `discarded` are history: the pages for which the code itself
lets the flag or the undo list go wrong, until they are saved or edited, and those whose changes the
user gave up.

### GrcGraph, GrcEdits, MCGrc

`GrcGraph` has no state: a flow graph is a record of its list of elements, parameters,
number of ports, namespace and the flag `renew`. A loop of the code is `Iterate`, whose steps have names of their
own. `Namespace` is `evaluate` with the sorting of the variables, which goes in rounds (`Left`: the variables that no
other one of those left needs are taken away, and evaluated in the reverse order). `Rewrite` is the walk over the list of elements that
`rewrite` makes while the blocks it calls remove connections from that list (`RewriteNext`). `Import` (`Load`, then
`Link`) and `Export` are the two conversions, whose order of blocks matters. `GrcEdits` has one action per edit a user makes of one
flow graph, each with the update and the recording that the handler ends with; undo, redo
and a cancelled dialog import the recorded state into the flow graph that is being left. `cut` and `torn` are
history: the last update, of the file that is opened first too, removed connections; a paste raised half way.
`MCGrc` starts from two files: two blocks whose inputs are counted by one variable, and a
variable that depends on another one.

## 3. The runs

| Run | Instance | Shows |
|---|---|---|
| `buffer_data` | 2 readers (symmetric), 4 slots, 5 items, history of 2, one tag | data path, pruning, refinement of `StreamFifo` |
| `block_calls` | 5 kinds of block, buffers of 5 to 17 items | request sizes, alignment, reasons |
| `tpb_chain` | source of 6 items, decimator that may drop, sink, `stop` at any time | no overrun, no lost wakeup, end of stream, termination, stop |
| `tpb_diamond` | a split that meets again, buffers of 2 and 3 slots | no deadlock, no lost wakeup, nothing usable left at the end |
| `tpb_beside` | `head` beside another reader | a sibling is cut off (section 4) |
| `msg_port` | two blocks that post to each other, a poster with 4 messages | order, progress of posts, the one window in which a wakeup is lost, healing by traffic, pruning |
| `msg_wakeup` | a message-only block, one message | the message is never handled (section 4) |
| `top_block` | 2 callers making every call beside each other, 3 graphs of which one is invalid, 4 schedulers | what a `wait` leaves running, one scheduler and truth of the state unless a `wait` was overtaken, what runs, `unlock` returns |
| `flat_merge` | 4 blocks, 6 cables, a message cable, buffers of 4 to 10 items, 2 starts, any number of restarts | wiring, connections that stay, stray and runaway readers; `topological_sort` and `partition` on all 4096 directed graphs of 4 blocks |
| `hier_flat` | three applications: streams through a block in a block; messages through a block and beside it; messages back to their sender and two levels down | flatten against paths, locks from inside |
| `grc_editor` | 2 pages, 1 file, 2 flow graphs, undo lists of 2 slots, 1 process, 4 actions of the user with any answers, pastes that raise | pages agree with files and undo lists, nothing is lost unasked, processes can be stopped and are noticed, undo lists are histories |
| `grc_graph` | 2 files of up to 5 blocks, undo lists of 2 slots, 4 actions of the user with any typing in between | connections end at ports, the namespace is current, the undo list tells what is shown, which ports and connections go stale or are lost |

Where a run checks a conjunction, its parts are named and explained in the module:
`SamplesHold` (`CountsAgree`, `GrantsStayValid`), `RequestsAreSound` and `VerdictsHaveReasons` of
`BlockCalls`, `StreamsFlow` (`NoOverrun`, `WaitsAreCovered`), `StreamsFlowToTheEnd` (with `EndOfStream`) and `RunsEnd`
(`Termination`, `StopEnds`, `EndOfStream`) of `TpbScheduler`, `PostsAreServed` (`PostsReturn`, `QueuesAreServed`) of `MsgPort`, `DerivedInStep` of `GrcEdits`, `ReadersAreInPlace` of `FlatFlowgraph`, `PagesAgree` and `ProcessesCanBeStopped` of `Editor`.

**Why these bounds.** In `buffer_data` the write index wraps (5 items, 4 slots) and the
buffer is full and empty in every alignment of two readers that come and go, the number
of readers from which sibling effects arise. The kinds in `block_calls` cover each branch
of `run_one_iteration`: source, sink, regular; aligned, multiple set, neither; history;
rates up and down; buffers whose half is not a multiple. In `tpb_chain` buffers fill and
empty several times, and the decimator leaves an odd item behind at the end; the sizes of
`tpb_diamond` force writers to block on one branch while the other starves, and deadlock
is checked. `msg_port` has two posts in flight towards one block and `MaxNmsgs` 1, so that
pruning happens. `top_block` makes enough schedulers for a start, a restart, a failed
restart and another start, for a `wait` overtaken twice, and for a second scheduler beside the one it wrote `IDLE` over. Bounds that cap something the code leaves open are named
constants (`MaxWritten`, `MaxConsumes`, `MaxPreload`, `MostPosts`, `MaxSchedulers`,
`MaxHeld`, `MaxStarts`, `MaxItems`, `MaxListed`). In `flat_merge` two starts are needed for details that are older
than the graph, one item for a writer off the alignment (2 items), and one more for a reader that has moved since it was
attached. The smallest buffers hold 4 items, so that a writer that alignment moves on can leave a reader a whole buffer behind;
they are rounded up to multiples of 2, and no history is longer, as `HistoriesFit` asks (section 5).
`hier_flat` has two levels, the least at which parents, resolving and
replacing go through more than one block, two inputs that can meet at one port, and two routes of messages to one
block; the list of blocks is bounded by `MaxListed`, 2 entries per block being enough for one to stay. In `grc_editor` an undo list of 2 slots
(42 in the code) is full after one edit and wraps with the next; two pages are the least that let a
process end, or a quit go on, while another page is shown, and let one file be open in one page while
the other saves over it; four actions are enough to edit, execute, switch and close, or to edit both
pages and quit. `MaxActs` counts what the user starts, not the answers to dialogs nor what
processes do. `ReadOnly` is empty there: a file that cannot be written leads, by `SaveElsewhere`, to the same
dialog as a page without a path. The user opens one file at a time (`FLOW_GRAPH_OPEN` goes through all that are chosen and
shows the first), and Create Hier records one state at most: what it records for each pad and
parameter after its paste makes the undo list of the new page longer, not its current state. In `grc_graph` four actions are the least for what depends on a
sequence: change a variable, cut a connection, undo, and act on what is there; the ports are 1 or 2, so that a
connection to the second one comes and goes. The runs of `Buffer`, `FlatFlowgraph` and `HierBlock` turn
deadlock checking off: the writer of `Buffer` stops after `MaxWritten` items, a flowgraph
that has crashed or used up its starts stops, and so does a program that has crashed.

**Fairness.** `TpbScheduler`: weak fairness of each thread; boost threads are scheduled
by the operating system and each step is always enabled until it is taken. `MsgPort`: weak
fairness of each thread, those of the posters included; `TrafficSpec` adds strong
fairness of `SetChanged`, that is, neighbours that go on making progress and get the tpb
mutex now and then, and is used only for the claim that stream traffic heals a lost
wakeup. `TopBlock`: a call in progress goes on, and interrupted threads end
(`TpbScheduler` shows it as `StopEnds`, part of `RunsEnd`); nothing says that a running flowgraph ends.
`Editor`: a handler that began runs to its end, dialogs excepted, since nothing forces the user to answer; a
process that was killed ends and its thread sees it; and strong fairness of `Done`, because the main loop
runs what threads have queued whenever it turns, though it turns only between handlers and in dialogs.
`Buffer`, `BlockCalls`, `FlatFlowgraph`, `HierBlock` and `GrcEdits` claim safety only.

## 4. Where the code and its documentation disagree

Each has a run whose counterexample shows it; `PROJECT.json` ("findings") quotes the lines.

1. `tpb_detail.h:60`: `notify_msg` signals without the mutex and without a flag; a post that
   falls between the test of the queues and the wait wakes nobody, and a block with message
   ports only never handles the message (`msg_wakeup`). `LostOnlyInWindow` shows that this
   window is the only one.
2. `block_detail.cc:103`: a block that is done marks the buffers it reads as done, and the
   other readers of these end although their upstream runs on (`tpb_beside`).

Noticed in the runtime while modelling, without a run of its own:

- `top_block_impl.cc:133`: `wait` joins the scheduler it found; an `unlock` in another thread ends that one and
  makes a new one, so that `wait` returns although neither of the conditions of `top_block.h:87` ("Wait for a flowgraph to
  complete") holds, writes `IDLE` while the new scheduler runs, and a `start` then makes a second one. A `start` between the
  join and the `IDLE` does the same. TLC finds "when a `wait` that found a scheduler returns, nothing runs" violated by this.
  `WaitIsForCompletion`, checked and proved with these calls side by side, is what remains: whatever runs when `wait`
  returns was made after it began. `OneScheduler` and `IdleIsIdle` hold up to the first such `IDLE`
  and again once nothing is left of its threads (`overtaken`).
- `hier_block2_detail.cc:437`: `disconnect_all` calls `flowgraph::clear`, which leaves `d_msg_edges` as they are (`flowgraph.cc:123`).
  Messages go on as before between blocks that are listed again; making one of the
  connections again throws "already connected edge", after the blocks were listed and adopted. A sender whose destination comes
  back by another connection is not listed (next item). `FlattenFollowsPaths` is checked on these graphs too.
- `hier_block2_detail.cc:163`: `msg_connect` lists a source only together with a destination that
  is not in the list yet, and `calc_used_blocks` leaves sources out. A hierarchical block that only sends, to a
  block connected before, is not flattened: its messages lead nowhere and
  `start` throws at `message_port_sub`. `FlattenFollowsPaths` says that nothing else is overlooked.
- `hier_block2_detail.cc:270`: `disconnect` of one edge, also of one that is not there, clears the parent of
  both ends; `lock` from a block inside that is still connected otherwise then calls itself for ever.
  The same happens to a block that was never connected. `LocksReachTop` delimits it.
- `hier_block2_detail.cc:221` tests `block` where it means `hblock`: `disconnect` of a leaf that `msg_connect` or `connect`
  put into the list follows a null pointer. One call takes one entry out of that list, which may hold a block several times.
- `disconnect` of a block leaves its connections to the owner's own ports, against `hier_block2.h:129`;
  `disconnect_output` compares the block, not its port; `msg_disconnect` from a hierarchical block always
  throws, because its ports are not in `message_subscribers`, and never takes a block out of the list.
- A message port of a hierarchical block that is connected straight to another one of it loses what is
  connected outside (`PassesThrough`).
- `flat_flowgraph.cc:243`: a block that stays but loses an input keeps its detail and gets a
  null reader there, which the new scheduler's `set_done(false)` dereferences; the comment at
  line 303 announces code for this that is not there. In `FlatFlowgraph` the outcome is a crash.
- `block_executor.cc:453`: tags are looked up after the items were consumed; `UnreadTagsKept` holds of
  positions that are short of a tag, but the writer may prune the tag of an item that was
  consumed just before the look.
- `scheduler_tpb.cc:80`: the loop that starts the threads stores a block's own
  `max_noutput_items` in the variable that holds the global one, so that later blocks without a
  limit of their own get it too, against `block.h:300-302`; `Limit` of `TpbScheduler` does the same.
- `tpb_thread_body.cc:109`: while a block waits, ports without a handler are not pruned,
  although line 74 says that they are; `PrunedInCheck` holds in `msg_port` because there the
  neighbours' traffic goes on.
- `flat_flowgraph.cc:319`: a block that joins a running buffer at an unaligned item is put
  *ahead* of the writer, whatever the precedence of `alignment-ri/itemsize` is: there is no item
  there yet, and `items_available` wraps to nearly a whole buffer of old contents. In
  `flat_merge` such readers are marked `moved`. Line 331 does the same to the write pointer of a block that
  comes back, which publishes items that nobody produced; all readers of that buffer are
  marked too, since they may now be a whole buffer behind. `AheadOnlyWhenMoved` says that there are no
  other ways to get ahead or to fall behind by a buffer.
- `flat_flowgraph.cc:215`: any detail is taken for one of a block that stays. A block that an
  earlier stop and start left out keeps its readers; when the owner of the buffer
  comes back by a restart, a reader that nobody moves any more holds its writer up for ever.
  `StrayReadersAreOlder` delimits this case.
- `flat_flowgraph.cc:289`: a reader with a longer history than a buffer was sized for starts a
  whole buffer behind its writer, or more, and sees old contents as new; `HistoriesFit` in section 5 excludes it.
- `merge_connections` does not subscribe new message edges (`subscriptions` in
  `FlatFlowgraph`), and reuses a buffer for new readers without looking at their decimation
  and history, for which `allocate_buffer` sizes it.
- a block calling `produce()` publishes items before their tags; a reader attached to a running
  buffer counts its offsets from 0 while tags carry the writer's; a source whose output
  multiple exceeds the limit is blocked for ever (`block_executor.cc:201,219`); an aligned block
  ends with fewer items than its alignment unread; `stop` during a restart stops the old
  scheduler only; `d_scheduler` is read without lock while a restart replaces it.

Noticed in the companion; the models contain each, and the properties of `grc_editor` and `grc_graph` say
where they end:

- Undo, redo and a cancelled dialog import the recorded state in the namespace of the flow graph that is
  being left (`base/FlowGraph.py:274`): a connection to a port that is there only in the recorded state is
  dropped, against `StateCache.py:25`, which promises to revert to previous states. A file in which
  a block precedes the variable that counts its ports loses connections in the same way
  (`Early`): `get_blocks` moves the variables to the second place only, behind whatever block is first in the list.
- `rewrite` walks over the list from which it removes connections (`base/FlowGraph.py:98`), and goes past
  blocks, whose ports stay as they were until the next update (`PortsFollowUnlessCut`).
- Variables that depend on each other in a circle keep the namespace from before, and have
  none when the file is opened again.
- Typing in the properties dialog rewrites the block at once; a number that is low for a moment cuts
  connections, and they do not come back with the number that is accepted.
- A paste that raises half way (`gui/FlowGraph.py:178`) leaves its blocks in the flow graph. No state is recorded and
  the page still counts as saved, so that closing it loses the blocks unasked, and the next undo or cancelled
  dialog drops them; what follows in the handler is left out, so that the button for execution may be wrong until the next action.
  `PagesAgree` and `ButtonsFollow` name such pages; `AskedBeforeLost` speaks of the flag.
- `base/Block.py:394`: the load is repeated "until the params stick" (line 385), but what is compared is the
  hash of the parameter objects, which setting a value does not change, so the body runs once.
- `FLOW_GRAPH_SAVE_AS` sets the path first; if the file there cannot be written and the second
  dialog is cancelled, the page counts as saved under a path it was never written to. Saving over
  a file that is open in another page leaves that page's flag set.
- Create Hier's pads and parameters are connected and named after its last state was recorded: a cancelled dialog loses that. When its
  paste raised it goes on, and the new page counts as saved unless a pad or parameter was added; when a port of the
  copied blocks is not there in the new page it raises itself.
- The undo and redo buttons are not updated by `_handle_page_change`; the handlers look for themselves.
- A generator that raises leaves a truncated script, and the execution that asked for it runs that
  script. Scripts are named by the id of the flow graph, so two pages with the same id share one.
- A quit that is refused for one page has closed the others.

## 5. The proofs

Checked by TLAPS for every value of the constants that satisfies the named assumptions
(`BufSizeAssumption`, `PreloadAssumption`, `BoundsAssumption`, `CallersAssumption`;
`GraphAssumption` and `BlocksAssumption` of `TpbScheduler`, `KindsAssumption` of `BlockCalls`, `PortAssumption`
of `MsgPort`; `HiersAssumption` and `ApplicationsAssumption` of `HierBlock`, `SignatureAssumption` of `Flowgraph`,
`SettingsAssumption`, `CablesAssumption` and `NoReaderAssumption` of `FlatFlowgraph`;
`SizeAssumption`, `NoStateAssumption`, `PagesAssumption`, `NoFileAssumption`, `NoProcAssumption`,
`GraphAssumption` of the editor; `IdsAssumption`, `PortsAssumption`, `ExprsAssumption`, `SelectionsAssumption`,
`CopyAssumption`, `CacheAssumption`, `FilesAssumption` of `GrcEdits`). Those of `TpbScheduler` say what `validate` and
`flat_flowgraph` see to: every block is connected, a buffer has one writer and at least one reader, and is
allocated for the history of its readers; rates, multiples and histories are positive. That of `BlockCalls`
says the same of one block, which has an input or an output, and that its output buffer has room for the
least it wants to make. That of `MsgPort` says that a port belongs to one block, and that a message goes to ports. Those of `GrcEdits`
say that ids are told apart by kind, that expressions are numbers or names of variables, that the user selects finitely many
blocks, and that a file has blocks with different ids and no connection twice; they do not say that its connections
fit its ports.

**BufferProofs** (any buffer size, any set of readers that come and go), in layers that
each use the ones before:

1. `BufferTyping`: both indices stay in `[0, d_bufsize)`.
2. `BufferCounts` (`SamplesHold`): wrapped distance and difference of absolute offsets are
   the same number. Inductive only with the facts that each backlog is below the size, that
   the granted space is no more than what every reader leaves free, and that what a reader
   sampled is no more than its backlog: samples stay valid because other threads can only
   enlarge them.
3. `BufferWindows` (`WindowIntact`): every slot of a reader's window holds the item it
   should. The writer's stores go to slots outside of every window; the strengthening says
   what is in the slots that are written but not yet published.
4. `BufferTags` (`UnreadTagsKept`): pruning uses the minimum noted the time before, which
   never exceeds the position of an attached reader (`TagInv`), so a tag that some reader
   has yet to reach is kept, and marked deleted only by blocks that are past it or have it.

It ends with the refinement, `BufferImplementsFifo`, `Spec => ImplementsFifo`. The mapping sends
each reader's window to a sequence; each step is a send, a take, an attachment, a
detachment or a stutter.

**TopBlockProofs** (any number of callers, graphs and schedulers, all calls side by side): `TopBlockOneScheduler`,
`TopBlockIdle`, `TopBlockWait`. The inductive invariant `IInv` says that a call that may make a scheduler
holds the mutex and keeps the bound on schedulers (`MutexHeld`), that schedulers are numbered as they are made (`MadeInOrder`)
and a `wait` joins none that is newer than the current one (`JoinsNoNewer`), which is what makes its return tell something
whatever happens beside it, and that the state says `IDLE` from the flattening on (`IdleWhileMaking`), so that no `wait` that
comes to its end there overtakes anything. Two parts hold as long as no `wait` was overtaken: by where the caller
is that starts or restarts, which scheduler can have threads (`AliveWhere`: none after a join, the new one
between the making and the assignment of `d_scheduler`, else the current one), and that `IDLE` tells the truth
otherwise (`IdleMeansIdle`). `TopBlockTyping` and
`TopBlockRuns` (what runs is what is connected, once no lock is held) add `CInv`: `d_lock_count` is the
number of locks the callers hold, a sum over all callers, and the graph changes only under a lock, so that
the unlock that takes the count to zero is the one that must restart.

**TpbProofs** (every flowgraph, every rate, history, multiple and limit, every size of buffer,
any supply): `StreamsTyping`, `NothingOverruns`, `StreamsKeepFlowing` and `StreamsEndWhole`.
It begins with the arithmetic of one call, which `BlockCallsProofs` begins with too: the recursion of `Request` has a solution
(`LoopExists`: the request goes down at each retry until one multiple is left, so a table of its values exists for
every start), and what it settles on is no more than the room it began with and, when the
verdict is to work, needs no more of any input than was sampled (`DecisionIsCovered`), for the blocks of `TpbScheduler`, whose
multiple is 1 or was set; the bookkeeping of alignment is in `BlockCallsProofs` alone. Then come three invariants:

1. `Flow`, about what a thread sampled with every lock released since: its inputs hold at least what it saw
   (`Sampled`), then at least what work said it takes (`Covered`), and the outputs it has passed have at least the
   room it settled on (`Reserved`), the ones already published and the inputs already consumed left out. It
   holds because only the thread itself takes from its inputs and fills its outputs.
2. `Told`, about what a thread missed since it looked: an input that has grown has a writer that is
   about to notify the thread, or still produces (`Fresh`); an output with more room, or marked done, has a
   reader that does (`Attentive`); a block that is done has marked its buffers or is doing so (`Marked`). The
   flags are cleared before the sampling, so a notification after it finds the thread before its wait.
3. `Spent`, about the end of the streams: an input seen done has a writer that gave up, and has not grown since
   (`Complete`), because whoever marks a buffer has given up (`MarkedBy`) and who has given up only marks and
   notifies (`Leaving`); so what ends a block for want of input is too little for one multiple (`UsedUp`). The request the
   executor is short of is at most one multiple (`RequestIsLast`, from the recursion again), which `DecisionEnds` uses.

`StreamsKeepFlowing` assumes `SourcesMayAsk`: a source is given a limit of at least its output multiple. Without
it a source waits for room that is there, as section 4 says (`block_executor.cc:201`), and nobody owes
it a wakeup. `StreamsEndWhole` (`StreamsFlowToTheEnd`) assumes three things more:

- `ReadByOneBlock`: all ports that read a buffer belong to one block. Otherwise a reader that finishes ends its
  siblings, which `tpb_beside` shows; this is the reason for the hypothesis, not a convenience of the proof. `tpb_chain`
  satisfies it. `tpb_diamond` does not: there the property holds because no block ends before its source does.
- `BuffersHoldACall`: a buffer holds what each reader needs for one multiple, as `allocate_buffer` makes it
  (`flat_flowgraph.cc:160`). Otherwise the executor ends a reader whose upstream runs, with a complaint.
- `SinksDoNotInterpolate`: a sink counts the items of an ended input against its output multiple whatever its rate
  (`block_executor.cc:253`), so one with a rate above 1 would leave items it could use.

**BlockCallsProofs** (every rate, history, multiple and limit, every number and size of buffers, any sequence of calls):
`CallsTyping`, `RequestsAlwaysSound` and `VerdictsAlwaysExplained`. A request starts from a multiple of the
vector (`RoomTells`, `StartTells`), so that what is rounded up to the end of a vector never exceeds the room
(`AlignedTells`); a request that is tried again is again a multiple (`HalvedIsMultiple`); and the
flags that one pass of `try_again` leaves to the next tell the truth (`Tracked`), which
`RequestTells` carries through the recursion and `AfterUnaligned` past the call. `Allowed` collects what may
come out of an iteration. The theorems exclude by name what is false of the code:

- `LimitsAllowWork`: the limit is at least the output multiple, or is overruled for a block of fixed rate with
  inputs and outputs (`block_executor.cc:330`). Otherwise a block is asked for 0 items, or
  waits for room that is there (section 4).
- `AlignedBlocksAreWhole`: a block that called `set_alignment` makes all it is asked for. What is left of a
  vector is reckoned from the request, before the call (`block_executor.cc:344-356`); one that makes less is
  told a distance that is too short.
- `SinksDoNotInterpolate`: an input of a sink is taken as exhausted when it has ended and holds fewer items than
  the output multiple (`InputExhausted`), whatever the rate; a sink that needs fewer input
  items than that gives up with work left.

The kinds of `MCBlockCalls` satisfy all three.

**MsgPortProofs** (any number of blocks, posters, ports and messages): `WakeupsLostOnlyInWindow` needs who holds
the two mutexes of `insert_tail` (`MutexInv`) and, for each message a thread has not looked at, which poster has yet
to notify it or that the push fell between `InnerTest` and `Wait` (`WakeInv`). `MessagesStayInOrder` and `MsgPortTyping`
assume `OneRoute`: the messages of a poster come to each port they can reach from one place, once. Where two routes
join, the code promises no order, and the message arrives twice. `OrderInv` says where the messages of a poster
can be, between the thread that pushes them, the queue and the handler, in the order of posting.

**FlowgraphProofs**, first part, on `HierBlock` (any blocks, signatures, nesting and applications): `HierTyping` and `LocksTheorem`. `Closure` is a
recursive function on sets; `ClosureIsLeast` shows, by the smallest counterexample, that it yields the least set that
is closed, which is all that is used of it. The inductive invariant adds to the types what each part of a net is
(`IsNet`) and that a block which no disconnect named has for its parent the block that it is in (`Parented`). This is
where "one other block" is needed: `connect` overwrites the parent of what it names, so that
of a block in two places only the last would know. Each call is shown to change the graph of its own block alone (`Beside`), the parents of those it names
alone (`Adopts`) and to connect nothing it was not asked for (`Asked`, `Grows`); `AdoptingStep` and `ClearingStep` then
do all calls that connect and all that disconnect. `LocksReachTop` follows by taking the blocks below the
top for which it holds: they include the top block and everything inside one of them, hence all.

Second part, on `FlatFlowgraph` (any blocks, signatures, settings and cables, any number of starts and
reconfigurations): `FlatTyping`, `ReadersTheorem` and `SurvivorsTheorem`. The loops of the code (`ForEach`) are
tables of wirings, one for each round. `LoopRuns` shows that a table exists when each round takes sound wirings to
sound wirings, `LoopKeeps` that what each round keeps holds throughout, in the rounds that an exception leaves out as well.
With them each operation has a lemma of its own, from the allocation of one output to `Setup` and `Merge`. The inductive invariant `FlatInv` has two parts:

1. `SoundWiring`, at all times and half way through a wiring too: every reader of every detail reads a buffer that exists
   and, unless it or its writer was moved by the alignment, stands in it; outputs list buffers of their own block, port and start.
2. `Running`, while a flowgraph runs: every connection is wired (`AllLinked`), no reader of another port is younger
   than the start (`OthersAreOlder`), and no input of a running block is null, which `Work` relies on.

That a reconfiguration wires everything needs more than its last loop: an edge that goes away leaves a null reader
(`ClearReader`), and an edge that stays has kept its reader when that loop comes to it; a block of the new graph that was not in
the old one attaches all its inputs. So `Merged` relates the wiring to the one
before the loop by which blocks were visited, and `SurvivorsTheorem` falls out of it.
`ReadersTheorem` assumes `HistoriesFit`: no history is longer than what the sizes of buffers are rounded up to.
`merge_connections` attaches new readers to buffers that were sized for the readers of an older graph
(`flat_flowgraph.cc:289`), and the size is only known to be a positive multiple of `Granularity`, 512 items for
complex samples and pages of 4096 bytes. Unless `max_output_buffer` is set a buffer is larger than that, so the hypothesis
excludes more than goes wrong; without any the theorem is false.

**EditorProofs**, first part (any size of the array, the size 1 included): the methods of the circular array of `StateCache`
are the operations of a history. `Wrap` and `Neighbours` rid the slots of their remainders; a
cache is `Sound` if its counts fit the array and every slot in use holds a state; each method keeps it sound and
does to `Past`, `CurrentState` and `Future` what `UndoHistory`'s operation does. The case that needs the most
care is a new state on a full array, which overwrites the slot of the oldest one and none other.

Second part (any number of pages, files, flow graphs and processes): `TypeTheorem`, and `HistoryTheorem`,
`Spec => CachesAreHistories`: every step of the editor takes the undo list of every open page through a step
of `UndoHistory` or leaves it alone. The inductive invariant is `TypeOK` with the soundness of the undo lists of
all pages, open or not: a page that is made takes over an object that was blank, and undo hands the
state it finds to `import_data`, so that the type of `graph` rests on the soundness of the cache.

`PagesTheorem` adds, of each open page, that it shows what its undo list calls current unless a properties dialog
is open on it (`Recorded`), and that what its file holds is what the *undo list* calls current (`Kept`). The file has to be compared
with the list, not with the page: in the dialog the page shows what was never saved, and when it is cancelled
it is the list that decides what comes back. Each action then answers for one page and
spares the others (`Spares`, `OthersAgree`); those whose file another page writes, or on which a paste raised, are the
exception `astray`, and pages whose flow graph was changed without a record are `unrecorded`. That these are pages
of the notebook rests on `Stoppable` (below): the page that is shown is one of them whenever no handler runs.

`StoppableTheorem` and `AskedTheorem` rest on the shape of the stack of calls. A handler relies on what the handler
that called it has tested, with dialogs in between during which processes end: `Above` says which
calls may be on top of which (`Nested`), so that "this call is under way" tells what the steps above it can
be; every stack ends with what is common to all actions (`Bottomed`), which is why the buttons are right when no
handler runs. On top of that, `Closes` says what is true while a page is being closed: it is in the
notebook and not among those a quit has yet to visit, it is shown as long as its process runs (so that
`KILL`, which goes by the page shown, kills the right one), and from "stop" on it is saved or given up. `Quits`
says that only a quit leaves the notebook empty, and `Runs` that pages and processes know each other
and that a page about to execute has no process. `Shift` and `Replaced` do the sequences once for all handlers.

**GrcProofs** (any blocks, numbers of ports, expressions, files, selections, any size of the undo list, any number of
edits): all that `grc_graph` checks, `GrcTyping`, `GrcDerivedInStep`, `GrcRecordedIsShown`, `GrcPortsFollow` and the
action property `GrcRestoreLoses`. The loops of the code are solved once, in `LoopKeeps` and `LoopRuns`: a step that takes
a set for round `i - 1` to one for round `i` takes the first value to the set of the last round. With them each operation on a flow graph has a lemma of its own:

1. `NamespaceFacts`: evaluating the rounds in reverse yields a namespace that means what the variables say, since
   what a variable needs was left in the round before its own, or the sorting ended in a circle (`LeftFacts`).
2. `RewriteFacts`: while a block is rewritten the list may shrink in front of the loop, so what the loop has visited
   is known only as long as no connection was removed (`Swept`). What it removes had a port too many in the
   namespace of the variables (`LostIn`), whoever renewed it and when.
3. `BlocksInOrderFacts`, `ExportFacts`: moving the variables to the second place, one after the other, loses no block.
4. `LoadedFacts`, `LinkedFacts`, `RestoreFacts`: what a block that is loaded is evaluated in (`Steady`), which
   connections find their ports then, and which of them the rewrite after it takes.
5. `GrownFacts`, `MovedFacts`, `ReconnectedFacts`: a paste under new ids, as far as it gets.

`Inv` adds to the types that `renew` is clear between steps (so that undo loads the blocks in the old namespace),
that what is copied is closed under its connections, which slots of the undo list hold states (`Filled`), and `Rested`:
what the four properties say together, outside the dialog. Every recorded edit is a sound change of the flow graph
followed by `RecordStep`, every import a `RestoreStep`.

**Only model-checked**: liveness under fairness (`Termination`, `StopEnds`, `PostsAreServed`, ...) and whatever needs
ENABLED; `EndOfStream` where two blocks read one buffer (`tpb_diamond`; false in general, as `tpb_beside` shows);
`OrdersAreGood` of `Flowgraph` and `FlattenFollowsPaths` of `HierBlock`, which say what recursive functions over colours and
levels compute, an induction over data; of the editor, `KilledIsNoticed`.

## 6. What is not modelled

Left out of modelled components: sizes in bytes and pages, tag offsets rescaled by rates
other than 1, logging, performance counters, affinities and priorities, exceptions of
blocks (they unwind a thread as an interruption does), registration of ports and
unsubscribing while running (a post to a port without a queue throws, `basic_block.cc:192`), `delete_head_blocking`, settings changed while running; of
hierarchical blocks, processor affinity and ControlPort. A buffer too small for a block's `min_noutput_items`, which
throws in the executor (`block_executor.cc:79`), is excluded by `KindsAssumption`; in `TpbScheduler` such a
block would wait for room, and no instance has one.

Left out of the companion: of flow graphs, buses, virtual sources and sinks, type and port
controllers, hidden and evaluated-as-code parameters, several master ports in one direction,
coordinates, rotation and colours; ids of blocks do not change, so a duplicate id that is typed is out of scope; of the editor,
the search for a pad's type in Create Hier, which does not end for a type that pads do not have, the tree of blocks, reports, preferences, screen shots,
reloading of the block definitions, the parser window; the templates of the generator.

Left out as a whole: the polymorphic types (immutable values), `vmcircbuf` (operating-system
mappings), numerics, ControlPort, preferences, logger and real-time wrappers, bindings,
Volk, the signal-processing components and the graphical tools: pure computation, I/O or
generated glue without a protocol of their own. The rest of the list in `PROJECT.json` is
left for later. By lines, most of the Python of the repository is generated documentation parsers, plotting windows, filter
design forms, icons and example scripts, none of which has a state whose sequences matter; what the models cover is
a small share of the lines and the larger part of the decisions.

## 7. The plan

Done: `StreamFifo`, `Buffer`, `Executor`, `BlockCalls`, `TpbScheduler`, `MsgPort`,
`TopBlock`, `Flowgraph`, `FlatFlowgraph`, `HierBlock`, `UndoHistory`, `StateCache`, `Editor`, `GrcGraph`, `GrcEdits`; proofs of
`Buffer`, `TopBlock`, `Executor`, `BlockCalls`, `TpbScheduler`, `MsgPort`, `FlatFlowgraph`, `HierBlock`, `StateCache`, `Editor` and `GrcEdits`.

Next, in this order:

1. An abstract specification of the wiring, a function from connections to places in the
   streams, that `FlatFlowgraph` implements as long as no block leaves or loses ports.
2. `TopBlock` composed with it: the graph of a scheduler is the one that was merged.
3. `HierBlock` composed with `FlatFlowgraph`: the graphs that restarts take are flattened ones.
4. `SingleThreadedScheduler`: the main loop, on the graphs of `MCTpb`, with the same end-of-stream
   properties as `TpbScheduler`. A loop of blocks that always progress, or a pass counted wrongly, starves its
   sources (`single_threaded_scheduler.cc:171`).
5. `MsgQueue` (a bounded FIFO, to be proved; each removal wakes one poster, `msg_queue.cc:58`), `PmtPool`
   (`pmt_pool.cc:62`), `TaggedStreamBlock` on top of `BlockCalls` (`tagged_stream_block.cc:102`), the registry's
   names (an alias is never unregistered, `block_registry.cc:64`), `CircularFile`.

Proofs to add: `MsgQueue` implements its FIFO.
