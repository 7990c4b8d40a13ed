---------------------------- MODULE TpbScheduler ----------------------------
(***************************************************************************)
(* scheduler_tpb: one thread per block, each looping in tpb_thread_body    *)
(* over block_executor::run_one_iteration, working between calls on the    *)
(* circular buffers they share and waking each other through the           *)
(* input_changed and output_changed flags of tpb_detail.                   *)
(*                                                                         *)
(* A step of a thread is at most one critical section: one input or output *)
(* sampled under its buffer's mutex, one read or write pointer advanced,   *)
(* one neighbour notified under that neighbour's mutex, one done flag set. *)
(* Items are not told apart here (Buffer does that): a reader is           *)
(* represented by its backlog, written - read, so that an endless stream   *)
(* has finitely many states.                                               *)
(*                                                                         *)
(* The output multiples here are 1 or come from set_output_multiple, for   *)
(* which the alignment flags of Executor never change (see BlockCalls).    *)
(* Messages, which share the wait loops, are the subject of MsgPort.       *)
(***************************************************************************)
EXTENDS Executor, SequencesExt

CONSTANTS
  Blocks,
  Buffers,          \* one per connected output port
  Ins, Outs,        \* block -> the buffers of its ports, in port order
  Readers,          \* buffer -> the input ports <<block, index>> that read
                    \* it, in the order their readers were attached
  Rate,             \* block -> its description, as Executor wants it
  Supply,           \* block -> items it makes before work returns -1
  Endless,          \* the supply of a block that never ends
  Droppers,         \* blocks that may consume input and make nothing of it
  PartialWork,      \* TRUE: work may make less than it is asked for
  BufSize,          \* buffer -> d_bufsize
  StopAllowed,      \* TRUE: top_block::stop() may be called
  Order,            \* the blocks in topological order
  OwnMax,           \* block -> its max_noutput_items, 0 when not set
  GlobalMax         \* the max_noutput_items given to top_block::start

Ports == UNION {{<<b, i>> : i \in DOMAIN Ins[b]} : b \in Blocks}
Written(b) == {Outs[b][i] : i \in DOMAIN Outs[b]}
PortsOf(buf) == {Readers[buf][i] : i \in DOMAIN Readers[buf]}
Source(port) == Ins[port[1]][port[2]]
Writer(buf) == CHOOSE b \in Blocks : buf \in Written(b)

(* Every block is connected, every buffer has one writer and a reader, and *)
(* Ins and Readers describe the same edges; a buffer is allocated for at   *)
(* least the history of its readers.                                       *)
ASSUME GraphAssumption ==
  /\ Ins \in [Blocks -> Seq(Buffers)] /\ Outs \in [Blocks -> Seq(Buffers)]
  /\ Readers \in [Buffers -> Seq(Ports)] /\ BufSize \in [Buffers -> Positive]
  /\ \A b \in Blocks : Ins[b] # << >> \/ Outs[b] # << >>
  /\ \A b \in Blocks, c \in Blocks :
       \A i \in DOMAIN Outs[b], j \in DOMAIN Outs[c] :
         Outs[b][i] = Outs[c][j] => b = c /\ i = j
  /\ \A buf \in Buffers : /\ \E b \in Blocks : buf \in Written(b)
                          /\ PortsOf(buf) = {port \in Ports : Source(port) = buf}
                          /\ PortsOf(buf) # {}
  /\ \A port \in Ports : Rate[port[1]].history <= BufSize[Source(port)]

(* What the blocks are, and the limits they are given.                     *)
ASSUME BlocksAssumption ==
  /\ Rate \in [Blocks -> Descriptions]
  /\ \A b \in Blocks : Rate[b].multiple_set \/ Rate[b].multiple = 1
  /\ Endless \notin Nat /\ Supply \in [Blocks -> Nat \cup {Endless}]
  /\ \A b \in Droppers : Ins[b] # << >>
  /\ OwnMax \in [Blocks -> Nat] /\ GlobalMax \in Nat
  /\ Order \in Seq(Blocks) /\ \A b \in Blocks : \E i \in DOMAIN Order : Order[i] = b

VARIABLES
  backlog,          \* port -> items written and not yet read
  buf_done,         \* buffer -> d_done
  input_changed, output_changed,      \* the flags of each block's tpb_detail
  d_done,           \* block -> block_detail::d_done
  why,              \* history: what made the block done
  made,             \* items made so far by a block of limited supply
  pc,               \* where each thread is
  at,               \* the index its loop is at
  seen,             \* the inputs it has sampled: [items, done]
  noutput,          \* noutput_items, and later what work made
  takes,            \* what work consumes of each input
  interrupted       \* threads with a boost interruption pending

streams == <<backlog, buf_done>>
flags   == <<input_changed, output_changed>>
ends    == <<d_done, why>>
locals  == <<seen, noutput, takes>>
vars == <<streams, flags, ends, made, pc, at, locals, interrupted>>

-----------------------------------------------------------------------------
(***************************************************************************)
(* The limit each thread is given.  The constructor of scheduler_tpb keeps *)
(* the limit of the last block that had one in the variable that started   *)
(* as the global limit.                                                    *)
(***************************************************************************)
Limit(b) ==
  LET position == CHOOSE i \in DOMAIN Order : Order[i] = b
      limited  == {i \in 1..position : OwnMax[Order[i]] # 0}
  IN IF limited = {} THEN GlobalMax
     ELSE OwnMax[Order[CHOOSE i \in limited : \A j \in limited : j <= i]]

Par == [b \in Blocks |-> [Rate[b] EXCEPT !.max_noutput = Limit(b)]]

IsSource(b) == Ins[b] = << >>
IsSink(b) == Outs[b] = << >>

(* Mutant: the slot that tells full from empty is given away.              *)
SpaceOfAll(buf) ==
  LET lags == {backlog[port] : port \in PortsOf(buf)}
  IN BufSize[buf] - CHOOSE n \in lags : \A m \in lags : m <= n

(* buffer::space_available: the slowest reader decides.                    *)
Space(buf) ==
  LET lags == {backlog[port] : port \in PortsOf(buf)}
  IN BufSize[buf] - 1 - CHOOSE n \in lags : \A m \in lags : m <= n

NoAlignment == [unaligned |-> 0, is_unaligned |-> FALSE]

(***************************************************************************)
(* Whom a block notifies: the readers of its outputs, one by one, and then *)
(* the writers of its inputs.                                              *)
(***************************************************************************)
Downstream ==
  [b \in Blocks |->
     FlattenSeq([i \in DOMAIN Outs[b] |->
                   [j \in DOMAIN Readers[Outs[b][i]] |-> Readers[Outs[b][i]][j][1]]])]

Upstream == [b \in Blocks |-> [i \in DOMAIN Ins[b] |-> Writer(Ins[b][i])]]

Neighbours == [b \in Blocks |-> Downstream[b] \o Upstream[b]]

Goto(b, where, index) ==
  /\ pc' = [pc EXCEPT ![b] = where]
  /\ at' = [at EXCEPT ![b] = index]

(* What a thread sampled and settled on is dead once it has used it.       *)
Forget(b) == /\ seen' = [seen EXCEPT ![b] = << >>]
             /\ noutput' = [noutput EXCEPT ![b] = 0]
             /\ takes' = [takes EXCEPT ![b] = 0]

GiveUp(b, reason) ==
  /\ Goto(b, "set_done", 1)
  /\ Forget(b)
  /\ why' = [why EXCEPT ![b] = reason]

Init ==
  /\ backlog = [port \in Ports |-> Rate[port[1]].history - 1]
  /\ buf_done = [buf \in Buffers |-> FALSE]
  /\ input_changed = [b \in Blocks |-> FALSE]
  /\ output_changed = [b \in Blocks |-> FALSE]
  /\ d_done = [b \in Blocks |-> FALSE]
  /\ why = [b \in Blocks |-> "running"]
  /\ made = [b \in Blocks |-> 0]
  /\ pc = [b \in Blocks |-> "top"]
  /\ at = [b \in Blocks |-> 1]
  /\ seen = [b \in Blocks |-> << >>]
  /\ noutput = [b \in Blocks |-> 0]
  /\ takes = [b \in Blocks |-> 0]
  /\ interrupted = {}

-----------------------------------------------------------------------------
(***************************************************************************)
(* The top of the loop: an interruption point, then clear_changed.         *)
(***************************************************************************)
ClearChanged(b) ==
  /\ pc[b] = "top" /\ b \notin interrupted
  /\ input_changed' = [input_changed EXCEPT ![b] = FALSE]
  /\ output_changed' = [output_changed EXCEPT ![b] = FALSE]
  /\ Goto(b, IF IsSource(b) THEN "output" ELSE "input", 1)
  /\ UNCHANGED <<streams, ends, made, locals, interrupted>>

(***************************************************************************)
(* run_one_iteration samples each input's items and done flag together,    *)
(* under the mutex of that input's buffer.  A sink gives up at the first   *)
(* input that is exhausted.                                                *)
(***************************************************************************)
SampleInput(b) ==
  LET port == <<b, at[b]>>
      in == [items |-> backlog[port], done |-> buf_done[Source(port)]]
  IN /\ pc[b] = "input"
     /\ \/ /\ IsSink(b) /\ InputExhausted(Par[b], in)
           /\ GiveUp(b, "input")
        \/ /\ ~(IsSink(b) /\ InputExhausted(Par[b], in))
           /\ seen' = [seen EXCEPT ![b] = Append(@, in)]
           /\ IF at[b] < Len(Ins[b]) THEN Goto(b, "input", at[b] + 1)
              ELSE Goto(b, IF IsSink(b) THEN "work" ELSE "output", 1)
           /\ UNCHANGED <<why, noutput, takes>>
     /\ UNCHANGED <<streams, flags, d_done, made, interrupted>>

(* min_available_space, one output at a time.                              *)
SampleOutput(b) ==
  LET buf == Outs[b][at[b]]
      room == Room(Par[b], Space(buf), BufSize[buf])
  IN /\ pc[b] = "output"
     /\ \/ /\ Blocking(Par[b], room) /\ buf_done[buf]
           /\ GiveUp(b, "output")
        \/ /\ Blocking(Par[b], room) /\ ~buf_done[buf]
           /\ Goto(b, "wait_out", at[b])
           /\ UNCHANGED <<why, locals>>
        \/ /\ ~Blocking(Par[b], room)
           /\ noutput' = [noutput EXCEPT ![b] = IF at[b] = 1 THEN room ELSE AtMost(@, room)]
           /\ IF at[b] < Len(Outs[b]) THEN Goto(b, "output", at[b] + 1)
              ELSE Goto(b, "work", 1)
           /\ UNCHANGED <<why, seen, takes>>
     /\ UNCHANGED <<streams, flags, d_done, made, interrupted>>

(***************************************************************************)
(* The rest of run_one_iteration is a function of what was sampled: ins,   *)
(* and room, the least room of the outputs.  A source asks for what its    *)
(* outputs can take, a sink for a guess made from its inputs.              *)
(***************************************************************************)
Decide(p, ins, bufsizes, room) ==
  LET guess == SinkNoutput(p, MaxItemsAvail({ins[i] : i \in DOMAIN ins}))
  IN IF bufsizes = << >>
     THEN [result |-> IF AtMost(room, MaxNoutputItems(p)) = 0 THEN "blkd_out" ELSE "work",
           n |-> AtMost(room, MaxNoutputItems(p))]
     ELSE IF room = 0 /\ guess = 0 THEN [result |-> "blkd_in", n |-> 0]
     ELSE Decision(p, NoAlignment, ins, bufsizes, IF room = 0 THEN guess ELSE room)

Verdict(b) ==
  Decide(Par[b], seen[b], [i \in DOMAIN Ins[b] |-> BufSize[Ins[b][i]]], noutput[b])

(***************************************************************************)
(* general_work, on the request the executor settled for, with no lock     *)
(* held.  work returns -1 once its supply is used up; otherwise it makes   *)
(* at least one item's worth, and the sync_* classes consume what that     *)
(* takes.  A dropper may consume and make nothing.                         *)
(***************************************************************************)
ItemsFor(b, n) == (n * Rate[b].down) \div Rate[b].up

(* Mutant: work forgets how much it has made already.                      *)
MakesAll(b, n) == {n}

MakesOf(b, n) ==
  LET left == IF Supply[b] = Endless THEN n ELSE AtMost(n, Supply[b] - made[b])
  IN IF PartialWork THEN {k \in 1..left : k % Rate[b].up = 0} ELSE {left}

Work(b) ==
  /\ pc[b] = "work"
  /\ \E v \in {Verdict(b)} :
       \/ /\ v.result = "blkd_in"
          /\ Goto(b, "wait_in", 1)
          /\ UNCHANGED <<why, locals>>
       \/ /\ v.result = "blkd_out"
          /\ Goto(b, "wait_out", 1)
          /\ UNCHANGED <<why, locals>>
       \/ /\ v.result = "done"
          /\ GiveUp(b, "input")
       \/ /\ v.result = "work" /\ made[b] = Supply[b]
          /\ GiveUp(b, "work")
       \/ /\ v.result = "work" /\ made[b] # Supply[b]
          /\ \E k \in MakesOf(b, v.n) :
               /\ takes' = [takes EXCEPT ![b] = ItemsFor(b, k)]
               /\ \E kept \in (IF b \in Droppers THEN {0, k} ELSE {k}) :
                    noutput' = [noutput EXCEPT ![b] = kept]
          /\ Goto(b, IF IsSource(b) THEN "produce" ELSE "consume", 1)
          /\ seen' = [seen EXCEPT ![b] = << >>]
          /\ UNCHANGED why
  /\ UNCHANGED <<streams, flags, d_done, made, interrupted>>

(* What follows consume_each and produce_each: READY notifies everybody,   *)
(* READY_NO_OUTPUT only the blocks upstream.                               *)
NotifyFrom(b, n) ==
  /\ Goto(b, "notify", IF n > 0 THEN 1 ELSE Len(Downstream[b]) + 1)
  /\ Forget(b)

(* consume_each, one input at a time.                                      *)
Consume(b) ==
  /\ pc[b] = "consume"
  /\ backlog' = [backlog EXCEPT ![<<b, at[b]>>] = @ - takes[b]]
  /\ \/ /\ at[b] < Len(Ins[b])
        /\ Goto(b, "consume", at[b] + 1)
        /\ UNCHANGED locals
     \/ /\ at[b] = Len(Ins[b]) /\ ~IsSink(b) /\ noutput[b] > 0
        /\ Goto(b, "produce", 1)
        /\ UNCHANGED locals
     \/ /\ at[b] = Len(Ins[b]) /\ (IsSink(b) \/ noutput[b] = 0)
        /\ NotifyFrom(b, noutput[b])
  /\ UNCHANGED <<buf_done, flags, ends, made, interrupted>>

(* produce_each, one output at a time.                                     *)
Produce(b) ==
  LET last == at[b] = Len(Outs[b])
  IN /\ pc[b] = "produce"
     /\ backlog' = [port \in Ports |->
                      IF port \in PortsOf(Outs[b][at[b]])
                      THEN backlog[port] + noutput[b] ELSE backlog[port]]
     /\ made' = [made EXCEPT ![b] = IF last /\ Supply[b] # Endless
                                    THEN @ + noutput[b] ELSE @]
     /\ IF last THEN NotifyFrom(b, noutput[b])
        ELSE Goto(b, "produce", at[b] + 1) /\ UNCHANGED locals
     /\ UNCHANGED <<buf_done, flags, ends, interrupted>>

(***************************************************************************)
(* block_detail::set_done marks the buffers of the outputs, then those of  *)
(* the inputs, each under its own mutex.                                   *)
(***************************************************************************)
Marks(b) == Outs[b] \o Ins[b]

SetDone(b) ==
  /\ pc[b] = "set_done"
  /\ d_done' = [d_done EXCEPT ![b] = TRUE]
  /\ buf_done' = [buf_done EXCEPT ![Marks(b)[at[b]]] = TRUE]
  /\ IF at[b] < Len(Marks(b)) THEN Goto(b, "set_done", at[b] + 1)
     ELSE Goto(b, "notify", 1)
  /\ UNCHANGED <<backlog, flags, why, made, locals, interrupted>>

(***************************************************************************)
(* notify_neighbors and notify_upstream: set_input_changed or              *)
(* set_output_changed of one neighbour, under that neighbour's mutex.      *)
(***************************************************************************)
(* Mutant: the flag is only raised for a thread that already waits.        *)
RaisedIfWaiting(flag, to) ==
  [flag EXCEPT ![to] = @ \/ pc[to] \in {"wait_in", "wait_out"}]

Raised(flag, to) == [flag EXCEPT ![to] = TRUE]

Notify(b) ==
  LET to == Neighbours[b][at[b]]
  IN /\ pc[b] = "notify"
     /\ IF at[b] <= Len(Downstream[b])
        THEN /\ input_changed' = Raised(input_changed, to)
             /\ UNCHANGED output_changed
        ELSE /\ output_changed' = Raised(output_changed, to)
             /\ UNCHANGED input_changed
     /\ IF at[b] < Len(Neighbours[b]) THEN Goto(b, "notify", at[b] + 1)
        ELSE Goto(b, IF d_done[b] THEN "exited" ELSE "top", 1)
     /\ UNCHANGED <<streams, ends, made, locals, interrupted>>

(* The wait loops: under its own mutex a thread waits on its condition     *)
(* variable until the flag is set.                                         *)
Wake(b) ==
  /\ \/ pc[b] = "wait_in" /\ input_changed[b]
     \/ pc[b] = "wait_out" /\ output_changed[b]
  /\ Goto(b, "top", 1)
  /\ Forget(b)
  /\ UNCHANGED <<streams, flags, ends, made, interrupted>>

(***************************************************************************)
(* top_block::stop() interrupts every thread.  A thread notices at the top *)
(* of its loop or while it waits, and thread_body_wrapper swallows the     *)
(* exception: no done flag is set and nobody is told.                      *)
(***************************************************************************)
Stop ==
  /\ StopAllowed /\ interrupted = {}
  /\ interrupted' = Blocks
  /\ UNCHANGED <<streams, flags, ends, made, pc, at, locals>>

Interrupted(b) ==
  /\ b \in interrupted
  /\ \/ pc[b] = "top"
     \/ pc[b] = "wait_in" /\ ~input_changed[b]
     \/ pc[b] = "wait_out" /\ ~output_changed[b]
  /\ Goto(b, "exited", 1)
  /\ Forget(b)
  /\ UNCHANGED <<streams, flags, ends, made, interrupted>>

Thread(b) ==
  \/ ClearChanged(b) \/ SampleInput(b) \/ SampleOutput(b) \/ Work(b)
  \/ Consume(b) \/ Produce(b) \/ SetDone(b) \/ Notify(b) \/ Wake(b)
  \/ Interrupted(b)

AllExited == \A b \in Blocks : pc[b] = "exited"

(* scheduler_tpb::wait returns when every thread has been joined.          *)
Joined == AllExited /\ UNCHANGED vars

Next == (\E b \in Blocks : Thread(b)) \/ Stop \/ Joined

(* The operating system runs every thread, and a critical section is short.*)
Fairness == \A b \in Blocks : WF_vars(Thread(b))

Spec == Init /\ [][Next]_vars /\ Fairness

-----------------------------------------------------------------------------
Locations == {"top", "input", "output", "work", "consume", "produce",
              "set_done", "notify", "wait_in", "wait_out", "exited"}

TypeOK ==
  /\ backlog \in [Ports -> Nat]
  /\ buf_done \in [Buffers -> BOOLEAN]
  /\ input_changed \in [Blocks -> BOOLEAN]
  /\ output_changed \in [Blocks -> BOOLEAN]
  /\ d_done \in [Blocks -> BOOLEAN]
  /\ why \in [Blocks -> {"running", "input", "output", "work"}]
  /\ made \in [Blocks -> Nat]
  /\ \A b \in Blocks : Supply[b] # Endless => made[b] <= Supply[b]
  /\ pc \in [Blocks -> Locations]
  /\ at \in [Blocks -> Nat \ {0}]
  /\ seen \in [Blocks -> Seq([items : Nat, done : BOOLEAN])]
  /\ noutput \in [Blocks -> Nat]
  /\ takes \in [Blocks -> Nat]
  /\ interrupted \subseteq Blocks

(***************************************************************************)
(* Nothing a thread decided on what it sampled earlier, one buffer after   *)
(* another and with every lock released since, overruns a buffer or takes  *)
(* an item that is not there.                                              *)
(***************************************************************************)
NoOverrun ==
  \A port \in Ports : backlog[port] \in 0..BufSize[Source(port)] - 1

(***************************************************************************)
(* A block that ended for want of input left nothing it could still have   *)
(* used: the block upstream had ended by itself, after everything it made  *)
(* was in the buffer, and less than one output_multiple needs is left.     *)
(***************************************************************************)
EndOfStream ==
  \A b \in Blocks :
    why[b] = "input" =>
      \E port \in Ports :
        /\ port[1] = b
        /\ why[Writer(Source(port))] # "running"
        /\ backlog[port] < Forecast(Rate[b], Rate[b].multiple)

(***************************************************************************)
(* No wakeup is lost.  While a thread waits with its flag clear, whatever  *)
(* changed for it since it looked is the doing of a neighbour that has yet *)
(* to notify it.                                                           *)
(***************************************************************************)
WillNotify(w, from, b) ==
  \/ pc[w] \in {"consume", "produce", "set_done"}
  \/ /\ pc[w] = "notify"
     /\ \E i \in from : i >= at[w] /\ Neighbours[w][i] = b

WaitsAreCovered ==
  \A b \in Blocks :
    /\ pc[b] = "wait_in" /\ ~input_changed[b] =>
         \A i \in DOMAIN Ins[b] :
           LET w == Writer(Ins[b][i])
           IN backlog[<<b, i>>] > seen[b][i].items \/ (d_done[w] /\ ~seen[b][i].done)
                => WillNotify(w, 1..Len(Downstream[w]), b)
    /\ pc[b] = "wait_out" /\ ~output_changed[b] =>
         LET buf == Outs[b][at[b]]
         IN ~Blocking(Par[b], Room(Par[b], Space(buf), BufSize[buf])) \/ buf_done[buf]
              => \E port \in PortsOf(buf) :
                   LET r == port[1]
                   IN WillNotify(r, Len(Downstream[r]) + 1..Len(Neighbours[r]), b)

(***************************************************************************)
(* Whatever the interleaving, streams are not overrun and not held up; and *)
(* with EndOfStream, not cut short either.                                 *)
(***************************************************************************)
StreamsFlow == NoOverrun /\ WaitsAreCovered

StreamsFlowToTheEnd == StreamsFlow /\ EndOfStream

(***************************************************************************)
(* A flowgraph whose sources end ends: every thread returns, whatever the  *)
(* graph's shape, so top_block::run() returns.                             *)
(***************************************************************************)
Termination == <>AllExited

(***************************************************************************)
(* After stop() every thread returns, so that wait() does, even though     *)
(* interrupted threads leave without waking their neighbours.              *)
(***************************************************************************)
StopEnds == (interrupted # {}) ~> AllExited

(***************************************************************************)
(* However it comes to its end, a flowgraph ends; and it ends its blocks   *)
(* with nothing left that they could have used.                            *)
(***************************************************************************)
RunsEnd == Termination /\ StopEnds /\ []EndOfStream
=============================================================================
