------------------------------- MODULE MsgPort -------------------------------
(***************************************************************************)
(* Asynchronous message passing between blocks under scheduler_tpb.        *)
(*                                                                         *)
(* Any thread may post to a block: insert_tail pushes the message under    *)
(* the block's own mutex and, still holding it, goes through the global    *)
(* block registry to notify the two condition variables of the block's     *)
(* thread.  The block's thread takes messages from its ports at the top of *)
(* its loop and in its two wait loops, and dispatches them to handlers,    *)
(* which may post to other blocks in turn.                                 *)
(*                                                                         *)
(* A thread waits under the mutex of its tpb_detail; its stream neighbours *)
(* take that mutex to raise a flag and notify, and posters do not.  The    *)
(* stream side is abstracted here to the results run_one_iteration may     *)
(* return and to neighbours that raise the flags (see TpbScheduler).       *)
(* block_lookup, a read under the registry's mutex, is left out.           *)
(***************************************************************************)
EXTENDS Naturals, Sequences, FiniteSets

CONSTANTS
  Blocks,
  Posters,          \* threads outside the scheduler that post messages
  Nobody,
  PortsOf,          \* block -> its message ports, in the order of the map
  Handled,          \* the ports with a handler
  Forward,          \* port -> the ports its handler posts the message to
  Plan,             \* poster -> for each message it posts, the ports that
                    \* message may go to
  Results,          \* block -> what its run_one_iteration may return
  MaxNmsgs          \* the max_messages preference

Ports == UNION {{PortsOf[b][i] : i \in DOMAIN PortsOf[b]} : b \in Blocks}
Owner(port) == CHOOSE b \in Blocks : \E i \in DOMAIN PortsOf[b] : PortsOf[b][i] = port
Threads == Blocks \cup Posters
MostPosts == 4
Messages == {<<p, n>> : p \in Posters, n \in 1..MostPosts}
Streaming == {b \in Blocks : Results[b] # {}}
Conds == {"input", "output"}

(* A port is one of one block.                                             *)
ASSUME PortAssumption ==
  /\ Blocks \cap Posters = {} /\ Nobody \notin Threads
  /\ IsFiniteSet(Posters)
  /\ \A b \in Blocks : PortsOf[b] \in Seq(Ports)
  /\ \A b, c \in Blocks : \A i \in DOMAIN PortsOf[b], j \in DOMAIN PortsOf[c] :
       PortsOf[b][i] = PortsOf[c][j] => b = c /\ i = j
  /\ Handled \subseteq Ports /\ MaxNmsgs \in Nat
  /\ \A port \in Handled : Forward[port] \in Seq(Ports)
  /\ \A p \in Posters : Plan[p] \in Seq(SUBSET Ports) /\ Len(Plan[p]) <= MostPosts
  /\ \A b \in Blocks : Results[b] \subseteq {"READY", "BLKD_IN", "BLKD_OUT", "DONE"}

VARIABLES
  msg_queue,        \* port -> the messages waiting at it
  mutex,            \* block -> who is inside its insert_tail
  registry,         \* who holds the registry's mutex
  changed,          \* block -> the flags raised in its tpb_detail
  pc,               \* block -> where its thread is
  cond,             \* block -> the wait loop it is in, "none" at the top
  at,               \* block -> the port its scan is at
  posting,          \* thread -> what it has yet to post: <<port, message>>
  stage,            \* thread -> how far the current insert_tail is
  posted,           \* poster -> how many messages it has posted
  arrived, handled, \* history: port -> the messages pushed, dispatched
  missed            \* history: block -> a push fell between its test and
                    \* its wait

queues  == <<msg_queue, mutex, registry>>
threads == <<pc, cond, at>>
posts   == <<posting, stage, posted>>
history == <<arrived, handled, missed>>
vars == <<queues, changed, threads, posts, history>>

Init ==
  /\ msg_queue = [port \in Ports |-> << >>]
  /\ mutex = [b \in Blocks |-> Nobody]
  /\ registry = Nobody
  /\ changed = [b \in Blocks |-> {}]
  /\ pc = [b \in Blocks |-> "scan"]
  /\ cond = [b \in Blocks |-> "none"]
  /\ at = [b \in Blocks |-> 1]
  /\ posting = [t \in Threads |-> << >>]
  /\ stage = [t \in Threads |-> 1]
  /\ posted = [p \in Posters |-> 0]
  /\ arrived = [port \in Ports |-> {}]
  /\ handled = [port \in Ports |-> {}]
  /\ missed = [b \in Blocks |-> FALSE]

-----------------------------------------------------------------------------
(***************************************************************************)
(* insert_tail: the message is pushed under the block's mutex; notify_blk  *)
(* then takes the registry's mutex and notify_msg notifies input_cond and  *)
(* output_cond; both mutexes are released at the end.                      *)
(***************************************************************************)
(* Mutant: the thread is notified before the message is in its queue.      *)
NotifiesFirst == <<"input", "output", "push">>

Stages == <<"push", "input", "output">>

(* Mutant: the message jumps the queue.                                    *)
PushFront(port, m) == <<m>> \o msg_queue[port]

PushBack(port, m) == Append(msg_queue[port], m)

Push(port, m) ==
  /\ msg_queue' = [msg_queue EXCEPT ![port] = PushBack(port, m)]
  /\ arrived' = [arrived EXCEPT ![port] = @ \cup {m}]
  /\ missed' = [missed EXCEPT ![Owner(port)] =
                  @ \/ (pc[Owner(port)] = "armed" /\ port \in Handled)]

(* notify_one: a thread asleep on that condition variable is woken.        *)
NotifyOne(b, c) ==
  pc' = IF pc[b] = "asleep" /\ cond[b] = c THEN [pc EXCEPT ![b] = "woken"] ELSE pc

InsertTail(t) ==
  LET port == posting[t][1][1]
      b    == Owner(port)
      what == Stages[stage[t]]
  IN /\ posting[t] # << >>
     /\ mutex[b] = (IF stage[t] = 1 THEN Nobody ELSE t)
     /\ \/ /\ what = "push"
           /\ Push(port, posting[t][1][2])
           /\ UNCHANGED <<registry, pc>>
        \/ /\ what \in Conds /\ registry \in {Nobody, t}
           /\ NotifyOne(b, what)
           /\ registry' = IF what = "output" THEN Nobody ELSE t
           /\ UNCHANGED <<msg_queue, arrived, missed>>
     /\ IF stage[t] < Len(Stages)
        THEN /\ stage' = [stage EXCEPT ![t] = @ + 1]
             /\ mutex' = [mutex EXCEPT ![b] = t]
             /\ UNCHANGED posting
        ELSE /\ stage' = [stage EXCEPT ![t] = 1]
             /\ mutex' = [mutex EXCEPT ![b] = Nobody]
             /\ posting' = [posting EXCEPT ![t] = Tail(@)]
     /\ UNCHANGED <<changed, cond, at, posted, handled>>

(* A thread outside the scheduler calls _post.                             *)
Post(p) ==
  /\ posting[p] = << >> /\ posted[p] < Len(Plan[p])
  /\ \E port \in Plan[p][posted[p] + 1] :
       posting' = [posting EXCEPT ![p] = << <<port, <<p, posted[p] + 1>>>> >>]
  /\ posted' = [posted EXCEPT ![p] = @ + 1]
  /\ UNCHANGED <<queues, changed, threads, stage, history>>

-----------------------------------------------------------------------------
(***************************************************************************)
(* The thread of a block.  While cond is "none" it is at the top of its    *)
(* loop; otherwise it is in that wait loop and holds the mutex of its      *)
(* tpb_detail, except while it is asleep or in a handler.                  *)
(***************************************************************************)
HoldsTpbMutex(b) == cond[b] # "none" /\ pc[b] \in {"scan", "armed"}

Goto(b, where, c) ==
  /\ pc' = [pc EXCEPT ![b] = where]
  /\ cond' = [cond EXCEPT ![b] = c]
  /\ at' = [at EXCEPT ![b] = 1]

EmptyHandled(b) == \A i \in DOMAIN PortsOf[b] :
                     PortsOf[b][i] \in Handled => msg_queue[PortsOf[b][i]] = << >>

(* The inner loop of a wait: wait, or handle all pending messages.  The    *)
(* predicate reads the queues without their mutex.                         *)
InnerTest(b, c) ==
  IF c \notin changed[b] /\ EmptyHandled(b) THEN Goto(b, "armed", c)
  ELSE Goto(b, "scan", c)

(* The outer loop of a wait: out of it, to the top, once the flag is up.   *)
OuterTest(b, c) ==
  IF c \in changed[b] THEN Goto(b, "scan", "none") ELSE InnerTest(b, c)

(***************************************************************************)
(* delete_head_nowait, under the block's mutex, and dispatch_msg, with no  *)
(* mutex held.  A handler that posts does so from this thread.             *)
(***************************************************************************)
(* Mutant: the handler runs under the mutex of its block.                  *)
TakeLocked(b, port) ==
  /\ mutex[b] \in {Nobody, b}
  /\ mutex' = [mutex EXCEPT ![b] = b]
  /\ msg_queue' = [msg_queue EXCEPT ![port] = Tail(@)]

(* Mutant: the head is read and never popped.                              *)
TakeNothing(b, port) ==
  /\ mutex[b] = Nobody
  /\ UNCHANGED <<mutex, msg_queue>>

Take(b, port) ==
  /\ mutex[b] = Nobody
  /\ msg_queue' = [msg_queue EXCEPT ![port] = Tail(@)]
  /\ UNCHANGED mutex

(* What a handler publishes: one post per subscriber, in list order.       *)
Published(port, m) == [i \in DOMAIN Forward[port] |-> <<Forward[port][i], m>>]

Dispatch(b) ==
  LET port == PortsOf[b][at[b]]
      m == Head(msg_queue[port])
  IN /\ pc[b] = "scan" /\ at[b] <= Len(PortsOf[b])
     /\ port \in Handled /\ msg_queue[port] # << >>
     /\ Take(b, port)
     /\ handled' = [handled EXCEPT ![port] = @ \cup {m}]
     /\ posting' = [posting EXCEPT ![b] = Published(port, m)]
     /\ pc' = [pc EXCEPT ![b] = "handler"]
     /\ UNCHANGED <<registry, changed, cond, at, stage, posted, arrived, missed>>

Return(b) ==
  /\ pc[b] = "handler" /\ posting[b] = << >>
  /\ pc' = [pc EXCEPT ![b] = "scan"]
  /\ UNCHANGED <<queues, changed, cond, at, posts, history>>

(* A port with nothing for its handler is left; a port without a handler   *)
(* loses its oldest message if it holds too many.                          *)
TooMany(n) == n > MaxNmsgs

NextPort(b) ==
  LET port == PortsOf[b][at[b]]
  IN /\ pc[b] = "scan" /\ at[b] <= Len(PortsOf[b])
     /\ \/ /\ port \in Handled /\ msg_queue[port] = << >> /\ mutex[b] = Nobody
           /\ UNCHANGED msg_queue
        \/ /\ port \notin Handled /\ ~TooMany(Len(msg_queue[port]))
           /\ UNCHANGED msg_queue
        \/ /\ port \notin Handled /\ TooMany(Len(msg_queue[port])) /\ mutex[b] = Nobody
           /\ msg_queue' = [msg_queue EXCEPT ![port] = Tail(@)]
     /\ at' = [at EXCEPT ![b] = @ + 1]
     /\ UNCHANGED <<mutex, registry, changed, pc, cond, posts, history>>

(***************************************************************************)
(* After the last port: at the top the flags are cleared and the stream    *)
(* side runs; in a wait loop the flag is tested again.                     *)
(***************************************************************************)
Scanned(b) ==
  /\ pc[b] = "scan" /\ at[b] > Len(PortsOf[b])
  /\ \/ /\ cond[b] = "none"
        /\ changed' = [changed EXCEPT ![b] = {}]
        /\ Goto(b, "work", "none")
     \/ /\ cond[b] # "none"
        /\ OuterTest(b, cond[b])
        /\ UNCHANGED changed
  /\ UNCHANGED <<queues, posts, history>>

(* run_one_iteration, BLKD_IN for a block with no stream ports; a blocked  *)
(* thread takes its tpb mutex and enters the wait loop.  (The loop's test  *)
(* of done() is never true: only this thread makes its block done.)        *)
RunOneIteration(b) ==
  /\ pc[b] = "work"
  /\ \E s \in (IF b \in Streaming THEN Results[b] ELSE {"BLKD_IN"}) :
       \/ s = "READY" /\ Goto(b, "scan", "none")
       \/ s = "DONE" /\ Goto(b, "exited", "none")
       \/ s = "BLKD_IN" /\ OuterTest(b, "input")
       \/ s = "BLKD_OUT" /\ OuterTest(b, "output")
  /\ UNCHANGED <<queues, changed, posts, history>>

(* cond.wait lets go of the tpb mutex and sleeps, in one step.             *)
Wait(b) ==
  /\ pc[b] = "armed"
  /\ pc' = [pc EXCEPT ![b] = "asleep"]
  /\ UNCHANGED <<queues, changed, cond, at, posts, history>>

(* A condition variable may wake a thread that nobody notified.            *)
SpuriousWakeup(b) ==
  /\ pc[b] = "asleep"
  /\ pc' = [pc EXCEPT ![b] = "woken"]
  /\ UNCHANGED <<queues, changed, cond, at, posts, history>>

Woken(b) ==
  /\ pc[b] = "woken"
  /\ InnerTest(b, cond[b])
  /\ missed' = [missed EXCEPT ![b] = FALSE]
  /\ UNCHANGED <<queues, changed, posts, arrived, handled>>

-----------------------------------------------------------------------------
(***************************************************************************)
(* set_input_changed and set_output_changed, called by the threads of the  *)
(* stream neighbours under the tpb mutex of the block they notify.  Raised *)
(* again, a flag changes nothing: no thread sleeps on it.                  *)
(***************************************************************************)
RaiseAndNotify(b, c) ==
  /\ changed' = [changed EXCEPT ![b] = @ \cup {c}]
  /\ NotifyOne(b, c)

SetChanged(b, c) ==
  /\ b \in Streaming /\ pc[b] # "exited" /\ ~HoldsTpbMutex(b)
  /\ c \notin changed[b]
  /\ RaiseAndNotify(b, c)
  /\ UNCHANGED <<queues, cond, at, posts, history>>

Poster(p) == Post(p) \/ InsertTail(p)

Thread(b) ==
  \/ Dispatch(b) \/ InsertTail(b) \/ Return(b) \/ NextPort(b) \/ Scanned(b)
  \/ RunOneIteration(b) \/ Wait(b) \/ Woken(b)

Next ==
  \/ \E p \in Posters : Poster(p)
  \/ \E b \in Blocks : Thread(b) \/ SpuriousWakeup(b)
  \/ \E b \in Blocks, c \in Conds : SetChanged(b, c)

(* Every thread is scheduled; nothing is promised of the stream side.      *)
ThreadsRun ==
  /\ \A p \in Posters : WF_vars(Poster(p))
  /\ \A b \in Blocks : WF_vars(Thread(b))

Spec == Init /\ [][Next]_vars /\ ThreadsRun

(* The neighbours of every streaming block keep making progress, and get   *)
(* the tpb mutex even from a thread that keeps waking up for nothing.      *)
TrafficSpec ==
  Spec /\ \A b \in Streaming, c \in Conds : SF_vars(SetChanged(b, c))

-----------------------------------------------------------------------------
TypeOK ==
  /\ msg_queue \in [Ports -> Seq(Messages)]
  /\ \A port \in Ports : Len(msg_queue[port]) <= Cardinality(Messages)
  /\ mutex \in [Blocks -> Threads \cup {Nobody}]
  /\ registry \in Threads \cup {Nobody}
  /\ changed \in [Blocks -> SUBSET Conds]
  /\ pc \in [Blocks -> {"scan", "handler", "work", "armed", "asleep", "woken", "exited"}]
  /\ cond \in [Blocks -> Conds \cup {"none"}]
  /\ at \in [Blocks -> Nat]
  /\ \A b \in Blocks : at[b] \in 1..Len(PortsOf[b]) + 1
  /\ posting \in [Threads -> Seq(Ports \X Messages)]
  /\ stage \in [Threads -> 1..Len(Stages)]
  /\ posted \in [Posters -> 0..MostPosts]
  /\ arrived \in [Ports -> SUBSET Messages] /\ handled \in [Ports -> SUBSET Messages]
  /\ missed \in [Blocks -> BOOLEAN]

(***************************************************************************)
(* The messages of one poster reach every handler on their way in the      *)
(* order in which it posted them, through blocks that pass them on too.    *)
(***************************************************************************)
InOrder ==
  \A port \in Handled : \A m \in handled[port], k \in arrived[port] :
    m[1] = k[1] /\ k[2] < m[2] => k \in handled[port]

(***************************************************************************)
(* A thread that sleeps with messages for its handlers either has a poster *)
(* about to notify it, or a push fell just between its test of the queues  *)
(* and its wait: that window is the only way to lose a message's wakeup.   *)
(***************************************************************************)
AboutToNotify(t, b) ==
  /\ mutex[b] = t
  /\ \E i \in stage[t]..Len(Stages) : Stages[i] = cond[b]

LostOnlyInWindow ==
  \A b \in Blocks :
    pc[b] = "asleep" /\ ~EmptyHandled(b) =>
      missed[b] \/ \E t \in Threads : AboutToNotify(t, b)

(***************************************************************************)
(* basic_block.h:184: _post is to "place in queue, arrange for thread to   *)
(* be awakened if it's not already": the queues of its handlers empty      *)
(* again and again, unless the block has ended.                            *)
(***************************************************************************)
Delivered == \A b \in Blocks : []<>(EmptyHandled(b) \/ pc[b] = "exited")

(* The same, for the blocks that have stream neighbours.                   *)
DeliveredToStreaming ==
  \A b \in Streaming : []<>(EmptyHandled(b) \/ pc[b] = "exited")

(***************************************************************************)
(* A post always returns, although handlers post to each other's blocks    *)
(* and notify under two mutexes.                                           *)
(***************************************************************************)
PostsReturn == \A t \in Threads : []<>(posting[t] = << >>)

(***************************************************************************)
(* tpb_thread_body.cc:73: messages building up at a port without a handler *)
(* are pruned "to keep memory in check".                                   *)
(***************************************************************************)
PrunedInCheck ==
  \A port \in Ports \ Handled :
    []<>(Len(msg_queue[port]) <= MaxNmsgs \/ pc[Owner(port)] = "exited")

(* With neighbours that go on, no queue is left alone, handler or not.     *)
QueuesAreServed == DeliveredToStreaming /\ PrunedInCheck

(***************************************************************************)
(* A message that is posted is taken over, and then taken up.              *)
(***************************************************************************)
PostsAreServed == PostsReturn /\ QueuesAreServed
=============================================================================
