--------------------------- MODULE MsgPortProofs ----------------------------
(***************************************************************************)
(* The message ports, for any number of blocks, posters and ports.         *)
(*                                                                         *)
(* Two arguments, each an inductive invariant over the typing.  WakeInv    *)
(* follows a message from its push to the notification that goes with it,  *)
(* all under the mutex of the block.  OrderInv, for graphs in which the    *)
(* messages of one poster have one route to each port, follows it along    *)
(* that route.                                                             *)
(***************************************************************************)
EXTENDS MsgPort, FiniteSetTheorems, TLAPS

-----------------------------------------------------------------------------
(* TypeOK, apart from the length of the queues.                            *)
Places == {"scan", "handler", "work", "armed", "asleep", "woken", "exited"}

Typing ==
  /\ msg_queue \in [Ports -> Seq(Messages)]
  /\ mutex \in [Blocks -> Threads \cup {Nobody}]
  /\ registry \in Threads \cup {Nobody}
  /\ changed \in [Blocks -> SUBSET Conds]
  /\ pc \in [Blocks -> Places]
  /\ cond \in [Blocks -> Conds \cup {"none"}]
  /\ at \in [Blocks -> Nat]
  /\ \A b \in Blocks : at[b] \in 1..Len(PortsOf[b]) + 1
  /\ posting \in [Threads -> Seq(Ports \X Messages)]
  /\ stage \in [Threads -> 1..3]
  /\ posted \in [Posters -> 0..MostPosts]
  /\ arrived \in [Ports -> SUBSET Messages] /\ handled \in [Ports -> SUBSET Messages]
  /\ missed \in [Blocks -> BOOLEAN]

(* Whom the insert_tail in progress of a thread is for.                    *)
Target(t) == Owner(posting[t][1][1])

(* A thread holds the mutex of a block from its push to its last           *)
(* notification; only handlers make the threads of blocks post.            *)
MutexInv ==
  /\ \A t \in Threads : stage[t] > 1 => posting[t] # << >> /\ mutex[Target(t)] = t
  /\ \A b \in Blocks, t \in Threads : mutex[b] = t =>
       stage[t] > 1 /\ posting[t] # << >> /\ Target(t) = b
  /\ \A b \in Blocks : pc[b] # "handler" => posting[b] = << >>
  /\ \A b \in Blocks : pc[b] \in {"armed", "asleep", "woken"} => cond[b] \in Conds

(* Between its test and its wait a thread has missed whatever is in its    *)
(* queues.                                                                 *)
WakeInv ==
  /\ \A b \in Blocks : pc[b] = "armed" /\ ~EmptyHandled(b) => missed[b]
  /\ LostOnlyInWindow

BaseInv == Typing /\ MutexInv

-----------------------------------------------------------------------------
(***************************************************************************)
(* The ports that messages of a poster may come to: the least set that     *)
(* holds those it posts to and is closed under what handlers publish.      *)
(***************************************************************************)
Entries(p) == UNION {Plan[p][i] : i \in DOMAIN Plan[p]}

Feeds(f, q) == f \in Handled /\ \E i \in DOMAIN Forward[f] : Forward[f][i] = q

ClosedFor(p, R) ==
  /\ Entries(p) \subseteq R
  /\ \A f \in R, q \in Ports : Feeds(f, q) => q \in R

Reached(p) == {q \in Ports : \A R \in SUBSET Ports : ClosedFor(p, R) => q \in R}

(* The messages of each poster come to each port from one place, once.     *)
OneRoute ==
  \A p \in Posters :
    /\ \A f \in Reached(p) \cap Handled : \A i, j \in DOMAIN Forward[f] :
         Forward[f][i] = Forward[f][j] => i = j
    /\ \A f, g \in Reached(p), q \in Ports : Feeds(f, q) /\ Feeds(g, q) => f = g
    /\ \A f \in Reached(p), q \in Ports : Feeds(f, q) => q \notin Entries(p)

(* What a thread has yet to push.                                          *)
Unpushed(t) == {i \in DOMAIN posting[t] : i > 1 \/ stage[t] = 1}

(* Messages stay on their route.                                           *)
OnRoute ==
  /\ \A q \in Ports : \A m \in arrived[q] : q \in Reached(m[1]) /\ m[2] <= posted[m[1]]
  /\ \A t \in Threads : \A i \in DOMAIN posting[t] :
       LET q == posting[t][i][1]
           m == posting[t][i][2]
       IN /\ m[2] <= posted[m[1]]
          /\ q \in Reached(m[1])
          /\ t \in Posters => t = m[1] /\ q \in Entries(t)
          /\ t \in Blocks => \E f \in Reached(m[1]) :
                               Feeds(f, q) /\ Owner(f) = t /\ m \in handled[f]

(* A queue holds what arrived and was not dispatched, in order, after all  *)
(* that was.                                                               *)
QueuesSorted ==
  \A q \in Ports :
    /\ handled[q] \subseteq arrived[q]
    /\ \A i \in DOMAIN msg_queue[q] : msg_queue[q][i] \in arrived[q]
    /\ q \in Handled => \A m \in arrived[q] :
         m \in handled[q] \/ \E i \in DOMAIN msg_queue[q] : msg_queue[q][i] = m
    /\ \A i, j \in DOMAIN msg_queue[q] :
         i < j /\ msg_queue[q][i][1] = msg_queue[q][j][1] =>
           msg_queue[q][i][2] < msg_queue[q][j][2]
    /\ \A m \in handled[q], i \in DOMAIN msg_queue[q] :
         m[1] = msg_queue[q][i][1] => m[2] < msg_queue[q][i][2]

(* What comes next to a port comes after all that is there.                *)
NextIsLater ==
  /\ \A t \in Threads : \A i \in Unpushed(t) :
       LET q == posting[t][i][1]
           m == posting[t][i][2]
       IN \A k \in arrived[q] : k[1] = m[1] => k[2] < m[2]
  /\ \A t \in Threads : \A i, j \in DOMAIN posting[t] :
       posting[t][i][1] = posting[t][j][1] => i = j
  /\ \A f, q \in Ports : \A m \in arrived[q] :
       Feeds(f, q) /\ f \in Reached(m[1]) => m \in handled[f]

OrderInv == OnRoute /\ QueuesSorted /\ NextIsLater

-----------------------------------------------------------------------------
(* Ports and their blocks.                                                 *)
LEMMA PortOfBlock ==
  ASSUME NEW b \in Blocks, NEW i \in DOMAIN PortsOf[b]
  PROVE  PortsOf[b][i] \in Ports /\ Owner(PortsOf[b][i]) = b
<1>1. PortsOf[b][i] \in Ports
  BY DEF Ports
<1>2. \E c \in Blocks : \E j \in DOMAIN PortsOf[c] : PortsOf[c][j] = PortsOf[b][i]
  OBVIOUS
<1> QED
  BY <1>1, <1>2, PortAssumption DEF Owner

LEMMA BlockOfPort ==
  ASSUME NEW q \in Ports
  PROVE  /\ Owner(q) \in Blocks
         /\ \E i \in DOMAIN PortsOf[Owner(q)] : PortsOf[Owner(q)][i] = q
BY DEF Ports, Owner

(* The port a thread's scan is at.                                         *)
LEMMA PortAt ==
  ASSUME Typing, NEW b \in Blocks, at[b] <= Len(PortsOf[b])
  PROVE  /\ at[b] \in DOMAIN PortsOf[b]
         /\ PortsOf[b][at[b]] \in Ports /\ Owner(PortsOf[b][at[b]]) = b
<1>1. at[b] \in DOMAIN PortsOf[b]
  BY PortAssumption DEF Typing
<1> QED
  BY <1>1, PortOfBlock

(* The head of what a thread has yet to push.                              *)
LEMMA HeadOfPosting ==
  ASSUME Typing, NEW t \in Threads, posting[t] # << >>
  PROVE  /\ 1 \in DOMAIN posting[t]
         /\ posting[t][1][1] \in Ports /\ posting[t][1][2] \in Messages
         /\ Target(t) \in Blocks
<1>1. posting[t] \in Seq(Ports \X Messages)
  BY DEF Typing
<1>2. 1 \in DOMAIN posting[t] /\ posting[t][1] \in Ports \X Messages
  BY <1>1
<1> QED
  BY <1>2, BlockOfPort DEF Target

(***************************************************************************)
(* The three stages of insert_tail.                                        *)
(***************************************************************************)
Pushes(t) ==
  /\ stage[t] = 1 /\ mutex[Target(t)] = Nobody
  /\ Push(posting[t][1][1], posting[t][1][2])
  /\ stage' = [stage EXCEPT ![t] = 2]
  /\ mutex' = [mutex EXCEPT ![Target(t)] = t]
  /\ UNCHANGED <<registry, pc, posting>>

NotifiesInput(t) ==
  /\ stage[t] = 2 /\ mutex[Target(t)] = t
  /\ NotifyOne(Target(t), "input")
  /\ registry' = t
  /\ stage' = [stage EXCEPT ![t] = 3]
  /\ UNCHANGED <<msg_queue, arrived, missed, mutex, posting>>

NotifiesOutput(t) ==
  /\ stage[t] = 3 /\ mutex[Target(t)] = t
  /\ NotifyOne(Target(t), "output")
  /\ registry' = Nobody
  /\ stage' = [stage EXCEPT ![t] = 1]
  /\ mutex' = [mutex EXCEPT ![Target(t)] = Nobody]
  /\ posting' = [posting EXCEPT ![t] = Tail(@)]
  /\ UNCHANGED <<msg_queue, arrived, missed>>

LEMMA InsertTailStages ==
  ASSUME Typing, NEW t \in Threads, InsertTail(t)
  PROVE  /\ posting[t] # << >>
         /\ Pushes(t) \/ NotifiesInput(t) \/ NotifiesOutput(t)
         /\ UNCHANGED <<changed, cond, at, posted, handled>>
<1>1. stage[t] \in 1..3 /\ mutex \in [Blocks -> Threads \cup {Nobody}]
  BY DEF Typing
<1>2. posting[t] # << >> /\ Target(t) \in Blocks
  BY HeadOfPosting DEF InsertTail
<1>3. Stages[1] = "push" /\ Stages[2] = "input" /\ Stages[3] = "output" /\ Len(Stages) = 3
  BY DEF Stages
<1>4. CASE stage[t] = 1
  BY <1>3, <1>4 DEF InsertTail, Pushes, Target, Conds
<1>5. CASE stage[t] = 2
  <2>1. mutex[Target(t)] = t
    BY <1>5 DEF InsertTail, Target
  <2>2. [mutex EXCEPT ![Target(t)] = t] = mutex
    BY <1>1, <1>2, <2>1
  <2> QED
    BY <1>3, <1>5, <2>1, <2>2 DEF InsertTail, NotifiesInput, Target, Conds
<1>6. CASE stage[t] = 3
  BY <1>3, <1>6 DEF InsertTail, NotifiesOutput, Target, Conds
<1>7. UNCHANGED <<changed, cond, at, posted, handled>>
  BY DEF InsertTail
<1> QED
  BY <1>1, <1>2, <1>4, <1>5, <1>6, <1>7

(* A notification wakes the thread it is for, or nobody.                   *)
LEMMA NotifyWakes ==
  ASSUME Typing, NEW b \in Blocks, NEW c, NotifyOne(b, c)
  PROVE  \/ pc[b] = "asleep" /\ cond[b] = c /\ pc' = [pc EXCEPT ![b] = "woken"]
         \/ ~(pc[b] = "asleep" /\ cond[b] = c) /\ pc' = pc
BY DEF NotifyOne

(***************************************************************************)
(* The steps of a thread that touch no queue, and where they lead it.      *)
(***************************************************************************)
Moves(b, where, c) ==
  /\ pc' = [pc EXCEPT ![b] = where] /\ cond' = [cond EXCEPT ![b] = c]
  /\ UNCHANGED <<queues, posts, arrived, handled>>
  /\ pc[b] = "handler" => posting[b] = << >>
  /\ \/ where \in {"scan", "work", "exited"}
     \/ where = "armed" /\ c \in Conds /\ EmptyHandled(b)
     \/ where = "asleep" /\ pc[b] = "armed" /\ c = cond[b] /\ missed' = missed
     \/ where = "woken" /\ pc[b] = "asleep" /\ c = cond[b] /\ missed' = missed
  /\ at' \in {at, [at EXCEPT ![b] = 1]}
  /\ changed' \in {changed, [changed EXCEPT ![b] = {}]}
  /\ missed' \in {missed, [missed EXCEPT ![b] = FALSE]}

LEMMA InnerTestGoes ==
  ASSUME NEW b \in Blocks, NEW c \in Conds, InnerTest(b, c)
  PROVE  /\ cond' = [cond EXCEPT ![b] = c] /\ at' = [at EXCEPT ![b] = 1]
         /\ \/ pc' = [pc EXCEPT ![b] = "armed"] /\ EmptyHandled(b)
            \/ pc' = [pc EXCEPT ![b] = "scan"]
BY DEF InnerTest, Goto

LEMMA OuterTestGoes ==
  ASSUME NEW b \in Blocks, NEW c \in Conds, OuterTest(b, c)
  PROVE  /\ at' = [at EXCEPT ![b] = 1]
         /\ \E o \in {c, "none"} :
              /\ cond' = [cond EXCEPT ![b] = o]
              /\ \/ pc' = [pc EXCEPT ![b] = "armed"] /\ o = c /\ EmptyHandled(b)
                 \/ pc' = [pc EXCEPT ![b] = "scan"]
BY InnerTestGoes DEF OuterTest, Goto

LEMMA ThreadMoves ==
  ASSUME BaseInv, NEW b \in Blocks,
         \/ Return(b) \/ Scanned(b) \/ RunOneIteration(b) \/ Wait(b)
         \/ SpuriousWakeup(b) \/ Woken(b)
  PROVE  \E where \in Places, c \in Conds \cup {"none"} : Moves(b, where, c)
<1> USE DEF BaseInv, Typing
<1>1. cond = [cond EXCEPT ![b] = cond[b]]
  OBVIOUS
<1>2. CASE Return(b)
  <2>1. Moves(b, "scan", cond[b])
    BY <1>1, <1>2 DEF Return, Moves, history
  <2> QED
    BY <2>1 DEF Places
<1>3. CASE Scanned(b)
  <2>1. CASE Goto(b, "work", "none")
    <3>1. Moves(b, "work", "none")
      BY <1>3, <2>1 DEF Scanned, Goto, Moves, posts, history
    <3> QED
      BY <3>1 DEF Places
  <2>2. CASE cond[b] # "none" /\ OuterTest(b, cond[b])
    <3>1. cond[b] \in Conds
      BY <2>2
    <3>2. PICK o \in {cond[b], "none"} :
            /\ cond' = [cond EXCEPT ![b] = o]
            /\ \/ pc' = [pc EXCEPT ![b] = "armed"] /\ o = cond[b] /\ EmptyHandled(b)
               \/ pc' = [pc EXCEPT ![b] = "scan"]
      BY <2>2, <3>1, OuterTestGoes
    <3>3. at' = [at EXCEPT ![b] = 1]
      BY <2>2, <3>1, OuterTestGoes
    <3>4. Moves(b, "armed", o) \/ Moves(b, "scan", o)
      BY <1>3, <2>2, <3>1, <3>2, <3>3 DEF Scanned, Moves, history
    <3> QED
      BY <3>1, <3>4 DEF Places
  <2> QED
    BY <1>3, <2>1, <2>2 DEF Scanned
<1>4. CASE RunOneIteration(b)
  <2>1. CASE Goto(b, "scan", "none") \/ Goto(b, "exited", "none")
    <3>1. Moves(b, "scan", "none") \/ Moves(b, "exited", "none")
      BY <1>4, <2>1 DEF RunOneIteration, Goto, Moves, history
    <3> QED
      BY <3>1 DEF Places
  <2>2. ASSUME NEW c \in Conds, OuterTest(b, c)
        PROVE  \E where \in Places, d \in Conds \cup {"none"} : Moves(b, where, d)
    <3>1. PICK o \in {c, "none"} :
            /\ cond' = [cond EXCEPT ![b] = o]
            /\ \/ pc' = [pc EXCEPT ![b] = "armed"] /\ o = c /\ EmptyHandled(b)
               \/ pc' = [pc EXCEPT ![b] = "scan"]
      BY <2>2, OuterTestGoes
    <3>2. at' = [at EXCEPT ![b] = 1]
      BY <2>2, OuterTestGoes
    <3>3. Moves(b, "armed", o) \/ Moves(b, "scan", o)
      BY <1>4, <2>2, <3>1, <3>2 DEF RunOneIteration, Moves, history
    <3> QED
      BY <3>3 DEF Places
  <2> QED
    BY <1>4, <2>1, <2>2 DEF RunOneIteration, Conds
<1>5. CASE Wait(b)
  <2>1. Moves(b, "asleep", cond[b])
    BY <1>1, <1>5 DEF Wait, Moves, history
  <2> QED
    BY <2>1 DEF Places
<1>6. CASE SpuriousWakeup(b)
  <2>1. Moves(b, "woken", cond[b])
    BY <1>1, <1>6 DEF SpuriousWakeup, Moves, history
  <2> QED
    BY <2>1 DEF Places
<1>7. CASE Woken(b)
  <2>1. cond[b] \in Conds
    BY <1>7 DEF Woken, MutexInv
  <2>2. Moves(b, "armed", cond[b]) \/ Moves(b, "scan", cond[b])
    BY <1>1, <1>7, <2>1, InnerTestGoes DEF Woken, Moves
  <2> QED
    BY <2>2 DEF Places
<1> QED
  BY <1>2, <1>3, <1>4, <1>5, <1>6, <1>7

-----------------------------------------------------------------------------
(***************************************************************************)
(* Typing.                                                                 *)
(***************************************************************************)
LEMMA InitBaseInv == Init => BaseInv
<1> SUFFICES ASSUME Init PROVE BaseInv
  OBVIOUS
<1>1. << >> \in Seq(Messages) /\ << >> \in Seq(Ports \X Messages)
  OBVIOUS
<1>2. \A b \in Blocks : Len(PortsOf[b]) \in Nat
  BY PortAssumption
<1>3. Typing
  BY <1>1, <1>2 DEF Init, Typing, Places, MostPosts
<1>4. MutexInv
  <2>1. \A t \in Threads : t # Nobody
    BY PortAssumption
  <2>2. \A b \in Blocks : posting[b] = << >>
    BY DEF Init, Threads
  <2> QED
    BY <2>1, <2>2 DEF Init, MutexInv
<1> QED
  BY <1>3, <1>4 DEF BaseInv

LEMMA MovesKeepTyping ==
  ASSUME Typing, NEW b \in Blocks, NEW where \in Places, NEW c \in Conds \cup {"none"},
         Moves(b, where, c)
  PROVE  Typing'
<1>1. \A o \in Blocks : Len(PortsOf[o]) \in Nat
  BY PortAssumption
<1>2. /\ at' \in [Blocks -> Nat]
      /\ \A o \in Blocks : at'[o] \in 1..Len(PortsOf[o]) + 1
  <2>1. at' = at \/ at' = [at EXCEPT ![b] = 1]
    BY DEF Moves
  <2>2. at \in [Blocks -> Nat] /\ \A o \in Blocks : at[o] \in 1..Len(PortsOf[o]) + 1
    BY DEF Typing
  <2>3. \A o \in Blocks : 1 \in 1..Len(PortsOf[o]) + 1
    BY <1>1
  <2>4. at' \in [Blocks -> Nat]
    BY <2>1, <2>2
  <2>5. \A o \in Blocks : at'[o] = at[o] \/ at'[o] = 1
    BY <2>1, <2>2
  <2> QED
    BY <2>2, <2>3, <2>4, <2>5
<1> QED
  BY <1>2 DEF Moves, queues, posts, Typing

LEMMA InsertTailKeepsTyping ==
  ASSUME Typing, NEW t \in Threads, InsertTail(t)
  PROVE  Typing'
<1> DEFINE q == posting[t][1][1]
           m == posting[t][1][2]
<1>1. /\ posting[t] # << >> /\ posting[t] \in Seq(Ports \X Messages)
      /\ q \in Ports /\ m \in Messages /\ Target(t) \in Blocks
  BY InsertTailStages, HeadOfPosting DEF Typing
<1>2. UNCHANGED <<changed, cond, at, posted, handled>>
  BY InsertTailStages
<1>3. CASE Pushes(t)
  <2>1. msg_queue' \in [Ports -> Seq(Messages)] /\ arrived' \in [Ports -> SUBSET Messages]
    <3> HIDE DEF q, m
    <3>1. Push(q, m)
      BY <1>3 DEF Pushes, q, m
    <3> QED
      BY <1>1, <3>1 DEF Push, PushBack, Typing
  <2>2. missed' \in [Blocks -> BOOLEAN]
    BY <1>3 DEF Pushes, Push, Typing
  <2>3. mutex' \in [Blocks -> Threads \cup {Nobody}]
    BY <1>3 DEF Pushes, Typing
  <2>4. stage' \in [Threads -> 1..3]
    BY <1>3 DEF Pushes, Typing
  <2> QED
    BY <1>2, <1>3, <2>1, <2>2, <2>3, <2>4 DEF Pushes, Typing
<1>4. CASE NotifiesInput(t)
  <2>1. pc' \in [Blocks -> Places]
    BY <1>4 DEF NotifiesInput, NotifyOne, Typing, Places
  <2> QED
    BY <1>2, <1>4, <2>1 DEF NotifiesInput, Typing
<1>5. CASE NotifiesOutput(t)
  <2>1. pc' \in [Blocks -> Places]
    BY <1>5 DEF NotifiesOutput, NotifyOne, Typing, Places
  <2>2. posting' \in [Threads -> Seq(Ports \X Messages)]
    <3>1. Tail(posting[t]) \in Seq(Ports \X Messages)
      BY <1>1
    <3> QED
      BY <1>5, <3>1 DEF NotifiesOutput, Typing
  <2>3. mutex' \in [Blocks -> Threads \cup {Nobody}]
    BY <1>5 DEF NotifiesOutput, Typing
  <2>4. stage' \in [Threads -> 1..3]
    BY <1>5 DEF NotifiesOutput, Typing
  <2> QED
    BY <1>2, <1>5, <2>1, <2>2, <2>3, <2>4 DEF NotifiesOutput, Typing
<1> QED
  BY <1>3, <1>4, <1>5, InsertTailStages

LEMMA PostKeepsTyping ==
  ASSUME Typing, NEW p \in Posters, Post(p)
  PROVE  Typing'
<1> DEFINE n == posted[p] + 1
<1>1. n \in 1..MostPosts /\ n \in 1..Len(Plan[p])
  <2>1. posted[p] \in 0..MostPosts /\ Len(Plan[p]) \in Nat /\ Len(Plan[p]) <= MostPosts
    BY PortAssumption DEF Typing
  <2> QED
    BY <2>1 DEF Post, MostPosts
<1>2. Plan[p][n] \in SUBSET Ports
  BY <1>1, PortAssumption
<1>3. PICK port \in Plan[p][n] : posting' = [posting EXCEPT ![p] = << <<port, <<p, n>>>> >>]
  BY DEF Post
<1>4. <<p, n>> \in Messages /\ port \in Ports
  BY <1>1, <1>2 DEF Messages
<1>5. << <<port, <<p, n>>>> >> \in Seq(Ports \X Messages)
  BY <1>4
<1>6. posting' \in [Threads -> Seq(Ports \X Messages)]
  BY <1>3, <1>5 DEF Typing
<1>7. posted' \in [Posters -> 0..MostPosts]
  BY <1>1 DEF Post, Typing, MostPosts
<1> QED
  BY <1>6, <1>7 DEF Post, queues, threads, history, Typing

(* What a thread takes from a queue, and what its handler makes of it.     *)
LEMMA DispatchTakes ==
  ASSUME Typing, NEW b \in Blocks, Dispatch(b)
  PROVE  LET q == PortsOf[b][at[b]]
             m == Head(msg_queue[q])
         IN /\ q \in Ports \cap Handled /\ Owner(q) = b
            /\ msg_queue[q] \in Seq(Messages) /\ msg_queue[q] # << >>
            /\ m \in Messages /\ m = msg_queue[q][1]
            /\ Published(q, m) \in Seq(Ports \X Messages)
            /\ Len(Published(q, m)) = Len(Forward[q])
<1> DEFINE q == PortsOf[b][at[b]]
           m == Head(msg_queue[q])
<1>1. q \in Ports \cap Handled /\ Owner(q) = b
  BY PortAt DEF Dispatch
<1>2. /\ msg_queue[q] \in Seq(Messages) /\ msg_queue[q] # << >>
      /\ m \in Messages /\ m = msg_queue[q][1]
  BY <1>1 DEF Dispatch, Typing
<1>3. Forward[q] \in Seq(Ports)
  BY <1>1, PortAssumption
<1>4. /\ Published(q, m) \in Seq(Ports \X Messages)
      /\ Len(Published(q, m)) = Len(Forward[q])
  <2> HIDE DEF q, m
  <2>1. Published(q, m) = [i \in 1..Len(Forward[q]) |-> <<Forward[q][i], m>>]
    BY <1>3 DEF Published
  <2>2. \A i \in 1..Len(Forward[q]) : <<Forward[q][i], m>> \in Ports \X Messages
    BY <1>2, <1>3
  <2>3. Len(Forward[q]) \in Nat
    BY <1>3
  <2> QED
    BY <2>1, <2>2, <2>3
<1> QED
  BY <1>1, <1>2, <1>4

LEMMA DispatchKeepsTyping ==
  ASSUME Typing, NEW b \in Blocks, Dispatch(b)
  PROVE  Typing'
<1> DEFINE q == PortsOf[b][at[b]]
           m == Head(msg_queue[q])
<1>1. /\ q \in Ports /\ m \in Messages
      /\ msg_queue[q] \in Seq(Messages) /\ msg_queue[q] # << >>
      /\ Published(q, m) \in Seq(Ports \X Messages)
  BY DispatchTakes
<1>2. /\ msg_queue' = [msg_queue EXCEPT ![q] = Tail(@)] /\ mutex' = mutex
      /\ handled' = [handled EXCEPT ![q] = @ \cup {m}]
      /\ posting' = [posting EXCEPT ![b] = Published(q, m)]
      /\ pc' = [pc EXCEPT ![b] = "handler"]
      /\ UNCHANGED <<registry, changed, cond, at, stage, posted, arrived, missed>>
  BY DEF Dispatch, Take
<1> HIDE DEF q, m
<1>3. Tail(msg_queue[q]) \in Seq(Messages)
  BY <1>1
<1> QED
  BY <1>1, <1>2, <1>3 DEF Typing, Places

(* What a port loses as the scan goes past it.                             *)
LEMMA NextPortTakes ==
  ASSUME Typing, NEW b \in Blocks, NextPort(b)
  PROVE  LET q == PortsOf[b][at[b]]
         IN /\ q \in Ports /\ Owner(q) = b
            /\ \/ msg_queue' = msg_queue
               \/ /\ q \notin Handled
                  /\ msg_queue[q] \in Seq(Messages) /\ msg_queue[q] # << >>
                  /\ msg_queue' = [msg_queue EXCEPT ![q] = Tail(@)]
<1> DEFINE q == PortsOf[b][at[b]]
<1>1. q \in Ports /\ Owner(q) = b
  BY PortAt DEF NextPort
<1>2. msg_queue[q] \in Seq(Messages)
  BY <1>1 DEF Typing
<1>3. TooMany(Len(msg_queue[q])) => msg_queue[q] # << >>
  BY <1>2, PortAssumption DEF TooMany
<1> QED
  BY <1>1, <1>2, <1>3 DEF NextPort

LEMMA NextPortKeepsTyping ==
  ASSUME Typing, NEW b \in Blocks, NextPort(b)
  PROVE  Typing'
<1>1. msg_queue' \in [Ports -> Seq(Messages)]
  <2> DEFINE q == PortsOf[b][at[b]]
  <2>1. CASE msg_queue' = msg_queue
    BY <2>1 DEF Typing
  <2>2. CASE /\ msg_queue[q] \in Seq(Messages) /\ msg_queue[q] # << >>
             /\ msg_queue' = [msg_queue EXCEPT ![q] = Tail(@)]
    <3>1. Tail(msg_queue[q]) \in Seq(Messages)
      BY <2>2
    <3> QED
      BY <2>2, <3>1 DEF Typing
  <2> QED
    BY <2>1, <2>2, NextPortTakes
<1>2. /\ at' \in [Blocks -> Nat]
      /\ \A o \in Blocks : at'[o] \in 1..Len(PortsOf[o]) + 1
  BY PortAssumption DEF NextPort, Typing
<1> QED
  BY <1>1, <1>2 DEF NextPort, posts, history, Typing

LEMMA SetChangedKeepsTyping ==
  ASSUME Typing, NEW b \in Blocks, NEW c \in Conds, SetChanged(b, c)
  PROVE  Typing'
BY DEF SetChanged, RaiseAndNotify, NotifyOne, queues, posts, history, Typing, Places

LEMMA KeepTyping ==
  ASSUME BaseInv, [Next]_vars
  PROVE  Typing'
<1> USE DEF BaseInv
<1>1. ASSUME NEW p \in Posters, Poster(p) PROVE Typing'
  BY <1>1, PostKeepsTyping, InsertTailKeepsTyping DEF Poster, Threads
<1>2. ASSUME NEW b \in Blocks, Thread(b) \/ SpuriousWakeup(b) PROVE Typing'
  <2>1. CASE Dispatch(b) \/ InsertTail(b) \/ NextPort(b)
    BY <2>1, DispatchKeepsTyping, InsertTailKeepsTyping, NextPortKeepsTyping DEF Threads
  <2>2. CASE \/ Return(b) \/ Scanned(b) \/ RunOneIteration(b) \/ Wait(b)
             \/ SpuriousWakeup(b) \/ Woken(b)
    BY <2>2, ThreadMoves, MovesKeepTyping
  <2> QED
    BY <1>2, <2>1, <2>2 DEF Thread
<1>3. ASSUME NEW b \in Blocks, NEW c \in Conds, SetChanged(b, c) PROVE Typing'
  BY <1>3, SetChangedKeepsTyping
<1>4. CASE UNCHANGED vars
  BY <1>4 DEF vars, queues, threads, posts, history, Typing
<1> QED
  BY <1>1, <1>2, <1>3, <1>4 DEF Next

-----------------------------------------------------------------------------
(***************************************************************************)
(* The mutex of a block, from a push to the last notification.             *)
(***************************************************************************)
LEMMA InsertTailKeepsMutex ==
  ASSUME BaseInv, NEW t \in Threads, InsertTail(t)
  PROVE  MutexInv'
<1> USE DEF BaseInv, Typing
<1> DEFINE d == Target(t)
<1>1. posting[t] # << >> /\ d \in Blocks /\ cond' = cond
  BY InsertTailStages, HeadOfPosting
<1>2. t # Nobody
  BY PortAssumption
<1>3. ASSUME NEW c, NotifyOne(d, c)
      PROVE  /\ \A b \in Blocks : pc'[b] = pc[b] \/ (pc[b] = "asleep" /\ pc'[b] = "woken")
             /\ \A b \in Blocks : pc'[b] \in {"armed", "asleep", "woken"} => cond[b] \in Conds
  <2>1. pc' = pc \/ (pc[d] = "asleep" /\ pc' = [pc EXCEPT ![d] = "woken"])
    BY <1>3 DEF NotifyOne
  <2>2. \A b \in Blocks : pc'[b] = pc[b] \/ (pc[b] = "asleep" /\ pc'[b] = "woken")
    BY <1>1, <2>1
  <2> QED
    BY <2>2 DEF MutexInv
<1>4. t \in Blocks => pc[t] = "handler"
  BY <1>1 DEF MutexInv
<1>5. \A u \in Threads : posting'[u] = posting[u] => Target(u)' = Target(u)
  BY DEF Target
<1>6. CASE Pushes(t)
  <2>1. /\ mutex' = [mutex EXCEPT ![d] = t] /\ stage' = [stage EXCEPT ![t] = 2]
        /\ posting' = posting /\ pc' = pc /\ stage[t] = 1 /\ mutex[d] = Nobody
    BY <1>6 DEF Pushes
  <2>2. \A u \in Threads : stage'[u] > 1 => posting'[u] # << >> /\ mutex'[Target(u)'] = u
    <3> SUFFICES ASSUME NEW u \in Threads, stage'[u] > 1
                 PROVE  posting'[u] # << >> /\ mutex'[Target(u)'] = u
      OBVIOUS
    <3>1. CASE u = t
      BY <1>1, <1>5, <2>1, <3>1
    <3>2. CASE u # t
      <4>1. posting[u] # << >> /\ mutex[Target(u)] = u /\ Target(u) \in Blocks
        BY <2>1, <3>2, HeadOfPosting DEF MutexInv
      <4>2. u # Nobody
        BY PortAssumption
      <4> QED
        BY <1>5, <2>1, <4>1, <4>2
    <3> QED
      BY <3>1, <3>2
  <2>3. \A b \in Blocks, u \in Threads : mutex'[b] = u =>
          stage'[u] > 1 /\ posting'[u] # << >> /\ Target(u)' = b
    <3> SUFFICES ASSUME NEW b \in Blocks, NEW u \in Threads, mutex'[b] = u
                 PROVE  stage'[u] > 1 /\ posting'[u] # << >> /\ Target(u)' = b
      OBVIOUS
    <3>1. CASE b = d
      <4>1. u = t
        BY <1>1, <2>1, <3>1
      <4> QED
        BY <1>1, <1>5, <2>1, <3>1, <4>1
    <3>2. CASE b # d
      <4>1. mutex[b] = u
        BY <2>1, <3>2
      <4>2. stage[u] > 1 /\ posting[u] # << >> /\ Target(u) = b
        BY <4>1 DEF MutexInv
      <4>3. u # t
        BY <2>1, <4>2
      <4> QED
        BY <1>5, <2>1, <4>2, <4>3
    <3> QED
      BY <3>1, <3>2
  <2>4. /\ \A b \in Blocks : pc'[b] # "handler" => posting'[b] = << >>
        /\ \A b \in Blocks : pc'[b] \in {"armed", "asleep", "woken"} => cond'[b] \in Conds
    BY <1>1, <2>1 DEF MutexInv
  <2> QED
    BY <2>2, <2>3, <2>4 DEF MutexInv
<1>7. CASE NotifiesInput(t)
  <2>1. /\ mutex' = mutex /\ stage' = [stage EXCEPT ![t] = 3]
        /\ posting' = posting /\ stage[t] = 2 /\ NotifyOne(d, "input")
    BY <1>7 DEF NotifiesInput
  <2>2. \A u \in Threads : stage'[u] > 1 => posting'[u] # << >> /\ mutex'[Target(u)'] = u
    BY <1>5, <2>1 DEF MutexInv
  <2>3. \A b \in Blocks, u \in Threads : mutex'[b] = u =>
          stage'[u] > 1 /\ posting'[u] # << >> /\ Target(u)' = b
    BY <1>5, <2>1 DEF MutexInv
  <2>4. \A b \in Blocks : pc'[b] # "handler" => posting'[b] = << >>
    BY <1>3, <2>1 DEF MutexInv
  <2>5. \A b \in Blocks : pc'[b] \in {"armed", "asleep", "woken"} => cond'[b] \in Conds
    BY <1>1, <1>3, <2>1
  <2> QED
    BY <2>2, <2>3, <2>4, <2>5 DEF MutexInv
<1>8. CASE NotifiesOutput(t)
  <2>1. /\ mutex' = [mutex EXCEPT ![d] = Nobody] /\ stage' = [stage EXCEPT ![t] = 1]
        /\ posting' = [posting EXCEPT ![t] = Tail(@)]
        /\ mutex[d] = t /\ NotifyOne(d, "output")
    BY <1>8 DEF NotifiesOutput
  <2>2. ASSUME NEW u \in Threads, stage'[u] > 1
        PROVE  posting'[u] # << >> /\ mutex'[Target(u)'] = u
    <3>1. u # t /\ posting'[u] = posting[u] /\ stage[u] > 1
      BY <2>1, <2>2
    <3>2. posting[u] # << >> /\ mutex[Target(u)] = u /\ Target(u) \in Blocks
      BY <3>1, HeadOfPosting DEF MutexInv
    <3>3. Target(u) # d
      BY <2>1, <3>1, <3>2
    <3> QED
      BY <1>5, <2>1, <3>1, <3>2, <3>3
  <2>3. ASSUME NEW b \in Blocks, NEW u \in Threads, mutex'[b] = u
        PROVE  stage'[u] > 1 /\ posting'[u] # << >> /\ Target(u)' = b
    <3>1. u # Nobody
      BY PortAssumption
    <3>2. b # d /\ mutex[b] = u
      BY <1>1, <2>1, <2>3, <3>1
    <3>3. stage[u] > 1 /\ posting[u] # << >> /\ Target(u) = b
      BY <3>2 DEF MutexInv
    <3>4. u # t
      BY <3>2, <3>3
    <3> QED
      BY <1>5, <2>1, <3>3, <3>4
  <2>4. \A b \in Blocks : pc'[b] # "handler" => posting'[b] = << >>
    BY <1>3, <1>4, <2>1 DEF MutexInv
  <2>5. \A b \in Blocks : pc'[b] \in {"armed", "asleep", "woken"} => cond'[b] \in Conds
    BY <1>1, <1>3, <2>1
  <2> QED
    BY <2>2, <2>3, <2>4, <2>5 DEF MutexInv
<1> QED
  BY <1>6, <1>7, <1>8, InsertTailStages

LEMMA KeepMutexInv ==
  ASSUME BaseInv, [Next]_vars
  PROVE  MutexInv'
<1> USE DEF BaseInv, Typing
<1>1. ASSUME NEW p \in Posters, Post(p) PROVE MutexInv'
  <2>1. p \in Threads /\ p \notin Blocks /\ \A b \in Blocks : b \in Threads
    BY PortAssumption DEF Threads
  <2>2. ~(stage[p] > 1)
    BY <1>1, <2>1 DEF Post, MutexInv
  <2>3. \A u \in Threads \ {p} : posting'[u] = posting[u] /\ Target(u)' = Target(u)
    BY <1>1 DEF Post, Target
  <2>4. UNCHANGED <<mutex, stage, pc, cond>>
    BY <1>1 DEF Post, queues, threads
  <2> QED
    BY <2>1, <2>2, <2>3, <2>4, SMTT(60) DEF MutexInv
<1>2. ASSUME NEW t \in Threads, InsertTail(t) PROVE MutexInv'
  BY <1>2, InsertTailKeepsMutex
<1>3. ASSUME NEW b \in Blocks, NEW where \in Places, NEW c \in Conds \cup {"none"},
             Moves(b, where, c)
      PROVE  MutexInv'
  <2>1. UNCHANGED <<mutex, posting, stage>>
    BY <1>3 DEF Moves, queues, posts
  <2>2. \A o \in Blocks : pc'[o] # "handler" => posting'[o] = << >>
    BY <1>3, <2>1 DEF Moves, MutexInv
  <2>3. \A o \in Blocks : pc'[o] \in {"armed", "asleep", "woken"} => cond'[o] \in Conds
    <3>1. \A o \in Blocks \ {b} : pc'[o] = pc[o] /\ cond'[o] = cond[o]
      BY <1>3 DEF Moves
    <3>2. pc'[b] \in {"armed", "asleep", "woken"} => cond'[b] \in Conds
      BY <1>3 DEF Moves, MutexInv
    <3> QED
      BY <3>1, <3>2 DEF MutexInv
  <2> QED
    BY <2>1, <2>2, <2>3 DEF MutexInv, Target
<1>4. ASSUME NEW b \in Blocks, Dispatch(b) PROVE MutexInv'
  <2>1. /\ posting' = [posting EXCEPT ![b] = Published(PortsOf[b][at[b]],
                                               Head(msg_queue[PortsOf[b][at[b]]]))]
        /\ pc' = [pc EXCEPT ![b] = "handler"] /\ pc[b] = "scan"
        /\ UNCHANGED <<mutex, stage, cond>>
    BY <1>4 DEF Dispatch, Take
  <2>2. b \in Threads /\ ~(stage[b] > 1)
    BY <2>1 DEF MutexInv, Threads
  <2>3. \A u \in Threads \ {b} : posting'[u] = posting[u]
    BY <2>1
  <2>4. \A u \in Threads \ {b} : Target(u)' = Target(u)
    BY <2>3 DEF Target
  <2>5. \A o \in Blocks : mutex[o] # b
    BY <2>2, PortAssumption DEF MutexInv
  <2> QED
    BY <2>1, <2>2, <2>3, <2>4, <2>5 DEF MutexInv
<1>5. ASSUME NEW b \in Blocks, NextPort(b) PROVE MutexInv'
  BY <1>5 DEF NextPort, posts, MutexInv, Target
<1>6. ASSUME NEW b \in Blocks, NEW c \in Conds, SetChanged(b, c) PROVE MutexInv'
  <2>1. NotifyOne(b, c) /\ UNCHANGED <<mutex, posting, stage, cond>>
    BY <1>6 DEF SetChanged, RaiseAndNotify, queues, posts
  <2>2. pc' = pc \/ (pc[b] = "asleep" /\ pc' = [pc EXCEPT ![b] = "woken"])
    BY <2>1 DEF NotifyOne
  <2> QED
    BY <2>1, <2>2 DEF MutexInv, Target
<1>7. CASE UNCHANGED vars
  BY <1>7 DEF vars, queues, threads, posts, MutexInv, Target
<1>8. ASSUME NEW b \in Blocks, Thread(b) \/ SpuriousWakeup(b) PROVE MutexInv'
  BY <1>2, <1>3, <1>4, <1>5, <1>8, ThreadMoves DEF Thread, Threads
<1> QED
  BY <1>1, <1>2, <1>6, <1>7, <1>8 DEF Next, Poster, Threads

-----------------------------------------------------------------------------
(***************************************************************************)
(* Wakeups.                                                                *)
(***************************************************************************)
LEMMA InitWakeInv == Init => WakeInv
BY DEF Init, WakeInv, LostOnlyInWindow

(* What happens at a port that is another block's, or has no handler.      *)
LEMMA EmptyElsewhere ==
  ASSUME Typing, NEW b \in Blocks, NEW q \in Ports, NEW x,
         msg_queue' = [msg_queue EXCEPT ![q] = x],
         Owner(q) # b \/ q \notin Handled
  PROVE  EmptyHandled(b)' = EmptyHandled(b)
<1>1. \A i \in DOMAIN PortsOf[b] :
        PortsOf[b][i] \in Handled => PortsOf[b][i] # q
  BY PortOfBlock
<1>2. \A i \in DOMAIN PortsOf[b] : PortsOf[b][i] \in Handled =>
        msg_queue'[PortsOf[b][i]] = msg_queue[PortsOf[b][i]]
  BY <1>1, PortOfBlock DEF Typing
<1> QED
  BY <1>2 DEF EmptyHandled

(* A poster about to notify, seen from another step.                       *)
LEMMA StillAboutToNotify ==
  ASSUME BaseInv, NEW b \in Blocks, NEW t \in Threads, NEW u \in Threads,
         InsertTail(t), u # t, AboutToNotify(u, b)
  PROVE  AboutToNotify(u, b)'
<1> USE DEF BaseInv, Typing
<1>1. mutex[b] = u /\ cond' = cond
  BY InsertTailStages DEF AboutToNotify
<1>2. /\ mutex'[b] = mutex[b] /\ stage'[u] = stage[u]
  <2>1. u # Nobody
    BY PortAssumption
  <2>2. Pushes(t) \/ NotifiesInput(t) \/ NotifiesOutput(t)
    BY InsertTailStages
  <2>3. stage'[u] = stage[u]
    BY <2>2 DEF Pushes, NotifiesInput, NotifiesOutput
  <2>4. Target(t) # b
    BY <1>1, <2>1, <2>2 DEF Pushes, NotifiesInput, NotifiesOutput
  <2>5. mutex'[b] = mutex[b]
    BY <2>2, <2>4 DEF Pushes, NotifiesInput, NotifiesOutput
  <2> QED
    BY <2>3, <2>5
<1> QED
  BY <1>1, <1>2 DEF AboutToNotify

LEMMA InsertTailKeepsWake ==
  ASSUME BaseInv, WakeInv, NEW t \in Threads, InsertTail(t)
  PROVE  WakeInv'
<1> USE DEF BaseInv, Typing
<1> DEFINE d == Target(t)
           q == posting[t][1][1]
<1>1. posting[t] # << >> /\ d \in Blocks /\ q \in Ports /\ Owner(q) = d /\ cond' = cond
  BY InsertTailStages, HeadOfPosting DEF Target
<1>2. Stages[1] = "push" /\ Stages[2] = "input" /\ Stages[3] = "output" /\ Len(Stages) = 3
  BY DEF Stages
<1>3. CASE Pushes(t)
  <2>1. /\ mutex' = [mutex EXCEPT ![d] = t] /\ stage' = [stage EXCEPT ![t] = 2] /\ pc' = pc
        /\ mutex[d] = Nobody
        /\ missed' = [missed EXCEPT ![d] = @ \/ (pc[d] = "armed" /\ q \in Handled)]
        /\ \E x : msg_queue' = [msg_queue EXCEPT ![q] = x]
    BY <1>1, <1>3 DEF Pushes, Push
  <2>2. ASSUME NEW b \in Blocks, b # d \/ q \notin Handled
        PROVE  EmptyHandled(b)' = EmptyHandled(b)
    BY <1>1, <2>1, <2>2, EmptyElsewhere
  <2>3. \A b \in Blocks : missed[b] => missed'[b]
    BY <2>1
  <2>4. ASSUME NEW b \in Blocks, pc'[b] = "armed", ~EmptyHandled(b)'
        PROVE  missed'[b]
    <3>1. CASE b = d /\ q \in Handled
      BY <2>1, <2>4, <3>1
    <3>2. CASE b # d \/ q \notin Handled
      BY <2>1, <2>2, <2>3, <2>4, <3>2 DEF WakeInv
    <3> QED
      BY <3>1, <3>2
  <2>5. ASSUME NEW b \in Blocks, pc'[b] = "asleep", ~EmptyHandled(b)'
        PROVE  missed'[b] \/ \E u \in Threads : AboutToNotify(u, b)'
    <3>1. cond[b] \in Conds
      BY <2>1, <2>5 DEF MutexInv
    <3>2. CASE b = d
      <4>1. mutex'[b] = t /\ stage'[t] = 2
        BY <2>1, <3>2
      <4>2. \E i \in 2..3 : Stages[i] = cond[b]
        BY <1>2, <3>1 DEF Conds
      <4> QED
        BY <1>1, <1>2, <4>1, <4>2 DEF AboutToNotify
    <3>3. CASE b # d
      <4>1. missed[b] \/ \E u \in Threads : AboutToNotify(u, b)
        BY <2>1, <2>2, <2>5, <3>3 DEF WakeInv, LostOnlyInWindow
      <4>2. ~AboutToNotify(t, b)
        BY <1>3, <3>3 DEF AboutToNotify, MutexInv, Pushes
      <4> QED
        BY <2>3, <4>1, <4>2, StillAboutToNotify
    <3> QED
      BY <3>2, <3>3
  <2> QED
    BY <2>4, <2>5 DEF WakeInv, LostOnlyInWindow
<1>4. ASSUME NEW c \in Conds, NotifyOne(d, c), UNCHANGED <<msg_queue, missed>>,
             \A b \in Blocks : AboutToNotify(t, b) =>
               AboutToNotify(t, b)' \/ (b = d /\ cond[b] = c)
      PROVE  WakeInv'
  <2>1. \A b \in Blocks : EmptyHandled(b)' = EmptyHandled(b)
    BY <1>4 DEF EmptyHandled
  <2>2. ASSUME NEW b \in Blocks
        PROVE  /\ pc'[b] \in {"armed", "asleep"} => pc'[b] = pc[b]
               /\ b = d /\ cond[b] = c => pc'[b] # "asleep"
    BY <1>1, <1>4, NotifyWakes
  <2>3. ASSUME NEW b \in Blocks, pc'[b] = "asleep", ~EmptyHandled(b)'
        PROVE  missed'[b] \/ \E u \in Threads : AboutToNotify(u, b)'
    <3>1. missed[b] \/ \E u \in Threads : AboutToNotify(u, b)
      BY <2>1, <2>2, <2>3 DEF WakeInv, LostOnlyInWindow
    <3>2. ~(b = d /\ cond[b] = c)
      BY <2>2, <2>3
    <3> QED
      BY <1>4, <3>1, <3>2, StillAboutToNotify
  <2> QED
    BY <1>4, <2>1, <2>2, <2>3 DEF WakeInv, LostOnlyInWindow
<1>5. CASE NotifiesInput(t)
  <2>1. /\ NotifyOne(d, "input") /\ UNCHANGED <<msg_queue, missed, mutex>>
        /\ stage[t] = 2 /\ stage' = [stage EXCEPT ![t] = 3]
    BY <1>5 DEF NotifiesInput
  <2>2. ASSUME NEW b \in Blocks, AboutToNotify(t, b)
        PROVE  AboutToNotify(t, b)' \/ (b = d /\ cond[b] = "input")
    <3>1. mutex[b] = t /\ b = d
      BY <2>2 DEF AboutToNotify, MutexInv
    <3>2. PICK i \in 2..3 : Stages[i] = cond[b]
      BY <1>2, <2>1, <2>2 DEF AboutToNotify
    <3>3. i = 2 \/ i = 3
      BY <3>2
    <3>4. CASE i = 3
      BY <1>1, <1>2, <2>1, <3>1, <3>2, <3>4 DEF AboutToNotify
    <3> QED
      BY <1>2, <3>1, <3>2, <3>3, <3>4
  <2> QED
    BY <1>4, <2>1, <2>2 DEF Conds
<1>6. CASE NotifiesOutput(t)
  <2>1. /\ NotifyOne(d, "output") /\ UNCHANGED <<msg_queue, missed>> /\ stage[t] = 3
    BY <1>6 DEF NotifiesOutput
  <2>2. ASSUME NEW b \in Blocks, AboutToNotify(t, b)
        PROVE  b = d /\ cond[b] = "output"
    <3>1. b = d
      BY <2>2 DEF AboutToNotify, MutexInv
    <3>2. \E i \in 3..3 : Stages[i] = cond[b]
      BY <1>2, <2>1, <2>2 DEF AboutToNotify
    <3> QED
      BY <1>2, <3>1, <3>2
  <2> QED
    BY <1>4, <2>1, <2>2 DEF Conds
<1> QED
  BY <1>3, <1>5, <1>6, InsertTailStages

LEMMA KeepWakeInv ==
  ASSUME BaseInv, WakeInv, [Next]_vars
  PROVE  WakeInv'
<1> USE DEF BaseInv, Typing
<1>1. ASSUME NEW b \in Blocks, UNCHANGED <<mutex, stage, missed, cond>>,
             \A o \in Blocks : pc'[o] \in {"armed", "asleep"} =>
               pc'[o] = pc[o] /\ EmptyHandled(o)' = EmptyHandled(o)
      PROVE  WakeInv'
  <2>1. \A o \in Blocks, u \in Threads : AboutToNotify(u, o)' = AboutToNotify(u, o)
    BY <1>1 DEF AboutToNotify
  <2> QED
    BY <1>1, <2>1 DEF WakeInv, LostOnlyInWindow
<1>2. ASSUME NEW p \in Posters, Post(p) PROVE WakeInv'
  BY <1>2 DEF Post, queues, threads, history, WakeInv, LostOnlyInWindow, AboutToNotify,
     EmptyHandled
<1>3. ASSUME NEW t \in Threads, InsertTail(t) PROVE WakeInv'
  BY <1>3, InsertTailKeepsWake
<1>4. ASSUME NEW b \in Blocks, NEW where \in Places, NEW c \in Conds \cup {"none"},
             Moves(b, where, c)
      PROVE  WakeInv'
  <2>1. /\ UNCHANGED <<msg_queue, mutex, stage>>
        /\ \A o \in Blocks \ {b} : pc'[o] = pc[o] /\ cond'[o] = cond[o] /\ missed'[o] = missed[o]
        /\ pc'[b] = where /\ cond'[b] = c
    BY <1>4 DEF Moves, queues, posts
  <2>2. \A o \in Blocks : EmptyHandled(o)' = EmptyHandled(o)
    BY <2>1 DEF EmptyHandled
  <2>3. ASSUME NEW o \in Blocks, o # b, NEW u \in Threads, AboutToNotify(u, o)
        PROVE  AboutToNotify(u, o)'
    BY <2>1, <2>3 DEF AboutToNotify
  <2>4. pc'[b] = "armed" => EmptyHandled(b)'
    BY <1>4, <2>1, <2>2 DEF Moves
  <2>5. pc'[b] = "asleep" /\ ~EmptyHandled(b)' => missed'[b]
    BY <1>4, <2>1, <2>2 DEF Moves, WakeInv
  <2> QED
    BY <2>1, <2>2, <2>3, <2>4, <2>5 DEF WakeInv, LostOnlyInWindow
<1>5. ASSUME NEW b \in Blocks, Dispatch(b) PROVE WakeInv'
  <2> DEFINE q == PortsOf[b][at[b]]
  <2>1. q \in Ports /\ Owner(q) = b
    BY <1>5, PortAt DEF Dispatch
  <2>2. /\ msg_queue' = [msg_queue EXCEPT ![q] = Tail(@)]
        /\ pc' = [pc EXCEPT ![b] = "handler"]
        /\ UNCHANGED <<mutex, stage, missed, cond>>
    BY <1>5 DEF Dispatch, Take
  <2>3. \A o \in Blocks \ {b} : EmptyHandled(o)' = EmptyHandled(o)
    <3> HIDE DEF q
    <3> QED
      BY <2>1, <2>2, EmptyElsewhere
  <2> QED
    BY <1>1, <2>2, <2>3
<1>6. ASSUME NEW b \in Blocks, NextPort(b) PROVE WakeInv'
  <2> DEFINE q == PortsOf[b][at[b]]
  <2>1. /\ q \in Ports
        /\ \/ msg_queue' = msg_queue
           \/ q \notin Handled /\ msg_queue' = [msg_queue EXCEPT ![q] = Tail(@)]
    BY <1>6, NextPortTakes
  <2>2. \A o \in Blocks : EmptyHandled(o)' = EmptyHandled(o)
    <3> HIDE DEF q
    <3>1. CASE msg_queue' = msg_queue
      BY <3>1 DEF EmptyHandled
    <3> QED
      BY <2>1, <3>1, EmptyElsewhere
  <2>3. UNCHANGED <<mutex, stage, missed, cond, pc>>
    BY <1>6 DEF NextPort, posts, history
  <2> QED
    BY <1>1, <2>2, <2>3
<1>7. ASSUME NEW b \in Blocks, NEW c \in Conds, SetChanged(b, c) PROVE WakeInv'
  <2>1. /\ NotifyOne(b, c)
        /\ UNCHANGED <<msg_queue, mutex, stage, missed, cond>>
    BY <1>7 DEF SetChanged, RaiseAndNotify, queues, posts, history
  <2>2. \A o \in Blocks : pc'[o] \in {"armed", "asleep"} => pc'[o] = pc[o]
    BY <2>1, NotifyWakes
  <2>3. \A o \in Blocks : EmptyHandled(o)' = EmptyHandled(o)
    BY <2>1 DEF EmptyHandled
  <2> QED
    BY <1>1, <2>1, <2>2, <2>3
<1>8. CASE UNCHANGED vars
  BY <1>8 DEF vars, queues, threads, posts, history, WakeInv, LostOnlyInWindow, AboutToNotify,
     EmptyHandled
<1>9. ASSUME NEW b \in Blocks, Thread(b) \/ SpuriousWakeup(b) PROVE WakeInv'
  BY <1>3, <1>4, <1>5, <1>6, <1>9, ThreadMoves DEF Thread, Threads
<1> QED
  BY <1>2, <1>3, <1>7, <1>8, <1>9 DEF Next, Poster, Threads

(***************************************************************************)
(* A thread that sleeps with messages for its handlers has a poster about  *)
(* to notify it, or a push fell between its test of the queues and its     *)
(* wait: for any number of threads, insert_tail's order of push and        *)
(* notification leaves no other way to lose a wakeup.                      *)
(***************************************************************************)
THEOREM WakeupsLostOnlyInWindow == Spec => []LostOnlyInWindow
<1>1. Init => BaseInv /\ WakeInv
  BY InitBaseInv, InitWakeInv
<1>2. BaseInv /\ WakeInv /\ [Next]_vars => BaseInv' /\ WakeInv'
  BY KeepTyping, KeepMutexInv, KeepWakeInv DEF BaseInv
<1>3. BaseInv /\ WakeInv => LostOnlyInWindow
  BY DEF WakeInv
<1> QED
  BY <1>1, <1>2, <1>3, PTL DEF Spec

-----------------------------------------------------------------------------
(***************************************************************************)
(* Order, where the messages of a poster have one route to each port.      *)
(***************************************************************************)
LEMMA MessageParts ==
  ASSUME NEW m \in Messages
  PROVE  m[1] \in Posters /\ m[2] \in Nat /\ m[2] > 0
BY DEF Messages, MostPosts

(* The ports a poster's messages reach are closed under what feeds what.   *)
LEMMA ReachedIsClosed ==
  ASSUME NEW p \in Posters
  PROVE  /\ Entries(p) \subseteq Reached(p)
         /\ \A f \in Reached(p), q \in Ports : Feeds(f, q) => q \in Reached(p)
<1>1. Entries(p) \subseteq Ports
  BY PortAssumption DEF Entries
<1> QED
  BY <1>1 DEF Reached, ClosedFor

(* What is pending goes to a port; its poster is a poster.                 *)
LEMMA PendingParts ==
  ASSUME Typing, NEW t \in Threads, NEW i \in DOMAIN posting[t]
  PROVE  /\ posting[t][i][1] \in Ports /\ posting[t][i][2] \in Messages
         /\ posting[t][i][2][1] \in Posters /\ posting[t][i][2][2] \in Nat
<1>1. posting[t] \in Seq(Ports \X Messages)
  BY DEF Typing
<1>2. posting[t][i] \in Ports \X Messages
  BY <1>1
<1> QED
  BY <1>2, MessageParts

(* A poster's messages come to a port from one thread.                     *)
LEMMA OneSender ==
  ASSUME OneRoute, Typing, OnRoute,
         NEW t \in Threads, NEW u \in Threads,
         NEW i \in DOMAIN posting[t], NEW j \in DOMAIN posting[u],
         posting[t][i][1] = posting[u][j][1], posting[t][i][2][1] = posting[u][j][2][1]
  PROVE  t = u
<1> DEFINE q == posting[t][i][1]
           p == posting[t][i][2][1]
<1>1. q \in Ports /\ p \in Posters
  BY PendingParts
<1>2. /\ t \in Posters => t = p /\ q \in Entries(p)
      /\ t \in Blocks => \E f \in Reached(p) : Feeds(f, q) /\ Owner(f) = t
      /\ u \in Posters => u = p /\ q \in Entries(p)
      /\ u \in Blocks => \E f \in Reached(p) : Feeds(f, q) /\ Owner(f) = u
  BY DEF OnRoute
<1> HIDE DEF q, p
<1>3. t \in Blocks \cup Posters /\ u \in Blocks \cup Posters
  BY DEF Threads
<1> QED
  BY <1>1, <1>2, <1>3 DEF OneRoute

LEMMA InitOrderInv == Init => OrderInv
<1> SUFFICES ASSUME Init PROVE OrderInv
  OBVIOUS
<1>1. OnRoute
  BY DEF Init, OnRoute
<1>2. QueuesSorted
  BY DEF Init, QueuesSorted
<1>3. NextIsLater
  BY DEF Init, NextIsLater, Unpushed
<1> QED
  BY <1>1, <1>2, <1>3 DEF OrderInv

(* Steps that move no message.                                             *)
LEMMA KeepOrderElsewhere ==
  ASSUME OrderInv, UNCHANGED <<msg_queue, posting, posted, arrived, handled>>,
         \A t \in Threads : stage'[t] = 1 => stage[t] = 1
  PROVE  OrderInv'
<1>1. \A t \in Threads : Unpushed(t)' \subseteq Unpushed(t)
  BY DEF Unpushed
<1>2. OnRoute'
  BY DEF OrderInv, OnRoute
<1>3. QueuesSorted'
  BY DEF OrderInv, QueuesSorted
<1>4. NextIsLater'
  BY <1>1 DEF OrderInv, NextIsLater
<1> QED
  BY <1>2, <1>3, <1>4 DEF OrderInv

LEMMA PostKeepsOrder ==
  ASSUME BaseInv, OrderInv, NEW p \in Posters, Post(p)
  PROVE  OrderInv'
<1> USE DEF BaseInv
<1> DEFINE n == posted[p] + 1
<1>1. n \in 1..Len(Plan[p]) /\ posted[p] \in Nat
  <2>1. posted[p] \in 0..MostPosts /\ Len(Plan[p]) \in Nat
    BY PortAssumption DEF Typing
  <2> QED
    BY <2>1 DEF Post, MostPosts
<1>2. PICK q \in Plan[p][n] : posting' = [posting EXCEPT ![p] = << <<q, <<p, n>>>> >>]
  BY DEF Post
<1>3. q \in Entries(p) /\ q \in Ports
  BY <1>1, PortAssumption DEF Entries
<1>4. /\ posted' = [posted EXCEPT ![p] = n]
      /\ UNCHANGED <<msg_queue, stage, arrived, handled>>
  BY DEF Post, queues, history
<1>5. p \in Threads /\ p \notin Blocks /\ posted \in [Posters -> 0..MostPosts]
  BY PortAssumption DEF Threads, Typing
<1>6. \A r \in Posters : posted[r] \in Nat /\ posted'[r] \in Nat /\ posted[r] <= posted'[r]
  BY <1>1, <1>4, <1>5 DEF MostPosts
<1>7. posting'[p] = << <<q, <<p, n>>>> >> /\ \A t \in Threads \ {p} : posting'[t] = posting[t]
  BY <1>2, <1>5 DEF Typing
<1>8. \A k \in Ports : \A m \in arrived[k] : m \in Messages /\ m[1] \in Posters /\ m[2] \in Nat
  BY MessageParts DEF Typing
<1> HIDE DEF n
<1>9. OnRoute'
  <2>1. \A k \in Ports : \A m \in arrived'[k] :
          k \in Reached(m[1]) /\ m[2] <= posted'[m[1]]
    BY <1>4, <1>6, <1>8 DEF OrderInv, OnRoute
  <2>2. ASSUME NEW t \in Threads, t # p, NEW i \in DOMAIN posting'[t]
        PROVE  LET k == posting'[t][i][1]
                   m == posting'[t][i][2]
               IN /\ m[2] <= posted'[m[1]]
                  /\ k \in Reached(m[1])
                  /\ t \in Posters => t = m[1] /\ k \in Entries(t)
                  /\ t \in Blocks => \E f \in Reached(m[1]) :
                                       Feeds(f, k) /\ Owner(f) = t /\ m \in handled'[f]
    <3> DEFINE k == posting[t][i][1]
               m == posting[t][i][2]
    <3>1. i \in DOMAIN posting[t] /\ posting'[t] = posting[t] /\ handled' = handled
      BY <1>4, <1>7, <2>2
    <3>2. m[1] \in Posters /\ m[2] \in Nat
      BY <3>1, PendingParts
    <3>3. /\ m[2] <= posted[m[1]]
          /\ k \in Reached(m[1])
          /\ t \in Posters => t = m[1] /\ k \in Entries(t)
          /\ t \in Blocks => \E f \in Reached(m[1]) :
                               Feeds(f, k) /\ Owner(f) = t /\ m \in handled[f]
      BY <3>1 DEF OrderInv, OnRoute
    <3>4. m[2] <= posted'[m[1]]
      BY <1>6, <3>2, <3>3
    <3> QED
      BY <3>1, <3>3, <3>4
  <2>3. ASSUME NEW i \in DOMAIN posting'[p]
        PROVE  LET k == posting'[p][i][1]
                   m == posting'[p][i][2]
               IN /\ m[2] <= posted'[m[1]]
                  /\ k \in Reached(m[1])
                  /\ p \in Posters => p = m[1] /\ k \in Entries(p)
                  /\ p \in Blocks => \E f \in Reached(m[1]) :
                                       Feeds(f, k) /\ Owner(f) = p /\ m \in handled'[f]
    <3>1. i = 1
      BY <1>7
    <3>2. posting'[p][i][1] = q /\ posting'[p][i][2] = <<p, n>>
      BY <1>7, <3>1
    <3>3. posted'[p] = n /\ n <= n
      BY <1>1, <1>4, <1>5
    <3> QED
      BY <1>3, <1>5, <3>2, <3>3, ReachedIsClosed
  <2> QED
    BY <2>1, <2>2, <2>3 DEF OnRoute
<1>10. QueuesSorted'
  BY <1>4 DEF OrderInv, QueuesSorted
<1>11. NextIsLater'
  <2>1. \A t \in Threads \ {p} : Unpushed(t)' = Unpushed(t)
    BY <1>4, <1>7 DEF Unpushed
  <2>2. ASSUME NEW t \in Threads, NEW i \in Unpushed(t)',
               NEW k \in arrived'[posting'[t][i][1]], k[1] = posting'[t][i][2][1]
        PROVE  k[2] < posting'[t][i][2][2]
    <3>1. CASE t = p
      <4>1. i = 1
        BY <1>7, <2>2, <3>1 DEF Unpushed
      <4>2. posting'[t][i][1] = q /\ posting'[t][i][2] = <<p, n>>
        BY <1>7, <3>1, <4>1
      <4>3. k \in arrived[q] /\ k[1] = p
        BY <1>4, <2>2, <4>2
      <4>4. k[2] <= posted[p] /\ k[2] \in Nat
        BY <1>3, <1>8, <4>3 DEF OrderInv, OnRoute
      <4> QED
        BY <1>1, <4>2, <4>4 DEF n
    <3>2. CASE t # p
      BY <1>4, <1>7, <2>1, <2>2, <3>2 DEF OrderInv, NextIsLater
    <3> QED
      BY <3>1, <3>2
  <2>3. ASSUME NEW t \in Threads, NEW i \in DOMAIN posting'[t], NEW j \in DOMAIN posting'[t],
               posting'[t][i][1] = posting'[t][j][1]
        PROVE  i = j
    <3>1. CASE t = p
      BY <1>7, <2>3, <3>1
    <3>2. CASE t # p
      BY <1>7, <2>3, <3>2 DEF OrderInv, NextIsLater
    <3> QED
      BY <3>1, <3>2
  <2>4. \A f, k \in Ports : \A m \in arrived'[k] :
          Feeds(f, k) /\ f \in Reached(m[1]) => m \in handled'[f]
    BY <1>4 DEF OrderInv, NextIsLater
  <2> QED
    BY <2>2, <2>3, <2>4 DEF NextIsLater
<1> QED
  BY <1>9, <1>10, <1>11 DEF OrderInv

LEMMA PushKeepsOrder ==
  ASSUME OneRoute, BaseInv, OrderInv, NEW t \in Threads, posting[t] # << >>, Pushes(t),
         UNCHANGED <<posted, handled>>
  PROVE  OrderInv'
<1> USE DEF BaseInv
<1> DEFINE q == posting[t][1][1]
           m == posting[t][1][2]
<1>1. 1 \in DOMAIN posting[t] /\ q \in Ports /\ m \in Messages
  BY HeadOfPosting
<1>2. 1 \in Unpushed(t)
  BY <1>1 DEF Pushes, Unpushed
<1>3. stage[t] = 1 /\ stage' = [stage EXCEPT ![t] = 2] /\ posting' = posting
  BY DEF Pushes
<1>4. /\ msg_queue' = [msg_queue EXCEPT ![q] = Append(msg_queue[q], m)]
      /\ arrived' = [arrived EXCEPT ![q] = @ \cup {m}]
  BY DEF Pushes, Push, PushBack
<1>5. m[1] \in Posters /\ m[2] \in Nat
  BY <1>1, MessageParts
<1>6. /\ q \in Reached(m[1]) /\ m[2] <= posted[m[1]]
      /\ t \in Posters => q \in Entries(m[1])
      /\ t \in Blocks => \E f \in Reached(m[1]) : Feeds(f, q) /\ m \in handled[f]
  BY <1>1 DEF OrderInv, OnRoute
<1>7. \A k \in arrived[q] : k[1] = m[1] => k[2] < m[2]
  BY <1>2 DEF OrderInv, NextIsLater
<1>8. \A i, j \in DOMAIN posting[t] : posting[t][i][1] = posting[t][j][1] => i = j
  BY DEF OrderInv, NextIsLater
<1>9. \A u \in Threads : \A i \in DOMAIN posting[u] :
        posting[u][i][1] = q /\ posting[u][i][2][1] = m[1] => u = t
  BY <1>1, OneSender DEF OrderInv
<1> HIDE DEF q, m
<1>10. /\ \A k \in Ports \ {q} : msg_queue'[k] = msg_queue[k] /\ arrived'[k] = arrived[k]
       /\ msg_queue'[q] = Append(msg_queue[q], m) /\ arrived'[q] = arrived[q] \cup {m}
       /\ msg_queue[q] \in Seq(Messages)
  BY <1>1, <1>4 DEF Typing
<1>11. OnRoute'
  <2>1. \A k \in Ports : \A o \in arrived'[k] : k \in Reached(o[1]) /\ o[2] <= posted'[o[1]]
    BY <1>6, <1>10 DEF OrderInv, OnRoute
  <2> QED
    BY <1>3, <2>1 DEF OrderInv, OnRoute
<1>12. QueuesSorted'
  <2> DEFINE Good(k, s, a, h) ==
        /\ h \subseteq a
        /\ \A i \in DOMAIN s : s[i] \in a
        /\ k \in Handled => \A o \in a : o \in h \/ \E i \in DOMAIN s : s[i] = o
        /\ \A i, j \in DOMAIN s : i < j /\ s[i][1] = s[j][1] => s[i][2] < s[j][2]
        /\ \A o \in h, i \in DOMAIN s : o[1] = s[i][1] => o[2] < s[i][2]
  <2>1. \A k \in Ports : Good(k, msg_queue[k], arrived[k], handled[k])
    BY DEF OrderInv, QueuesSorted
  <2>2. ASSUME NEW k \in Ports, k # q
        PROVE  Good(k, msg_queue'[k], arrived'[k], handled'[k])
    BY <1>10, <2>1, <2>2
  <2>3. Good(q, msg_queue'[q], arrived'[q], handled'[q])
    <3> DEFINE s == msg_queue[q]
               r == msg_queue'[q]
    <3>1. Good(q, s, arrived[q], handled[q])
      BY <1>1, <2>1
    <3>2. /\ Len(s) \in Nat /\ DOMAIN s = 1..Len(s) /\ DOMAIN r = 1..Len(s) + 1
          /\ r[Len(s) + 1] = m /\ \A i \in DOMAIN s : r[i] = s[i]
      BY <1>1, <1>10
    <3>3. arrived'[q] = arrived[q] \cup {m} /\ handled'[q] = handled[q]
      BY <1>10
    <3>4. \A i \in DOMAIN r : i \in DOMAIN s \/ i = Len(s) + 1
      BY <3>2
    <3> HIDE DEF s, r
    <3>5. handled'[q] \subseteq arrived'[q] /\ \A i \in DOMAIN r : r[i] \in arrived'[q]
      BY <3>1, <3>2, <3>3, <3>4
    <3>6. q \in Handled =>
            \A o \in arrived'[q] : o \in handled'[q] \/ \E i \in DOMAIN r : r[i] = o
      <4>1. DOMAIN s \subseteq DOMAIN r /\ Len(s) + 1 \in DOMAIN r
        BY <3>2
      <4> QED
        BY <3>1, <3>2, <3>3, <4>1
    <3>7. \A i, j \in DOMAIN r : i < j /\ r[i][1] = r[j][1] => r[i][2] < r[j][2]
      <4> SUFFICES ASSUME NEW i \in DOMAIN r, NEW j \in DOMAIN r, i < j, r[i][1] = r[j][1]
                   PROVE  r[i][2] < r[j][2]
        OBVIOUS
      <4>1. i \in DOMAIN s
        BY <3>2
      <4>2. s[i] \in arrived[q] /\ r[i] = s[i]
        BY <3>1, <3>2, <4>1
      <4>3. CASE j \in DOMAIN s
        BY <3>1, <3>2, <4>1, <4>3
      <4>4. CASE j = Len(s) + 1
        BY <1>7, <3>2, <4>2, <4>4
      <4> QED
        BY <3>4, <4>3, <4>4
    <3>8. \A o \in handled'[q], i \in DOMAIN r : o[1] = r[i][1] => o[2] < r[i][2]
      BY <1>7, <3>1, <3>2, <3>3, <3>4
    <3> QED
      BY <3>5, <3>6, <3>7, <3>8 DEF r
  <2> HIDE DEF Good
  <2>4. \A k \in Ports : Good(k, msg_queue'[k], arrived'[k], handled'[k])
    BY <2>2, <2>3
  <2> QED
    BY <2>4 DEF Good, QueuesSorted
<1>13. NextIsLater'
  <2>1. \A u \in Threads : Unpushed(u)' \subseteq Unpushed(u) /\ 1 \notin Unpushed(t)'
    BY <1>3 DEF Unpushed, Typing
  <2>2. ASSUME NEW u \in Threads, NEW i \in Unpushed(u)',
               NEW k \in arrived'[posting[u][i][1]], k[1] = posting[u][i][2][1]
        PROVE  k[2] < posting[u][i][2][2]
    <3>1. i \in Unpushed(u) /\ i \in DOMAIN posting[u]
      BY <2>1 DEF Unpushed
    <3>2. posting[u][i][1] \in Ports
      BY <3>1, PendingParts
    <3>3. CASE k \in arrived[posting[u][i][1]]
      BY <2>2, <3>1, <3>3 DEF OrderInv, NextIsLater
    <3>4. CASE k \notin arrived[posting[u][i][1]]
      <4>1. posting[u][i][1] = q /\ k = m
        BY <1>10, <2>2, <3>2, <3>4
      <4>2. u = t
        BY <1>9, <2>2, <3>1, <4>1
      <4>3. i = 1
        BY <1>1, <1>8, <3>1, <4>1, <4>2 DEF q
      <4> QED
        BY <2>1, <4>2, <4>3
    <3> QED
      BY <3>3, <3>4
  <2>3. ASSUME NEW f \in Ports, NEW k \in Ports, NEW o \in arrived'[k],
               Feeds(f, k), f \in Reached(o[1])
        PROVE  o \in handled[f]
    <3>1. CASE o \in arrived[k]
      BY <2>3, <3>1 DEF OrderInv, NextIsLater
    <3>2. CASE o \notin arrived[k]
      <4>1. k = q /\ o = m
        BY <1>10, <2>3, <3>2
      <4>2. t \notin Posters
        BY <1>1, <1>5, <1>6, <2>3, <4>1 DEF OneRoute
      <4>3. PICK g \in Reached(m[1]) : Feeds(g, q) /\ m \in handled[g]
        BY <1>6, <4>2 DEF Threads
      <4>4. f = g
        BY <1>1, <1>5, <2>3, <4>1, <4>3 DEF OneRoute
      <4> QED
        BY <4>1, <4>3, <4>4
    <3> QED
      BY <3>1, <3>2
  <2>4. \A u \in Threads : \A i, j \in DOMAIN posting[u] :
          posting[u][i][1] = posting[u][j][1] => i = j
    BY DEF OrderInv, NextIsLater
  <2> QED
    BY <1>3, <2>2, <2>3, <2>4 DEF NextIsLater
<1> QED
  BY <1>11, <1>12, <1>13 DEF OrderInv

(* The end of insert_tail: what was pushed leaves the thread's list.       *)
LEMMA ReturnKeepsOrder ==
  ASSUME BaseInv, OrderInv, NEW t \in Threads, posting[t] # << >>, NotifiesOutput(t),
         UNCHANGED <<posted, handled>>
  PROVE  OrderInv'
<1> USE DEF BaseInv
<1>1. /\ posting[t] \in Seq(Ports \X Messages) /\ posting[t] # << >>
      /\ posting' = [posting EXCEPT ![t] = Tail(posting[t])]
      /\ stage[t] = 3 /\ stage' = [stage EXCEPT ![t] = 1]
      /\ UNCHANGED <<msg_queue, arrived>>
  BY DEF NotifiesOutput, Typing
<1>2. /\ \A u \in Threads \ {t} : posting'[u] = posting[u] /\ Unpushed(u)' = Unpushed(u)
      /\ \A i \in DOMAIN posting'[t] : /\ i \in Nat /\ i + 1 \in Unpushed(t)
                                       /\ posting'[t][i] = posting[t][i + 1]
  <2>1. \A u \in Threads \ {t} : posting'[u] = posting[u] /\ Unpushed(u)' = Unpushed(u)
    BY <1>1 DEF Unpushed, Typing
  <2>2. posting'[t] = Tail(posting[t])
    BY <1>1 DEF Typing
  <2>3. ASSUME NEW i \in DOMAIN Tail(posting[t])
        PROVE  /\ i \in Nat /\ i + 1 \in DOMAIN posting[t] /\ i + 1 > 1
               /\ Tail(posting[t])[i] = posting[t][i + 1]
    BY <1>1
  <2> QED
    BY <2>1, <2>2, <2>3 DEF Unpushed
<1>3. \A u \in Threads : Unpushed(u) \subseteq DOMAIN posting[u] /\ Unpushed(u)' \subseteq DOMAIN posting'[u]
  BY DEF Unpushed
<1>4. \A u \in Threads : \A i \in DOMAIN posting'[u] :
        \E j \in DOMAIN posting[u] : posting'[u][i] = posting[u][j]
  BY <1>2, <1>3
<1>5. OnRoute'
  <2> DEFINE Routed(u, e) ==
        /\ e[2][2] <= posted[e[2][1]]
        /\ e[1] \in Reached(e[2][1])
        /\ u \in Posters => u = e[2][1] /\ e[1] \in Entries(u)
        /\ u \in Blocks => \E f \in Reached(e[2][1]) :
                             Feeds(f, e[1]) /\ Owner(f) = u /\ e[2] \in handled[f]
  <2>1. \A u \in Threads : \A i \in DOMAIN posting[u] : Routed(u, posting[u][i])
    BY DEF OrderInv, OnRoute
  <2> HIDE DEF Routed
  <2>2. \A u \in Threads : \A i \in DOMAIN posting'[u] : Routed(u, posting'[u][i])
    BY <1>4, <2>1
  <2>3. posted' = posted /\ handled' = handled /\ arrived' = arrived
    BY <1>1
  <2> QED
    BY <2>2, <2>3 DEF Routed, OrderInv, OnRoute
<1>6. QueuesSorted'
  BY <1>1 DEF OrderInv, QueuesSorted
<1>7. NextIsLater'
  <2>1. ASSUME NEW u \in Threads, NEW i \in Unpushed(u)'
        PROVE  \E j \in Unpushed(u) : posting'[u][i] = posting[u][j]
    BY <1>2, <1>3, <2>1
  <2>2. \A u \in Threads : \A i \in Unpushed(u)' :
          \A k \in arrived'[posting'[u][i][1]] :
            k[1] = posting'[u][i][2][1] => k[2] < posting'[u][i][2][2]
    <3> SUFFICES ASSUME NEW u \in Threads, NEW i \in Unpushed(u)'
                 PROVE  \A k \in arrived[posting'[u][i][1]] :
                          k[1] = posting'[u][i][2][1] => k[2] < posting'[u][i][2][2]
      BY <1>1
    <3>1. PICK j \in Unpushed(u) : posting'[u][i] = posting[u][j]
      BY <2>1
    <3> QED
      BY <3>1 DEF OrderInv, NextIsLater
  <2>3. ASSUME NEW u \in Threads, NEW i \in DOMAIN posting'[u], NEW j \in DOMAIN posting'[u],
               posting'[u][i][1] = posting'[u][j][1]
        PROVE  i = j
    <3>1. CASE u = t
      <4>1. /\ i \in Nat /\ j \in Nat /\ i + 1 \in DOMAIN posting[t] /\ j + 1 \in DOMAIN posting[t]
            /\ posting[t][i + 1][1] = posting[t][j + 1][1]
        BY <1>2, <1>3, <2>3, <3>1
      <4>2. i + 1 = j + 1
        BY <4>1 DEF OrderInv, NextIsLater
      <4> QED
        BY <4>1, <4>2
    <3>2. CASE u # t
      BY <1>2, <2>3, <3>2 DEF OrderInv, NextIsLater
    <3> QED
      BY <3>1, <3>2
  <2>4. \A f, k \in Ports : \A m \in arrived'[k] :
          Feeds(f, k) /\ f \in Reached(m[1]) => m \in handled'[f]
    BY <1>1 DEF OrderInv, NextIsLater
  <2> QED
    BY <2>2, <2>3, <2>4 DEF NextIsLater
<1> QED
  BY <1>5, <1>6, <1>7 DEF OrderInv

(* The head of a queue goes, to the handler or to nowhere.                 *)
LEMMA HeadGoes ==
  ASSUME Typing, QueuesSorted, NEW q \in Ports, msg_queue[q] # << >>,
         msg_queue' = [msg_queue EXCEPT ![q] = Tail(@)], arrived' = arrived,
         \/ q \notin Handled /\ handled' = handled
         \/ handled' = [handled EXCEPT ![q] = @ \cup {msg_queue[q][1]}]
  PROVE  QueuesSorted'
<1> DEFINE Good(k, s, a, h) ==
      /\ h \subseteq a
      /\ \A i \in DOMAIN s : s[i] \in a
      /\ k \in Handled => \A o \in a : o \in h \/ \E i \in DOMAIN s : s[i] = o
      /\ \A i, j \in DOMAIN s : i < j /\ s[i][1] = s[j][1] => s[i][2] < s[j][2]
      /\ \A o \in h, i \in DOMAIN s : o[1] = s[i][1] => o[2] < s[i][2]
<1>1. \A k \in Ports : Good(k, msg_queue[k], arrived[k], handled[k])
  BY DEF QueuesSorted
<1>2. \A k \in Ports \ {q} : msg_queue'[k] = msg_queue[k] /\ handled'[k] = handled[k]
  BY DEF Typing
<1>3. Good(q, msg_queue'[q], arrived[q], handled'[q])
  <2> DEFINE s == msg_queue[q]
             r == msg_queue'[q]
  <2>1. Good(q, s, arrived[q], handled[q])
    BY <1>1
  <2>2. s \in Seq(Messages) /\ s # << >> /\ r = Tail(s)
    BY DEF Typing
  <2>3. \/ handled'[q] = handled[q] /\ q \notin Handled
        \/ handled'[q] = handled[q] \cup {s[1]}
    BY DEF Typing
  <2> HIDE DEF s, r
  <2>4. 1 \in DOMAIN s /\ DOMAIN s \subseteq Nat /\ DOMAIN r \subseteq Nat
    BY <2>2
  <2>5. \A i \in DOMAIN r : i + 1 \in DOMAIN s /\ r[i] = s[i + 1] /\ 1 < i + 1
    BY <2>2
  <2>6. \A i \in DOMAIN s : i = 1 \/ (i - 1 \in DOMAIN r /\ r[i - 1] = s[i])
    BY <2>2
  <2>7. handled'[q] \subseteq arrived[q] /\ \A i \in DOMAIN r : r[i] \in arrived[q]
    BY <2>1, <2>3, <2>4, <2>5
  <2>8. q \in Handled => \A o \in arrived[q] : o \in handled'[q] \/ \E i \in DOMAIN r : r[i] = o
    <3> SUFFICES ASSUME q \in Handled, NEW o \in arrived[q], o \notin handled'[q]
                 PROVE  \E i \in DOMAIN r : r[i] = o
      OBVIOUS
    <3>1. PICK i \in DOMAIN s : s[i] = o
      BY <2>1, <2>3
    <3>2. i # 1
      BY <2>3, <3>1
    <3> QED
      BY <2>6, <3>1, <3>2
  <2>9. \A i, j \in DOMAIN r : i < j /\ r[i][1] = r[j][1] => r[i][2] < r[j][2]
    <3> SUFFICES ASSUME NEW i \in DOMAIN r, NEW j \in DOMAIN r, i < j, r[i][1] = r[j][1]
                 PROVE  r[i][2] < r[j][2]
      OBVIOUS
    <3>1. /\ i + 1 \in DOMAIN s /\ j + 1 \in DOMAIN s /\ i + 1 < j + 1
          /\ r[i] = s[i + 1] /\ r[j] = s[j + 1]
      BY <2>4, <2>5
    <3> QED
      BY <2>1, <3>1
  <2>10. \A o \in handled'[q], i \in DOMAIN r : o[1] = r[i][1] => o[2] < r[i][2]
    BY <2>1, <2>3, <2>4, <2>5
  <2> QED
    BY <2>7, <2>8, <2>9, <2>10 DEF r
<1> HIDE DEF Good
<1>4. \A k \in Ports : Good(k, msg_queue'[k], arrived[k], handled'[k])
  BY <1>1, <1>2, <1>3
<1> QED
  BY <1>4 DEF Good, QueuesSorted

LEMMA DispatchKeepsOrder ==
  ASSUME OneRoute, BaseInv, OrderInv, NEW b \in Blocks, Dispatch(b)
  PROVE  OrderInv'
<1> USE DEF BaseInv
<1> DEFINE f == PortsOf[b][at[b]]
           m == msg_queue[f][1]
           s == Published(f, m)
<1>1. /\ f \in Ports /\ f \in Handled /\ Owner(f) = b
      /\ msg_queue[f] \in Seq(Messages) /\ msg_queue[f] # << >>
      /\ m = Head(msg_queue[f]) /\ m \in Messages
      /\ s \in Seq(Ports \X Messages) /\ Len(s) = Len(Forward[f])
  BY DispatchTakes
<1>2. /\ msg_queue' = [msg_queue EXCEPT ![f] = Tail(@)]
      /\ handled' = [handled EXCEPT ![f] = @ \cup {m}]
      /\ posting' = [posting EXCEPT ![b] = s]
      /\ UNCHANGED <<stage, posted, arrived>>
  BY <1>1 DEF Dispatch, Take
<1>3. b \in Threads /\ b \notin Posters /\ stage[b] = 1
  <2>1. b \in Threads /\ b \notin Posters /\ stage[b] \in 1..3
    BY PortAssumption DEF Threads, Typing
  <2>2. posting[b] = << >>
    BY DEF Dispatch, MutexInv
  <2> QED
    BY <2>1, <2>2 DEF MutexInv
<1>4. s = [i \in DOMAIN Forward[f] |-> <<Forward[f][i], m>>]
  BY DEF Published
<1>5. m[1] \in Posters /\ m[2] \in Nat
  BY <1>1, MessageParts
<1>6. m \in arrived[f] /\ \A k \in handled[f] : k[1] = m[1] => k[2] < m[2]
  <2>1. 1 \in DOMAIN msg_queue[f]
    BY <1>1
  <2> QED
    BY <1>1, <2>1 DEF OrderInv, QueuesSorted
<1> HIDE DEF f, m, s
<1>7. f \in Reached(m[1]) /\ m[2] <= posted[m[1]]
  BY <1>1, <1>6 DEF OrderInv, OnRoute
<1>8. /\ posting'[b] = s /\ \A t \in Threads \ {b} : posting'[t] = posting[t]
      /\ m \in handled'[f] /\ \A k \in Ports : handled[k] \subseteq handled'[k]
  BY <1>1, <1>2, <1>3 DEF Typing
<1>9. \A i \in DOMAIN s : /\ i \in DOMAIN Forward[f] /\ s[i][1] = Forward[f][i] /\ s[i][2] = m
                          /\ s[i][1] \in Ports /\ Feeds(f, s[i][1])
  <2>1. \A i \in DOMAIN s : i \in DOMAIN Forward[f] /\ s[i] = <<Forward[f][i], m>>
    BY <1>4
  <2>2. \A i \in DOMAIN s : s[i] \in Ports \X Messages
    BY <1>1
  <2> QED
    BY <1>1, <2>1, <2>2 DEF Feeds
<1>10. OnRoute'
  <2>1. \A k \in Ports : \A o \in arrived'[k] : k \in Reached(o[1]) /\ o[2] <= posted'[o[1]]
    BY <1>2 DEF OrderInv, OnRoute
  <2>2. ASSUME NEW t \in Threads, NEW i \in DOMAIN posting'[t]
        PROVE  LET k == posting'[t][i][1]
                   o == posting'[t][i][2]
               IN /\ o[2] <= posted'[o[1]]
                  /\ k \in Reached(o[1])
                  /\ t \in Posters => t = o[1] /\ k \in Entries(t)
                  /\ t \in Blocks => \E g \in Reached(o[1]) :
                                       Feeds(g, k) /\ Owner(g) = t /\ o \in handled'[g]
    <3>1. CASE t = b
      <4>1. i \in DOMAIN s /\ posting'[t][i] = s[i]
        BY <1>8, <2>2, <3>1
      <4>2. s[i][1] \in Reached(m[1])
        BY <1>5, <1>7, <1>9, <4>1, ReachedIsClosed
      <4> QED
        BY <1>1, <1>2, <1>3, <1>7, <1>8, <1>9, <3>1, <4>1, <4>2, SMTT(60)
    <3>2. CASE t # b
      <4> DEFINE k == posting[t][i][1]
                 o == posting[t][i][2]
      <4>1. i \in DOMAIN posting[t] /\ posting'[t] = posting[t]
        BY <1>8, <2>2, <3>2
      <4>2. /\ o[2] <= posted[o[1]]
            /\ k \in Reached(o[1])
            /\ t \in Posters => t = o[1] /\ k \in Entries(t)
            /\ t \in Blocks => \E g \in Reached(o[1]) :
                                 Feeds(g, k) /\ Owner(g) = t /\ o \in handled[g]
        BY <4>1 DEF OrderInv, OnRoute
      <4>3. \A g \in Reached(o[1]) : o \in handled[g] => o \in handled'[g]
        BY <1>8 DEF Reached
      <4> QED
        BY <1>2, <4>1, <4>2, <4>3
    <3> QED
      BY <3>1, <3>2
  <2> QED
    BY <2>1, <2>2 DEF OnRoute
<1>11. QueuesSorted'
  BY <1>1, <1>2, HeadGoes DEF OrderInv, m
<1>12. NextIsLater'
  <2>1. \A t \in Threads \ {b} : Unpushed(t)' = Unpushed(t)
    BY <1>2, <1>8 DEF Unpushed
  <2>2. ASSUME NEW t \in Threads, NEW i \in Unpushed(t)',
               NEW k \in arrived[posting'[t][i][1]], k[1] = posting'[t][i][2][1]
        PROVE  k[2] < posting'[t][i][2][2]
    <3>1. CASE t = b
      <4>1. i \in DOMAIN s /\ posting'[t][i] = s[i]
        BY <1>8, <3>1 DEF Unpushed
      <4>2. s[i][1] \in Ports /\ Feeds(f, s[i][1]) /\ s[i][2] = m /\ k \in arrived[s[i][1]] /\ k[1] = m[1]
        BY <1>9, <2>2, <4>1
      <4>3. k \in handled[f]
        BY <1>1, <1>7, <4>2 DEF OrderInv, NextIsLater
      <4> QED
        BY <1>6, <4>1, <4>2, <4>3
    <3>2. CASE t # b
      BY <1>8, <2>1, <2>2, <3>2 DEF OrderInv, NextIsLater
    <3> QED
      BY <3>1, <3>2
  <2>3. ASSUME NEW t \in Threads, NEW i \in DOMAIN posting'[t], NEW j \in DOMAIN posting'[t],
               posting'[t][i][1] = posting'[t][j][1]
        PROVE  i = j
    <3>1. CASE t = b
      <4>1. /\ i \in DOMAIN Forward[f] /\ j \in DOMAIN Forward[f]
            /\ Forward[f][i] = Forward[f][j]
        BY <1>8, <1>9, <2>3, <3>1
      <4> QED
        BY <1>1, <1>5, <1>7, <4>1 DEF OneRoute
    <3>2. CASE t # b
      BY <1>8, <2>3, <3>2 DEF OrderInv, NextIsLater
    <3> QED
      BY <3>1, <3>2
  <2>4. \A g, k \in Ports : \A o \in arrived[k] :
          Feeds(g, k) /\ g \in Reached(o[1]) => o \in handled'[g]
    BY <1>8 DEF OrderInv, NextIsLater
  <2> QED
    BY <1>2, <2>2, <2>3, <2>4 DEF NextIsLater
<1> QED
  BY <1>10, <1>11, <1>12 DEF OrderInv

LEMMA NextPortKeepsOrder ==
  ASSUME BaseInv, OrderInv, NEW b \in Blocks, NextPort(b)
  PROVE  OrderInv'
<1> USE DEF BaseInv
<1>1. UNCHANGED <<posting, posted, stage, arrived, handled>>
  BY DEF NextPort, posts, history
<1>2. QueuesSorted'
  <2> DEFINE q == PortsOf[b][at[b]]
  <2>1. /\ q \in Ports
        /\ \/ msg_queue' = msg_queue
           \/ /\ q \notin Handled /\ msg_queue[q] # << >>
              /\ msg_queue' = [msg_queue EXCEPT ![q] = Tail(@)]
    BY NextPortTakes
  <2> HIDE DEF q
  <2>2. CASE msg_queue' = msg_queue
    BY <1>1, <2>2 DEF OrderInv, QueuesSorted
  <2> QED
    BY <1>1, <2>1, <2>2, HeadGoes DEF OrderInv
<1>3. OnRoute' /\ NextIsLater'
  BY <1>1 DEF OrderInv, OnRoute, NextIsLater, Unpushed
<1> QED
  BY <1>2, <1>3 DEF OrderInv

LEMMA KeepOrderInv ==
  ASSUME OneRoute, BaseInv, OrderInv, [Next]_vars
  PROVE  OrderInv'
<1> USE DEF BaseInv
<1>1. ASSUME NEW p \in Posters, Post(p) PROVE OrderInv'
  BY <1>1, PostKeepsOrder
<1>2. ASSUME NEW t \in Threads, InsertTail(t) PROVE OrderInv'
  <2>1. posting[t] # << >> /\ UNCHANGED <<posted, handled>>
    BY <1>2, InsertTailStages
  <2>2. CASE NotifiesInput(t)
    BY <2>1, <2>2, KeepOrderElsewhere DEF NotifiesInput, Typing
  <2> QED
    BY <1>2, <2>1, <2>2, InsertTailStages, PushKeepsOrder, ReturnKeepsOrder
<1>3. ASSUME NEW b \in Blocks,
             \/ Return(b) \/ Scanned(b) \/ RunOneIteration(b) \/ Wait(b)
             \/ SpuriousWakeup(b) \/ Woken(b)
      PROVE  OrderInv'
  <2>1. UNCHANGED <<queues, posts, arrived, handled>>
    BY <1>3, ThreadMoves DEF Moves
  <2> QED
    BY <2>1, KeepOrderElsewhere DEF queues, posts
<1>4. ASSUME NEW b \in Blocks, NEW c \in Conds, SetChanged(b, c) PROVE OrderInv'
  BY <1>4, KeepOrderElsewhere DEF SetChanged, queues, posts, history
<1>5. CASE UNCHANGED vars
  BY <1>5, KeepOrderElsewhere DEF vars, queues, posts, history
<1>6. ASSUME NEW b \in Blocks, Thread(b) \/ SpuriousWakeup(b) PROVE OrderInv'
  BY <1>2, <1>3, <1>6, DispatchKeepsOrder, NextPortKeepsOrder DEF Thread, Threads
<1> QED
  BY <1>1, <1>2, <1>4, <1>5, <1>6 DEF Next, Poster, Threads

(***************************************************************************)
(* Where the messages of each poster have one route to each port, handlers *)
(* get them in the order in which they were posted, at the far end of a    *)
(* chain of blocks that pass them on as well as at its start.              *)
(***************************************************************************)
THEOREM MessagesStayInOrder == ASSUME OneRoute PROVE Spec => []InOrder
<1>1. Init => BaseInv /\ OrderInv
  BY InitBaseInv, InitOrderInv
<1>2. BaseInv /\ OrderInv /\ [Next]_vars => BaseInv' /\ OrderInv'
  BY OneRoute, KeepTyping, KeepMutexInv, KeepOrderInv DEF BaseInv
<1>3. BaseInv /\ OrderInv => InOrder
  <2> SUFFICES ASSUME Typing, OrderInv,
                      NEW port \in Handled, NEW m \in handled[port], NEW k \in arrived[port],
                      m[1] = k[1], k[2] < m[2]
               PROVE  k \in handled[port]
    BY DEF BaseInv, InOrder
  <2>1. port \in Ports
    BY PortAssumption
  <2>2. m[2] \in Nat /\ k[2] \in Nat
    BY <2>1, MessageParts DEF Typing
  <2> QED
    BY <2>1, <2>2 DEF OrderInv, QueuesSorted
<1> QED
  BY <1>1, <1>2, <1>3, PTL DEF Spec

(***************************************************************************)
(* And a queue never holds a message twice, which bounds its length.       *)
(***************************************************************************)
LEMMA MessagesAreFinite == IsFiniteSet(Messages)
<1>1. IsFiniteSet(1..MostPosts)
  <2>1. 1 \in Int /\ MostPosts \in Int
    BY DEF MostPosts
  <2> QED
    BY <2>1, FS_Interval
<1>2. Messages = Posters \X (1..MostPosts)
  BY DEF Messages
<1> QED
  BY <1>1, <1>2, FS_Product, PortAssumption

LEMMA QueuesAreShort ==
  ASSUME Typing, QueuesSorted, NEW q \in Ports
  PROVE  Len(msg_queue[q]) <= Cardinality(Messages)
<1> DEFINE s == msg_queue[q]
<1>1. s \in Seq(Messages) /\ s \in [1..Len(s) -> Messages] /\ Len(s) \in Nat
  BY DEF Typing
<1>2. \A i, j \in DOMAIN s : i < j => s[i] # s[j]
  <2>1. \A i \in DOMAIN s : s[i][2] \in Nat
    BY <1>1, MessageParts
  <2> QED
    BY <2>1 DEF QueuesSorted
<1> HIDE DEF s
<1>3. \A i, j \in DOMAIN s : s[i] = s[j] => i = j
  BY <1>1, <1>2
<1>4. s \in Injection(1..Len(s), Messages)
  BY <1>1, <1>3 DEF Injection, IsInjective
<1>5. Cardinality(1..Len(s)) <= Cardinality(Messages)
  BY <1>4, MessagesAreFinite, FS_Injection
<1>6. Cardinality(1..Len(s)) = Len(s)
  <2>1. 1 \in Int /\ Len(s) \in Int /\ (IF 1 > Len(s) THEN 0 ELSE Len(s) - 1 + 1) = Len(s)
    BY <1>1
  <2> QED
    BY <2>1, FS_Interval
<1> QED
  BY <1>5, <1>6 DEF s

(***************************************************************************)
(* The variables keep their types, and no queue grows beyond the messages  *)
(* there are: a message that has one route to a port is never in its queue *)
(* twice.                                                                  *)
(***************************************************************************)
THEOREM MsgPortTyping == ASSUME OneRoute PROVE Spec => []TypeOK
<1>1. Init => BaseInv /\ OrderInv
  BY InitBaseInv, InitOrderInv
<1>2. BaseInv /\ OrderInv /\ [Next]_vars => BaseInv' /\ OrderInv'
  BY OneRoute, KeepTyping, KeepMutexInv, KeepOrderInv DEF BaseInv
<1>3. BaseInv /\ OrderInv => TypeOK
  <2> SUFFICES ASSUME Typing, QueuesSorted PROVE TypeOK
    BY DEF BaseInv, OrderInv
  <2>1. Len(Stages) = 3
    BY DEF Stages
  <2> QED
    BY <2>1, QueuesAreShort DEF Typing, TypeOK, Places
<1> QED
  BY <1>1, <1>2, <1>3, PTL DEF Spec

=============================================================================
