----------------------------- MODULE StreamFifo -----------------------------
(***************************************************************************)
(* What a gr::buffer promises its blocks: the writer's items, numbered     *)
(* 1, 2, 3, ... in the order they are sent, reach every attached reader    *)
(* through a queue of its own, each exactly once and in order, and no      *)
(* queue ever holds more than Capacity items.                              *)
(*                                                                         *)
(* The one buffer shared by all readers, its wrap-around, its unlocked     *)
(* stores and its tags are not visible here.                               *)
(***************************************************************************)
EXTENDS Integers, Sequences

CONSTANTS
  Readers,
  Capacity,         \* items a reader may be behind: d_bufsize - 1
  MaxPreload        \* largest number of items a queue starts with

VARIABLES
  sent,             \* items sent so far
  attached,         \* the readers that take part
  queue             \* what each reader has yet to take

vars == <<sent, attached, queue>>

Init == /\ sent = 0
        /\ attached = {}
        /\ queue = [r \in Readers |-> << >>]

(* n more items reach every attached reader at once.                       *)
Send(n) ==
  /\ \A r \in attached : Len(queue[r]) + n <= Capacity
  /\ sent' = sent + n
  /\ queue' = [r \in Readers |->
                 IF r \in attached
                 THEN queue[r] \o [i \in 1..n |-> sent + i]
                 ELSE << >>]
  /\ UNCHANGED attached

(* Reader r takes its n oldest items.                                      *)
Take(r, n) ==
  /\ r \in attached
  /\ n <= Len(queue[r])
  /\ queue' = [queue EXCEPT ![r] = SubSeq(@, n + 1, Len(@))]
  /\ UNCHANGED <<sent, attached>>

(* A reader joins; its queue starts with a preload it must not rely on.    *)
Attach(r) ==
  /\ r \notin attached
  /\ attached' = attached \cup {r}
  /\ Len(queue'[r]) <= MaxPreload
  /\ queue' = [queue EXCEPT ![r] = queue'[r]]
  /\ UNCHANGED sent

Detach(r) ==
  /\ r \in attached
  /\ attached' = attached \ {r}
  /\ queue' = [queue EXCEPT ![r] = << >>]
  /\ UNCHANGED sent

Next == \/ \E n \in 1..Capacity : Send(n)
        \/ \E r \in Readers : \/ \E n \in 1..Capacity : Take(r, n)
                              \/ Attach(r)
                              \/ Detach(r)

Spec == Init /\ [][Next]_vars
=============================================================================
