--------------------------- MODULE TopBlockProofs ---------------------------
(***************************************************************************)
(* top_block_impl with any number of callers, graphs and schedulers, with  *)
(* waits, starts and restarts side by side.                                *)
(*                                                                         *)
(* The argument is one inductive invariant, IInv: d_mutex lets one caller  *)
(* at a time start or restart, where that caller is says which scheduler   *)
(* may still have threads, and a wait() has joined a scheduler that is not *)
(* newer than the current one.  What a wait() that was overtaken may break *)
(* is stated for the times when none was.  A second invariant, CInv, rests *)
(* on it: it counts the locks and follows the graph from the application   *)
(* to the scheduler.                                                       *)
(***************************************************************************)
EXTENDS TopBlock, FiniteSetTheorems, TLAPS

Places == {"out"} \cup Waiting \cup Restarting

Typing ==
  /\ d_mutex \in Callers \cup {Nobody}
  /\ d_state \in {"IDLE", "RUNNING"}
  /\ d_scheduler \in 0..MaxSchedulers
  /\ threads \in [Schedulers -> {"none", "running", "interrupted", "ended"}]
  /\ pc \in [Callers -> Places]
  /\ joining \in [Callers -> 0..MaxSchedulers]
  /\ overtaken \in BOOLEAN

(* Schedulers are numbered in the order they were made.                    *)
MadeInOrder ==
  /\ Cardinality(Made) \in 0..MaxSchedulers
  /\ Made = 1..Cardinality(Made)
  /\ d_scheduler <= Cardinality(Made)

(* d_mutex is held throughout start() and a restart, and a call that is    *)
(* going to make a scheduler finds the bound not reached.                  *)
MutexHeld ==
  \A c \in Callers :
    /\ pc[c] \in Restarting => d_mutex = c
    /\ pc[c] \in Restarting \ {"assign", "running"} => MayMake

(* From the flattening to the end of a start or a restart the state says   *)
(* IDLE, whatever a wait() writes beside it.                               *)
IdleWhileMaking ==
  \A c \in Callers :
    pc[c] \in {"flatten", "make", "assign", "running"} => d_state = "IDLE"

(* What a caller joins: a restart the current scheduler, a wait() one that *)
(* may be older by now, and that has no threads once it is joined.         *)
JoinsNoNewer ==
  \A c \in Callers :
    /\ pc[c] = "rejoin" => joining[c] = d_scheduler
    /\ pc[c] \in Waiting => joining[c] <= d_scheduler
    /\ pc[c] = "idle" => joining[c] \notin Alive

(* Which scheduler may have threads, by where the caller is that starts or *)
(* restarts.                                                               *)
AliveWhere ==
  ~overtaken =>
    /\ (\A c \in Callers : pc[c] # "assign") => Alive \subseteq {d_scheduler}
    /\ \A c \in Callers :
         /\ pc[c] \in {"reidle", "flatten", "make"} => Alive = {}
         /\ pc[c] = "assign" => Alive \subseteq {Cardinality(Made)}

(* IDLE and nobody about to change it: nothing runs.                       *)
IdleMeansIdle ==
  ~overtaken /\ d_state = "IDLE" /\ (\A c \in Callers : pc[c] \notin Restarting) =>
    Alive = {}

IInv ==
  /\ Typing /\ MadeInOrder /\ MutexHeld /\ IdleWhileMaking /\ JoinsNoNewer
  /\ AliveWhere /\ IdleMeansIdle

-----------------------------------------------------------------------------
(* The schedulers made are as many as the number of the last.              *)
LEMMA Numbered ==
  ASSUME NEW n \in 0..MaxSchedulers
  PROVE  Cardinality(1..n) = n
<1>1. 0 <= n /\ n \in Int
  BY CallersAssumption
<1> QED
  BY <1>1, FS_Interval

(* stop(), and every call that goes through it, makes and revives nothing. *)
LEMMA InterruptEndsNothing ==
  ASSUME Typing, NEW k \in 0..MaxSchedulers, Interrupt(k)
  PROVE  /\ threads' \in [Schedulers -> {"none", "running", "interrupted", "ended"}]
         /\ Made' = Made
         /\ Alive' = Alive
<1>1. CASE k # 0 /\ threads[k] = "running"
  <2>1. k \in Schedulers
    BY <1>1, CallersAssumption DEF Schedulers
  <2>2. threads' = [threads EXCEPT ![k] = "interrupted"]
    BY <1>1 DEF Interrupt
  <2> QED
    BY <1>1, <2>1, <2>2 DEF Typing, Made, Alive
<1>2. CASE ~(k # 0 /\ threads[k] = "running")
  <2>1. threads' = threads
    BY <1>2 DEF Interrupt
  <2> QED
    BY <2>1 DEF Typing, Made, Alive
<1> QED
  BY <1>1, <1>2

(* While the mutex is free nobody starts or restarts.                      *)
LEMMA FreeMutex ==
  ASSUME MutexHeld, d_mutex = Nobody
  PROVE  \A c \in Callers : pc[c] \notin Restarting
BY CallersAssumption DEF MutexHeld

(* While one caller starts or restarts, no other one does.                 *)
LEMMA OneRestarts ==
  ASSUME IInv, NEW c \in Callers, pc[c] \in Restarting
  PROVE  \A o \in Callers \ {c} : pc[o] \notin Restarting
BY DEF IInv, MutexHeld

(* A step of one caller to a place leaves the others where they are.       *)
LEMMA Moves ==
  ASSUME Typing, NEW c \in Callers, NEW where \in Places, Goto(c, where)
  PROVE  /\ pc' \in [Callers -> Places]
         /\ pc'[c] = where
         /\ \A o \in Callers \ {c} : pc'[o] = pc[o]
BY DEF Typing, Goto

(* With nothing alive, nothing is alive where it should not be.            *)
LEMMA NothingAlive ==
  ASSUME Alive' = {}
  PROVE  AliveWhere' /\ IdleMeansIdle'
BY DEF AliveWhere, IdleMeansIdle

LEMMA InitIInv == Init => IInv
<1> SUFFICES ASSUME Init PROVE IInv
  OBVIOUS
<1>1. Made = {} /\ Alive = {}
  BY DEF Init, Made, Alive
<1>2. Cardinality(Made) = 0 /\ 1..0 = {}
  BY <1>1, FS_EmptySet
<1>3. Typing
  <2>1. overtaken \in BOOLEAN
    BY DEF Init
  <2> QED
    BY <2>1, CallersAssumption DEF Init, Typing, Places
<1>4. MadeInOrder
  BY <1>1, <1>2, CallersAssumption DEF MadeInOrder, Init
<1>5. MutexHeld /\ IdleWhileMaking /\ JoinsNoNewer /\ AliveWhere /\ IdleMeansIdle
  BY <1>1 DEF Init, MutexHeld, IdleWhileMaking, JoinsNoNewer, AliveWhere, IdleMeansIdle,
     Restarting, Waiting
<1> QED
  BY <1>3, <1>4, <1>5 DEF IInv

-----------------------------------------------------------------------------
(* One lemma per action of IInv /\ Next => IInv'.                          *)
central == <<d_mutex, d_state, d_scheduler, threads, pc, joining, overtaken>>

(* Calls that return at once, lock(), and connections made under a lock.   *)
LEMMA KeepStutter ==
  ASSUME IInv, UNCHANGED central
  PROVE  IInv'
<1>1. Made' = Made /\ Alive' = Alive
  BY DEF central, Made, Alive
<1> QED
  BY <1>1 DEF central, IInv, Typing, MadeInOrder, MutexHeld, IdleWhileMaking,
     JoinsNoNewer, AliveWhere, IdleMeansIdle, MayMake

LEMMA KeepStop ==
  ASSUME IInv, NEW c \in Callers, Stop(c)
  PROVE  IInv'
<1>1. d_scheduler \in 0..MaxSchedulers /\ Interrupt(d_scheduler)
  BY DEF IInv, Typing, Stop
<1>2. /\ threads' \in [Schedulers -> {"none", "running", "interrupted", "ended"}]
      /\ Made' = Made /\ Alive' = Alive
  BY <1>1, InterruptEndsNothing DEF IInv
<1> QED
  BY <1>2 DEF Stop, locks, IInv, Typing, MadeInOrder, MutexHeld, IdleWhileMaking,
     JoinsNoNewer, AliveWhere, IdleMeansIdle, MayMake

(* When the last threads end, an overtaken wait() has done its harm.       *)
LEMMA KeepEnded ==
  ASSUME IInv, NEW k \in Schedulers, Ended(k)
  PROVE  IInv'
<1>1. threads' \in [Schedulers -> {"none", "running", "interrupted", "ended"}]
  BY DEF IInv, Typing, Ended
<1>2. Made' = Made /\ Alive' = Alive \ {k}
  BY DEF IInv, Typing, Ended, Made, Alive
<1>3. Typing' /\ MadeInOrder' /\ MutexHeld' /\ IdleWhileMaking' /\ JoinsNoNewer'
  BY <1>1, <1>2 DEF Ended, locks, IInv, Typing, MadeInOrder, MutexHeld, IdleWhileMaking,
     JoinsNoNewer, MayMake
<1>4. CASE Alive = {k}
  BY <1>2, <1>3, <1>4, NothingAlive DEF IInv
<1>5. CASE Alive # {k}
  <2>1. AliveWhere' /\ IdleMeansIdle'
    BY <1>2, <1>5 DEF Ended, locks, IInv, AliveWhere, IdleMeansIdle
  <2> QED
    BY <1>3, <2>1 DEF IInv
<1> QED
  BY <1>4, <1>5

(* start() comes to make a scheduler only from IDLE, when nothing runs.    *)
LEMMA KeepStart ==
  ASSUME IInv, NEW c \in Callers, Start(c)
  PROVE  IInv'
<1>1. CASE UNCHANGED <<d_mutex, pc>>
  BY <1>1, KeepStutter DEF Start, scheds, central
<1>2. CASE /\ d_state = "IDLE" /\ d_mutex' = c
           /\ Goto(c, "make")
  <2>1. \A o \in Callers : pc[o] \notin Restarting
    BY FreeMutex DEF IInv, Start
  <2>2. /\ pc' \in [Callers -> Places] /\ pc'[c] = "make"
        /\ \A o \in Callers \ {c} : pc'[o] = pc[o]
    BY <1>2, Moves DEF IInv, Places, Restarting
  <2>3. ~overtaken => Alive = {}
    BY <1>2, <2>1 DEF IInv, IdleMeansIdle
  <2>4. Made' = Made /\ Alive' = Alive
    BY DEF Start, scheds, Made, Alive
  <2>5. Typing' /\ MadeInOrder'
    BY <1>2, <2>2, <2>4 DEF IInv, Typing, MadeInOrder, Start, scheds
  <2>6. MutexHeld'
    BY <1>2, <2>1, <2>2, <2>4 DEF MutexHeld, Start, MayMake
  <2>7. IdleWhileMaking'
    BY <1>2 DEF Start, IdleWhileMaking
  <2>8. JoinsNoNewer'
    BY <2>2, <2>4 DEF Start, scheds, IInv, JoinsNoNewer, Waiting
  <2>9. AliveWhere' /\ IdleMeansIdle'
    BY <2>2, <2>3, <2>4 DEF Start, AliveWhere, IdleMeansIdle
  <2> QED
    BY <2>5, <2>6, <2>7, <2>8, <2>9 DEF IInv
<1> QED
  BY <1>1, <1>2 DEF Start

(* The one step that makes a scheduler finds none with threads.            *)
LEMMA KeepMakeScheduler ==
  ASSUME IInv, NEW c \in Callers, MakeScheduler(c)
  PROVE  IInv'
<1> DEFINE n == Cardinality(Made)
<1>1. /\ pc' \in [Callers -> Places] /\ pc'[c] = "assign"
      /\ \A o \in Callers \ {c} : pc'[o] = pc[o]
  BY Moves DEF MakeScheduler, IInv, Places, Restarting
<1>2. /\ n \in 0..MaxSchedulers /\ n < MaxSchedulers /\ Made = 1..n
      /\ ~overtaken => Alive = {}
  BY DEF MakeScheduler, IInv, MadeInOrder, MutexHeld, MayMake, AliveWhere, Restarting
<1>3. n + 1 \in Schedulers /\ n + 1 \in 0..MaxSchedulers
  BY <1>2, CallersAssumption DEF Schedulers
<1>4. d_scheduler \in 0..MaxSchedulers /\ d_scheduler <= n
  BY DEF IInv, Typing, MadeInOrder
<1>5. \A o \in Callers \ {c} : pc[o] \notin Restarting
  BY OneRestarts DEF MakeScheduler, Restarting
<1> HIDE DEF n
<1>6. threads' = [threads EXCEPT ![n + 1] = "running"]
  BY DEF MakeScheduler, n
<1>7. Made' = 1..(n + 1) /\ Alive' = Alive \cup {n + 1}
  <2>1. Made' = Made \cup {n + 1} /\ Alive' = Alive \cup {n + 1}
    BY <1>3, <1>6 DEF IInv, Typing, Made, Alive
  <2>2. 1..(n + 1) = 1..n \cup {n + 1}
    BY <1>2
  <2> QED
    BY <1>2, <2>1, <2>2
<1>8. Cardinality(Made)' = n + 1
  BY <1>3, <1>7, Numbered
<1>9. Typing'
  <2>1. threads' \in [Schedulers -> {"none", "running", "interrupted", "ended"}]
    BY <1>6 DEF IInv, Typing
  <2> QED
    BY <1>1, <2>1 DEF MakeScheduler, locks, IInv, Typing
<1>10. MadeInOrder'
  <2>1. d_scheduler' <= n + 1
    BY <1>2, <1>4 DEF MakeScheduler
  <2> QED
    BY <1>3, <1>7, <1>8, <2>1 DEF MadeInOrder
<1>11. MutexHeld'
  BY <1>1, <1>5 DEF MakeScheduler, locks, IInv, MutexHeld, Restarting
<1>12. IdleWhileMaking'
  BY DEF MakeScheduler, IInv, IdleWhileMaking
<1>13. JoinsNoNewer'
  <2>1. \A o \in Callers : pc[o] \in Waiting => joining[o] # n + 1
    BY <1>2, <1>4 DEF IInv, Typing, JoinsNoNewer
  <2> QED
    BY <1>1, <1>7, <2>1 DEF MakeScheduler, IInv, JoinsNoNewer, Waiting
<1>14. AliveWhere'
  BY <1>1, <1>2, <1>5, <1>7, <1>8 DEF MakeScheduler, AliveWhere, Restarting
<1>15. IdleMeansIdle'
  BY <1>1 DEF IdleMeansIdle, Restarting
<1> QED
  BY <1>9, <1>10, <1>11, <1>12, <1>13, <1>14, <1>15 DEF IInv

LEMMA KeepAssignScheduler ==
  ASSUME IInv, NEW c \in Callers, AssignScheduler(c)
  PROVE  IInv'
<1>1. /\ pc' \in [Callers -> Places] /\ pc'[c] = "running"
      /\ \A o \in Callers \ {c} : pc'[o] = pc[o]
  BY Moves DEF AssignScheduler, IInv, Places, Restarting
<1>2. \A o \in Callers \ {c} : pc[o] \notin Restarting
  BY OneRestarts DEF AssignScheduler, Restarting
<1>3. d_scheduler \in 0..MaxSchedulers /\ Interrupt(d_scheduler)
  BY DEF IInv, Typing, AssignScheduler
<1>4. /\ threads' \in [Schedulers -> {"none", "running", "interrupted", "ended"}]
      /\ Made' = Made /\ Alive' = Alive
  BY <1>3, InterruptEndsNothing DEF IInv
<1>5. d_scheduler' = Cardinality(Made) /\ d_scheduler' \in 0..MaxSchedulers
  BY DEF AssignScheduler, IInv, MadeInOrder
<1>6. ~overtaken => Alive' \subseteq {d_scheduler'}
  BY <1>4, <1>5 DEF AssignScheduler, IInv, AliveWhere
<1>7. Typing'
  BY <1>1, <1>4, <1>5 DEF AssignScheduler, locks, IInv, Typing
<1>8. MadeInOrder'
  BY <1>4, <1>5 DEF IInv, MadeInOrder
<1>9. MutexHeld'
  BY <1>1, <1>2 DEF AssignScheduler, locks, IInv, MutexHeld, Restarting
<1>10. IdleWhileMaking'
  BY DEF AssignScheduler, IInv, IdleWhileMaking
<1>11. JoinsNoNewer'
  <2>1. d_scheduler <= d_scheduler'
    BY <1>5 DEF IInv, MadeInOrder
  <2>2. \A o \in Callers : pc'[o] \in Waiting => joining'[o] <= d_scheduler'
    BY <1>1, <1>3, <1>5, <2>1
    DEF AssignScheduler, IInv, Typing, JoinsNoNewer, Waiting
  <2> QED
    BY <1>1, <1>2, <1>4, <2>2
    DEF AssignScheduler, IInv, JoinsNoNewer, Waiting, Restarting
<1>12. AliveWhere' /\ IdleMeansIdle'
  BY <1>1, <1>2, <1>6 DEF AssignScheduler, AliveWhere, IdleMeansIdle, Restarting
<1> QED
  BY <1>7, <1>8, <1>9, <1>10, <1>11, <1>12 DEF IInv

LEMMA KeepRunning ==
  ASSUME IInv, NEW c \in Callers, Running(c)
  PROVE  IInv'
<1>1. /\ pc' \in [Callers -> Places] /\ pc'[c] = "out"
      /\ \A o \in Callers \ {c} : pc'[o] = pc[o]
  BY Moves DEF Running, IInv, Places
<1>2. \A o \in Callers \ {c} : pc[o] \notin Restarting
  BY OneRestarts DEF Running, Restarting
<1>3. Made' = Made /\ Alive' = Alive
  BY DEF Running, scheds, Made, Alive
<1>4. ~overtaken => Alive \subseteq {d_scheduler}
  BY <1>2 DEF Running, IInv, AliveWhere, Restarting
<1>5. Typing' /\ MadeInOrder'
  BY <1>1, <1>3 DEF Running, scheds, IInv, Typing, MadeInOrder
<1>6. MutexHeld' /\ IdleWhileMaking'
  BY <1>1, <1>2 DEF MutexHeld, IdleWhileMaking, Restarting
<1>7. JoinsNoNewer'
  BY <1>1, <1>3 DEF Running, scheds, IInv, JoinsNoNewer, Waiting
<1>8. AliveWhere' /\ IdleMeansIdle'
  BY <1>1, <1>2, <1>3, <1>4
  DEF Running, scheds, AliveWhere, IdleMeansIdle, Restarting
<1> QED
  BY <1>5, <1>6, <1>7, <1>8 DEF IInv

-----------------------------------------------------------------------------
(* wait(): beside other waits, starts and restarts.                        *)
LEMMA KeepWait ==
  ASSUME IInv, NEW c \in Callers, Wait(c)
  PROVE  IInv'
<1>1. /\ pc' \in [Callers -> Places] /\ pc'[c] = "join"
      /\ \A o \in Callers \ {c} : pc'[o] = pc[o]
  BY Moves DEF Wait, IInv, Places, Waiting
<1>2. /\ joining' \in [Callers -> 0..MaxSchedulers] /\ joining'[c] = d_scheduler
      /\ \A o \in Callers \ {c} : joining'[o] = joining[o]
  BY DEF Wait, IInv, Typing
<1>3. Made' = Made /\ Alive' = Alive
  BY DEF Wait, scheds, Made, Alive
<1>4. Typing' /\ MadeInOrder'
  BY <1>1, <1>2, <1>3 DEF Wait, locks, scheds, IInv, Typing, MadeInOrder
<1>5. MutexHeld' /\ IdleWhileMaking'
  BY <1>1, <1>3
  DEF Wait, locks, IInv, MutexHeld, IdleWhileMaking, MayMake, Restarting
<1>6. JoinsNoNewer'
  <2>1. d_scheduler <= d_scheduler
    BY DEF IInv, Typing
  <2> QED
    BY <1>1, <1>2, <1>3, <2>1 DEF Wait, scheds, IInv, JoinsNoNewer, Waiting
<1>7. AliveWhere' /\ IdleMeansIdle'
  BY <1>1, <1>3 DEF Wait, scheds, IInv, AliveWhere, IdleMeansIdle, Restarting
<1> QED
  BY <1>4, <1>5, <1>6, <1>7 DEF IInv

LEMMA KeepJoin ==
  ASSUME IInv, NEW c \in Callers, Join(c)
  PROVE  IInv'
<1>1. /\ pc' \in [Callers -> Places] /\ pc'[c] = "idle"
      /\ \A o \in Callers \ {c} : pc'[o] = pc[o]
  BY Moves DEF Join, IInv, Places, Waiting
<1>2. Made' = Made /\ Alive' = Alive
  BY DEF Join, scheds, Made, Alive
<1>3. Typing' /\ MadeInOrder'
  BY <1>1, <1>2 DEF Join, locks, scheds, IInv, Typing, MadeInOrder
<1>4. MutexHeld' /\ IdleWhileMaking'
  BY <1>1, <1>2
  DEF Join, locks, IInv, MutexHeld, IdleWhileMaking, MayMake, Restarting
<1>5. JoinsNoNewer'
  BY <1>1, <1>2 DEF Join, Joined, scheds, IInv, JoinsNoNewer, Waiting
<1>6. AliveWhere' /\ IdleMeansIdle'
  BY <1>1, <1>2 DEF Join, scheds, IInv, AliveWhere, IdleMeansIdle, Restarting
<1> QED
  BY <1>3, <1>4, <1>5, <1>6 DEF IInv

(* IDLE is written when the wait() is over: over the state of the          *)
(* scheduler that was joined, or else it is overtaken.                     *)
LEMMA KeepIdle ==
  ASSUME IInv, NEW c \in Callers, Idle(c)
  PROVE  IInv'
<1>1. /\ pc' \in [Callers -> Places] /\ pc'[c] = "out"
      /\ \A o \in Callers \ {c} : pc'[o] = pc[o]
  BY Moves DEF Idle, IInv, Places
<1>2. /\ joining' \in [Callers -> 0..MaxSchedulers]
      /\ \A o \in Callers \ {c} : joining'[o] = joining[o]
  BY CallersAssumption DEF Idle, IInv, Typing
<1>3. Made' = Made /\ Alive' = Alive
  BY DEF Idle, scheds, Made, Alive
<1>4. Typing' /\ MadeInOrder'
  BY <1>1, <1>2, <1>3 DEF Idle, locks, scheds, IInv, Typing, MadeInOrder
<1>5. MutexHeld' /\ IdleWhileMaking'
  BY <1>1, <1>3
  DEF Idle, locks, IInv, MutexHeld, IdleWhileMaking, MayMake, Restarting
<1>6. JoinsNoNewer'
  BY <1>1, <1>2, <1>3 DEF Idle, scheds, IInv, JoinsNoNewer, Waiting
<1>7. CASE Alive = {}
  BY <1>3, <1>4, <1>5, <1>6, <1>7, NothingAlive DEF IInv
<1>8. CASE Alive # {}
  <2>1. overtaken' = (overtaken \/ Overtakes(c))
    BY <1>8 DEF Idle
  <2>2. AliveWhere'
    BY <1>1, <1>3, <2>1 DEF Idle, scheds, IInv, AliveWhere
  <2>3. ASSUME ~overtaken', \A o \in Callers : pc'[o] \notin Restarting PROVE FALSE
    <3>1. \A o \in Callers : pc[o] \notin Restarting
      BY <1>1, <2>3 DEF Idle, Restarting
    <3>2. ~overtaken /\ (d_state = "RUNNING" => joining[c] = d_scheduler)
      BY <2>1, <2>3 DEF Overtakes
    <3>3. d_state = "RUNNING"
      BY <1>8, <3>1, <3>2 DEF IInv, Typing, IdleMeansIdle
    <3>4. Alive \subseteq {d_scheduler}
      BY <3>1, <3>2 DEF IInv, AliveWhere, Restarting
    <3>5. d_scheduler \notin Alive
      BY <3>2, <3>3 DEF Idle, IInv, JoinsNoNewer
    <3> QED
      BY <1>8, <3>4, <3>5
  <2>4. IdleMeansIdle'
    BY <2>3 DEF IdleMeansIdle
  <2> QED
    BY <1>4, <1>5, <1>6, <2>2, <2>4 DEF IInv
<1> QED
  BY <1>7, <1>8

-----------------------------------------------------------------------------
(* unlock(): the last one keeps the mutex and restarts.                    *)
LEMMA KeepUnlock ==
  ASSUME IInv, NEW c \in Callers, Unlock(c)
  PROVE  IInv'
<1>1. CASE UNCHANGED <<d_mutex, pc>>
  BY <1>1, KeepStutter DEF Unlock, scheds, central
<1>2. CASE d_mutex' = c /\ Goto(c, "restart")
  <2>1. \A o \in Callers : pc[o] \notin Restarting
    BY FreeMutex DEF IInv, Unlock
  <2>2. /\ pc' \in [Callers -> Places] /\ pc'[c] = "restart"
        /\ \A o \in Callers \ {c} : pc'[o] = pc[o]
    BY <1>2, Moves DEF IInv, Places, Restarting
  <2>3. Made' = Made /\ Alive' = Alive
    BY DEF Unlock, scheds, Made, Alive
  <2>4. Typing' /\ MadeInOrder'
    BY <1>2, <2>2, <2>3 DEF Unlock, scheds, IInv, Typing, MadeInOrder
  <2>5. MutexHeld' /\ IdleWhileMaking'
    BY <1>2, <2>1, <2>2, <2>3
    DEF Unlock, IInv, MutexHeld, IdleWhileMaking, MayMake, Restarting
  <2>6. JoinsNoNewer'
    BY <2>2, <2>3 DEF Unlock, scheds, IInv, JoinsNoNewer, Waiting
  <2>7. AliveWhere'
    BY <2>1, <2>2, <2>3 DEF Unlock, scheds, IInv, AliveWhere, Restarting
  <2>8. IdleMeansIdle'
    BY <2>2 DEF IdleMeansIdle, Restarting
  <2> QED
    BY <2>4, <2>5, <2>6, <2>7, <2>8 DEF IInv
<1> QED
  BY <1>1, <1>2 DEF Unlock

LEMMA KeepRestart ==
  ASSUME IInv, NEW c \in Callers, Restart(c)
  PROVE  IInv'
<1>1. /\ pc' \in [Callers -> Places] /\ pc'[c] = "rejoin"
      /\ \A o \in Callers \ {c} : pc'[o] = pc[o]
  BY Moves DEF Restart, IInv, Places, Restarting
<1>2. \A o \in Callers \ {c} : pc[o] \notin Restarting
  BY OneRestarts DEF Restart, Restarting
<1>3. d_scheduler \in 0..MaxSchedulers /\ Interrupt(d_scheduler)
  BY DEF IInv, Typing, Restart, StopFirst
<1>4. /\ threads' \in [Schedulers -> {"none", "running", "interrupted", "ended"}]
      /\ Made' = Made /\ Alive' = Alive
  BY <1>3, InterruptEndsNothing DEF IInv
<1>5. /\ joining' \in [Callers -> 0..MaxSchedulers] /\ joining'[c] = d_scheduler
      /\ \A o \in Callers \ {c} : joining'[o] = joining[o]
  BY DEF Restart, IInv, Typing
<1>6. Typing' /\ MadeInOrder'
  BY <1>1, <1>4, <1>5 DEF Restart, locks, IInv, Typing, MadeInOrder
<1>7. MutexHeld' /\ IdleWhileMaking'
  BY <1>1, <1>2, <1>4
  DEF Restart, locks, IInv, MutexHeld, IdleWhileMaking, MayMake, Restarting
<1>8. JoinsNoNewer'
  BY <1>1, <1>4, <1>5 DEF Restart, IInv, JoinsNoNewer, Waiting
<1>9. AliveWhere'
  BY <1>1, <1>2, <1>4 DEF Restart, IInv, AliveWhere, Restarting
<1>10. IdleMeansIdle'
  BY <1>1 DEF IdleMeansIdle, Restarting
<1> QED
  BY <1>6, <1>7, <1>8, <1>9, <1>10 DEF IInv

(* A restart joins the current scheduler: the only one that has threads.   *)
LEMMA KeepRejoin ==
  ASSUME IInv, NEW c \in Callers, Rejoin(c)
  PROVE  IInv'
<1>1. /\ pc' \in [Callers -> Places] /\ pc'[c] = "reidle"
      /\ \A o \in Callers \ {c} : pc'[o] = pc[o]
  BY Moves DEF Rejoin, IInv, Places, Restarting
<1>2. \A o \in Callers \ {c} : pc[o] \notin Restarting
  BY OneRestarts DEF Rejoin, Restarting
<1>3. Made' = Made /\ Alive' = Alive
  BY DEF Rejoin, scheds, Made, Alive
<1>4. ~overtaken => Alive = {}
  <2>1. ~overtaken => Alive \subseteq {d_scheduler}
    BY <1>2 DEF Rejoin, IInv, AliveWhere, Restarting
  <2>2. d_scheduler \notin Alive
    BY DEF Rejoin, Joined, IInv, JoinsNoNewer
  <2> QED
    BY <2>1, <2>2
<1>5. /\ joining' \in [Callers -> 0..MaxSchedulers]
      /\ \A o \in Callers \ {c} : joining'[o] = joining[o]
  BY CallersAssumption DEF Rejoin, IInv, Typing
<1>6. Typing' /\ MadeInOrder'
  BY <1>1, <1>3, <1>5 DEF Rejoin, locks, scheds, IInv, Typing, MadeInOrder
<1>7. MutexHeld' /\ IdleWhileMaking'
  BY <1>1, <1>2, <1>3
  DEF Rejoin, locks, IInv, MutexHeld, IdleWhileMaking, MayMake, Restarting
<1>8. JoinsNoNewer'
  BY <1>1, <1>3, <1>5 DEF Rejoin, scheds, IInv, JoinsNoNewer, Waiting
<1>9. AliveWhere' /\ IdleMeansIdle'
  BY <1>1, <1>3, <1>4 DEF Rejoin, AliveWhere, IdleMeansIdle
<1> QED
  BY <1>6, <1>7, <1>8, <1>9 DEF IInv

LEMMA KeepReidle ==
  ASSUME IInv, NEW c \in Callers, Reidle(c)
  PROVE  IInv'
<1>1. /\ pc' \in [Callers -> Places] /\ pc'[c] = "flatten"
      /\ \A o \in Callers \ {c} : pc'[o] = pc[o]
  BY Moves DEF Reidle, IInv, Places, Restarting
<1>2. \A o \in Callers \ {c} : pc[o] \notin Restarting
  BY OneRestarts DEF Reidle, Restarting
<1>3. Made' = Made /\ Alive' = Alive
  BY DEF Reidle, scheds, Made, Alive
<1>4. ~overtaken => Alive = {}
  BY DEF Reidle, IInv, AliveWhere
<1>5. Typing' /\ MadeInOrder'
  BY <1>1, <1>3 DEF Reidle, locks, scheds, IInv, Typing, MadeInOrder
<1>6. MutexHeld'
  BY <1>1, <1>2, <1>3 DEF Reidle, locks, IInv, MutexHeld, MayMake, Restarting
<1>7. IdleWhileMaking'
  BY DEF Reidle, IdleWhileMaking
<1>8. JoinsNoNewer'
  BY <1>1, <1>3 DEF Reidle, scheds, IInv, JoinsNoNewer, Waiting
<1>9. AliveWhere' /\ IdleMeansIdle'
  BY <1>1, <1>3, <1>4 DEF Reidle, AliveWhere, IdleMeansIdle
<1> QED
  BY <1>5, <1>6, <1>7, <1>8, <1>9 DEF IInv

(* A graph that does not validate leaves the restart where nothing runs.   *)
LEMMA KeepFlatten ==
  ASSUME IInv, NEW c \in Callers, Flatten(c)
  PROVE  IInv'
<1> DEFINE where == IF connected \in Valid THEN "make" ELSE "out"
<1>1. Goto(c, where) /\ where \in Places
  BY DEF Flatten, Places, Restarting
<1>2. /\ pc' \in [Callers -> Places] /\ pc'[c] = where
      /\ \A o \in Callers \ {c} : pc'[o] = pc[o]
  <2> HIDE DEF where
  <2> QED
    BY <1>1, Moves DEF IInv
<1>3. \A o \in Callers \ {c} : pc[o] \notin Restarting
  BY OneRestarts DEF Flatten, Restarting
<1>4. ~overtaken => Alive = {}
  BY DEF Flatten, IInv, AliveWhere
<1>5. Made' = Made /\ Alive' = Alive
  BY DEF Flatten, scheds, Made, Alive
<1>6. Typing' /\ MadeInOrder'
  BY <1>2, <1>5 DEF Flatten, scheds, IInv, Typing, MadeInOrder
<1>7. MutexHeld'
  <2>1. CASE connected \in Valid
    BY <1>2, <1>3, <1>5, <2>1 DEF Flatten, IInv, MutexHeld, MayMake, Restarting
  <2>2. CASE connected \notin Valid
    BY <1>2, <1>3, <2>2 DEF MutexHeld, Restarting
  <2> QED
    BY <2>1, <2>2
<1>8. IdleWhileMaking'
  BY DEF Flatten, IInv, IdleWhileMaking
<1>9. JoinsNoNewer'
  BY <1>2, <1>5 DEF Flatten, scheds, IInv, JoinsNoNewer, Waiting
<1>10. AliveWhere' /\ IdleMeansIdle'
  BY <1>2, <1>4, <1>5 DEF Flatten, AliveWhere, IdleMeansIdle
<1> QED
  BY <1>6, <1>7, <1>8, <1>9, <1>10 DEF IInv

-----------------------------------------------------------------------------
LEMMA KeepIInv ==
  ASSUME IInv, [Next]_vars
  PROVE  IInv'
<1>1. ASSUME NEW c \in Callers, Call(c) PROVE IInv'
  <2>1. CASE Start(c)
    BY <2>1, KeepStart
  <2>2. CASE Stop(c)
    BY <2>2, KeepStop
  <2>3. CASE Wait(c)
    BY <2>3, KeepWait
  <2>4. CASE Lock(c) \/ Connect(c)
    BY <2>4, KeepStutter DEF Lock, Connect, locks, scheds, central
  <2>5. CASE Unlock(c)
    BY <2>5, KeepUnlock
  <2> QED
    BY <1>1, <2>1, <2>2, <2>3, <2>4, <2>5 DEF Call
<1>2. ASSUME NEW c \in Callers, Proceed(c) PROVE IInv'
  BY <1>2, KeepMakeScheduler, KeepAssignScheduler, KeepRunning, KeepJoin, KeepIdle,
     KeepRestart, KeepRejoin, KeepReidle, KeepFlatten DEF Proceed
<1>3. ASSUME NEW k \in Schedulers, Ended(k) PROVE IInv'
  BY <1>3, KeepEnded
<1>4. CASE UNCHANGED vars
  BY <1>4, KeepStutter DEF vars, locks, scheds, central
<1> QED
  BY <1>1, <1>2, <1>3, <1>4 DEF Next

-----------------------------------------------------------------------------
(***************************************************************************)
(* The locks, counted: d_lock_count is the number of locks the callers     *)
(* have yet to undo.  A sum over the callers is the size of a set, one     *)
(* element for each lock.                                                  *)
(***************************************************************************)
LocksOut == {lock \in Callers \X (1..MaxHeld) : lock[2] <= held[lock[1]]}

LocksCounted ==
  /\ held \in [Callers -> 0..MaxHeld]
  /\ d_lock_count = Cardinality(LocksOut)

LEMMA LockCountBounded ==
  ASSUME LocksCounted
  PROVE  /\ IsFiniteSet(LocksOut)
         /\ d_lock_count \in 0..Cardinality(Callers) * MaxHeld
<1> DEFINE all == Callers \X (1..MaxHeld)
<1>1. IsFiniteSet(1..MaxHeld) /\ Cardinality(1..MaxHeld) = MaxHeld
  BY CallersAssumption, FS_Interval
<1>2. IsFiniteSet(all) /\ Cardinality(all) = Cardinality(Callers) * MaxHeld
  BY <1>1, CallersAssumption, FS_Product
<1>3. LocksOut \in SUBSET all
  BY DEF LocksOut
<1>4. IsFiniteSet(LocksOut) /\ Cardinality(LocksOut) <= Cardinality(all)
  BY <1>2, <1>3, FS_Subset
<1>5. Cardinality(LocksOut) \in Nat /\ Cardinality(all) \in Nat
  BY <1>2, <1>4, FS_CardinalityType
<1> QED
  BY <1>2, <1>4, <1>5 DEF LocksCounted

(* Who holds a lock is counted: no call that needs the count to be zero    *)
(* runs beside a caller that still may connect.                            *)
LEMMA HeldIsCounted ==
  ASSUME LocksCounted, NEW c \in Callers, held[c] > 0
  PROVE  d_lock_count > 0
<1>1. <<c, held[c]>> \in LocksOut
  BY CallersAssumption DEF LocksOut, LocksCounted
<1>2. Cardinality(LocksOut) # 0
  BY <1>1, LockCountBounded, FS_EmptySet
<1> QED
  BY <1>2, LockCountBounded, CallersAssumption DEF LocksCounted

LEMMA LockIsCounted ==
  ASSUME LocksCounted, NEW c \in Callers, Lock(c)
  PROVE  LocksCounted'
<1> DEFINE lock == <<c, held[c] + 1>>
<1>1. held' \in [Callers -> 0..MaxHeld] /\ held'[c] = held[c] + 1
  BY CallersAssumption DEF Lock, LocksCounted
<1>2. lock \notin LocksOut
  BY DEF LocksOut, LocksCounted
<1>3. LocksOut' = LocksOut \cup {lock}
  BY <1>1, CallersAssumption DEF Lock, LocksOut, LocksCounted
<1>4. Cardinality(LocksOut') = Cardinality(LocksOut) + 1
  BY <1>2, <1>3, LockCountBounded, FS_AddElement
<1> QED
  BY <1>1, <1>4 DEF Lock, LocksCounted

LEMMA UnlockIsCounted ==
  ASSUME LocksCounted, NEW c \in Callers, Unlock(c)
  PROVE  LocksCounted'
<1>1. CASE d_lock_count' = d_lock_count /\ held' = held
  BY <1>1 DEF LocksCounted, LocksOut
<1>2. CASE /\ held[c] > 0
           /\ d_lock_count' = d_lock_count - 1
           /\ held' = [held EXCEPT ![c] = @ - 1]
  <2> DEFINE lock == <<c, held[c]>>
  <2>1. held' \in [Callers -> 0..MaxHeld] /\ held'[c] = held[c] - 1
    BY <1>2, CallersAssumption DEF LocksCounted
  <2>2. lock \in LocksOut
    BY <1>2, CallersAssumption DEF LocksOut, LocksCounted
  <2>3. LocksOut' = LocksOut \ {lock}
    BY <1>2, <2>1, CallersAssumption DEF LocksOut, LocksCounted
  <2>4. Cardinality(LocksOut') = Cardinality(LocksOut) - 1
    BY <2>2, <2>3, LockCountBounded, FS_RemoveElement
  <2> QED
    BY <1>2, <2>1, <2>4 DEF LocksCounted
<1> QED
  BY <1>1, <1>2 DEF Unlock, Repaired

-----------------------------------------------------------------------------
(***************************************************************************)
(* What a start or a restart brings up: while it goes on no lock is out,   *)
(* so that nobody reconnects, and from the flattening on d_ffg, and then   *)
(* the new scheduler, hold what is connected.                              *)
(***************************************************************************)
GraphTyping ==
  d_ffg \in Graphs /\ connected \in Graphs /\ runs \in [Schedulers -> Graphs]

BringsUp ==
  \A c \in Callers :
    /\ pc[c] \in Restarting => d_lock_count = 0
    /\ pc[c] = "flatten" => d_state = "IDLE"
    /\ pc[c] \in {"make", "assign", "running"} => d_ffg = connected
    /\ pc[c] = "assign" => Made # {} /\ runs[Cardinality(Made)] = d_ffg
    /\ pc[c] = "running" => d_scheduler # 0 /\ runs[d_scheduler] = d_ffg

CInv == GraphTyping /\ LocksCounted /\ BringsUp /\ RunsWhatIsConnected

LEMMA InitCInv == Init => CInv
<1> SUFFICES ASSUME Init PROVE CInv
  OBVIOUS
<1>1. LocksOut = {}
  BY DEF Init, LocksOut
<1>2. LocksCounted
  BY <1>1, FS_EmptySet, CallersAssumption DEF Init, LocksCounted
<1> QED
  BY <1>2, CallersAssumption
  DEF Init, CInv, GraphTyping, BringsUp, RunsWhatIsConnected, Restarting

(* Only lock() and unlock() touch the count.                               *)
LEMMA KeepCounted ==
  ASSUME CInv, [Next]_vars
  PROVE  LocksCounted'
<1>1. CASE UNCHANGED <<d_lock_count, held>>
  BY <1>1 DEF CInv, LocksCounted, LocksOut
<1>2. ASSUME NEW c \in Callers, Lock(c) PROVE LocksCounted'
  BY <1>2, LockIsCounted DEF CInv
<1>3. ASSUME NEW c \in Callers, Unlock(c) PROVE LocksCounted'
  BY <1>3, UnlockIsCounted DEF CInv
<1>4. \/ UNCHANGED <<d_lock_count, held>>
      \/ \E c \in Callers : Lock(c) \/ Unlock(c)
  BY DEF Next, Call, Proceed, Start, Stop, Wait, Connect, Ended, MakeScheduler,
     AssignScheduler, Running, Join, Idle, Restart, Rejoin, Reidle, Flatten, locks, vars
<1> QED
  BY <1>1, <1>2, <1>3, <1>4

(* A scheduler gets the graph flattened last, which was connected then.    *)
LEMMA KeepGraphTyping ==
  ASSUME CInv, [Next]_vars
  PROVE  GraphTyping'
<1>1. connected' = connected \/ connected' \in Graphs
  BY DEF Next, Call, Proceed, Start, Stop, Wait, Lock, Unlock, Connect, Ended,
     MakeScheduler, AssignScheduler, Running, Join, Idle, Restart, Rejoin, Reidle,
     Flatten, vars
<1>2. d_ffg' = d_ffg \/ d_ffg' = connected
  BY DEF Next, Call, Proceed, Start, Stop, Wait, Lock, Unlock, Connect, Ended,
     MakeScheduler, AssignScheduler, Running, Join, Idle, Restart, Rejoin, Reidle,
     Flatten, vars
<1>3. runs' = runs \/ runs' = [runs EXCEPT ![Cardinality(Made) + 1] = d_ffg]
  BY DEF Next, Call, Proceed, Start, Stop, Wait, Lock, Unlock, Connect, Ended,
     MakeScheduler, AssignScheduler, Running, Join, Idle, Restart, Rejoin, Reidle,
     Flatten, scheds, vars
<1> QED
  BY <1>1, <1>2, <1>3 DEF CInv, GraphTyping

(* Calls made while nobody starts or restarts the flowgraph.               *)
LEMMA KeepWhenFree ==
  ASSUME IInv, CInv, NEW c \in Callers,
         Start(c) \/ Lock(c) \/ Connect(c) \/ Unlock(c)
  PROVE  BringsUp' /\ RunsWhatIsConnected'
<1> USE DEF IInv, CInv, Typing, Restarting
<1>1. ASSUME d_mutex = Nobody PROVE \A o \in Callers : pc[o] \notin Restarting
  BY <1>1, FreeMutex
<1>2. CASE Start(c)
  <2>1. \A o \in Callers \ {c} : pc'[o] = pc[o] /\ pc[o] \notin Restarting
    BY <1>1, <1>2 DEF Start, Goto
  <2>2. pc[c] = "out" /\ pc'[c] \in {"out", "make"}
    BY <1>2 DEF Start, Goto
  <2>3. pc'[c] = "make" => d_lock_count' = 0 /\ d_ffg' = connected'
    BY <1>2, <2>2 DEF Start, Goto
  <2>4. BringsUp'
    BY <2>1, <2>2, <2>3 DEF BringsUp
  <2>5. RunsWhatIsConnected'
    BY <1>2, CallersAssumption DEF Start, scheds, RunsWhatIsConnected
  <2> QED
    BY <2>4, <2>5
<1>3. CASE Lock(c)
  <2>1. d_lock_count \in Nat /\ d_lock_count' = d_lock_count + 1
    BY <1>3, LockCountBounded DEF Lock
  <2>2. \A o \in Callers : pc'[o] \notin Restarting
    BY <1>1, <1>3 DEF Lock
  <2> QED
    BY <2>1, <2>2 DEF BringsUp, RunsWhatIsConnected
<1>4. CASE Connect(c)
  <2>1. d_lock_count' > 0
    BY <1>4, HeldIsCounted DEF Connect, locks
  <2>2. \A o \in Callers : pc'[o] \notin Restarting
    BY <1>4, <2>1 DEF Connect, locks, BringsUp
  <2> QED
    BY <2>1, <2>2 DEF BringsUp, RunsWhatIsConnected
<1>5. CASE Unlock(c)
  <2>1. \A o \in Callers \ {c} : pc'[o] = pc[o] /\ pc[o] \notin Restarting
    BY <1>1, <1>5 DEF Unlock, Goto
  <2>2. pc[c] = "out" /\ pc'[c] \in {"out", "restart"}
    BY <1>5 DEF Unlock, Goto
  <2>3. d_lock_count \in Nat
    BY LockCountBounded
  <2>4. pc'[c] = "restart" => d_lock_count' = 0
    BY <1>5, <2>2, <2>3 DEF Unlock, RestartAt, Goto
  <2>5. BringsUp'
    BY <2>1, <2>2, <2>4 DEF BringsUp
  <2>6. RunsWhatIsConnected'
    BY <1>5, <2>3, CallersAssumption
    DEF Unlock, Repaired, RestartAt, scheds, RunsWhatIsConnected
  <2> QED
    BY <2>5, <2>6
<1> QED
  BY <1>2, <1>3, <1>4, <1>5

(* wait() changes the state to IDLE at most.                               *)
LEMMA KeepWhenWaiting ==
  ASSUME IInv, CInv, NEW c \in Callers, Wait(c) \/ Join(c) \/ Idle(c)
  PROVE  BringsUp' /\ RunsWhatIsConnected'
<1>1. pc'[c] \in {"out", "join", "idle"} /\ \A o \in Callers \ {c} : pc'[o] = pc[o]
  BY DEF Wait, Join, Idle, Goto, IInv, Typing
<1>2. UNCHANGED <<locks, d_ffg, scheds, connected>> /\ d_state' \in {d_state, "IDLE"}
  BY DEF Wait, Join, Idle
<1>3. Made' = Made
  BY <1>2 DEF scheds, Made
<1> QED
  BY <1>1, <1>2, <1>3
  DEF locks, scheds, CInv, BringsUp, RunsWhatIsConnected, Restarting

(* stop() and threads that end touch no caller and no graph.               *)
LEMMA KeepWhenEnding ==
  ASSUME CInv, UNCHANGED <<locks, d_state, d_ffg, d_scheduler, runs, connected, pc>>,
         Made' = Made
  PROVE  BringsUp' /\ RunsWhatIsConnected'
BY DEF CInv, locks, BringsUp, RunsWhatIsConnected

(* start() and a restart, from the mutex taken to the mutex given back.    *)
LEMMA KeepWhenStarting ==
  ASSUME IInv, CInv, NEW c \in Callers,
         \/ MakeScheduler(c) \/ AssignScheduler(c) \/ Running(c)
         \/ Restart(c) \/ Rejoin(c) \/ Reidle(c) \/ Flatten(c)
  PROVE  BringsUp' /\ RunsWhatIsConnected'
<1>1. pc[c] \in Restarting /\ d_mutex = c /\ d_lock_count = 0 /\ d_lock_count' = 0
  BY DEF MakeScheduler, AssignScheduler, Running, Restart, Rejoin, Reidle, Flatten,
     Restarting, IInv, MutexHeld, CInv, BringsUp, locks
<1>2. \A o \in Callers \ {c} : pc'[o] \notin Restarting
  <2>1. \A o \in Callers \ {c} : pc[o] \notin Restarting
    BY <1>1, OneRestarts
  <2> QED
    BY <2>1 DEF MakeScheduler, AssignScheduler, Running, Restart, Rejoin, Reidle, Flatten,
       Goto, IInv, Typing
<1>3. c # Nobody
  BY CallersAssumption
<1>4. CASE MakeScheduler(c)
  <2> DEFINE k == Cardinality(Made) + 1
  <2>1. Cardinality(Made) \in 0..MaxSchedulers /\ MayMake /\ Made = 1..Cardinality(Made)
    BY <1>4 DEF MakeScheduler, IInv, MadeInOrder, MutexHeld, Restarting
  <2>2. k \in Schedulers /\ k \notin Made
    BY <2>1, CallersAssumption DEF MayMake, Schedulers
  <2>3. Made' = 1..k
    <3>1. Made' = Made \cup {k}
      BY <1>4, <2>2 DEF MakeScheduler, Made, IInv, Typing
    <3>2. 1..k = 1..Cardinality(Made) \cup {k}
      BY <2>1
    <3> QED
      BY <2>1, <3>1, <3>2
  <2>4. Cardinality(Made') = k /\ Made' # {}
    BY <2>1, <2>2, <2>3, Numbered, CallersAssumption DEF Schedulers
  <2>5. runs'[k] = d_ffg' /\ pc'[c] = "assign" /\ d_ffg' = connected'
    BY <1>4, <2>2
    DEF MakeScheduler, Goto, IInv, Typing, CInv, GraphTyping, BringsUp
  <2>6. BringsUp'
    BY <1>1, <1>2, <2>4, <2>5 DEF BringsUp, Restarting
  <2>7. RunsWhatIsConnected'
    BY <1>1, <1>3, <1>4 DEF MakeScheduler, locks, RunsWhatIsConnected
  <2> QED
    BY <2>6, <2>7
<1>5. CASE AssignScheduler(c)
  <2>1. Cardinality(Made) # 0
    <3>1. IsFiniteSet(Made)
      BY FS_Interval DEF IInv, MadeInOrder
    <3>2. Made # {}
      BY <1>5 DEF AssignScheduler, CInv, BringsUp
    <3> QED
      BY <3>1, <3>2, FS_EmptySet
  <2>2. d_scheduler' # 0 /\ runs'[d_scheduler'] = d_ffg' /\ d_ffg' = connected'
    BY <1>5, <2>1 DEF AssignScheduler, CInv, BringsUp
  <2>3. pc'[c] = "running"
    BY <1>5 DEF AssignScheduler, Goto, IInv, Typing
  <2>4. BringsUp'
    BY <1>1, <1>2, <2>2, <2>3 DEF BringsUp, Restarting
  <2>5. RunsWhatIsConnected'
    BY <1>1, <1>3, <1>5 DEF AssignScheduler, locks, RunsWhatIsConnected
  <2> QED
    BY <2>4, <2>5
<1>6. CASE Running(c)
  <2>1. pc'[c] = "out"
    BY <1>6 DEF Running, Goto, IInv, Typing
  <2>2. BringsUp'
    BY <1>2, <2>1 DEF BringsUp, Restarting
  <2>3. RunsWhatIsConnected'
    BY <1>6 DEF Running, scheds, CInv, BringsUp, RunsWhatIsConnected
  <2> QED
    BY <2>2, <2>3
<1>7. CASE Restart(c) \/ Rejoin(c) \/ Reidle(c)
  <2>1. /\ pc'[c] \in {"rejoin", "reidle", "flatten"}
        /\ pc'[c] = "flatten" => d_state' = "IDLE"
        /\ d_mutex' = c
    BY <1>1, <1>7 DEF Restart, Rejoin, Reidle, Goto, locks, IInv, Typing
  <2> QED
    BY <1>1, <1>2, <1>3, <2>1 DEF BringsUp, RunsWhatIsConnected, Restarting
<1>8. CASE Flatten(c)
  <2>1. d_state' = "IDLE"
    BY <1>8 DEF Flatten, CInv, BringsUp
  <2>2. /\ pc'[c] \in {"make", "out"}
        /\ pc'[c] = "make" => d_ffg' = connected'
    BY <1>8 DEF Flatten, Goto, IInv, Typing
  <2> QED
    BY <1>1, <1>2, <2>1, <2>2 DEF BringsUp, RunsWhatIsConnected, Restarting
<1> QED
  BY <1>4, <1>5, <1>6, <1>7, <1>8

LEMMA KeepCInv ==
  ASSUME IInv, CInv, [Next]_vars
  PROVE  CInv'
<1>1. GraphTyping' /\ LocksCounted'
  BY KeepGraphTyping, KeepCounted
<1>2. ASSUME NEW c \in Callers, Call(c) PROVE BringsUp' /\ RunsWhatIsConnected'
  <2>1. CASE Stop(c)
    <3>1. Made' = Made
      BY <2>1, InterruptEndsNothing DEF Stop, IInv, Typing
    <3> QED
      BY <2>1, <3>1, KeepWhenEnding DEF Stop
  <2> QED
    BY <1>2, <2>1, KeepWhenFree, KeepWhenWaiting DEF Call
<1>3. ASSUME NEW c \in Callers, Proceed(c) PROVE BringsUp' /\ RunsWhatIsConnected'
  BY <1>3, KeepWhenStarting, KeepWhenWaiting DEF Proceed
<1>4. ASSUME NEW k \in Schedulers, Ended(k) PROVE BringsUp' /\ RunsWhatIsConnected'
  <2>1. Made' = Made
    BY <1>4 DEF Ended, Made, Alive, IInv, Typing
  <2> QED
    BY <1>4, <2>1, KeepWhenEnding DEF Ended
<1>5. UNCHANGED vars => BringsUp' /\ RunsWhatIsConnected'
  BY KeepWhenEnding DEF vars, locks, scheds, Made
<1> QED
  BY <1>1, <1>2, <1>3, <1>4, <1>5 DEF Next, CInv

(***************************************************************************)
(* However many threads call start, stop, wait, lock and unlock, two       *)
(* schedulers never have threads at once, unless a wait() was overtaken by *)
(* a start or a restart and threads are left from then.                    *)
(***************************************************************************)
THEOREM TopBlockOneScheduler == Spec => []OneScheduler
<1>1. IInv => OneScheduler
  <2> SUFFICES ASSUME IInv PROVE OneScheduler
    OBVIOUS
  <2>1. CASE \A c \in Callers : pc[c] # "assign"
    BY <2>1 DEF IInv, AliveWhere, OneScheduler
  <2>2. CASE \E c \in Callers : pc[c] = "assign"
    BY <2>2 DEF IInv, AliveWhere, OneScheduler
  <2> QED
    BY <2>1, <2>2
<1>2. IInv /\ [Next]_vars => IInv'
  BY KeepIInv
<1> QED
  BY <1>1, <1>2, InitIInv, PTL DEF Spec

(***************************************************************************)
(* When d_state says IDLE, nobody starts or restarts and no wait() was     *)
(* overtaken, nothing runs, after a restart that failed as well.           *)
(***************************************************************************)
THEOREM TopBlockIdle == Spec => []IdleIsIdle
<1>1. IInv => IdleIsIdle
  BY FreeMutex DEF IInv, IdleMeansIdle, IdleIsIdle
<1>2. IInv /\ [Next]_vars => IInv'
  BY KeepIInv
<1> QED
  BY <1>1, <1>2, InitIInv, PTL DEF Spec

(***************************************************************************)
(* A wait() returns when what it found, and all that is older, has ended:  *)
(* whatever runs then was made beside it by another thread.                *)
(***************************************************************************)
THEOREM TopBlockWait == Spec => WaitIsForCompletion
<1>1. IInv /\ [Next]_vars =>
        [\A c \in Callers :
           pc[c] = "idle" /\ pc'[c] = "out" /\ ~overtaken =>
             \A k \in Alive : joining[c] < k]_vars
  <2> SUFFICES ASSUME IInv, NEW c \in Callers, pc[c] = "idle", ~overtaken,
                      NEW k \in Alive
               PROVE  joining[c] < k
    OBVIOUS
  <2>1. joining[c] <= d_scheduler /\ joining[c] # k
    BY DEF IInv, JoinsNoNewer, Waiting
  <2>2. d_scheduler <= k
    <3>1. CASE \A o \in Callers : pc[o] # "assign"
      BY <3>1 DEF IInv, Typing, AliveWhere
    <3>2. CASE \E o \in Callers : pc[o] = "assign"
      BY <3>2 DEF IInv, MadeInOrder, AliveWhere
    <3> QED
      BY <3>1, <3>2
  <2>3. joining[c] \in Int /\ d_scheduler \in Int /\ k \in Int
    BY DEF IInv, Typing, Alive, Schedulers
  <2> QED
    BY <2>1, <2>2, <2>3
<1>2. IInv /\ [Next]_vars => IInv'
  BY KeepIInv
<1> QED
  BY <1>1, <1>2, InitIInv, PTL DEF Spec, WaitIsForCompletion

(***************************************************************************)
(* Every variable keeps its type, and d_lock_count stays the number of     *)
(* locks that are out, so that an unpaired unlock() does no harm.          *)
(***************************************************************************)
THEOREM TopBlockTyping == Spec => []TypeOK
<1>1. IInv /\ CInv => TypeOK
  BY LockCountBounded
  DEF IInv, CInv, Typing, Places, GraphTyping, LocksCounted, TypeOK
<1>2. IInv /\ CInv /\ [Next]_vars => IInv' /\ CInv'
  BY KeepIInv, KeepCInv
<1> QED
  BY <1>1, <1>2, InitIInv, InitCInv, PTL DEF Spec

(***************************************************************************)
(* Once the last lock is undone what runs is what was connected last, for  *)
(* any number of callers that lock, connect and unlock in any nesting.     *)
(***************************************************************************)
THEOREM TopBlockRuns == Spec => []RunsWhatIsConnected
<1>1. CInv => RunsWhatIsConnected
  BY DEF CInv
<1>2. IInv /\ CInv /\ [Next]_vars => IInv' /\ CInv'
  BY KeepIInv, KeepCInv
<1> QED
  BY <1>1, <1>2, InitIInv, InitCInv, PTL DEF Spec
=============================================================================
