------------------------------ MODULE TopBlock ------------------------------
(***************************************************************************)
(* top_block_impl: starting, stopping, waiting for and reconfiguring a     *)
(* flowgraph, called from any number of application threads.               *)
(*                                                                         *)
(* start, lock and unlock hold d_mutex; stop and wait take no lock, and    *)
(* restart, called by unlock with d_mutex held, goes through both.  So any *)
(* number of wait()s go on beside each other and beside a start or a       *)
(* restart, and each writes IDLE when its own join is over.  Each          *)
(* scheduler ever made is a generation of threads: it runs the flattened   *)
(* graph it was made from, and its threads end by themselves or after      *)
(* being interrupted (TpbScheduler shows that they do).                    *)
(*                                                                         *)
(* A graph is one of a few values, some of which validate() rejects.       *)
(***************************************************************************)
EXTENDS Integers, FiniteSets

CONSTANTS
  Callers,          \* application threads
  Nobody,
  Graphs, Valid,    \* what can be connected, and what validate() accepts
  First,            \* what is connected at first
  Calls,            \* caller -> the calls it makes
  MaxSchedulers,    \* bound: schedulers made
  MaxHeld           \* bound: locks held by one caller

ASSUME CallersAssumption ==
  /\ Nobody \notin Callers /\ IsFiniteSet(Callers)
  /\ Valid \subseteq Graphs /\ First \in Graphs
  /\ MaxSchedulers \in Nat /\ MaxHeld \in Nat

VARIABLES
  d_mutex,          \* who holds it
  d_state,          \* "IDLE" or "RUNNING"
  d_lock_count,
  d_ffg,            \* the graph last flattened
  d_scheduler,      \* the current scheduler, 0 for none
  threads,          \* scheduler -> its threads: "none" before it is made,
                    \* "running", "interrupted", "ended"
  runs,             \* scheduler -> the graph it was made from
  connected,        \* what the application has connected by now
  pc, joining,      \* where each caller is; the scheduler it waits for
  held,             \* locks each caller has yet to undo
  overtaken         \* history: a wait() wrote IDLE over a scheduler made since
                    \* it began, and threads are left from then

locks == <<d_mutex, d_lock_count, held>>
scheds == <<d_scheduler, threads, runs>>
vars == <<locks, d_state, d_ffg, scheds, connected, pc, joining, overtaken>>

Schedulers == 1..MaxSchedulers
Made == {k \in Schedulers : threads[k] # "none"}
Alive == {k \in Schedulers : threads[k] \in {"running", "interrupted"}}

Init ==
  /\ d_mutex = Nobody
  /\ d_state = "IDLE"
  /\ d_lock_count = 0
  /\ d_ffg = First
  /\ d_scheduler = 0
  /\ threads = [k \in Schedulers |-> "none"]
  /\ runs = [k \in Schedulers |-> First]
  /\ connected = First
  /\ pc = [c \in Callers |-> "out"]
  /\ joining = [c \in Callers |-> 0]
  /\ held = [c \in Callers |-> 0]
  /\ overtaken = FALSE

Goto(c, where) == pc' = [pc EXCEPT ![c] = where]

(* Where a caller is inside wait(), and inside start() or unlock().        *)
Waiting == {"join", "idle"}
Restarting == {"restart", "rejoin", "reidle", "flatten", "make", "assign", "running"}

(* The bound on schedulers, in every call that may come to make one.       *)
MayMake == Cardinality(Made) < MaxSchedulers

-----------------------------------------------------------------------------
(***************************************************************************)
(* start: refused while running or locked, or if the graph is not valid;   *)
(* d_ffg is set before the graph is validated.                             *)
(***************************************************************************)
Start(c) ==
  /\ pc[c] = "out" /\ d_mutex = Nobody
  /\ MayMake
  /\ \/ /\ d_state # "IDLE" \/ d_lock_count > 0
        /\ UNCHANGED <<d_mutex, d_ffg, pc>>
     \/ /\ d_state = "IDLE" /\ d_lock_count = 0
        /\ d_ffg' = connected
        /\ IF connected \in Valid THEN d_mutex' = c /\ Goto(c, "make")
           ELSE UNCHANGED <<d_mutex, pc>>
  /\ UNCHANGED <<d_state, d_lock_count, held, scheds, connected, joining, overtaken>>

(* make_scheduler starts the threads before d_scheduler is assigned.       *)
MakeScheduler(c) ==
  /\ pc[c] = "make"
  /\ LET k == Cardinality(Made) + 1
     IN /\ threads' = [threads EXCEPT ![k] = "running"]
        /\ runs' = [runs EXCEPT ![k] = d_ffg]
  /\ Goto(c, "assign")
  /\ UNCHANGED <<locks, d_state, d_ffg, d_scheduler, connected, joining, overtaken>>

Interrupt(k) ==
  threads' = IF k # 0 /\ threads[k] = "running"
             THEN [threads EXCEPT ![k] = "interrupted"] ELSE threads

(* The assignment destroys the old scheduler, whose destructor stops it.   *)
AssignScheduler(c) ==
  /\ pc[c] = "assign"
  /\ d_scheduler' = Cardinality(Made)
  /\ Interrupt(d_scheduler)
  /\ Goto(c, "running")
  /\ UNCHANGED <<locks, d_state, d_ffg, runs, connected, joining, overtaken>>

Running(c) ==
  /\ pc[c] = "running"
  /\ d_state' = "RUNNING"
  /\ d_mutex' = Nobody
  /\ Goto(c, "out")
  /\ UNCHANGED <<d_lock_count, held, d_ffg, scheds, connected, joining, overtaken>>

(* stop: without the mutex.                                                *)
Stop(c) ==
  /\ pc[c] = "out"
  /\ Interrupt(d_scheduler)
  /\ UNCHANGED <<locks, d_state, d_ffg, d_scheduler, runs, connected, pc, joining,
                 overtaken>>

(* wait: without the mutex; with no scheduler there is nothing to join.    *)
Wait(c) ==
  /\ pc[c] = "out"
  /\ joining' = [joining EXCEPT ![c] = d_scheduler]
  /\ Goto(c, "join")
  /\ UNCHANGED <<locks, d_state, d_ffg, scheds, connected, overtaken>>

(* Mutant: join_all does not wait for the threads.                         *)
JoinedAtOnce(k) == TRUE

Joined(k) == k \notin Alive

Join(c) ==
  /\ pc[c] = "join" /\ Joined(joining[c])
  /\ Goto(c, "idle")
  /\ UNCHANGED <<locks, d_state, d_ffg, scheds, connected, joining, overtaken>>

(* By now another thread may have started or restarted the flowgraph: what *)
(* is overwritten is the state of a scheduler this wait() never joined.    *)
Overtakes(c) == d_state = "RUNNING" /\ joining[c] # d_scheduler

Idle(c) ==
  /\ pc[c] = "idle"
  /\ d_state' = "IDLE"
  /\ joining' = [joining EXCEPT ![c] = 0]
  /\ overtaken' = (Alive # {} /\ (overtaken \/ Overtakes(c)))
  /\ Goto(c, "out")
  /\ UNCHANGED <<locks, d_ffg, scheds, connected>>

-----------------------------------------------------------------------------
Lock(c) ==
  /\ pc[c] = "out" /\ d_mutex = Nobody /\ held[c] < MaxHeld
  /\ d_lock_count' = d_lock_count + 1
  /\ held' = [held EXCEPT ![c] = @ + 1]
  /\ UNCHANGED <<d_mutex, d_state, d_ffg, scheds, connected, pc, joining, overtaken>>

(* Between lock and unlock the application connects and disconnects.       *)
Connect(c) ==
  /\ pc[c] = "out" /\ held[c] > 0
  /\ \E g \in Graphs : connected' = g
  /\ UNCHANGED <<locks, d_state, d_ffg, scheds, pc, joining, overtaken>>

(***************************************************************************)
(* unlock: an unpaired one throws; the last one restarts a flowgraph that  *)
(* is not idle, keeping the mutex.                                         *)
(***************************************************************************)
(* Mutant: an inner unlock already restarts, and the last one does not.    *)
RestartAtInner(count) == count = 1 /\ d_state # "IDLE"

RestartAt(count) == count = 0 /\ d_state # "IDLE"

(* Mutant: an unpaired unlock counts down before it complains.             *)
CountedDown(count) == count - 1

Repaired(count) == 0

Unlock(c) ==
  /\ pc[c] = "out" /\ d_mutex = Nobody
  /\ MayMake
  /\ \/ /\ d_lock_count = 0
        /\ d_lock_count' = Repaired(d_lock_count)
        /\ UNCHANGED <<d_mutex, held, pc>>
     \/ /\ held[c] > 0
        /\ d_lock_count' = d_lock_count - 1
        /\ held' = [held EXCEPT ![c] = @ - 1]
        /\ IF RestartAt(d_lock_count - 1) THEN d_mutex' = c /\ Goto(c, "restart")
           ELSE UNCHANGED <<d_mutex, pc>>
  /\ UNCHANGED <<d_state, d_ffg, scheds, connected, joining, overtaken>>

(***************************************************************************)
(* restart: stop, wait, flatten what is connected now, validate, merge,    *)
(* and make a new scheduler.  A graph that is not valid makes it throw,    *)
(* with d_ffg as it was and the state IDLE.                                *)
(***************************************************************************)
(* Mutant: the old threads are left to end by themselves.                  *)
StopNothing(k) == UNCHANGED threads

StopFirst(k) == Interrupt(k)

Restart(c) ==
  /\ pc[c] = "restart"
  /\ StopFirst(d_scheduler)
  /\ joining' = [joining EXCEPT ![c] = d_scheduler]
  /\ Goto(c, "rejoin")
  /\ UNCHANGED <<locks, d_state, d_ffg, d_scheduler, runs, connected, overtaken>>

Rejoin(c) ==
  /\ pc[c] = "rejoin" /\ Joined(joining[c])
  /\ joining' = [joining EXCEPT ![c] = 0]
  /\ Goto(c, "reidle")
  /\ UNCHANGED <<locks, d_state, d_ffg, scheds, connected, overtaken>>

Reidle(c) ==
  /\ pc[c] = "reidle"
  /\ d_state' = "IDLE"
  /\ Goto(c, "flatten")
  /\ UNCHANGED <<locks, d_ffg, scheds, connected, joining, overtaken>>

Flatten(c) ==
  /\ pc[c] = "flatten"
  /\ IF connected \in Valid
     THEN d_ffg' = connected /\ Goto(c, "make") /\ UNCHANGED d_mutex
     ELSE d_mutex' = Nobody /\ Goto(c, "out") /\ UNCHANGED d_ffg
  /\ UNCHANGED <<d_lock_count, held, d_state, scheds, connected, joining, overtaken>>

-----------------------------------------------------------------------------
(* The threads of a scheduler have all ended.                              *)
Ended(k) ==
  /\ k \in Alive
  /\ threads' = [threads EXCEPT ![k] = "ended"]
  /\ overtaken' = (overtaken /\ Alive # {k})
  /\ UNCHANGED <<locks, d_state, d_ffg, d_scheduler, runs, connected, pc, joining>>

(* What a caller inside a call does next.                                  *)
Proceed(c) ==
  \/ MakeScheduler(c) \/ AssignScheduler(c) \/ Running(c) \/ Join(c) \/ Idle(c)
  \/ Restart(c) \/ Rejoin(c) \/ Reidle(c) \/ Flatten(c)

Call(c) ==
  \/ "start" \in Calls[c] /\ Start(c)
  \/ "stop" \in Calls[c] /\ Stop(c)
  \/ "wait" \in Calls[c] /\ Wait(c)
  \/ "lock" \in Calls[c] /\ (Lock(c) \/ Connect(c) \/ Unlock(c))

Next ==
  \/ \E c \in Callers : Call(c) \/ Proceed(c)
  \/ \E k \in Schedulers : Ended(k)

(* A call goes on, and threads that were interrupted end.                  *)
Spec ==
  /\ Init /\ [][Next]_vars
  /\ \A c \in Callers : WF_vars(Proceed(c))
  /\ \A k \in Schedulers : WF_vars(threads[k] = "interrupted" /\ Ended(k))

-----------------------------------------------------------------------------
TypeOK ==
  /\ d_mutex \in Callers \cup {Nobody}
  /\ d_state \in {"IDLE", "RUNNING"}
  /\ d_lock_count \in 0..Cardinality(Callers) * MaxHeld
  /\ d_ffg \in Graphs /\ connected \in Graphs
  /\ d_scheduler \in 0..MaxSchedulers
  /\ threads \in [Schedulers -> {"none", "running", "interrupted", "ended"}]
  /\ runs \in [Schedulers -> Graphs]
  /\ pc \in [Callers -> {"out"} \cup Waiting \cup Restarting]
  /\ joining \in [Callers -> 0..MaxSchedulers]
  /\ held \in [Callers -> 0..MaxHeld]
  /\ overtaken \in BOOLEAN

(***************************************************************************)
(* Two schedulers never have threads at the same time: they would run the  *)
(* same blocks on the same buffers.  The one way to it is a wait() that    *)
(* was overtaken by a start or a restart: its IDLE lets start() make a     *)
(* second scheduler.                                                       *)
(***************************************************************************)
OneScheduler == ~overtaken => \A j, k \in Alive : j = k

(***************************************************************************)
(* IDLE means that nothing runs, so that start() is safe and unlock() has  *)
(* nothing to restart; it holds after a restart that failed as well.  Only *)
(* a wait() that joined an older scheduler writes it too soon.             *)
(***************************************************************************)
IdleIsIdle == d_state = "IDLE" /\ d_mutex = Nobody /\ ~overtaken => Alive = {}

(***************************************************************************)
(* Once every lock is undone, what runs is what was connected last.        *)
(***************************************************************************)
RunsWhatIsConnected ==
  d_state = "RUNNING" /\ d_lock_count = 0 /\ d_mutex = Nobody =>
    d_scheduler # 0 /\ runs[d_scheduler] = connected

(***************************************************************************)
(* top_block.h: "Wait for a flowgraph to complete".  What the code keeps   *)
(* of it, with any number of wait()s, starts and restarts side by side:    *)
(* when a wait() returns, whatever runs was made while it waited, by a     *)
(* start or an unlock in another thread; of what it found, and of anything *)
(* older, nothing is left.                                                 *)
(***************************************************************************)
WaitIsForCompletion ==
  [][\A c \in Callers :
       pc[c] = "idle" /\ pc'[c] = "out" /\ ~overtaken =>
         \A k \in Alive : joining[c] < k]_vars

(***************************************************************************)
(* unlock() returns, whatever the flowgraph does: it stops it first.       *)
(***************************************************************************)
UnlockReturns == \A c \in Callers : pc[c] = "restart" ~> pc[c] = "out"
=============================================================================
