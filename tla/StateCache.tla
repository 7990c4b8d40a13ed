----------------------------- MODULE StateCache -----------------------------
(***************************************************************************)
(* The undo list of the companion (src/grc/gui/StateCache.py): a circular  *)
(* array of recorded flow graphs, the index of the current one, and how    *)
(* many slots before and after it hold states that can be undone and       *)
(* redone.  A cache is a record; the operators are the methods, which the  *)
(* pages of Editor.tla call.                                               *)
(***************************************************************************)
EXTENDS Integers, Sequences

CONSTANTS STATE_CACHE_SIZE,  \* slots of the array (42 in gui/Constants.py)
          Graphs,            \* the flow graphs that can be recorded
          NoState            \* None

ASSUME SizeAssumption == STATE_CACHE_SIZE \in Nat \ {0}
ASSUME NoStateAssumption == NoState \notin Graphs

Slots == 0..(STATE_CACHE_SIZE - 1)

CacheType == [states : [Slots -> Graphs \cup {NoState}], current : Slots,
              num_prev : Nat, num_next : Nat]

NewCache(initial_state) ==
  [states |-> [i \in Slots |-> IF i = 0 THEN initial_state ELSE NoState],
   current |-> 0, num_prev |-> 0, num_next |-> 0]

\* Mutant: the index runs out of the array.
NextSlotUnwrapped(i) == i + 1

NextSlot(i) == (i + 1) % STATE_CACHE_SIZE
PrevSlot(i) == (i + STATE_CACHE_SIZE - 1) % STATE_CACHE_SIZE

\* Mutant: the count of states that can be undone is not limited.
SaveUnlimited(c, state) ==
  [states   |-> [c.states EXCEPT ![NextSlot(c.current)] = state],
   current  |-> NextSlot(c.current),
   num_prev |-> c.num_prev + 1, num_next |-> 0]

SaveNewState(c, state) ==
  [states   |-> [c.states EXCEPT ![NextSlot(c.current)] = state],
   current  |-> NextSlot(c.current),
   num_prev |-> IF c.num_prev + 1 = STATE_CACHE_SIZE THEN STATE_CACHE_SIZE - 1
                                                     ELSE c.num_prev + 1,
   num_next |-> 0]

CurrentState(c) == c.states[c.current]

\* get_prev_state and get_next_state return None and change nothing when the
\* count is zero: the caller tests CanUndo or CanRedo
CanUndo(c) == c.num_prev > 0
CanRedo(c) == c.num_next > 0

ToPrevState(c) ==
  [c EXCEPT !.current = PrevSlot(@), !.num_next = @ + 1, !.num_prev = @ - 1]

ToNextState(c) ==
  [c EXCEPT !.current = NextSlot(@), !.num_next = @ - 1, !.num_prev = @ + 1]

-----------------------------------------------------------------------------
(* How the array reads as a history: the i-th state of the past and of the  *)
(* future.                                                                  *)

Past(c) ==
  [i \in 1..c.num_prev |->
     c.states[(c.current + STATE_CACHE_SIZE - c.num_prev + i - 1) % STATE_CACHE_SIZE]]

Future(c) ==
  [i \in 1..c.num_next |-> c.states[(c.current + i) % STATE_CACHE_SIZE]]

\* the past, the present and the future fit in the array without overlap
Fits(c) == c.num_prev + c.num_next <= STATE_CACHE_SIZE - 1
=============================================================================
