---------------------------- MODULE UndoHistory ----------------------------
(***************************************************************************)
(* What an editor promises of undo and redo: a history is a present state, *)
(* the states before it and the states after it.  A new state makes the    *)
(* present the latest of the past and forgets the future; undo and redo    *)
(* move the present one place without losing anything.  At most Depth      *)
(* states are remembered behind or ahead of the present: a new state       *)
(* beyond that forgets the oldest one.                                     *)
(***************************************************************************)
EXTENDS Naturals, Sequences

CONSTANTS State,  \* the states that can be recorded
          Depth   \* how many of them can be undone

VARIABLES past, present, future

history == <<past, present, future>>

Begin(s) == past = << >> /\ present = s /\ future = << >>

Record(s) ==
  /\ past' = IF Len(past) = Depth THEN Tail(Append(past, present))
                                  ELSE Append(past, present)
  /\ present' = s
  /\ future' = << >>

Undo ==
  /\ past # << >>
  /\ past' = SubSeq(past, 1, Len(past) - 1)
  /\ present' = past[Len(past)]
  /\ future' = <<present>> \o future

Redo ==
  /\ future # << >>
  /\ past' = Append(past, present)
  /\ present' = Head(future)
  /\ future' = Tail(future)

Next == Undo \/ Redo \/ \E s \in State : Record(s)

Spec == (\E s \in State : Begin(s)) /\ [][Next]_history
=============================================================================
