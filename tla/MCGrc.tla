------------------------------- MODULE MCGrc -------------------------------
(* GrcEdits.tla on small flow graphs.                                       *)
EXTENDS GrcEdits

P(e) == [expr |-> e, enabled |-> TRUE]
One == Number(1)
Two == Number(2)

MCCloned == [b \in Ids |-> IF b \in {"adder", "mixer"} THEN {"sink"} ELSE {}]
MCFixed == [b \in Ids |-> [d \in Dirs |-> IF b \in {"tone", "tone_0"} /\ d = "source" THEN 1 ELSE 0]]
MCCopyOf == [b \in Ids |-> IF b = "tone" THEN "tone_0" ELSE "mixer"]
MCExprs == [n |-> {One, Two, Name("m")}, m |-> {Two, Name("n")}, adder |-> {One, Name("n")},
            mixer |-> {Two, Name("n")}, tone |-> {}, tone_0 |-> {}]

Blk(b, e) == [id |-> b, param |-> P(e)]
Opt == [id |-> "options", param |-> << >>]
C(b, j) == Connection("tone", 0, b, j)

\* two blocks with as many inputs as n says; a variable that depends on another
MCFiles == {
  [blocks |-> <<Opt, Blk("n", Two), Blk("tone", One), Blk("adder", Name("n")),
                Blk("mixer", Name("n"))>>,
   connections |-> <<C("adder", 1), C("mixer", 1)>>],
  [blocks |-> <<Opt, Blk("n", Name("m")), Blk("m", Two), Blk("tone", One),
                Blk("adder", Name("n"))>>,
   connections |-> <<C("adder", 1)>>] }
=============================================================================
