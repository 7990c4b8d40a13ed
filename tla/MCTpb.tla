------------------------------- MODULE MCTpb --------------------------------
(* TpbScheduler on small flowgraphs.                                       *)
EXTENDS TpbScheduler, TLC

CONSTANTS src, one, two, add, snk,     \* blocks
          s, a, b                      \* buffers

Plain == [fixed_rate |-> TRUE, up |-> 1, down |-> 1, history |-> 1,
          multiple |-> 1, multiple_set |-> FALSE,
          min_noutput |-> 0, max_noutput |-> 0]

DecimateBy2 == [Plain EXCEPT !.down = 2]

Nothing == {}

-----------------------------------------------------------------------------
(* src -> one -> snk                                                       *)
ChainBlocks == {src, one, snk}
ChainBuffers == {s, a}
ChainIns == (src :> << >>) @@ (one :> <<s>>) @@ (snk :> <<a>>)
ChainOuts == (src :> <<s>>) @@ (one :> <<a>>) @@ (snk :> << >>)
ChainReaders == (s :> <<<<one, 1>>>>) @@ (a :> <<<<snk, 1>>>>)
ChainOrder == <<src, one, snk>>
ChainRate == [blk \in ChainBlocks |-> Plain]
ChainDecimating == [ChainRate EXCEPT ![one] = DecimateBy2]
ChainSupply == (src :> 6) @@ (one :> Endless) @@ (snk :> Endless)
ChainSizes6 == (s :> 6) @@ (a :> 4)
NoOwnMax == [blk \in ChainBlocks |-> 0]
OnlyOne == {one}

-----------------------------------------------------------------------------
(* src -> {one, two} -> add, a sink: src's one buffer has two readers, and *)
(* add needs both branches.                                                *)
DiamondBlocks == {src, one, two, add}
DiamondBuffers == {s, a, b}
DiamondIns == (src :> << >>) @@ (one :> <<s>>) @@ (two :> <<s>>) @@ (add :> <<a, b>>)
DiamondOuts == (src :> <<s>>) @@ (one :> <<a>>) @@ (two :> <<b>>) @@ (add :> << >>)
DiamondReaders == (s :> <<<<one, 1>>, <<two, 1>>>>) @@ (a :> <<<<add, 1>>>>)
                    @@ (b :> <<<<add, 2>>>>)
DiamondOrder == <<src, one, two, add>>
DiamondRate == [blk \in DiamondBlocks |-> Plain]
DiamondSupply == [blk \in DiamondBlocks |-> IF blk = src THEN 3 ELSE Endless]
(* one is a head of a single item beside two, which wants all of them.     *)
HeadBeside == [DiamondSupply EXCEPT ![src] = 6, ![one] = 1]
DiamondSizes == (s :> 2) @@ (a :> 3) @@ (b :> 2)
BesideSizes == [buf \in DiamondBuffers |-> 4]
DiamondOwnMax == [blk \in DiamondBlocks |-> 0]

=============================================================================
