------------------------------- MODULE MCFlat -------------------------------
(* FlatFlowgraph over four blocks: a sink, an adder with history, a source *)
(* and a decimator that can stand before or behind the adder.              *)
EXTENDS FlatFlowgraph

NoLimit == -1
Sink == 1
Adder == 2
Source == 3
Decim == 4
FourBlocks == 1..4

Streams(least, most) == [min |-> least, max |-> most, size |-> 2]
FourSignatures ==
  [b \in FourBlocks |->
     CASE b = Sink -> [in |-> Streams(1, 2), out |-> Streams(0, 0)]
       [] b = Adder -> [in |-> Streams(1, Infinite), out |-> Streams(1, 1)]
       [] b = Source -> [in |-> Streams(0, 0), out |-> Streams(1, 2)]
       [] OTHER -> [in |-> Streams(1, 1), out |-> Streams(1, 1)]]

Plain == [history |-> 1, multiple |-> 1, decimation |-> 1, least |-> -1, most |-> -1]
FourSettings ==
  [b \in FourBlocks |->
     CASE b = Adder -> [Plain EXCEPT !.history = 2]
       [] b = Decim -> [Plain EXCEPT !.decimation = 2, !.multiple = 2, !.least = 7]
       [] OTHER -> Plain]

Cable(b, p, c, q) == [src |-> <<b, p>>, dst |-> <<c, q>>]
SomeCables ==
  {Cable(Source, 0, Adder, 0), Cable(Adder, 0, Sink, 0), Cable(Source, 0, Sink, 0),
   Cable(Source, 1, Sink, 1), Cable(Adder, 0, Decim, 0), Cable(Decim, 0, Adder, 1)}

OneMsgCable == {[src |-> <<Adder, 0>>, dst |-> <<Sink, 0>>]}

(* Every arrow between two blocks, each into a port of its own.            *)
AllArrows == {Cable(b, 0, c, b) : <<b, c>> \in {a \in FourBlocks \X FourBlocks : a[1] # a[2]}}
=============================================================================
