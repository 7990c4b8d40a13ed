------------------------------- MODULE MCHier -------------------------------
(* HierBlock over three applications: streams through two levels, with     *)
(* connections that cannot stand together; messages through a hierarchical *)
(* block beside a direct one; messages that come back to the block that    *)
(* sent them, and go one level deeper.                                     *)
EXTENDS HierBlock

NoLimit == -1
(* The top block; one hierarchical block inside another, for streams and   *)
(* for messages; and their leaves.                                         *)
TB == 1
HB == 2
HA == 3
Src == 4
Snk == 5
Mid == 6
End == 7
MB == 8
MA == 9
Post == 10
Box == 11
Via == 12
Deep == 13
AllBlocks == 1..13
FiveHiers == {TB, HA, HB, MA, MB}

Streams(least, most) == [min |-> least, max |-> most, size |-> 2]
AllSignatures ==
  [b \in AllBlocks |->
     CASE b = HA -> [in |-> Streams(2, 2), out |-> Streams(1, 1)]
       [] b = Src -> [in |-> Streams(0, 0), out |-> Streams(1, 1)]
       [] b = Snk -> [in |-> Streams(1, 2), out |-> Streams(0, 0)]
       [] b \in {HB, Mid} -> [in |-> Streams(1, 1), out |-> Streams(1, 1)]
       [] b = End -> [in |-> [min |-> 1, max |-> 1, size |-> 2],
                      out |-> [min |-> 1, max |-> 1, size |-> 4]]
       [] OTHER -> [in |-> Streams(0, 0), out |-> Streams(0, 0)]]

(* A message port "i" takes messages in from outside, "o" sends them out.  *)
MsgBlocksIn == [b \in AllBlocks |->
                  CASE b \in {Box, Via, Deep} -> {"i"} [] b \in {MA, MB} -> {"o"} [] OTHER -> {}]
MsgBlocksOut == [b \in AllBlocks |->
                   CASE b \in {Post, Via} -> {"o"} [] b \in {MA, MB} -> {"i"} [] OTHER -> {}]

Cable(b, p, c, q) == [src |-> <<b, p>>, dst |-> <<c, q>>]
Graph(edges, msgs, singles) == [edges |-> edges, msgs |-> msgs, singles |-> singles]

(* HA's inputs may both go to Mid, which has one port, or past its ports;  *)
(* HB's output is of another size than End's.                              *)
StreamApp ==
  [h \in {TB, HA, HB} |->
     CASE h = TB -> Graph({Cable(Src, 0, HA, 0), Cable(Src, 0, HA, 1), Cable(HA, 0, Snk, 0),
                           Cable(Src, 0, Snk, 0), Cable(Src, 0, Src, 0)}, {}, {HA})
       [] h = HA -> Graph({Cable(HA, 0, Mid, 0), Cable(HA, 1, Mid, 0), Cable(HA, 1, Mid, 1),
                           Cable(Mid, 0, HA, 0), Cable(HA, 1, HB, 0), Cable(HB, 0, HA, 0)}, {}, {})
       [] OTHER -> Graph({Cable(HB, 0, End, 0), Cable(End, 0, HB, 0)}, {}, {})]

BesideApp ==
  [h \in {TB, MA} |->
     IF h = TB THEN Graph({}, {Cable(Post, "o", MA, "i"), Cable(MA, "o", Box, "i"),
                               Cable(Post, "o", Box, "i")}, {MA, Post})
     ELSE Graph({}, {Cable(MA, "i", Via, "i"), Cable(Via, "o", MA, "o"), Cable(MA, "i", MA, "o")}, {})]

BackApp ==
  [h \in {TB, MA, MB} |->
     CASE h = TB -> Graph({}, {Cable(Post, "o", MA, "i"), Cable(MA, "o", MA, "i")}, {})
       [] h = MA -> Graph({}, {Cable(MA, "i", Via, "i"), Cable(Via, "o", MA, "o"),
                               Cable(MA, "i", MB, "i")}, {})
       [] OTHER -> Graph({}, {Cable(MB, "i", Deep, "i")}, {})]

ThreeApps == {StreamApp, BesideApp, BackApp}
=============================================================================
