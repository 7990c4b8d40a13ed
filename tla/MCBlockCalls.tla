---------------------------- MODULE MCBlockCalls ----------------------------
(* BlockCalls for the kinds of block the executor tells apart.             *)
EXTENDS BlockCalls

Plain == [fixed_rate |-> TRUE, up |-> 1, down |-> 1, history |-> 1,
          multiple |-> 1, multiple_set |-> FALSE,
          min_noutput |-> 0, max_noutput |-> 100]

(* A sync_block that called set_alignment(4) (volk blocks: add, multiply). *)
AlignedSync == [Plain EXCEPT !.multiple = 4]

(* An interpolator by 3 with a history of 2: set_output_multiple(3); it    *)
(* wants room for two multiples.                                           *)
Interpolator ==
  [Plain EXCEPT !.up = 3, !.multiple = 3, !.multiple_set = TRUE, !.history = 2,
                  !.min_noutput = 6]

(* A decimator by 2 that works on pairs.                                   *)
Decimator == [Plain EXCEPT !.down = 2, !.multiple = 2, !.multiple_set = TRUE]

(* A source of frames of 4 items under a global limit of 6 items a call.   *)
FrameSource == [Plain EXCEPT !.multiple = 4, !.multiple_set = TRUE, !.max_noutput = 6]

(* A sink that takes pairs.                                                *)
PairSink == [Plain EXCEPT !.multiple = 2, !.multiple_set = TRUE]

Kind(blk, ninputs, noutputs, insize, outsize, whole) ==
  [blk |-> blk, ninputs |-> ninputs, noutputs |-> noutputs,
   insize |-> insize, outsize |-> outsize, whole |-> whole]

AllKinds == {Kind(AlignedSync, 2, 1, 9, 17, TRUE),
             Kind(Interpolator, 2, 1, 5, 13, FALSE),
             Kind(Decimator, 1, 1, 9, 8, FALSE),
             Kind(PairSink, 2, 0, 7, 1, FALSE),
             Kind(FrameSource, 0, 1, 1, 17, TRUE)}
=============================================================================
