----------------------------- MODULE BlockCalls -----------------------------
(***************************************************************************)
(* One block, called over and over: block_executor::run_one_iteration with *)
(* the neighbours reduced to items that arrive, room that appears and      *)
(* streams that end.  What is checked is the executor's arithmetic over    *)
(* long sequences of calls: the halving of requests, output multiples,     *)
(* and the alignment flags that are carried from one call to the next.     *)
(***************************************************************************)
EXTENDS Executor, Sequences

(* The kinds of block to try: records of                                   *)
(*   blk                  the block, a record of Executor                  *)
(*   ninputs, noutputs    0 inputs: a source; 0 outputs: a sink; all       *)
(*                        outputs have the same room                       *)
(*   insize, outsize      d_bufsize of its input and output buffers        *)
(*   whole                general_work always makes all it is asked for    *)
CONSTANT Kinds

ASSUME KindsAssumption ==
  \A k \in Kinds : /\ k.blk \in Descriptions
                   /\ k.ninputs \in Nat /\ k.noutputs \in Nat
                   /\ k.insize \in Positive /\ k.outsize \in Positive
                   /\ k.ninputs + k.noutputs > 0
                   /\ k.blk.history <= k.insize
                   /\ k.noutputs > 0 => k.blk.min_noutput <= Room(k.blk, k.outsize, k.outsize)

VARIABLES
  kind,             \* the block under test
  items,            \* items_available of each input
  idone,            \* its buffer's done flag
  space, odone,     \* the same of the outputs
  al,               \* d_unaligned, d_is_unaligned
  offset,           \* items made so far, modulo the output multiple
  d_done,
  call              \* the step just taken, if it was run_one_iteration:
                    \* its result, the request, and the room it saw

vars == <<kind, items, idone, space, odone, al, offset, d_done, call>>

Blk == kind.blk
InSize == kind.insize
OutSize == kind.outsize
Inputs == 1..kind.ninputs

TypeOK ==
  /\ items \in [Inputs -> 0..InSize-1]
  /\ idone \in [Inputs -> BOOLEAN]
  /\ space \in 0..OutSize-1
  /\ odone \in BOOLEAN /\ d_done \in BOOLEAN
  /\ al \in Alignments(Blk)
  /\ offset \in 0..Blk.multiple-1

NoCall == [result |-> "none", n |-> 0, space |-> 0]

Init ==
  /\ kind \in Kinds
  /\ items = [i \in Inputs |-> Blk.history - 1]
  /\ idone = [i \in Inputs |-> FALSE]
  /\ space = OutSize - 1
  /\ odone = FALSE /\ d_done = FALSE
  /\ al = [unaligned |-> 0, is_unaligned |-> FALSE]
  /\ offset = 0
  /\ call = NoCall

-----------------------------------------------------------------------------
(***************************************************************************)
(* The neighbours.                                                         *)
(***************************************************************************)
Arrive(i, k) ==
  /\ ~idone[i]
  /\ items[i] + k < InSize
  /\ items' = [items EXCEPT ![i] = @ + k]
  /\ call' = NoCall
  /\ UNCHANGED <<kind, idone, space, odone, al, offset, d_done>>

UpstreamDone(i) ==
  /\ ~idone[i]
  /\ idone' = [idone EXCEPT ![i] = TRUE]
  /\ call' = NoCall
  /\ UNCHANGED <<kind, items, space, odone, al, offset, d_done>>

Drain(k) ==
  /\ kind.noutputs > 0 /\ ~odone
  /\ space + k < OutSize
  /\ space' = space + k
  /\ call' = NoCall
  /\ UNCHANGED <<kind, items, idone, odone, al, offset, d_done>>

DownstreamDone ==
  /\ kind.noutputs > 0 /\ ~odone
  /\ odone' = TRUE
  /\ call' = NoCall
  /\ UNCHANGED <<kind, items, idone, space, al, offset, d_done>>

-----------------------------------------------------------------------------
Sampled == [i \in Inputs |-> [items |-> items[i], done |-> idone[i]]]

room == Room(Blk, space, OutSize)

OutputBlocked == kind.noutputs > 0 /\ Blocking(Blk, room)

(* noutput_items before try_again; 0 stops a source or a sink.             *)
Start == IF kind.ninputs = 0 THEN AtMost(room, MaxNoutputItems(Blk))
         ELSE IF kind.noutputs = 0
         THEN SinkNoutput(Blk, MaxItemsAvail({Sampled[i] : i \in Inputs}))
         ELSE room

(* What the iteration comes to.  A source goes straight to general_work.   *)
Outcome ==
  LET verdict(r) == [result |-> r, n |-> 0, next |-> 0, al |-> al]
  IN CASE kind.noutputs = 0 /\ (\E i \in Inputs : InputExhausted(Blk, Sampled[i])) ->
            verdict("done")
       [] OutputBlocked -> verdict(IF odone THEN "out_done" ELSE "blkd_out")
       [] kind.ninputs = 0 /\ ~OutputBlocked ->
            [verdict(IF Start = 0 THEN "blkd_out" ELSE "work") EXCEPT !.n = Start]
       [] kind.noutputs = 0 /\ Start = 0
          /\ ~(\E i \in Inputs : InputExhausted(Blk, Sampled[i])) -> verdict("blkd_in")
       [] OTHER -> Decision(Blk, al, Sampled, [i \in Inputs |-> InSize], Start)

(* general_work makes made <= n items, consumes what they take, and the    *)
(* executor settles the alignment flags and advances the write pointers.   *)
RunOneIteration ==
  /\ ~d_done
  /\ LET d == Outcome
     IN /\ d_done' = (d.result \in {"done", "out_done"})
        /\ call' = [result |-> d.result, n |-> d.n, space |-> space]
        /\ IF d.result = "work"
           THEN \E made \in (IF kind.whole THEN {d.n} ELSE 0..d.n) :
                  /\ made % Blk.up = 0
                  /\ items' = [i \in Inputs |-> items[i] - (made * Blk.down) \div Blk.up]
                  /\ space' = IF kind.noutputs > 0 THEN space - made ELSE space
                  /\ offset' = (offset + made) % Blk.multiple
                  /\ al' = AlignmentAfter(d)
           ELSE /\ al' = d.al
                /\ UNCHANGED <<items, space, offset>>
  /\ UNCHANGED <<kind, idone, odone>>

(* A block that is done is not called again.                               *)
Retired == d_done /\ UNCHANGED vars

Next == \/ \E i \in Inputs : \/ \E k \in 1..InSize-1 : Arrive(i, k)
                             \/ UpstreamDone(i)
        \/ \E k \in 1..OutSize-1 : Drain(k)
        \/ DownstreamDone
        \/ RunOneIteration
        \/ Retired

Spec == Init /\ [][Next]_vars

-----------------------------------------------------------------------------
(***************************************************************************)
(* general_work is never asked for more items than its output buffers have *)
(* room for, although an unaligned request is rounded UP to the end of its *)
(* vector (block_executor.cc:344).                                         *)
(***************************************************************************)
RequestFitsOutput ==
  call.result = "work" /\ kind.noutputs > 0 => call.n <= call.space

(***************************************************************************)
(* A block that fixed its output multiple is only ever asked for a         *)
(* positive multiple of it, however its request was limited, halved or     *)
(* capped (block.h: set_output_multiple).                                  *)
(***************************************************************************)
MultipleHonoured ==
  call.result = "work" => call.n > 0 /\ (Blk.multiple_set => call.n % Blk.multiple = 0)

(***************************************************************************)
(* The alignment flags always tell how far the output is from the next     *)
(* vector boundary, across requests that were refused, halved or cut       *)
(* short: a block that is not told it is unaligned may use aligned loads.  *)
(***************************************************************************)
AlignmentTracked ==
  ~Blk.multiple_set /\ ~d_done =>
    offset = IF al.is_unaligned THEN Blk.multiple - al.unaligned ELSE 0

(***************************************************************************)
(* A block is blocked on input only when some input holds too little for   *)
(* even one output_multiple, so that only a new arrival can help: a block  *)
(* that waits while it could run would never be woken.                     *)
(***************************************************************************)
CanRun(have) ==
  \A i \in Inputs : Forecast(Blk, Blk.multiple) <= have[i]

BlockedInForReason == call.result = "blkd_in" => ~CanRun(items)

(***************************************************************************)
(* It is blocked on output only when its outputs have no room for one      *)
(* output_multiple, or not for min_noutput_items.                          *)
(***************************************************************************)
BlockedOutForReason ==
  call.result = "blkd_out" =>
    \/ AtMost(call.space, OutSize \div 2) < Blk.multiple
    \/ Room(Blk, call.space, OutSize) < Blk.min_noutput

(***************************************************************************)
(* A block gives up on account of its inputs only when one of them has     *)
(* ended, or can never hold enough, and holds too little for a further     *)
(* output_multiple.                                                        *)
(***************************************************************************)
DoneForReason ==
  call.result = "done" =>
    \E i \in Inputs :
      /\ Forecast(Blk, Blk.multiple) > items[i]
      /\ idone[i] \/ Forecast(Blk, Blk.multiple) > InSize - 1

(***************************************************************************)
(* What the block is told when it is called can be relied on: the request  *)
(* fits, honours its output multiple, and the alignment flags are true.    *)
(***************************************************************************)
RequestsAreSound == RequestFitsOutput /\ MultipleHonoured /\ AlignmentTracked

(***************************************************************************)
(* What the executor answers when it does not call the block is true: a    *)
(* block that waits can be woken only by what it waits for, and one that   *)
(* is done could not have done more.                                       *)
(***************************************************************************)
VerdictsHaveReasons == BlockedInForReason /\ BlockedOutForReason /\ DoneForReason
=============================================================================
