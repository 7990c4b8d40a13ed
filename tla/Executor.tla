------------------------------ MODULE Executor ------------------------------
(***************************************************************************)
(* The arithmetic of block_executor::run_one_iteration: from what a block  *)
(* says about itself, how many items each of its inputs holds and how much *)
(* room each of its outputs has, the executor decides whether to call      *)
(* general_work and for how many items, or to report that the block is     *)
(* blocked or done.  There is no state here: BlockCalls runs it for one    *)
(* block, TpbScheduler for a graph of threads.                             *)
(*                                                                         *)
(* A block is described by a record                                        *)
(*   fixed_rate            a sync_block, sync_decimator or _interpolator   *)
(*   up, down              its rate: up items out for every down items in  *)
(*   history, multiple     history(), output_multiple()                    *)
(*   multiple_set          TRUE: the multiple came from                    *)
(*                         set_output_multiple; FALSE: from set_alignment  *)
(*   min_noutput, max_noutput   the bounds on noutput_items                *)
(* and its alignment by [unaligned, is_unaligned], which change over time. *)
(***************************************************************************)
EXTENDS Integers, FiniteSets

(* The blocks there can be.                                                *)
Positive == Nat \ {0}

Descriptions ==
  [fixed_rate : BOOLEAN, up : Positive, down : Positive, history : Positive,
   multiple : Positive, multiple_set : BOOLEAN, min_noutput : Nat, max_noutput : Nat]

Alignments(p) == [unaligned : 0..p.multiple, is_unaligned : BOOLEAN]

RoundUp(n, m) == ((n + m - 1) \div m) * m
RoundDown(n, m) == (n \div m) * m

AtLeast(a, b) == IF a >= b THEN a ELSE b        \* std::max
AtMost(a, b)  == IF a <= b THEN a ELSE b        \* std::min

-----------------------------------------------------------------------------
(***************************************************************************)
(* The block's rate.                                                       *)
(***************************************************************************)
NinputToNoutput(p, n) == (AtLeast(0, n - p.history + 1) \div p.down) * p.up

Forecast(p, n) == (n * p.down) \div p.up + p.history - 1

-----------------------------------------------------------------------------
(***************************************************************************)
(* min_available_space, for one output buffer.                             *)
(***************************************************************************)
\* Mutant: the room is not rounded down to the output multiple.
RoomUnrounded(p, space, bufsize) == AtMost(space, bufsize \div 2)

Room(p, space, bufsize) ==
  AtMost(RoundDown(space, p.multiple), RoundDown(bufsize \div 2, p.multiple))

Blocking(p, room) == room < AtLeast(1, p.min_noutput)

(***************************************************************************)
(* run_one_iteration.  An input is [items, done]: items_available and the  *)
(* buffer's done flag, sampled together.                                   *)
(***************************************************************************)
\* Mutants: what is left is not looked at; the flag is not.
ExhaustedWhenDone(p, in) == in.done
ExhaustedWhenEmpty(p, in) == in.items < p.multiple

InputExhausted(p, in) == in.items < p.multiple /\ in.done

MaxItemsAvail(ins) ==
  CHOOSE n \in {in.items : in \in ins} : \A in \in ins : in.items <= n

MaxNoutputItems(p) == RoundDown(p.max_noutput, p.multiple)

(* A sink's guess of what it can take; 0 means it is blocked on input.     *)
SinkNoutput(p, avail) ==
  AtMost(RoundDown((avail * p.up) \div p.down, p.multiple), MaxNoutputItems(p))

(* A block of fixed rate first tries to use up all the input it has, and   *)
(* is not held below its output multiple.                                  *)
RateLimited(p, avail, n) ==
  LET all  == NinputToNoutput(p, avail)
      reqd == IF p.multiple_set THEN RoundDown(all, p.multiple) ELSE all
  IN IF ~p.fixed_rate THEN AtMost(n, MaxNoutputItems(p))
     ELSE AtMost(IF reqd > 0 /\ reqd <= n THEN reqd ELSE n,
                 AtLeast(p.multiple, MaxNoutputItems(p)))

(* An unaligned call ends where a vector ends.                             *)
(* Mutant: it is rounded up to whole vectors from where it starts.         *)
PastTheVector(p, al, n) == RoundUp(n, p.multiple)

ToVectorEnd(p, al, n) == RoundUp(n, p.multiple) - (p.multiple - al.unaligned)

(* Alignment, for a block that asked for it with set_alignment: n is the   *)
(* request, next what will be left to the next aligned call (new_alignment *)
(* of the code), al the flags general_work sees, and fresh tells that this *)
(* request is the one that lost alignment (alignment_state 1).             *)
Aligned(p, al, n) ==
  CASE p.multiple_set ->
         [n |-> n, next |-> 0, al |-> al, fresh |-> FALSE]
    [] ~p.multiple_set /\ al.is_unaligned /\ n >= al.unaligned ->
         [n |-> ToVectorEnd(p, al, n), next |-> 0, al |-> al, fresh |-> FALSE]
    [] ~p.multiple_set /\ al.is_unaligned /\ n < al.unaligned ->
         [n |-> n, next |-> al.unaligned - n, al |-> al, fresh |-> FALSE]
    [] ~p.multiple_set /\ ~al.is_unaligned /\ n < p.multiple ->
         [n |-> n, next |-> p.multiple - n, fresh |-> TRUE,
          al |-> [unaligned |-> p.multiple - n, is_unaligned |-> TRUE]]
    [] OTHER ->
         [n |-> RoundDown(n, p.multiple), next |-> 0, fresh |-> FALSE,
          al |-> [al EXCEPT !.is_unaligned = FALSE]]

Short(p, in, n) == Forecast(p, n) > in.items

(* try_again: a pass settles on a request, and if an input has less than   *)
(* that takes, it is halved and tried again, down to one output_multiple.  *)
(* The alignment flags a pass sets are the ones the next pass finds.       *)
Pass(p, al, ins, n) == Aligned(p, al, RateLimited(p, MaxItemsAvail(ins), n))

TryAgain(p, ins, r) == (\E in \in ins : Short(p, in, r.n)) /\ r.n > p.multiple

Halved(p, n) == RoundUp(n \div 2, p.multiple)

Request(p, al, ins, start) ==
  LET try[s \in (0..start) \X Alignments(p)] ==
        LET r == Pass(p, s[2], ins, s[1])
        IN IF TryAgain(p, ins, r) THEN try[<<Halved(p, r.n), r.al>>] ELSE r
  IN try[<<start, al>>]

(***************************************************************************)
(* What becomes of a request: general_work is called, or the block is done *)
(* because an input that is short will never get more, or it is blocked on *)
(* that input.  The first short input decides; ins is a sequence of inputs *)
(* and bufsizes the sizes of their buffers.                                *)
(***************************************************************************)
FirstShort(p, ins, n) ==
  {i \in DOMAIN ins : /\ Short(p, ins[i], n)
                      /\ \A j \in DOMAIN ins : j < i => ~Short(p, ins[j], n)}

\* Mutant: any input that is done ends the block, not the one it is short of.
SettledOnAnyDone(p, al, ins, bufsizes, r) ==
  IF FirstShort(p, ins, r.n) = {}
  THEN [result |-> "work", n |-> r.n, next |-> r.next, al |-> r.al]
  ELSE [result |-> IF \E i \in DOMAIN ins : ins[i].done THEN "done" ELSE "blkd_in",
        n |-> r.n, next |-> 0, al |-> al]

Settled(p, al, ins, bufsizes, r) ==
  LET stuck == FirstShort(p, ins, r.n)
      never(i) == Forecast(p, r.n) > bufsizes[i] - 1
  IN IF stuck = {} THEN [result |-> "work", n |-> r.n, next |-> r.next, al |-> r.al]
     ELSE IF \E i \in stuck : ins[i].done \/ never(i)
          THEN [result |-> "done", n |-> r.n, next |-> 0, al |-> r.al]
     ELSE [result |-> "blkd_in", n |-> r.n, next |-> 0,
           al |-> IF r.fresh THEN [unaligned |-> 0, is_unaligned |-> FALSE]
                             ELSE r.al]

(* The whole decision for a block with inputs, once noutput_items has its  *)
(* first value start: the room of its outputs, or a sink's guess.          *)
Decision(p, al, ins, bufsizes, start) ==
  Settled(p, al, ins, bufsizes,
          Request(p, al, {ins[i] : i \in DOMAIN ins}, start))

(* What a call of general_work leaves in the alignment flags.              *)
AlignmentAfter(d) ==
  IF d.al.is_unaligned
  THEN [unaligned |-> d.next, is_unaligned |-> d.next # 0]
  ELSE d.al
=============================================================================
