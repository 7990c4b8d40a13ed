----------------------------- MODULE TpbProofs ------------------------------
(***************************************************************************)
(* The thread-per-block scheduler, for every flowgraph, every rate and     *)
(* every size of buffer: nothing is overrun, and no thread waits for a     *)
(* wakeup that nobody owes it.                                             *)
(*                                                                         *)
(* Flow says what a thread may still rely on of what it sampled, buffer    *)
(* after buffer, when every lock has been released since: its inputs hold  *)
(* at least what it saw, its outputs have at least the room it settled on. *)
(* Fresh says what it may have missed: only what a neighbour that has yet  *)
(* to notify it is doing.                                                  *)
(***************************************************************************)
EXTENDS TpbScheduler, WellFoundedInduction, SequenceTheorems, TLAPS

-----------------------------------------------------------------------------
(***************************************************************************)
(* The arithmetic of the executor, for every block and every amount of     *)
(* input and room: what its rounding does, that halving a request comes to *)
(* an end, and what the request it settles on is bound by.                 *)
(***************************************************************************)

(* Least and greatest elements.                                            *)
LEMMA NatLeast ==
  ASSUME NEW S, S \subseteq Nat, S # {}
  PROVE  \E x \in S : \A y \in S : x <= y
<1>1. PICK x \in S : \A y \in S : ~(<<y, x>> \in OpToRel(<, Nat))
  BY NatLessThanWellFounded, WFMin
<1>2. \A y \in S : <<y, x>> \in Nat \X Nat /\ <<y, x>>[1] = y /\ <<y, x>>[2] = x
  OBVIOUS
<1>3. \A y \in S : ~(y < x)
  <2> SUFFICES ASSUME NEW y \in S, y < x PROVE FALSE
    OBVIOUS
  <2>1. <<y, x>>[1] < <<y, x>>[2]
    BY <1>2
  <2> QED
    BY <1>1, <1>2, <2>1, Zenon DEF OpToRel
<1> QED
  BY <1>3

LEMMA GreatestOfFamily ==
  ASSUME NEW n \in Nat, n > 0, NEW f, \A i \in 1..n : f[i] \in Int
  PROVE  \E i \in 1..n : \A j \in 1..n : f[j] <= f[i]
<1> DEFINE Has(k) == \E i \in 1..k : \A j \in 1..k : f[j] <= f[i]
           Bad == {k \in 1..n : ~Has(k)}
<1>1. Has(1)
  BY 1 \in 1..n
<1>2. ASSUME NEW k \in Nat, k > 0, k + 1 \in 1..n, Has(k)
      PROVE  Has(k + 1)
  <2>1. PICK i \in 1..k : \A j \in 1..k : f[j] <= f[i]
    BY <1>2
  <2>2. \A j \in 1..(k + 1) : f[j] \in Int /\ (j = k + 1 \/ j \in 1..k)
    BY <1>2
  <2>3. CASE f[k + 1] <= f[i]
    <3>1. i \in 1..(k + 1) /\ \A j \in 1..(k + 1) : f[j] <= f[i]
      BY <2>1, <2>2, <2>3
    <3> QED
      BY <3>1
  <2>4. CASE ~(f[k + 1] <= f[i])
    <3>1. i \in 1..(k + 1) /\ k + 1 \in 1..(k + 1)
      BY <1>2
    <3>2. \A j \in 1..(k + 1) : f[j] <= f[k + 1]
      BY <2>1, <2>2, <2>4, <3>1
    <3> QED
      BY <3>1, <3>2
  <2> QED
    BY <2>3, <2>4
<1> HIDE DEF Has
<1>3. Bad = {}
  <2> SUFFICES ASSUME Bad # {} PROVE FALSE
    OBVIOUS
  <2>1. PICK k \in Bad : \A y \in Bad : k <= y
    <3>1. Bad \subseteq Nat
      OBVIOUS
    <3> HIDE DEF Bad
    <3> QED
      BY <3>1, NatLeast
  <2>2. k \in 1..n /\ k # 1 /\ ~Has(k)
    BY <1>1, <2>1
  <2>3. k - 1 \in 1..n /\ k - 1 \notin Bad
    BY <2>1, <2>2
  <2>4. Has((k - 1) + 1)
    BY <1>2, <2>2, <2>3
  <2> QED
    BY <2>2, <2>4
<1>4. Has(n)
  BY <1>3
<1> QED
  BY <1>4 DEF Has

-----------------------------------------------------------------------------
(* Division by a positive number.                                          *)
LEMMA Quotient ==
  ASSUME NEW x \in Int, NEW m \in Positive
  PROVE  /\ x \div m \in Int
         /\ (x \div m) * m <= x /\ x < (x \div m) * m + m
BY Z3 DEF Positive

LEMMA TimesMonotone ==
  ASSUME NEW j \in Int, NEW k \in Int, NEW m \in Nat, j <= k
  PROVE  j * m <= k * m
BY Z3

LEMMA TimesOrder ==
  ASSUME NEW j \in Int, NEW k \in Int, NEW m \in Nat, j * m < k * m
  PROVE  j < k
<1>1. CASE k <= j
  BY <1>1, TimesMonotone, Z3
<1> QED
  BY <1>1

LEMMA QuotientAtLeast ==
  ASSUME NEW x \in Int, NEW m \in Positive, NEW k \in Int, k * m <= x
  PROVE  k <= x \div m
<1>1. x < ((x \div m) + 1) * m /\ x \div m \in Int
  BY Quotient, Z3 DEF Positive
<1>2. k * m < ((x \div m) + 1) * m
  BY <1>1, Z3 DEF Positive
<1> QED
  BY <1>1, <1>2, TimesOrder DEF Positive

LEMMA QuotientAtMost ==
  ASSUME NEW x \in Int, NEW m \in Positive, NEW k \in Int, x < (k + 1) * m
  PROVE  x \div m <= k
<1>1. (x \div m) * m <= x /\ x \div m \in Int
  BY Quotient
<1>2. (x \div m) * m < (k + 1) * m
  BY <1>1, Z3 DEF Positive
<1>3. x \div m < k + 1
  BY <1>1, <1>2, TimesOrder DEF Positive
<1> QED
  BY <1>1, <1>3

LEMMA QuotientMonotone ==
  ASSUME NEW x \in Int, NEW y \in Int, NEW m \in Positive, x <= y
  PROVE  x \div m <= y \div m
<1>1. x \div m \in Int /\ (x \div m) * m <= x
  BY Quotient
<1>2. (x \div m) * m <= y
  BY <1>1, Z3 DEF Positive
<1> QED
  BY <1>1, <1>2, QuotientAtLeast

LEMMA QuotientIsNat ==
  ASSUME NEW x \in Nat, NEW m \in Positive
  PROVE  x \div m \in Nat
BY Quotient, QuotientAtLeast, Z3 DEF Positive

(* Rounding.                                                               *)
LEMMA RoundDownBounds ==
  ASSUME NEW x \in Int, NEW m \in Positive
  PROVE  RoundDown(x, m) \in Int /\ RoundDown(x, m) <= x /\ x < RoundDown(x, m) + m
BY Quotient, Z3 DEF RoundDown, Positive

LEMMA RoundUpBounds ==
  ASSUME NEW x \in Int, NEW m \in Positive
  PROVE  RoundUp(x, m) \in Int /\ x <= RoundUp(x, m) /\ RoundUp(x, m) < x + m
<1>1. x + m - 1 \in Int
  BY DEF Positive
<1> QED
  BY <1>1, Quotient, Z3 DEF RoundUp, Positive

LEMMA RoundUpAtMost ==
  ASSUME NEW x \in Int, NEW m \in Positive, NEW k \in Int, x <= k * m
  PROVE  RoundUp(x, m) <= k * m
<1>1. x + m - 1 \in Int /\ x + m - 1 < (k + 1) * m
  BY Z3 DEF Positive
<1>2. (x + m - 1) \div m <= k /\ (x + m - 1) \div m \in Int
  BY <1>1, Quotient, QuotientAtMost
<1> QED
  BY <1>2, TimesMonotone DEF RoundUp, Positive

(* A request that was rounded up and halved is less than it was.           *)
LEMMA HalvingDescends ==
  ASSUME NEW p \in Descriptions, NEW n \in Nat, NEW r \in Int,
         r > p.multiple, r <= RoundUp(n, p.multiple)
  PROVE  Halved(p, r) \in Nat /\ Halved(p, r) < n
<1> DEFINE m == p.multiple
           q == (n + m - 1) \div m
<1>1. m \in Positive /\ m \in Nat /\ m > 0 /\ n + m - 1 \in Int
  BY DEF Descriptions, Positive
<1>2. q \in Int /\ q * m <= n + m - 1 /\ RoundUp(n, m) = q * m
  BY <1>1, Quotient DEF RoundUp
<1> HIDE DEF q, m
<1>3. r \in Int /\ m < r /\ r <= q * m
  BY <1>2 DEF m
<1>4. 1 * m < q * m
  BY <1>1, <1>2, <1>3
<1>5. 1 < q
  BY <1>1, <1>2, <1>4, TimesOrder
<1>6. (q - 1) * m < n
  BY <1>1, <1>2, Z3
<1>7. q * m <= 2 * ((q - 1) * m)
  <2>1. q * m <= (2 * (q - 1)) * m
    BY <1>1, <1>2, <1>5, TimesMonotone
  <2>2. (2 * (q - 1)) * m = 2 * ((q - 1) * m)
    BY <1>1, <1>2, Z3
  <2> QED
    BY <2>1, <2>2
<1>8. r \div 2 <= (q - 1) * m /\ r \div 2 \in Int /\ 0 <= r \div 2
  <2>1. (q - 1) * m \in Int
    BY <1>1, <1>2
  <2> QED
    BY <1>1, <1>2, <1>3, <1>7, <2>1
<1>9. RoundUp(r \div 2, m) <= (q - 1) * m
  BY <1>1, <1>2, <1>8, RoundUpAtMost
<1>10. RoundUp(r \div 2, m) \in Int /\ r \div 2 <= RoundUp(r \div 2, m)
  BY <1>1, <1>8, RoundUpBounds
<1>11. RoundUp(r \div 2, m) \in Nat /\ RoundUp(r \div 2, m) < n
  <2>1. (q - 1) * m \in Int
    BY <1>1, <1>2
  <2> QED
    BY <1>6, <1>8, <1>9, <1>10, <2>1
<1> QED
  BY <1>11 DEF Halved, m

-----------------------------------------------------------------------------
(***************************************************************************)
(* One pass.                                                               *)
(***************************************************************************)
LEMMA MaxItemsAvailIsNat ==
  ASSUME NEW n \in Nat, n > 0, NEW s, \A i \in 1..n : s[i].items \in Nat
  PROVE  MaxItemsAvail({s[i] : i \in 1..n}) \in Nat
<1> DEFINE f == [i \in 1..n |-> s[i].items]
           ins == {s[i] : i \in 1..n}
<1>1. PICK i \in 1..n : \A j \in 1..n : f[j] <= f[i]
  <2>1. \A j \in 1..n : f[j] \in Int
    OBVIOUS
  <2> HIDE DEF f
  <2> QED
    BY <2>1, GreatestOfFamily
<1>2. s[i].items \in {in.items : in \in ins} /\ \A in \in ins : in.items <= s[i].items
  BY <1>1
<1>3. MaxItemsAvail(ins) \in {in.items : in \in ins}
  <2> HIDE DEF ins
  <2> QED
    BY <1>2 DEF MaxItemsAvail
<1> QED
  BY <1>3

LEMMA RateLimits ==
  ASSUME NEW p \in Descriptions, NEW avail \in Nat, NEW n \in Nat
  PROVE  RateLimited(p, avail, n) \in 0..n
<1> DEFINE all  == NinputToNoutput(p, avail)
           reqd == IF p.multiple_set THEN RoundDown(all, p.multiple) ELSE all
           max  == MaxNoutputItems(p)
<1>1. /\ p.multiple \in Positive /\ p.multiple \in Nat /\ p.up \in Nat /\ p.down \in Positive
      /\ p.history \in Nat /\ p.max_noutput \in Nat
  BY DEF Descriptions, Positive
<1>2. max \in Nat
  <2>1. p.max_noutput \div p.multiple \in Nat
    BY <1>1, QuotientIsNat
  <2> QED
    BY <1>1, <2>1 DEF MaxNoutputItems, RoundDown
<1>3. reqd \in Int
  <2>1. AtLeast(0, avail - p.history + 1) \in Nat
    BY <1>1 DEF AtLeast
  <2>2. AtLeast(0, avail - p.history + 1) \div p.down \in Nat
    BY <1>1, <2>1, QuotientIsNat
  <2>3. all \in Int
    BY <1>1, <2>2 DEF NinputToNoutput
  <2> QED
    BY <1>1, <2>3, RoundDownBounds
<1> HIDE DEF all, max, reqd
<1> QED
  BY <1>1, <1>2, <1>3 DEF RateLimited, AtMost, AtLeast, all, max, reqd

LEMMA AlignedBounds ==
  ASSUME NEW p \in Descriptions, NEW al \in Alignments(p), NEW n \in Nat
  PROVE  LET r == Aligned(p, al, n)
         IN /\ r.n \in Int /\ r.n <= RoundUp(n, p.multiple)
            /\ r.al \in Alignments(p)
<1>1. p.multiple \in Positive /\ p.multiple \in Nat /\ p.multiple_set \in BOOLEAN
  BY DEF Descriptions, Positive
<1>2. al.unaligned \in 0..p.multiple /\ al.is_unaligned \in BOOLEAN
  BY DEF Alignments
<1>3. RoundUp(n, p.multiple) \in Int /\ n <= RoundUp(n, p.multiple)
  BY <1>1, RoundUpBounds
<1>4. RoundDown(n, p.multiple) \in Int /\ RoundDown(n, p.multiple) <= n
  BY <1>1, RoundDownBounds
<1>5. CASE p.multiple_set
  BY <1>1, <1>3, <1>5 DEF Aligned
<1>6. CASE ~p.multiple_set /\ al.is_unaligned /\ n >= al.unaligned
  <2>1. /\ Aligned(p, al, n).n = RoundUp(n, p.multiple) - (p.multiple - al.unaligned)
        /\ Aligned(p, al, n).al = al
    BY <1>1, <1>2, <1>6 DEF Aligned, ToVectorEnd
  <2> QED
    BY <1>1, <1>2, <1>3, <2>1
<1>7. CASE ~p.multiple_set /\ al.is_unaligned /\ n < al.unaligned
  BY <1>3, <1>7 DEF Aligned
<1>8. CASE ~p.multiple_set /\ ~al.is_unaligned /\ n < p.multiple
  <2>1. /\ Aligned(p, al, n).n = n
        /\ Aligned(p, al, n).al = [unaligned |-> p.multiple - n, is_unaligned |-> TRUE]
    BY <1>8 DEF Aligned
  <2> QED
    BY <1>1, <1>3, <1>8, <2>1 DEF Alignments
<1>9. CASE ~p.multiple_set /\ ~al.is_unaligned /\ ~(n < p.multiple)
  <2>1. /\ Aligned(p, al, n).n = RoundDown(n, p.multiple)
        /\ Aligned(p, al, n).al = [al EXCEPT !.is_unaligned = FALSE]
    BY <1>9 DEF Aligned
  <2>2. [al EXCEPT !.is_unaligned = FALSE] \in Alignments(p)
    BY <1>2 DEF Alignments
  <2> QED
    BY <1>3, <1>4, <2>1, <2>2
<1> QED
  BY <1>1, <1>2, <1>5, <1>6, <1>7, <1>8, <1>9

(* A pass that is tried again is tried with less.                          *)
LEMMA PassDescends ==
  ASSUME NEW p \in Descriptions, NEW ins, MaxItemsAvail(ins) \in Nat,
         NEW al \in Alignments(p), NEW n \in Nat,
         TryAgain(p, ins, Pass(p, al, ins, n))
  PROVE  LET r == Pass(p, al, ins, n)
         IN /\ Halved(p, r.n) \in Nat /\ Halved(p, r.n) < n
            /\ r.al \in Alignments(p)
<1> DEFINE l == RateLimited(p, MaxItemsAvail(ins), n)
           r == Pass(p, al, ins, n)
<1>1. l \in Nat /\ l <= n
  BY RateLimits
<1> HIDE DEF l
<1>2. r.n \in Int /\ r.n <= RoundUp(l, p.multiple) /\ r.al \in Alignments(p)
  BY <1>1, AlignedBounds DEF Pass, l
<1>3. r.n > p.multiple
  BY DEF TryAgain
<1> HIDE DEF r
<1>4. Halved(p, r.n) \in Nat /\ Halved(p, r.n) < l
  BY <1>1, <1>2, <1>3, HalvingDescends
<1> QED
  BY <1>1, <1>2, <1>4 DEF r

-----------------------------------------------------------------------------
(***************************************************************************)
(* The loop of try_again.  Its passes descend, so that there is a function *)
(* that does what Request says; and what it comes to is a pass that is not *)
(* tried again, from a state in any set that holds the first one and, with *)
(* a pass that is tried again, the next.                                   *)
(***************************************************************************)
Loop(p, ins, S, f) ==
  f = [s \in S |->
         IF TryAgain(p, ins, Pass(p, s[2], ins, s[1]))
         THEN f[<<Halved(p, Pass(p, s[2], ins, s[1]).n), Pass(p, s[2], ins, s[1]).al>>]
         ELSE Pass(p, s[2], ins, s[1])]

LEMMA LoopExists ==
  ASSUME NEW p \in Descriptions, NEW ins, MaxItemsAvail(ins) \in Nat, NEW start \in Nat
  PROVE  \E f : Loop(p, ins, (0..start) \X Alignments(p), f)
<1> DEFINE A == Alignments(p)
           P(s) == Pass(p, s[2], ins, s[1])
           Again(s) == TryAgain(p, ins, P(s))
           next(s) == <<Halved(p, P(s).n), P(s).al>>
           Has(k) == \E f : Loop(p, ins, (0..k) \X A, f)
           Bad == {k \in 0..start : ~Has(k)}
<1>1. ASSUME NEW k \in Nat, NEW s \in (0..k) \X A, Again(s)
      PROVE  next(s) \in Nat \X A /\ next(s)[1] < s[1]
  <2>1. s[1] \in Nat /\ s[2] \in A
    BY <1>1
  <2> QED
    BY <1>1, <2>1, PassDescends
<1> HIDE DEF A, P, Again, next
<1>2. \A k \in Nat : \A f : Loop(p, ins, (0..k) \X A, f) <=>
        f = [s \in (0..k) \X A |-> IF Again(s) THEN f[next(s)] ELSE P(s)]
  BY DEF Loop, Again, next, P
<1>3. Has(0)
  <2> DEFINE f == [s \in (0..0) \X A |-> P(s)]
  <2>1. \A s \in (0..0) \X A : ~Again(s)
    <3> SUFFICES ASSUME NEW s \in (0..0) \X A, Again(s) PROVE FALSE
      OBVIOUS
    <3>1. next(s)[1] \in Nat /\ next(s)[1] < s[1] /\ s[1] = 0
      BY <1>1
    <3> QED
      BY <3>1
  <2>2. f = [s \in (0..0) \X A |-> IF Again(s) THEN f[next(s)] ELSE P(s)]
    BY <2>1
  <2> QED
    BY <1>2, <2>2
<1>4. ASSUME NEW k \in Nat, Has(k)
      PROVE  Has(k + 1)
  <2>0. PICK f : Loop(p, ins, (0..k) \X A, f)
    BY <1>4
  <2>1. f = [s \in (0..k) \X A |-> IF Again(s) THEN f[next(s)] ELSE P(s)]
    BY <1>2, <2>0
  <2> DEFINE S == (0..k) \X A
             T == (0..(k + 1)) \X A
             g == [s \in T |-> IF Again(s) THEN f[next(s)] ELSE P(s)]
  <2>2. \A s \in T : Again(s) => next(s) \in S
    <3> SUFFICES ASSUME NEW s \in T, Again(s) PROVE next(s) \in S
      OBVIOUS
    <3>1. k + 1 \in Nat /\ s[1] \in 0..(k + 1)
      OBVIOUS
    <3>2. next(s) \in Nat \X A /\ next(s)[1] < s[1]
      BY <1>1, <3>1
    <3>3. next(s)[1] \in 0..k /\ next(s)[2] \in A /\ next(s) = <<next(s)[1], next(s)[2]>>
      BY <3>1, <3>2
    <3> QED
      BY <3>3
  <2>3. S \subseteq T /\ \A s \in S : f[s] = IF Again(s) THEN f[next(s)] ELSE P(s)
    BY <2>1
  <2> HIDE DEF S, T
  <2>4. \A s \in S : g[s] = f[s]
    BY <2>3
  <2>5. g = [s \in T |-> IF Again(s) THEN g[next(s)] ELSE P(s)]
    BY <2>2, <2>4
  <2> HIDE DEF g
  <2>6. k + 1 \in Nat
    OBVIOUS
  <2>7. Loop(p, ins, (0..(k + 1)) \X A, g)
    BY <1>2, <2>5, <2>6 DEF T
  <2> QED
    BY <2>7
<1> HIDE DEF Has
<1>5. Bad = {}
  <2> SUFFICES ASSUME Bad # {} PROVE FALSE
    OBVIOUS
  <2>1. PICK k \in Bad : \A y \in Bad : k <= y
    <3>1. Bad \subseteq Nat
      OBVIOUS
    <3> HIDE DEF Bad
    <3> QED
      BY <3>1, NatLeast
  <2>2. k \in 0..start /\ k # 0 /\ ~Has(k)
    BY <1>3, <2>1
  <2>3. k - 1 \in 0..start /\ k - 1 \notin Bad
    BY <2>1, <2>2
  <2>4. Has((k - 1) + 1)
    BY <1>4, <2>2, <2>3
  <2> QED
    BY <2>2, <2>4
<1>6. Has(start)
  BY <1>5
<1> QED
  BY <1>6 DEF Has, A

(* C is kept by going on to the next pass.                                 *)
Kept(p, ins, start, C) ==
  \A n \in 0..start, a \in Alignments(p) :
    <<n, a>> \in C /\ TryAgain(p, ins, Pass(p, a, ins, n)) =>
      <<Halved(p, Pass(p, a, ins, n).n), Pass(p, a, ins, n).al>> \in C

LEMMA RequestSettles ==
  ASSUME NEW p \in Descriptions, NEW ins, MaxItemsAvail(ins) \in Nat,
         NEW start \in Nat, NEW al \in Alignments(p),
         NEW C, C \subseteq (0..start) \X Alignments(p), <<start, al>> \in C,
         Kept(p, ins, start, C)
  PROVE  \E n \in 0..start, a \in Alignments(p) :
           /\ <<n, a>> \in C
           /\ Request(p, al, ins, start) = Pass(p, a, ins, n)
           /\ ~TryAgain(p, ins, Pass(p, a, ins, n))
<1> DEFINE A == Alignments(p)
           S == (0..start) \X A
           try == CHOOSE f : Loop(p, ins, S, f)
<1>1. Loop(p, ins, S, try)
  BY LoopExists
<1>2. Request(p, al, ins, start) = try[<<start, al>>]
  BY DEF Request, Loop
<1> HIDE DEF try
<1>3. \A n \in 0..start, a \in A :
        try[<<n, a>>] = IF TryAgain(p, ins, Pass(p, a, ins, n))
                        THEN try[<<Halved(p, Pass(p, a, ins, n).n), Pass(p, a, ins, n).al>>]
                        ELSE Pass(p, a, ins, n)
  <2> SUFFICES ASSUME NEW n \in 0..start, NEW a \in A
               PROVE  try[<<n, a>>] = IF TryAgain(p, ins, Pass(p, a, ins, n))
                        THEN try[<<Halved(p, Pass(p, a, ins, n).n), Pass(p, a, ins, n).al>>]
                        ELSE Pass(p, a, ins, n)
    OBVIOUS
  <2>1. <<n, a>> \in S /\ <<n, a>>[1] = n /\ <<n, a>>[2] = a
    OBVIOUS
  <2> HIDE DEF S
  <2> QED
    BY <1>1, <2>1 DEF Loop
<1> DEFINE T == {n \in 0..start : \E a \in A : <<n, a>> \in C /\
                                              try[<<n, a>>] = try[<<start, al>>]}
<1>4. PICK n \in T : \A k \in T : n <= k
  <2>1. T \subseteq Nat /\ start \in T
    OBVIOUS
  <2> HIDE DEF T
  <2> QED
    BY <2>1, NatLeast
<1>5. PICK a \in A : <<n, a>> \in C /\ try[<<n, a>>] = try[<<start, al>>]
  BY <1>4
<1>6. n \in 0..start
  BY <1>4
<1> DEFINE r == Pass(p, a, ins, n)
<1>7. ~TryAgain(p, ins, r)
  <2> SUFFICES ASSUME TryAgain(p, ins, r) PROVE FALSE
    OBVIOUS
  <2>1. Halved(p, r.n) \in Nat /\ Halved(p, r.n) < n /\ r.al \in A
    BY <1>6, PassDescends
  <2>2. Halved(p, r.n) \in 0..start
    BY <1>6, <2>1
  <2>3. <<Halved(p, r.n), r.al>> \in C
    BY <1>5, <1>6 DEF Kept
  <2>4. try[<<Halved(p, r.n), r.al>>] = try[<<start, al>>]
    BY <1>3, <1>5, <1>6
  <2>5. Halved(p, r.n) \in T
    BY <2>1, <2>2, <2>3, <2>4
  <2> DEFINE h == Halved(p, r.n)
  <2>6. h \in Nat /\ h < n /\ h \in T
    BY <2>1, <2>5
  <2> HIDE DEF h, T
  <2>7. n <= h
    BY <1>4, <2>6
  <2> QED
    BY <1>6, <2>6, <2>7
<1>8. Request(p, al, ins, start) = r
  BY <1>2, <1>3, <1>5, <1>6, <1>7
<1> QED
  BY <1>5, <1>6, <1>7, <1>8

-----------------------------------------------------------------------------
(***************************************************************************)
(* A block whose alignment never changes: its multiple is 1, or came from  *)
(* set_output_multiple.                                                    *)
(***************************************************************************)
Steady(p) == p \in Descriptions /\ (p.multiple_set \/ p.multiple = 1)

Untouched == [unaligned |-> 0, is_unaligned |-> FALSE]

LEMMA SteadyPass ==
  ASSUME NEW p, Steady(p), NEW ins, MaxItemsAvail(ins) \in Nat, NEW n \in Nat
  PROVE  LET r == Pass(p, Untouched, ins, n)
         IN /\ r.n \in 0..n
            /\ TryAgain(p, ins, r) => r.al = Untouched
<1> DEFINE l == RateLimited(p, MaxItemsAvail(ins), n)
           r == Pass(p, Untouched, ins, n)
<1>1. l \in Nat /\ l <= n
  BY RateLimits DEF Steady
<1>2. r = Aligned(p, Untouched, l)
  BY DEF Pass
<1> HIDE DEF l, r
<1>3. p.multiple \in Nat /\ p.multiple > 0 /\ p.multiple_set \in BOOLEAN
  BY DEF Steady, Descriptions, Positive
<1>4. CASE p.multiple_set
  <2>1. r.n = l /\ r.al = Untouched
    BY <1>2, <1>4 DEF Aligned, Untouched
  <2> QED
    BY <1>1, <2>1 DEF r
<1>5. CASE ~p.multiple_set /\ l < p.multiple
  <2>1. p.multiple = 1 /\ r.n = l
    BY <1>2, <1>5 DEF Steady, Aligned, Untouched
  <2>2. ~TryAgain(p, ins, r)
    BY <1>1, <1>5, <2>1 DEF TryAgain
  <2> QED
    BY <1>1, <2>1, <2>2 DEF r
<1>6. CASE ~p.multiple_set /\ ~(l < p.multiple)
  <2>1. r.n = RoundDown(l, 1) /\ r.al = Untouched
    BY <1>2, <1>6 DEF Steady, Aligned, Untouched
  <2>2. RoundDown(l, 1) = l
    BY <1>1 DEF RoundDown
  <2> QED
    BY <1>1, <2>1, <2>2 DEF r
<1> QED
  BY <1>3, <1>4, <1>5, <1>6

(* Such a block is never asked for more than the executor starts with.     *)
LEMMA SteadyRequest ==
  ASSUME NEW p, Steady(p), NEW ins, MaxItemsAvail(ins) \in Nat, NEW start \in Nat
  PROVE  Request(p, Untouched, ins, start).n \in 0..start
<1> DEFINE C == (0..start) \X {Untouched}
<1>1. p \in Descriptions /\ Untouched \in Alignments(p)
  BY DEF Steady, Descriptions, Positive, Alignments, Untouched
<1>2. C \subseteq (0..start) \X Alignments(p) /\ <<start, Untouched>> \in C
  BY <1>1
<1>3. ASSUME NEW n \in 0..start, NEW a \in Alignments(p), <<n, a>> \in C,
             TryAgain(p, ins, Pass(p, a, ins, n))
      PROVE  <<Halved(p, Pass(p, a, ins, n).n), Pass(p, a, ins, n).al>> \in C
  <2>1. a = Untouched /\ n \in Nat
    BY <1>3
  <2>2. Halved(p, Pass(p, a, ins, n).n) \in Nat /\ Halved(p, Pass(p, a, ins, n).n) < n
    BY <1>1, <1>3, <2>1, PassDescends
  <2>3. Pass(p, a, ins, n).al = Untouched
    BY <1>3, <2>1, SteadyPass
  <2>4. Halved(p, Pass(p, a, ins, n).n) \in 0..start
    BY <2>2
  <2> QED
    BY <2>3, <2>4
<1> HIDE DEF C
<1>4. PICK n \in 0..start, a \in Alignments(p) :
        <<n, a>> \in C /\ Request(p, Untouched, ins, start) = Pass(p, a, ins, n)
  <2>1. Kept(p, ins, start, C)
    BY <1>3 DEF Kept
  <2> QED
    BY <1>1, <1>2, <2>1, RequestSettles
<1>5. a = Untouched /\ n \in Nat
  BY <1>4 DEF C
<1>6. Pass(p, a, ins, n).n \in 0..n
  BY <1>5, SteadyPass
<1> QED
  BY <1>4, <1>6

(* When the first short input does not exist, no input is short.           *)
LEMMA NoFirstShort ==
  ASSUME NEW p, NEW n, NEW k \in Nat, NEW ins, DOMAIN ins = 1..k,
         FirstShort(p, ins, n) = {}
  PROVE  \A i \in 1..k : ~Short(p, ins[i], n)
<1> DEFINE S == {i \in 1..k : Short(p, ins[i], n)}
<1>1. S = {}
  <2> SUFFICES ASSUME S # {} PROVE FALSE
    OBVIOUS
  <2>1. PICK i \in S : \A j \in S : i <= j
    <3>1. S \subseteq Nat
      OBVIOUS
    <3> HIDE DEF S
    <3> QED
      BY <3>1, NatLeast
  <2>2. i \in 1..k /\ \A j \in 1..k : j < i => ~Short(p, ins[j], n)
    BY <2>1
  <2> QED
    BY <2>1, <2>2 DEF FirstShort
<1> QED
  BY <1>1

LEMMA ForecastIsInt ==
  ASSUME NEW p \in Descriptions, NEW n \in Nat
  PROVE  Forecast(p, n) \in Int /\ (n * p.down) \div p.up \in Nat
<1>1. /\ p.down \in Nat /\ p.up \in Positive /\ p.history \in Nat
      /\ n * p.down \in Nat
  BY DEF Descriptions, Positive
<1>2. (n * p.down) \div p.up \in Nat
  BY <1>1, QuotientIsNat
<1> QED
  BY <1>1, <1>2 DEF Forecast

(***************************************************************************)
(* What run_one_iteration decides, for a block with inputs: general_work   *)
(* is called for no more than the outputs have room for, and only when     *)
(* every input holds what that takes.                                      *)
(***************************************************************************)
LEMMA DecisionIsCovered ==
  ASSUME NEW p, Steady(p), NEW k \in Nat, k > 0, NEW ins, DOMAIN ins = 1..k,
         \A i \in 1..k : ins[i].items \in Nat, NEW bufsizes, NEW start \in Nat
  PROVE  LET d == Decision(p, Untouched, ins, bufsizes, start)
         IN /\ d.n \in 0..start
            /\ d.result \in {"work", "done", "blkd_in"}
            /\ d.result = "work" => \A i \in 1..k : Forecast(p, d.n) <= ins[i].items
<1> DEFINE r == Request(p, Untouched, {ins[i] : i \in DOMAIN ins}, start)
           d == Decision(p, Untouched, ins, bufsizes, start)
<1>1. r.n \in 0..start
  BY MaxItemsAvailIsNat, SteadyRequest
<1>2. d = Settled(p, Untouched, ins, bufsizes, r)
  BY DEF Decision
<1> HIDE DEF d, r
<1>3. d.n = r.n /\ d.result \in {"work", "done", "blkd_in"}
      /\ (d.result = "work" => FirstShort(p, ins, r.n) = {})
  BY <1>2 DEF Settled
<1>4. ASSUME d.result = "work", NEW i \in 1..k
      PROVE  Forecast(p, d.n) <= ins[i].items
  <2>1. ~Short(p, ins[i], r.n)
    BY <1>3, <1>4, NoFirstShort
  <2>2. r.n \in Nat
    BY <1>1
  <2>3. Forecast(p, r.n) \in Int
    BY <2>2, ForecastIsInt DEF Steady
  <2> QED
    BY <1>3, <2>1, <2>3 DEF Short
<1> QED
  BY <1>1, <1>3, <1>4 DEF d

LEMMA RoomBounds ==
  ASSUME NEW p \in Descriptions, NEW space \in Int, NEW size \in Positive
  PROVE  Room(p, space, size) \in Int /\ Room(p, space, size) <= space
<1>1. p.multiple \in Positive /\ size \div 2 \in Int
  BY Quotient, 2 \in Positive DEF Descriptions, Positive
<1> QED
  BY <1>1, RoundDownBounds DEF Room, AtMost

LEMMA NotBlocking ==
  ASSUME NEW p \in Descriptions, NEW room \in Int, ~Blocking(p, room)
  PROVE  room \in Nat /\ room > 0
BY DEF Blocking, AtLeast, Descriptions

LEMMA GuessIsNat ==
  ASSUME NEW p \in Descriptions, NEW avail \in Nat
  PROVE  SinkNoutput(p, avail) \in Nat /\ MaxNoutputItems(p) \in Nat
<1>1. /\ p.multiple \in Positive /\ p.multiple \in Nat /\ p.up \in Nat /\ p.down \in Positive
      /\ p.max_noutput \in Nat /\ avail * p.up \in Nat
  BY DEF Descriptions, Positive
<1>2. /\ (avail * p.up) \div p.down \in Nat
      /\ ((avail * p.up) \div p.down) \div p.multiple \in Nat
      /\ p.max_noutput \div p.multiple \in Nat
  BY <1>1, QuotientIsNat
<1> QED
  BY <1>1, <1>2 DEF SinkNoutput, MaxNoutputItems, RoundDown, AtMost

(* Making less takes less.                                                 *)
LEMMA LessTakesLess ==
  ASSUME NEW p \in Descriptions, NEW n \in Nat, NEW k \in 0..n
  PROVE  (k * p.down) \div p.up <= Forecast(p, n)
<1>1. /\ p.down \in Nat /\ p.up \in Positive /\ p.history \in Nat /\ p.history > 0
      /\ k \in Nat /\ n * p.down \in Int /\ k * p.down \in Int
  BY DEF Descriptions, Positive
<1>2. k * p.down <= n * p.down
  BY <1>1, TimesMonotone
<1>3. /\ (k * p.down) \div p.up <= (n * p.down) \div p.up
      /\ (n * p.down) \div p.up \in Int /\ (k * p.down) \div p.up \in Int
  BY <1>1, <1>2, QuotientMonotone, Quotient
<1> QED
  BY <1>1, <1>3 DEF Forecast


-----------------------------------------------------------------------------
(***************************************************************************)
(* The indices of the loops stay within the ports they run over.           *)
(***************************************************************************)
InRange(b) ==
  /\ pc[b] \in {"input", "consume"} => at[b] \in DOMAIN Ins[b]
  /\ pc[b] \in {"output", "produce", "wait_out"} => at[b] \in DOMAIN Outs[b]
  /\ pc[b] = "set_done" => at[b] \in DOMAIN Marks(b)
  /\ pc[b] = "notify" => at[b] \in DOMAIN Neighbours[b]

(* What a thread sampled of its inputs is there until it consumes it.      *)
Sampled(b) ==
  /\ Len(seen[b]) <= Len(Ins[b])
  /\ pc[b] = "input" => Len(seen[b]) = at[b] - 1
  /\ pc[b] \in {"output", "work", "wait_in"} => Len(seen[b]) = Len(Ins[b])
  /\ pc[b] \in {"top", "consume", "produce", "set_done", "notify", "exited"} => seen[b] = << >>
  /\ \A i \in 1..Len(seen[b]) : seen[b][i].items <= backlog[<<b, i>>]

(* What work said it consumes is there, until it has been taken.           *)
Covered(b) ==
  pc[b] = "consume" =>
    \A i \in DOMAIN Ins[b] : at[b] <= i => takes[b] <= backlog[<<b, i>>]

(* The outputs for which noutput is settled and not yet made ...           *)
Promised(b) ==
  {j \in DOMAIN Outs[b] : \/ pc[b] = "output" /\ j < at[b]
                          \/ pc[b] \in {"work", "consume"}
                          \/ pc[b] = "produce" /\ at[b] <= j}

(* ... have room for it at every reader.                                   *)
Reserved(b) ==
  \A j \in Promised(b) : \A port \in PortsOf(Outs[b][j]) :
    backlog[port] + noutput[b] <= BufSize[Outs[b][j]] - 1

Asked(b) ==
  /\ pc[b] = "output" /\ at[b] > 1 => noutput[b] > 0
  /\ pc[b] = "work" /\ ~IsSink(b) => noutput[b] > 0
  /\ pc[b] = "produce" => noutput[b] > 0
  /\ pc[b] \in {"consume", "produce"} /\ Supply[b] # Endless =>
       made[b] + noutput[b] <= Supply[b]

(* A block that is done has marked its buffers, or is about to.            *)
Marked(b) ==
  /\ d_done[b] => pc[b] \in {"set_done", "notify", "exited"}
  /\ d_done[b] \/ pc[b] = "set_done" =>
       \A j \in DOMAIN Marks(b) :
         buf_done[Marks(b)[j]] \/ (pc[b] = "set_done" /\ at[b] <= j)

(***************************************************************************)
(* No change is missed: what differs from what a thread sampled is what    *)
(* the writer of that input has yet to tell it.                            *)
(***************************************************************************)
Ahead(w, b) == /\ pc[w] = "notify"
               /\ \E i \in 1..Len(Downstream[w]) : at[w] <= i /\ Neighbours[w][i] = b

Fresh(b) ==
  pc[b] \in {"input", "output", "work", "wait_in"} /\ ~input_changed[b] =>
    \A i \in 1..Len(seen[b]) :
      LET w == Writer(Ins[b][i])
      IN /\ backlog[<<b, i>>] > seen[b][i].items => pc[w] = "produce" \/ Ahead(w, b)
         /\ d_done[w] /\ ~seen[b][i].done => pc[w] = "set_done" \/ Ahead(w, b)

(* The same for a thread that waits for room in an output.                 *)
ToldBelow(r, b) ==
  WillNotify(r, Len(Downstream[r]) + 1..Len(Neighbours[r]), b)

Changed(b, buf) ==
  ~Blocking(Par[b], Room(Par[b], Space(buf), BufSize[buf])) \/ buf_done[buf]

Attentive(b) ==
  pc[b] = "wait_out" /\ ~output_changed[b] /\ Changed(b, Outs[b][at[b]]) =>
    \E port \in PortsOf(Outs[b][at[b]]) : ToldBelow(port[1], b)

Sound(b) == InRange(b) /\ Sampled(b) /\ Covered(b) /\ Reserved(b) /\ Asked(b)

Told == \A b \in Blocks : Marked(b) /\ Fresh(b) /\ Attentive(b)

Flow == TypeOK /\ \A b \in Blocks : Sound(b)

(* A source may be asked for at least its output multiple.                 *)
SourcesMayAsk == \A b \in Blocks : IsSource(b) => Rate[b].multiple <= Limit(b)

-----------------------------------------------------------------------------
(***************************************************************************)
(* Concatenation: everything that is in one of the sequences is in the     *)
(* result.                                                                 *)
(***************************************************************************)
Flattens(s, k, f) ==
  f = [i \in 1..k |-> IF i = 1 THEN s[i] ELSE f[i - 1] \o s[i]]

LEMMA FlattensAt ==
  ASSUME NEW s, NEW k, NEW f, Flattens(s, k, f), NEW i \in 1..k
  PROVE  f[i] = IF i = 1 THEN s[i] ELSE f[i - 1] \o s[i]
<1> DEFINE body(g, j) == IF j = 1 THEN s[j] ELSE g[j - 1] \o s[j]
           h == [j \in 1..k |-> body(f, j)]
<1>1. f = h
  BY DEF Flattens
<1>2. h[i] = body(f, i)
  <2> HIDE DEF body
  <2> QED
    OBVIOUS
<1> HIDE DEF h
<1>3. f[i] = body(f, i)
  BY <1>1, <1>2
<1> QED
  BY <1>3

LEMMA FlattensExists ==
  ASSUME NEW s, NEW n \in Nat, n > 0
  PROVE  \E f : Flattens(s, n, f)
<1> DEFINE Has(k) == \E f : Flattens(s, k, f)
           Bad == {k \in 1..n : ~Has(k)}
<1>1. Has(1)
  <2> DEFINE f == [i \in 1..1 |-> s[i]]
  <2>1. f = [i \in 1..1 |-> IF i = 1 THEN s[i] ELSE f[i - 1] \o s[i]]
    OBVIOUS
  <2> QED
    BY <2>1 DEF Flattens
<1>2. ASSUME NEW k \in Nat, k > 0, Has(k)
      PROVE  Has(k + 1)
  <2>1. PICK f : Flattens(s, k, f)
    BY <1>2
  <2> DEFINE g == [i \in 1..(k + 1) |-> IF i = 1 THEN s[i] ELSE f[i - 1] \o s[i]]
  <2>2. \A i \in 1..(k + 1) : i # 1 => i - 1 \in 1..k
    BY <1>2
  <2>3. \A i \in 1..k : i \in 1..(k + 1) /\ f[i] = g[i]
    BY <1>2, <2>1, FlattensAt
  <2>4. g = [i \in 1..(k + 1) |-> IF i = 1 THEN s[i] ELSE g[i - 1] \o s[i]]
    BY <2>2, <2>3
  <2> HIDE DEF g
  <2>5. Flattens(s, k + 1, g)
    BY <2>4 DEF Flattens
  <2> QED
    BY <2>5
<1> HIDE DEF Has
<1>3. Bad = {}
  <2> SUFFICES ASSUME Bad # {} PROVE FALSE
    OBVIOUS
  <2>1. PICK k \in Bad : \A y \in Bad : k <= y
    <3>1. Bad \subseteq Nat
      OBVIOUS
    <3> HIDE DEF Bad
    <3> QED
      BY <3>1, NatLeast
  <2>2. k \in 1..n /\ k # 1 /\ ~Has(k)
    BY <1>1, <2>1
  <2>3. k - 1 \in 1..n /\ k - 1 \notin Bad
    BY <2>1, <2>2
  <2>4. Has((k - 1) + 1)
    BY <1>2, <2>2, <2>3
  <2> QED
    BY <2>2, <2>4
<1>4. Has(n)
  BY <1>3
<1> QED
  BY <1>4 DEF Has

LEMMA FlattenHolds ==
  ASSUME NEW T, NEW s \in Seq(Seq(T))
  PROVE  /\ FlattenSeq(s) \in Seq(T)
         /\ \A i \in DOMAIN s : \A j \in DOMAIN s[i] :
              \E k \in DOMAIN FlattenSeq(s) : FlattenSeq(s)[k] = s[i][j]
<1>1. CASE s = << >>
  <2>1. FlattenSeq(s) = << >>
    BY <1>1 DEF FlattenSeq
  <2>2. << >> \in Seq(T) /\ DOMAIN << >> = {}
    OBVIOUS
  <2> QED
    BY <1>1, <2>1, <2>2
<1>2. CASE s # << >>
  <2> DEFINE n == Len(s)
             f == CHOOSE g : Flattens(s, n, g)
  <2>1. n \in Nat /\ n > 0 /\ DOMAIN s = 1..n /\ \A i \in 1..n : s[i] \in Seq(T)
    BY <1>2
  <2> HIDE DEF n
  <2>2. Flattens(s, n, f)
    BY <2>1, FlattensExists
  <2>3. FlattenSeq(s) = f[n]
    BY <2>1 DEF FlattenSeq, Flattens, n
  <2> HIDE DEF f
  <2>4. /\ f[1] = s[1]
        /\ \A i \in 1..n : i # 1 => f[i] = f[i - 1] \o s[i]
    <3>1. \A i \in 1..n : f[i] = IF i = 1 THEN s[i] ELSE f[i - 1] \o s[i]
      BY <2>2, FlattensAt
    <3>2. 1 \in 1..n
      BY <2>1
    <3> QED
      BY <3>1, <3>2
  <2> DEFINE Good(k) == /\ f[k] \in Seq(T)
                        /\ \A i \in 1..k : \A j \in DOMAIN s[i] :
                             \E m \in DOMAIN f[k] : f[k][m] = s[i][j]
             Bad == {k \in 1..n : ~Good(k)}
  <2>5. Good(1)
    BY <2>1, <2>4
  <2>6. ASSUME NEW k \in Nat, k > 0, k + 1 \in 1..n, Good(k)
        PROVE  Good(k + 1)
    <3>1. f[k + 1] = f[k] \o s[k + 1]
      <4>1. k + 1 # 1 /\ (k + 1) - 1 = k
        BY <2>6
      <4> QED
        BY <2>4, <2>6, <4>1
    <3>2. s[k + 1] \in Seq(T) /\ f[k] \in Seq(T)
      BY <2>1, <2>6
    <3> DEFINE u == f[k]
               v == s[k + 1]
    <3>3. /\ u \o v \in Seq(T)
          /\ \A m \in DOMAIN u : m \in DOMAIN (u \o v) /\ (u \o v)[m] = u[m]
          /\ \A j \in DOMAIN v : Len(u) + j \in DOMAIN (u \o v) /\ (u \o v)[Len(u) + j] = v[j]
      <4> HIDE DEF u, v
      <4>1. u \in Seq(T) /\ v \in Seq(T)
        BY <3>2 DEF u, v
      <4> QED
        BY <4>1
    <3>4. ASSUME NEW i \in 1..(k + 1), NEW j \in DOMAIN s[i]
          PROVE  \E m \in DOMAIN f[k + 1] : f[k + 1][m] = s[i][j]
      <4>1. CASE i = k + 1
        BY <3>1, <3>3, <4>1
      <4>2. CASE i # k + 1
        <5>1. i \in 1..k
          BY <2>6, <4>2
        <5>2. PICK m \in DOMAIN u : u[m] = s[i][j]
          BY <2>6, <5>1
        <5> QED
          BY <3>1, <3>3, <5>2
      <4> QED
        BY <4>1, <4>2
    <3> QED
      BY <3>1, <3>3, <3>4
  <2> HIDE DEF Good
  <2>7. Bad = {}
    <3> SUFFICES ASSUME Bad # {} PROVE FALSE
      OBVIOUS
    <3>1. PICK k \in Bad : \A y \in Bad : k <= y
      <4>1. Bad \subseteq Nat
        OBVIOUS
      <4> HIDE DEF Bad
      <4> QED
        BY <4>1, NatLeast
    <3>2. k \in 1..n /\ k # 1 /\ ~Good(k)
      BY <2>5, <3>1
    <3>3. k - 1 \in 1..n /\ k - 1 \notin Bad
      BY <2>1, <3>1, <3>2
    <3>4. Good((k - 1) + 1)
      BY <2>6, <3>2, <3>3
    <3> QED
      BY <3>2, <3>4
  <2>8. Good(n)
    BY <2>1, <2>7, SMTT(60)
  <2> QED
    BY <2>1, <2>3, <2>8 DEF Good
<1> QED
  BY <1>1, <1>2

-----------------------------------------------------------------------------
(***************************************************************************)
(* The flowgraph.                                                          *)
(***************************************************************************)
LEMMA PortFacts ==
  ASSUME NEW port \in Ports
  PROVE  /\ port = <<port[1], port[2]>>
         /\ port[1] \in Blocks /\ port[2] \in DOMAIN Ins[port[1]]
         /\ Source(port) = Ins[port[1]][port[2]] /\ Source(port) \in Buffers
<1>1. PICK b \in Blocks : \E i \in DOMAIN Ins[b] : port = <<b, i>>
  BY DEF Ports
<1>2. PICK i \in DOMAIN Ins[b] : port = <<b, i>>
  BY <1>1
<1>3. port[1] = b /\ port[2] = i /\ Ins[b] \in Seq(Buffers)
  BY <1>2, GraphAssumption
<1>4. Ins[b][i] \in Buffers
  BY <1>2, <1>3
<1> QED
  BY <1>2, <1>3, <1>4 DEF Source

LEMMA InputFacts ==
  ASSUME NEW b \in Blocks, NEW i \in DOMAIN Ins[b]
  PROVE  /\ <<b, i>> \in Ports /\ Source(<<b, i>>) = Ins[b][i]
         /\ Ins[b][i] \in Buffers
         /\ <<b, i>> \in PortsOf(Ins[b][i])
<1>1. Ins[b] \in Seq(Buffers)
  BY GraphAssumption
<1>2. <<b, i>> \in Ports /\ <<b, i>>[1] = b /\ <<b, i>>[2] = i /\ Ins[b][i] \in Buffers
  BY <1>1 DEF Ports
<1>3. Source(<<b, i>>) = Ins[b][i]
  BY <1>2 DEF Source
<1> QED
  BY <1>2, <1>3, GraphAssumption

LEMMA OutputFacts ==
  ASSUME NEW b \in Blocks, NEW j \in DOMAIN Outs[b]
  PROVE  /\ Outs[b][j] \in Buffers /\ Outs[b][j] \in Written(b)
         /\ Writer(Outs[b][j]) = b
<1>1. Outs[b] \in Seq(Buffers) /\ Outs[b][j] \in Written(b)
  BY GraphAssumption DEF Written
<1>2. Outs[b][j] \in Buffers
  BY <1>1
<1>3. ASSUME NEW c \in Blocks, Outs[b][j] \in Written(c)
      PROVE  c = b
  <2>1. PICK k \in DOMAIN Outs[c] : Outs[b][j] = Outs[c][k]
    BY <1>3 DEF Written
  <2> QED
    BY <2>1, GraphAssumption
<1>4. Writer(Outs[b][j]) = b
  BY <1>1, <1>3 DEF Writer
<1> QED
  BY <1>1, <1>2, <1>4

(* The writer of a buffer, and the port by which it writes it.             *)
LEMMA WriterFacts ==
  ASSUME NEW buf \in Buffers
  PROVE  Writer(buf) \in Blocks /\ \E j \in DOMAIN Outs[Writer(buf)] : Outs[Writer(buf)][j] = buf
<1>1. PICK b \in Blocks : buf \in Written(b)
  BY GraphAssumption
<1>2. Writer(buf) \in Blocks /\ buf \in Written(Writer(buf))
  BY <1>1 DEF Writer
<1> QED
  BY <1>2 DEF Written

(* The readers of a buffer are the ports it is the source of.              *)
LEMMA ReaderFacts ==
  ASSUME NEW buf \in Buffers
  PROVE  /\ PortsOf(buf) = {port \in Ports : Source(port) = buf} /\ PortsOf(buf) # {}
         /\ Readers[buf] \in Seq(Ports)
         /\ BufSize[buf] \in Positive /\ BufSize[buf] \in Nat
BY GraphAssumption DEF Positive

(* Whom a block notifies downstream: every reader of its outputs.          *)
LEMMA DownstreamFacts ==
  ASSUME NEW b \in Blocks
  PROVE  /\ Downstream[b] \in Seq(Blocks)
         /\ \A j \in DOMAIN Outs[b] : \A port \in PortsOf(Outs[b][j]) :
              \E k \in 1..Len(Downstream[b]) : Downstream[b][k] = port[1]
<1> DEFINE s == [i \in DOMAIN Outs[b] |->
                   [j \in DOMAIN Readers[Outs[b][i]] |-> Readers[Outs[b][i]][j][1]]]
<1>1. Outs[b] \in Seq(Buffers)
  BY GraphAssumption
<1>2. \A i \in DOMAIN Outs[b] : Readers[Outs[b][i]] \in Seq(Ports)
  BY OutputFacts, ReaderFacts
<1>3. \A i \in DOMAIN Outs[b] :
        [j \in DOMAIN Readers[Outs[b][i]] |-> Readers[Outs[b][i]][j][1]] \in Seq(Blocks)
  <2> SUFFICES ASSUME NEW i \in DOMAIN Outs[b]
               PROVE [j \in DOMAIN Readers[Outs[b][i]] |-> Readers[Outs[b][i]][j][1]]
                       \in Seq(Blocks)
    OBVIOUS
  <2> DEFINE u == Readers[Outs[b][i]]
  <2>1. u \in Seq(Ports)
    BY <1>2
  <2> HIDE DEF u
  <2>2. Len(u) \in Nat /\ DOMAIN u = 1..Len(u) /\ \A j \in 1..Len(u) : u[j] \in Ports
    BY <2>1
  <2>3. \A j \in 1..Len(u) : u[j][1] \in Blocks
    BY <2>2, PortFacts
  <2>4. [j \in 1..Len(u) |-> u[j][1]] \in Seq(Blocks)
    BY <2>2, <2>3
  <2> QED
    BY <2>2, <2>4 DEF u
<1>4. s \in Seq(Seq(Blocks))
  <2>1. DOMAIN Outs[b] = 1..Len(Outs[b]) /\ Len(Outs[b]) \in Nat
    BY <1>1
  <2> QED
    BY <1>3, <2>1
<1>5. Downstream[b] = FlattenSeq(s)
  BY DEF Downstream
<1>6. ASSUME NEW j \in DOMAIN Outs[b], NEW port \in PortsOf(Outs[b][j])
      PROVE  \E k \in 1..Len(Downstream[b]) : Downstream[b][k] = port[1]
  <2>1. PICK m \in DOMAIN Readers[Outs[b][j]] : port = Readers[Outs[b][j]][m]
    BY <1>6 DEF PortsOf
  <2>2. j \in DOMAIN s /\ m \in DOMAIN s[j] /\ s[j][m] = port[1]
    BY <2>1
  <2> HIDE DEF s
  <2>3. FlattenSeq(s) \in Seq(Blocks) /\ \E k \in DOMAIN FlattenSeq(s) : FlattenSeq(s)[k] = port[1]
    BY <1>4, <2>2, FlattenHolds
  <2> QED
    BY <1>5, <2>3
<1> HIDE DEF s
<1> QED
  BY <1>4, <1>5, <1>6, FlattenHolds

LEMMA NeighbourFacts ==
  ASSUME NEW b \in Blocks
  PROVE  /\ Len(Downstream[b]) \in Nat
         /\ Len(Neighbours[b]) = Len(Downstream[b]) + Len(Ins[b])
         /\ DOMAIN Neighbours[b] = 1..Len(Neighbours[b])
         /\ \A k \in 1..Len(Neighbours[b]) : Neighbours[b][k] \in Blocks
         /\ \A k \in 1..Len(Downstream[b]) : Neighbours[b][k] = Downstream[b][k]
         /\ \A i \in DOMAIN Ins[b] :
              Neighbours[b][Len(Downstream[b]) + i] = Writer(Ins[b][i])
<1> DEFINE u == Downstream[b]
           v == Upstream[b]
<1>1. u \in Seq(Blocks)
  BY DownstreamFacts
<1>2. v = [i \in DOMAIN Ins[b] |-> Writer(Ins[b][i])]
  BY DEF Upstream
<1>3. Ins[b] \in Seq(Buffers)
  BY GraphAssumption
<1>4. \A i \in DOMAIN Ins[b] : Writer(Ins[b][i]) \in Blocks
  BY InputFacts, WriterFacts
<1>5. v \in Seq(Blocks) /\ Len(v) = Len(Ins[b]) /\ \A i \in DOMAIN Ins[b] : v[i] = Writer(Ins[b][i])
  BY <1>2, <1>3, <1>4
<1>6. Neighbours[b] = u \o v
  BY DEF Neighbours
<1> HIDE DEF u, v
<1>7. /\ u \o v \in Seq(Blocks) /\ Len(u \o v) = Len(u) + Len(v)
      /\ \A k \in 1..Len(u) : (u \o v)[k] = u[k]
      /\ \A i \in 1..Len(v) : (u \o v)[Len(u) + i] = v[i]
  BY <1>1, <1>5
<1>8. DOMAIN Ins[b] = 1..Len(v)
  BY <1>3, <1>5
<1>9. \A k \in 1..Len(u \o v) : (u \o v)[k] \in Blocks
  BY <1>7
<1>10. Len(u) \in Nat /\ DOMAIN (u \o v) = 1..Len(u \o v)
  BY <1>1, <1>7
<1>11. \A i \in 1..Len(v) : (u \o v)[Len(u) + i] = Writer(Ins[b][i])
  BY <1>5, <1>7, <1>8
<1> QED
  BY <1>5, <1>6, <1>7, <1>8, <1>9, <1>10, <1>11 DEF u

LEMMA Positives ==
  \A m, n \in Nat : /\ m > 0 \/ n > 0 => 1 \in 1..(m + n)
                    /\ n > 0 => m + 1 \in 1..(m + n)
OBVIOUS

(* Every block has somebody to notify, and a block with outputs somebody   *)
(* downstream.                                                             *)
LEMMA SomebodyToTell ==
  ASSUME NEW b \in Blocks
  PROVE  /\ 1 \in DOMAIN Neighbours[b] /\ DOMAIN Marks(b) = 1..Len(Marks(b))
         /\ 1 \in DOMAIN Marks(b)
         /\ Len(Marks(b)) \in Nat /\ Marks(b) \in Seq(Buffers)
<1>1. Outs[b] \in Seq(Buffers) /\ Ins[b] \in Seq(Buffers)
  BY GraphAssumption
<1>2. Marks(b) \in Seq(Buffers) /\ Len(Marks(b)) = Len(Outs[b]) + Len(Ins[b])
  BY <1>1 DEF Marks
<1>3. Len(Outs[b]) > 0 \/ Len(Ins[b]) > 0
  BY <1>1, GraphAssumption
<1>4. ASSUME Len(Ins[b]) > 0 PROVE 1 \in DOMAIN Neighbours[b]
  <2>1. Len(Ins[b]) \in Nat
    BY <1>1
  <2>2. /\ Len(Neighbours[b]) = Len(Downstream[b]) + Len(Ins[b])
        /\ Len(Downstream[b]) \in Nat /\ DOMAIN Neighbours[b] = 1..Len(Neighbours[b])
    BY NeighbourFacts
  <2>3. 1 \in 1..Len(Neighbours[b])
    BY <1>4, <2>1, <2>2, Positives
  <2> QED
    BY <2>2, <2>3
<1>5. ASSUME Len(Outs[b]) > 0 PROVE 1 \in DOMAIN Neighbours[b]
  <2>1. 1 \in DOMAIN Outs[b]
    BY <1>1, <1>5
  <2>2. PICK port \in PortsOf(Outs[b][1]) : TRUE
    BY <2>1, OutputFacts, ReaderFacts
  <2>3. Len(Downstream[b]) \in Nat /\ \E k \in 1..Len(Downstream[b]) : Downstream[b][k] = port[1]
    BY <2>1, <2>2, DownstreamFacts
  <2>4. Len(Downstream[b]) > 0 /\ Len(Ins[b]) \in Nat
    BY <1>1, <2>3
  <2>5. /\ Len(Neighbours[b]) = Len(Downstream[b]) + Len(Ins[b])
        /\ Len(Downstream[b]) \in Nat /\ DOMAIN Neighbours[b] = 1..Len(Neighbours[b])
    BY NeighbourFacts
  <2>6. 1 \in 1..Len(Neighbours[b])
    BY <2>4, <2>5, Positives
  <2> QED
    BY <2>5, <2>6
<1>6. Len(Outs[b]) \in Nat /\ Len(Ins[b]) \in Nat
  BY <1>1
<1>7. 1 \in DOMAIN Neighbours[b]
  BY <1>3, <1>4, <1>5
<1>8. DOMAIN Marks(b) = 1..Len(Marks(b)) /\ Len(Marks(b)) \in Nat
  BY <1>2, LenProperties
<1>9. 1 \in 1..Len(Marks(b))
  BY <1>2, <1>3, <1>6, Positives
<1> QED
  BY <1>2, <1>7, <1>8, <1>9

(* Space: every reader's backlog fits with it.                             *)
LEMMA SpaceFacts ==
  ASSUME NEW buf \in Buffers, backlog \in [Ports -> Int]
  PROVE  /\ Space(buf) \in Int
         /\ \A port \in PortsOf(buf) : backlog[port] + Space(buf) <= BufSize[buf] - 1
<1> DEFINE n == Len(Readers[buf])
           f == [i \in 1..n |-> backlog[Readers[buf][i]]]
           lags == {backlog[port] : port \in PortsOf(buf)}
<1>1. /\ n \in Nat /\ DOMAIN Readers[buf] = 1..n
      /\ \A i \in 1..n : Readers[buf][i] \in Ports /\ Readers[buf][i] \in PortsOf(buf)
      /\ BufSize[buf] \in Int
  BY ReaderFacts DEF PortsOf
<1>2. n > 0
  BY <1>1, ReaderFacts DEF PortsOf
<1> HIDE DEF n
<1>3. PICK i \in 1..n : \A j \in 1..n : f[j] <= f[i]
  <2>1. \A j \in 1..n : f[j] \in Int
    BY <1>1
  <2> HIDE DEF f
  <2> QED
    BY <1>1, <1>2, <2>1, GreatestOfFamily
<1>4. f[i] \in lags /\ \A m \in lags : m <= f[i]
  BY <1>1, <1>3 DEF PortsOf
<1> DEFINE top == CHOOSE k \in lags : \A m \in lags : m <= k
<1>5. top \in lags /\ \A m \in lags : m <= top
  <2> HIDE DEF lags
  <2> QED
    BY <1>4
<1>6. \A port \in PortsOf(buf) : port \in Ports
  BY ReaderFacts
<1>7. top \in Int
  BY <1>5, <1>6
<1>8. Space(buf) = BufSize[buf] - 1 - top
  BY DEF Space
<1>9. \A port \in PortsOf(buf) : backlog[port] <= top /\ backlog[port] \in Int
  BY <1>5, <1>6
<1> HIDE DEF top
<1> QED
  BY <1>1, <1>7, <1>8, <1>9

-----------------------------------------------------------------------------
(***************************************************************************)
(* The blocks.                                                             *)
(***************************************************************************)
LEMMA LimitIsNat ==
  ASSUME NEW b \in Blocks
  PROVE  Limit(b) \in Nat
<1> DEFINE pos == CHOOSE i \in DOMAIN Order : Order[i] = b
           S == {i \in 1..pos : OwnMax[Order[i]] # 0}
           m == CHOOSE i \in S : \A j \in S : j <= i
<1>1. pos \in DOMAIN Order /\ Order \in Seq(Blocks)
  BY BlocksAssumption
<1> HIDE DEF pos
<1>2. pos \in Nat /\ \A i \in 1..pos : Order[i] \in Blocks
  BY <1>1
<1>3. \A i \in S : OwnMax[Order[i]] \in Nat
  BY <1>2, BlocksAssumption
<1>4. CASE S = {}
  BY <1>4, BlocksAssumption DEF Limit, pos
<1>5. CASE S # {}
  <2>1. \E i \in S : \A j \in S : j <= i
    <3> DEFINE D == {pos - i : i \in S}
    <3>1. D \subseteq Nat /\ D # {}
      BY <1>2, <1>5
    <3>2. PICK x \in D : \A y \in D : x <= y
      <4> HIDE DEF D
      <4> QED
        BY <3>1, NatLeast
    <3>3. PICK i \in S : x = pos - i
      BY <3>2
    <3>4. \A j \in S : pos - i <= pos - j
      BY <3>2, <3>3
    <3>5. \A j \in S : j <= i
      BY <1>2, <3>4
    <3> QED
      BY <3>5
  <2>2. m \in S
    <3> HIDE DEF S
    <3> QED
      BY <2>1
  <2>3. Limit(b) = OwnMax[Order[m]]
    BY <1>5 DEF Limit, pos
  <2> QED
    BY <1>3, <2>2, <2>3
<1> QED
  BY <1>4, <1>5

LEMMA ParFacts ==
  ASSUME NEW b \in Blocks
  PROVE  /\ Steady(Par[b]) /\ Par[b] \in Descriptions /\ Rate[b] \in Descriptions
         /\ Par[b].up = Rate[b].up /\ Par[b].down = Rate[b].down
         /\ Par[b].multiple = Rate[b].multiple /\ Par[b].max_noutput = Limit(b)
<1>1. /\ Rate[b] \in Descriptions /\ Limit(b) \in Nat
      /\ Rate[b].multiple_set \/ Rate[b].multiple = 1
  BY LimitIsNat, BlocksAssumption
<1>2. Par[b] = [Rate[b] EXCEPT !.max_noutput = Limit(b)]
  BY DEF Par
<1> QED
  BY <1>1, <1>2 DEF Descriptions, Steady

LEMMA EndsOfLoops ==
  ASSUME NEW b \in Blocks
  PROVE  /\ DOMAIN Ins[b] = 1..Len(Ins[b]) /\ Len(Ins[b]) \in Nat
         /\ DOMAIN Outs[b] = 1..Len(Outs[b]) /\ Len(Outs[b]) \in Nat
         /\ ~IsSource(b) => 1 \in DOMAIN Ins[b]
         /\ ~IsSink(b) => 1 \in DOMAIN Outs[b]
         /\ IsSource(b) => ~IsSink(b)
         /\ IsSource(b) <=> Len(Ins[b]) = 0
<1>1. Outs[b] \in Seq(Buffers) /\ Ins[b] \in Seq(Buffers)
  BY GraphAssumption
<1>2. /\ DOMAIN Ins[b] = 1..Len(Ins[b]) /\ Len(Ins[b]) \in Nat
      /\ DOMAIN Outs[b] = 1..Len(Outs[b]) /\ Len(Outs[b]) \in Nat
  BY <1>1, LenProperties
<1>3. /\ ~IsSource(b) => Len(Ins[b]) > 0
      /\ IsSource(b) => Len(Ins[b]) = 0
      /\ ~IsSink(b) => Len(Outs[b]) > 0
  BY <1>1 DEF IsSource, IsSink
<1>4. IsSource(b) => ~IsSink(b)
  BY GraphAssumption DEF IsSource, IsSink
<1>5. \A n \in Nat : n > 0 => 1 \in 1..n
  OBVIOUS
<1> QED
  BY <1>2, <1>3, <1>4, <1>5

LEMMA DownstreamFirst ==
  ASSUME NEW b \in Blocks
  PROVE  /\ Len(Downstream[b]) \in Nat /\ Len(Neighbours[b]) \in Nat
         /\ Len(Downstream[b]) <= Len(Neighbours[b])
<1>1. \A m \in Nat, n \in Nat : m + n \in Nat /\ m <= m + n
  OBVIOUS
<1>2. Len(Downstream[b]) \in Nat /\ Len(Neighbours[b]) = Len(Downstream[b]) + Len(Ins[b])
  BY NeighbourFacts
<1>3. Len(Ins[b]) \in Nat
  BY EndsOfLoops
<1> QED
  BY <1>1, <1>2, <1>3

(* set_done marks the outputs and then the inputs.                         *)
LEMMA MarksFacts ==
  ASSUME NEW b \in Blocks
  PROVE  /\ \A j \in DOMAIN Outs[b] : j \in DOMAIN Marks(b) /\ Marks(b)[j] = Outs[b][j]
         /\ \A j \in DOMAIN Marks(b) : \/ \E k \in DOMAIN Outs[b] : Marks(b)[j] = Outs[b][k]
                                       \/ \E k \in DOMAIN Ins[b] : Marks(b)[j] = Ins[b][k]
<1> DEFINE u == Outs[b]
           v == Ins[b]
<1>1. u \in Seq(Buffers) /\ v \in Seq(Buffers)
  BY GraphAssumption
<1>2. Marks(b) = u \o v
  BY DEF Marks
<1> HIDE DEF u, v
<1>3. \A j \in DOMAIN u : j \in DOMAIN (u \o v) /\ (u \o v)[j] = u[j]
  BY <1>1
<1>4. ASSUME NEW j \in DOMAIN (u \o v)
      PROVE  \/ \E k \in DOMAIN u : (u \o v)[j] = u[k]
             \/ \E k \in DOMAIN v : (u \o v)[j] = v[k]
  <2>1. Len(u) \in Nat /\ Len(v) \in Nat /\ j \in 1..(Len(u) + Len(v))
    BY <1>1, <1>4
  <2>2. CASE j <= Len(u)
    <3>1. j \in DOMAIN u /\ (u \o v)[j] = u[j]
      BY <1>1, <2>1, <2>2
    <3> QED
      BY <3>1
  <2>3. CASE ~(j <= Len(u))
    <3>1. j - Len(u) \in DOMAIN v /\ (u \o v)[j] = v[j - Len(u)]
      BY <1>1, <2>1, <2>3
    <3> QED
      BY <3>1
  <2> QED
    BY <2>2, <2>3
<1> QED
  BY <1>2, <1>3, <1>4 DEF u, v

-----------------------------------------------------------------------------
(***************************************************************************)
(* What a step of one thread leaves of what another relies on: its inputs  *)
(* are not taken from, its outputs not added to.                           *)
(***************************************************************************)
Same(c) == /\ pc'[c] = pc[c] /\ at'[c] = at[c] /\ seen'[c] = seen[c]
           /\ noutput'[c] = noutput[c] /\ takes'[c] = takes[c] /\ made'[c] = made[c]

Harmless(c) ==
  /\ \A i \in DOMAIN Ins[c] : backlog[<<c, i>>] <= backlog'[<<c, i>>]
  /\ \A j \in DOMAIN Outs[c] : \A port \in PortsOf(Outs[c][j]) : backlog'[port] <= backlog[port]

LEMMA SeenFacts ==
  ASSUME TypeOK, NEW c \in Blocks
  PROVE  /\ seen[c] \in Seq([items : Nat, done : BOOLEAN]) /\ Len(seen[c]) \in Nat
         /\ DOMAIN seen[c] = 1..Len(seen[c])
         /\ \A i \in 1..Len(seen[c]) : seen[c][i] \in [items : Nat, done : BOOLEAN]
         /\ \A i \in 1..Len(seen[c]) : seen[c][i].items \in Nat
<1>1. seen[c] \in Seq([items : Nat, done : BOOLEAN])
  BY DEF TypeOK
<1>2. Len(seen[c]) \in Nat /\ DOMAIN seen[c] = 1..Len(seen[c])
  BY <1>1, LenProperties
<1>3. \A i \in 1..Len(seen[c]) : seen[c][i] \in [items : Nat, done : BOOLEAN]
  BY <1>1, ElementOfSeq
<1> QED
  BY <1>1, <1>2, <1>3

LEMMA OthersSound ==
  ASSUME NEW c \in Blocks, TypeOK, TypeOK', Sound(c), Same(c), Harmless(c)
  PROVE  Sound(c)'
<1>1. InRange(c)' /\ Asked(c)'
  BY DEF Sound, InRange, Asked, Same
<1>2. /\ seen[c] \in Seq([items : Nat, done : BOOLEAN]) /\ Len(seen[c]) \in Nat
      /\ \A i \in 1..Len(seen[c]) : seen[c][i].items \in Nat
      /\ \A port \in Ports : backlog[port] \in Nat /\ backlog'[port] \in Nat
      /\ noutput[c] \in Nat /\ takes[c] \in Nat
  BY SeenFacts DEF TypeOK
<1>3. Sampled(c)'
  <2>1. \A i \in 1..Len(seen[c]) : i \in DOMAIN Ins[c] /\ <<c, i>> \in Ports
    <3>1. \A i \in 1..Len(seen[c]) : i \in DOMAIN Ins[c]
      BY <1>2, EndsOfLoops DEF Sound, Sampled
    <3> QED
      BY <3>1, InputFacts
  <2>2. ASSUME NEW i \in 1..Len(seen[c]) PROVE seen[c][i].items <= backlog'[<<c, i>>]
    <3>1. seen[c][i].items \in Nat /\ i \in DOMAIN Ins[c] /\ <<c, i>> \in Ports
      BY <1>2, <2>1
    <3>2. backlog[<<c, i>>] \in Nat /\ backlog'[<<c, i>>] \in Nat
      BY <1>2, <3>1
    <3>3. seen[c][i].items <= backlog[<<c, i>>]
      BY DEF Sound, Sampled
    <3>4. backlog[<<c, i>>] <= backlog'[<<c, i>>]
      BY <3>1 DEF Harmless
    <3> QED
      BY <3>1, <3>2, <3>3, <3>4
  <2> QED
    BY <2>2 DEF Sound, Sampled, Same
<1>4. Covered(c)'
  <2>1. \A i \in DOMAIN Ins[c] : <<c, i>> \in Ports
    BY InputFacts
  <2> QED
    BY <1>2, <2>1 DEF Sound, Covered, Same, Harmless
<1>5. Reserved(c)'
  <2>1. Promised(c)' = Promised(c) /\ Promised(c) \subseteq DOMAIN Outs[c]
    BY DEF Promised, Same
  <2> SUFFICES ASSUME NEW j \in Promised(c), NEW port \in PortsOf(Outs[c][j])
               PROVE  backlog'[port] + noutput[c] <= BufSize[Outs[c][j]] - 1
    BY <2>1 DEF Reserved, Same
  <2>2. port \in Ports /\ BufSize[Outs[c][j]] \in Nat
    BY <2>1, OutputFacts, ReaderFacts
  <2>3. backlog'[port] <= backlog[port]
    BY <2>1 DEF Harmless
  <2>4. backlog[port] + noutput[c] <= BufSize[Outs[c][j]] - 1
    BY DEF Sound, Reserved
  <2> QED
    BY <1>2, <2>2, <2>3, <2>4
<1> QED
  BY <1>1, <1>3, <1>4, <1>5 DEF Sound

LEMMA BacklogAsItWas ==
  ASSUME TypeOK, UNCHANGED backlog, NEW c \in Blocks
  PROVE  Harmless(c)
<1>1. \A port \in Ports : backlog[port] <= backlog'[port] /\ backlog'[port] <= backlog[port]
  BY DEF TypeOK
<1>2. \A i \in DOMAIN Ins[c] : <<c, i>> \in Ports
  BY InputFacts
<1>3. \A j \in DOMAIN Outs[c] : \A port \in PortsOf(Outs[c][j]) : port \in Ports
  BY OutputFacts, ReaderFacts
<1> QED
  BY <1>1, <1>2, <1>3 DEF Harmless

-----------------------------------------------------------------------------
(***************************************************************************)
(* The steps.                                                              *)
(***************************************************************************)
LEMMA ClearChangedFlow ==
  ASSUME NEW b \in Blocks, Flow, ClearChanged(b)
  PROVE  Flow'
<1> USE DEF ClearChanged, Goto, streams, ends, locals
<1>1. TypeOK'
  BY DEF Flow, TypeOK, Locations
<1>2. ASSUME NEW c \in Blocks, c # b
      PROVE  Sound(c)'
  <2>1. Same(c)
    BY <1>2 DEF Same, Flow, TypeOK
  <2> QED
    BY <1>1, <2>1, OthersSound, BacklogAsItWas DEF Flow
<1>3. Sound(b)'
  <2>1. /\ pc'[b] = IF IsSource(b) THEN "output" ELSE "input"
        /\ at'[b] = 1 /\ seen'[b] = << >>
    BY DEF Flow, TypeOK, Sound, Sampled
  <2>2. InRange(b)' /\ Covered(b)' /\ Asked(b)'
    BY <2>1, EndsOfLoops DEF InRange, Covered, Asked
  <2>3. Sampled(b)'
    BY <2>1, EndsOfLoops DEF Sampled
  <2>4. Promised(b)' = {}
    BY <2>1, EndsOfLoops DEF Promised
  <2> QED
    BY <2>2, <2>3, <2>4 DEF Sound, Reserved
<1> QED
  BY <1>1, <1>2, <1>3 DEF Flow

(* What a thread that gives up or has notified relies on: nothing.         *)
LEMMA NothingLeft ==
  ASSUME NEW b \in Blocks, pc'[b] \in {"top", "set_done", "notify", "exited"},
         seen'[b] = << >>, InRange(b)'
  PROVE  Sound(b)'
<1>1. Sampled(b)'
  BY EndsOfLoops DEF Sampled
<1>2. Covered(b)' /\ Asked(b)'
  BY DEF Covered, Asked
<1>3. Promised(b)' = {}
  BY DEF Promised
<1> QED
  BY <1>1, <1>2, <1>3 DEF Sound, Reserved

LEMMA SampleInputFlow ==
  ASSUME NEW b \in Blocks, Flow, SampleInput(b)
  PROVE  Flow'
<1> DEFINE port == <<b, at[b]>>
           in == [items |-> backlog[port], done |-> buf_done[Source(port)]]
           gives == IsSink(b) /\ InputExhausted(Par[b], in)
<1> USE DEF streams, flags, ends
<1>1. /\ pc[b] = "input" /\ at[b] \in DOMAIN Ins[b] /\ at[b] \in Nat /\ Sound(b) /\ TypeOK
      /\ Len(seen[b]) = at[b] - 1
  BY DEF Flow, SampleInput, Sound, InRange, Sampled, TypeOK
<1>2. port \in Ports /\ Source(port) \in Buffers
  BY <1>1, InputFacts
<1>3. in \in [items : Nat, done : BOOLEAN] /\ in.items = backlog[port]
  BY <1>1, <1>2 DEF TypeOK
<1>4. CASE gives
  <2>1. GiveUp(b, "input") /\ UNCHANGED <<streams, flags, d_done, made, interrupted>>
    BY <1>4 DEF SampleInput
  <2>2. TypeOK'
    BY <1>1, <2>1 DEF TypeOK, GiveUp, Goto, Forget, Locations
  <2>3. ASSUME NEW c \in Blocks, c # b PROVE Sound(c)'
    <3>1. Same(c)
      BY <1>1, <2>1, <2>3 DEF Same, TypeOK, GiveUp, Goto, Forget
    <3> QED
      BY <1>1, <2>1, <2>2, <3>1, OthersSound, BacklogAsItWas DEF Flow
  <2>4. pc'[b] = "set_done" /\ at'[b] = 1 /\ seen'[b] = << >>
    BY <1>1, <2>1 DEF TypeOK, GiveUp, Goto, Forget
  <2>5. InRange(b)'
    BY <2>4, SomebodyToTell DEF InRange
  <2> QED
    BY <2>2, <2>3, <2>4, <2>5, NothingLeft DEF Flow
<1>5. CASE ~gives
  <2> HIDE DEF gives, in, port
  <2>1. /\ seen' = [seen EXCEPT ![b] = Append(@, in)]
        /\ IF at[b] < Len(Ins[b]) THEN Goto(b, "input", at[b] + 1)
           ELSE Goto(b, IF IsSink(b) THEN "work" ELSE "output", 1)
        /\ UNCHANGED <<why, noutput, takes, backlog, buf_done, input_changed, output_changed,
                       d_done, made, interrupted>>
    BY <1>5 DEF SampleInput, gives, in, port
  <2>2. /\ seen[b] \in Seq([items : Nat, done : BOOLEAN])
        /\ Append(seen[b], in) \in Seq([items : Nat, done : BOOLEAN])
        /\ Len(Append(seen[b], in)) = at[b]
        /\ \A i \in 1..at[b] : Append(seen[b], in)[i] = IF i = at[b] THEN in ELSE seen[b][i]
    <3>1. seen[b] \in Seq([items : Nat, done : BOOLEAN])
      BY <1>1, SeenFacts
    <3> QED
      BY <1>1, <1>3, <3>1
  <2>3. TypeOK'
    <3>1. seen' \in [Blocks -> Seq([items : Nat, done : BOOLEAN])]
      BY <1>1, <2>1, <2>2 DEF TypeOK
    <3>2. pc' \in [Blocks -> Locations] /\ at' \in [Blocks -> Nat \ {0}]
      <4>1. \A where \in Locations, index \in Nat \ {0} : Goto(b, where, index) =>
              pc' \in [Blocks -> Locations] /\ at' \in [Blocks -> Nat \ {0}]
        BY <1>1 DEF TypeOK, Goto
      <4>2. {"input", "work", "output"} \subseteq Locations /\ at[b] + 1 \in Nat \ {0}
        BY <1>1 DEF Locations
      <4> QED
        BY <2>1, <4>1, <4>2
    <3> QED
      BY <1>1, <2>1, <3>1, <3>2 DEF TypeOK
  <2>4. ASSUME NEW c \in Blocks, c # b PROVE Sound(c)'
    <3>1. Same(c)
      BY <1>1, <2>1, <2>4 DEF Same, TypeOK, Goto
    <3> QED
      BY <1>1, <2>1, <2>3, <3>1, OthersSound, BacklogAsItWas DEF Flow
  <2>5. /\ seen'[b] = Append(seen[b], in) /\ Len(seen'[b]) = at[b]
        /\ IF at[b] < Len(Ins[b]) THEN pc'[b] = "input" /\ at'[b] = at[b] + 1
           ELSE pc'[b] = (IF IsSink(b) THEN "work" ELSE "output") /\ at'[b] = 1
    BY <1>1, <2>1, <2>2 DEF TypeOK, Goto
  <2>6. at[b] <= Len(Ins[b]) /\ Len(Ins[b]) \in Nat /\ DOMAIN Ins[b] = 1..Len(Ins[b])
    BY <1>1, EndsOfLoops
  <2>7. InRange(b)' /\ Covered(b)' /\ Asked(b)'
    BY <1>1, <2>5, <2>6, EndsOfLoops, SMTT(60) DEF InRange, Covered, Asked
  <2>8. Sampled(b)'
    <3>1. \A i \in 1..at[b] : seen'[b][i].items <= backlog'[<<b, i>>]
      <4> SUFFICES ASSUME NEW i \in 1..at[b] PROVE seen'[b][i].items <= backlog'[<<b, i>>]
        OBVIOUS
      <4>1. CASE i = at[b]
        BY <1>1, <1>2, <1>3, <2>1, <2>2, <2>5, <4>1 DEF TypeOK, port
      <4>2. CASE i # at[b]
        <5>1. i \in 1..Len(seen[b])
          BY <1>1, <4>2
        <5> QED
          BY <1>1, <2>1, <2>2, <2>5, <4>2, <5>1 DEF Sound, Sampled
      <4> QED
        BY <4>1, <4>2
    <3> QED
      BY <1>1, <2>5, <2>6, <3>1 DEF Sampled
  <2>9. Reserved(b)'
    <3>1. Promised(b)' = IF pc'[b] = "work" THEN DOMAIN Outs[b] ELSE {}
      BY <2>5, EndsOfLoops DEF Promised
    <3>2. pc'[b] = "work" => DOMAIN Outs[b] = {}
      BY <2>5 DEF IsSink
    <3> QED
      BY <3>1, <3>2 DEF Reserved
  <2> QED
    BY <2>3, <2>4, <2>7, <2>8, <2>9 DEF Flow, Sound
<1> QED
  BY <1>4, <1>5

LEMMA GoesSomewhere ==
  ASSUME TypeOK, NEW b \in Blocks, NEW where \in Locations, NEW index \in Nat \ {0},
         Goto(b, where, index)
  PROVE  /\ pc' \in [Blocks -> Locations] /\ at' \in [Blocks -> Nat \ {0}]
         /\ pc'[b] = where /\ at'[b] = index
         /\ \A c \in Blocks : c # b => pc'[c] = pc[c] /\ at'[c] = at[c]
BY DEF TypeOK, Goto

(* A thread that gives up.                                                 *)
LEMMA GiveUpFlow ==
  ASSUME NEW b \in Blocks, Flow, NEW reason \in {"input", "output", "work"},
         GiveUp(b, reason), UNCHANGED <<streams, flags, d_done, made, interrupted>>
  PROVE  Flow'
<1> USE DEF streams, flags, GiveUp, Goto, Forget
<1>1. TypeOK'
  BY DEF Flow, TypeOK, Locations
<1>2. ASSUME NEW c \in Blocks, c # b PROVE Sound(c)'
  <2>1. Same(c)
    BY <1>2 DEF Same, Flow, TypeOK
  <2> QED
    BY <1>1, <2>1, OthersSound, BacklogAsItWas DEF Flow
<1>3. pc'[b] = "set_done" /\ at'[b] = 1 /\ seen'[b] = << >>
  BY DEF Flow, TypeOK
<1>4. InRange(b)'
  BY <1>3, SomebodyToTell DEF InRange
<1> QED
  BY <1>1, <1>2, <1>3, <1>4, NothingLeft DEF Flow

(* A thread that waits keeps what it sampled, to no purpose.               *)
LEMMA WaitFlow ==
  ASSUME NEW b \in Blocks, Flow, pc[b] \in {"output", "work"},
         NEW where \in {"wait_in", "wait_out"}, NEW index \in Nat \ {0},
         where = "wait_out" => index \in DOMAIN Outs[b],
         Goto(b, where, index),
         UNCHANGED <<streams, flags, d_done, made, interrupted, why, locals>>
  PROVE  Flow'
<1>1. TypeOK /\ TypeOK'
  <2>1. where \in Locations
    BY DEF Locations
  <2>2. pc' \in [Blocks -> Locations] /\ at' \in [Blocks -> Nat \ {0}]
    BY <2>1, GoesSomewhere DEF Flow
  <2> QED
    BY <2>2 DEF Flow, TypeOK, streams, flags, locals
<1>2. ASSUME NEW c \in Blocks, c # b PROVE Sound(c)'
  <2>1. Same(c)
    BY <1>2, GoesSomewhere DEF Same, Flow, Locations, locals
  <2> QED
    BY <1>1, <2>1, OthersSound, BacklogAsItWas DEF Flow, streams
<1>3. pc'[b] = where /\ at'[b] = index /\ seen'[b] = seen[b]
  BY <1>1, GoesSomewhere DEF Locations, locals
<1>4. InRange(b)' /\ Covered(b)' /\ Asked(b)'
  BY <1>3 DEF InRange, Covered, Asked
<1>5. Sampled(b)'
  <2>1. Sampled(b) /\ Len(seen[b]) = Len(Ins[b])
    BY DEF Flow, Sound, Sampled
  <2> QED
    BY <1>3, <2>1 DEF Sampled, streams
<1>6. Promised(b)' = {}
  BY <1>3 DEF Promised
<1> QED
  BY <1>1, <1>2, <1>4, <1>5, <1>6 DEF Flow, Sound, Reserved

LEMMA SampleOutputFlow ==
  ASSUME NEW b \in Blocks, Flow, SampleOutput(b)
  PROVE  Flow'
<1> DEFINE buf == Outs[b][at[b]]
           room == Room(Par[b], Space(buf), BufSize[buf])
<1>1. /\ pc[b] = "output" /\ at[b] \in DOMAIN Outs[b] /\ at[b] \in Nat \ {0}
      /\ Sound(b) /\ TypeOK
  BY DEF Flow, SampleOutput, Sound, InRange, TypeOK
<1>2. buf \in Buffers /\ BufSize[buf] \in Positive /\ BufSize[buf] \in Nat
  BY <1>1, OutputFacts, ReaderFacts
<1>3. /\ Space(buf) \in Int
      /\ \A port \in PortsOf(buf) : backlog[port] + Space(buf) <= BufSize[buf] - 1
  <2>1. backlog \in [Ports -> Int]
    BY <1>1 DEF TypeOK
  <2> HIDE DEF buf
  <2> QED
    BY <1>2, <2>1, SpaceFacts
<1>4. room \in Int /\ room <= Space(buf)
  BY <1>2, <1>3, ParFacts, RoomBounds
<1>5. CASE Blocking(Par[b], room) /\ buf_done[buf]
  BY <1>5, GiveUpFlow DEF SampleOutput
<1>6. CASE Blocking(Par[b], room) /\ ~buf_done[buf]
  BY <1>1, <1>6, WaitFlow DEF SampleOutput
<1>7. CASE ~Blocking(Par[b], room)
  <2> DEFINE n == IF at[b] = 1 THEN room ELSE AtMost(noutput[b], room)
  <2>1. room \in Nat /\ room > 0
    BY <1>4, <1>7, ParFacts, NotBlocking
  <2>2. noutput[b] \in Nat /\ (at[b] > 1 => noutput[b] > 0)
    BY <1>1 DEF TypeOK, Sound, Asked
  <2>3. n \in Nat /\ n > 0 /\ n <= room /\ (at[b] > 1 => n <= noutput[b])
    BY <1>1, <2>1, <2>2 DEF AtMost
  <2>4. /\ noutput' = [noutput EXCEPT ![b] = n]
        /\ IF at[b] < Len(Outs[b]) THEN Goto(b, "output", at[b] + 1)
           ELSE Goto(b, "work", 1)
        /\ UNCHANGED <<why, seen, takes, backlog, buf_done, input_changed, output_changed,
                       d_done, made, interrupted>>
    BY <1>7 DEF SampleOutput, streams, flags
  <2> HIDE DEF n, room, buf
  <2>5. /\ pc' \in [Blocks -> Locations] /\ at' \in [Blocks -> Nat \ {0}]
        /\ \A c \in Blocks : c # b => pc'[c] = pc[c] /\ at'[c] = at[c]
        /\ IF at[b] < Len(Outs[b]) THEN pc'[b] = "output" /\ at'[b] = at[b] + 1
           ELSE pc'[b] = "work" /\ at'[b] = 1
    <3>1. {"output", "work"} \subseteq Locations /\ at[b] + 1 \in Nat \ {0} /\ 1 \in Nat \ {0}
      BY <1>1 DEF Locations
    <3>2. CASE at[b] < Len(Outs[b])
      BY <1>1, <2>4, <3>1, <3>2, GoesSomewhere
    <3>3. CASE ~(at[b] < Len(Outs[b]))
      BY <1>1, <2>4, <3>1, <3>3, GoesSomewhere
    <3> QED
      BY <3>2, <3>3
  <2>6. TypeOK'
    BY <1>1, <2>3, <2>4, <2>5 DEF TypeOK
  <2>7. noutput'[b] = n /\ seen'[b] = seen[b]
    BY <1>1, <2>4 DEF TypeOK
  <2>8. ASSUME NEW c \in Blocks, c # b PROVE Sound(c)'
    <3>1. Same(c)
      BY <1>1, <2>4, <2>5, <2>8 DEF Same, TypeOK
    <3> QED
      BY <1>1, <2>4, <2>6, <3>1, OthersSound, BacklogAsItWas DEF Flow
  <2>9. at[b] <= Len(Outs[b]) /\ Len(Outs[b]) \in Nat /\ DOMAIN Outs[b] = 1..Len(Outs[b])
    BY <1>1, EndsOfLoops
  <2>10. InRange(b)' /\ Covered(b)' /\ Asked(b)'
    BY <1>1, <2>3, <2>5, <2>7, <2>9 DEF InRange, Covered, Asked
  <2>11. Sampled(b)'
    BY <1>1, <2>4, <2>5, <2>7 DEF Sound, Sampled
  <2>12. Reserved(b)'
    <3> SUFFICES ASSUME NEW j \in Promised(b)', NEW port \in PortsOf(Outs[b][j])
                 PROVE  backlog[port] + n <= BufSize[Outs[b][j]] - 1
      BY <2>4, <2>7 DEF Reserved
    <3>1. j \in DOMAIN Outs[b] /\ (j = at[b] \/ j < at[b])
      BY <1>1, <2>5, <2>9 DEF Promised
    <3>2. port \in Ports /\ backlog[port] \in Nat /\ BufSize[Outs[b][j]] \in Nat
      BY <1>1, <3>1, OutputFacts, ReaderFacts DEF TypeOK
    <3>3. CASE j = at[b]
      <4>1. Outs[b][j] = buf
        BY <3>3 DEF buf
      <4> QED
        BY <1>2, <1>3, <1>4, <2>1, <2>3, <3>2, <4>1
    <3>4. CASE j < at[b]
      <4>1. j \in Promised(b) /\ at[b] > 1
        BY <1>1, <2>9, <3>1, <3>4 DEF Promised
      <4>2. backlog[port] + noutput[b] <= BufSize[Outs[b][j]] - 1
        BY <1>1, <4>1 DEF Sound, Reserved
      <4> QED
        BY <2>2, <2>3, <3>2, <4>1, <4>2
    <3> QED
      BY <3>1, <3>3, <3>4
  <2> QED
    BY <2>6, <2>8, <2>10, <2>11, <2>12 DEF Flow, Sound
<1> QED
  BY <1>5, <1>6, <1>7

(***************************************************************************)
(* The verdict: general_work is called for no more than the room that was  *)
(* sampled, and what it takes is within what was sampled of each input.    *)
(***************************************************************************)
LEMMA VerdictFacts ==
  ASSUME NEW b \in Blocks, Flow, pc[b] = "work"
  PROVE  LET v == Verdict(b)
         IN /\ v.result \in {"work", "done", "blkd_in", "blkd_out"} /\ v.n \in Nat
            /\ v.result = "blkd_out" => IsSource(b)
            /\ ~IsSink(b) => v.n <= noutput[b]
            /\ v.result = "work" /\ IsSource(b) => v.n > 0
            /\ v.result = "work" => \A k \in 0..v.n, i \in DOMAIN Ins[b] :
                                      ItemsFor(b, k) <= backlog[<<b, i>>]
<1> DEFINE p == Par[b]
           ins == seen[b]
           sizes == [i \in DOMAIN Ins[b] |-> BufSize[Ins[b][i]]]
           room == noutput[b]
           v == Verdict(b)
<1>1. /\ Steady(p) /\ p \in Descriptions /\ p.up = Rate[b].up /\ p.down = Rate[b].down
  BY ParFacts
<1>2. /\ TypeOK /\ Sound(b) /\ room \in Nat /\ (~IsSink(b) => room > 0)
  BY DEF Flow, TypeOK, Sound, Asked
<1>3. /\ Len(ins) = Len(Ins[b]) /\ DOMAIN ins = 1..Len(Ins[b]) /\ DOMAIN Ins[b] = 1..Len(Ins[b])
      /\ Len(Ins[b]) \in Nat
      /\ \A i \in 1..Len(Ins[b]) : ins[i].items \in Nat /\ ins[i].items <= backlog[<<b, i>>]
  BY <1>2, SeenFacts, EndsOfLoops DEF Sound, Sampled
<1>4. v = Decide(p, ins, sizes, room)
  BY DEF Verdict
<1>5. CASE IsSource(b)
  <2> DEFINE n == AtMost(room, MaxNoutputItems(p))
  <2>1. sizes = << >>
    BY <1>5 DEF IsSource
  <2>2. n \in Nat /\ n <= room
    <3>1. MaxNoutputItems(p) \in Nat
      BY <1>1, GuessIsNat
    <3> QED
      BY <1>2, <3>1 DEF AtMost
  <2> HIDE DEF n, sizes
  <2>3. v = [result |-> IF n = 0 THEN "blkd_out" ELSE "work", n |-> n]
    BY <1>4, <2>1 DEF Decide, n
  <2>4. DOMAIN Ins[b] = {}
    BY <1>5 DEF IsSource
  <2> HIDE DEF v, room, p, ins
  <2>5. /\ v.result \in {"work", "done", "blkd_in", "blkd_out"} /\ v.n = n
        /\ v.result = "work" => n > 0
    BY <2>2, <2>3
  <2> QED
    BY <1>5, <2>2, <2>4, <2>5 DEF v, room
<1>6. CASE ~IsSource(b)
  <2> DEFINE avail == MaxItemsAvail({ins[i] : i \in DOMAIN ins})
             guess == SinkNoutput(p, avail)
             start == IF room = 0 THEN guess ELSE room
             d == Decision(p, Untouched, ins, sizes, start)
  <2>1. Len(Ins[b]) > 0 /\ sizes # << >>
    <3>1. Len(Ins[b]) > 0 /\ 1 \in DOMAIN sizes
      BY <1>3, <1>6, EndsOfLoops
    <3>2. DOMAIN << >> = {}
      OBVIOUS
    <3> HIDE DEF sizes
    <3> QED
      BY <3>1, <3>2
  <2>2. start \in Nat
    <3>1. avail \in Nat
      <4> HIDE DEF ins
      <4> QED
        BY <1>3, <2>1, MaxItemsAvailIsNat
    <3>2. guess \in Nat
      <4> HIDE DEF avail
      <4> QED
        BY <1>1, <3>1, GuessIsNat
    <3> HIDE DEF guess
    <3> QED
      BY <1>2, <3>2
  <2>3. /\ v = [result |-> "blkd_in", n |-> 0] \/ v = d
    BY <1>4, <2>1 DEF Decide, NoAlignment, Untouched
  <2> HIDE DEF sizes, guess, avail, ins
  <2>4. ~IsSink(b) => start = room
    BY <1>2
  <2> HIDE DEF start, p
  <2>5. /\ d.n \in 0..start /\ d.result \in {"work", "done", "blkd_in"}
        /\ d.result = "work" => \A i \in 1..Len(Ins[b]) : Forecast(p, d.n) <= ins[i].items
    BY <1>1, <1>3, <2>1, <2>2, DecisionIsCovered
  <2> HIDE DEF v, d
  <2>6. CASE v = [result |-> "blkd_in", n |-> 0]
    <3>1. v.result = "blkd_in" /\ v.n = 0
      BY <2>6
    <3> QED
      BY <1>2, <1>6, <3>1 DEF v, room
  <2>7. CASE v = d
    <3>1. ASSUME v.result = "work", NEW k \in 0..v.n, NEW i \in DOMAIN Ins[b]
          PROVE  ItemsFor(b, k) <= backlog[<<b, i>>]
      <4>1. v.n \in Nat /\ k \in Nat
        BY <2>2, <2>5, <2>7, <3>1
      <4>2. ItemsFor(b, k) <= Forecast(p, v.n)
        BY <1>1, <4>1, LessTakesLess DEF ItemsFor
      <4>3. ItemsFor(b, k) \in Nat /\ Forecast(p, v.n) \in Int
        BY <1>1, <4>1, ForecastIsInt DEF ItemsFor
      <4>4. Forecast(p, v.n) <= ins[i].items /\ ins[i].items <= backlog[<<b, i>>]
        BY <1>3, <2>5, <2>7, <3>1
      <4>5. ins[i].items \in Nat /\ backlog[<<b, i>>] \in Nat
        BY <1>2, <1>3, InputFacts DEF TypeOK
      <4> QED
        BY <4>2, <4>3, <4>4, <4>5
    <3>2. v.n \in Nat /\ (~IsSink(b) => v.n <= room)
      BY <1>2, <2>2, <2>4, <2>5, <2>7
    <3> QED
      BY <1>6, <2>5, <2>7, <3>1, <3>2 DEF v, room
  <2> QED
    BY <2>3, <2>6, <2>7
<1> QED
  BY <1>5, <1>6

(* What work makes is no more than it was asked for and has left.          *)
LEMMA MakesFacts ==
  ASSUME NEW b \in Blocks, TypeOK, made[b] # Supply[b], NEW n \in Nat, NEW k \in MakesOf(b, n)
  PROVE  /\ k \in 0..n /\ k \in Nat
         /\ Supply[b] # Endless => made[b] + k <= Supply[b]
         /\ n > 0 => k > 0
<1> DEFINE left == IF Supply[b] = Endless THEN n ELSE AtMost(n, Supply[b] - made[b])
<1>1. made[b] \in Nat /\ (Supply[b] # Endless => Supply[b] \in Nat /\ made[b] < Supply[b])
  BY BlocksAssumption DEF TypeOK
<1>2. /\ left \in Nat /\ left <= n /\ (n > 0 => left > 0)
      /\ Supply[b] # Endless => made[b] + left <= Supply[b]
  BY <1>1 DEF AtMost
<1>3. MakesOf(b, n) = IF PartialWork THEN {m \in 1..left : m % Rate[b].up = 0} ELSE {left}
  BY DEF MakesOf
<1> HIDE DEF left
<1>4. k \in Nat /\ k <= left /\ (left > 0 => k > 0)
  BY <1>2, <1>3
<1> QED
  BY <1>1, <1>2, <1>4

LEMMA WorkFlow ==
  ASSUME NEW b \in Blocks, Flow, Work(b)
  PROVE  Flow'
<1> DEFINE v == Verdict(b)
<1>1. pc[b] = "work" /\ TypeOK /\ Sound(b)
  BY DEF Work, Flow
<1>2. /\ v.result \in {"work", "done", "blkd_in", "blkd_out"} /\ v.n \in Nat
      /\ v.result = "blkd_out" => IsSource(b)
      /\ ~IsSink(b) => v.n <= noutput[b]
      /\ v.result = "work" /\ IsSource(b) => v.n > 0
      /\ v.result = "work" => \A k \in 0..v.n, i \in DOMAIN Ins[b] :
                                ItemsFor(b, k) <= backlog[<<b, i>>]
  BY <1>1, VerdictFacts
<1> HIDE DEF v
<1>3. CASE v.result = "blkd_in"
  BY <1>1, <1>3, WaitFlow DEF Work, v
<1>4. CASE v.result = "blkd_out"
  <2>1. 1 \in DOMAIN Outs[b]
    BY <1>2, <1>4, EndsOfLoops
  <2>2. Goto(b, "wait_out", 1)
    BY <1>4 DEF Work, v
  <2> QED
    BY <1>1, <1>4, <2>1, <2>2, WaitFlow DEF Work, v
<1>5. CASE v.result = "done"
  BY <1>5, GiveUpFlow DEF Work, v
<1>6. CASE v.result = "work" /\ made[b] = Supply[b]
  BY <1>6, GiveUpFlow DEF Work, v
<1>7. CASE v.result = "work" /\ made[b] # Supply[b]
  <2> DEFINE where == IF IsSource(b) THEN "produce" ELSE "consume"
  <2>1. PICK k \in MakesOf(b, v.n) :
          /\ takes' = [takes EXCEPT ![b] = ItemsFor(b, k)]
          /\ \E kept \in (IF b \in Droppers THEN {0, k} ELSE {k}) :
               noutput' = [noutput EXCEPT ![b] = kept]
    BY <1>7 DEF Work, v
  <2>2. PICK kept \in (IF b \in Droppers THEN {0, k} ELSE {k}) :
          noutput' = [noutput EXCEPT ![b] = kept]
    BY <2>1
  <2>3. /\ Goto(b, where, 1) /\ seen' = [seen EXCEPT ![b] = << >>]
        /\ UNCHANGED <<backlog, buf_done, input_changed, output_changed, d_done, made,
                       interrupted, why>>
    BY <1>7 DEF Work, v, streams, flags
  <2>4. /\ k \in 0..v.n /\ k \in Nat /\ (Supply[b] # Endless => made[b] + k <= Supply[b])
        /\ v.n > 0 => k > 0
    BY <1>1, <1>2, <1>7, <2>1, MakesFacts
  <2>5. kept \in Nat /\ kept <= k /\ (IsSource(b) => kept = k)
    BY <2>2, <2>4, BlocksAssumption DEF IsSource
  <2>6. ItemsFor(b, k) \in Nat
    BY <2>4, ParFacts, ForecastIsInt DEF ItemsFor
  <2>7. /\ pc' \in [Blocks -> Locations] /\ at' \in [Blocks -> Nat \ {0}]
        /\ pc'[b] = where /\ at'[b] = 1
        /\ \A c \in Blocks : c # b => pc'[c] = pc[c] /\ at'[c] = at[c]
    <3>1. where \in Locations /\ 1 \in Nat \ {0}
      BY DEF Locations
    <3> HIDE DEF where
    <3> QED
      BY <1>1, <2>3, <3>1, GoesSomewhere
  <2>8. /\ noutput' \in [Blocks -> Nat] /\ takes' \in [Blocks -> Nat]
        /\ seen' \in [Blocks -> Seq([items : Nat, done : BOOLEAN])]
        /\ noutput'[b] = kept /\ takes'[b] = ItemsFor(b, k) /\ seen'[b] = << >>
        /\ \A c \in Blocks : c # b => /\ noutput'[c] = noutput[c] /\ takes'[c] = takes[c]
                                      /\ seen'[c] = seen[c]
    BY <1>1, <2>1, <2>2, <2>3, <2>5, <2>6 DEF TypeOK
  <2>9. TypeOK'
    BY <1>1, <2>3, <2>7, <2>8 DEF TypeOK
  <2>10. ASSUME NEW c \in Blocks, c # b PROVE Sound(c)'
    <3>1. Same(c)
      BY <2>3, <2>7, <2>8, <2>10 DEF Same
    <3> QED
      BY <1>1, <2>3, <2>9, <3>1, OthersSound, BacklogAsItWas DEF Flow
  <2>11. InRange(b)'
    BY <2>7, EndsOfLoops DEF InRange
  <2>12. Sampled(b)'
    BY <2>7, <2>8, EndsOfLoops DEF Sampled
  <2>13. Covered(b)'
    BY <1>2, <1>7, <2>3, <2>4, <2>8 DEF Covered
  <2>14. Asked(b)'
    <3>1. made[b] \in Nat /\ (Supply[b] # Endless => Supply[b] \in Nat)
      BY <1>1, BlocksAssumption DEF TypeOK
    <3>2. Supply[b] # Endless => made[b] + kept <= Supply[b]
      BY <2>4, <2>5, <3>1
    <3>3. IsSource(b) => kept > 0
      BY <1>2, <1>7, <2>4, <2>5
    <3> QED
      BY <2>3, <2>7, <2>8, <3>2, <3>3 DEF Asked
  <2>15. Reserved(b)'
    <3> SUFFICES ASSUME NEW j \in DOMAIN Outs[b], NEW port \in PortsOf(Outs[b][j])
                 PROVE  backlog[port] + kept <= BufSize[Outs[b][j]] - 1
      BY <2>3, <2>8 DEF Reserved, Promised
    <3>1. ~IsSink(b)
      BY DEF IsSink
    <3>2. j \in Promised(b)
      BY <1>1 DEF Promised
    <3>3. backlog[port] + noutput[b] <= BufSize[Outs[b][j]] - 1
      BY <1>1, <3>2 DEF Sound, Reserved
    <3>4. port \in Ports /\ backlog[port] \in Nat /\ BufSize[Outs[b][j]] \in Nat
          /\ noutput[b] \in Nat
      BY <1>1, OutputFacts, ReaderFacts DEF TypeOK
    <3> QED
      BY <1>2, <2>4, <2>5, <3>1, <3>3, <3>4
  <2> QED
    BY <2>9, <2>10, <2>11, <2>12, <2>13, <2>14, <2>15 DEF Flow, Sound
<1> QED
  BY <1>2, <1>3, <1>4, <1>5, <1>6, <1>7

(* A thread that has consumed and produced.                                *)
LEMMA NotifyFromFacts ==
  ASSUME NEW b \in Blocks, TypeOK, NEW n \in Nat, n > 0 \/ ~IsSource(b), NotifyFrom(b, n)
  PROVE  /\ pc' \in [Blocks -> Locations] /\ at' \in [Blocks -> Nat \ {0}]
         /\ noutput' \in [Blocks -> Nat] /\ takes' \in [Blocks -> Nat]
         /\ seen' \in [Blocks -> Seq([items : Nat, done : BOOLEAN])]
         /\ pc'[b] = "notify" /\ at'[b] = (IF n > 0 THEN 1 ELSE Len(Downstream[b]) + 1)
         /\ Sound(b)'
         /\ \A c \in Blocks : c # b =>
              /\ pc'[c] = pc[c] /\ at'[c] = at[c]
              /\ noutput'[c] = noutput[c] /\ takes'[c] = takes[c] /\ seen'[c] = seen[c]
<1> DEFINE index == IF n > 0 THEN 1 ELSE Len(Downstream[b]) + 1
<1>1. Goto(b, "notify", index) /\ Forget(b)
  BY DEF NotifyFrom
<1>2. /\ Len(Downstream[b]) \in Nat /\ DOMAIN Neighbours[b] = 1..Len(Neighbours[b])
      /\ Len(Neighbours[b]) = Len(Downstream[b]) + Len(Ins[b])
  BY NeighbourFacts
<1>3. index \in Nat \ {0} /\ "notify" \in Locations
  BY <1>2 DEF Locations
<1>4. index \in DOMAIN Neighbours[b]
  <2>1. CASE n > 0
    BY <2>1, SomebodyToTell
  <2>2. CASE ~(n > 0)
    <3>1. Len(Ins[b]) \in Nat /\ Len(Ins[b]) > 0
      BY <2>2, EndsOfLoops
    <3>2. Len(Downstream[b]) + 1 \in 1..(Len(Downstream[b]) + Len(Ins[b]))
      BY <1>2, <3>1, Positives
    <3> QED
      BY <1>2, <2>2, <3>2
  <2> QED
    BY <2>1, <2>2
<1> HIDE DEF index
<1>5. /\ pc' \in [Blocks -> Locations] /\ at' \in [Blocks -> Nat \ {0}]
      /\ pc'[b] = "notify" /\ at'[b] = index
      /\ \A c \in Blocks : c # b => pc'[c] = pc[c] /\ at'[c] = at[c]
  BY <1>1, <1>3, GoesSomewhere
<1>6. /\ noutput' \in [Blocks -> Nat] /\ takes' \in [Blocks -> Nat]
      /\ seen' \in [Blocks -> Seq([items : Nat, done : BOOLEAN])] /\ seen'[b] = << >>
      /\ \A c \in Blocks : c # b => /\ noutput'[c] = noutput[c] /\ takes'[c] = takes[c]
                                    /\ seen'[c] = seen[c]
  BY <1>1 DEF Forget, TypeOK
<1>7. InRange(b)'
  BY <1>4, <1>5 DEF InRange
<1>8. Sound(b)'
  BY <1>5, <1>6, <1>7, NothingLeft
<1> QED
  BY <1>5, <1>6, <1>8 DEF index

LEMMA ConsumeFlow ==
  ASSUME NEW b \in Blocks, Flow, Consume(b)
  PROVE  Flow'
<1> DEFINE port == <<b, at[b]>>
           last == at[b] = Len(Ins[b])
           next == last /\ ~IsSink(b) /\ noutput[b] > 0
           told == last /\ (IsSink(b) \/ noutput[b] = 0)
<1>1. /\ pc[b] = "consume" /\ TypeOK /\ Sound(b) /\ at[b] \in DOMAIN Ins[b]
      /\ backlog' = [backlog EXCEPT ![port] = @ - takes[b]]
      /\ UNCHANGED <<buf_done, input_changed, output_changed, d_done, why, made, interrupted>>
  BY DEF Consume, Flow, Sound, InRange, flags, ends
<1>2. /\ at[b] \in Nat \ {0} /\ at[b] <= Len(Ins[b]) /\ Len(Ins[b]) \in Nat
      /\ DOMAIN Ins[b] = 1..Len(Ins[b]) /\ noutput[b] \in Nat /\ takes[b] \in Nat
  BY <1>1, EndsOfLoops DEF TypeOK
<1>3. port \in Ports /\ takes[b] <= backlog[port] /\ backlog[port] \in Nat
  BY <1>1, <1>2, InputFacts DEF TypeOK, Sound, Covered
<1>4. /\ backlog' \in [Ports -> Nat]
      /\ \A q \in Ports : backlog'[q] <= backlog[q] /\ (q # port => backlog'[q] = backlog[q])
  <2>1. backlog \in [Ports -> Nat] /\ backlog' = [backlog EXCEPT ![port] = backlog[port] - takes[b]]
    BY <1>1 DEF TypeOK
  <2>2. backlog[port] - takes[b] \in Nat /\ backlog[port] - takes[b] <= backlog[port]
    BY <1>2, <1>3
  <2> HIDE DEF port
  <2> QED
    BY <1>3, <2>1, <2>2
<1>5. ASSUME NEW c \in Blocks, c # b PROVE Harmless(c)
  <2>1. \A i \in DOMAIN Ins[c] : <<c, i>> \in Ports /\ <<c, i>> # port
    BY <1>5, InputFacts
  <2>2. \A j \in DOMAIN Outs[c] : \A q \in PortsOf(Outs[c][j]) : q \in Ports
    BY OutputFacts, ReaderFacts
  <2> QED
    BY <1>1, <1>4, <2>1, <2>2 DEF Harmless, TypeOK
<1>6. ASSUME NEW j \in DOMAIN Outs[b], NEW q \in PortsOf(Outs[b][j]),
             backlog[q] + noutput[b] <= BufSize[Outs[b][j]] - 1
      PROVE  backlog'[q] + noutput[b] <= BufSize[Outs[b][j]] - 1
  <2>1. q \in Ports /\ backlog[q] \in Nat /\ backlog'[q] \in Nat /\ BufSize[Outs[b][j]] \in Nat
        /\ backlog'[q] <= backlog[q]
    BY <1>1, <1>4, OutputFacts, ReaderFacts DEF TypeOK
  <2> QED
    BY <1>2, <1>6, <2>1
<1>7. CASE at[b] < Len(Ins[b]) \/ next
  <2> DEFINE where == IF next THEN "produce" ELSE "consume"
             index == IF next THEN 1 ELSE at[b] + 1
  <2>1. Goto(b, where, index) /\ UNCHANGED locals
    BY <1>1, <1>2, <1>7 DEF Consume
  <2>2. where \in Locations /\ index \in Nat \ {0}
    BY <1>2 DEF Locations
  <2>3. /\ pc' \in [Blocks -> Locations] /\ at' \in [Blocks -> Nat \ {0}]
        /\ pc'[b] = where /\ at'[b] = index
        /\ \A c \in Blocks : c # b => pc'[c] = pc[c] /\ at'[c] = at[c]
    <3> HIDE DEF where, index
    <3> QED
      BY <1>1, <2>1, <2>2, GoesSomewhere
  <2>4. TypeOK'
    BY <1>1, <1>4, <2>1, <2>3 DEF TypeOK, locals
  <2>5. ASSUME NEW c \in Blocks, c # b PROVE Sound(c)'
    <3>1. Same(c)
      BY <1>1, <2>1, <2>3, <2>5 DEF Same, locals
    <3> QED
      BY <1>1, <1>5, <2>4, <2>5, <3>1, OthersSound DEF Flow
  <2>6. InRange(b)'
    BY <1>2, <1>7, <2>3, EndsOfLoops DEF InRange
  <2>7. Sampled(b)'
    <3>1. seen'[b] = << >>
      BY <1>1, <2>1 DEF locals, Sound, Sampled
    <3> QED
      BY <2>3, <3>1, EndsOfLoops DEF Sampled
  <2>8. Covered(b)'
    <3> SUFFICES ASSUME NEW i \in DOMAIN Ins[b], at[b] + 1 <= i, ~next
                 PROVE  takes[b] <= backlog'[<<b, i>>]
      BY <1>2, <2>1, <2>3 DEF Covered, locals
    <3>1. at[b] <= i /\ i # at[b]
      BY <1>2
    <3>2. <<b, i>> \in Ports /\ <<b, i>> # port
      BY <3>1, InputFacts
    <3>3. takes[b] <= backlog[<<b, i>>]
      BY <1>1, <3>1 DEF Sound, Covered
    <3> QED
      BY <1>4, <3>2, <3>3
  <2>9. Asked(b)'
    <3>1. Supply[b] # Endless => made[b] + noutput[b] <= Supply[b]
      BY <1>1 DEF Sound, Asked
    <3> QED
      BY <1>1, <1>7, <2>1, <2>3, <3>1 DEF Asked, locals
  <2>10. Reserved(b)'
    <3> SUFFICES ASSUME NEW j \in DOMAIN Outs[b], NEW q \in PortsOf(Outs[b][j])
                 PROVE  backlog'[q] + noutput[b] <= BufSize[Outs[b][j]] - 1
      BY <2>1 DEF Reserved, Promised, locals
    <3>1. j \in Promised(b)
      BY <1>1 DEF Promised
    <3> QED
      BY <1>1, <1>6, <3>1 DEF Sound, Reserved
  <2> QED
    BY <2>4, <2>5, <2>6, <2>7, <2>8, <2>9, <2>10 DEF Flow, Sound
<1>8. CASE told
  <2>1. NotifyFrom(b, noutput[b])
    BY <1>1, <1>2, <1>8 DEF Consume
  <2>2. noutput[b] > 0 \/ ~IsSource(b)
    BY <1>1, EndsOfLoops DEF IsSource
  <2>3. /\ pc' \in [Blocks -> Locations] /\ at' \in [Blocks -> Nat \ {0}]
        /\ noutput' \in [Blocks -> Nat] /\ takes' \in [Blocks -> Nat]
        /\ seen' \in [Blocks -> Seq([items : Nat, done : BOOLEAN])]
        /\ Sound(b)'
        /\ \A c \in Blocks : c # b =>
             /\ pc'[c] = pc[c] /\ at'[c] = at[c]
             /\ noutput'[c] = noutput[c] /\ takes'[c] = takes[c] /\ seen'[c] = seen[c]
    BY <1>1, <1>2, <2>1, <2>2, NotifyFromFacts
  <2>4. TypeOK'
    BY <1>1, <1>4, <2>3 DEF TypeOK
  <2>5. ASSUME NEW c \in Blocks, c # b PROVE Sound(c)'
    <3>1. Same(c)
      BY <1>1, <2>3, <2>5 DEF Same
    <3> QED
      BY <1>1, <1>5, <2>4, <2>5, <3>1, OthersSound DEF Flow
  <2> QED
    BY <2>3, <2>4, <2>5 DEF Flow
<1> QED
  BY <1>1, <1>2, <1>7, <1>8 DEF Consume

(* Nobody else writes what a block writes.                                 *)
LEMMA OwnOutputs ==
  ASSUME NEW b \in Blocks, NEW j \in DOMAIN Outs[b],
         NEW c \in Blocks, NEW k \in DOMAIN Outs[c],
         NEW port \in PortsOf(Outs[b][j]), port \in PortsOf(Outs[c][k])
  PROVE  b = c /\ j = k
<1>1. Source(port) = Outs[b][j] /\ Source(port) = Outs[c][k]
  BY OutputFacts, ReaderFacts
<1> QED
  BY <1>1, GraphAssumption, ZenonT(60)

LEMMA ProduceFlow ==
  ASSUME NEW b \in Blocks, Flow, Produce(b)
  PROVE  Flow'
<1> DEFINE buf == Outs[b][at[b]]
           last == at[b] = Len(Outs[b])
<1>1. /\ pc[b] = "produce" /\ TypeOK /\ Sound(b) /\ at[b] \in DOMAIN Outs[b]
      /\ noutput[b] > 0 /\ noutput[b] \in Nat
      /\ backlog' = [port \in Ports |-> IF port \in PortsOf(buf)
                                        THEN backlog[port] + noutput[b] ELSE backlog[port]]
      /\ made' = [made EXCEPT ![b] = IF last /\ Supply[b] # Endless
                                     THEN @ + noutput[b] ELSE @]
      /\ IF last THEN NotifyFrom(b, noutput[b])
         ELSE Goto(b, "produce", at[b] + 1) /\ UNCHANGED locals
      /\ UNCHANGED <<buf_done, input_changed, output_changed, d_done, why, interrupted>>
  BY DEF Produce, Flow, TypeOK, Sound, InRange, Asked, flags, ends
<1>2. /\ at[b] \in Nat \ {0} /\ at[b] <= Len(Outs[b]) /\ Len(Outs[b]) \in Nat
      /\ DOMAIN Outs[b] = 1..Len(Outs[b])
  BY <1>1, EndsOfLoops DEF TypeOK
<1>3. /\ backlog' \in [Ports -> Nat]
      /\ \A port \in Ports : /\ backlog[port] <= backlog'[port]
                             /\ port \notin PortsOf(buf) => backlog'[port] = backlog[port]
  BY <1>1 DEF TypeOK
<1>4. /\ made' \in [Blocks -> Nat] /\ \A c \in Blocks : c # b => made'[c] = made[c]
      /\ \A c \in Blocks : Supply[c] # Endless => made'[c] <= Supply[c]
      /\ ~last => made'[b] = made[b]
  <2>1. made \in [Blocks -> Nat] /\ \A c \in Blocks : Supply[c] # Endless => made[c] <= Supply[c]
    BY <1>1 DEF TypeOK
  <2>2. Supply[b] # Endless => made[b] + noutput[b] <= Supply[b]
    BY <1>1 DEF Sound, Asked
  <2> HIDE DEF last
  <2> QED
    BY <1>1, <2>1, <2>2
<1>5. ASSUME NEW c \in Blocks, c # b PROVE Harmless(c)
  <2>1. \A i \in DOMAIN Ins[c] : <<c, i>> \in Ports
    BY InputFacts
  <2>2. ASSUME NEW j \in DOMAIN Outs[c], NEW q \in PortsOf(Outs[c][j])
        PROVE  backlog'[q] <= backlog[q]
    <3>1. q \in Ports /\ q \notin PortsOf(buf)
      BY <1>1, <1>5, OutputFacts, ReaderFacts, OwnOutputs
    <3>2. backlog'[q] = backlog[q] /\ backlog[q] \in Nat
      BY <1>1, <1>3, <3>1 DEF TypeOK
    <3> QED
      BY <3>2
  <2> QED
    BY <1>3, <2>1, <2>2 DEF Harmless
<1>6. CASE ~last
  <2>1. Goto(b, "produce", at[b] + 1) /\ UNCHANGED locals
    BY <1>1, <1>6
  <2>2. /\ pc' \in [Blocks -> Locations] /\ at' \in [Blocks -> Nat \ {0}]
        /\ pc'[b] = "produce" /\ at'[b] = at[b] + 1
        /\ \A c \in Blocks : c # b => pc'[c] = pc[c] /\ at'[c] = at[c]
    <3>1. "produce" \in Locations /\ at[b] + 1 \in Nat \ {0}
      BY <1>2 DEF Locations
    <3> QED
      BY <1>1, <2>1, <3>1, GoesSomewhere
  <2>3. TypeOK'
    BY <1>1, <1>3, <1>4, <2>1, <2>2 DEF TypeOK, locals
  <2>4. ASSUME NEW c \in Blocks, c # b PROVE Sound(c)'
    <3>1. Same(c)
      BY <1>4, <2>1, <2>2, <2>4 DEF Same, locals
    <3> QED
      BY <1>1, <1>5, <2>3, <2>4, <3>1, OthersSound DEF Flow
  <2>5. InRange(b)' /\ Covered(b)'
    BY <1>2, <1>6, <2>2 DEF InRange, Covered
  <2>6. Sampled(b)'
    <3>1. seen'[b] = << >>
      BY <1>1, <2>1 DEF locals, Sound, Sampled
    <3> QED
      BY <2>2, <3>1, EndsOfLoops DEF Sampled
  <2>7. Asked(b)'
    <3>1. Supply[b] # Endless => made[b] + noutput[b] <= Supply[b]
      BY <1>1 DEF Sound, Asked
    <3> QED
      BY <1>1, <1>4, <1>6, <2>1, <2>2, <3>1 DEF Asked, locals
  <2>8. Reserved(b)'
    <3> SUFFICES ASSUME NEW j \in DOMAIN Outs[b], at[b] + 1 <= j, NEW q \in PortsOf(Outs[b][j])
                 PROVE  backlog'[q] + noutput[b] <= BufSize[Outs[b][j]] - 1
      BY <2>1, <2>2 DEF Reserved, Promised, locals
    <3>1. j \in Promised(b) /\ j # at[b]
      BY <1>1, <1>2 DEF Promised
    <3>2. q \in Ports /\ q \notin PortsOf(buf)
      BY <1>1, <3>1, OutputFacts, ReaderFacts, OwnOutputs, ZenonT(60)
    <3> QED
      BY <1>1, <1>3, <3>1, <3>2 DEF Sound, Reserved
  <2> QED
    BY <2>3, <2>4, <2>5, <2>6, <2>7, <2>8 DEF Flow, Sound
<1>7. CASE last
  <2>1. /\ pc' \in [Blocks -> Locations] /\ at' \in [Blocks -> Nat \ {0}]
        /\ noutput' \in [Blocks -> Nat] /\ takes' \in [Blocks -> Nat]
        /\ seen' \in [Blocks -> Seq([items : Nat, done : BOOLEAN])]
        /\ Sound(b)'
        /\ \A c \in Blocks : c # b =>
             /\ pc'[c] = pc[c] /\ at'[c] = at[c]
             /\ noutput'[c] = noutput[c] /\ takes'[c] = takes[c] /\ seen'[c] = seen[c]
    BY <1>1, <1>7, NotifyFromFacts
  <2>2. TypeOK'
    BY <1>1, <1>3, <1>4, <2>1 DEF TypeOK
  <2>3. ASSUME NEW c \in Blocks, c # b PROVE Sound(c)'
    <3>1. Same(c)
      BY <1>4, <2>1, <2>3 DEF Same
    <3> QED
      BY <1>1, <1>5, <2>2, <2>3, <3>1, OthersSound DEF Flow
  <2> QED
    BY <2>1, <2>2, <2>3 DEF Flow
<1> QED
  BY <1>6, <1>7

(* Steps that take a thread to a place where it relies on nothing.         *)
LEMMA RestFlow ==
  ASSUME NEW b \in Blocks, Flow, NEW where \in {"top", "set_done", "notify", "exited"},
         NEW index \in Nat \ {0}, Goto(b, where, index), UNCHANGED <<backlog, made>>,
         Forget(b) \/ (seen[b] = << >> /\ UNCHANGED locals),
         where = "set_done" => index \in DOMAIN Marks(b),
         where = "notify" => index \in DOMAIN Neighbours[b],
         buf_done' \in [Buffers -> BOOLEAN], d_done' \in [Blocks -> BOOLEAN],
         input_changed' \in [Blocks -> BOOLEAN], output_changed' \in [Blocks -> BOOLEAN],
         UNCHANGED <<why, interrupted>>
  PROVE  Flow'
<1>1. TypeOK /\ where \in Locations
  BY DEF Flow, Locations
<1>2. /\ pc' \in [Blocks -> Locations] /\ at' \in [Blocks -> Nat \ {0}]
      /\ pc'[b] = where /\ at'[b] = index
      /\ \A c \in Blocks : c # b => pc'[c] = pc[c] /\ at'[c] = at[c]
  BY <1>1, GoesSomewhere
<1>3. /\ noutput' \in [Blocks -> Nat] /\ takes' \in [Blocks -> Nat]
      /\ seen' \in [Blocks -> Seq([items : Nat, done : BOOLEAN])] /\ seen'[b] = << >>
      /\ \A c \in Blocks : c # b => /\ noutput'[c] = noutput[c] /\ takes'[c] = takes[c]
                                    /\ seen'[c] = seen[c]
  <2>1. /\ noutput \in [Blocks -> Nat] /\ takes \in [Blocks -> Nat] /\ 0 \in Nat
        /\ seen \in [Blocks -> Seq([items : Nat, done : BOOLEAN])]
        /\ << >> \in Seq([items : Nat, done : BOOLEAN])
    BY <1>1 DEF TypeOK
  <2>2. CASE Forget(b)
    BY <2>1, <2>2 DEF Forget
  <2>3. CASE seen[b] = << >> /\ UNCHANGED locals
    BY <2>1, <2>3 DEF locals
  <2> QED
    BY <2>2, <2>3
<1>4. TypeOK'
  BY <1>1, <1>2, <1>3 DEF TypeOK
<1>5. ASSUME NEW c \in Blocks, c # b PROVE Sound(c)'
  <2>1. Same(c)
    BY <1>2, <1>3, <1>5 DEF Same
  <2> QED
    BY <1>1, <1>4, <2>1, OthersSound, BacklogAsItWas DEF Flow
<1>6. InRange(b)'
  BY <1>2 DEF InRange
<1> QED
  BY <1>2, <1>3, <1>4, <1>5, <1>6, NothingLeft DEF Flow

LEMMA SetDoneFlow ==
  ASSUME NEW b \in Blocks, Flow, SetDone(b)
  PROVE  Flow'
<1>1. /\ pc[b] = "set_done" /\ TypeOK /\ at[b] \in 1..Len(Marks(b)) /\ seen[b] = << >>
  BY SomebodyToTell DEF SetDone, Flow, Sound, InRange, Sampled
<1>2. /\ buf_done' \in [Buffers -> BOOLEAN] /\ d_done' \in [Blocks -> BOOLEAN]
      /\ input_changed' \in [Blocks -> BOOLEAN] /\ output_changed' \in [Blocks -> BOOLEAN]
      /\ UNCHANGED <<backlog, made, locals, why, interrupted>>
  BY <1>1 DEF SetDone, TypeOK, flags
<1>3. CASE at[b] < Len(Marks(b))
  <2>1. Goto(b, "set_done", at[b] + 1) /\ at[b] + 1 \in Nat \ {0}
        /\ at[b] + 1 \in DOMAIN Marks(b)
    BY <1>1, <1>3, SomebodyToTell DEF SetDone
  <2> QED
    BY <1>1, <1>2, <2>1, RestFlow
<1>4. CASE ~(at[b] < Len(Marks(b)))
  <2>1. Goto(b, "notify", 1) /\ 1 \in Nat \ {0} /\ 1 \in DOMAIN Neighbours[b]
    BY <1>4, SomebodyToTell DEF SetDone
  <2> QED
    BY <1>1, <1>2, <2>1, RestFlow
<1> QED
  BY <1>3, <1>4

LEMMA NotifyFlow ==
  ASSUME NEW b \in Blocks, Flow, Notify(b)
  PROVE  Flow'
<1>1. /\ pc[b] = "notify" /\ TypeOK /\ at[b] \in DOMAIN Neighbours[b] /\ at[b] \in Nat
      /\ seen[b] = << >> /\ DOMAIN Neighbours[b] = 1..Len(Neighbours[b])
      /\ Len(Neighbours[b]) \in Nat
  <2>1. at[b] \in DOMAIN Neighbours[b] /\ seen[b] = << >> /\ pc[b] = "notify" /\ TypeOK
    BY DEF Notify, Flow, Sound, InRange, Sampled
  <2>2. Len(Neighbours[b]) \in Nat
    BY NeighbourFacts, EndsOfLoops
  <2> QED
    BY <2>1, <2>2, NeighbourFacts DEF TypeOK
<1>2. /\ buf_done' \in [Buffers -> BOOLEAN] /\ d_done' \in [Blocks -> BOOLEAN]
      /\ input_changed' \in [Blocks -> BOOLEAN] /\ output_changed' \in [Blocks -> BOOLEAN]
      /\ UNCHANGED <<backlog, made, locals, why, interrupted>>
  BY <1>1 DEF Notify, TypeOK, streams, ends, Raised
<1>3. CASE at[b] < Len(Neighbours[b])
  <2>1. Goto(b, "notify", at[b] + 1) /\ at[b] + 1 \in Nat \ {0}
        /\ at[b] + 1 \in DOMAIN Neighbours[b]
    BY <1>1, <1>3 DEF Notify
  <2> QED
    BY <1>1, <1>2, <2>1, RestFlow
<1>4. CASE ~(at[b] < Len(Neighbours[b]))
  <2> DEFINE where == IF d_done[b] THEN "exited" ELSE "top"
  <2>1. Goto(b, where, 1) /\ 1 \in Nat \ {0} /\ where \in {"top", "exited"}
    BY <1>4 DEF Notify
  <2> HIDE DEF where
  <2> QED
    BY <1>1, <1>2, <2>1, RestFlow
<1> QED
  BY <1>3, <1>4

LEMMA WakeFlow ==
  ASSUME NEW b \in Blocks, Flow, Wake(b)
  PROVE  Flow'
<1>1. /\ Goto(b, "top", 1) /\ Forget(b)
      /\ UNCHANGED <<backlog, buf_done, input_changed, output_changed, d_done, why, made,
                     interrupted>>
  BY DEF Wake, streams, flags, ends
<1>2. /\ buf_done' \in [Buffers -> BOOLEAN] /\ d_done' \in [Blocks -> BOOLEAN]
      /\ input_changed' \in [Blocks -> BOOLEAN] /\ output_changed' \in [Blocks -> BOOLEAN]
      /\ 1 \in Nat \ {0}
  BY <1>1 DEF Flow, TypeOK
<1> QED
  BY <1>1, <1>2, RestFlow

LEMMA InterruptedFlow ==
  ASSUME NEW b \in Blocks, Flow, Interrupted(b)
  PROVE  Flow'
<1>1. /\ Goto(b, "exited", 1) /\ Forget(b)
      /\ UNCHANGED <<backlog, buf_done, input_changed, output_changed, d_done, why, made,
                     interrupted>>
  BY DEF Interrupted, streams, flags, ends
<1>2. /\ buf_done' \in [Buffers -> BOOLEAN] /\ d_done' \in [Blocks -> BOOLEAN]
      /\ input_changed' \in [Blocks -> BOOLEAN] /\ output_changed' \in [Blocks -> BOOLEAN]
      /\ 1 \in Nat \ {0}
  BY <1>1 DEF Flow, TypeOK
<1> QED
  BY <1>1, <1>2, RestFlow

LEMMA FlowKept ==
  ASSUME Flow, [Next]_vars
  PROVE  Flow'
<1>1. ASSUME NEW b \in Blocks, Thread(b) PROVE Flow'
  BY <1>1, ClearChangedFlow, SampleInputFlow, SampleOutputFlow, WorkFlow, ConsumeFlow,
     ProduceFlow, SetDoneFlow, NotifyFlow, WakeFlow, InterruptedFlow DEF Thread
<1>2. ASSUME UNCHANGED <<streams, flags, ends, made, pc, at, locals>>, interrupted' \subseteq Blocks
      PROVE  Flow'
  <2>1. TypeOK /\ TypeOK'
    BY <1>2 DEF Flow, TypeOK, streams, flags, ends, locals
  <2>2. ASSUME NEW c \in Blocks PROVE Sound(c)'
    <3>1. Same(c)
      BY <1>2 DEF Same, locals
    <3> QED
      BY <1>2, <2>1, <3>1, OthersSound, BacklogAsItWas DEF Flow, streams
  <2> QED
    BY <2>1, <2>2 DEF Flow
<1>3. CASE Stop
  BY <1>2, <1>3 DEF Stop
<1>4. CASE UNCHANGED vars
  BY <1>2, <1>4 DEF vars, Flow, TypeOK
<1> QED
  BY <1>1, <1>3, <1>4 DEF Next, Joined

LEMMA FlowAtInit ==
  ASSUME Init
  PROVE  Flow
<1>1. \A port \in Ports : Rate[port[1]].history - 1 \in Nat
  BY PortFacts, ParFacts DEF Descriptions, Positive
<1>2. \A b \in Blocks : 0 \in Nat /\ (Supply[b] # Endless => 0 <= Supply[b])
  BY BlocksAssumption
<1>3. << >> \in Seq([items : Nat, done : BOOLEAN])
  OBVIOUS
<1>4. TypeOK
  <2>1. backlog \in [Ports -> Nat]
    BY <1>1 DEF Init
  <2> QED
    BY <1>2, <1>3, <2>1 DEF Init, TypeOK, Locations
<1>5. ASSUME NEW b \in Blocks PROVE Sound(b)
  <2>1. pc[b] = "top" /\ seen[b] = << >>
    BY DEF Init
  <2>2. Promised(b) = {}
    BY <2>1 DEF Promised
  <2>3. Sampled(b)
    BY <2>1, EndsOfLoops DEF Sampled
  <2> QED
    BY <2>1, <2>2, <2>3 DEF Sound, InRange, Covered, Reserved, Asked
<1> QED
  BY <1>4, <1>5 DEF Flow

(***************************************************************************)
(* The types of the state.                                                 *)
(***************************************************************************)
THEOREM StreamsTyping == Spec => []TypeOK
<1>1. Init => Flow
  BY FlowAtInit
<1>2. Flow /\ [Next]_vars => Flow'
  BY FlowKept
<1>3. Flow => TypeOK
  BY DEF Flow
<1> QED
  BY <1>1, <1>2, <1>3, PTL DEF Spec

LEMMA NoOverrunKept ==
  ASSUME Flow, NoOverrun, [Next]_vars
  PROVE  NoOverrun'
<1> SUFFICES ASSUME NEW port \in Ports
             PROVE  backlog'[port] \in 0..BufSize[Source(port)] - 1
  BY DEF NoOverrun
<1>1. backlog'[port] \in Nat /\ backlog[port] \in Nat
  BY FlowKept DEF Flow, TypeOK
<1>2. backlog[port] <= BufSize[Source(port)] - 1 /\ BufSize[Source(port)] \in Nat
  BY PortFacts, ReaderFacts DEF NoOverrun
<1>3. CASE backlog'[port] <= backlog[port]
  BY <1>1, <1>2, <1>3
<1>4. ASSUME NEW b \in Blocks, Produce(b)
      PROVE  backlog'[port] <= BufSize[Source(port)] - 1
  <2> DEFINE buf == Outs[b][at[b]]
  <2>1. /\ pc[b] = "produce" /\ at[b] \in DOMAIN Outs[b] /\ at[b] \in Nat /\ Sound(b)
        /\ backlog' = [q \in Ports |-> IF q \in PortsOf(buf)
                                       THEN backlog[q] + noutput[b] ELSE backlog[q]]
    BY <1>4 DEF Produce, Flow, TypeOK, Sound, InRange
  <2>2. CASE port \in PortsOf(buf)
    <3>1. at[b] \in Promised(b) /\ Source(port) = buf
      BY <2>1, <2>2, OutputFacts, ReaderFacts DEF Promised
    <3>2. backlog[port] + noutput[b] <= BufSize[buf] - 1
      BY <2>1, <2>2, <3>1 DEF Sound, Reserved
    <3> QED
      BY <2>1, <2>2, <3>1, <3>2
  <2>3. CASE port \notin PortsOf(buf)
    BY <1>2, <2>1, <2>3
  <2> QED
    BY <2>2, <2>3
<1>5. ASSUME NEW b \in Blocks, Consume(b)
      PROVE  backlog'[port] <= backlog[port]
  <2>1. backlog' = [backlog EXCEPT ![<<b, at[b]>>] = @ - takes[b]] /\ takes[b] \in Nat
        /\ backlog \in [Ports -> Nat]
    BY <1>5 DEF Consume, Flow, TypeOK
  <2> QED
    BY <1>1, <2>1
<1>6. UNCHANGED backlog \/ \E b \in Blocks : Produce(b) \/ Consume(b)
  BY DEF Next, Thread, ClearChanged, SampleInput, SampleOutput, Work, SetDone, Notify, Wake,
         Interrupted, Stop, Joined, vars, streams
<1> QED
  BY <1>1, <1>2, <1>3, <1>4, <1>5, <1>6

(***************************************************************************)
(* No buffer is overrun and no item is taken that is not there: between    *)
(* the moment a thread samples a port and the moment it advances the       *)
(* pointer nobody else takes what it saw or fills the room it counted.     *)
(***************************************************************************)
THEOREM NothingOverruns == Spec => []NoOverrun
<1>1. Init => Flow /\ NoOverrun
  <2> SUFFICES ASSUME Init PROVE NoOverrun
    BY FlowAtInit
  <2>1. ASSUME NEW port \in Ports PROVE backlog[port] \in 0..BufSize[Source(port)] - 1
    <3>1. /\ port[1] \in Blocks /\ Source(port) \in Buffers
          /\ backlog[port] = Rate[port[1]].history - 1
          /\ Rate[port[1]].history <= BufSize[Source(port)]
      BY PortFacts, GraphAssumption DEF Init
    <3>2. Rate[port[1]].history \in Nat /\ Rate[port[1]].history > 0
          /\ BufSize[Source(port)] \in Nat
      BY <3>1, ParFacts, ReaderFacts DEF Descriptions, Positive
    <3> QED
      BY <3>1, <3>2
  <2> QED
    BY <2>1 DEF NoOverrun
<1>2. Flow /\ NoOverrun /\ [Next]_vars => Flow' /\ NoOverrun'
  BY FlowKept, NoOverrunKept
<1> QED
  BY <1>1, <1>2, PTL DEF Spec

-----------------------------------------------------------------------------
(***************************************************************************)
(* What a step leaves of a thread that does not take it.                   *)
(***************************************************************************)
Still(b) == /\ pc'[b] = pc[b] /\ at'[b] = at[b] /\ seen'[b] = seen[b] /\ d_done'[b] = d_done[b]
            /\ input_changed[b] => input_changed'[b]
            /\ output_changed[b] => output_changed'[b]

LEMMA OthersStill ==
  ASSUME TypeOK, NEW c \in Blocks, Thread(c), NEW b \in Blocks, b # c
  PROVE  Still(b)
<1> USE DEF TypeOK, Still, Goto, Forget, GiveUp, streams, flags, ends, locals
<1>1. CASE ClearChanged(c)
  BY <1>1 DEF ClearChanged
<1>2. CASE SampleInput(c)
  BY <1>2 DEF SampleInput
<1>3. CASE SampleOutput(c)
  BY <1>3 DEF SampleOutput
<1>4. CASE Work(c)
  BY <1>4 DEF Work
<1>5. CASE Consume(c)
  BY <1>5 DEF Consume, NotifyFrom
<1>6. CASE Produce(c)
  BY <1>6 DEF Produce, NotifyFrom
<1>7. CASE SetDone(c)
  BY <1>7 DEF SetDone
<1>8. CASE Notify(c)
  <2>1. /\ pc'[b] = pc[b] /\ at'[b] = at[b]
        /\ seen'[b] = seen[b] /\ d_done'[b] = d_done[b]
    BY <1>8 DEF Notify
  <2>2. \A flag, to : flag \in [Blocks -> BOOLEAN] /\ flag[b] => Raised(flag, to)[b]
    BY Zenon DEF Raised
  <2>3. /\ input_changed' = input_changed \/ \E to : input_changed' = Raised(input_changed, to)
        /\ output_changed' = output_changed \/ \E to : output_changed' = Raised(output_changed, to)
    BY <1>8 DEF Notify
  <2>4. input_changed \in [Blocks -> BOOLEAN] /\ output_changed \in [Blocks -> BOOLEAN]
    OBVIOUS
  <2>5. (input_changed[b] => input_changed'[b]) /\ (output_changed[b] => output_changed'[b])
    BY <2>2, <2>3, <2>4
  <2> QED
    BY <2>1, <2>5
<1>9. CASE Wake(c)
  BY <1>9 DEF Wake
<1>10. CASE Interrupted(c)
  BY <1>10 DEF Interrupted
<1> QED
  BY <1>1, <1>2, <1>3, <1>4, <1>5, <1>6, <1>7, <1>8, <1>9, <1>10 DEF Thread

LEMMA DoneStays ==
  ASSUME TypeOK, NEW c \in Blocks, Thread(c), NEW buf \in Buffers, buf_done[buf]
  PROVE  buf_done'[buf]
BY DEF Thread, TypeOK, ClearChanged, SampleInput, SampleOutput, Work, Consume, Produce, SetDone,
       Notify, Wake, Interrupted, streams

LEMMA MarkedKept ==
  ASSUME Flow, NEW c \in Blocks, Thread(c), NEW b \in Blocks, Marked(b)
  PROVE  Marked(b)'
<1>1. TypeOK
  BY DEF Flow
<1>2. \A j \in DOMAIN Marks(b) : Marks(b)[j] \in Buffers /\ j \in Nat /\ j > 0
  BY SomebodyToTell
<1>3. \A j \in DOMAIN Marks(b) : buf_done[Marks(b)[j]] => buf_done'[Marks(b)[j]]
  BY <1>1, <1>2, DoneStays
<1>4. CASE b # c
  <2>1. Still(b)
    BY <1>1, <1>4, OthersStill
  <2> QED
    BY <1>3, <2>1 DEF Marked, Still
<1>5. CASE b = c /\ SetDone(b)
  <2>1. /\ pc[b] = "set_done" /\ at[b] \in Nat
        /\ buf_done'[Marks(b)[at[b]]]
        /\ IF at[b] < Len(Marks(b)) THEN pc'[b] = "set_done" /\ at'[b] = at[b] + 1
           ELSE pc'[b] = "notify"
    <3>1. at[b] \in DOMAIN Marks(b)
      BY <1>5 DEF Flow, Sound, InRange, SetDone
    <3>2. Marks(b)[at[b]] \in Buffers
      BY <1>2, <3>1
    <3> QED
      BY <1>1, <1>5, <3>2 DEF SetDone, Goto, TypeOK
  <2>2. ASSUME NEW j \in DOMAIN Marks(b)
        PROVE  buf_done'[Marks(b)[j]] \/ (pc'[b] = "set_done" /\ at'[b] <= j)
    <3>1. buf_done[Marks(b)[j]] \/ at[b] <= j
      BY <2>1 DEF Marked
    <3>2. CASE at[b] <= j /\ j # at[b]
      <4>1. at[b] + 1 <= j /\ at[b] < Len(Marks(b))
        BY <1>2, <2>1, <3>2, SomebodyToTell
      <4> QED
        BY <2>1, <4>1
    <3> QED
      BY <1>3, <2>1, <3>1, <3>2
  <2>3. pc'[b] \in {"set_done", "notify", "exited"}
    BY <2>1
  <2> QED
    BY <2>2, <2>3 DEF Marked
<1>6. CASE b = c /\ Notify(b)
  <2>1. /\ pc[b] = "notify" /\ UNCHANGED d_done
        /\ pc'[b] = "notify" \/ pc'[b] = (IF d_done[b] THEN "exited" ELSE "top")
    BY <1>1, <1>6 DEF Notify, Goto, TypeOK, ends
  <2> QED
    BY <1>3, <2>1 DEF Marked
<1>7. CASE b = c /\ ~SetDone(b) /\ ~Notify(b)
  <2>1. ~d_done[b] /\ UNCHANGED d_done
    BY <1>7 DEF Marked, Thread, ClearChanged, SampleInput, SampleOutput, Work, Consume, Produce,
         Wake, Interrupted, ends
  <2>2. pc'[b] = "set_done" => at'[b] = 1
    BY <1>1, <1>7 DEF Thread, ClearChanged, SampleInput, SampleOutput, Work, Consume, Produce,
         Wake, Interrupted, Goto, GiveUp, NotifyFrom, TypeOK
  <2> QED
    BY <1>2, <2>1, <2>2 DEF Marked
<1> QED
  BY <1>4, <1>5, <1>6, <1>7

(* The items of an input grow by its writer and shrink by its reader.      *)
LEMMA BacklogMoves ==
  ASSUME Flow, NEW c \in Blocks, Thread(c), NEW port \in Ports, port[1] # c,
         c # Writer(Source(port)) \/ ~Produce(c)
  PROVE  backlog'[port] = backlog[port]
<1>1. backlog \in [Ports -> Nat]
  BY DEF Flow, TypeOK
<1>2. CASE Consume(c)
  <2>1. backlog' = [backlog EXCEPT ![<<c, at[c]>>] = @ - takes[c]]
    BY <1>2 DEF Consume
  <2>2. port # <<c, at[c]>>
    OBVIOUS
  <2> QED
    BY <1>1, <2>1, <2>2
<1>3. CASE Produce(c)
  <2>1. at[c] \in DOMAIN Outs[c]
    BY <1>3 DEF Flow, Sound, InRange, Produce
  <2>2. port \notin PortsOf(Outs[c][at[c]])
    BY <1>3, <2>1, OutputFacts, ReaderFacts
  <2> QED
    BY <1>3, <2>2 DEF Produce
<1>4. CASE ~Consume(c) /\ ~Produce(c)
  BY <1>4 DEF Thread, ClearChanged, SampleInput, SampleOutput, Work, SetDone, Notify, Wake,
              Interrupted, streams
<1> QED
  BY <1>2, <1>3, <1>4

(* Who goes on to notify has everybody before it.                          *)
LEMMA AheadAtFirst ==
  ASSUME NEW b \in Blocks, NEW i \in DOMAIN Ins[b], NEW w, w = Writer(Ins[b][i]),
         pc'[w] = "notify", at'[w] = 1
  PROVE  Ahead(w, b)'
<1>1. Ins[b][i] \in Buffers /\ <<b, i>> \in PortsOf(Ins[b][i])
  BY InputFacts
<1>2. w \in Blocks /\ \E j \in DOMAIN Outs[w] : Outs[w][j] = Ins[b][i]
  BY <1>1, WriterFacts
<1>3. PICK k \in 1..Len(Downstream[w]) : Downstream[w][k] = <<b, i>>[1]
  BY <1>1, <1>2, DownstreamFacts
<1>4. Neighbours[w][k] = b /\ Len(Downstream[w]) \in Nat
  BY <1>2, <1>3, NeighbourFacts
<1>5. k \in 1..Len(Downstream[w]) /\ 1 <= k
  BY <1>4
<1> QED
  BY <1>4, <1>5 DEF Ahead

LEMMA AheadKept ==
  ASSUME Flow, NEW w \in Blocks, Thread(w), NEW b \in Blocks, Ahead(w, b), ~input_changed'[b]
  PROVE  Ahead(w, b)'
<1>1. PICK k \in 1..Len(Downstream[w]) : at[w] <= k /\ Neighbours[w][k] = b
  BY DEF Ahead
<1>2. /\ pc[w] = "notify" /\ Notify(w) /\ TypeOK /\ at[w] \in Nat
  BY DEF Ahead, Flow, TypeOK, Thread, ClearChanged, SampleInput, SampleOutput, Work, Consume,
         Produce, SetDone, Wake, Interrupted
<1>3. /\ Len(Downstream[w]) \in Nat /\ Len(Neighbours[w]) \in Nat
      /\ Len(Downstream[w]) <= Len(Neighbours[w])
  BY DownstreamFirst
<1>4. at[w] # k
  <2> SUFFICES ASSUME at[w] = k PROVE FALSE
    OBVIOUS
  <2>1. input_changed' = Raised(input_changed, b)
    BY <1>1, <1>2, <1>3 DEF Notify
  <2>2. input_changed'[b] = TRUE
    BY <1>2, <2>1 DEF Raised, TypeOK
  <2> QED
    BY <2>2
<1>5. at[w] < Len(Neighbours[w]) /\ at[w] + 1 <= k
  BY <1>1, <1>2, <1>3, <1>4
<1>6. pc'[w] = "notify" /\ at'[w] = at[w] + 1
  BY <1>2, <1>5 DEF Notify, Goto, TypeOK
<1> QED
  BY <1>1, <1>5, <1>6 DEF Ahead

(***************************************************************************)
(* A thread that has sampled an input misses nothing of what its writer    *)
(* does then, for the writer notifies it after it.                         *)
(***************************************************************************)
Sampling == {"input", "output", "work", "wait_in"}

Missed(b, i) == backlog[<<b, i>>] > seen[b][i].items
Ended(b, i) == d_done[Writer(Ins[b][i])] /\ ~seen[b][i].done

LEMMA FreshOfOthers ==
  ASSUME Flow, NEW c \in Blocks, Thread(c), NEW b \in Blocks, b # c, Fresh(b)
  PROVE  Fresh(b)'
<1> SUFFICES ASSUME pc'[b] \in Sampling, ~input_changed'[b], NEW i \in 1..Len(seen'[b]),
                    NEW w, w = Writer(Ins[b][i])
             PROVE  /\ Missed(b, i)' => pc'[w] = "produce" \/ Ahead(w, b)'
                    /\ Ended(b, i)' => pc'[w] = "set_done" \/ Ahead(w, b)'
  BY DEF Fresh, Missed, Ended, Sampling
<1>1. TypeOK /\ Still(b)
  BY OthersStill DEF Flow
<1>2. /\ pc[b] \in Sampling /\ ~input_changed[b] /\ i \in 1..Len(seen[b]) /\ seen'[b] = seen[b]
      /\ i \in DOMAIN Ins[b]
  <2>1. pc[b] \in Sampling /\ ~input_changed[b] /\ i \in 1..Len(seen[b]) /\ seen'[b] = seen[b]
    BY <1>1 DEF Still
  <2>2. Len(seen[b]) <= Len(Ins[b]) /\ Len(seen[b]) \in Nat
    BY <1>1, SeenFacts DEF Flow, Sound, Sampled
  <2> QED
    BY <2>1, <2>2, EndsOfLoops
<1>3. /\ Missed(b, i) => pc[w] = "produce" \/ Ahead(w, b)
      /\ Ended(b, i) => pc[w] = "set_done" \/ Ahead(w, b)
  BY <1>2 DEF Fresh, Missed, Ended, Sampling
<1>4. /\ Ins[b][i] \in Buffers /\ <<b, i>> \in Ports /\ Source(<<b, i>>) = Ins[b][i]
      /\ <<b, i>>[1] # c /\ w \in Blocks
  BY <1>2, InputFacts, WriterFacts
<1>5. CASE w # c
  <2>1. pc'[w] = pc[w] /\ at'[w] = at[w] /\ d_done'[w] = d_done[w]
    BY <1>1, <1>4, <1>5, OthersStill DEF Still
  <2>2. backlog'[<<b, i>>] = backlog[<<b, i>>]
    BY <1>4, <1>5, BacklogMoves
  <2> QED
    BY <1>2, <1>3, <2>1, <2>2 DEF Missed, Ended, Ahead
<1>6. CASE w = c /\ Produce(w)
  <2>1. /\ pc'[w] = "produce" \/ (pc'[w] = "notify" /\ at'[w] = 1)
        /\ UNCHANGED d_done /\ pc[w] = "produce"
    BY <1>1, <1>6 DEF Produce, NotifyFrom, Goto, TypeOK, Flow, Sound, Asked, ends
  <2>2. ~Ended(b, i)'
    BY <1>2, <1>3, <2>1 DEF Ended, Ahead
  <2> QED
    BY <1>2, <2>1, <2>2, AheadAtFirst
<1>7. CASE w = c /\ SetDone(w)
  <2>1. /\ pc'[w] = "set_done" \/ (pc'[w] = "notify" /\ at'[w] = 1)
        /\ pc[w] = "set_done"
    BY <1>1, <1>7 DEF SetDone, Goto, TypeOK
  <2>2. backlog'[<<b, i>>] = backlog[<<b, i>>]
    BY <1>7 DEF SetDone
  <2>3. ~Missed(b, i)'
    BY <1>2, <1>3, <2>1, <2>2 DEF Missed, Ahead
  <2> QED
    BY <1>2, <2>1, <2>3, AheadAtFirst
<1>8. CASE w = c /\ ~Produce(w) /\ ~SetDone(w)
  <2>1. backlog'[<<b, i>>] = backlog[<<b, i>>]
    BY <1>4, <1>8, BacklogMoves
  <2>2. UNCHANGED d_done /\ pc[w] \notin {"produce", "set_done"}
    BY <1>8 DEF Thread, ClearChanged, SampleInput, SampleOutput, Work, Consume, Notify, Wake,
         Interrupted, ends
  <2>3. Missed(b, i)' = Missed(b, i) /\ Ended(b, i)' = Ended(b, i)
    BY <1>2, <2>1, <2>2 DEF Missed, Ended
  <2>4. Missed(b, i) \/ Ended(b, i) => Ahead(w, b)'
    BY <1>3, <1>4, <1>8, <2>2, AheadKept
  <2> QED
    BY <2>3, <2>4
<1> QED
  BY <1>5, <1>6, <1>7, <1>8

LEMMA FreshOfSelf ==
  ASSUME Flow, NEW b \in Blocks, Thread(b), \A w \in Blocks : Marked(w), Fresh(b)
  PROVE  Fresh(b)'
<1> SUFFICES ASSUME pc'[b] \in Sampling, ~input_changed'[b], NEW i \in 1..Len(seen'[b]),
                    NEW w, w = Writer(Ins[b][i])
             PROVE  /\ Missed(b, i)' => pc'[w] = "produce" \/ Ahead(w, b)'
                    /\ Ended(b, i)' => pc'[w] = "set_done" \/ Ahead(w, b)'
  BY DEF Fresh, Missed, Ended, Sampling
<1>1. TypeOK /\ Sound(b)
  BY DEF Flow
<1>2. \/ ClearChanged(b)
      \/ SampleInput(b)
      \/ SampleOutput(b)
      \/ Work(b) /\ pc'[b] = "wait_in" /\ UNCHANGED seen
  <2>1. ASSUME Consume(b) \/ Produce(b) \/ SetDone(b) \/ Notify(b) \/ Wake(b) \/ Interrupted(b)
        PROVE  FALSE
    BY <1>1, <2>1 DEF Consume, Produce, SetDone, Notify, Wake, Interrupted, Goto, NotifyFrom,
         TypeOK, Sampling
  <2>2. ASSUME Work(b) PROVE pc'[b] = "wait_in" /\ UNCHANGED seen
    <3>1. pc \in [Blocks -> Locations]
      BY <1>1 DEF TypeOK
    <3> QED
      BY <2>2, <3>1 DEF Work, Goto, GiveUp, Sampling, locals
  <2> QED
    BY <2>1, <2>2 DEF Thread
<1>3. CASE ClearChanged(b)
  <2>1. seen'[b] = << >>
    BY <1>1, <1>3 DEF ClearChanged, locals, Sound, Sampled
  <2> QED
    BY <2>1
<1>4. /\ ~ClearChanged(b) => UNCHANGED <<backlog, d_done, input_changed>>
      /\ ~ClearChanged(b) => pc[b] \in Sampling
  BY <1>2 DEF SampleInput, SampleOutput, Work, streams, flags, ends, Sampling
<1>5. ASSUME ~ClearChanged(b), i \in 1..Len(seen[b]), seen'[b][i] = seen[b][i]
      PROVE  /\ Missed(b, i)' => pc'[w] = "produce" \/ Ahead(w, b)'
             /\ Ended(b, i)' => pc'[w] = "set_done" \/ Ahead(w, b)'
  <2>1. /\ Missed(b, i)' = Missed(b, i) /\ Ended(b, i)' = Ended(b, i)
        /\ Missed(b, i) => pc[w] = "produce" \/ Ahead(w, b)
        /\ Ended(b, i) => pc[w] = "set_done" \/ Ahead(w, b)
    BY <1>4, <1>5 DEF Missed, Ended, Fresh, Sampling
  <2>2. CASE w = b
    BY <1>4, <1>5, <2>1, <2>2 DEF Ahead, Sampling
  <2>3. CASE w # b
    <3>1. i \in DOMAIN Ins[b]
      BY <1>1, <1>5, SeenFacts, EndsOfLoops DEF Sound, Sampled
    <3>2. w \in Blocks
      BY <3>1, InputFacts, WriterFacts
    <3>3. pc'[w] = pc[w] /\ at'[w] = at[w]
      BY <1>1, <2>3, <3>2, OthersStill DEF Still
    <3> QED
      BY <2>1, <3>3 DEF Ahead
  <2> QED
    BY <2>2, <2>3
<1>6. CASE SampleOutput(b) \/ (Work(b) /\ UNCHANGED seen)
  <2>1. UNCHANGED seen /\ ~ClearChanged(b)
    BY <1>1, <1>6 DEF SampleOutput, Work, ClearChanged, locals, GiveUp, Goto, Sampling, TypeOK
  <2> QED
    BY <1>5, <2>1
<1>7. CASE SampleInput(b)
  <2> DEFINE in == [items |-> backlog[<<b, at[b]>>], done |-> buf_done[Source(<<b, at[b]>>)]]
  <2>1. /\ pc[b] = "input" /\ ~ClearChanged(b) /\ at[b] \in Nat /\ Len(seen[b]) = at[b] - 1
        /\ at[b] \in DOMAIN Ins[b]
        /\ seen' = [seen EXCEPT ![b] = Append(@, in)]
    BY <1>1, <1>7 DEF SampleInput, ClearChanged, GiveUp, Goto, Sampling, TypeOK, Sound, Sampled,
         InRange
  <2>2. /\ seen[b] \in Seq([items : Nat, done : BOOLEAN])
        /\ seen'[b] = Append(seen[b], in)
    BY <1>1, <2>1, SeenFacts DEF TypeOK
  <2>3. <<b, at[b]>> \in Ports /\ Source(<<b, at[b]>>) = Ins[b][at[b]]
        /\ Ins[b][at[b]] \in Buffers
    BY <2>1, InputFacts
  <2>4. in \in [items : Nat, done : BOOLEAN] /\ in.items = backlog[<<b, at[b]>>]
        /\ in.done = buf_done[Ins[b][at[b]]] /\ backlog[<<b, at[b]>>] \in Nat
    BY <1>1, <2>3 DEF TypeOK
  <2> HIDE DEF in
  <2>5. /\ Len(seen'[b]) = at[b] /\ seen'[b][at[b]] = in
        /\ \A j \in 1..Len(seen[b]) : seen'[b][j] = seen[b][j]
    BY <2>1, <2>2, <2>4
  <2>6. CASE i # at[b]
    <3>1. i \in 1..Len(seen[b])
      BY <2>1, <2>5, <2>6
    <3> QED
      BY <1>5, <2>1, <2>5, <3>1
  <2>7. CASE i = at[b]
    <3>1. ~Missed(b, i)'
      BY <1>4, <2>1, <2>4, <2>5, <2>7 DEF Missed
    <3>2. ASSUME Ended(b, i)' PROVE pc'[w] = "set_done"
      <4>1. d_done[w] /\ ~buf_done[Ins[b][i]]
        BY <1>4, <2>1, <2>4, <2>5, <2>7, <3>2 DEF Ended
      <4>2. PICK j \in DOMAIN Outs[w] : w \in Blocks /\ Outs[w][j] = Ins[b][i]
        BY <2>3, <2>7, WriterFacts
      <4>3. j \in DOMAIN Marks(w) /\ Marks(w)[j] = Outs[w][j]
        BY <4>2, MarksFacts
      <4>4. pc[w] = "set_done"
        BY <4>1, <4>2, <4>3 DEF Marked
      <4>5. w # b
        BY <2>1, <4>4
      <4> QED
        BY <1>1, <4>2, <4>4, <4>5, OthersStill DEF Still
    <3> QED
      BY <3>1, <3>2
  <2> QED
    BY <2>6, <2>7
<1> QED
  BY <1>2, <1>3, <1>6, <1>7

-----------------------------------------------------------------------------
(***************************************************************************)
(* A thread that waits for room.                                           *)
(***************************************************************************)
LEMMA SpaceStays ==
  ASSUME NEW buf \in Buffers, \A port \in PortsOf(buf) : backlog'[port] = backlog[port]
  PROVE  Space(buf)' = Space(buf)
<1>1. {backlog[port] : port \in PortsOf(buf)}' = {backlog[port] : port \in PortsOf(buf)}
  OBVIOUS
<1> QED
  BY <1>1 DEF Space

(* A reader that goes on to notify has the writers of its inputs before it.*)
LEMMA ToldBelowFrom ==
  ASSUME NEW r \in Blocks, NEW k \in DOMAIN Ins[r], NEW b, b = Writer(Ins[r][k]),
         TypeOK',
         \/ pc'[r] \in {"consume", "produce", "set_done"}
         \/ pc'[r] = "notify" /\ at'[r] <= Len(Downstream[r]) + 1
  PROVE  ToldBelow(r, b)'
<1> DEFINE i == Len(Downstream[r]) + k
<1>1. /\ Len(Downstream[r]) \in Nat /\ Len(Ins[r]) \in Nat /\ k \in 1..Len(Ins[r])
      /\ Len(Neighbours[r]) = Len(Downstream[r]) + Len(Ins[r])
      /\ Neighbours[r][i] = b
  BY NeighbourFacts, EndsOfLoops
<1>2. i \in Len(Downstream[r]) + 1..Len(Neighbours[r])
  <2>1. \A m, n \in Nat : \A j \in 1..n : m + j \in m + 1..m + n
    OBVIOUS
  <2> QED
    BY <1>1, <2>1
<1>3. at'[r] <= Len(Downstream[r]) + 1 => i >= at'[r]
  <2>1. at'[r] \in Nat
    BY DEF TypeOK
  <2> QED
    BY <1>1, <2>1
<1> HIDE DEF i
<1> QED
  BY <1>1, <1>2, <1>3 DEF ToldBelow, WillNotify

(* What a reader's step does to what it owes the writers of its inputs.    *)
LEMMA ToldBelowKept ==
  ASSUME Flow, Flow', NEW r \in Blocks, Thread(r), NEW k \in DOMAIN Ins[r], NEW b \in Blocks,
         b = Writer(Ins[r][k]), ToldBelow(r, b), ~output_changed'[b]
  PROVE  ToldBelow(r, b)'
<1>1. TypeOK /\ TypeOK' /\ Len(Downstream[r]) \in Nat /\ Len(Neighbours[r]) \in Nat
  BY DownstreamFirst DEF Flow
<1>2. CASE pc[r] \in {"consume", "produce", "set_done"}
  <2>1. Consume(r) \/ Produce(r) \/ SetDone(r)
    BY <1>2 DEF Thread, ClearChanged, SampleInput, SampleOutput, Work, Notify, Wake, Interrupted
  <2>2. \/ pc'[r] \in {"consume", "produce", "set_done"}
        \/ pc'[r] = "notify" /\ (at'[r] = 1 \/ at'[r] = Len(Downstream[r]) + 1)
    <3>1. CASE Consume(r)
      BY <1>1, <3>1 DEF Consume, NotifyFrom, Goto, TypeOK
    <3>2. CASE Produce(r)
      BY <1>1, <3>2 DEF Produce, NotifyFrom, Goto, TypeOK
    <3>3. CASE SetDone(r)
      BY <1>1, <3>3 DEF SetDone, Goto, TypeOK
    <3> QED
      BY <2>1, <3>1, <3>2, <3>3
  <2>3. 1 <= Len(Downstream[r]) + 1 /\ Len(Downstream[r]) + 1 <= Len(Downstream[r]) + 1
    BY <1>1
  <2> QED
    BY <1>1, <2>2, <2>3, ToldBelowFrom
<1>3. CASE pc[r] = "notify"
  <2>1. Notify(r) /\ at[r] \in Nat
    BY <1>1, <1>3 DEF Thread, ClearChanged, SampleInput, SampleOutput, Work, Consume, Produce,
         SetDone, Wake, Interrupted, TypeOK
  <2>2. PICK i \in Len(Downstream[r]) + 1..Len(Neighbours[r]) :
          i >= at[r] /\ Neighbours[r][i] = b
    BY <1>3 DEF ToldBelow, WillNotify
  <2>3. i # at[r]
    <3> SUFFICES ASSUME i = at[r] PROVE FALSE
      OBVIOUS
    <3>1. ~(at[r] <= Len(Downstream[r]))
      BY <1>1, <2>1, <2>2
    <3>2. output_changed' = Raised(output_changed, b)
      BY <2>1, <2>2, <3>1 DEF Notify
    <3>3. output_changed'[b] = TRUE
      BY <1>1, <3>2 DEF Raised, TypeOK
    <3> QED
      BY <3>3
  <2>4. at[r] < Len(Neighbours[r]) /\ i >= at[r] + 1
    BY <1>1, <2>1, <2>2, <2>3
  <2>5. pc'[r] = "notify" /\ at'[r] = at[r] + 1
    BY <1>1, <2>1, <2>4 DEF Notify, Goto, TypeOK
  <2> QED
    BY <2>2, <2>4, <2>5 DEF ToldBelow, WillNotify
<1> QED
  BY <1>2, <1>3 DEF ToldBelow, WillNotify

LEMMA AttentiveOfOthers ==
  ASSUME Flow, Flow', NEW c \in Blocks, Thread(c), NEW b \in Blocks, b # c, Attentive(b)
  PROVE  Attentive(b)'
<1>1. TypeOK /\ TypeOK' /\ Still(b)
  BY OthersStill DEF Flow
<1> SUFFICES ASSUME pc[b] = "wait_out", ~output_changed[b], ~output_changed'[b],
                    NEW buf, buf = Outs[b][at[b]], Changed(b, buf)'
             PROVE  \E port \in PortsOf(buf) : ToldBelow(port[1], b)'
  BY <1>1 DEF Attentive, Still, Changed, Space
<1>2. /\ at[b] \in DOMAIN Outs[b] /\ buf \in Buffers /\ Writer(buf) = b
      /\ PortsOf(buf) = {port \in Ports : Source(port) = buf}
  <2>1. at[b] \in DOMAIN Outs[b]
    BY DEF Flow, Sound, InRange
  <2> QED
    BY <2>1, OutputFacts, ReaderFacts
<1>3. CASE Changed(b, buf)
  <2>1. PICK port \in PortsOf(buf) : ToldBelow(port[1], b)
    BY <1>3 DEF Attentive
  <2>2. port \in Ports /\ Source(port) = buf
    BY <1>2
  <2>3. /\ port[1] \in Blocks /\ port[2] \in DOMAIN Ins[port[1]]
        /\ b = Writer(Ins[port[1]][port[2]])
    BY <1>2, <2>2, PortFacts
  <2>4. CASE port[1] # c
    <3>1. pc'[port[1]] = pc[port[1]] /\ at'[port[1]] = at[port[1]]
      BY <1>1, <2>3, <2>4, OthersStill DEF Still
    <3> QED
      BY <2>1, <3>1 DEF ToldBelow, WillNotify
  <2>5. CASE port[1] = c
    BY <2>1, <2>3, <2>5, ToldBelowKept
  <2> QED
    BY <2>4, <2>5
<1>4. CASE ~Changed(b, buf)
  <2>1. Len(Downstream[c]) \in Nat /\ 1 <= Len(Downstream[c]) + 1
    BY DownstreamFirst
  <2>2. ASSUME \A port \in PortsOf(buf) : backlog'[port] = backlog[port]
        PROVE  ~buf_done[buf] /\ buf_done'[buf]
    BY <1>2, <1>4, <2>2, SpaceStays DEF Changed
  <2>3. ASSUME NEW k \in DOMAIN Ins[c], Ins[c][k] = buf,
               Consume(c) \/ SetDone(c)
        PROVE  \E port \in PortsOf(buf) : ToldBelow(port[1], b)'
    <3>1. <<c, k>> \in PortsOf(buf) /\ <<c, k>>[1] = c
      BY <2>3, InputFacts
    <3>2. \/ pc'[c] \in {"consume", "produce", "set_done"}
          \/ pc'[c] = "notify" /\ (at'[c] = 1 \/ at'[c] = Len(Downstream[c]) + 1)
      BY <1>1, <2>3 DEF Consume, SetDone, NotifyFrom, Goto, TypeOK
    <3>3. at'[c] = 1 \/ at'[c] = Len(Downstream[c]) + 1 => at'[c] <= Len(Downstream[c]) + 1
      BY <2>1
    <3>4. ToldBelow(c, b)'
      BY <1>1, <1>2, <2>3, <3>2, <3>3, ToldBelowFrom
    <3> QED
      BY <3>1, <3>4
  <2>4. CASE Consume(c)
    <3>1. at[c] \in DOMAIN Ins[c]
      BY <2>4 DEF Consume, Flow, Sound, InRange
    <3>2. CASE Ins[c][at[c]] = buf
      BY <2>3, <2>4, <3>1, <3>2
    <3>3. CASE Ins[c][at[c]] # buf
      <4>1. <<c, at[c]>> \in Ports /\ <<c, at[c]>> \notin PortsOf(buf)
        BY <1>2, <3>1, <3>3, InputFacts
      <4>2. backlog \in [Ports -> Nat] /\ UNCHANGED buf_done
            /\ backlog' = [backlog EXCEPT ![<<c, at[c]>>] = @ - takes[c]]
        BY <1>1, <2>4 DEF Consume, TypeOK
      <4>3. \A port \in PortsOf(buf) : backlog'[port] = backlog[port]
        <5> SUFFICES ASSUME NEW port \in PortsOf(buf) PROVE backlog'[port] = backlog[port]
          OBVIOUS
        <5>1. port # <<c, at[c]>> /\ port \in Ports
          BY <1>2, <4>1
        <5> QED
          BY <4>2, <5>1
      <4> QED
        BY <2>2, <4>2, <4>3
    <3> QED
      BY <3>2, <3>3
  <2>5. CASE ~Consume(c)
    <3>1. \A port \in PortsOf(buf) : backlog'[port] = backlog[port]
      <4>1. CASE Produce(c)
        <5>1. at[c] \in DOMAIN Outs[c]
          BY <4>1 DEF Flow, Sound, InRange, Produce
        <5>2. \A port \in PortsOf(buf) : port \in Ports /\ port \notin PortsOf(Outs[c][at[c]])
          BY <1>2, <5>1, OutputFacts, ReaderFacts
        <5> QED
          BY <4>1, <5>2 DEF Produce
      <4>2. CASE ~Produce(c)
        BY <2>5, <4>2 DEF Thread, ClearChanged, SampleInput, SampleOutput, Work, SetDone, Notify,
             Wake, Interrupted, streams
      <4> QED
        BY <4>1, <4>2
    <3>2. ~buf_done[buf] /\ buf_done'[buf]
      BY <2>2, <3>1
    <3>3. SetDone(c)
      BY <3>2 DEF Thread, ClearChanged, SampleInput, SampleOutput, Work, Consume, Produce, Notify,
           Wake, Interrupted, streams
    <3>4. at[c] \in DOMAIN Marks(c) /\ Marks(c)[at[c]] = buf
      <4>1. at[c] \in DOMAIN Marks(c)
        BY <3>3 DEF SetDone, Flow, Sound, InRange
      <4>2. Marks(c)[at[c]] \in Buffers
        BY <4>1, SomebodyToTell
      <4> QED
        BY <1>1, <1>2, <3>2, <3>3, <4>1, <4>2 DEF SetDone, TypeOK
    <3>5. \E k \in DOMAIN Ins[c] : Ins[c][k] = buf
      <4>1. \A k \in DOMAIN Outs[c] : Outs[c][k] # buf
        BY <1>2, OutputFacts
      <4> QED
        BY <3>4, <4>1, MarksFacts
    <3> QED
      BY <2>3, <3>3, <3>5
  <2> QED
    BY <2>4, <2>5
<1> QED
  BY <1>3, <1>4

(* A source that may be asked for its output multiple is not blocked on    *)
(* its outputs once it has found room in all of them.                      *)
LEMMA SourcesAsk ==
  ASSUME SourcesMayAsk, Flow, NEW b \in Blocks, pc[b] = "work"
  PROVE  Verdict(b).result # "blkd_out"
<1> SUFFICES ASSUME Verdict(b).result = "blkd_out" PROVE FALSE
  OBVIOUS
<1>1. IsSource(b) /\ ~IsSink(b)
  BY VerdictFacts, EndsOfLoops
<1>2. noutput[b] \in Nat /\ noutput[b] > 0
  BY <1>1 DEF Flow, TypeOK, Sound, Asked
<1>3. MaxNoutputItems(Par[b]) > 0 /\ MaxNoutputItems(Par[b]) \in Nat
  <2> DEFINE m == Par[b].multiple
             x == Par[b].max_noutput
  <2>1. m \in Positive /\ m \in Nat /\ m > 0 /\ x \in Nat /\ m <= x
    BY <1>1, ParFacts DEF SourcesMayAsk, Descriptions, Positive
  <2> HIDE DEF m, x
  <2>2. 1 * m <= x
    BY <2>1
  <2>3. 1 <= x \div m /\ x \div m \in Nat
    BY <2>1, <2>2, QuotientAtLeast, QuotientIsNat
  <2>4. 1 * m <= (x \div m) * m
    BY <2>1, <2>3, TimesMonotone
  <2>5. (x \div m) * m > 0 /\ (x \div m) * m \in Nat
    BY <2>1, <2>3, <2>4
  <2> QED
    BY <2>5 DEF MaxNoutputItems, RoundDown, m, x
<1>4. [i \in DOMAIN Ins[b] |-> BufSize[Ins[b][i]]] = << >>
  BY <1>1 DEF IsSource
<1> DEFINE n == AtMost(noutput[b], MaxNoutputItems(Par[b]))
<1>5. n # 0
  BY <1>2, <1>3 DEF AtMost
<1>6. Verdict(b) = [result |-> IF n = 0 THEN "blkd_out" ELSE "work", n |-> n]
  BY <1>4 DEF Verdict, Decide
<1> HIDE DEF n
<1>7. Verdict(b).result = "work"
  BY <1>5, <1>6
<1> QED
  BY <1>7

LEMMA AttentiveOfSelf ==
  ASSUME SourcesMayAsk, Flow, NEW b \in Blocks, Thread(b)
  PROVE  Attentive(b)'
<1> SUFFICES ASSUME pc'[b] = "wait_out" PROVE ~Changed(b, Outs[b][at[b]])' /\ at'[b] = at[b]
  BY DEF Attentive
<1>1. TypeOK
  BY DEF Flow
<1>2. SampleOutput(b)
  <2>1. ASSUME Work(b) PROVE FALSE
    <3>1. pc[b] = "work"
      BY <2>1 DEF Work
    <3>2. Verdict(b).result # "blkd_out"
      BY <3>1, SourcesAsk
    <3>3. \/ Goto(b, "wait_in", 1) \/ GiveUp(b, "input") \/ GiveUp(b, "work")
          \/ Goto(b, IF IsSource(b) THEN "produce" ELSE "consume", 1)
      BY <2>1, <3>2 DEF Work
    <3> QED
      BY <1>1, <3>3 DEF Goto, GiveUp, TypeOK
  <2>2. ASSUME ~SampleOutput(b), ~Work(b) PROVE FALSE
    BY <1>1, <2>2 DEF Thread, ClearChanged, SampleInput, Consume, Produce, SetDone, Notify, Wake,
         Interrupted, Goto, GiveUp, NotifyFrom, TypeOK
  <2> QED
    BY <2>1, <2>2
<1>3. PICK buf \in Buffers : buf = Outs[b][at[b]]
  <2>1. at[b] \in DOMAIN Outs[b]
    BY <1>2 DEF Flow, Sound, InRange, SampleOutput
  <2> QED
    BY <2>1, OutputFacts
<1>4. /\ Blocking(Par[b], Room(Par[b], Space(buf), BufSize[buf])) /\ ~buf_done[buf]
      /\ UNCHANGED <<backlog, buf_done>> /\ at'[b] = at[b]
  BY <1>1, <1>2, <1>3 DEF SampleOutput, Goto, GiveUp, TypeOK, streams
<1>5. Space(buf)' = Space(buf)
  BY <1>4, SpaceStays
<1>6. ~Changed(b, buf)'
  BY <1>4, <1>5 DEF Changed
<1> QED
  BY <1>3, <1>4, <1>6 DEF Changed, Space

LEMMA ToldAtInit ==
  ASSUME Init
  PROVE  Told
<1>1. ASSUME NEW b \in Blocks PROVE Marked(b) /\ Fresh(b) /\ Attentive(b)
  <2>1. pc[b] = "top" /\ ~d_done[b]
    BY DEF Init
  <2> QED
    BY <2>1 DEF Marked, Fresh, Attentive
<1> QED
  BY <1>1 DEF Told

LEMMA ToldKept ==
  ASSUME SourcesMayAsk, Flow, Told, [Next]_vars
  PROVE  Told'
<1>1. ASSUME NEW c \in Blocks, Thread(c) PROVE Told'
  <2>1. Flow'
    BY <1>1, FlowKept DEF Next
  <2>2. ASSUME NEW b \in Blocks PROVE (Marked(b) /\ Fresh(b) /\ Attentive(b))'
    <3>1. Marked(b)'
      BY <1>1, MarkedKept DEF Told
    <3>2. Fresh(b)'
      <4>1. CASE b = c
        BY <1>1, <4>1, FreshOfSelf DEF Told
      <4>2. CASE b # c
        BY <1>1, <4>2, FreshOfOthers DEF Told
      <4> QED
        BY <4>1, <4>2
    <3>3. Attentive(b)'
      <4>1. CASE b = c
        BY <1>1, <4>1, AttentiveOfSelf
      <4>2. CASE b # c
        BY <1>1, <2>1, <4>2, AttentiveOfOthers DEF Told
      <4> QED
        BY <4>1, <4>2
    <3> QED
      BY <3>1, <3>2, <3>3
  <2> QED
    BY <2>2 DEF Told
<1>2. ASSUME UNCHANGED <<streams, flags, ends, made, pc, at, locals>> PROVE Told'
  <2> SUFFICES ASSUME NEW b \in Blocks PROVE (Marked(b) /\ Fresh(b) /\ Attentive(b))'
    BY DEF Told
  <2>1. UNCHANGED <<backlog, buf_done, input_changed, output_changed, d_done, pc, at, seen>>
    BY <1>2 DEF streams, flags, ends, locals
  <2>2. Marked(b) /\ Fresh(b) /\ Attentive(b)
    BY DEF Told
  <2>3. Marked(b)'
    BY <2>1, <2>2 DEF Marked
  <2>4. Fresh(b)'
    BY <2>1, <2>2 DEF Fresh, Ahead
  <2>5. Attentive(b)'
    BY <2>1, <2>2 DEF Attentive, Changed, Space, ToldBelow, WillNotify
  <2> QED
    BY <2>3, <2>4, <2>5
<1>3. CASE Stop
  BY <1>2, <1>3 DEF Stop
<1>4. CASE UNCHANGED vars
  BY <1>2, <1>4 DEF vars
<1> QED
  BY <1>1, <1>3, <1>4 DEF Next, Joined

(* A thread that waits has sampled all of its inputs, so that Fresh speaks *)
(* of each of them.                                                        *)
LEMMA ToldCovers ==
  ASSUME Flow, Told
  PROVE  WaitsAreCovered
<1> SUFFICES ASSUME NEW b \in Blocks
             PROVE  /\ pc[b] = "wait_in" /\ ~input_changed[b] =>
                         \A i \in DOMAIN Ins[b] :
                           LET w == Writer(Ins[b][i])
                           IN Missed(b, i) \/ Ended(b, i)
                                => WillNotify(w, 1..Len(Downstream[w]), b)
                    /\ pc[b] = "wait_out" /\ ~output_changed[b] =>
                         LET buf == Outs[b][at[b]]
                         IN Changed(b, buf)
                              => \E port \in PortsOf(buf) : ToldBelow(port[1], b)
  BY DEF WaitsAreCovered, Missed, Ended, Changed, ToldBelow
<1>1. Fresh(b) /\ Attentive(b) /\ Sampled(b)
  BY DEF Told, Flow, Sound
<1>2. ASSUME pc[b] = "wait_in", ~input_changed[b], NEW i \in DOMAIN Ins[b],
             NEW w, w = Writer(Ins[b][i]), Missed(b, i) \/ Ended(b, i)
      PROVE  WillNotify(w, 1..Len(Downstream[w]), b)
  <2>1. i \in 1..Len(seen[b])
    <3>1. Len(seen[b]) = Len(Ins[b])
      BY <1>1, <1>2 DEF Sampled
    <3> QED
      BY <1>2, <3>1, EndsOfLoops, InputFacts
  <2>2. pc[w] \in {"produce", "set_done"} \/ Ahead(w, b)
    BY <1>1, <1>2, <2>1 DEF Fresh, Missed, Ended
  <2>3. w \in Blocks
    <3>1. Ins[b][i] \in Buffers
      BY InputFacts
    <3> QED
      BY <1>2, <3>1, WriterFacts
  <2>4. ASSUME pc[w] = "notify", NEW j \in 1..Len(Downstream[w]), at[w] <= j, Neighbours[w][j] = b
        PROVE  WillNotify(w, 1..Len(Downstream[w]), b)
    <3>1. at[w] \in Nat /\ j \in Nat
      BY <2>3 DEF Flow, TypeOK
    <3> QED
      BY <2>4, <3>1 DEF WillNotify
  <2> QED
    BY <2>2, <2>4 DEF Ahead, WillNotify
<1>3. ASSUME pc[b] = "wait_out", ~output_changed[b], Changed(b, Outs[b][at[b]])
      PROVE  \E port \in PortsOf(Outs[b][at[b]]) : ToldBelow(port[1], b)
  BY <1>1, <1>3 DEF Attentive
<1> QED
  BY <1>2, <1>3

(***************************************************************************)
(* No buffer is overrun and no wakeup is lost: while a thread waits with   *)
(* its flag clear, whatever it waits for that has already happened is the  *)
(* doing of a neighbour that has yet to notify it.  A source whose limit   *)
(* is less than its output multiple is left out: it waits for room that    *)
(* is there, because nothing it may make is ever enough.                   *)
(***************************************************************************)
THEOREM StreamsKeepFlowing ==
  ASSUME SourcesMayAsk
  PROVE  Spec => []StreamsFlow
<1>1. Init => Flow /\ Told
  BY FlowAtInit, ToldAtInit
<1>2. Flow /\ Told /\ [Next]_vars => Flow' /\ Told'
  BY FlowKept, ToldKept
<1>3. Flow /\ Told => WaitsAreCovered
  BY ToldCovers
<1>4. Spec => []WaitsAreCovered
  BY <1>1, <1>2, <1>3, PTL DEF Spec
<1>5. NoOverrun /\ WaitsAreCovered => StreamsFlow
  BY DEF StreamsFlow
<1> QED
  BY <1>4, <1>5, NothingOverruns, PTL

-----------------------------------------------------------------------------
(***************************************************************************)
(* The end of the streams.  Where all the ports that read a buffer belong  *)
(* to one block, only the writer of a buffer or that block marks it done.  *)
(***************************************************************************)
ReadByOneBlock ==
  \A buf \in Buffers : \A port, other \in PortsOf(buf) : port[1] = other[1]

(* An input of a sink is taken as exhausted when it has ended and holds    *)
(* fewer items than the output multiple (block_executor.cc:253), whatever  *)
(* its rate.                                                               *)
SinksDoNotInterpolate == \A b \in Blocks : IsSink(b) => Rate[b].up = 1

(* A buffer holds what its readers need for one output multiple.           *)
(* allocate_buffer makes it so (flat_flowgraph.cc:160).                    *)
BuffersHoldACall ==
  \A port \in Ports :
    Forecast(Rate[port[1]], Rate[port[1]].multiple) <= BufSize[Source(port)] - 1

(* A block that gave up is on its way out.                                 *)
Leaving(b) ==
  /\ why[b] # "running" => \/ pc[b] = "set_done"
                           \/ pc[b] \in {"notify", "exited"} /\ d_done[b]
  /\ pc[b] = "set_done" \/ d_done[b] => why[b] # "running"

(* An input that was seen done will not grow: its writer has given up.     *)
Complete(b) ==
  \A i \in 1..Len(seen[b]) :
    seen[b][i].done => /\ why[Writer(Ins[b][i])] # "running"
                       /\ backlog[<<b, i>>] <= seen[b][i].items

(* Only a block that gave up marks a buffer.                               *)
MarkedBy(buf) ==
  buf_done[buf] => \/ why[Writer(buf)] # "running"
                   \/ \E port \in PortsOf(buf) : why[port[1]] # "running"

(* What a block that ended for want of input had left.                     *)
UsedUp(b) ==
  why[b] = "input" =>
    \E port \in Ports : /\ port[1] = b /\ why[Writer(Source(port))] # "running"
                        /\ backlog[port] < Forecast(Rate[b], Rate[b].multiple)

Spent == /\ \A b \in Blocks : Leaving(b) /\ Complete(b) /\ UsedUp(b)
         /\ \A buf \in Buffers : MarkedBy(buf)

(* A request that is short of an input is for one multiple at most.        *)
LEMMA RequestIsLast ==
  ASSUME NEW p, Steady(p), NEW ins, MaxItemsAvail(ins) \in Nat, NEW start \in Nat
  PROVE  ~TryAgain(p, ins, Request(p, Untouched, ins, start))
<1> DEFINE C == (0..start) \X Alignments(p)
<1>1. p \in Descriptions /\ Untouched \in Alignments(p)
  BY DEF Steady, Descriptions, Positive, Alignments, Untouched
<1>2. ASSUME NEW n \in 0..start, NEW a \in Alignments(p),
             TryAgain(p, ins, Pass(p, a, ins, n))
      PROVE  <<Halved(p, Pass(p, a, ins, n).n), Pass(p, a, ins, n).al>> \in C
  <2>1. n \in Nat
    OBVIOUS
  <2>2. /\ Halved(p, Pass(p, a, ins, n).n) \in Nat /\ Halved(p, Pass(p, a, ins, n).n) < n
        /\ Pass(p, a, ins, n).al \in Alignments(p)
    BY <1>1, <1>2, <2>1, PassDescends
  <2>3. Halved(p, Pass(p, a, ins, n).n) \in 0..start
    BY <2>2
  <2> QED
    BY <2>2, <2>3
<1>3. Kept(p, ins, start, C)
  BY <1>2 DEF Kept
<1>4. C \subseteq (0..start) \X Alignments(p) /\ <<start, Untouched>> \in C
  BY <1>1
<1> HIDE DEF C
<1>5. \E n \in 0..start, a \in Alignments(p) :
        /\ <<n, a>> \in C
        /\ Request(p, Untouched, ins, start) = Pass(p, a, ins, n)
        /\ ~TryAgain(p, ins, Pass(p, a, ins, n))
  BY <1>1, <1>3, <1>4, RequestSettles
<1> QED
  BY <1>5

LEMMA ForecastMonotone ==
  ASSUME NEW p \in Descriptions, NEW n \in Nat, NEW k \in 0..n
  PROVE  /\ Forecast(p, k) <= Forecast(p, n)
         /\ Forecast(p, k) \in Int /\ Forecast(p, n) \in Int
<1>1. /\ p.down \in Nat /\ p.up \in Positive /\ p.history \in Nat
      /\ k \in Nat /\ n * p.down \in Int /\ k * p.down \in Int
  BY DEF Descriptions, Positive
<1>2. k * p.down <= n * p.down
  BY <1>1, TimesMonotone
<1>3. /\ (k * p.down) \div p.up <= (n * p.down) \div p.up
      /\ (n * p.down) \div p.up \in Int /\ (k * p.down) \div p.up \in Int
  BY <1>1, <1>2, QuotientMonotone, Quotient
<1> QED
  BY <1>1, <1>3 DEF Forecast

(* The executor ends a block for an input that is done and holds less than *)
(* one multiple takes.                                                     *)
LEMMA DecisionEnds ==
  ASSUME NEW p, Steady(p), NEW k \in Nat, k > 0, NEW ins, DOMAIN ins = 1..k,
         \A i \in 1..k : ins[i].items \in Nat, NEW start \in Nat,
         NEW bufsizes,
         \A i \in 1..k : bufsizes[i] \in Nat /\ Forecast(p, p.multiple) <= bufsizes[i] - 1,
         Decision(p, Untouched, ins, bufsizes, start).result = "done"
  PROVE  \E i \in 1..k : ins[i].done /\ ins[i].items < Forecast(p, p.multiple)
<1> DEFINE all == {ins[i] : i \in DOMAIN ins}
           r == Request(p, Untouched, all, start)
           d == Decision(p, Untouched, ins, bufsizes, start)
<1>1. MaxItemsAvail(all) \in Nat
  BY MaxItemsAvailIsNat
<1>2. r.n \in 0..start /\ ~TryAgain(p, all, r)
  BY <1>1, SteadyRequest, RequestIsLast
<1>3. d = Settled(p, Untouched, ins, bufsizes, r)
  BY DEF Decision
<1> HIDE DEF d, r
<1>4. PICK i \in FirstShort(p, ins, r.n) :
        ins[i].done \/ Forecast(p, r.n) > bufsizes[i] - 1
  <2>1. d.result = "done"
    BY DEF d
  <2>2. \E i \in FirstShort(p, ins, r.n) : ins[i].done \/ Forecast(p, r.n) > bufsizes[i] - 1
    BY <1>3, <2>1 DEF Settled
  <2> QED
    BY <2>2
<1>5. i \in 1..k /\ Forecast(p, r.n) > ins[i].items
  BY <1>4 DEF FirstShort, Short
<1>6. p \in Descriptions /\ p.multiple \in Nat /\ r.n \in Nat
  BY <1>2 DEF Steady, Descriptions, Positive
<1>7. r.n \in 0..p.multiple
  <2>1. ins[i] \in all /\ Short(p, ins[i], r.n)
    BY <1>5 DEF Short
  <2>2. ~(r.n > p.multiple)
    BY <1>2, <2>1 DEF TryAgain
  <2> QED
    BY <1>6, <2>2
<1>8. /\ Forecast(p, r.n) <= Forecast(p, p.multiple)
      /\ Forecast(p, r.n) \in Int /\ Forecast(p, p.multiple) \in Int
  BY <1>6, <1>7, ForecastMonotone
<1>9. ins[i].items \in Nat /\ bufsizes[i] \in Nat /\ Forecast(p, p.multiple) <= bufsizes[i] - 1
  BY <1>5
<1>10. ins[i].items < Forecast(p, p.multiple) /\ ~(Forecast(p, r.n) > bufsizes[i] - 1)
  BY <1>5, <1>8, <1>9
<1> QED
  BY <1>4, <1>5, <1>10

LEMMA ParForecast ==
  ASSUME NEW b \in Blocks
  PROVE  \A n : Forecast(Par[b], n) = Forecast(Rate[b], n)
<1>1. Rate[b] \in Descriptions
  BY ParFacts
<1>2. Par[b] = [Rate[b] EXCEPT !.max_noutput = Limit(b)]
  BY DEF Par
<1>3. /\ Par[b].up = Rate[b].up /\ Par[b].down = Rate[b].down
      /\ Par[b].history = Rate[b].history
  BY <1>1, <1>2 DEF Descriptions
<1> QED
  BY <1>3 DEF Forecast

(* What a block that the executor ends had sampled.                        *)
LEMMA VerdictEnds ==
  ASSUME NEW b \in Blocks, Flow, pc[b] = "work", BuffersHoldACall,
         Verdict(b).result = "done"
  PROVE  \E i \in 1..Len(seen[b]) :
           /\ i \in DOMAIN Ins[b] /\ seen[b][i].done
           /\ seen[b][i].items < Forecast(Rate[b], Rate[b].multiple)
<1> DEFINE p == Par[b]
           ins == seen[b]
           sizes == [i \in DOMAIN Ins[b] |-> BufSize[Ins[b][i]]]
           room == noutput[b]
           v == Verdict(b)
<1>1. Steady(p) /\ p \in Descriptions /\ p.multiple = Rate[b].multiple
  BY ParFacts
<1>2. /\ TypeOK /\ Sound(b) /\ room \in Nat
  BY DEF Flow, TypeOK
<1>3. /\ Len(ins) = Len(Ins[b]) /\ DOMAIN ins = 1..Len(Ins[b]) /\ DOMAIN Ins[b] = 1..Len(Ins[b])
      /\ Len(Ins[b]) \in Nat
      /\ \A i \in 1..Len(Ins[b]) : ins[i].items \in Nat
  BY <1>2, SeenFacts, EndsOfLoops DEF Sound, Sampled
<1>4. v = Decide(p, ins, sizes, room)
  BY DEF Verdict
<1>5. ~IsSource(b)
  <2> SUFFICES ASSUME IsSource(b) PROVE FALSE
    OBVIOUS
  <2>1. sizes = << >>
    BY DEF IsSource
  <2> HIDE DEF p, ins, sizes, room
  <2>2. v.result = IF AtMost(room, MaxNoutputItems(p)) = 0 THEN "blkd_out" ELSE "work"
    BY <1>4, <2>1 DEF Decide
  <2> QED
    BY <2>2
<1>6. Len(Ins[b]) > 0 /\ sizes # << >>
  <2>1. Len(Ins[b]) > 0 /\ 1 \in DOMAIN sizes
    BY <1>3, <1>5, EndsOfLoops
  <2>2. DOMAIN << >> = {}
    OBVIOUS
  <2> HIDE DEF sizes
  <2> QED
    BY <2>1, <2>2
<1> DEFINE avail == MaxItemsAvail({ins[i] : i \in DOMAIN ins})
           guess == SinkNoutput(p, avail)
           start == IF room = 0 THEN guess ELSE room
           d == Decision(p, Untouched, ins, sizes, start)
<1>7. start \in Nat
  <2>1. avail \in Nat
    <3> HIDE DEF ins
    <3> QED
      BY <1>3, <1>6, MaxItemsAvailIsNat
  <2>2. guess \in Nat
    <3> HIDE DEF avail
    <3> QED
      BY <1>1, <2>1, GuessIsNat
  <2> HIDE DEF guess
  <2> QED
    BY <1>2, <2>2
<1>8. v = [result |-> "blkd_in", n |-> 0] \/ v = d
  BY <1>4, <1>6 DEF Decide, NoAlignment, Untouched
<1>9. \A i \in 1..Len(Ins[b]) : sizes[i] \in Nat /\ Forecast(p, p.multiple) <= sizes[i] - 1
  <2> SUFFICES ASSUME NEW i \in 1..Len(Ins[b])
               PROVE  sizes[i] \in Nat /\ Forecast(p, p.multiple) <= sizes[i] - 1
    OBVIOUS
  <2>1. <<b, i>> \in Ports /\ Source(<<b, i>>) = Ins[b][i] /\ Ins[b][i] \in Buffers
    BY <1>3, InputFacts
  <2>2. sizes[i] = BufSize[Source(<<b, i>>)] /\ BufSize[Ins[b][i]] \in Nat
    BY <1>3, <2>1, ReaderFacts
  <2>3. Forecast(Rate[b], Rate[b].multiple) <= BufSize[Source(<<b, i>>)] - 1
    BY <2>1 DEF BuffersHoldACall
  <2> QED
    BY <1>1, <2>1, <2>2, <2>3, ParForecast
<1> HIDE DEF sizes, guess, avail, ins, room, start, p
<1>10. d.result = "done"
  <2> HIDE DEF v, d
  <2>1. v.result = "done"
    BY DEF v
  <2> QED
    BY <1>8, <2>1
<1>11. \E i \in 1..Len(Ins[b]) : ins[i].done /\ ins[i].items < Forecast(p, p.multiple)
  BY <1>1, <1>3, <1>6, <1>7, <1>9, <1>10, DecisionEnds
<1> QED
  BY <1>1, <1>3, <1>11, ParForecast DEF p, ins

-----------------------------------------------------------------------------
(***************************************************************************)
(* What gave up stays so, and adds nothing to its streams.                 *)
(***************************************************************************)
LEMMA ReasonStays ==
  ASSUME TypeOK, NEW c \in Blocks, Leaving(c), Thread(c), NEW b \in Blocks
  PROVE  /\ why[b] # "running" \/ b # c => why'[b] = why[b]
         /\ b # c => d_done'[b] = d_done[b]
<1> USE DEF TypeOK, Leaving, Goto, GiveUp, ends
<1>1. CASE ClearChanged(c) \/ Consume(c) \/ Produce(c) \/ SetDone(c) \/ Notify(c) \/ Wake(c)
             \/ Interrupted(c)
  BY <1>1 DEF ClearChanged, Consume, Produce, SetDone, Notify, Wake, Interrupted
<1>2. CASE SampleInput(c)
  BY <1>2 DEF SampleInput
<1>3. CASE SampleOutput(c)
  BY <1>3 DEF SampleOutput
<1>4. CASE Work(c)
  BY <1>4 DEF Work
<1> QED
  BY <1>1, <1>2, <1>3, <1>4 DEF Thread

LEMMA EndedStreams ==
  ASSUME Flow, NEW c \in Blocks, Leaving(c), Thread(c), NEW port \in Ports,
         why[Writer(Source(port))] # "running"
  PROVE  backlog'[port] <= backlog[port]
<1>1. backlog \in [Ports -> Nat] /\ backlog[port] \in Nat /\ takes[c] \in Nat
  BY DEF Flow, TypeOK
<1>2. CASE Consume(c)
  <2>1. backlog' = [backlog EXCEPT ![<<c, at[c]>>] = @ - takes[c]]
    BY <1>2 DEF Consume
  <2>2. backlog'[port] = backlog[port] \/ backlog'[port] = backlog[port] - takes[c]
    BY <1>1, <2>1
  <2> QED
    BY <1>1, <2>2
<1>3. CASE Produce(c)
  <2>1. at[c] \in DOMAIN Outs[c] /\ why[c] = "running"
    BY <1>3 DEF Flow, Sound, InRange, Produce, Leaving
  <2>2. port \notin PortsOf(Outs[c][at[c]])
    BY <2>1, OutputFacts, ReaderFacts
  <2>3. backlog'[port] = backlog[port]
    BY <1>3, <2>2 DEF Produce
  <2> QED
    BY <1>1, <2>3
<1>4. CASE ~Consume(c) /\ ~Produce(c)
  <2>1. backlog' = backlog
    BY <1>4 DEF Thread, ClearChanged, SampleInput, SampleOutput, Work, SetDone, Notify, Wake,
                Interrupted, streams
  <2> QED
    BY <1>1, <2>1
<1> QED
  BY <1>2, <1>3, <1>4

LEMMA LeavingKept ==
  ASSUME Flow, NEW c \in Blocks, Thread(c), NEW b \in Blocks, Leaving(b), Leaving(c)
  PROVE  Leaving(b)'
<1>1. TypeOK
  BY DEF Flow
<1>2. CASE b # c
  <2>1. Still(b) /\ why'[b] = why[b]
    BY <1>1, <1>2, OthersStill, ReasonStays
  <2> QED
    BY <2>1 DEF Leaving, Still
<1>3. CASE b = c
  <2> USE DEF TypeOK, Leaving, Goto, GiveUp, ends
  <2>1. CASE ClearChanged(b) \/ Consume(b) \/ Produce(b) \/ Wake(b) \/ Interrupted(b)
    BY <1>1, <2>1 DEF ClearChanged, Consume, Produce, NotifyFrom, Wake, Interrupted
  <2>2. CASE SampleInput(b)
    BY <1>1, <2>2 DEF SampleInput
  <2>3. CASE SampleOutput(b)
    BY <1>1, <2>3 DEF SampleOutput
  <2>4. CASE Work(b)
    BY <1>1, <2>4 DEF Work
  <2>5. CASE SetDone(b)
    BY <1>1, <2>5 DEF SetDone
  <2>6. CASE Notify(b)
    BY <1>1, <2>6 DEF Notify
  <2> QED
    BY <1>3, <2>1, <2>2, <2>3, <2>4, <2>5, <2>6 DEF Thread
<1> QED
  BY <1>2, <1>3

LEMMA MarkedByKept ==
  ASSUME Flow, NEW c \in Blocks, Thread(c), Leaving(c), NEW buf \in Buffers, MarkedBy(buf)
  PROVE  MarkedBy(buf)'
<1>1. TypeOK
  BY DEF Flow
<1>2. Writer(buf) \in Blocks /\ \A port \in PortsOf(buf) : port[1] \in Blocks
  BY WriterFacts, ReaderFacts, PortFacts
<1>3. \A b \in Blocks : why[b] # "running" => why'[b] # "running"
  BY <1>1, ReasonStays
<1>4. CASE buf_done[buf]
  BY <1>2, <1>3, <1>4 DEF MarkedBy
<1>5. CASE ~buf_done[buf] /\ buf_done'[buf]
  <2>1. SetDone(c)
    BY <1>5 DEF Thread, ClearChanged, SampleInput, SampleOutput, Work, Consume, Produce, Notify,
                Wake, Interrupted, streams
  <2>2. at[c] \in DOMAIN Marks(c) /\ why[c] # "running"
    BY <2>1 DEF Flow, Sound, InRange, SetDone, Leaving
  <2>3. Marks(c)[at[c]] = buf
    <3>1. buf_done \in [Buffers -> BOOLEAN] /\ buf_done' = [buf_done EXCEPT ![Marks(c)[at[c]]] = TRUE]
      BY <1>1, <2>1 DEF SetDone, TypeOK
    <3> QED
      BY <1>5, <3>1
  <2>4. CASE \E k \in DOMAIN Outs[c] : buf = Outs[c][k]
    <3>1. Writer(buf) = c
      BY <2>4, OutputFacts
    <3> QED
      BY <1>3, <2>2, <3>1 DEF MarkedBy
  <2>5. CASE \E k \in DOMAIN Ins[c] : buf = Ins[c][k]
    <3>1. PICK k \in DOMAIN Ins[c] : buf = Ins[c][k]
      BY <2>5
    <3>2. <<c, k>> \in PortsOf(buf) /\ <<c, k>>[1] = c
      BY <3>1, InputFacts
    <3> QED
      BY <1>3, <2>2, <3>2 DEF MarkedBy
  <2> QED
    BY <2>2, <2>3, <2>4, <2>5, MarksFacts
<1> QED
  BY <1>4, <1>5 DEF MarkedBy

(* A block that still reads finds its input done: the writer did it.       *)
LEMMA FoundDone ==
  ASSUME ReadByOneBlock, NEW port \in Ports, MarkedBy(Source(port)),
         buf_done[Source(port)], why[port[1]] = "running"
  PROVE  why[Writer(Source(port))] # "running"
<1>1. Source(port) \in Buffers /\ port \in PortsOf(Source(port))
  BY PortFacts, ReaderFacts
<1>2. \A other \in PortsOf(Source(port)) : other[1] = port[1]
  BY <1>1 DEF ReadByOneBlock
<1> QED
  BY <1>2 DEF MarkedBy

(* What a thread has sampled is kept or forgotten, or grows by one input.  *)
LEMMA SeenMoves ==
  ASSUME Flow, NEW c \in Blocks, Thread(c), NEW b \in Blocks
  PROVE  \/ seen'[b] = seen[b] \/ seen'[b] = << >>
         \/ /\ b = c /\ pc[b] = "input" /\ UNCHANGED backlog
            /\ <<b, at[b]>> \in Ports /\ at[b] \in DOMAIN Ins[b] /\ at[b] = Len(seen[b]) + 1
            /\ seen'[b] = Append(seen[b], [items |-> backlog[<<b, at[b]>>],
                                           done |-> buf_done[Source(<<b, at[b]>>)]])
<1>1. TypeOK
  BY DEF Flow
<1>2. CASE b # c
  BY <1>1, <1>2, OthersStill DEF Still
<1>3. CASE b = c /\ SampleInput(b)
  <2>1. /\ pc[b] = "input" /\ at[b] \in DOMAIN Ins[b] /\ Len(seen[b]) = at[b] - 1
        /\ at[b] \in Nat /\ UNCHANGED backlog
    BY <1>1, <1>3 DEF SampleInput, Flow, Sound, InRange, Sampled, streams, TypeOK
  <2>2. <<b, at[b]>> \in Ports /\ at[b] = Len(seen[b]) + 1
    BY <1>1, <2>1, InputFacts, SeenFacts
  <2>3. \/ GiveUp(b, "input")
        \/ seen' = [seen EXCEPT ![b] = Append(@, [items |-> backlog[<<b, at[b]>>],
                                                  done |-> buf_done[Source(<<b, at[b]>>)]])]
    BY <1>3 DEF SampleInput
  <2>4. seen \in [Blocks -> Seq([items : Nat, done : BOOLEAN])]
    BY <1>1 DEF TypeOK
  <2> QED
    BY <1>3, <2>1, <2>2, <2>3, <2>4 DEF GiveUp, Forget
<1>4. CASE b = c /\ ~SampleInput(b)
  <2> USE <1>1, <1>4 DEF TypeOK, Goto, GiveUp, Forget, locals
  <2>1. CASE ClearChanged(b) \/ SetDone(b) \/ Notify(b) \/ Wake(b) \/ Interrupted(b)
    BY <2>1 DEF ClearChanged, SetDone, Notify, Wake, Interrupted
  <2>2. CASE SampleOutput(b)
    BY <2>2 DEF SampleOutput
  <2>3. CASE Work(b)
    BY <2>3 DEF Work
  <2>4. CASE Consume(b) \/ Produce(b)
    BY <2>4 DEF Consume, Produce, NotifyFrom
  <2> QED
    BY <2>1, <2>2, <2>3, <2>4 DEF Thread
<1> QED
  BY <1>2, <1>3, <1>4

LEMMA CompleteKept ==
  ASSUME Flow, ReadByOneBlock, Spent, NEW c \in Blocks, Thread(c), NEW b \in Blocks
  PROVE  Complete(b)'
<1>1. TypeOK /\ TypeOK'
  <2>1. [Next]_vars
    BY DEF Next
  <2> QED
    BY <2>1, FlowKept DEF Flow
<1>2. \A i \in 1..Len(seen[b]) : i \in DOMAIN Ins[b]
  BY <1>1, SeenFacts, EndsOfLoops DEF Flow, Sound, Sampled
<1>3. ASSUME NEW i \in 1..Len(seen[b]), seen[b][i].done
      PROVE  why'[Writer(Ins[b][i])] # "running" /\ backlog'[<<b, i>>] <= seen[b][i].items
  <2>1. /\ <<b, i>> \in Ports /\ Source(<<b, i>>) = Ins[b][i] /\ Ins[b][i] \in Buffers
        /\ seen[b][i].items \in Nat
    BY <1>1, <1>2, InputFacts, SeenFacts
  <2>2. why[Writer(Ins[b][i])] # "running" /\ backlog[<<b, i>>] <= seen[b][i].items
    BY <1>3 DEF Spent, Complete
  <2>3. Writer(Ins[b][i]) \in Blocks
    BY <2>1, WriterFacts
  <2>4. why'[Writer(Ins[b][i])] # "running" /\ backlog'[<<b, i>>] <= backlog[<<b, i>>]
    BY <1>1, <2>1, <2>2, <2>3, ReasonStays, EndedStreams DEF Spent
  <2>5. backlog[<<b, i>>] \in Nat /\ backlog'[<<b, i>>] \in Nat
    BY <1>1, <2>1 DEF TypeOK
  <2> QED
    BY <2>1, <2>2, <2>4, <2>5
<1>4. CASE seen'[b] = seen[b]
  BY <1>3, <1>4 DEF Complete
<1>5. CASE seen'[b] = << >>
  BY <1>5 DEF Complete
<1>6. CASE seen'[b] # seen[b] /\ seen'[b] # << >>
  <2> DEFINE port == <<b, at[b]>>
             in == [items |-> backlog[port], done |-> buf_done[Source(port)]]
             k == at[b]
  <2>1. /\ b = c /\ pc[b] = "input" /\ UNCHANGED backlog
        /\ port \in Ports /\ k \in DOMAIN Ins[b] /\ k = Len(seen[b]) + 1
        /\ seen'[b] = Append(seen[b], in)
    BY <1>6, SeenMoves
  <2>2. seen[b] \in Seq([items : Nat, done : BOOLEAN]) /\ Len(seen[b]) \in Nat
    BY <1>1, SeenFacts
  <2>3. Source(port) = Ins[b][k] /\ Ins[b][k] \in Buffers
    BY <2>1, InputFacts
  <2>4. backlog[port] \in Nat /\ in.items = backlog[port] /\ in.done = buf_done[Source(port)]
    BY <1>1, <2>1 DEF TypeOK
  <2>5. in.done => why'[Writer(Ins[b][k])] # "running"
    <3> SUFFICES ASSUME in.done PROVE why'[Writer(Ins[b][k])] # "running"
      OBVIOUS
    <3>1. MarkedBy(Source(port)) /\ why[b] = "running" /\ port[1] = b
      BY <2>1, <2>3 DEF Spent, Leaving
    <3>2. why[Writer(Ins[b][k])] # "running"
      BY <2>1, <2>3, <2>4, <3>1, FoundDone
    <3>3. Writer(Ins[b][k]) \in Blocks
      BY <2>3, WriterFacts
    <3> QED
      BY <1>1, <3>2, <3>3, ReasonStays DEF Spent
  <2> HIDE DEF in
  <2>6. /\ Len(seen'[b]) = k
        /\ \A i \in 1..k : seen'[b][i] = IF i = k THEN in ELSE seen[b][i]
    BY <2>1, <2>2
  <2>7. ASSUME NEW i \in 1..k, seen'[b][i].done
        PROVE  why'[Writer(Ins[b][i])] # "running" /\ backlog'[<<b, i>>] <= seen'[b][i].items
    <3>1. CASE i = k
      <4>1. seen'[b][i] = in /\ in.done
        BY <2>6, <2>7, <3>1
      <4>2. backlog'[<<b, i>>] = backlog[port] /\ backlog[port] <= in.items
        BY <2>1, <2>4, <3>1
      <4> QED
        BY <2>5, <3>1, <4>1, <4>2
    <3>2. CASE i # k
      <4>1. i \in 1..Len(seen[b]) /\ seen'[b][i] = seen[b][i]
        BY <2>1, <2>2, <2>6, <3>2
      <4> QED
        BY <1>3, <2>7, <4>1
    <3> QED
      BY <3>1, <3>2
  <2> QED
    BY <2>6, <2>7 DEF Complete
<1> QED
  BY <1>4, <1>5, <1>6

LEMMA UsedUpKept ==
  ASSUME Flow, ReadByOneBlock, SinksDoNotInterpolate, BuffersHoldACall, Spent,
         NEW c \in Blocks, Thread(c), NEW b \in Blocks
  PROVE  UsedUp(b)'
<1> DEFINE need == Forecast(Rate[b], Rate[b].multiple)
<1>1. TypeOK /\ TypeOK'
  <2>1. [Next]_vars
    BY DEF Next
  <2> QED
    BY <2>1, FlowKept DEF Flow
<1>2. need \in Int /\ Rate[b] \in Descriptions
  <2>1. Rate[b] \in Descriptions /\ Rate[b].multiple \in Nat
    BY ParFacts DEF Descriptions, Positive
  <2> QED
    BY <2>1, ForecastIsInt
<1> HIDE DEF need
<1>3. ASSUME NEW port \in Ports, port[1] = b,
             why[Writer(Source(port))] # "running", backlog[port] < need
      PROVE  UsedUp(b)'
  <2>1. Writer(Source(port)) \in Blocks
    BY PortFacts, WriterFacts
  <2>2. why'[Writer(Source(port))] # "running" /\ backlog'[port] <= backlog[port]
    BY <1>1, <1>3, <2>1, ReasonStays, EndedStreams DEF Spent
  <2>3. backlog[port] \in Nat /\ backlog'[port] \in Nat
    BY <1>1 DEF TypeOK
  <2>4. backlog'[port] < need
    BY <1>2, <1>3, <2>2, <2>3
  <2> QED
    BY <1>3, <2>2, <2>4 DEF UsedUp, need
<1>4. CASE why[b] = "input"
  <2>1. PICK port \in Ports : /\ port[1] = b /\ why[Writer(Source(port))] # "running"
                              /\ backlog[port] < need
    BY <1>4 DEF Spent, UsedUp, need
  <2> QED
    BY <1>3, <2>1
<1>5. CASE why[b] # "input" /\ why'[b] # "input"
  BY <1>5 DEF UsedUp
<1>6. CASE why[b] # "input" /\ why'[b] = "input"
  <2>1. why[b] = "running" /\ b = c
    BY <1>1, <1>6, ReasonStays DEF Spent
  <2>2. \/ SampleInput(b)
        \/ Work(b) /\ Verdict(b).result = "done"
    <3>1. ~UNCHANGED why
      BY <1>6
    <3>2. Thread(b)
      BY <2>1
    <3>3. CASE SampleOutput(b)
      <4>1. GiveUp(b, "output")
        BY <3>1, <3>3 DEF SampleOutput
      <4>2. why'[b] = "output"
        BY <1>1, <4>1 DEF GiveUp, TypeOK
      <4> QED
        BY <1>6, <4>2
    <3>4. CASE Work(b) /\ Verdict(b).result # "done"
      <4>1. GiveUp(b, "work")
        BY <3>1, <3>4 DEF Work
      <4>2. why'[b] = "work"
        BY <1>1, <4>1 DEF GiveUp, TypeOK
      <4> QED
        BY <1>6, <4>2
    <3>5. ~ClearChanged(b) /\ ~Consume(b) /\ ~Produce(b) /\ ~SetDone(b) /\ ~Notify(b)
          /\ ~Wake(b) /\ ~Interrupted(b)
      BY <3>1 DEF ClearChanged, Consume, Produce, SetDone, Notify, Wake, Interrupted, ends
    <3> QED
      BY <3>2, <3>3, <3>4, <3>5 DEF Thread
  <2>3. CASE SampleInput(b)
    <3> DEFINE port == <<b, at[b]>>
               in == [items |-> backlog[port], done |-> buf_done[Source(port)]]
    <3>1. pc[b] = "input" /\ at[b] \in DOMAIN Ins[b]
      BY <2>3 DEF SampleInput, Flow, Sound, InRange
    <3>2. port \in Ports /\ Source(port) \in Buffers /\ port[1] = b
      BY <3>1, InputFacts
    <3>3. IsSink(b) /\ InputExhausted(Par[b], in)
      <4>1. ~UNCHANGED why
        BY <1>6
      <4> QED
        BY <2>3, <4>1 DEF SampleInput
    <3>4. backlog[port] < Rate[b].multiple /\ buf_done[Source(port)]
      BY <3>3, ParFacts DEF InputExhausted
    <3>5. why[Writer(Source(port))] # "running"
      BY <2>1, <3>2, <3>4, FoundDone DEF Spent
    <3>6. Rate[b].multiple <= need
      <4>1. /\ Rate[b].up = 1 /\ Rate[b].multiple \in Nat /\ Rate[b].down \in Nat
            /\ Rate[b].down >= 1 /\ Rate[b].history \in Nat /\ Rate[b].history >= 1
        BY <1>2, <3>3 DEF SinksDoNotInterpolate, Descriptions, Positive
      <4>2. /\ 1 * Rate[b].multiple <= Rate[b].down * Rate[b].multiple
            /\ Rate[b].multiple * Rate[b].down \in Nat
            /\ Rate[b].down * Rate[b].multiple = Rate[b].multiple * Rate[b].down
        BY <4>1, TimesMonotone
      <4>3. (Rate[b].multiple * Rate[b].down) \div 1 = Rate[b].multiple * Rate[b].down
        BY <4>2
      <4>4. need = Rate[b].multiple * Rate[b].down + Rate[b].history - 1
        BY <4>1, <4>3 DEF need, Forecast
      <4> QED
        BY <4>1, <4>2, <4>4
    <3>7. backlog[port] \in Nat /\ Rate[b].multiple \in Nat
      BY <1>1, <1>2, <3>2 DEF TypeOK, Descriptions, Positive
    <3>8. backlog[port] < need
      BY <1>2, <3>4, <3>6, <3>7
    <3> HIDE DEF port
    <3> QED
      BY <1>3, <3>2, <3>5, <3>8
  <2>4. CASE Work(b) /\ Verdict(b).result = "done"
    <3>1. PICK i \in 1..Len(seen[b]) : i \in DOMAIN Ins[b] /\ seen[b][i].done
                                       /\ seen[b][i].items < need
      BY <2>4, VerdictEnds DEF Work, need
    <3>2. <<b, i>> \in Ports /\ Source(<<b, i>>) = Ins[b][i] /\ <<b, i>>[1] = b
      BY <3>1, InputFacts
    <3>3. why[Writer(Ins[b][i])] # "running" /\ backlog[<<b, i>>] <= seen[b][i].items
      BY <3>1 DEF Spent, Complete
    <3>4. backlog[<<b, i>>] \in Nat /\ seen[b][i].items \in Nat
      BY <1>1, <3>2, SeenFacts DEF TypeOK
    <3>5. backlog[<<b, i>>] < need
      BY <1>2, <3>1, <3>3, <3>4
    <3> QED
      BY <1>3, <3>2, <3>3, <3>5
  <2> QED
    BY <2>2, <2>3, <2>4
<1> QED
  BY <1>4, <1>5, <1>6

LEMMA SpentAtInit ==
  ASSUME Init
  PROVE  Spent
<1>1. ASSUME NEW b \in Blocks
      PROVE  Leaving(b) /\ Complete(b) /\ UsedUp(b)
  BY DEF Init, Leaving, Complete, UsedUp
<1>2. ASSUME NEW buf \in Buffers
      PROVE  MarkedBy(buf)
  BY DEF Init, MarkedBy
<1> QED
  BY <1>1, <1>2 DEF Spent

LEMMA SpentKept ==
  ASSUME Flow, ReadByOneBlock, SinksDoNotInterpolate, BuffersHoldACall, Spent, [Next]_vars
  PROVE  Spent'
<1>1. ASSUME NEW c \in Blocks, Thread(c)
      PROVE  Spent'
  <2>1. ASSUME NEW b \in Blocks
        PROVE  Leaving(b)' /\ Complete(b)' /\ UsedUp(b)'
    BY <1>1, LeavingKept, CompleteKept, UsedUpKept DEF Spent
  <2>2. ASSUME NEW buf \in Buffers
        PROVE  MarkedBy(buf)'
    BY <1>1, MarkedByKept DEF Spent
  <2> QED
    BY <2>1, <2>2 DEF Spent
<1>2. CASE UNCHANGED <<streams, flags, ends, made, pc, at, locals>>
  BY <1>2 DEF Spent, Leaving, Complete, UsedUp, MarkedBy, streams, ends, locals
<1>3. CASE Stop
  BY <1>2, <1>3 DEF Stop
<1>4. CASE UNCHANGED vars
  BY <1>2, <1>4 DEF vars
<1> QED
  BY <1>1, <1>3, <1>4 DEF Next, Joined

(***************************************************************************)
(* No stream is cut short.  Where each buffer is read by one block, what   *)
(* ends a block for want of input is that the block upstream has ended,    *)
(* and what it left is too little for one call of work; for any graph of   *)
(* such buffers, any rates, and any interleaving of the threads.           *)
(***************************************************************************)
THEOREM StreamsEndWhole ==
  ASSUME SourcesMayAsk, ReadByOneBlock, SinksDoNotInterpolate, BuffersHoldACall
  PROVE  Spec => []StreamsFlowToTheEnd
<1>1. Init => Flow /\ Spent
  BY FlowAtInit, SpentAtInit
<1>2. Flow /\ Spent /\ [Next]_vars => Flow' /\ Spent'
  BY FlowKept, SpentKept
<1>3. Spent => EndOfStream
  BY DEF Spent, UsedUp, EndOfStream
<1>4. Spec => []EndOfStream
  BY <1>1, <1>2, <1>3, PTL DEF Spec
<1>5. StreamsFlow /\ EndOfStream => StreamsFlowToTheEnd
  BY DEF StreamsFlowToTheEnd
<1> QED
  BY <1>4, <1>5, StreamsKeepFlowing, PTL
=============================================================================
