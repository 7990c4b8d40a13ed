-------------------------- MODULE BlockCallsProofs --------------------------
(***************************************************************************)
(* The executor's bookkeeping over any sequence of calls, for every kind   *)
(* of block: rates, history, multiple, limits and sizes of buffers.  The   *)
(* flags of alignment tell the truth from one call to the next because     *)
(* every pass of try_again that is tried again finds and leaves them true, *)
(* and a request is never rounded up past its room because it starts from  *)
(* a multiple of the vector.                                               *)
(***************************************************************************)
EXTENDS BlockCalls, WellFoundedInduction, TLAPS

-----------------------------------------------------------------------------
(***************************************************************************)
(* The arithmetic of the executor, for every block and every amount of     *)
(* input and room: what its rounding does, that halving a request comes to *)
(* an end, and what the request it settles on is bound by.                 *)
(***************************************************************************)

(* Least and greatest elements.                                            *)
LEMMA NatLeast ==
  ASSUME NEW S, S \subseteq Nat, S # {}
  PROVE  \E x \in S : \A y \in S : x <= y
<1>1. PICK x \in S : \A y \in S : ~(<<y, x>> \in OpToRel(<, Nat))
  BY NatLessThanWellFounded, WFMin
<1>2. \A y \in S : <<y, x>> \in Nat \X Nat /\ <<y, x>>[1] = y /\ <<y, x>>[2] = x
  OBVIOUS
<1>3. \A y \in S : ~(y < x)
  <2> SUFFICES ASSUME NEW y \in S, y < x PROVE FALSE
    OBVIOUS
  <2>1. <<y, x>>[1] < <<y, x>>[2]
    BY <1>2
  <2> QED
    BY <1>1, <1>2, <2>1, Zenon DEF OpToRel
<1> QED
  BY <1>3

LEMMA GreatestOfFamily ==
  ASSUME NEW n \in Nat, n > 0, NEW f, \A i \in 1..n : f[i] \in Int
  PROVE  \E i \in 1..n : \A j \in 1..n : f[j] <= f[i]
<1> DEFINE Has(k) == \E i \in 1..k : \A j \in 1..k : f[j] <= f[i]
           Bad == {k \in 1..n : ~Has(k)}
<1>1. Has(1)
  BY 1 \in 1..n
<1>2. ASSUME NEW k \in Nat, k > 0, k + 1 \in 1..n, Has(k)
      PROVE  Has(k + 1)
  <2>1. PICK i \in 1..k : \A j \in 1..k : f[j] <= f[i]
    BY <1>2
  <2>2. \A j \in 1..(k + 1) : f[j] \in Int /\ (j = k + 1 \/ j \in 1..k)
    BY <1>2
  <2>3. CASE f[k + 1] <= f[i]
    <3>1. i \in 1..(k + 1) /\ \A j \in 1..(k + 1) : f[j] <= f[i]
      BY <2>1, <2>2, <2>3
    <3> QED
      BY <3>1
  <2>4. CASE ~(f[k + 1] <= f[i])
    <3>1. i \in 1..(k + 1) /\ k + 1 \in 1..(k + 1)
      BY <1>2
    <3>2. \A j \in 1..(k + 1) : f[j] <= f[k + 1]
      BY <2>1, <2>2, <2>4, <3>1
    <3> QED
      BY <3>1, <3>2
  <2> QED
    BY <2>3, <2>4
<1> HIDE DEF Has
<1>3. Bad = {}
  <2> SUFFICES ASSUME Bad # {} PROVE FALSE
    OBVIOUS
  <2>1. PICK k \in Bad : \A y \in Bad : k <= y
    <3>1. Bad \subseteq Nat
      OBVIOUS
    <3> HIDE DEF Bad
    <3> QED
      BY <3>1, NatLeast
  <2>2. k \in 1..n /\ k # 1 /\ ~Has(k)
    BY <1>1, <2>1
  <2>3. k - 1 \in 1..n /\ k - 1 \notin Bad
    BY <2>1, <2>2
  <2>4. Has((k - 1) + 1)
    BY <1>2, <2>2, <2>3
  <2> QED
    BY <2>2, <2>4
<1>4. Has(n)
  BY <1>3
<1> QED
  BY <1>4 DEF Has

-----------------------------------------------------------------------------
(* Division by a positive number.                                          *)
LEMMA Quotient ==
  ASSUME NEW x \in Int, NEW m \in Positive
  PROVE  /\ x \div m \in Int
         /\ (x \div m) * m <= x /\ x < (x \div m) * m + m
BY Z3 DEF Positive

LEMMA TimesMonotone ==
  ASSUME NEW j \in Int, NEW k \in Int, NEW m \in Nat, j <= k
  PROVE  j * m <= k * m
BY Z3

LEMMA TimesOrder ==
  ASSUME NEW j \in Int, NEW k \in Int, NEW m \in Nat, j * m < k * m
  PROVE  j < k
<1>1. CASE k <= j
  BY <1>1, TimesMonotone, Z3
<1> QED
  BY <1>1

LEMMA QuotientAtLeast ==
  ASSUME NEW x \in Int, NEW m \in Positive, NEW k \in Int, k * m <= x
  PROVE  k <= x \div m
<1>1. x < ((x \div m) + 1) * m /\ x \div m \in Int
  BY Quotient, Z3 DEF Positive
<1>2. k * m < ((x \div m) + 1) * m
  BY <1>1, Z3 DEF Positive
<1> QED
  BY <1>1, <1>2, TimesOrder DEF Positive

LEMMA QuotientAtMost ==
  ASSUME NEW x \in Int, NEW m \in Positive, NEW k \in Int, x < (k + 1) * m
  PROVE  x \div m <= k
<1>1. (x \div m) * m <= x /\ x \div m \in Int
  BY Quotient
<1>2. (x \div m) * m < (k + 1) * m
  BY <1>1, Z3 DEF Positive
<1>3. x \div m < k + 1
  BY <1>1, <1>2, TimesOrder DEF Positive
<1> QED
  BY <1>1, <1>3

LEMMA QuotientMonotone ==
  ASSUME NEW x \in Int, NEW y \in Int, NEW m \in Positive, x <= y
  PROVE  x \div m <= y \div m
<1>1. x \div m \in Int /\ (x \div m) * m <= x
  BY Quotient
<1>2. (x \div m) * m <= y
  BY <1>1, Z3 DEF Positive
<1> QED
  BY <1>1, <1>2, QuotientAtLeast

LEMMA QuotientIsNat ==
  ASSUME NEW x \in Nat, NEW m \in Positive
  PROVE  x \div m \in Nat
BY Quotient, QuotientAtLeast, Z3 DEF Positive

(* Rounding.                                                               *)
LEMMA RoundDownBounds ==
  ASSUME NEW x \in Int, NEW m \in Positive
  PROVE  RoundDown(x, m) \in Int /\ RoundDown(x, m) <= x /\ x < RoundDown(x, m) + m
BY Quotient, Z3 DEF RoundDown, Positive

LEMMA RoundUpBounds ==
  ASSUME NEW x \in Int, NEW m \in Positive
  PROVE  RoundUp(x, m) \in Int /\ x <= RoundUp(x, m) /\ RoundUp(x, m) < x + m
<1>1. x + m - 1 \in Int
  BY DEF Positive
<1> QED
  BY <1>1, Quotient, Z3 DEF RoundUp, Positive

LEMMA RoundUpAtMost ==
  ASSUME NEW x \in Int, NEW m \in Positive, NEW k \in Int, x <= k * m
  PROVE  RoundUp(x, m) <= k * m
<1>1. x + m - 1 \in Int /\ x + m - 1 < (k + 1) * m
  BY Z3 DEF Positive
<1>2. (x + m - 1) \div m <= k /\ (x + m - 1) \div m \in Int
  BY <1>1, Quotient, QuotientAtMost
<1> QED
  BY <1>2, TimesMonotone DEF RoundUp, Positive

(* A request that was rounded up and halved is less than it was.           *)
LEMMA HalvingDescends ==
  ASSUME NEW p \in Descriptions, NEW n \in Nat, NEW r \in Int,
         r > p.multiple, r <= RoundUp(n, p.multiple)
  PROVE  Halved(p, r) \in Nat /\ Halved(p, r) < n
<1> DEFINE m == p.multiple
           q == (n + m - 1) \div m
<1>1. m \in Positive /\ m \in Nat /\ m > 0 /\ n + m - 1 \in Int
  BY DEF Descriptions, Positive
<1>2. q \in Int /\ q * m <= n + m - 1 /\ RoundUp(n, m) = q * m
  BY <1>1, Quotient DEF RoundUp
<1> HIDE DEF q, m
<1>3. r \in Int /\ m < r /\ r <= q * m
  BY <1>2 DEF m
<1>4. 1 * m < q * m
  BY <1>1, <1>2, <1>3
<1>5. 1 < q
  BY <1>1, <1>2, <1>4, TimesOrder
<1>6. (q - 1) * m < n
  BY <1>1, <1>2, Z3
<1>7. q * m <= 2 * ((q - 1) * m)
  <2>1. q * m <= (2 * (q - 1)) * m
    BY <1>1, <1>2, <1>5, TimesMonotone
  <2>2. (2 * (q - 1)) * m = 2 * ((q - 1) * m)
    BY <1>1, <1>2, Z3
  <2> QED
    BY <2>1, <2>2
<1>8. r \div 2 <= (q - 1) * m /\ r \div 2 \in Int /\ 0 <= r \div 2
  <2>1. (q - 1) * m \in Int
    BY <1>1, <1>2
  <2> QED
    BY <1>1, <1>2, <1>3, <1>7, <2>1
<1>9. RoundUp(r \div 2, m) <= (q - 1) * m
  BY <1>1, <1>2, <1>8, RoundUpAtMost
<1>10. RoundUp(r \div 2, m) \in Int /\ r \div 2 <= RoundUp(r \div 2, m)
  BY <1>1, <1>8, RoundUpBounds
<1>11. RoundUp(r \div 2, m) \in Nat /\ RoundUp(r \div 2, m) < n
  <2>1. (q - 1) * m \in Int
    BY <1>1, <1>2
  <2> QED
    BY <1>6, <1>8, <1>9, <1>10, <2>1
<1> QED
  BY <1>11 DEF Halved, m

-----------------------------------------------------------------------------
(***************************************************************************)
(* One pass.                                                               *)
(***************************************************************************)
LEMMA MaxItemsAvailIsNat ==
  ASSUME NEW n \in Nat, n > 0, NEW s, \A i \in 1..n : s[i].items \in Nat
  PROVE  MaxItemsAvail({s[i] : i \in 1..n}) \in Nat
<1> DEFINE f == [i \in 1..n |-> s[i].items]
           ins == {s[i] : i \in 1..n}
<1>1. PICK i \in 1..n : \A j \in 1..n : f[j] <= f[i]
  <2>1. \A j \in 1..n : f[j] \in Int
    OBVIOUS
  <2> HIDE DEF f
  <2> QED
    BY <2>1, GreatestOfFamily
<1>2. s[i].items \in {in.items : in \in ins} /\ \A in \in ins : in.items <= s[i].items
  BY <1>1
<1>3. MaxItemsAvail(ins) \in {in.items : in \in ins}
  <2> HIDE DEF ins
  <2> QED
    BY <1>2 DEF MaxItemsAvail
<1> QED
  BY <1>3

LEMMA RateLimits ==
  ASSUME NEW p \in Descriptions, NEW avail \in Nat, NEW n \in Nat
  PROVE  RateLimited(p, avail, n) \in 0..n
<1> DEFINE all  == NinputToNoutput(p, avail)
           reqd == IF p.multiple_set THEN RoundDown(all, p.multiple) ELSE all
           max  == MaxNoutputItems(p)
<1>1. /\ p.multiple \in Positive /\ p.multiple \in Nat /\ p.up \in Nat /\ p.down \in Positive
      /\ p.history \in Nat /\ p.max_noutput \in Nat
  BY DEF Descriptions, Positive
<1>2. max \in Nat
  <2>1. p.max_noutput \div p.multiple \in Nat
    BY <1>1, QuotientIsNat
  <2> QED
    BY <1>1, <2>1 DEF MaxNoutputItems, RoundDown
<1>3. reqd \in Int
  <2>1. AtLeast(0, avail - p.history + 1) \in Nat
    BY <1>1 DEF AtLeast
  <2>2. AtLeast(0, avail - p.history + 1) \div p.down \in Nat
    BY <1>1, <2>1, QuotientIsNat
  <2>3. all \in Int
    BY <1>1, <2>2 DEF NinputToNoutput
  <2> QED
    BY <1>1, <2>3, RoundDownBounds
<1> HIDE DEF all, max, reqd
<1> QED
  BY <1>1, <1>2, <1>3 DEF RateLimited, AtMost, AtLeast, all, max, reqd

LEMMA AlignedBounds ==
  ASSUME NEW p \in Descriptions, NEW from \in Alignments(p), NEW n \in Nat
  PROVE  LET r == Aligned(p, from, n)
         IN /\ r.n \in Int /\ r.n <= RoundUp(n, p.multiple)
            /\ r.al \in Alignments(p)
<1>1. p.multiple \in Positive /\ p.multiple \in Nat /\ p.multiple_set \in BOOLEAN
  BY DEF Descriptions, Positive
<1>2. from.unaligned \in 0..p.multiple /\ from.is_unaligned \in BOOLEAN
  BY DEF Alignments
<1>3. RoundUp(n, p.multiple) \in Int /\ n <= RoundUp(n, p.multiple)
  BY <1>1, RoundUpBounds
<1>4. RoundDown(n, p.multiple) \in Int /\ RoundDown(n, p.multiple) <= n
  BY <1>1, RoundDownBounds
<1>5. CASE p.multiple_set
  BY <1>1, <1>3, <1>5 DEF Aligned
<1>6. CASE ~p.multiple_set /\ from.is_unaligned /\ n >= from.unaligned
  <2>1. /\ Aligned(p, from, n).n = RoundUp(n, p.multiple) - (p.multiple - from.unaligned)
        /\ Aligned(p, from, n).al = from
    BY <1>1, <1>2, <1>6 DEF Aligned, ToVectorEnd
  <2> QED
    BY <1>1, <1>2, <1>3, <2>1
<1>7. CASE ~p.multiple_set /\ from.is_unaligned /\ n < from.unaligned
  BY <1>3, <1>7 DEF Aligned
<1>8. CASE ~p.multiple_set /\ ~from.is_unaligned /\ n < p.multiple
  <2>1. /\ Aligned(p, from, n).n = n
        /\ Aligned(p, from, n).al = [unaligned |-> p.multiple - n, is_unaligned |-> TRUE]
    BY <1>8 DEF Aligned
  <2> QED
    BY <1>1, <1>3, <1>8, <2>1 DEF Alignments
<1>9. CASE ~p.multiple_set /\ ~from.is_unaligned /\ ~(n < p.multiple)
  <2>1. /\ Aligned(p, from, n).n = RoundDown(n, p.multiple)
        /\ Aligned(p, from, n).al = [from EXCEPT !.is_unaligned = FALSE]
    BY <1>9 DEF Aligned
  <2>2. [from EXCEPT !.is_unaligned = FALSE] \in Alignments(p)
    BY <1>2 DEF Alignments
  <2> QED
    BY <1>3, <1>4, <2>1, <2>2
<1> QED
  BY <1>1, <1>2, <1>5, <1>6, <1>7, <1>8, <1>9

(* A pass that is tried again is tried with less.                          *)
LEMMA PassDescends ==
  ASSUME NEW p \in Descriptions, NEW ins, MaxItemsAvail(ins) \in Nat,
         NEW from \in Alignments(p), NEW n \in Nat,
         TryAgain(p, ins, Pass(p, from, ins, n))
  PROVE  LET r == Pass(p, from, ins, n)
         IN /\ Halved(p, r.n) \in Nat /\ Halved(p, r.n) < n
            /\ r.al \in Alignments(p)
<1> DEFINE l == RateLimited(p, MaxItemsAvail(ins), n)
           r == Pass(p, from, ins, n)
<1>1. l \in Nat /\ l <= n
  BY RateLimits
<1> HIDE DEF l
<1>2. r.n \in Int /\ r.n <= RoundUp(l, p.multiple) /\ r.al \in Alignments(p)
  BY <1>1, AlignedBounds DEF Pass, l
<1>3. r.n > p.multiple
  BY DEF TryAgain
<1> HIDE DEF r
<1>4. Halved(p, r.n) \in Nat /\ Halved(p, r.n) < l
  BY <1>1, <1>2, <1>3, HalvingDescends
<1> QED
  BY <1>1, <1>2, <1>4 DEF r

-----------------------------------------------------------------------------
(***************************************************************************)
(* The loop of try_again.  Its passes descend, so that there is a function *)
(* that does what Request says; and what it comes to is a pass that is not *)
(* tried again, from a state in any set that holds the first one and, with *)
(* a pass that is tried again, the next.                                   *)
(***************************************************************************)
Loop(p, ins, S, f) ==
  f = [s \in S |->
         IF TryAgain(p, ins, Pass(p, s[2], ins, s[1]))
         THEN f[<<Halved(p, Pass(p, s[2], ins, s[1]).n), Pass(p, s[2], ins, s[1]).al>>]
         ELSE Pass(p, s[2], ins, s[1])]

LEMMA LoopExists ==
  ASSUME NEW p \in Descriptions, NEW ins, MaxItemsAvail(ins) \in Nat, NEW start \in Nat
  PROVE  \E f : Loop(p, ins, (0..start) \X Alignments(p), f)
<1> DEFINE A == Alignments(p)
           P(s) == Pass(p, s[2], ins, s[1])
           Again(s) == TryAgain(p, ins, P(s))
           next(s) == <<Halved(p, P(s).n), P(s).al>>
           Has(k) == \E f : Loop(p, ins, (0..k) \X A, f)
           Bad == {k \in 0..start : ~Has(k)}
<1>1. ASSUME NEW k \in Nat, NEW s \in (0..k) \X A, Again(s)
      PROVE  next(s) \in Nat \X A /\ next(s)[1] < s[1]
  <2>1. s[1] \in Nat /\ s[2] \in A
    BY <1>1
  <2> QED
    BY <1>1, <2>1, PassDescends
<1> HIDE DEF A, P, Again, next
<1>2. \A k \in Nat : \A f : Loop(p, ins, (0..k) \X A, f) <=>
        f = [s \in (0..k) \X A |-> IF Again(s) THEN f[next(s)] ELSE P(s)]
  BY DEF Loop, Again, next, P
<1>3. Has(0)
  <2> DEFINE f == [s \in (0..0) \X A |-> P(s)]
  <2>1. \A s \in (0..0) \X A : ~Again(s)
    <3> SUFFICES ASSUME NEW s \in (0..0) \X A, Again(s) PROVE FALSE
      OBVIOUS
    <3>1. next(s)[1] \in Nat /\ next(s)[1] < s[1] /\ s[1] = 0
      BY <1>1
    <3> QED
      BY <3>1
  <2>2. f = [s \in (0..0) \X A |-> IF Again(s) THEN f[next(s)] ELSE P(s)]
    BY <2>1
  <2> QED
    BY <1>2, <2>2
<1>4. ASSUME NEW k \in Nat, Has(k)
      PROVE  Has(k + 1)
  <2>0. PICK f : Loop(p, ins, (0..k) \X A, f)
    BY <1>4
  <2>1. f = [s \in (0..k) \X A |-> IF Again(s) THEN f[next(s)] ELSE P(s)]
    BY <1>2, <2>0
  <2> DEFINE S == (0..k) \X A
             T == (0..(k + 1)) \X A
             g == [s \in T |-> IF Again(s) THEN f[next(s)] ELSE P(s)]
  <2>2. \A s \in T : Again(s) => next(s) \in S
    <3> SUFFICES ASSUME NEW s \in T, Again(s) PROVE next(s) \in S
      OBVIOUS
    <3>1. k + 1 \in Nat /\ s[1] \in 0..(k + 1)
      OBVIOUS
    <3>2. next(s) \in Nat \X A /\ next(s)[1] < s[1]
      BY <1>1, <3>1
    <3>3. next(s)[1] \in 0..k /\ next(s)[2] \in A /\ next(s) = <<next(s)[1], next(s)[2]>>
      BY <3>1, <3>2
    <3> QED
      BY <3>3
  <2>3. S \subseteq T /\ \A s \in S : f[s] = IF Again(s) THEN f[next(s)] ELSE P(s)
    BY <2>1
  <2> HIDE DEF S, T
  <2>4. \A s \in S : g[s] = f[s]
    BY <2>3
  <2>5. g = [s \in T |-> IF Again(s) THEN g[next(s)] ELSE P(s)]
    BY <2>2, <2>4
  <2> HIDE DEF g
  <2>6. k + 1 \in Nat
    OBVIOUS
  <2>7. Loop(p, ins, (0..(k + 1)) \X A, g)
    BY <1>2, <2>5, <2>6 DEF T
  <2> QED
    BY <2>7
<1> HIDE DEF Has
<1>5. Bad = {}
  <2> SUFFICES ASSUME Bad # {} PROVE FALSE
    OBVIOUS
  <2>1. PICK k \in Bad : \A y \in Bad : k <= y
    <3>1. Bad \subseteq Nat
      OBVIOUS
    <3> HIDE DEF Bad
    <3> QED
      BY <3>1, NatLeast
  <2>2. k \in 0..start /\ k # 0 /\ ~Has(k)
    BY <1>3, <2>1
  <2>3. k - 1 \in 0..start /\ k - 1 \notin Bad
    BY <2>1, <2>2
  <2>4. Has((k - 1) + 1)
    BY <1>4, <2>2, <2>3
  <2> QED
    BY <2>2, <2>4
<1>6. Has(start)
  BY <1>5
<1> QED
  BY <1>6 DEF Has, A

(* C is kept by going on to the next pass.                                 *)
Kept(p, ins, start, C) ==
  \A n \in 0..start, a \in Alignments(p) :
    <<n, a>> \in C /\ TryAgain(p, ins, Pass(p, a, ins, n)) =>
      <<Halved(p, Pass(p, a, ins, n).n), Pass(p, a, ins, n).al>> \in C

LEMMA RequestSettles ==
  ASSUME NEW p \in Descriptions, NEW ins, MaxItemsAvail(ins) \in Nat,
         NEW start \in Nat, NEW from \in Alignments(p),
         NEW C, C \subseteq (0..start) \X Alignments(p), <<start, from>> \in C,
         Kept(p, ins, start, C)
  PROVE  \E n \in 0..start, a \in Alignments(p) :
           /\ <<n, a>> \in C
           /\ Request(p, from, ins, start) = Pass(p, a, ins, n)
           /\ ~TryAgain(p, ins, Pass(p, a, ins, n))
<1> DEFINE A == Alignments(p)
           S == (0..start) \X A
           try == CHOOSE f : Loop(p, ins, S, f)
<1>1. Loop(p, ins, S, try)
  BY LoopExists
<1>2. Request(p, from, ins, start) = try[<<start, from>>]
  BY DEF Request, Loop
<1> HIDE DEF try
<1>3. \A n \in 0..start, a \in A :
        try[<<n, a>>] = IF TryAgain(p, ins, Pass(p, a, ins, n))
                        THEN try[<<Halved(p, Pass(p, a, ins, n).n), Pass(p, a, ins, n).al>>]
                        ELSE Pass(p, a, ins, n)
  <2> SUFFICES ASSUME NEW n \in 0..start, NEW a \in A
               PROVE  try[<<n, a>>] = IF TryAgain(p, ins, Pass(p, a, ins, n))
                        THEN try[<<Halved(p, Pass(p, a, ins, n).n), Pass(p, a, ins, n).al>>]
                        ELSE Pass(p, a, ins, n)
    OBVIOUS
  <2>1. <<n, a>> \in S /\ <<n, a>>[1] = n /\ <<n, a>>[2] = a
    OBVIOUS
  <2> HIDE DEF S
  <2> QED
    BY <1>1, <2>1 DEF Loop
<1> DEFINE T == {n \in 0..start : \E a \in A : <<n, a>> \in C /\
                                              try[<<n, a>>] = try[<<start, from>>]}
<1>4. PICK n \in T : \A k \in T : n <= k
  <2>1. T \subseteq Nat /\ start \in T
    OBVIOUS
  <2> HIDE DEF T
  <2> QED
    BY <2>1, NatLeast
<1>5. PICK a \in A : <<n, a>> \in C /\ try[<<n, a>>] = try[<<start, from>>]
  BY <1>4
<1>6. n \in 0..start
  BY <1>4
<1> DEFINE r == Pass(p, a, ins, n)
<1>7. ~TryAgain(p, ins, r)
  <2> SUFFICES ASSUME TryAgain(p, ins, r) PROVE FALSE
    OBVIOUS
  <2>1. Halved(p, r.n) \in Nat /\ Halved(p, r.n) < n /\ r.al \in A
    BY <1>6, PassDescends
  <2>2. Halved(p, r.n) \in 0..start
    BY <1>6, <2>1
  <2>3. <<Halved(p, r.n), r.al>> \in C
    BY <1>5, <1>6 DEF Kept
  <2>4. try[<<Halved(p, r.n), r.al>>] = try[<<start, from>>]
    BY <1>3, <1>5, <1>6
  <2>5. Halved(p, r.n) \in T
    BY <2>1, <2>2, <2>3, <2>4
  <2> DEFINE h == Halved(p, r.n)
  <2>6. h \in Nat /\ h < n /\ h \in T
    BY <2>1, <2>5
  <2> HIDE DEF h, T
  <2>7. n <= h
    BY <1>4, <2>6
  <2> QED
    BY <1>6, <2>6, <2>7
<1>8. Request(p, from, ins, start) = r
  BY <1>2, <1>3, <1>5, <1>6, <1>7
<1> QED
  BY <1>5, <1>6, <1>7, <1>8

(* When the first short input does not exist, no input is short.           *)
LEMMA NoFirstShort ==
  ASSUME NEW p, NEW n, NEW k \in Nat, NEW ins, DOMAIN ins = 1..k,
         FirstShort(p, ins, n) = {}
  PROVE  \A i \in 1..k : ~Short(p, ins[i], n)
<1> DEFINE S == {i \in 1..k : Short(p, ins[i], n)}
<1>1. S = {}
  <2> SUFFICES ASSUME S # {} PROVE FALSE
    OBVIOUS
  <2>1. PICK i \in S : \A j \in S : i <= j
    <3>1. S \subseteq Nat
      OBVIOUS
    <3> HIDE DEF S
    <3> QED
      BY <3>1, NatLeast
  <2>2. i \in 1..k /\ \A j \in 1..k : j < i => ~Short(p, ins[j], n)
    BY <2>1
  <2> QED
    BY <2>1, <2>2 DEF FirstShort
<1> QED
  BY <1>1

LEMMA ForecastIsInt ==
  ASSUME NEW p \in Descriptions, NEW n \in Nat
  PROVE  Forecast(p, n) \in Int /\ (n * p.down) \div p.up \in Nat
<1>1. /\ p.down \in Nat /\ p.up \in Positive /\ p.history \in Nat
      /\ n * p.down \in Nat
  BY DEF Descriptions, Positive
<1>2. (n * p.down) \div p.up \in Nat
  BY <1>1, QuotientIsNat
<1> QED
  BY <1>1, <1>2 DEF Forecast

LEMMA NotBlocking ==
  ASSUME NEW p \in Descriptions, NEW r \in Int, ~Blocking(p, r)
  PROVE  r \in Nat /\ r > 0
BY DEF Blocking, AtLeast, Descriptions

(* Making less takes less.                                                 *)
LEMMA LessTakesLess ==
  ASSUME NEW p \in Descriptions, NEW n \in Nat, NEW k \in 0..n
  PROVE  (k * p.down) \div p.up <= Forecast(p, n)
<1>1. /\ p.down \in Nat /\ p.up \in Positive /\ p.history \in Nat /\ p.history > 0
      /\ k \in Nat /\ n * p.down \in Int /\ k * p.down \in Int
  BY DEF Descriptions, Positive
<1>2. k * p.down <= n * p.down
  BY <1>1, TimesMonotone
<1>3. /\ (k * p.down) \div p.up <= (n * p.down) \div p.up
      /\ (n * p.down) \div p.up \in Int /\ (k * p.down) \div p.up \in Int
  BY <1>1, <1>2, QuotientMonotone, Quotient
<1> QED
  BY <1>1, <1>3 DEF Forecast

(* The limit of a block lets it work on one multiple, or is overruled, as  *)
(* it is for blocks of fixed rate with inputs and outputs                  *)
(* (block_executor.cc:330).                                                *)
LimitsAllowWork ==
  \A k \in Kinds : \/ k.blk.multiple <= k.blk.max_noutput
                   \/ k.blk.fixed_rate /\ k.ninputs > 0 /\ k.noutputs > 0

(* A block that asked for an alignment makes all it is asked for: what is  *)
(* left to the next vector is reckoned from the request, before the call   *)
(* (block_executor.cc:344-356).                                            *)
AlignedBlocksAreWhole ==
  \A k \in Kinds : k.blk.multiple_set \/ k.blk.multiple = 1 \/ k.whole

(* A sink takes its items one by one, or by the number.                    *)
SinksDoNotInterpolate ==
  \A k \in Kinds : k.noutputs = 0 => k.blk.up = 1

-----------------------------------------------------------------------------
(* Multiples and remainders.                                               *)
Multiples(m) == {j * m : j \in Nat}

LEMMA Remainder ==
  ASSUME NEW m \in Positive, NEW j \in Int, NEW r \in 0..m - 1
  PROVE  (j * m + r) % m = r
<1>1. j * m + r \in Int /\ m \in Nat /\ m > 0 /\ j * m \in Int /\ r \in Int
  BY Z3 DEF Positive
<1>2. (j * m + r) \div m = j
  <2>1. j * m <= j * m + r /\ j * m + r < (j + 1) * m
    BY <1>1, Z3
  <2> QED
    BY <1>1, <2>1, QuotientAtLeast, QuotientAtMost, Quotient
<1>3. (j * m + r) = ((j * m + r) \div m) * m + ((j * m + r) % m)
  BY <1>1, Z3
<1> QED
  BY <1>1, <1>2, <1>3, Z3

LEMMA RemainderInRange ==
  ASSUME NEW m \in Positive, NEW x \in Int
  PROVE  x % m \in 0..m - 1
BY Z3 DEF Positive

LEMMA MultipleFacts ==
  ASSUME NEW m \in Positive, NEW n \in Multiples(m)
  PROVE  /\ n \in Nat /\ n % m = 0
         /\ RoundUp(n, m) = n
         /\ n > 0 => m <= n
<1>1. PICK j \in Nat : n = j * m
  BY DEF Multiples
<1>2. m \in Nat /\ m > 0 /\ n \in Nat /\ n \in Int
  BY <1>1, Z3 DEF Positive
<1>3. n % m = 0
  <2>1. 0 \in 0..m - 1 /\ j * m + 0 = n
    BY <1>1, <1>2
  <2> QED
    BY <2>1, Remainder
<1>4. RoundUp(n, m) = n
  <2>1. j \in Int /\ n <= j * m
    BY <1>1, <1>2
  <2>2. RoundUp(n, m) <= j * m
    BY <1>2, <2>1, RoundUpAtMost
  <2>3. RoundUp(n, m) \in Int /\ n <= RoundUp(n, m)
    BY <1>2, RoundUpBounds
  <2> QED
    BY <1>1, <1>2, <2>2, <2>3
<1>5. n > 0 => m <= n
  <2> SUFFICES ASSUME n > 0 PROVE 1 * m <= j * m
    BY <1>1, <1>2
  <2>1. j # 0
    BY <1>1, <1>2
  <2> QED
    BY <1>2, <2>1, TimesMonotone
<1> QED
  BY <1>2, <1>3, <1>4, <1>5

LEMMA RoundedIsMultiple ==
  ASSUME NEW m \in Positive, NEW n \in Nat
  PROVE  /\ RoundDown(n, m) \in Multiples(m)
         /\ RoundUp(n, m) \in Multiples(m)
         /\ n >= m => RoundDown(n, m) >= m
         /\ n > 0 => RoundUp(n, m) >= m
<1>1. m \in Nat /\ m > 0 /\ n + m - 1 \in Nat
  BY DEF Positive
<1>2. n \div m \in Nat /\ (n + m - 1) \div m \in Nat
  BY <1>1, QuotientIsNat
<1>3. RoundDown(n, m) \in Multiples(m) /\ RoundUp(n, m) \in Multiples(m)
  BY <1>2 DEF RoundDown, RoundUp, Multiples
<1>4. n >= m => RoundDown(n, m) >= m
  <2>1. RoundDown(n, m) \in Nat /\ n < RoundDown(n, m) + m /\ (RoundDown(n, m) > 0 => m <= RoundDown(n, m))
    BY <1>3, MultipleFacts, RoundDownBounds
  <2> QED
    BY <1>1, <2>1
<1>5. n > 0 => RoundUp(n, m) >= m
  <2>1. RoundUp(n, m) \in Nat /\ n <= RoundUp(n, m) /\ (RoundUp(n, m) > 0 => m <= RoundUp(n, m))
    BY <1>3, MultipleFacts, RoundUpBounds
  <2> QED
    BY <1>1, <2>1
<1> QED
  BY <1>3, <1>4, <1>5

-----------------------------------------------------------------------------
(***************************************************************************)
(* One pass of try_again.                                                  *)
(***************************************************************************)
(* The flags say how far the output is from the end of its vector.         *)
Tracked(p, flags, done) ==
  done = IF flags.is_unaligned THEN p.multiple - flags.unaligned ELSE 0

(* What is left of a vector is not nothing.                                *)
Proper(flags) == flags.is_unaligned => flags.unaligned > 0

(* A limit of this block lets it work.                                     *)
MayWork(p) == p.fixed_rate \/ p.multiple <= p.max_noutput

LEMMA MultipleIsPositive ==
  ASSUME NEW p \in Descriptions
  PROVE  /\ p.multiple \in Positive /\ p.multiple \in Nat /\ p.multiple > 0
         /\ p.up \in Positive /\ p.up \in Nat /\ p.down \in Positive /\ p.down \in Nat
         /\ p.history \in Nat /\ p.history > 0 /\ p.max_noutput \in Nat /\ p.min_noutput \in Nat
         /\ p.multiple_set \in BOOLEAN
BY DEF Descriptions, Positive

LEMMA LimitFacts ==
  ASSUME NEW p \in Descriptions
  PROVE  /\ MaxNoutputItems(p) \in Multiples(p.multiple) /\ MaxNoutputItems(p) \in Nat
         /\ p.multiple <= p.max_noutput => MaxNoutputItems(p) >= p.multiple
<1>1. p.multiple \in Positive /\ p.max_noutput \in Nat
  BY MultipleIsPositive
<1> QED
  BY <1>1, RoundedIsMultiple, MultipleFacts DEF MaxNoutputItems

LEMMA RateKeepsMultiples ==
  ASSUME NEW p \in Descriptions, NEW avail \in Nat, NEW n \in Multiples(p.multiple)
  PROVE  /\ RateLimited(p, avail, n) \in 0..n
         /\ p.multiple_set => RateLimited(p, avail, n) \in Multiples(p.multiple)
         /\ MayWork(p) /\ n > 0 => RateLimited(p, avail, n) > 0
<1> DEFINE m    == p.multiple
           all  == NinputToNoutput(p, avail)
           reqd == IF p.multiple_set THEN RoundDown(all, m) ELSE all
           max  == MaxNoutputItems(p)
<1>1. m \in Positive /\ m \in Nat /\ m > 0 /\ n \in Nat
  BY MultipleIsPositive, MultipleFacts
<1>2. RateLimited(p, avail, n) \in 0..n
  BY <1>1, RateLimits
<1>3. max \in Multiples(m) /\ max \in Nat /\ (m <= p.max_noutput => max >= m)
  BY LimitFacts
<1>4. all \in Nat
  <2>1. /\ p.down \in Positive /\ p.up \in Nat /\ p.history \in Nat
        /\ AtLeast(0, avail - p.history + 1) \in Nat
    BY MultipleIsPositive DEF AtLeast
  <2>2. AtLeast(0, avail - p.history + 1) \div p.down \in Nat
    BY <2>1, QuotientIsNat
  <2> HIDE DEF max
  <2> QED
    BY <2>1, <2>2, Z3 DEF NinputToNoutput
<1>5. p.multiple_set => reqd \in Multiples(m)
  BY <1>1, <1>4, RoundedIsMultiple
<1>6. reqd \in Int
  BY <1>1, <1>4, RoundDownBounds
<1>7. m \in Multiples(m)
  <2>1. m = 1 * m
    BY <1>1
  <2> QED
    BY <2>1 DEF Multiples
<1>8. RateLimited(p, avail, n) =
        IF ~p.fixed_rate THEN AtMost(n, max)
        ELSE AtMost(IF reqd > 0 /\ reqd <= n THEN reqd ELSE n, AtLeast(m, max))
  BY DEF RateLimited
<1> HIDE DEF m, max, reqd
<1>9. p.multiple_set => RateLimited(p, avail, n) \in Multiples(m)
  BY <1>3, <1>5, <1>7, <1>8 DEF AtMost, AtLeast, m
<1>10. MayWork(p) /\ n > 0 => RateLimited(p, avail, n) > 0
  BY <1>1, <1>3, <1>6, <1>8 DEF AtMost, AtLeast, m, MayWork
<1> QED
  BY <1>2, <1>9, <1>10 DEF m

LEMMA AfterUnaligned ==
  ASSUME NEW r, r.al.is_unaligned
  PROVE  /\ AlignmentAfter(r).unaligned = r.next
         /\ AlignmentAfter(r).is_unaligned <=> r.next # 0
<1>1. PICK b \in BOOLEAN : b = (r.next # 0)
  OBVIOUS
<1>2. AlignmentAfter(r) = [unaligned |-> r.next, is_unaligned |-> b]
  BY <1>1, Zenon DEF AlignmentAfter
<1>3. AlignmentAfter(r).unaligned = r.next /\ AlignmentAfter(r).is_unaligned = b
  BY <1>2
<1> QED
  BY <1>1, <1>3

(* What a pass leaves for the vector after the request, if all of the      *)
(* request is made.                                                        *)
LEMMA AlignedTells ==
  ASSUME NEW p \in Descriptions, ~p.multiple_set, NEW flags \in Alignments(p), Proper(flags),
         NEW done \in 0..p.multiple - 1, NEW n \in Nat
  PROVE  LET r == Aligned(p, flags, n)
             a == AlignmentAfter(r)
         IN /\ r.n \in Nat /\ r.next \in 0..p.multiple
            /\ n > 0 => r.n > 0
            /\ Proper(r.al)
            /\ r.fresh => r.n <= p.multiple
            /\ Tracked(p, flags, done) =>
                 /\ r.fresh => done = 0
                 /\ ~r.fresh => Tracked(p, r.al, done)
                 /\ n > 0 => Tracked(p, a, (done + r.n) % p.multiple)
<1> DEFINE m == p.multiple
           r == Aligned(p, flags, n)
<1>1. /\ m \in Positive /\ m \in Nat /\ m > 0
      /\ flags.unaligned \in 0..m /\ flags.is_unaligned \in BOOLEAN /\ done \in 0..m - 1
  BY MultipleIsPositive DEF Alignments
<1>2. /\ RoundUp(n, m) \in Nat /\ RoundUp(n, m) \in Multiples(m) /\ (n > 0 => RoundUp(n, m) >= m)
      /\ RoundDown(n, m) \in Nat /\ RoundDown(n, m) \in Multiples(m)
      /\ (n >= m => RoundDown(n, m) >= m)
  BY <1>1, RoundedIsMultiple, MultipleFacts
<1>3. ASSUME NEW j \in Multiples(m), NEW k \in 0..m - 1
      PROVE  (j + k) % m = k
  <2>1. PICK i \in Nat : j = i * m
    BY DEF Multiples
  <2> QED
    BY <1>1, <2>1, Remainder
<1>4. ASSUME NEW k \in 0..m - 1 PROVE k % m = k
  <2>1. 0 \in Multiples(m)
    <3>1. 0 = 0 * m
      BY <1>1
    <3> QED
      BY <3>1 DEF Multiples
  <2>2. 0 + k = k
    BY <1>1
  <2> QED
    BY <1>3, <2>1, <2>2
<1>5. CASE flags.is_unaligned /\ n >= flags.unaligned
  <2>1. r = [n |-> RoundUp(n, m) - (m - flags.unaligned), next |-> 0, al |-> flags, fresh |-> FALSE]
    BY <1>1, <1>5 DEF Aligned, ToVectorEnd
  <2>2. flags.unaligned > 0 /\ n > 0
    BY <1>1, <1>5 DEF Proper
  <2>3. ~AlignmentAfter(r).is_unaligned
    BY <1>5, <2>1, AfterUnaligned
  <2>4. r.n \in Nat /\ r.n > 0
    BY <1>1, <1>2, <2>1, <2>2
  <2>5. ASSUME Tracked(p, flags, done) PROVE (done + r.n) % m = 0
    <3>1. done = m - flags.unaligned
      BY <1>5, <2>5 DEF Tracked
    <3>2. done + r.n = RoundUp(n, m) + 0 /\ 0 \in 0..m - 1
      BY <1>1, <1>2, <2>1, <3>1
    <3> QED
      BY <1>2, <1>3, <3>2
  <2> QED
    BY <1>1, <2>1, <2>3, <2>4, <2>5 DEF Tracked
<1>6. CASE flags.is_unaligned /\ n < flags.unaligned
  <2>1. r = [n |-> n, next |-> flags.unaligned - n, al |-> flags, fresh |-> FALSE]
    BY <1>1, <1>6 DEF Aligned
  <2>2. AlignmentAfter(r).unaligned = flags.unaligned - n /\ AlignmentAfter(r).is_unaligned
    BY <1>1, <1>6, <2>1, AfterUnaligned
  <2>3. ASSUME Tracked(p, flags, done) PROVE (done + r.n) % m = m - (flags.unaligned - n)
    <3>1. done = m - flags.unaligned
      BY <1>6, <2>3 DEF Tracked
    <3>2. done + r.n = m - (flags.unaligned - n) /\ done + r.n \in 0..m - 1
      BY <1>1, <1>6, <2>1, <3>1
    <3> QED
      BY <1>4, <3>2
  <2> QED
    BY <1>1, <1>6, <2>1, <2>2, <2>3 DEF Tracked, Proper
<1>7. CASE ~flags.is_unaligned /\ n < m
  <2>1. r = [n |-> n, next |-> m - n, fresh |-> TRUE,
             al |-> [unaligned |-> m - n, is_unaligned |-> TRUE]]
    BY <1>1, <1>7 DEF Aligned
  <2>2. AlignmentAfter(r).unaligned = m - n /\ AlignmentAfter(r).is_unaligned
    BY <1>1, <1>7, <2>1, AfterUnaligned
  <2>3. ASSUME Tracked(p, flags, done) PROVE done = 0 /\ (done + r.n) % m = m - (m - n)
    <3>1. done = 0
      BY <1>7, <2>3 DEF Tracked
    <3>2. done + r.n = n /\ n \in 0..m - 1 /\ m - (m - n) = n
      BY <1>1, <1>7, <2>1, <3>1
    <3> QED
      BY <1>4, <3>1, <3>2
  <2> QED
    BY <1>1, <1>7, <2>1, <2>2, <2>3 DEF Tracked, Proper
<1>8. CASE ~flags.is_unaligned /\ ~(n < m)
  <2>1. r = [n |-> RoundDown(n, m), next |-> 0, fresh |-> FALSE,
             al |-> [flags EXCEPT !.is_unaligned = FALSE]]
    BY <1>1, <1>8 DEF Aligned
  <2>2. ~r.al.is_unaligned /\ ~AlignmentAfter(r).is_unaligned
    BY <1>1, <1>8, <2>1 DEF AlignmentAfter, Alignments
  <2>3. ASSUME Tracked(p, flags, done) PROVE done = 0 /\ (done + r.n) % m = 0
    <3>1. done = 0
      BY <1>8, <2>3 DEF Tracked
    <3>2. done + r.n = RoundDown(n, m) + 0 /\ 0 \in 0..m - 1
      BY <1>1, <1>2, <2>1, <3>1
    <3> QED
      BY <1>2, <1>3, <3>1, <3>2
  <2> QED
    BY <1>1, <1>2, <1>8, <2>1, <2>2, <2>3 DEF Tracked, Proper
<1> QED
  BY <1>1, <1>5, <1>6, <1>7, <1>8 DEF r, m

LEMMA PassTells ==
  ASSUME NEW p \in Descriptions, NEW ins, MaxItemsAvail(ins) \in Nat,
         NEW flags \in Alignments(p), Proper(flags), NEW done \in 0..p.multiple - 1,
         NEW n \in Multiples(p.multiple)
  PROVE  LET r == Pass(p, flags, ins, n)
         IN /\ r.n \in 0..n /\ r.next \in 0..p.multiple
            /\ r.al \in Alignments(p) /\ Proper(r.al)
            /\ r.fresh => r.n <= p.multiple
            /\ MayWork(p) /\ n > 0 => r.n > 0
            /\ p.multiple_set => r.n \in Multiples(p.multiple)
            /\ ~p.multiple_set /\ Tracked(p, flags, done) =>
                 /\ r.fresh => done = 0
                 /\ ~r.fresh => Tracked(p, r.al, done)
                 /\ MayWork(p) /\ n > 0 =>
                      Tracked(p, AlignmentAfter(r), (done + r.n) % p.multiple)
<1> DEFINE m == p.multiple
           l == RateLimited(p, MaxItemsAvail(ins), n)
           r == Aligned(p, flags, l)
<1>1. m \in Positive /\ m \in Nat /\ m > 0 /\ n \in Nat
  BY MultipleIsPositive, MultipleFacts
<1>2. /\ l \in 0..n /\ l \in Nat /\ (MayWork(p) /\ n > 0 => l > 0)
      /\ (p.multiple_set => l \in Multiples(m))
  BY RateKeepsMultiples, <1>1
<1>3. Pass(p, flags, ins, n) = r
  BY DEF Pass
<1> HIDE DEF l
<1>4. r.n \in Int /\ r.n <= RoundUp(l, m) /\ r.al \in Alignments(p)
  BY <1>2, AlignedBounds
<1>5. RoundUp(l, m) <= n /\ RoundUp(l, m) \in Int
  <2>1. PICK j \in Nat : n = j * m
    BY DEF Multiples
  <2> QED
    BY <1>1, <1>2, <2>1, RoundUpAtMost, RoundUpBounds
<1>6. CASE p.multiple_set
  <2>1. r = [n |-> l, next |-> 0, al |-> flags, fresh |-> FALSE]
    BY <1>6 DEF Aligned
  <2> QED
    BY <1>1, <1>2, <1>3, <1>6, <2>1
<1>7. CASE ~p.multiple_set
  <2> DEFINE a == AlignmentAfter(r)
  <2>1. /\ r.n \in Nat /\ r.next \in 0..m
        /\ l > 0 => r.n > 0
        /\ Proper(r.al)
        /\ r.fresh => r.n <= m
        /\ Tracked(p, flags, done) =>
             /\ r.fresh => done = 0
             /\ ~r.fresh => Tracked(p, r.al, done)
             /\ l > 0 => Tracked(p, a, (done + r.n) % m)
    BY <1>2, <1>7, AlignedTells
  <2> HIDE DEF r, a
  <2>2. r.n \in 0..n
    BY <1>1, <1>4, <1>5, <2>1
  <2> QED
    BY <1>2, <1>3, <1>4, <1>7, <2>1, <2>2 DEF a
<1> QED
  BY <1>6, <1>7

LEMMA HalvedIsMultiple ==
  ASSUME NEW p \in Descriptions, NEW n \in Nat, n > p.multiple
  PROVE  Halved(p, n) \in Multiples(p.multiple) /\ Halved(p, n) > 0
<1>1. p.multiple \in Positive /\ p.multiple \in Nat /\ p.multiple > 0 /\ 2 \in Positive
  BY MultipleIsPositive DEF Positive
<1>2. n \div 2 \in Nat /\ n \div 2 > 0
  <2>1. 1 * 2 <= n /\ 1 \in Int /\ n \in Int
    BY <1>1
  <2>2. 1 <= n \div 2 /\ n \div 2 \in Nat
    BY <1>1, <2>1, QuotientAtLeast, QuotientIsNat
  <2> QED
    BY <2>2
<1> HIDE DEF Positive
<1>3. RoundUp(n \div 2, p.multiple) \in Multiples(p.multiple) /\ RoundUp(n \div 2, p.multiple) >= p.multiple
  BY <1>1, <1>2, RoundedIsMultiple
<1>4. RoundUp(n \div 2, p.multiple) > 0
  BY <1>1, <1>3, MultipleFacts
<1> QED
  BY <1>3, <1>4 DEF Halved

LEMMA RequestTells ==
  ASSUME NEW p \in Descriptions, NEW ins, MaxItemsAvail(ins) \in Nat,
         NEW flags \in Alignments(p), Proper(flags), NEW done \in 0..p.multiple - 1,
         NEW start \in Multiples(p.multiple)
  PROVE  LET r == Request(p, flags, ins, start)
         IN /\ r.n \in 0..start /\ r.next \in 0..p.multiple
            /\ r.al \in Alignments(p) /\ Proper(r.al)
            /\ ~TryAgain(p, ins, r)
            /\ MayWork(p) /\ start > 0 => r.n > 0
            /\ p.multiple_set => r.n \in Multiples(p.multiple)
            /\ ~p.multiple_set /\ Tracked(p, flags, done) =>
                 /\ r.fresh => done = 0
                 /\ ~r.fresh => Tracked(p, r.al, done)
                 /\ MayWork(p) /\ start > 0 =>
                      Tracked(p, AlignmentAfter(r), (done + r.n) % p.multiple)
<1> DEFINE m == p.multiple
           Good(n, a) == /\ n \in Multiples(m) /\ Proper(a)
                         /\ start > 0 => n > 0
                         /\ ~p.multiple_set /\ Tracked(p, flags, done) => Tracked(p, a, done)
           C == {s \in (0..start) \X Alignments(p) : Good(s[1], s[2])}
           r == Request(p, flags, ins, start)
<1>1. m \in Positive /\ m \in Nat /\ start \in Nat
  BY MultipleIsPositive, MultipleFacts
<1>2. \A n \in 0..start, a \in Alignments(p) : <<n, a>> \in C <=> Good(n, a)
  OBVIOUS
<1>3. C \subseteq (0..start) \X Alignments(p) /\ <<start, flags>> \in C
  BY <1>1, <1>2
<1> HIDE DEF C
<1>4. Kept(p, ins, start, C)
  <2> SUFFICES ASSUME NEW n \in 0..start, NEW a \in Alignments(p), <<n, a>> \in C,
                      TryAgain(p, ins, Pass(p, a, ins, n))
               PROVE  <<Halved(p, Pass(p, a, ins, n).n), Pass(p, a, ins, n).al>> \in C
    BY DEF Kept
  <2> DEFINE q == Pass(p, a, ins, n)
             h == Halved(p, q.n)
  <2>1. Good(n, a) /\ n \in Nat
    BY <1>2
  <2>2. /\ q.n \in 0..n /\ Proper(q.al)
        /\ q.fresh => q.n <= m
        /\ ~p.multiple_set /\ Tracked(p, a, done) => (~q.fresh => Tracked(p, q.al, done))
    BY <2>1, PassTells
  <2>3. h \in Nat /\ h < n /\ q.al \in Alignments(p)
    BY <2>1, PassDescends
  <2>4. q.n > m
    BY DEF TryAgain
  <2> HIDE DEF q
  <2>5. h \in Multiples(m) /\ h > 0
    BY <2>2, <2>4, HalvedIsMultiple
  <2>6. ~q.fresh
    BY <1>1, <2>2, <2>4
  <2> HIDE DEF h
  <2>7. Good(h, q.al) /\ h \in 0..start
    BY <1>1, <2>1, <2>2, <2>3, <2>5, <2>6
  <2>8. <<h, q.al>> \in C
    BY <1>2, <2>3, <2>7
  <2> QED
    BY <2>8 DEF h, q
<1>5. PICK n \in 0..start, a \in Alignments(p) :
        <<n, a>> \in C /\ r = Pass(p, a, ins, n) /\ ~TryAgain(p, ins, Pass(p, a, ins, n))
  BY <1>1, <1>3, <1>4, RequestSettles, ZenonT(60)
<1>6. Good(n, a) /\ n \in Nat
  BY <1>2, <1>5
<1> HIDE DEF r
<1>7. /\ r.n \in 0..n /\ r.next \in 0..m
      /\ r.al \in Alignments(p) /\ Proper(r.al)
      /\ MayWork(p) /\ n > 0 => r.n > 0
      /\ p.multiple_set => r.n \in Multiples(m)
      /\ ~p.multiple_set /\ Tracked(p, a, done) =>
           /\ r.fresh => done = 0
           /\ ~r.fresh => Tracked(p, r.al, done)
           /\ MayWork(p) /\ n > 0 => Tracked(p, AlignmentAfter(r), (done + r.n) % m)
  BY <1>5, <1>6, PassTells
<1>8. r.n \in 0..start
  BY <1>1, <1>6, <1>7
<1>9. ~TryAgain(p, ins, r)
  BY <1>5
<1> QED
  BY <1>6, <1>7, <1>8, <1>9 DEF r

LEMMA DecisionTells ==
  ASSUME NEW p \in Descriptions, NEW k \in Nat, k > 0, NEW ins, DOMAIN ins = 1..k,
         \A i \in 1..k : ins[i].items \in Nat, NEW bufsizes,
         NEW flags \in Alignments(p), Proper(flags), NEW done \in 0..p.multiple - 1,
         NEW start \in Multiples(p.multiple)
  PROVE  LET d == Decision(p, flags, ins, bufsizes, start)
         IN /\ d.n \in 0..start /\ d.next \in 0..p.multiple
            /\ d.al \in Alignments(p) /\ Proper(d.al)
            /\ d.result \in {"work", "done", "blkd_in"}
            /\ MayWork(p) /\ start > 0 => d.n > 0
            /\ p.multiple_set => d.n \in Multiples(p.multiple)
            /\ d.result = "work" => \A i \in 1..k : Forecast(p, d.n) <= ins[i].items
            /\ d.result # "work" =>
                 /\ d.n <= p.multiple
                 /\ \E i \in 1..k :
                      /\ Forecast(p, d.n) > ins[i].items
                      /\ d.result = "done" => ins[i].done \/ Forecast(p, d.n) > bufsizes[i] - 1
            /\ ~p.multiple_set /\ Tracked(p, flags, done) =>
                 /\ d.result = "blkd_in" => Tracked(p, d.al, done)
                 /\ d.result = "work" /\ MayWork(p) /\ start > 0 =>
                      Tracked(p, AlignmentAfter(d), (done + d.n) % p.multiple)
<1> DEFINE m == p.multiple
           set == {ins[i] : i \in DOMAIN ins}
           r == Request(p, flags, set, start)
           d == Decision(p, flags, ins, bufsizes, start)
           aligned == [unaligned |-> 0, is_unaligned |-> FALSE]
           stuck == FirstShort(p, ins, r.n)
<1>1. m \in Nat /\ m > 0 /\ MaxItemsAvail(set) \in Nat
  BY MultipleIsPositive, MaxItemsAvailIsNat
<1>2. d = Settled(p, flags, ins, bufsizes, r)
  BY DEF Decision
<1>3. /\ r.n \in 0..start /\ r.next \in 0..m
      /\ r.al \in Alignments(p) /\ Proper(r.al)
      /\ ~TryAgain(p, set, r)
      /\ MayWork(p) /\ start > 0 => r.n > 0
      /\ p.multiple_set => r.n \in Multiples(m)
      /\ ~p.multiple_set /\ Tracked(p, flags, done) =>
           /\ r.fresh => done = 0
           /\ ~r.fresh => Tracked(p, r.al, done)
           /\ MayWork(p) /\ start > 0 => Tracked(p, AlignmentAfter(r), (done + r.n) % m)
  BY <1>1, RequestTells
<1>4. aligned \in Alignments(p) /\ Proper(aligned) /\ (done = 0 => Tracked(p, aligned, done))
  BY <1>1 DEF Alignments, Proper, Tracked
<1> HIDE DEF r, d, aligned
<1>5. CASE stuck = {}
  <2>1. d = [result |-> "work", n |-> r.n, next |-> r.next, al |-> r.al]
    BY <1>2, <1>5 DEF Settled
  <2>2. AlignmentAfter(d) = AlignmentAfter(r)
    BY <2>1 DEF AlignmentAfter
  <2>3. ASSUME NEW i \in 1..k PROVE Forecast(p, r.n) <= ins[i].items
    <3>1. ~Short(p, ins[i], r.n)
      BY <1>5, NoFirstShort
    <3>2. start \in Nat /\ r.n \in Nat
      BY <1>3, MultipleFacts, MultipleIsPositive
    <3>3. Forecast(p, r.n) \in Int
      BY <3>2, ForecastIsInt
    <3> QED
      BY <3>1, <3>3 DEF Short
  <2> QED
    BY <1>3, <2>1, <2>2, <2>3 DEF d
<1>6. CASE stuck # {}
  <2>1. PICK i \in 1..k : i \in stuck
    BY <1>6 DEF FirstShort
  <2>2. Short(p, ins[i], r.n) /\ \A j \in stuck : Short(p, ins[j], r.n) /\ j \in 1..k
    BY <2>1 DEF FirstShort
  <2>3. r.n <= m
    <3>1. ins[i] \in set
      BY <2>1
    <3>2. start \in Nat /\ r.n \in Nat
      BY <1>3, MultipleFacts, MultipleIsPositive
    <3> QED
      BY <1>1, <1>3, <2>2, <3>1, <3>2 DEF TryAgain
  <2> DEFINE never(j) == Forecast(p, r.n) > bufsizes[j] - 1
             hopeless == \E j \in stuck : ins[j].done \/ never(j)
  <2>4. CASE hopeless
    <3>1. d = [result |-> "done", n |-> r.n, next |-> 0, al |-> r.al]
      BY <1>2, <1>6, <2>4 DEF Settled
    <3>2. PICK j \in stuck : ins[j].done \/ never(j)
      BY <2>4
    <3>3. j \in 1..k /\ Forecast(p, r.n) > ins[j].items
      BY <2>2, <3>2 DEF Short
    <3> QED
      BY <1>1, <1>3, <2>3, <3>1, <3>2, <3>3 DEF d
  <2>5. CASE ~hopeless
    <3>1. d = [result |-> "blkd_in", n |-> r.n, next |-> 0,
               al |-> IF r.fresh THEN aligned ELSE r.al]
      BY <1>2, <1>6, <2>5 DEF Settled, aligned
    <3>2. Forecast(p, r.n) > ins[i].items
      BY <2>2 DEF Short
    <3> QED
      BY <1>1, <1>3, <1>4, <2>1, <2>3, <3>1, <3>2 DEF d
  <2> QED
    BY <2>4, <2>5
<1> QED
  BY <1>5, <1>6

-----------------------------------------------------------------------------
(***************************************************************************)
(* One call of run_one_iteration.                                          *)
(***************************************************************************)
(* Sources do without the bookkeeping of alignment.                        *)
Sane == /\ kind \in Kinds /\ TypeOK /\ Proper(al)
        /\ kind.ninputs = 0 => ~al.is_unaligned

(* What the outcome d of an iteration may leave behind.                    *)
Suits(d) ==
  /\ d.n \in Nat /\ d.next \in 0..Blk.multiple
  /\ d.al \in Alignments(Blk) /\ Proper(d.al)
  /\ kind.ninputs = 0 => ~d.al.is_unaligned

(* What holds of a call of general_work ...                                *)
Works(d) ==
  d.result = "work" =>
    /\ kind.noutputs > 0 => d.n <= space
    /\ \A i \in Inputs : Forecast(Blk, d.n) <= items[i]
    /\ LimitsAllowWork => d.n > 0
    /\ Blk.multiple_set => d.n \in Multiples(Blk.multiple)

(* ... of the flags ...                                                    *)
Keeps(d) ==
  ~Blk.multiple_set /\ Tracked(Blk, al, offset) =>
    /\ d.result \in {"blkd_in", "blkd_out"} => Tracked(Blk, d.al, offset)
    /\ d.result = "work" /\ LimitsAllowWork =>
         Tracked(Blk, AlignmentAfter(d), (offset + d.n) % Blk.multiple)

(* ... and of the reasons not to call it.                                  *)
Explains(d) ==
  LimitsAllowWork /\ SinksDoNotInterpolate =>
    /\ d.result = "blkd_in" => ~CanRun(items)
    /\ d.result = "blkd_out" =>
         \/ AtMost(space, OutSize \div 2) < Blk.multiple
         \/ room < Blk.min_noutput
    /\ d.result = "done" =>
         \E i \in Inputs : /\ Forecast(Blk, Blk.multiple) > items[i]
                           /\ idone[i] \/ Forecast(Blk, Blk.multiple) > InSize - 1

Allowed(d) == Suits(d) /\ Works(d) /\ Keeps(d) /\ Explains(d)

LEMMA KindFacts ==
  ASSUME Sane
  PROVE  /\ Blk \in Descriptions /\ Blk.multiple \in Positive
         /\ Blk.multiple \in Nat /\ Blk.multiple > 0
         /\ kind.ninputs \in Nat /\ kind.noutputs \in Nat /\ kind.ninputs + kind.noutputs > 0
         /\ InSize \in Positive /\ OutSize \in Positive /\ InSize \in Nat /\ OutSize \in Nat
         /\ space \in Nat /\ \A i \in Inputs : items[i] \in Nat
         /\ al \in Alignments(Blk) /\ Proper(al) /\ offset \in 0..Blk.multiple - 1
         /\ LimitsAllowWork =>
              \/ Blk.multiple <= Blk.max_noutput
              \/ Blk.fixed_rate /\ kind.ninputs > 0 /\ kind.noutputs > 0
<1>1. kind \in Kinds /\ Blk \in Descriptions /\ Blk = kind.blk
  BY KindsAssumption DEF Sane, Blk
<1>2. /\ Blk.multiple \in Positive /\ Blk.multiple \in Nat /\ Blk.multiple > 0
  BY <1>1, MultipleIsPositive
<1>3. /\ kind.ninputs \in Nat /\ kind.noutputs \in Nat /\ kind.ninputs + kind.noutputs > 0
      /\ InSize \in Positive /\ OutSize \in Positive
  BY <1>1, KindsAssumption DEF InSize, OutSize
<1>4. InSize \in Nat /\ OutSize \in Nat
  BY <1>3 DEF Positive
<1>5. space \in Nat /\ \A i \in Inputs : items[i] \in Nat
  BY <1>4 DEF Sane, TypeOK
<1> QED
  BY <1>1, <1>2, <1>3, <1>4, <1>5 DEF Sane, TypeOK, LimitsAllowWork, Blk

LEMMA RoomTells ==
  ASSUME Sane
  PROVE  /\ room \in Multiples(Blk.multiple) /\ room \in Nat /\ room <= space
         /\ kind.noutputs > 0 /\ ~OutputBlocked => room > 0
         /\ room < 1 => AtMost(space, OutSize \div 2) < Blk.multiple
<1> DEFINE m == Blk.multiple
           down == RoundDown(space, m)
           half == RoundDown(OutSize \div 2, m)
<1>1. m \in Positive /\ m \in Nat /\ space \in Nat /\ OutSize \div 2 \in Nat
  <2>1. 2 \in Positive
    BY DEF Positive
  <2> QED
    BY <2>1, KindFacts, QuotientIsNat
<1>2. /\ down \in Multiples(m) /\ half \in Multiples(m) /\ down \in Nat /\ half \in Nat
      /\ down <= space /\ space < down + m /\ OutSize \div 2 < half + m
  <2>1. down \in Multiples(m) /\ half \in Multiples(m)
    BY <1>1, RoundedIsMultiple
  <2>2. space \in Int /\ OutSize \div 2 \in Int
    BY <1>1
  <2>3. down <= space /\ space < down + m /\ OutSize \div 2 < half + m
    BY <1>1, <2>2, RoundDownBounds
  <2> QED
    BY <1>1, <2>1, <2>3, MultipleFacts
<1>3. room = AtMost(down, half)
  BY DEF room, Room
<1> HIDE DEF m, down, half
<1>4. room \in Multiples(m) /\ room \in Nat /\ room <= space
  BY <1>1, <1>2, <1>3 DEF AtMost
<1>5. kind.noutputs > 0 /\ ~OutputBlocked => room > 0
  BY <1>4, KindFacts, NotBlocking DEF OutputBlocked
<1>6. room < 1 => AtMost(space, OutSize \div 2) < m
  BY <1>1, <1>2, <1>3 DEF AtMost
<1> QED
  BY <1>4, <1>5, <1>6 DEF m

(* A source is asked for what its outputs take and its limit allows.       *)
LEMMA SourceAllowed ==
  ASSUME Sane, kind.ninputs = 0, ~OutputBlocked,
         NEW d, d = [result |-> IF Start = 0 THEN "blkd_out" ELSE "work",
                     n |-> Start, next |-> 0, al |-> al]
  PROVE  Allowed(d)
<1> DEFINE m == Blk.multiple
           max == MaxNoutputItems(Blk)
<1>1. /\ m \in Positive /\ m \in Nat /\ m > 0 /\ Blk \in Descriptions /\ kind.noutputs > 0
      /\ al \in Alignments(Blk) /\ Proper(al) /\ Inputs = {}
      /\ LimitsAllowWork => m <= Blk.max_noutput
  BY KindFacts DEF Inputs
<1>2. room \in Multiples(m) /\ room \in Nat /\ room <= space /\ room > 0 /\ space \in Nat
  BY <1>1, RoomTells, KindFacts
<1>3. max \in Multiples(m) /\ max \in Nat /\ (LimitsAllowWork => max >= m)
  BY <1>1, LimitFacts
<1>4. Start = AtMost(room, max)
  BY DEF Start
<1> HIDE DEF max, m
<1>5. /\ Start \in Multiples(m) /\ Start \in Nat /\ Start <= space
      /\ LimitsAllowWork => Start > 0
  BY <1>1, <1>2, <1>3, <1>4 DEF AtMost
<1>6. Suits(d)
  BY <1>1, <1>5 DEF Suits, Sane, m
<1>7. Works(d)
  BY <1>1, <1>5 DEF Works, m
<1>8. Keeps(d)
  <2> SUFFICES ASSUME Tracked(Blk, al, offset)
               PROVE  /\ Tracked(Blk, d.al, offset)
                      /\ Tracked(Blk, AlignmentAfter(d), (offset + d.n) % m)
    BY DEF Keeps, m
  <2>1. ~al.is_unaligned /\ d.al = al /\ AlignmentAfter(d) = al
    BY DEF Sane, AlignmentAfter
  <2>2. offset = 0 /\ d.n = Start /\ 0 + Start = Start
    BY <1>5, <2>1 DEF Tracked
  <2>3. Start % m = 0
    BY <1>1, <1>5, MultipleFacts
  <2> QED
    BY <2>1, <2>2, <2>3 DEF Tracked
<1>9. Explains(d)
  BY <1>5 DEF Explains
<1> QED
  BY <1>6, <1>7, <1>8, <1>9 DEF Allowed

(* A call that does not get as far as try_again changes nothing.           *)
LEMMA NothingDone ==
  ASSUME Sane, NEW d, d.n = 0, d.next = 0, d.al = al, d.result # "work"
  PROVE  Suits(d) /\ Works(d) /\ Keeps(d)
<1>1. al \in Alignments(Blk) /\ Proper(al) /\ Blk.multiple \in Nat
  BY KindFacts
<1> QED
  BY <1>1 DEF Suits, Works, Keeps, Sane

LEMMA OutputBlockedAllowed ==
  ASSUME Sane, OutputBlocked, NEW d,
         d = [result |-> IF odone THEN "out_done" ELSE "blkd_out", n |-> 0, next |-> 0, al |-> al]
  PROVE  Allowed(d)
<1>1. Suits(d) /\ Works(d) /\ Keeps(d)
  BY NothingDone
<1>2. Explains(d)
  <2> SUFFICES AtMost(space, OutSize \div 2) < Blk.multiple \/ room < Blk.min_noutput
    BY DEF Explains
  <2>1. Blk.min_noutput \in Nat /\ room \in Nat
    BY KindFacts, MultipleIsPositive, RoomTells
  <2>2. room < 1 \/ room < Blk.min_noutput
    BY <2>1 DEF OutputBlocked, Blocking, AtLeast
  <2> QED
    BY <2>2, RoomTells
<1> QED
  BY <1>1, <1>2 DEF Allowed

(* What one multiple takes, of a block that does not interpolate.          *)
LEMMA MultipleTakes ==
  ASSUME Sane, Blk.up = 1
  PROVE  /\ Forecast(Blk, Blk.multiple) \in Int
         /\ Forecast(Blk, Blk.multiple) >= Blk.multiple * Blk.down
         /\ Blk.multiple * Blk.down >= Blk.multiple /\ Blk.multiple * Blk.down \in Nat
<1> DEFINE m == Blk.multiple
           k == Blk.down
<1>1. m \in Nat /\ k \in Nat /\ k > 0 /\ Blk.history \in Nat /\ Blk.history > 0
      /\ Blk \in Descriptions /\ 1 \in Positive
  BY KindFacts, MultipleIsPositive DEF Positive
<1>2. m * k \in Nat /\ m * k >= m
  <2>1. 1 * m <= k * m
    BY <1>1, TimesMonotone
  <2> HIDE DEF m, k
  <2> QED
    BY <1>1, <2>1, Z3
<1>3. m * k <= (m * k) \div 1 /\ (m * k) \div 1 \in Nat
  <2>1. (m * k) * 1 <= m * k /\ m * k \in Int
    BY <1>2
  <2> QED
    BY <1>1, <1>2, <2>1, QuotientAtLeast, QuotientIsNat
<1>4. Forecast(Blk, m) = (m * k) \div 1 + Blk.history - 1
  BY DEF Forecast
<1> HIDE DEF m, k
<1>5. Forecast(Blk, m) \in Int /\ Forecast(Blk, m) >= m * k
  BY <1>1, <1>2, <1>3, <1>4
<1> QED
  BY <1>2, <1>5 DEF m, k

LEMMA ExhaustedAllowed ==
  ASSUME Sane, kind.noutputs = 0, NEW i \in Inputs, InputExhausted(Blk, Sampled[i]),
         NEW d, d = [result |-> "done", n |-> 0, next |-> 0, al |-> al]
  PROVE  Allowed(d)
<1>1. Suits(d) /\ Works(d) /\ Keeps(d)
  BY NothingDone
<1>2. Explains(d)
  <2> SUFFICES ASSUME SinksDoNotInterpolate
               PROVE  Forecast(Blk, Blk.multiple) > items[i] /\ idone[i]
    BY DEF Explains
  <2>1. items[i] < Blk.multiple /\ idone[i]
    BY DEF InputExhausted, Sampled
  <2>2. Blk.up = 1
    BY DEF SinksDoNotInterpolate, Sane, Blk
  <2>3. items[i] \in Nat /\ Blk.multiple \in Nat
    BY KindFacts
  <2> QED
    BY <2>1, <2>2, <2>3, MultipleTakes
<1> QED
  BY <1>1, <1>2 DEF Allowed

LEMMA AvailTells ==
  ASSUME Sane, kind.ninputs > 0
  PROVE  LET set == {Sampled[i] : i \in Inputs}
         IN /\ MaxItemsAvail(set) \in Nat
            /\ \A i \in Inputs : items[i] <= MaxItemsAvail(set)
<1> DEFINE n == kind.ninputs
           set == {Sampled[i] : i \in Inputs}
           lags == {in.items : in \in set}
           f == [i \in 1..n |-> items[i]]
<1>1. n \in Nat /\ n > 0 /\ Inputs = 1..n /\ \A i \in 1..n : items[i] \in Nat
  BY KindFacts DEF Inputs
<1>2. \A i \in 1..n : Sampled[i].items = items[i]
  BY <1>1 DEF Sampled
<1>3. PICK i \in 1..n : \A j \in 1..n : f[j] <= f[i]
  <2>1. \A j \in 1..n : f[j] \in Int
    BY <1>1
  <2> HIDE DEF f
  <2> QED
    BY <1>1, <2>1, GreatestOfFamily
<1>4. \A k : k \in lags <=> \E j \in 1..n : k = items[j]
  BY <1>1, <1>2
<1>5. items[i] \in lags /\ \A k \in lags : k <= items[i]
  BY <1>1, <1>3, <1>4
<1>6. MaxItemsAvail(set) = CHOOSE k \in lags : \A in \in set : in.items <= k
  BY DEF MaxItemsAvail
<1>7. \A k \in lags : (\A in \in set : in.items <= k) <=> (\A j \in 1..n : items[j] <= k)
  BY <1>1, <1>2
<1>8. \A j \in 1..n : items[j] <= items[i]
  BY <1>1, <1>3
<1>9. MaxItemsAvail(set) \in lags /\ \A j \in 1..n : items[j] <= MaxItemsAvail(set)
  BY <1>5, <1>6, <1>7, <1>8
<1> QED
  BY <1>1, <1>4, <1>9

(* A sink whose guess is nothing has an input with less than it takes.     *)
LEMMA NoGuessAllowed ==
  ASSUME Sane, kind.noutputs = 0, kind.ninputs > 0, Start = 0,
         NEW d, d = [result |-> "blkd_in", n |-> 0, next |-> 0, al |-> al]
  PROVE  Allowed(d)
<1> DEFINE m == Blk.multiple
           avail == MaxItemsAvail({Sampled[i] : i \in Inputs})
           k == Blk.down
<1>1. Suits(d) /\ Works(d) /\ Keeps(d)
  BY NothingDone
<1>2. Explains(d)
  <2> SUFFICES ASSUME LimitsAllowWork, SinksDoNotInterpolate
               PROVE  ~CanRun(items)
    BY DEF Explains
  <2>1. Blk.up = 1
    BY DEF SinksDoNotInterpolate, Sane, Blk
  <2>2. /\ m \in Positive /\ m \in Nat /\ m > 0 /\ k \in Positive /\ k \in Nat
        /\ Blk \in Descriptions /\ m <= Blk.max_noutput /\ Inputs # {}
        /\ 1 \in Inputs /\ items[1] \in Nat
    BY KindFacts, MultipleIsPositive DEF Inputs
  <2>3. avail \in Nat /\ items[1] <= avail
    BY <2>2, AvailTells
  <2> HIDE DEF avail
  <2>4. (avail * 1) \div k \in Nat
    BY <2>2, <2>3, QuotientIsNat
  <2>5. (avail * 1) \div k < m
    <3>1. Start = AtMost(RoundDown((avail * 1) \div k, m), MaxNoutputItems(Blk))
      BY <2>1, <2>2 DEF Start, SinkNoutput, avail
    <3>2. MaxNoutputItems(Blk) >= m /\ MaxNoutputItems(Blk) \in Nat
      BY <2>2, LimitFacts
    <3>3. RoundDown((avail * 1) \div k, m) = 0
      BY <2>2, <3>1, <3>2 DEF AtMost
    <3>4. (avail * 1) \div k \in Int
      BY <2>4
    <3> QED
      BY <2>2, <3>3, <3>4, RoundDownBounds
  <2>6. avail < m * k
    <3>1. m * k <= avail => m <= (avail * 1) \div k
      BY <2>2, <2>3, QuotientAtLeast
    <3>2. m * k \in Int
      BY <2>2
    <3> QED
      BY <2>2, <2>3, <2>4, <2>5, <3>1, <3>2
  <2>7. Forecast(Blk, m) > items[1]
    BY <2>1, <2>2, <2>3, <2>6, MultipleTakes
  <2>8. Forecast(Blk, m) \in Int
    BY <2>1, MultipleTakes
  <2> QED
    BY <2>2, <2>7, <2>8 DEF CanRun
<1> QED
  BY <1>1, <1>2 DEF Allowed

LEMMA ForecastMonotone ==
  ASSUME NEW p \in Descriptions, NEW n \in Nat, NEW k \in 0..n
  PROVE  /\ Forecast(p, k) \in Int /\ Forecast(p, n) \in Int
         /\ Forecast(p, k) <= Forecast(p, n)
<1>1. /\ p.down \in Nat /\ p.up \in Positive /\ p.history \in Nat /\ k \in Nat
      /\ k * p.down \in Int /\ n * p.down \in Int
  BY MultipleIsPositive
<1>2. k * p.down <= n * p.down
  BY <1>1, TimesMonotone
<1>3. (k * p.down) \div p.up <= (n * p.down) \div p.up
  BY <1>1, <1>2, QuotientMonotone
<1>4. (k * p.down) \div p.up \in Nat /\ (n * p.down) \div p.up \in Nat
  BY <1>1, ForecastIsInt
<1> QED
  BY <1>1, <1>3, <1>4 DEF Forecast

LEMMA StartTells ==
  ASSUME Sane, kind.ninputs > 0
  PROVE  /\ Start \in Multiples(Blk.multiple) /\ Start \in Nat
         /\ kind.noutputs > 0 => Start <= space
         /\ kind.noutputs > 0 /\ ~OutputBlocked => Start > 0
<1> DEFINE m == Blk.multiple
<1>1. m \in Positive /\ kind.ninputs \in Nat /\ kind.noutputs \in Nat /\ Blk \in Descriptions
  BY KindFacts
<1>2. CASE kind.noutputs > 0
  <2>1. Start = room
    BY <1>1, <1>2 DEF Start
  <2> QED
    BY <1>2, <2>1, RoomTells
<1>3. CASE kind.noutputs = 0
  <2> DEFINE avail == MaxItemsAvail({Sampled[i] : i \in Inputs})
             most == (avail * Blk.up) \div Blk.down
  <2>1. Start = AtMost(RoundDown(most, m), MaxNoutputItems(Blk))
    BY <1>1, <1>3 DEF Start, SinkNoutput
  <2>2. avail \in Nat /\ Blk.up \in Nat /\ Blk.down \in Positive
    BY <1>1, AvailTells, MultipleIsPositive
  <2> HIDE DEF avail
  <2>3. avail * Blk.up \in Nat
    BY <2>2
  <2>4. most \in Nat
    BY <2>2, <2>3, QuotientIsNat
  <2> HIDE DEF most, m
  <2>5. RoundDown(most, m) \in Multiples(m) /\ MaxNoutputItems(Blk) \in Multiples(m)
    BY <1>1, <2>4, RoundedIsMultiple, LimitFacts DEF m
  <2>6. Start \in Multiples(m)
    BY <2>1, <2>5 DEF AtMost
  <2> QED
    BY <1>1, <1>3, <2>6, MultipleFacts DEF m
<1> QED
  BY <1>1, <1>2, <1>3

LEMMA DecisionAllowed ==
  ASSUME Sane, kind.ninputs > 0, ~OutputBlocked, kind.noutputs = 0 => Start # 0,
         NEW d, d = Decision(Blk, al, Sampled, [i \in Inputs |-> InSize], Start)
  PROVE  Allowed(d)
<1> DEFINE m == Blk.multiple
           sizes == [i \in Inputs |-> InSize]
           k == kind.ninputs
<1>1. /\ m \in Positive /\ m \in Nat /\ m > 0 /\ Blk \in Descriptions
      /\ k \in Nat /\ Inputs = 1..k /\ kind.noutputs \in Nat /\ space \in Nat
      /\ \A i \in 1..k : items[i] \in Nat
      /\ al \in Alignments(Blk) /\ Proper(al) /\ offset \in 0..m - 1
      /\ LimitsAllowWork => m <= Blk.max_noutput \/ Blk.fixed_rate
  BY KindFacts DEF Inputs
<1>2. LimitsAllowWork => MayWork(Blk)
  BY <1>1 DEF MayWork
<1>3. /\ Start \in Multiples(m) /\ Start \in Nat /\ Start > 0
      /\ kind.noutputs > 0 => Start <= space
  BY <1>1, StartTells
<1>4. /\ DOMAIN Sampled = 1..k
      /\ \A i \in 1..k : Sampled[i].items = items[i] /\ Sampled[i].done = idone[i]
      /\ \A i \in 1..k : Sampled[i].items \in Nat
  BY <1>1 DEF Sampled
<1>5. /\ d.n \in 0..Start /\ d.next \in 0..m
      /\ d.al \in Alignments(Blk) /\ Proper(d.al)
      /\ d.result \in {"work", "done", "blkd_in"}
      /\ MayWork(Blk) /\ Start > 0 => d.n > 0
      /\ Blk.multiple_set => d.n \in Multiples(m)
      /\ d.result = "work" => \A i \in 1..k : Forecast(Blk, d.n) <= Sampled[i].items
      /\ d.result # "work" =>
           /\ d.n <= m
           /\ \E i \in 1..k :
                /\ Forecast(Blk, d.n) > Sampled[i].items
                /\ d.result = "done" => Sampled[i].done \/ Forecast(Blk, d.n) > sizes[i] - 1
      /\ ~Blk.multiple_set /\ Tracked(Blk, al, offset) =>
           /\ d.result = "blkd_in" => Tracked(Blk, d.al, offset)
           /\ d.result = "work" /\ MayWork(Blk) /\ Start > 0 =>
                Tracked(Blk, AlignmentAfter(d), (offset + d.n) % m)
  BY <1>1, <1>3, <1>4, DecisionTells, ZenonT(60)
<1>6. d.n \in Nat /\ d.n <= Start
  BY <1>3, <1>5
<1>7. Suits(d)
  BY <1>1, <1>5, <1>6 DEF Suits
<1>8. Works(d)
  <2>1. kind.noutputs > 0 => d.n <= space
    BY <1>1, <1>3, <1>6
  <2>2. d.result = "work" => \A i \in Inputs : Forecast(Blk, d.n) <= items[i]
    BY <1>1, <1>4, <1>5
  <2>3. /\ LimitsAllowWork => d.n > 0
        /\ Blk.multiple_set => d.n \in Multiples(Blk.multiple)
    BY <1>2, <1>3, <1>5
  <2> QED
    BY <2>1, <2>2, <2>3 DEF Works
<1>9. Keeps(d)
  BY <1>2, <1>3, <1>5 DEF Keeps
<1>10. Explains(d)
  <2>1. CASE d.result = "work"
    BY <2>1 DEF Explains
  <2>2. CASE d.result # "work"
    <3>1. PICK i \in 1..k :
            /\ Forecast(Blk, d.n) > items[i]
            /\ d.result = "done" => idone[i] \/ Forecast(Blk, d.n) > sizes[i] - 1
      BY <1>4, <1>5, <2>2
    <3>2. i \in Inputs /\ sizes[i] = InSize /\ InSize \in Nat /\ items[i] \in Nat
      BY <1>1, KindFacts
    <3>3. /\ Forecast(Blk, d.n) \in Int /\ Forecast(Blk, m) \in Int
          /\ Forecast(Blk, d.n) <= Forecast(Blk, m)
      BY <1>1, <1>5, <1>6, <2>2, ForecastMonotone, SMTT(60)
    <3>4. /\ Forecast(Blk, m) > items[i]
          /\ d.result = "done" => idone[i] \/ Forecast(Blk, m) > InSize - 1
      BY <3>1, <3>2, <3>3
    <3>5. ~CanRun(items)
      BY <3>2, <3>3, <3>4 DEF CanRun
    <3> QED
      BY <1>5, <3>2, <3>4, <3>5 DEF Explains
  <2> QED
    BY <2>1, <2>2
<1> QED
  BY <1>7, <1>8, <1>9, <1>10 DEF Allowed

(* Everything an iteration may come to.                                    *)
LEMMA OutcomeAllowed ==
  ASSUME Sane
  PROVE  Allowed(Outcome)
<1> DEFINE d == Outcome
           exhausted == \E i \in Inputs : InputExhausted(Blk, Sampled[i])
           verdict(r) == [result |-> r, n |-> 0, next |-> 0, al |-> al]
<1>1. /\ kind.ninputs \in Nat /\ kind.noutputs \in Nat /\ kind.ninputs + kind.noutputs > 0
  BY KindFacts
<1>2. d = CASE kind.noutputs = 0 /\ exhausted -> verdict("done")
            [] OutputBlocked -> verdict(IF odone THEN "out_done" ELSE "blkd_out")
            [] kind.ninputs = 0 /\ ~OutputBlocked ->
                 [verdict(IF Start = 0 THEN "blkd_out" ELSE "work") EXCEPT !.n = Start]
            [] kind.noutputs = 0 /\ Start = 0 /\ ~exhausted -> verdict("blkd_in")
            [] OTHER -> Decision(Blk, al, Sampled, [i \in Inputs |-> InSize], Start)
  BY DEF Outcome
<1>3. OutputBlocked => kind.noutputs > 0
  BY DEF OutputBlocked
<1>4. kind.ninputs = 0 => ~exhausted /\ kind.noutputs > 0
  BY <1>1 DEF Inputs
<1> HIDE DEF d
<1>5. CASE kind.noutputs = 0 /\ exhausted
  <2>1. d = verdict("done")
    BY <1>1, <1>2, <1>3, <1>4, <1>5
  <2> QED
    BY <1>5, <2>1, ExhaustedAllowed DEF d
<1>6. CASE OutputBlocked
  <2>1. d = verdict(IF odone THEN "out_done" ELSE "blkd_out")
    BY <1>1, <1>2, <1>3, <1>6
  <2> QED
    BY <1>6, <2>1, OutputBlockedAllowed DEF d
<1>7. CASE kind.ninputs = 0 /\ ~OutputBlocked
  <2>1. d = [verdict(IF Start = 0 THEN "blkd_out" ELSE "work") EXCEPT !.n = Start]
    BY <1>1, <1>2, <1>4, <1>7
  <2>2. d = [result |-> IF Start = 0 THEN "blkd_out" ELSE "work",
             n |-> Start, next |-> 0, al |-> al]
    BY <2>1
  <2> QED
    BY <1>7, <2>2, SourceAllowed DEF d
<1>8. CASE kind.noutputs = 0 /\ Start = 0 /\ ~exhausted /\ kind.ninputs # 0
  <2>1. d = verdict("blkd_in") /\ kind.ninputs > 0
    BY <1>1, <1>2, <1>3, <1>8
  <2> QED
    BY <1>8, <2>1, NoGuessAllowed DEF d
<1>9. CASE /\ ~(kind.noutputs = 0 /\ exhausted) /\ ~OutputBlocked /\ kind.ninputs # 0
           /\ ~(kind.noutputs = 0 /\ Start = 0)
  <2>1. d = Decision(Blk, al, Sampled, [i \in Inputs |-> InSize], Start) /\ kind.ninputs > 0
    BY <1>1, <1>2, <1>9
  <2> QED
    BY <1>9, <2>1, DecisionAllowed DEF d
<1> QED
  BY <1>5, <1>6, <1>7, <1>8, <1>9

LEMMA OutcomeIsResult ==
  Outcome.result \in {"work", "done", "out_done", "blkd_in", "blkd_out"}
<1> DEFINE dec == Decision(Blk, al, Sampled, [i \in Inputs |-> InSize], Start)
<1>1. dec.result \in {"work", "done", "blkd_in"}
  BY DEF Decision, Settled
<1> HIDE DEF dec
<1>2. Outcome.result \in {dec.result, "work", "done", "out_done", "blkd_in", "blkd_out"}
  BY DEF Outcome, dec
<1> QED
  BY <1>1, <1>2

-----------------------------------------------------------------------------
(***************************************************************************)
(* The steps.                                                              *)
(***************************************************************************)
LEMMA AfterIsSane ==
  ASSUME Sane, NEW d, Suits(d)
  PROVE  /\ AlignmentAfter(d) \in Alignments(Blk) /\ Proper(AlignmentAfter(d))
         /\ kind.ninputs = 0 => ~AlignmentAfter(d).is_unaligned
<1>1. d.al \in Alignments(Blk) /\ Proper(d.al) /\ d.next \in 0..Blk.multiple
      /\ (kind.ninputs = 0 => ~d.al.is_unaligned) /\ Blk.multiple \in Nat
  BY KindFacts DEF Suits
<1>2. CASE d.al.is_unaligned
  <2>1. PICK b \in BOOLEAN : b = (d.next # 0)
    OBVIOUS
  <2>2. AlignmentAfter(d) = [unaligned |-> d.next, is_unaligned |-> b]
    BY <1>2, <2>1, Zenon DEF AlignmentAfter
  <2>3. AlignmentAfter(d) \in Alignments(Blk)
    BY <1>1, <2>2 DEF Alignments
  <2>4. AlignmentAfter(d).unaligned = d.next /\ AlignmentAfter(d).is_unaligned = b
    BY <2>2
  <2>5. d.next # 0 => d.next > 0
    BY <1>1
  <2>6. Proper(AlignmentAfter(d))
    BY <2>1, <2>4, <2>5, Zenon DEF Proper
  <2>7. kind.ninputs # 0
    BY <1>1, <1>2, Zenon
  <2> QED
    BY <2>3, <2>6, <2>7, Zenon
<1>3. CASE ~d.al.is_unaligned
  <2>1. AlignmentAfter(d) = d.al
    BY <1>3 DEF AlignmentAfter
  <2> QED
    BY <1>1, <1>3, <2>1
<1> QED
  BY <1>2, <1>3

(* What general_work makes takes no more than it was promised.             *)
LEMMA MadeFits ==
  ASSUME Sane, NEW d, Suits(d), Works(d), d.result = "work", NEW made \in 0..d.n
  PROVE  /\ [i \in Inputs |-> items[i] - (made * Blk.down) \div Blk.up] \in [Inputs -> 0..InSize-1]
         /\ (IF kind.noutputs > 0 THEN space - made ELSE space) \in 0..OutSize-1
         /\ (offset + made) % Blk.multiple \in 0..Blk.multiple-1
<1>1. /\ d.n \in Nat /\ made \in Nat /\ Blk \in Descriptions /\ InSize \in Nat /\ OutSize \in Nat
      /\ space \in 0..OutSize-1 /\ items \in [Inputs -> 0..InSize-1]
      /\ offset \in 0..Blk.multiple-1 /\ Blk.multiple \in Positive
      /\ kind.noutputs > 0 => d.n <= space
  BY KindFacts DEF Suits, Works, Sane, TypeOK
<1> DEFINE taken == (made * Blk.down) \div Blk.up
<1>2. /\ taken \in Nat /\ taken <= Forecast(Blk, d.n) /\ Forecast(Blk, d.n) \in Int
  BY <1>1, LessTakesLess, ForecastIsInt
<1>3. \A i \in Inputs : Forecast(Blk, d.n) <= items[i]
  BY DEF Works
<1> HIDE DEF taken
<1>4. ASSUME NEW i \in Inputs PROVE items[i] - taken \in 0..InSize-1
  <2>1. items[i] \in 0..InSize-1 /\ Forecast(Blk, d.n) <= items[i]
    BY <1>1, <1>3
  <2> QED
    BY <1>1, <1>2, <2>1
<1>5. (IF kind.noutputs > 0 THEN space - made ELSE space) \in 0..OutSize-1
  BY <1>1
<1>6. (offset + made) % Blk.multiple \in 0..Blk.multiple-1
  <2>1. offset + made \in Int
    <3>1. Blk.multiple \in Int
      BY KindFacts
    <3> QED
      BY <1>1, <3>1
  <2> QED
    BY <1>1, <2>1, RemainderInRange
<1>7. [i \in Inputs |-> items[i] - taken] \in [Inputs -> 0..InSize-1]
  BY <1>4
<1> QED
  BY <1>5, <1>6, <1>7 DEF taken

(* An iteration, taken apart.                                              *)
LEMMA IterationFacts ==
  ASSUME Sane, RunOneIteration
  PROVE  \E d : /\ Allowed(d) /\ d = Outcome
                /\ d_done' = (d.result \in {"done", "out_done"})
                /\ call' = [result |-> d.result, n |-> d.n, space |-> space]
                /\ UNCHANGED <<kind, idone, odone>> /\ Sane'
                /\ d.result # "work" => al' = d.al /\ UNCHANGED <<items, space, offset>>
                /\ d.result = "work" =>
                     /\ al' = AlignmentAfter(d)
                     /\ \E made \in 0..d.n : /\ kind.whole => made = d.n
                                             /\ offset' = (offset + made) % Blk.multiple
<1>1. PICK d : d = Outcome
  OBVIOUS
<1>2. Allowed(d) /\ Suits(d) /\ Works(d) /\ d.n \in Nat
  BY <1>1, OutcomeAllowed DEF Allowed, Suits
<1>3. /\ d_done' = (d.result \in {"done", "out_done"})
      /\ call' = [result |-> d.result, n |-> d.n, space |-> space]
      /\ UNCHANGED <<kind, idone, odone>>
      /\ IF d.result = "work"
         THEN \E made \in (IF kind.whole THEN {d.n} ELSE 0..d.n) :
                /\ items' = [i \in Inputs |-> items[i] - (made * Blk.down) \div Blk.up]
                /\ space' = IF kind.noutputs > 0 THEN space - made ELSE space
                /\ offset' = (offset + made) % Blk.multiple
                /\ al' = AlignmentAfter(d)
         ELSE al' = d.al /\ UNCHANGED <<items, space, offset>>
  BY <1>1 DEF RunOneIteration
<1>4. /\ kind' = kind /\ Blk' = Blk /\ Inputs' = Inputs /\ InSize' = InSize /\ OutSize' = OutSize
      /\ idone' = idone /\ odone' = odone /\ d_done' \in BOOLEAN
  BY <1>3 DEF Blk, Inputs, InSize, OutSize
<1>5. CASE d.result # "work"
  <2>1. al' = d.al /\ items' = items /\ space' = space /\ offset' = offset
    BY <1>3, <1>5
  <2>2. Sane'
    BY <1>2, <1>4, <2>1 DEF Sane, TypeOK, Suits
  <2> QED
    BY <1>1, <1>2, <1>3, <1>5, <2>1, <2>2
<1>6. CASE d.result = "work"
  <2>1. PICK made \in (IF kind.whole THEN {d.n} ELSE 0..d.n) :
          /\ items' = [i \in Inputs |-> items[i] - (made * Blk.down) \div Blk.up]
          /\ space' = IF kind.noutputs > 0 THEN space - made ELSE space
          /\ offset' = (offset + made) % Blk.multiple
          /\ al' = AlignmentAfter(d)
    BY <1>3, <1>6
  <2>2. made \in 0..d.n /\ (kind.whole => made = d.n)
    BY <1>2
  <2>3. /\ items' \in [Inputs -> 0..InSize-1] /\ space' \in 0..OutSize-1
        /\ offset' \in 0..Blk.multiple-1
    BY <1>2, <1>6, <2>1, <2>2, MadeFits
  <2>4. /\ al' \in Alignments(Blk) /\ Proper(al')
        /\ kind.ninputs = 0 => ~al'.is_unaligned
    BY <1>2, <2>1, AfterIsSane
  <2>5. Sane'
    BY <1>4, <2>3, <2>4 DEF Sane, TypeOK
  <2> QED
    BY <1>1, <1>2, <1>3, <1>6, <2>1, <2>2, <2>5
<1> QED
  BY <1>5, <1>6

(* Everything else leaves the block, its flags and its output alone.       *)
LEMMA ElsewhereFacts ==
  ASSUME Sane, [Next]_vars, ~RunOneIteration
  PROVE  /\ Sane' /\ UNCHANGED <<kind, al, offset, d_done>>
         /\ call' = NoCall \/ UNCHANGED vars
<1>1. InSize \in Nat /\ OutSize \in Nat /\ space \in Nat /\ \A i \in Inputs : items[i] \in Nat
  BY KindFacts
<1>2. ASSUME UNCHANGED kind
      PROVE  Blk' = Blk /\ Inputs' = Inputs /\ InSize' = InSize /\ OutSize' = OutSize
  BY <1>2 DEF Blk, Inputs, InSize, OutSize
<1>3. ASSUME NEW i \in Inputs, NEW k \in 1..InSize-1, Arrive(i, k)
      PROVE  Sane' /\ UNCHANGED <<kind, al, offset, d_done>> /\ call' = NoCall
  <2>1. items[i] + k \in 0..InSize-1 /\ items \in [Inputs -> 0..InSize-1]
    BY <1>1, <1>3 DEF Arrive, Sane, TypeOK
  <2>2. items' \in [Inputs -> 0..InSize-1]
    BY <1>3, <2>1 DEF Arrive
  <2> QED
    BY <1>2, <1>3, <2>2 DEF Arrive, Sane, TypeOK
<1>4. ASSUME NEW i \in Inputs, UpstreamDone(i)
      PROVE  Sane' /\ UNCHANGED <<kind, al, offset, d_done>> /\ call' = NoCall
  BY <1>2, <1>4 DEF UpstreamDone, Sane, TypeOK
<1>5. ASSUME NEW k \in 1..OutSize-1, Drain(k)
      PROVE  Sane' /\ UNCHANGED <<kind, al, offset, d_done>> /\ call' = NoCall
  <2>1. space' \in 0..OutSize-1
    BY <1>1, <1>5 DEF Drain
  <2> QED
    BY <1>2, <1>5, <2>1 DEF Drain, Sane, TypeOK
<1>6. ASSUME DownstreamDone
      PROVE  Sane' /\ UNCHANGED <<kind, al, offset, d_done>> /\ call' = NoCall
  BY <1>2, <1>6 DEF DownstreamDone, Sane, TypeOK
<1>7. ASSUME UNCHANGED vars
      PROVE  Sane' /\ UNCHANGED <<kind, al, offset, d_done>>
  BY <1>2, <1>7 DEF vars, Sane, TypeOK
<1> QED
  BY <1>3, <1>4, <1>5, <1>6, <1>7 DEF Next, Retired

LEMMA SaneAtFirst == Init => Sane
<1> SUFFICES ASSUME Init PROVE Sane
  OBVIOUS
<1>1. /\ kind \in Kinds /\ Blk \in Descriptions /\ InSize \in Nat /\ OutSize \in Nat
      /\ OutSize > 0 /\ Blk.history <= InSize
  BY KindsAssumption DEF Init, Blk, InSize, OutSize, Positive
<1>2. Blk.history \in Nat /\ Blk.history > 0 /\ Blk.multiple \in Nat /\ Blk.multiple > 0
  BY <1>1, MultipleIsPositive
<1>3. Blk.history - 1 \in 0..InSize-1 /\ OutSize - 1 \in 0..OutSize-1 /\ 0 \in 0..Blk.multiple-1
      /\ 0 \in 0..Blk.multiple
  BY <1>1, <1>2
<1>4. al \in Alignments(Blk) /\ ~al.is_unaligned
  BY <1>3 DEF Init, Alignments
<1> QED
  BY <1>1, <1>3, <1>4 DEF Init, Sane, TypeOK, Proper
(* What the block is told of its room, output and alignment, kept.         *)
RequestsKept == Sane /\ RequestsAreSound

(* Why it was not called, kept.                                            *)
VerdictsKept == Sane /\ VerdictsHaveReasons

LEMMA NoCallSays ==
  ASSUME call = NoCall
  PROVE  RequestFitsOutput /\ MultipleHonoured /\ VerdictsHaveReasons
<1>1. call.result = "none"
  BY DEF NoCall
<1> QED
  BY <1>1 DEF RequestFitsOutput, MultipleHonoured, VerdictsHaveReasons,
              BlockedInForReason, BlockedOutForReason, DoneForReason

LEMMA SaneForever == Spec => []Sane
<1>1. Sane /\ [Next]_vars => Sane'
  BY IterationFacts, ElsewhereFacts
<1> QED
  BY <1>1, SaneAtFirst, PTL DEF Spec

(* Whatever the rates, history, multiple, limits and buffers of a block:   *)
(* the executor never consumes more than there is nor makes more than      *)
(* there is room for, and its flags of alignment stay within a vector      *)
(* (block_executor.cc:172-471).                                            *)
THEOREM CallsTyping == Spec => []TypeOK
<1>1. Sane => TypeOK
  BY DEF Sane
<1> QED
  BY <1>1, SaneForever, PTL

-----------------------------------------------------------------------------
(* The flags after an iteration that does not finish the block.            *)
LEMMA FlagsStayTrue ==
  ASSUME LimitsAllowWork, AlignedBlocksAreWhole, RequestsKept, RunOneIteration
  PROVE  AlignmentTracked'
<1>1. Sane /\ ~d_done /\ AlignmentTracked
  BY DEF RequestsKept, RequestsAreSound, RunOneIteration
<1>2. PICK d : /\ Allowed(d) /\ d = Outcome
               /\ d_done' = (d.result \in {"done", "out_done"})
               /\ UNCHANGED kind
               /\ d.result # "work" => al' = d.al /\ UNCHANGED offset
               /\ d.result = "work" =>
                    /\ al' = AlignmentAfter(d)
                    /\ \E made \in 0..d.n : /\ kind.whole => made = d.n
                                            /\ offset' = (offset + made) % Blk.multiple
  BY <1>1, IterationFacts
<1>3. Blk' = Blk
  BY <1>2 DEF Blk
<1> SUFFICES ASSUME ~Blk.multiple_set, ~d_done' PROVE Tracked(Blk, al', offset')
  BY <1>3 DEF AlignmentTracked, Tracked
<1>4. Tracked(Blk, al, offset)
  BY <1>1 DEF AlignmentTracked, Tracked
<1>5. /\ d.result # "work" => Tracked(Blk, d.al, offset)
      /\ d.result = "work" => Tracked(Blk, AlignmentAfter(d), (offset + d.n) % Blk.multiple)
  <2>1. d.result \in {"work", "blkd_in", "blkd_out"}
    BY <1>2, OutcomeIsResult
  <2> QED
    BY <1>2, <1>4, <2>1 DEF Allowed, Keeps
<1>6. CASE d.result # "work"
  BY <1>2, <1>5, <1>6
<1>7. CASE d.result = "work"
  <2>1. PICK made \in 0..d.n : /\ kind.whole => made = d.n
                               /\ offset' = (offset + made) % Blk.multiple
    BY <1>2, <1>7
  <2>2. Blk.multiple = 1 \/ kind.whole
    BY <1>1 DEF AlignedBlocksAreWhole, Sane, Blk
  <2>3. offset' = (offset + d.n) % Blk.multiple
    <3>1. CASE kind.whole
      BY <2>1, <3>1
    <3>2. CASE Blk.multiple = 1
      <4>1. offset + made \in Int /\ offset + d.n \in Int
        BY <1>1, <1>2, <2>1, KindFacts DEF Allowed, Suits
      <4>2. 1 \in Positive
        BY DEF Positive
      <4>3. (offset + made) % 1 \in 0..1 - 1 /\ (offset + d.n) % 1 \in 0..1 - 1
        BY <4>1, <4>2, RemainderInRange
      <4> QED
        BY <2>1, <3>2, <4>3
    <3> QED
      BY <2>2, <3>1, <3>2
  <2> QED
    BY <1>2, <1>5, <1>7, <2>3
<1> QED
  BY <1>6, <1>7

(* For every kind of block whose limit lets it work, and that fills the    *)
(* vectors it asked for: each call of general_work asks for what there is  *)
(* room for and for a multiple of the block's output multiple, and the     *)
(* flags tell how far its output is from the end of a vector, over any     *)
(* sequence of calls refused, halved and capped (block_executor.cc:        *)
(* 300-381).                                                               *)
THEOREM RequestsAlwaysSound ==
  ASSUME LimitsAllowWork, AlignedBlocksAreWhole
  PROVE  Spec => []RequestsAreSound
<1>1. Init => RequestsKept
  <2> SUFFICES ASSUME Init PROVE RequestsKept
    OBVIOUS
  <2>1. AlignmentTracked
    BY DEF Init, AlignmentTracked
  <2>2. call = NoCall
    BY DEF Init
  <2> QED
    BY <2>1, <2>2, NoCallSays, SaneAtFirst DEF RequestsAreSound, RequestsKept
<1>2. RequestsKept /\ [Next]_vars => RequestsKept'
  <2> SUFFICES ASSUME RequestsKept, [Next]_vars PROVE RequestsKept'
    OBVIOUS
  <2>1. Sane /\ RequestsAreSound
    BY DEF RequestsKept
  <2>2. CASE RunOneIteration
    <3>1. PICK d : /\ Allowed(d) /\ UNCHANGED kind /\ Sane'
                   /\ call' = [result |-> d.result, n |-> d.n, space |-> space]
      BY <2>1, <2>2, IterationFacts
    <3>2. /\ Blk' = Blk /\ kind' = kind
          /\ call'.result = d.result /\ call'.n = d.n /\ call'.space = space
      BY <3>1 DEF Blk
    <3>3. RequestFitsOutput'
      BY <3>1, <3>2 DEF RequestFitsOutput, Allowed, Works
    <3>4. MultipleHonoured'
      <4> SUFFICES ASSUME d.result = "work"
                   PROVE  d.n > 0 /\ (Blk.multiple_set => d.n % Blk.multiple = 0)
        BY <3>2 DEF MultipleHonoured
      <4>1. d.n > 0 /\ (Blk.multiple_set => d.n \in Multiples(Blk.multiple))
        BY <3>1 DEF Allowed, Works
      <4>2. Blk.multiple \in Positive
        BY <2>1, KindFacts
      <4> QED
        BY <4>1, <4>2, MultipleFacts
    <3>5. AlignmentTracked'
      BY <2>2, FlagsStayTrue
    <3> QED
      BY <3>1, <3>3, <3>4, <3>5 DEF RequestsKept, RequestsAreSound
  <2>3. CASE ~RunOneIteration
    <3>1. /\ Sane' /\ UNCHANGED <<kind, al, offset, d_done>>
          /\ call' = NoCall \/ UNCHANGED vars
      BY <2>1, <2>3, ElsewhereFacts
    <3>2. Blk' = Blk
      BY <3>1 DEF Blk
    <3>3. AlignmentTracked'
      BY <2>1, <3>1, <3>2 DEF AlignmentTracked, RequestsAreSound
    <3>4. RequestFitsOutput' /\ MultipleHonoured'
      <4>1. CASE call' = NoCall
        <5>1. call'.result = "none"
          BY <4>1 DEF NoCall
        <5> QED
          BY <5>1 DEF RequestFitsOutput, MultipleHonoured
      <4>2. CASE UNCHANGED vars
        BY <2>1, <3>2, <4>2 DEF vars, RequestsAreSound, RequestFitsOutput, MultipleHonoured
      <4> QED
        BY <3>1, <4>1, <4>2
    <3> QED
      BY <3>1, <3>3, <3>4 DEF RequestsKept, RequestsAreSound
  <2> QED
    BY <2>2, <2>3
<1>3. RequestsKept => RequestsAreSound
  BY DEF RequestsKept
<1> QED
  BY <1>1, <1>2, <1>3, PTL DEF Spec

-----------------------------------------------------------------------------
(* For every kind of block whose limit lets it work, a sink without        *)
(* interpolation: a block waits for its inputs only when one holds too     *)
(* little for a single output multiple, for its outputs only when they     *)
(* have no room for one, and is done only when an input that has ended, or *)
(* can never hold enough, holds too little (block_executor.cc:184-416).    *)
THEOREM VerdictsAlwaysExplained ==
  ASSUME LimitsAllowWork, SinksDoNotInterpolate
  PROVE  Spec => []VerdictsHaveReasons
<1>1. Init => VerdictsKept
  <2> SUFFICES ASSUME Init PROVE VerdictsKept
    OBVIOUS
  <2>1. call = NoCall
    BY DEF Init
  <2> QED
    BY <2>1, NoCallSays, SaneAtFirst DEF VerdictsKept
<1>2. VerdictsKept /\ [Next]_vars => VerdictsKept'
  <2> SUFFICES ASSUME VerdictsKept, [Next]_vars PROVE VerdictsKept'
    OBVIOUS
  <2>1. Sane /\ VerdictsHaveReasons
    BY DEF VerdictsKept
  <2>2. CASE RunOneIteration
    <3>1. PICK d : /\ Allowed(d) /\ UNCHANGED <<kind, idone>> /\ Sane'
                   /\ call' = [result |-> d.result, n |-> d.n, space |-> space]
                   /\ d.result # "work" => UNCHANGED items
      BY <2>1, <2>2, IterationFacts
    <3>2. /\ Blk' = Blk /\ Inputs' = Inputs /\ InSize' = InSize /\ OutSize' = OutSize
          /\ idone' = idone
          /\ call'.result = d.result /\ call'.n = d.n /\ call'.space = space
      BY <3>1 DEF Blk, Inputs, InSize, OutSize
    <3>3. Explains(d)
      BY <3>1 DEF Allowed
    <3>4. BlockedInForReason'
      <4> SUFFICES ASSUME d.result = "blkd_in" PROVE ~CanRun(items)'
        BY <3>2 DEF BlockedInForReason
      <4>1. items' = items /\ ~CanRun(items)
        BY <3>1, <3>3 DEF Explains
      <4> QED
        BY <3>2, <4>1 DEF CanRun
    <3>5. BlockedOutForReason'
      <4> SUFFICES ASSUME d.result = "blkd_out"
                   PROVE  \/ AtMost(space, OutSize \div 2) < Blk.multiple
                          \/ Room(Blk, space, OutSize) < Blk.min_noutput
        BY <3>2 DEF BlockedOutForReason
      <4> QED
        BY <3>3 DEF Explains, room
    <3>6. DoneForReason'
      <4> SUFFICES ASSUME d.result = "done"
                   PROVE  \E i \in Inputs :
                            /\ Forecast(Blk, Blk.multiple) > items'[i]
                            /\ idone[i] \/ Forecast(Blk, Blk.multiple) > InSize - 1
        BY <3>2 DEF DoneForReason
      <4>1. items' = items
        BY <3>1
      <4> QED
        BY <3>3, <4>1 DEF Explains
    <3> QED
      BY <3>1, <3>4, <3>5, <3>6 DEF VerdictsKept, VerdictsHaveReasons
  <2>3. CASE ~RunOneIteration
    <3>1. Sane' /\ UNCHANGED kind /\ (call' = NoCall \/ UNCHANGED vars)
      BY <2>1, <2>3, ElsewhereFacts
    <3>2. CASE call' = NoCall
      <4>1. call'.result = "none"
        BY <3>2 DEF NoCall
      <4> QED
        BY <3>1, <4>1 DEF VerdictsKept, VerdictsHaveReasons,
                          BlockedInForReason, BlockedOutForReason, DoneForReason
    <3>3. CASE UNCHANGED vars
      <4>1. /\ kind' = kind /\ items' = items /\ idone' = idone /\ call' = call
            /\ Blk' = Blk /\ Inputs' = Inputs /\ InSize' = InSize /\ OutSize' = OutSize
        BY <3>3 DEF vars, Blk, Inputs, InSize, OutSize
      <4>2. VerdictsHaveReasons'
        BY <2>1, <4>1 DEF VerdictsHaveReasons, BlockedInForReason, BlockedOutForReason,
                          DoneForReason, CanRun
      <4> QED
        BY <3>1, <4>2 DEF VerdictsKept
    <3> QED
      BY <3>1, <3>2, <3>3
  <2> QED
    BY <2>2, <2>3
<1>3. VerdictsKept => VerdictsHaveReasons
  BY DEF VerdictsKept
<1> QED
  BY <1>1, <1>2, <1>3, PTL DEF Spec

=============================================================================
