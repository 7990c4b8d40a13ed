---------------------------- MODULE EditorProofs ----------------------------
(***************************************************************************)
(* What is proved of the editor for any number of pages, flow graphs,      *)
(* files and processes and any size of the undo list: that the circular    *)
(* array of StateCache.tla is a history (UndoHistory.tla), each method     *)
(* doing to Past, CurrentState and Future what the history's operation of  *)
(* that name does; the editor's types; that every page's undo list is a    *)
(* history (CachesAreHistories); that a page agrees with its file and with *)
(* its undo list (PagesAgree); that a process can be stopped from its page *)
(* (ProcessesCanBeStopped); and that no unsaved page goes without the      *)
(* user's answer (AskedBeforeLost).                                        *)
(***************************************************************************)
EXTENDS Editor, SequenceTheorems, TLAPS

-----------------------------------------------------------------------------
(* The undo list.                                                          *)

\* the slots in use hold states
Written(c) ==
  /\ CurrentState(c) \in Graphs
  /\ \A i \in 1..c.num_prev : Past(c)[i] \in Graphs
  /\ \A i \in 1..c.num_next : Future(c)[i] \in Graphs

Sound(c) == c \in CacheType /\ Fits(c) /\ Written(c)

LEMMA Wrap ==
  ASSUME NEW x \in Nat, x < 2 * STATE_CACHE_SIZE
  PROVE  x % STATE_CACHE_SIZE = IF x < STATE_CACHE_SIZE THEN x ELSE x - STATE_CACHE_SIZE
PROOF
<1> DEFINE N == STATE_CACHE_SIZE
<1>1. N \in Nat /\ N > 0
  BY SizeAssumption
<1>2. CASE x < N
  BY <1>1, <1>2, SMT
<1>3. CASE x >= N
  <2>1. x = N * 1 + (x - N) /\ x - N \in 0..(N - 1)
    BY <1>1, <1>3, SMT
  <2>2. x % N = x - N
    BY <1>1, <2>1, SMT
  <2> QED BY <2>2, <1>3, <1>1
<1> QED BY <1>1, <1>2, <1>3

\* the slots without the remainders
LEMMA Neighbours ==
  ASSUME NEW i \in Slots
  PROVE  /\ NextSlot(i) = IF i + 1 < STATE_CACHE_SIZE THEN i + 1 ELSE 0
         /\ PrevSlot(i) = IF i > 0 THEN i - 1 ELSE STATE_CACHE_SIZE - 1
         /\ NextSlot(i) \in Slots /\ PrevSlot(i) \in Slots
PROOF
<1> DEFINE N == STATE_CACHE_SIZE
<1>1. N \in Nat /\ N > 0 /\ i \in Nat /\ i < N
  BY SizeAssumption DEF Slots
<1>2. (i + 1) % N = IF i + 1 < N THEN i + 1 ELSE i + 1 - N
  BY <1>1, i + 1 \in Nat, i + 1 < 2 * N, Wrap
<1>3. (i + N - 1) % N = IF i + N - 1 < N THEN i + N - 1 ELSE i + N - 1 - N
  BY <1>1, i + N - 1 \in Nat, i + N - 1 < 2 * N, Wrap
<1> QED BY <1>1, <1>2, <1>3 DEF NextSlot, PrevSlot, Slots

LEMMA PastAt ==
  ASSUME NEW c \in CacheType, Fits(c), NEW i \in 1..c.num_prev
  PROVE  LET k == c.current - c.num_prev + i - 1
         IN  Past(c)[i] = c.states[IF k >= 0 THEN k ELSE k + STATE_CACHE_SIZE]
PROOF
<1> DEFINE N == STATE_CACHE_SIZE
           x == c.current + N - c.num_prev + i - 1
<1>1. /\ N \in Nat /\ N > 0 /\ c.current \in Nat /\ c.current < N
      /\ c.num_prev \in Nat /\ c.num_next \in Nat /\ c.num_prev + c.num_next <= N - 1
  BY SizeAssumption DEF CacheType, Slots, Fits
<1>2. x \in Nat /\ x < 2 * N
  BY <1>1
<1>3. x % N = IF x < N THEN x ELSE x - N
  BY <1>2, Wrap
<1>4. Past(c)[i] = c.states[x % N]
  BY DEF Past
<1> QED BY <1>1, <1>3, <1>4

LEMMA FutureAt ==
  ASSUME NEW c \in CacheType, Fits(c), NEW i \in 1..c.num_next
  PROVE  LET k == c.current + i
         IN  Future(c)[i] = c.states[IF k < STATE_CACHE_SIZE THEN k ELSE k - STATE_CACHE_SIZE]
PROOF
<1> DEFINE N == STATE_CACHE_SIZE
           x == c.current + i
<1>1. /\ N \in Nat /\ N > 0 /\ c.current \in Nat /\ c.current < N
      /\ c.num_prev \in Nat /\ c.num_next \in Nat /\ c.num_prev + c.num_next <= N - 1
  BY SizeAssumption DEF CacheType, Slots, Fits
<1>2. x \in Nat /\ x < 2 * N
  BY <1>1
<1>3. x % N = IF x < N THEN x ELSE x - N
  BY <1>2, Wrap
<1>4. Future(c)[i] = c.states[x % N]
  BY DEF Future
<1> QED BY <1>3, <1>4

LEMMA Sequences ==
  ASSUME NEW c, Sound(c)
  PROVE  /\ Past(c) \in Seq(Graphs) /\ Len(Past(c)) = c.num_prev
         /\ Future(c) \in Seq(Graphs) /\ Len(Future(c)) = c.num_next
         /\ c.num_prev \in Nat /\ c.num_next \in Nat
PROOF
<1>1. c.num_prev \in Nat /\ c.num_next \in Nat
  BY DEF Sound, CacheType
<1>2. Past(c) \in [1..c.num_prev -> Graphs]
  BY DEF Sound, Written, Past
<1>3. Future(c) \in [1..c.num_next -> Graphs]
  BY DEF Sound, Written, Future
<1> QED BY <1>1, <1>2, <1>3, SeqDef, LenProperties

\* save_new_state records: the present joins the past, which forgets its oldest state
\* when the array is full, and the future is gone
LEMMA SaveRecords ==
  ASSUME NEW c, Sound(c), NEW s \in Graphs
  PROVE  LET d == SaveNewState(c, s)
             q == Append(Past(c), CurrentState(c))
         IN  /\ Sound(d)
             /\ Past(d) = IF Len(Past(c)) = STATE_CACHE_SIZE - 1 THEN Tail(q) ELSE q
             /\ CurrentState(d) = s
             /\ Future(d) = << >>
PROOF
<1> DEFINE N == STATE_CACHE_SIZE
           d == SaveNewState(c, s)
           q == Append(Past(c), CurrentState(c))
           r == IF Len(Past(c)) = N - 1 THEN Tail(q) ELSE q
<1>1. /\ N \in Nat /\ N > 0 /\ c.current \in Nat /\ c.current < N /\ c.current \in Slots
      /\ c.num_prev \in Nat /\ c.num_next \in Nat /\ c.num_prev + c.num_next <= N - 1
      /\ c \in CacheType /\ Fits(c)
  BY SizeAssumption DEF Sound, CacheType, Slots, Fits
<1>2. /\ d.current = (IF c.current + 1 < N THEN c.current + 1 ELSE 0)
      /\ d.current \in Slots
      /\ d.num_prev = (IF c.num_prev + 1 = N THEN N - 1 ELSE c.num_prev + 1)
      /\ d.num_next = 0
      /\ d.states = [c.states EXCEPT ![d.current] = s]
  BY <1>1, Neighbours DEF SaveNewState
<1>3. d \in CacheType /\ Fits(d)
  <2>1. d.states \in [Slots -> Graphs \cup {NoState}]
    BY <1>1, <1>2 DEF CacheType
  <2>2. d.num_prev \in Nat /\ d.num_prev + d.num_next <= N - 1
    BY <1>1, <1>2
  <2>3. d = [states |-> d.states, current |-> d.current, num_prev |-> d.num_prev,
             num_next |-> d.num_next]
    BY DEF SaveNewState
  <2> QED BY <1>2, <2>1, <2>2, <2>3 DEF CacheType, Fits
<1>4. CurrentState(d) = s /\ d.num_next = 0
  BY <1>1, <1>2 DEF CurrentState, CacheType
<1>5. Future(d) = << >>
  BY <1>2 DEF Future
<1>6. /\ Past(c) \in Seq(Graphs) /\ Len(Past(c)) = c.num_prev
      /\ CurrentState(c) \in Graphs
  BY Sequences DEF Sound, Written
<1>7. /\ q \in Seq(Graphs) /\ q # << >> /\ Len(q) = c.num_prev + 1
      /\ \A i \in 1..c.num_prev : q[i] = Past(c)[i]
      /\ q[c.num_prev + 1] = CurrentState(c)
  BY <1>6, AppendProperties
<1>8. r \in Seq(Graphs) /\ Len(r) = d.num_prev
  BY <1>1, <1>2, <1>6, <1>7, HeadTailProperties
<1>9. ASSUME NEW i \in 1..d.num_prev PROVE Past(d)[i] = r[i]
  <2> DEFINE k == d.current - d.num_prev + i - 1
             j == IF k >= 0 THEN k ELSE k + N
  <2>1. Past(d)[i] = d.states[j]
    BY <1>3, PastAt
  <2>2. j \in Slots /\ j # d.current
    BY <1>1, <1>2 DEF Slots
  <2>3. d.states[j] = c.states[j]
    BY <1>1, <1>2, <2>2 DEF CacheType
  <2>4. CASE c.num_prev + 1 = N /\ i < d.num_prev
    <3>1. i + 1 \in 1..c.num_prev /\ r[i] = q[i + 1] /\ q[i + 1] = Past(c)[i + 1]
      BY <1>1, <1>2, <1>6, <1>7, <1>8, <2>4, HeadTailProperties
    <3> DEFINE l == c.current - c.num_prev + (i + 1) - 1
    <3>2. Past(c)[i + 1] = c.states[IF l >= 0 THEN l ELSE l + N]
      BY <1>1, <3>1, PastAt
    <3>3. (IF l >= 0 THEN l ELSE l + N) = j
      BY <1>1, <1>2, <2>4
    <3> QED BY <2>1, <2>3, <3>1, <3>2, <3>3
  <2>5. CASE c.num_prev + 1 # N /\ i <= c.num_prev
    <3>1. i \in 1..c.num_prev /\ r[i] = Past(c)[i]
      BY <1>1, <1>2, <1>6, <1>7, <2>5
    <3> DEFINE l == c.current - c.num_prev + i - 1
    <3>2. Past(c)[i] = c.states[IF l >= 0 THEN l ELSE l + N]
      BY <1>1, <3>1, PastAt
    <3>3. (IF l >= 0 THEN l ELSE l + N) = j
      BY <1>1, <1>2, <2>5
    <3> QED BY <2>1, <2>3, <3>1, <3>2, <3>3
  <2>6. CASE (c.num_prev + 1 = N /\ i = d.num_prev) \/ i = c.num_prev + 1
    <3>1. r[i] = CurrentState(c)
      BY <1>1, <1>2, <1>6, <1>7, <1>8, <2>6, HeadTailProperties
    <3>2. j = c.current
      BY <1>1, <1>2, <2>6
    <3> QED BY <2>1, <2>3, <3>1, <3>2 DEF CurrentState
  <2>7. \/ c.num_prev + 1 = N /\ i < d.num_prev
        \/ c.num_prev + 1 # N /\ i <= c.num_prev
        \/ (c.num_prev + 1 = N /\ i = d.num_prev) \/ i = c.num_prev + 1
    BY <1>1, <1>2
  <2> HIDE DEF r, d
  <2> QED BY <2>4, <2>5, <2>6, <2>7
<1>10. Written(d)
  <2>1. \A i \in 1..d.num_prev : r[i] \in Graphs
    BY <1>8, LenProperties
  <2>2. 1..d.num_next = {}
    BY <1>2
  <2> HIDE DEF r, d
  <2> QED BY <1>4, <1>9, <2>1, <2>2 DEF Written
<1>11. Sound(d)
  BY <1>3, <1>10 DEF Sound
<1>12. Past(d) = r
  <2>1. Past(d) \in Seq(Graphs) /\ Len(Past(d)) = d.num_prev
    BY <1>11, Sequences
  <2> HIDE DEF r, d
  <2> QED BY <1>8, <1>9, <2>1, SeqEqual
<1> QED BY <1>4, <1>5, <1>11, <1>12

\* a fresh cache is a history that begins
LEMMA NewBegins ==
  ASSUME NEW s \in Graphs
  PROVE  LET d == NewCache(s)
         IN  Sound(d) /\ Past(d) = << >> /\ CurrentState(d) = s /\ Future(d) = << >>
PROOF
<1> DEFINE d == NewCache(s)
<1>1. 0 \in Slots
  BY SizeAssumption DEF Slots
<1>2. d \in CacheType /\ Fits(d) /\ CurrentState(d) = s
  BY <1>1, SizeAssumption DEF NewCache, CacheType, Fits, CurrentState
<1>3. d.num_prev = 0 /\ d.num_next = 0
  BY DEF NewCache
<1>4. Past(d) = << >> /\ Future(d) = << >>
  BY <1>3 DEF Past, Future
<1> QED BY <1>2, <1>3, <1>4 DEF Sound, Written

\* get_prev_state undoes: the latest of the past becomes the present, and the present
\* the first of the future
LEMMA PrevUndoes ==
  ASSUME NEW c, Sound(c), CanUndo(c)
  PROVE  LET d == ToPrevState(c)
         IN  /\ Sound(d)
             /\ Past(c) # << >>
             /\ Past(d) = SubSeq(Past(c), 1, Len(Past(c)) - 1)
             /\ CurrentState(d) = Past(c)[Len(Past(c))]
             /\ Future(d) = <<CurrentState(c)>> \o Future(c)
PROOF
<1> DEFINE N == STATE_CACHE_SIZE
           d == ToPrevState(c)
           p == SubSeq(Past(c), 1, Len(Past(c)) - 1)
           f == <<CurrentState(c)>> \o Future(c)
<1>1. /\ N \in Nat /\ N > 0 /\ c.current \in Nat /\ c.current < N /\ c.current \in Slots
      /\ c.num_prev \in Nat /\ c.num_next \in Nat /\ c.num_prev + c.num_next <= N - 1
      /\ c \in CacheType /\ Fits(c) /\ c.num_prev > 0
  BY SizeAssumption DEF Sound, CacheType, Slots, Fits, CanUndo
<1>2. /\ d.current = (IF c.current > 0 THEN c.current - 1 ELSE N - 1)
      /\ d.current \in Slots
      /\ d.num_prev = c.num_prev - 1 /\ d.num_next = c.num_next + 1
      /\ d.states = c.states
  BY <1>1, Neighbours DEF ToPrevState, CacheType
<1>3. d \in CacheType /\ Fits(d)
  <2>1. PrevSlot(c.current) \in Slots /\ c.num_next + 1 \in Nat /\ c.num_prev - 1 \in Nat
    BY <1>1, Neighbours
  <2>2. d \in CacheType
    BY <1>1, <2>1 DEF ToPrevState, CacheType
  <2>3. d.num_prev + d.num_next <= N - 1
    BY <1>1, <1>2
  <2> QED BY <2>2, <2>3 DEF Fits
<1>4. /\ Past(c) \in Seq(Graphs) /\ Len(Past(c)) = c.num_prev /\ Past(c) # << >>
      /\ Future(c) \in Seq(Graphs) /\ Len(Future(c)) = c.num_next
      /\ CurrentState(c) \in Graphs
      /\ \A i \in 1..c.num_prev : Past(c)[i] \in Graphs
  BY <1>1, Sequences DEF Sound, Written
<1>5. /\ p \in Seq(Graphs) /\ Len(p) = d.num_prev
      /\ \A i \in 1..d.num_prev : p[i] = Past(c)[i]
  BY <1>1, <1>2, <1>4, SubSeqProperties
<1>6. /\ f \in Seq(Graphs) /\ Len(f) = d.num_next
      /\ f[1] = CurrentState(c)
      /\ \A i \in 2..d.num_next : f[i] = Future(c)[i - 1]
  <2>1. <<CurrentState(c)>> \in Seq(Graphs) /\ Len(<<CurrentState(c)>>) = 1
    BY <1>4
  <2> QED BY <1>1, <1>2, <1>4, <2>1, ConcatProperties
<1>7. CurrentState(d) = Past(c)[c.num_prev]
  <2> DEFINE l == c.current - c.num_prev + c.num_prev - 1
  <2>1. Past(c)[c.num_prev] = c.states[IF l >= 0 THEN l ELSE l + N]
    BY <1>1, c.num_prev \in 1..c.num_prev, PastAt
  <2>2. (IF l >= 0 THEN l ELSE l + N) = d.current
    BY <1>1, <1>2
  <2> QED BY <1>2, <2>1, <2>2 DEF CurrentState
<1>8. ASSUME NEW i \in 1..d.num_prev PROVE Past(d)[i] = p[i]
  <2> DEFINE k == d.current - d.num_prev + i - 1
             l == c.current - c.num_prev + i - 1
  <2>1. Past(d)[i] = d.states[IF k >= 0 THEN k ELSE k + N]
    BY <1>3, PastAt
  <2>2. i \in 1..c.num_prev /\ Past(c)[i] = c.states[IF l >= 0 THEN l ELSE l + N]
    BY <1>1, <1>2, PastAt
  <2>3. (IF k >= 0 THEN k ELSE k + N) = (IF l >= 0 THEN l ELSE l + N)
    BY <1>1, <1>2
  <2> QED BY <1>2, <1>5, <2>1, <2>2, <2>3
<1>9. ASSUME NEW i \in 1..d.num_next PROVE Future(d)[i] = f[i]
  <2> DEFINE k == d.current + i
             j == IF k < N THEN k ELSE k - N
  <2>1. Future(d)[i] = d.states[j]
    BY <1>3, FutureAt
  <2>2. CASE i = 1
    <3>1. j = c.current
      BY <1>1, <1>2, <2>2
    <3> QED BY <1>2, <1>6, <2>1, <2>2, <3>1 DEF CurrentState
  <2>3. CASE i > 1
    <3> DEFINE l == c.current + (i - 1)
    <3>1. /\ i - 1 \in 1..c.num_next
          /\ Future(c)[i - 1] = c.states[IF l < N THEN l ELSE l - N]
      BY <1>1, <1>2, <2>3, FutureAt
    <3>2. (IF l < N THEN l ELSE l - N) = j
      BY <1>1, <1>2
    <3>3. i \in 2..d.num_next
      BY <1>1, <1>2, <2>3
    <3> QED BY <1>2, <1>6, <2>1, <3>1, <3>2, <3>3
  <2>4. i = 1 \/ i > 1
    BY <1>1, <1>2
  <2> HIDE DEF f, d
  <2> QED BY <2>2, <2>3, <2>4
<1>10. Sound(d)
  <2>1. (\A i \in 1..d.num_prev : p[i] \in Graphs) /\ \A i \in 1..d.num_next : f[i] \in Graphs
    BY <1>5, <1>6, LenProperties
  <2>2. CurrentState(d) \in Graphs
    BY <1>1, <1>4, <1>7
  <2> HIDE DEF p, f, d
  <2> QED BY <1>3, <1>8, <1>9, <2>1, <2>2 DEF Sound, Written
<1>11. Past(d) = p /\ Future(d) = f
  <2>1. /\ Past(d) \in Seq(Graphs) /\ Len(Past(d)) = d.num_prev
        /\ Future(d) \in Seq(Graphs) /\ Len(Future(d)) = d.num_next
    BY <1>10, Sequences
  <2> HIDE DEF p, f, d
  <2> QED BY <1>5, <1>6, <1>8, <1>9, <2>1, SeqEqual
<1> QED BY <1>4, <1>7, <1>10, <1>11
\* get_next_state redoes: the first of the future becomes the present, and the present
\* the latest of the past
LEMMA NextRedoes ==
  ASSUME NEW c, Sound(c), CanRedo(c)
  PROVE  LET d == ToNextState(c)
         IN  /\ Sound(d)
             /\ Future(c) # << >>
             /\ Past(d) = Append(Past(c), CurrentState(c))
             /\ CurrentState(d) = Head(Future(c))
             /\ Future(d) = Tail(Future(c))
PROOF
<1> DEFINE N == STATE_CACHE_SIZE
           d == ToNextState(c)
           p == Append(Past(c), CurrentState(c))
           f == Tail(Future(c))
<1>1. /\ N \in Nat /\ N > 0 /\ c.current \in Nat /\ c.current < N /\ c.current \in Slots
      /\ c.num_prev \in Nat /\ c.num_next \in Nat /\ c.num_prev + c.num_next <= N - 1
      /\ c \in CacheType /\ Fits(c) /\ c.num_next > 0
  BY SizeAssumption DEF Sound, CacheType, Slots, Fits, CanRedo
<1>2. /\ d.current = (IF c.current + 1 < N THEN c.current + 1 ELSE 0)
      /\ d.current \in Slots
      /\ d.num_prev = c.num_prev + 1 /\ d.num_next = c.num_next - 1
      /\ d.states = c.states
  BY <1>1, Neighbours DEF ToNextState, CacheType
<1>3. d \in CacheType /\ Fits(d)
  <2>1. NextSlot(c.current) \in Slots /\ c.num_next - 1 \in Nat /\ c.num_prev + 1 \in Nat
    BY <1>1, Neighbours
  <2>2. d \in CacheType
    BY <1>1, <2>1 DEF ToNextState, CacheType
  <2>3. d.num_prev + d.num_next <= N - 1
    BY <1>1, <1>2
  <2> QED BY <2>2, <2>3 DEF Fits
<1>4. /\ Past(c) \in Seq(Graphs) /\ Len(Past(c)) = c.num_prev
      /\ Future(c) \in Seq(Graphs) /\ Len(Future(c)) = c.num_next /\ Future(c) # << >>
      /\ CurrentState(c) \in Graphs
      /\ \A i \in 1..c.num_next : Future(c)[i] \in Graphs
  BY <1>1, Sequences DEF Sound, Written
<1>5. /\ p \in Seq(Graphs) /\ Len(p) = d.num_prev
      /\ \A i \in 1..c.num_prev : p[i] = Past(c)[i]
      /\ p[c.num_prev + 1] = CurrentState(c)
  BY <1>1, <1>2, <1>4, AppendProperties
<1>6. /\ f \in Seq(Graphs) /\ Len(f) = d.num_next
      /\ \A i \in 1..d.num_next : f[i] = Future(c)[i + 1]
      /\ Head(Future(c)) = Future(c)[1]
  BY <1>1, <1>2, <1>4, HeadTailProperties
<1>7. CurrentState(d) = Head(Future(c))
  <2> DEFINE l == c.current + 1
  <2>1. Future(c)[1] = c.states[IF l < N THEN l ELSE l - N]
    BY <1>1, 1 \in 1..c.num_next, FutureAt
  <2>2. (IF l < N THEN l ELSE l - N) = d.current
    BY <1>1, <1>2
  <2> QED BY <1>2, <1>6, <2>1, <2>2 DEF CurrentState
<1>8. ASSUME NEW i \in 1..d.num_prev PROVE Past(d)[i] = p[i]
  <2> DEFINE k == d.current - d.num_prev + i - 1
             j == IF k >= 0 THEN k ELSE k + N
  <2>1. Past(d)[i] = d.states[j]
    BY <1>3, PastAt
  <2>2. CASE i <= c.num_prev
    <3> DEFINE l == c.current - c.num_prev + i - 1
    <3>1. i \in 1..c.num_prev /\ Past(c)[i] = c.states[IF l >= 0 THEN l ELSE l + N]
      BY <1>1, <1>2, <2>2, PastAt
    <3>2. (IF l >= 0 THEN l ELSE l + N) = j
      BY <1>1, <1>2, <2>2
    <3> QED BY <1>2, <1>5, <2>1, <3>1, <3>2
  <2>3. CASE i = c.num_prev + 1
    <3>1. j = c.current
      BY <1>1, <1>2, <2>3
    <3> QED BY <1>2, <1>5, <2>1, <2>3, <3>1 DEF CurrentState
  <2>4. i <= c.num_prev \/ i = c.num_prev + 1
    BY <1>1, <1>2
  <2> HIDE DEF p, d
  <2> QED BY <2>2, <2>3, <2>4
<1>9. ASSUME NEW i \in 1..d.num_next PROVE Future(d)[i] = f[i]
  <2> DEFINE k == d.current + i
             l == c.current + (i + 1)
  <2>1. Future(d)[i] = d.states[IF k < N THEN k ELSE k - N]
    BY <1>3, FutureAt
  <2>2. /\ i + 1 \in 1..c.num_next
        /\ Future(c)[i + 1] = c.states[IF l < N THEN l ELSE l - N]
    BY <1>1, <1>2, FutureAt
  <2>3. (IF k < N THEN k ELSE k - N) = (IF l < N THEN l ELSE l - N)
    BY <1>1, <1>2
  <2> QED BY <1>2, <1>6, <2>1, <2>2, <2>3
<1>10. Sound(d)
  <2>1. (\A i \in 1..d.num_prev : p[i] \in Graphs) /\ \A i \in 1..d.num_next : f[i] \in Graphs
    BY <1>5, <1>6, LenProperties
  <2>2. CurrentState(d) \in Graphs
    BY <1>1, <1>4, <1>6, <1>7
  <2> HIDE DEF p, f, d
  <2> QED BY <1>3, <1>8, <1>9, <2>1, <2>2 DEF Sound, Written
<1>11. Past(d) = p /\ Future(d) = f
  <2>1. /\ Past(d) \in Seq(Graphs) /\ Len(Past(d)) = d.num_prev
        /\ Future(d) \in Seq(Graphs) /\ Len(Future(d)) = d.num_next
    BY <1>10, Sequences
  <2> HIDE DEF p, f, d
  <2> QED BY <1>5, <1>6, <1>8, <1>9, <2>1, SeqEqual
<1> QED BY <1>4, <1>7, <1>10, <1>11

-----------------------------------------------------------------------------
(* The editor.                                                             *)

SoundCaches == \A p \in Pages : Sound(cache[p])

Inv == TypeOK /\ SoundCaches

\* what CachesAreHistories says of a step
HistoryStep ==
  \A p \in open \cap open' : History(p)!Next \/ UNCHANGED cache[p]

-----------------------------------------------------------------------------
\* the calls left are a sequence of names
LEMMA FrameSequences ==
  /\ << >> \in Seq(Frames)
  /\ \A a \in Frames : <<a>> \in Seq(Frames) /\ Invoke(a) \in Seq(Frames)
  /\ \A a, b \in Frames : Invoke(a) \o <<b>> \in Seq(Frames)
PROOF
<1>1. << >> \in Seq(Frames)
  OBVIOUS
<1>2. ASSUME NEW a \in Frames PROVE <<a>> \in Seq(Frames) /\ Invoke(a) \in Seq(Frames)
  <2>1. "GLOBALS" \in Frames
    BY DEF Frames
  <2> QED BY <2>1 DEF Invoke
<1>3. ASSUME NEW a \in Frames, NEW b \in Frames
      PROVE  Invoke(a) \o <<b>> \in Seq(Frames)
  BY <1>2, ConcatProperties
<1> QED BY <1>1, <1>2, <1>3

LEMMA CallsType ==
  ASSUME Inv, Top # "main loop", NEW c \in Seq(Frames), Then(c)
  PROVE  calls' \in Seq(Frames)
PROOF
<1>1. calls # << >> /\ calls \in Seq(Frames)
  BY DEF Top, Inv, TypeOK
<1>2. Tail(calls) \in Seq(Frames)
  BY <1>1, HeadTailProperties
<1> QED BY <1>2, ConcatProperties DEF Then

\* a page that is changed gets a new recorded state, or one that was recorded
LEMMA RecordStep ==
  ASSUME NEW p \in Pages, NEW g \in Graphs, Sound(cache[p]),
         cache'[p] = SaveNewState(cache[p], g)
  PROVE  History(p)!Next /\ Sound(cache'[p])
PROOF
<1>1. /\ Sound(cache'[p])
      /\ Past(cache'[p]) = IF Len(Past(cache[p])) = STATE_CACHE_SIZE - 1
                           THEN Tail(Append(Past(cache[p]), CurrentState(cache[p])))
                           ELSE Append(Past(cache[p]), CurrentState(cache[p]))
      /\ CurrentState(cache'[p]) = g
      /\ Future(cache'[p]) = << >>
  BY SaveRecords
<1>2. History(p)!Record(g)
  BY <1>1 DEF History!Record
<1> QED BY <1>1, <1>2 DEF History!Next

LEMMA UndoStep ==
  ASSUME NEW p \in Pages, Sound(cache[p]), CanUndo(cache[p]),
         cache'[p] = ToPrevState(cache[p])
  PROVE  History(p)!Next /\ Sound(cache'[p])
PROOF
<1>1. /\ Sound(cache'[p]) /\ Past(cache[p]) # << >>
      /\ Past(cache'[p]) = SubSeq(Past(cache[p]), 1, Len(Past(cache[p])) - 1)
      /\ CurrentState(cache'[p]) = Past(cache[p])[Len(Past(cache[p]))]
      /\ Future(cache'[p]) = <<CurrentState(cache[p])>> \o Future(cache[p])
  BY PrevUndoes
<1>2. History(p)!Undo
  BY <1>1 DEF History!Undo
<1> QED BY <1>1, <1>2 DEF History!Next

LEMMA RedoStep ==
  ASSUME NEW p \in Pages, Sound(cache[p]), CanRedo(cache[p]),
         cache'[p] = ToNextState(cache[p])
  PROVE  History(p)!Next /\ Sound(cache'[p])
PROOF
<1>1. /\ Sound(cache'[p]) /\ Future(cache[p]) # << >>
      /\ Past(cache'[p]) = Append(Past(cache[p]), CurrentState(cache[p]))
      /\ CurrentState(cache'[p]) = Head(Future(cache[p]))
      /\ Future(cache'[p]) = Tail(Future(cache[p]))
  BY NextRedoes
<1>2. History(p)!Redo
  BY <1>1 DEF History!Redo
<1> QED BY <1>1, <1>2 DEF History!Next

\* steps that leave every undo list alone
LEMMA NoCacheStep ==
  ASSUME Inv, UNCHANGED cache
  PROVE  HistoryStep /\ SoundCaches'
PROOF
<1>1. \A p \in Pages : cache'[p] = cache[p]
  OBVIOUS
<1>2. open \subseteq Pages
  BY DEF Inv, TypeOK
<1> QED BY <1>1, <1>2 DEF Inv, SoundCaches, HistoryStep

\* steps that change the undo list of one page, as a history
LEMMA OneCacheStep ==
  ASSUME Inv, NEW p \in Pages, NEW c, cache' = [cache EXCEPT ![p] = c],
         History(p)!Next \/ p \notin open \/ p \notin open', Sound(c)
  PROVE  HistoryStep /\ SoundCaches' /\ cache' \in [Pages -> CacheType]
PROOF
<1>1. cache \in [Pages -> CacheType] /\ open \subseteq Pages
  BY DEF Inv, TypeOK
<1>2. c \in CacheType
  BY DEF Sound
<1>3. cache'[p] = c /\ \A q \in Pages \ {p} : cache'[q] = cache[q]
  BY <1>1
<1>4. SoundCaches'
  BY <1>3 DEF SoundCaches, Inv
<1>5. ASSUME NEW q \in open \cap open' PROVE History(q)!Next \/ UNCHANGED cache[q]
  <2>1. CASE q = p
    BY <2>1, <1>5
  <2>2. CASE q # p
    BY <1>1, <1>3, <1>5, <2>2
  <2> QED BY <2>1, <2>2
<1> QED BY <1>1, <1>2, <1>4, <1>5 DEF HistoryStep

-----------------------------------------------------------------------------
(* One lemma per group of actions.                                          *)

USE PagesAssumption, NoFileAssumption, NoProcAssumption, GraphAssumption

LEMMA ControlStep ==
  ASSUME Inv, OnlyCalls, calls' \in Seq(Frames), acts' \in 0..MaxActs
  PROVE  Inv' /\ HistoryStep
PROOF
<1>1. TypeOK'
  BY DEF Inv, TypeOK, OnlyCalls, notebook, documents, processes, toClose, written, history
<1>2. UNCHANGED cache
  BY DEF OnlyCalls, documents
<1> QED BY <1>1, <1>2, NoCacheStep DEF Inv

ControlActions ==
  \/ \E a \in UserActions : Activate(a)
  \/ OpenCancel \/ SaveAsCancel \/ AnswerSave \/ ParamModify \/ SaveElsewhere
  \/ Gen \/ NotSaved \/ Exec \/ StopIt \/ QuitEnd

LEMMA ControlActionsKeep ==
  ASSUME Inv, ControlActions, acts' \in 0..MaxActs
  PROVE  Inv' /\ HistoryStep
PROOF
<1>1. OnlyCalls
  BY DEF ControlActions, Activate, OpenCancel, SaveAsCancel, AnswerSave, ParamModify,
         SaveElsewhere, Gen, NotSaved, Exec, StopIt, QuitEnd
<1>2. calls' \in Seq(Frames)
  <2>1. ASSUME NEW a \in UserActions, Activate(a) PROVE calls' \in Seq(Frames)
    BY <2>1, FrameSequences DEF Activate, Frames
  <2>2. CASE OpenCancel \/ SaveAsCancel \/ NotSaved
    <3>1. Then(<< >>) /\ Top # "main loop"
      BY <2>2 DEF OpenCancel, SaveAsCancel, NotSaved, At
    <3> QED BY <3>1, FrameSequences, CallsType
  <2>3. CASE AnswerSave
    BY <2>3, FrameSequences, CallsType DEF AnswerSave, At, Frames, UserActions
  <2>4. CASE ParamModify
    BY <2>4, FrameSequences, CallsType DEF ParamModify, At, Frames, Dialogs
  <2>5. CASE SaveElsewhere
    BY <2>5, FrameSequences, CallsType DEF SaveElsewhere, At, Frames, UserActions
  <2>6. CASE Exec
    BY <2>6, FrameSequences, CallsType DEF Exec, At, Frames, UserActions
  <2>7. CASE Gen
    BY <2>7, FrameSequences, CallsType DEF Gen, At, Frames, UserActions
  <2>8. CASE StopIt
    BY <2>8, FrameSequences, CallsType DEF StopIt, At, Frames, UserActions
  <2>9. CASE QuitEnd
    BY <2>9, FrameSequences, CallsType DEF QuitEnd, At, Frames
  <2> QED BY <2>1, <2>2, <2>3, <2>4, <2>5, <2>6, <2>7, <2>8, <2>9 DEF ControlActions
<1> QED BY <1>1, <1>2, ControlStep

\* actions of the main thread that change no undo list
DataActions ==
  \/ \E p \in Pages : ClickClose(p) \/ SwitchPage(p)
  \/ \E g \in Graphs : PropsChange(g) \/ PasteRaises(g)
  \/ PropsCancel \/ AnswerDiscard
  \/ \E f \in Files : SaveAsFile(f)
  \/ \E ok \in BOOLEAN : SaveToFile(ok) \/ WriteScript(ok)
  \/ Globals \/ Popen \/ Kill \/ Close \/ StillUnsaved \/ QuitBegin \/ QuitEach

ThreadActions == \E k \in Pids : ProcessEnds(k) \/ ThreadEnds(k) \/ Done(k)

LEMMA ButtonTypes ==
  ASSUME button \in ButtonType
  PROVE  /\ \A g, pr : ExecStop(button, g, pr) \in ButtonType
         /\ \A c : UndoRedo(button, c) \in ButtonType
PROOF
<1>1. ASSUME NEW g, NEW pr PROVE ExecStop(button, g, pr) \in ButtonType
  <2>1. CanExec(g, pr) \in BOOLEAN /\ (pr # NoProc) \in BOOLEAN
    BY DEF CanExec
  <2> QED BY <2>1 DEF ButtonType, ExecStop
<1>2. ASSUME NEW c PROVE UndoRedo(button, c) \in ButtonType
  <2>1. CanUndo(c) \in BOOLEAN /\ CanRedo(c) \in BOOLEAN
    BY DEF CanUndo, CanRedo
  <2> QED BY <2>1 DEF ButtonType, UndoRedo
<1> QED BY <1>1, <1>2

LEMMA AllButtonsType ==
  ASSUME button \in ButtonType
  PROVE  [button EXCEPT !.exec = CanExec(graph[current], proc[current]),
                        !.kill = proc[current] # NoProc, !.save = ~saved[current]] \in ButtonType
PROOF
<1>1. /\ CanExec(graph[current], proc[current]) \in BOOLEAN
      /\ (proc[current] # NoProc) \in BOOLEAN /\ (~saved[current]) \in BOOLEAN
  BY DEF CanExec
<1> QED BY <1>1 DEF ButtonType

LEMMA ThreadTypes ==
  ASSUME NEW t \in ThreadType
  PROVE  /\ [t EXCEPT !.killed = TRUE] \in ThreadType
         /\ [t EXCEPT !.state = "ended"] \in ThreadType
         /\ [t EXCEPT !.state = "reported"] \in ThreadType
PROOF
  BY DEF ThreadType

LEMMA DataActionsCalls ==
  ASSUME Inv, DataActions
  PROVE  calls' \in Seq(Frames)
PROOF
<1>1. ASSUME NEW p \in Pages, ClickClose(p) \/ SwitchPage(p) PROVE calls' \in Seq(Frames)
  BY <1>1, FrameSequences DEF ClickClose, SwitchPage, Frames, UserActions
<1>2. CASE \E g \in Graphs : PropsChange(g) \/ PasteRaises(g)
  BY <1>2 DEF PropsChange, PasteRaises, Inv, TypeOK
<1>3. CASE PropsCancel \/ Globals \/ Popen \/ Kill
           \/ \E ok \in BOOLEAN : SaveToFile(ok) \/ WriteScript(ok)
  <2>1. Then(<< >>) /\ Top # "main loop"
    BY <1>3 DEF PropsCancel, Globals, Popen, Kill, SaveToFile, WriteScript, At
  <2> QED BY <2>1, FrameSequences, CallsType
<1>4. CASE AnswerDiscard
  BY <1>4, FrameSequences, CallsType DEF AnswerDiscard, At, Frames
<1>5. ASSUME NEW f \in Files, SaveAsFile(f) PROVE calls' \in Seq(Frames)
  BY <1>5, FrameSequences, CallsType DEF SaveAsFile, At, Frames, UserActions
<1>6. CASE Close
  <2>1. /\ "ask" \in Frames /\ "stop" \in Frames /\ "GLOBALS" \in Frames
    BY DEF Frames, Dialogs
  <2>2. \A a, b \in Seq(Frames) : a \o b \in Seq(Frames)
    BY ConcatProperties
  <2> DEFINE c == (IF current' = current THEN << >> ELSE <<"GLOBALS">>)
                    \o (IF saved[ToClose] THEN <<"stop">> ELSE <<"ask">>)
  <2>3. c \in Seq(Frames)
    BY <2>1, <2>2, FrameSequences
  <2>4. Then(c) /\ Top # "main loop"
    BY <1>6 DEF Close, At
  <2> QED BY <2>3, <2>4, CallsType
<1>7. CASE StillUnsaved
  BY <1>7, FrameSequences, CallsType DEF StillUnsaved, At, Frames
<1>8. CASE QuitBegin
  <2>1. <<"each", "QUIT_END">> \in Seq(Frames)
    BY DEF Frames
  <2> QED BY <1>8, <2>1, CallsType DEF QuitBegin, At
<1>9. CASE QuitEach
  <2>1. <<"CLOSE">> \in Seq(Frames) /\ calls \in Seq(Frames)
    BY DEF Frames, UserActions, Inv, TypeOK
  <2>2. <<"CLOSE">> \o calls \in Seq(Frames)
    BY <2>1, ConcatProperties
  <2> QED BY <1>9, <2>2, FrameSequences, CallsType DEF QuitEach, At
<1> QED BY <1>1, <1>2, <1>3, <1>4, <1>5, <1>6, <1>7, <1>8, <1>9 DEF DataActions

LEMMA DataActionsKeep ==
  ASSUME Inv, DataActions, acts' \in 0..MaxActs
  PROVE  Inv' /\ HistoryStep
PROOF
<1> DEFINE changes == <<notebook, documents, processes, toClose, written, history>>
<1>0. calls' \in Seq(Frames) /\ button \in ButtonType
  BY DataActionsCalls DEF Inv, TypeOK
<1>b. [button EXCEPT !.exec = CanExec(graph[current], proc[current]),
                     !.kill = proc[current] # NoProc, !.save = ~saved[current]] \in ButtonType
  BY <1>0, AllButtonsType
<1> USE <1>0, ButtonTypes DEF Inv, TypeOK, notebook, documents, processes, toClose, written,
                 history
<1>1. ASSUME NEW p \in Pages, ClickClose(p) \/ SwitchPage(p) PROVE TypeOK' /\ UNCHANGED cache
  BY <1>1 DEF ClickClose, SwitchPage
<1>2. ASSUME NEW g \in Graphs, PropsChange(g) \/ PasteRaises(g) PROVE TypeOK' /\ UNCHANGED cache
  <2>1. CASE PropsChange(g)
    BY <2>1 DEF PropsChange
  <2>2. CASE PasteRaises(g)
    BY <2>2 DEF PasteRaises
  <2> QED BY <1>2, <2>1, <2>2
<1>3. CASE PropsCancel
  <2>1. CurrentState(cache[current]) \in Graphs
    BY DEF SoundCaches, Sound, Written
  <2>2. Imported[graph[current]][CurrentState(cache[current])] \in Graphs
    BY <2>1
  <2>3. TypeOK' /\ UNCHANGED cache
    BY <1>3, <2>2 DEF PropsCancel
  <2> QED BY <2>3, NoCacheStep
<1>4. CASE AnswerDiscard
  <2>2. TypeOK' /\ UNCHANGED cache
    BY <1>4 DEF AnswerDiscard
  <2> QED BY <2>2, NoCacheStep
<1>5. ASSUME NEW f \in Files, SaveAsFile(f) PROVE TypeOK' /\ UNCHANGED cache
  <2>1. file' \in [Pages -> Files \cup {NoFile}] /\ astray' \subseteq Pages
    BY <1>5 DEF SaveAsFile
  <2> QED BY <1>5, <2>1 DEF SaveAsFile
<1>6. ASSUME NEW ok \in BOOLEAN, SaveToFile(ok) PROVE TypeOK' /\ UNCHANGED cache
  <2>1. disk' \in [Files -> Graphs \cup {Damaged}]
    BY <1>6 DEF SaveToFile
  <2>2. saved' \in [Pages -> BOOLEAN] /\ astray' \subseteq Pages
    BY <1>6 DEF SaveToFile
  <2> QED BY <1>6, <2>1, <2>2 DEF SaveToFile
<1>7. ASSUME NEW ok \in BOOLEAN, WriteScript(ok) PROVE TypeOK' /\ UNCHANGED cache
  <2>1. script' \in [Scripts -> Graphs \cup {Damaged}]
    BY <1>7 DEF WriteScript
  <2> QED BY <1>7, <2>1 DEF WriteScript
<1>8. CASE Globals
  <2> DEFINE b == [button EXCEPT !.exec = CanExec(graph[current], proc[current]),
                                 !.kill = proc[current] # NoProc, !.save = ~saved[current]]
  <2>2. b \in ButtonType
    BY <1>b
  <2>1. button' = b /\ UNCHANGED changes
    BY <1>8 DEF Globals
  <2> HIDE DEF b
  <2>3. TypeOK' /\ UNCHANGED cache
    BY <2>1, <2>2
  <2> QED BY <2>3, NoCacheStep
<1>9. CASE Popen
  <2>2. ASSUME UNCHANGED <<procs, proc, button>> PROVE TypeOK' /\ UNCHANGED cache
    BY <1>9, <2>2 DEF Popen
  <2>3. ASSUME NEW k \in Pids, proc' = [proc EXCEPT ![current] = k],
               procs' = [procs EXCEPT ![k] = [page |-> current, state |-> "running",
                                              killed |-> FALSE]],
               button' = ExecStop(button, graph[current], k)
        PROVE  TypeOK' /\ UNCHANGED cache
    <3>1. [page |-> current, state |-> "running", killed |-> FALSE] \in ThreadType
      BY DEF ThreadType
    <3>2. procs' \in [Pids -> ThreadType] /\ proc' \in [Pages -> Pids \cup {NoProc}]
      BY <2>3, <3>1
    <3> QED BY <1>9, <2>3, <3>2 DEF Popen
  <2>1. TypeOK' /\ UNCHANGED cache
    BY <1>9, <2>2, <2>3 DEF Popen
  <2> QED BY <2>1, NoCacheStep
<1>10. CASE Kill
  <2>2. procs' \in [Pids -> ThreadType]
    <3> DEFINE k == proc[current]
    <3>1. CASE k = NoProc
      BY <1>10, <3>1 DEF Kill
    <3>2. CASE k # NoProc
      <4>1. k \in Pids /\ procs' = [procs EXCEPT ![k].killed = TRUE]
        BY <1>10, <3>2 DEF Kill
      <4>2. [procs[k] EXCEPT !.killed = TRUE] \in ThreadType
        BY <4>1, ThreadTypes
      <4> HIDE DEF k
      <4> QED BY <4>1, <4>2
    <3> QED BY <3>1, <3>2
  <2>1. TypeOK' /\ UNCHANGED cache
    BY <1>10, <2>2 DEF Kill
  <2> QED BY <2>1, NoCacheStep
<1>11. CASE Close
  <2>1. TypeOK' /\ UNCHANGED cache
    BY <1>11 DEF Close, ToClose
  <2> QED BY <2>1, NoCacheStep
<1>12. CASE StillUnsaved
  <2>1. TypeOK' /\ UNCHANGED cache
    BY <1>12 DEF StillUnsaved
  <2> QED BY <2>1, NoCacheStep
<1>13. CASE QuitBegin
  <2>1. TypeOK' /\ UNCHANGED cache
    BY <1>13 DEF QuitBegin
  <2> QED BY <2>1, NoCacheStep
<1>14. CASE QuitEach
  <2>1. TypeOK' /\ UNCHANGED cache
    BY <1>14 DEF QuitEach
  <2> QED BY <2>1, NoCacheStep
<1> QED
  BY <1>1, <1>2, <1>3, <1>4, <1>5, <1>6, <1>7, <1>8, <1>9, <1>10, <1>11, <1>12, <1>13,
     <1>14, NoCacheStep DEF DataActions

LEMMA ThreadActionsKeep ==
  ASSUME Inv, ThreadActions, acts' \in 0..MaxActs
  PROVE  Inv' /\ HistoryStep
PROOF
<1> USE ButtonTypes DEF Inv, TypeOK, notebook, documents, processes, toClose, written,
                        history
<1>0. ASSUME NEW k \in Pids
      PROVE  /\ [procs EXCEPT ![k].state = "ended"] \in [Pids -> ThreadType]
             /\ [procs EXCEPT ![k].state = "reported"] \in [Pids -> ThreadType]
  BY ThreadTypes
<1>1. ASSUME NEW k \in Pids, ProcessEnds(k) PROVE TypeOK' /\ UNCHANGED cache
  BY <1>0, <1>1 DEF ProcessEnds
<1>2. ASSUME NEW k \in Pids, ThreadEnds(k) PROVE TypeOK' /\ UNCHANGED cache
  BY <1>0, <1>2 DEF ThreadEnds
<1>3. ASSUME NEW k \in Pids, Done(k) PROVE TypeOK' /\ UNCHANGED cache
  <2>1. NoThread \in ThreadType
    BY DEF NoThread, ThreadType
  <2>2. procs' \in [Pids -> ThreadType]
    BY <1>3, <2>1 DEF Done
  <2>3. proc' \in [Pages -> Pids \cup {NoProc}]
    BY <1>3 DEF Done
  <2>4. button' \in ButtonType
    BY <1>3 DEF Done
  <2> QED BY <1>3, <2>2, <2>3, <2>4 DEF Done
<1> QED BY <1>1, <1>2, <1>3, NoCacheStep DEF ThreadActions

-----------------------------------------------------------------------------
(* The actions that change an undo list.                                    *)

\* what is left of an edit once the undo list is known to be sound
LEMMA ChangeKeeps ==
  ASSUME Inv, NEW g \in Graphs, NEW c, Sound(c), Change(g, c),
         History(current)!Next, calls' \in Seq(Frames), acts' \in 0..MaxActs,
         UNCHANGED <<notebook, processes, toClose, written, astray, discarded>>
  PROVE  Inv' /\ HistoryStep
PROOF
<1>1. current \in Pages /\ cache' = [cache EXCEPT ![current] = c]
  BY DEF Inv, TypeOK, Change
<1>2. HistoryStep /\ SoundCaches' /\ cache' \in [Pages -> CacheType]
  BY <1>1, OneCacheStep
<1>3. TypeOK'
  BY <1>2, ButtonTypes
     DEF Inv, TypeOK, Change, notebook, processes, toClose, written
<1> QED BY <1>2, <1>3 DEF Inv

EditActions ==
  \/ \E g \in Graphs : Edit(g)
  \/ PropsAccept \/ UndoAction \/ RedoAction

LEMMA EditActionsKeep ==
  ASSUME Inv, EditActions, acts' \in 0..MaxActs
  PROVE  Inv' /\ HistoryStep
PROOF
<1>0. /\ current \in Pages /\ Sound(cache[current]) /\ cache \in [Pages -> CacheType]
      /\ graph \in [Pages -> Graphs]
  BY DEF Inv, TypeOK, SoundCaches
<1>1. ASSUME NEW g \in Graphs, Change(g, SaveNewState(cache[current], g))
      PROVE  History(current)!Next /\ Sound(SaveNewState(cache[current], g))
  <2>1. cache'[current] = SaveNewState(cache[current], g)
    BY <1>0, <1>1 DEF Change
  <2> QED BY <1>0, <2>1, RecordStep
<1>2. ASSUME NEW g \in Graphs, Edit(g) PROVE Inv' /\ HistoryStep
  <2>1. calls' \in Seq(Frames)
    BY <1>2, FrameSequences DEF Edit, Frames
  <2> QED BY <1>1, <1>2, <2>1, ChangeKeeps DEF Edit
<1>3. CASE PropsAccept
  <2>1. calls' \in Seq(Frames)
    BY <1>3, FrameSequences, CallsType DEF PropsAccept, At
  <2>2. graph[current] \in Graphs
    BY <1>0
  <2> QED BY <1>1, <1>3, <2>1, <2>2, ChangeKeeps DEF PropsAccept
<1>4. ASSUME NEW c, Sound(c), Change(Imported[graph[current]][CurrentState(c)], c),
             History(current)!Next, Then(<< >>), Top # "main loop",
             UNCHANGED <<notebook, processes, toClose, written, astray, discarded>>
      PROVE  Inv' /\ HistoryStep
  <2>1. calls' \in Seq(Frames)
    BY <1>4, FrameSequences, CallsType
  <2>2. CurrentState(c) \in Graphs /\ graph[current] \in Graphs
    BY <1>0, <1>4 DEF Sound, Written
  <2>3. Imported[graph[current]][CurrentState(c)] \in Graphs
    BY <2>2
  <2> QED BY <1>4, <2>1, <2>3, ChangeKeeps
<1>5. ASSUME UNCHANGED <<documents, button, unrecorded>>, Then(<< >>), Top # "main loop",
             UNCHANGED <<notebook, processes, toClose, written, astray, discarded>>
      PROVE  Inv' /\ HistoryStep
  <2>1. calls' \in Seq(Frames)
    BY <1>5, FrameSequences, CallsType
  <2>2. OnlyCalls
    BY <1>5 DEF OnlyCalls, history
  <2> QED BY <2>1, <2>2, ControlStep
<1>6. CASE UndoAction
  <2> DEFINE c == ToPrevState(cache[current])
  <2>1. UndoOr(CanUndo(cache[current]), c) /\ Top # "main loop"
    BY <1>6 DEF UndoAction, At
  <2>2. CASE CanUndo(cache[current])
    <3>1. /\ Change(Imported[graph[current]][CurrentState(c)], c) /\ Then(<< >>)
          /\ UNCHANGED <<notebook, processes, toClose, written, astray, discarded>>
      BY <2>1, <2>2 DEF UndoOr
    <3>2. cache'[current] = c
      BY <1>0, <3>1 DEF Change
    <3>3. History(current)!Next /\ Sound(c)
      BY <1>0, <2>2, <3>2, UndoStep
    <3> QED BY <1>4, <2>1, <3>1, <3>3
  <2>3. CASE ~CanUndo(cache[current])
    BY <1>5, <2>1, <2>3 DEF UndoOr
  <2> QED BY <2>2, <2>3
<1>7. CASE RedoAction
  <2> DEFINE c == ToNextState(cache[current])
  <2>1. UndoOr(CanRedo(cache[current]), c) /\ Top # "main loop"
    BY <1>7 DEF RedoAction, At
  <2>2. CASE CanRedo(cache[current])
    <3>1. /\ Change(Imported[graph[current]][CurrentState(c)], c) /\ Then(<< >>)
          /\ UNCHANGED <<notebook, processes, toClose, written, astray, discarded>>
      BY <2>1, <2>2 DEF UndoOr
    <3>2. cache'[current] = c
      BY <1>0, <3>1 DEF Change
    <3>3. History(current)!Next /\ Sound(c)
      BY <1>0, <2>2, <3>2, RedoStep
    <3> QED BY <1>4, <2>1, <3>1, <3>3
  <2>3. CASE ~CanRedo(cache[current])
    BY <1>5, <2>1, <2>3 DEF UndoOr
  <2> QED BY <2>2, <2>3
<1> QED BY <1>2, <1>3, <1>6, <1>7 DEF EditActions

-----------------------------------------------------------------------------
(* The actions that make or remove pages: a page whose list they set is not *)
(* in the notebook before, or not after.                                    *)

\* several pages at once
LEMMA BlankCaches ==
  ASSUME Inv, NEW S, S \cap open \cap open' = {}, BlankPages(S)
  PROVE  HistoryStep /\ SoundCaches' /\ cache' \in [Pages -> CacheType]
PROOF
<1>1. cache \in [Pages -> CacheType] /\ open \subseteq Pages
  BY DEF Inv, TypeOK
<1>2. Sound(NewCache(BlankGraph))
  BY NewBegins
<1>3. \A p \in Pages : cache'[p] = IF p \in S THEN NewCache(BlankGraph) ELSE cache[p]
  BY DEF BlankPages
<1>4. SoundCaches'
  BY <1>2, <1>3 DEF SoundCaches, Inv
<1>5. \A p \in Pages : cache'[p] \in CacheType
  BY <1>4 DEF SoundCaches, Sound
<1>6. cache' \in [Pages -> CacheType]
  BY <1>5 DEF BlankPages
<1>7. HistoryStep
  BY <1>1, <1>3 DEF HistoryStep
<1> QED BY <1>4, <1>6, <1>7

PageActions ==
  \/ NewPage \/ Remove
  \/ \E f \in Files : OpenFile(f)
  \/ \E recorded \in BOOLEAN, last, g \in Graphs : CreateHier(recorded, last, g)

LEMMA PageActionsKeep ==
  ASSUME Inv, PageActions, acts' \in 0..MaxActs
  PROVE  Inv' /\ HistoryStep
PROOF
<1> USE DEF notebook, documents, processes, toClose, written, history
<1>0. /\ button \in ButtonType /\ open \subseteq Pages /\ current \in Pages
      /\ file \in [Pages -> Files \cup {NoFile}] /\ saved \in [Pages -> BOOLEAN]
      /\ graph \in [Pages -> Graphs] /\ proc \in [Pages -> Pids \cup {NoProc}]
      /\ astray \cup unrecorded \subseteq Pages
  BY DEF Inv, TypeOK
<1>1. "GLOBALS" \in Frames /\ "remove" \in Frames
  BY DEF Frames
<1>2. Unused \subseteq Pages /\ Unused \cap open = {}
  BY DEF Unused
<1>3. ASSUME NEW n \in Graphs
      PROVE  Sound(NewCache(n)) /\ Imported[BlankGraph][n] \in Graphs
  BY NewBegins
<1>4. ASSUME NEW p \in Unused, NEW f \in Files \cup {NoFile}, NEW n \in Graphs,
             MakePage(p, f, n), open' = open \cup {p}, current' = p,
             calls' \in Seq(Frames), UNCHANGED <<toClose, written, history, procs>>
      PROVE  Inv' /\ HistoryStep
  <2>1. cache' = [cache EXCEPT ![p] = NewCache(n)] /\ p \in Pages /\ p \notin open
    BY <1>2, <1>4 DEF MakePage
  <2>2. HistoryStep /\ SoundCaches' /\ cache' \in [Pages -> CacheType]
    BY <1>3, <2>1, OneCacheStep
  <2>3. button' \in ButtonType
    BY <1>0, <1>4, ButtonTypes DEF MakePage
  <2>4. TypeOK'
    BY <1>0, <1>3, <1>4, <2>1, <2>2, <2>3 DEF Inv, TypeOK, MakePage
  <2> QED BY <2>2, <2>4 DEF Inv
<1>5. CASE NewPage
  <2>1. calls' \in Seq(Frames)
    BY <1>1, <1>5, FrameSequences, CallsType DEF NewPage, At
  <2>2. PICK p \in Unused : MakePage(p, NoFile, BlankGraph)
                             /\ open' = open \cup {p} /\ current' = p
    BY <1>5 DEF NewPage
  <2> QED BY <1>4, <1>5, <2>1, <2>2 DEF NewPage
<1>6. ASSUME NEW f \in Files, OpenFile(f) PROVE Inv' /\ HistoryStep
  <2>1. calls' \in Seq(Frames)
    BY <1>1, <1>6, FrameSequences, CallsType DEF OpenFile, At
  <2>2. ASSUME UNCHANGED <<documents, open, proc, button>>, current' \in Pages
        PROVE  Inv' /\ HistoryStep
    <3>1. TypeOK'
      BY <1>6, <2>1, <2>2 DEF OpenFile, Inv, TypeOK
    <3> QED BY <2>2, <3>1, NoCacheStep DEF Inv
  <2>3. CASE \E p \in open : file[p] = f
    BY <1>0, <1>6, <2>2, <2>3 DEF OpenFile
  <2>4. CASE (~ \E p \in open : file[p] = f) /\ disk[f] = Damaged
    BY <1>0, <1>6, <2>2, <2>4 DEF OpenFile
  <2>5. CASE (~ \E p \in open : file[p] = f) /\ disk[f] # Damaged
    <3>1. disk[f] \in Graphs
      BY <2>5 DEF Inv, TypeOK
    <3>2. PICK p \in Unused : MakePage(p, f, disk[f])
                               /\ open' = open \cup {p} /\ current' = p
      BY <1>6, <2>5 DEF OpenFile
    <3> QED BY <1>4, <1>6, <2>1, <3>1, <3>2 DEF OpenFile
  <2> QED BY <2>3, <2>4, <2>5
<1>7. ASSUME NEW recorded \in BOOLEAN, NEW last \in Graphs, NEW g \in Graphs,
             CreateHier(recorded, last, g)
      PROVE  Inv' /\ HistoryStep
  <2> DEFINE blank == NewCache(BlankGraph)
             c == IF recorded THEN SaveNewState(blank, last) ELSE blank
  <2>1. calls' \in Seq(Frames)
    <3>1. CASE Then(<< >>)
      BY <1>7, <3>1, FrameSequences, CallsType DEF CreateHier, At
    <3>2. CASE calls' = << >>
      BY <3>2, FrameSequences
    <3> QED BY <1>7, <3>1, <3>2 DEF CreateHier
  <2>2. PICK p \in Unused :
          /\ file' = [file EXCEPT ![p] = NoFile]
          /\ saved' = [saved EXCEPT ![p] = ~recorded]
          /\ cache' = [cache EXCEPT ![p] = c]
          /\ graph' = [graph EXCEPT ![p] = g]
          /\ proc' = [proc EXCEPT ![p] = NoProc]
          /\ open' = open \cup {p} /\ current' = p
          /\ unrecorded' = unrecorded \cup {p}
    BY <1>7 DEF CreateHier
  <2>3. Sound(c)
    BY <1>3, SaveRecords
  <2>4. p \in Pages /\ p \notin open
    BY <1>2
  <2>5. HistoryStep /\ SoundCaches' /\ cache' \in [Pages -> CacheType]
    BY <2>2, <2>3, <2>4, OneCacheStep
  <2>6. button' \in ButtonType
    <3>1. UndoRedo(button, c) \in ButtonType
      BY <1>0, ButtonTypes
    <3>2. PICK b \in ButtonType : b = UndoRedo(button, c)
      BY <3>1, Zenon
    <3>3. \A e \in BOOLEAN :
            [b EXCEPT !.exec = e, !.kill = FALSE, !.save = recorded] \in ButtonType
      BY <1>7 DEF ButtonType
    <3>4. \/ button' = b
          \/ \E e \in BOOLEAN :
               button' = [b EXCEPT !.exec = e, !.kill = FALSE, !.save = recorded]
      BY <1>7, <3>2 DEF CreateHier
    <3> QED BY <3>3, <3>4
  <2>7. saved' \in [Pages -> BOOLEAN]
    <3>1. (~recorded) \in BOOLEAN
      OBVIOUS
    <3> QED BY <1>0, <2>2, <3>1
  <2> HIDE DEF c
  <2>8. TypeOK'
    BY <1>0, <1>7, <2>1, <2>2, <2>4, <2>5, <2>6, <2>7 DEF Inv, TypeOK, CreateHier
  <2> QED BY <2>5, <2>8 DEF Inv
<1>8. ASSUME NEW S, BlankPages(S), S \cap open \cap open' = {}, open' \subseteq Pages,
             current' \in Pages, calls' \in Seq(Frames), button' \in ButtonType,
             proc' \in [Pages -> Pids \cup {NoProc}], closing' = NoPage,
             astray' = astray \ {closing}, unrecorded' = unrecorded \ {closing},
             discarded' = discarded \ {closing}, UNCHANGED <<written, procs, left>>
      PROVE  Inv' /\ HistoryStep
  <2>1. HistoryStep /\ SoundCaches' /\ cache' \in [Pages -> CacheType]
    BY <1>8, BlankCaches
  <2>2. /\ file' \in [Pages -> Files \cup {NoFile}] /\ saved' \in [Pages -> BOOLEAN]
        /\ graph' \in [Pages -> Graphs]
    BY <1>0, <1>3, <1>8 DEF BlankPages
  <2>3. TypeOK'
    BY <1>8, <2>1, <2>2 DEF Inv, TypeOK
  <2> QED BY <2>1, <2>3 DEF Inv
<1>9. CASE Remove
  <2> DEFINE rest == open \ {closing}
  <2>1. /\ closing' = NoPage
        /\ astray' = astray \ {closing} /\ unrecorded' = unrecorded \ {closing}
        /\ discarded' = discarded \ {closing} /\ UNCHANGED <<written, procs, left>>
    BY <1>9 DEF Remove
  <2>2. CASE \E p \in Unused :
               /\ open' = {p} /\ current' = p /\ BlankPages({closing, p})
               /\ proc' = [proc EXCEPT ![p] = NoProc]
               /\ button' = UndoRedo(button, NewCache(BlankGraph)) /\ Then(<<"GLOBALS">>)
    <3>1. PICK p \in Unused :
               /\ open' = {p} /\ current' = p /\ BlankPages({closing, p})
               /\ proc' = [proc EXCEPT ![p] = NoProc]
               /\ button' = UndoRedo(button, NewCache(BlankGraph)) /\ Then(<<"GLOBALS">>)
      BY <2>2
    <3>2. {closing, p} \cap open \cap open' = {}
      BY <1>2, <3>1
    <3>3. calls' \in Seq(Frames)
      BY <1>1, <1>9, <3>1, FrameSequences, CallsType DEF Remove, At
    <3>4. button' \in ButtonType
      BY <1>0, <3>1, ButtonTypes
    <3>5. /\ proc' \in [Pages -> Pids \cup {NoProc}]
          /\ open' \subseteq Pages /\ current' \in Pages
      BY <1>0, <1>2, <3>1
    <3> QED BY <1>8, <2>1, <3>1, <3>2, <3>3, <3>4, <3>5
  <2>3. CASE /\ open' = rest
             /\ current' \in IF current # closing \/ rest = {} THEN {current} ELSE rest
             /\ BlankPages({closing}) /\ UNCHANGED <<proc, button>>
             /\ Then(IF current' = current THEN << >> ELSE <<"GLOBALS">>)
    <3>1. {closing} \cap open \cap open' = {} /\ open' \subseteq Pages
      BY <1>0, <2>3
    <3>2. current' \in Pages
      BY <1>0, <2>3
    <3>3. calls' \in Seq(Frames)
      BY <1>1, <1>9, <2>3, FrameSequences, CallsType DEF Remove, At
    <3>4. button' \in ButtonType /\ proc' \in [Pages -> Pids \cup {NoProc}]
      BY <1>0, <2>3
    <3> QED BY <1>8, <2>1, <2>3, <3>1, <3>2, <3>3, <3>4
  <2> QED BY <1>9, <2>2, <2>3 DEF Remove
<1> QED BY <1>5, <1>6, <1>7, <1>9 DEF PageActions

-----------------------------------------------------------------------------
(* The whole.                                                               *)

LEMMA InitKeeps == Init => Inv
PROOF
<1> SUFFICES ASSUME Init PROVE Inv
  OBVIOUS
<1> USE DEF Init
<1>1. current \in Pages /\ open \subseteq Pages
  BY DEF Init
<1>2. Sound(NewCache(BlankGraph)) /\ NewCache(BlankGraph) \in CacheType
  BY NewBegins DEF Sound
<1>3. SoundCaches
  BY <1>2 DEF SoundCaches
<1>4. NoThread \in ThreadType
  BY DEF NoThread, ThreadType
<1>5. calls \in Seq(Frames)
  BY FrameSequences DEF Frames
<1>6. button \in ButtonType
  BY DEF ButtonType
<1>7. acts \in 0..MaxActs
  OBVIOUS
<1>8. Imported[BlankGraph][BlankGraph] \in Graphs
  OBVIOUS
<1>9. graph \in [Pages -> Graphs] /\ cache \in [Pages -> CacheType]
  BY <1>2, <1>8
<1>10. procs \in [Pids -> ThreadType]
  BY <1>4
<1>11. TypeOK
  BY <1>1, <1>5, <1>6, <1>7, <1>9, <1>10 DEF TypeOK
<1> QED BY <1>3, <1>11 DEF Inv

LEMMA NextKeeps == Inv /\ [Next]_vars => Inv' /\ (HistoryStep \/ UNCHANGED vars)
PROOF
<1> SUFFICES ASSUME Inv, [Next]_vars PROVE Inv' /\ (HistoryStep \/ UNCHANGED vars)
  OBVIOUS
<1>0. acts \in 0..MaxActs
  BY DEF Inv, TypeOK
<1>1. CASE UserStarts
  <2>1. acts' \in 0..MaxActs
    BY <1>0, <1>1 DEF UserStarts
  <2>2. CASE \E a \in UserActions : Activate(a)
    BY <2>1, <2>2, ControlActionsKeep DEF ControlActions
  <2>3. CASE \E p \in Pages : ClickClose(p) \/ SwitchPage(p)
    BY <2>1, <2>3, DataActionsKeep DEF DataActions
  <2>4. CASE \E g \in Graphs : Edit(g)
    BY <2>1, <2>4, EditActionsKeep DEF EditActions
  <2>5. CASE \E g \in Graphs : PasteRaises(g)
    BY <2>1, <2>5, DataActionsKeep DEF DataActions
  <2> QED BY <1>1, <2>2, <2>3, <2>4, <2>5 DEF UserStarts
<1>2. CASE UserAnswers /\ UNCHANGED acts
  <2>1. CASE ControlActions \/ DataActions \/ EditActions \/ PageActions
    BY <1>0, <1>2, <2>1, ControlActionsKeep, DataActionsKeep, EditActionsKeep, PageActionsKeep
  <2>2. ControlActions \/ DataActions \/ EditActions \/ PageActions
    BY <1>2 DEF UserAnswers, ControlActions, DataActions, EditActions, PageActions
  <2> QED BY <2>1, <2>2
<1>3. CASE MainThread /\ UNCHANGED acts
  <2>1. CASE ControlActions \/ DataActions \/ EditActions \/ PageActions
    BY <1>0, <1>3, <2>1, ControlActionsKeep, DataActionsKeep, EditActionsKeep, PageActionsKeep
  <2>2. ControlActions \/ DataActions \/ EditActions \/ PageActions
    BY <1>3 DEF MainThread, ControlActions, DataActions, EditActions, PageActions
  <2> QED BY <2>1, <2>2
<1>4. CASE Others /\ UNCHANGED acts
  BY <1>0, <1>4, ThreadActionsKeep DEF Others, ThreadActions
<1>5. CASE UNCHANGED vars
  BY <1>5 DEF vars, notebook, documents, processes, toClose, written, history, Inv, TypeOK,
              SoundCaches
<1> QED BY <1>1, <1>2, <1>3, <1>4, <1>5 DEF Next

\* The types hold in every reachable state: among them that the current page is a
\* page and that every slot the undo list's index can reach is in the array.
THEOREM TypeTheorem == Spec => []TypeOK
PROOF
<1>1. Inv => TypeOK
  BY DEF Inv
<1> QED BY <1>1, InitKeeps, NextKeeps, PTL DEF Spec

\* Whatever the editor does, the undo list of a page in the notebook records, undoes,
\* redoes or stays (ActionHandler.py through StateCache.py), for every size of it.
THEOREM HistoryTheorem == Spec => CachesAreHistories
PROOF
<1>1. Inv /\ [Next]_vars => [HistoryStep]_vars
  BY NextKeeps
<1>2. CachesAreHistories <=> [][HistoryStep]_vars
  BY PTL DEF CachesAreHistories, HistoryStep
<1> QED BY <1>1, <1>2, InitKeeps, NextKeeps, PTL DEF Spec

-----------------------------------------------------------------------------
(***************************************************************************)
(* Processes, buttons and answers (ProcessesCanBeStopped,                  *)
(* AskedBeforeLost).  What a handler relies on was tested by the handler   *)
(* that called it, before dialogs in which processes end: the invariant    *)
(* says which calls may be on top of which, and what is still true of      *)
(* what is under way.                                                      *)
(***************************************************************************)

Saving == {"SAVE", "SAVE_AS", "GLOBALS"}

Closing == {"CLOSE", "ask", "still", "stop", "remove"}

\* the calls that may be on top of f
Above(f) ==
  CASE f = "popen" -> Saving \cup {"GEN", "write"}
    [] f \in {"write", "still"} -> Saving
    [] f = "remove" -> {"KILL", "GLOBALS"}
    [] f \in {"ask", "stop"} -> {"GLOBALS"}
    [] f = "each" -> Closing \cup Saving \cup {"KILL"}
    [] f = "QUIT_END" -> Closing \cup Saving \cup {"KILL", "each"}
    [] f = "GLOBALS" -> Frames \ {"exit"}
    [] OTHER -> {}

On(f) == \E i \in DOMAIN calls : calls[i] = f

Below == {calls[i] : i \in 2..Len(calls)}

Nested == \A i, j \in DOMAIN calls : i < j => calls[i] \in Above(calls[j])

\* the user's actions end with what is common to them
Bottomed == calls # << >> => calls[Len(calls)] \in {"GLOBALS", "exit"}

Ordered == Nested /\ Bottomed /\ (On("each") => On("QUIT_END"))

\* a quit closes the pages that were open, and only a quit leaves none
Quits ==
  /\ left \subseteq open /\ (left # {} => On("each"))
  /\ current \in open \/ (open = {} /\ (On("QUIT_END") \/ On("exit")))

\* the page that is being closed is there, and shown as long as its process runs; from
\* "stop" on it may go
Closes ==
  /\ closing # NoPage => closing \in open \ left /\ \E c \in Closing : On(c)
  /\ On("CLOSE") => closing # NoPage \/ ~On("QUIT_END")
  /\ (On("ask") \/ On("still") \/ On("stop")) =>
       closing # NoPage /\ (proc[closing] = NoProc \/ current = closing)
  /\ On("remove") =>
       /\ closing # NoPage
       /\ \/ proc[closing] = NoProc \/ procs[proc[closing]].killed
          \/ current = closing /\ On("KILL")
  /\ (On("stop") \/ On("remove")) => saved[closing] \/ closing \in discarded

\* pages and processes know each other; a page gets a process only if it has none
Runs ==
  /\ \A k \in Pids : procs[k].state # "none" =>
       /\ procs[k].page \in Pages /\ proc[procs[k].page] = k
       /\ procs[k].page \in open \/ procs[k].killed
  /\ \A p \in Pages : proc[p] # NoProc =>
       procs[proc[p]].page = p /\ procs[proc[p]].state # "none"
  /\ On("popen") => proc[current] = NoProc

Sane == Ordered /\ Quits /\ Closes /\ Runs

Stoppable == Inv /\ Sane /\ ButtonsFollow

-----------------------------------------------------------------------------
(* Replacing the innermost call by others.                                  *)

\* T is what is on the stack instead of the innermost call
Shift(T) == Nested' /\ Bottomed' /\ \A f : On(f)' <=> f \in T \cup Below

LEMMA TopFacts ==
  ASSUME Inv, Nested, calls # << >>
  PROVE  /\ Top = calls[1] /\ Len(calls) \in Nat /\ Len(calls) > 0 /\ Top \in Frames
         /\ Below \subseteq Frames
         /\ \A f : On(f) <=> f = Top \/ f \in Below
         /\ \A f \in Below : Top \in Above(f)
PROOF
<1>1. calls \in Seq(Frames) /\ DOMAIN calls = 1..Len(calls) /\ Len(calls) \in Nat
      /\ Len(calls) > 0
  BY DEF Inv, TypeOK
<1>2. Top = calls[1]
  BY <1>1 DEF Top
<1>3. \A i \in 1..Len(calls) : calls[i] \in Frames
  BY <1>1
<1>4. \A f : On(f) <=> f = calls[1] \/ f \in Below
  BY <1>1 DEF On, Below
<1>5. ASSUME NEW f \in Below PROVE calls[1] \in Above(f)
  <2>1. PICK i \in 2..Len(calls) : f = calls[i]
    BY DEF Below
  <2>2. 1 \in DOMAIN calls /\ i \in DOMAIN calls /\ 1 < i
    BY <1>1
  <2> QED BY <2>1, <2>2 DEF Nested
<1>6. Below \subseteq Frames
  BY <1>3 DEF Below
<1> QED BY <1>1, <1>2, <1>3, <1>4, <1>5, <1>6

LEMMA Replaced ==
  ASSUME Inv, Nested, Bottomed, calls # << >>, NEW c \in Seq(Frames), Then(c),
         Top = "GLOBALS" => c = << >>, Top # "exit",
         \A i, j \in 1..Len(c) : i < j => c[i] \in Above(c[j]),
         \A f \in Frames : Top \in Above(f) => \A i \in 1..Len(c) : c[i] \in Above(f)
  PROVE  Shift({c[i] : i \in 1..Len(c)})
PROOF
<1> DEFINE n == Len(calls)
           m == Len(c)
<1>1. /\ calls \in Seq(Frames) /\ n \in Nat /\ n > 0 /\ m \in Nat /\ DOMAIN calls = 1..n
  BY TopFacts DEF Inv, TypeOK
<1>2. /\ Tail(calls) \in Seq(Frames) /\ Len(Tail(calls)) = n - 1
      /\ \A i \in 1..n - 1 : Tail(calls)[i] = calls[i + 1]
  BY <1>1, HeadTailProperties
<1>3. /\ calls' \in Seq(Frames) /\ Len(calls') = m + (n - 1)
      /\ \A i \in 1..m + (n - 1) : calls'[i] = IF i <= m THEN c[i] ELSE Tail(calls)[i - m]
  BY <1>1, <1>2, ConcatProperties DEF Then
<1>4. \A i \in 1..m + (n - 1) : calls'[i] = IF i <= m THEN c[i] ELSE calls[i - m + 1]
  BY <1>1, <1>2, <1>3
<1>5. DOMAIN calls' = 1..m + (n - 1)
  BY <1>3
<1> HIDE DEF n, m
<1>6. ASSUME NEW i \in 1..m + (n - 1), NEW j \in 1..m + (n - 1), i < j
      PROVE  calls'[i] \in Above(calls'[j])
  <2>1. CASE j <= m
    <3>1. i \in 1..m /\ j \in 1..m /\ calls'[i] = c[i] /\ calls'[j] = c[j]
      BY <1>1, <1>4, <1>6, <2>1
    <3> QED BY <1>6, <3>1 DEF m
  <2>2. CASE i <= m /\ j > m
    <3>1. i \in 1..m /\ calls'[i] = c[i] /\ calls'[j] = calls[j - m + 1]
          /\ j - m + 1 \in 2..n
      BY <1>1, <1>4, <1>6, <2>2
    <3>2. calls[j - m + 1] \in Below
      BY <3>1 DEF Below, n
    <3>3. calls[j - m + 1] \in Frames /\ Top \in Above(calls[j - m + 1])
      BY <3>2, TopFacts
    <3> QED BY <3>1, <3>3 DEF m
  <2>3. CASE i > m
    <3>1. /\ calls'[i] = calls[i - m + 1] /\ calls'[j] = calls[j - m + 1]
          /\ i - m + 1 \in 1..n /\ j - m + 1 \in 1..n /\ i - m + 1 < j - m + 1
      BY <1>1, <1>4, <1>6, <2>3
    <3> QED BY <1>1, <3>1 DEF Nested
  <2> QED BY <1>1, <1>6, <2>1, <2>2, <2>3
<1>7. Nested'
  BY <1>5, <1>6 DEF Nested
<1>8. Bottomed'
  <2>1. CASE n > 1
    <3>1. m + (n - 1) \in 1..m + (n - 1) /\ m + (n - 1) > m /\ (m + (n - 1)) - m + 1 = n
      BY <1>1, <2>1
    <3>2. calls'[m + (n - 1)] = calls[n]
      BY <1>1, <1>4, <3>1
    <3>3. Len(calls') = m + (n - 1)
      BY <1>3
    <3> QED BY <3>2, <3>3 DEF Bottomed, n
  <2>2. CASE n = 1
    <3>1. Top = calls[1] /\ calls[1] \in {"GLOBALS", "exit"}
      BY <2>2, TopFacts DEF Bottomed, n
    <3>2. c = << >>
      BY <3>1
    <3>3. Len(calls') = 0
      BY <1>1, <1>3, <2>2, <3>2 DEF n, m
    <3> QED BY <1>3, <3>3 DEF Bottomed
  <2> QED BY <1>1, <2>1, <2>2
<1>9. ASSUME NEW f PROVE On(f)' <=> f \in {c[i] : i \in 1..Len(c)} \cup Below
  <2>1. ASSUME On(f)' PROVE f \in {c[i] : i \in 1..Len(c)} \cup Below
    <3>1. PICK i \in 1..m + (n - 1) : calls'[i] = f
      BY <1>5, <2>1 DEF On
    <3>2. CASE i <= m
      BY <1>1, <1>4, <3>1, <3>2 DEF m
    <3>3. CASE i > m
      <4>1. i - m + 1 \in 2..n /\ f = calls[i - m + 1]
        BY <1>1, <1>4, <3>1, <3>3
      <4> QED BY <4>1 DEF Below, n
    <3> QED BY <1>1, <3>2, <3>3
  <2>2. ASSUME NEW i \in 1..Len(c), f = c[i] PROVE On(f)'
    <3>1. i \in 1..m + (n - 1) /\ calls'[i] = f
      BY <1>1, <1>4, <2>2 DEF m
    <3> QED BY <1>5, <3>1 DEF On
  <2>3. ASSUME NEW i \in 2..Len(calls), f = calls[i] PROVE On(f)'
    <3>1. i + m - 1 \in 1..m + (n - 1) /\ i + m - 1 > m /\ (i + m - 1) - m + 1 = i
      BY <1>1, <2>3 DEF n
    <3>2. calls'[i + m - 1] = f
      BY <1>1, <1>4, <2>3, <3>1
    <3> QED BY <1>5, <3>1, <3>2 DEF On
  <2> QED BY <2>1, <2>2, <2>3 DEF Below
<1> QED BY <1>7, <1>8, <1>9 DEF Shift

LEMMA ReplacedByFew ==
  ASSUME Inv, Nested, Bottomed, calls # << >>, Top # "exit"
  PROVE  /\ Then(<< >>) => Shift({})
         /\ Top # "GLOBALS" =>
              /\ \A a \in Frames :
                   /\ Then(<<a>>)
                   /\ \A f \in Frames : Top \in Above(f) => a \in Above(f)
                   => Shift({a})
              /\ \A a, b \in Frames :
                   /\ Then(<<a, b>>) /\ a \in Above(b)
                   /\ \A f \in Frames : Top \in Above(f) => {a, b} \subseteq Above(f)
                   => Shift({a, b})
              /\ \A c \in Seq(Frames) :
                   /\ Then(c) /\ Len(c) = 3
                   /\ c[1] \in Above(c[2]) /\ {c[1], c[2]} \subseteq Above(c[3])
                   /\ \A f \in Frames :
                        Top \in Above(f) => {c[1], c[2], c[3]} \subseteq Above(f)
                   => Shift({c[1], c[2], c[3]})
PROOF
<1>1. ASSUME Then(<< >>) PROVE Shift({})
  <2>0. << >> \in Seq(Frames)
    OBVIOUS
  <2>1. PICK c \in Seq(Frames) : c = << >>
    BY <2>0, Zenon
  <2>2. Len(c) = 0 /\ Then(c)
    BY <1>1, <2>1
  <2>3. {c[i] : i \in 1..Len(c)} = {}
    BY <2>2
  <2>4. \A f \in Frames : Top \in Above(f) => \A i \in 1..Len(c) : c[i] \in Above(f)
    BY <2>2
  <2>5. \A i, j \in 1..Len(c) : i < j => c[i] \in Above(c[j])
    BY <2>2
  <2>6. Shift({c[i] : i \in 1..Len(c)})
    BY <2>1, <2>2, <2>4, <2>5, Replaced
  <2> QED BY <2>3, <2>6
<1>2. ASSUME NEW a \in Frames, Top # "GLOBALS", Then(<<a>>),
             \A f \in Frames : Top \in Above(f) => a \in Above(f)
      PROVE  Shift({a})
  <2> DEFINE c == <<a>>
  <2>1. c \in Seq(Frames) /\ Len(c) = 1 /\ c[1] = a
    OBVIOUS
  <2> HIDE DEF c
  <2>2. {c[i] : i \in 1..Len(c)} = {a}
    BY <2>1
  <2>3. Then(c)
    BY <1>2 DEF c
  <2>4. \A f \in Frames : Top \in Above(f) => \A i \in 1..Len(c) : c[i] \in Above(f)
    BY <1>2, <2>1
  <2>5. \A i, j \in 1..Len(c) : i < j => c[i] \in Above(c[j])
    BY <2>1
  <2>6. Shift({c[i] : i \in 1..Len(c)})
    BY <1>2, <2>1, <2>3, <2>4, <2>5, Replaced
  <2> QED BY <2>2, <2>6
<1>3. ASSUME NEW a \in Frames, NEW b \in Frames, Top # "GLOBALS", Then(<<a, b>>),
             a \in Above(b),
             \A f \in Frames : Top \in Above(f) => {a, b} \subseteq Above(f)
      PROVE  Shift({a, b})
  <2> DEFINE c == <<a, b>>
  <2>1. c \in Seq(Frames) /\ Len(c) = 2 /\ c[1] = a /\ c[2] = b
    OBVIOUS
  <2>2. Then(c)
    BY <1>3
  <2> HIDE DEF c
  <2>3. \A i \in 1..Len(c) : i = 1 \/ i = 2
    BY <2>1
  <2>4. {c[i] : i \in 1..Len(c)} = {a, b}
    BY <2>1, <2>3
  <2>5. \A f \in Frames : Top \in Above(f) => \A i \in 1..Len(c) : c[i] \in Above(f)
    BY <1>3, <2>1, <2>3
  <2>6. \A i, j \in 1..Len(c) : i < j => c[i] \in Above(c[j])
    BY <1>3, <2>1, <2>3
  <2>7. Shift({c[i] : i \in 1..Len(c)})
    BY <1>3, <2>1, <2>2, <2>5, <2>6, Replaced
  <2> QED BY <2>4, <2>7
<1>4. ASSUME NEW c \in Seq(Frames), Top # "GLOBALS", Then(c), Len(c) = 3,
             c[1] \in Above(c[2]), {c[1], c[2]} \subseteq Above(c[3]),
             \A f \in Frames : Top \in Above(f) => {c[1], c[2], c[3]} \subseteq Above(f)
      PROVE  Shift({c[1], c[2], c[3]})
  <2>1. \A i \in 1..Len(c) : i = 1 \/ i = 2 \/ i = 3
    BY <1>4
  <2>2. {c[i] : i \in 1..Len(c)} = {c[1], c[2], c[3]}
    BY <1>4, <2>1
  <2>3. \A f \in Frames : Top \in Above(f) => \A i \in 1..Len(c) : c[i] \in Above(f)
    BY <1>4, <2>1
  <2>4. \A i, j \in 1..Len(c) : i < j => c[i] \in Above(c[j])
    BY <1>4, <2>1
  <2>5. Shift({c[i] : i \in 1..Len(c)})
    BY <1>4, <2>3, <2>4, Replaced
  <2> QED BY <2>2, <2>5
<1> QED BY <1>1, <1>2, <1>3, <1>4

\* the calls a handler makes, with what is common to all actions at their end
LEMMA ReplacedByActions ==
  ASSUME Inv, Nested, Bottomed, calls # << >>, Top \notin {"exit", "GLOBALS"},
         NEW a \in Frames \ {"exit"}
  PROVE  /\ /\ Then(Invoke(a))
            /\ \A f \in Frames : Top \in Above(f) => {a, "GLOBALS"} \subseteq Above(f)
            => Shift({a, "GLOBALS"})
         /\ \A b \in Frames :
              /\ Then(Invoke(a) \o <<b>>) /\ {a, "GLOBALS"} \subseteq Above(b)
              /\ \A f \in Frames : Top \in Above(f) => {a, "GLOBALS", b} \subseteq Above(f)
              => Shift({a, "GLOBALS", b})
PROOF
<1>1. "GLOBALS" \in Frames /\ a \in Above("GLOBALS")
  BY DEF Frames, Above
<1>2. ASSUME Then(Invoke(a)),
             \A f \in Frames : Top \in Above(f) => {a, "GLOBALS"} \subseteq Above(f)
      PROVE  Shift({a, "GLOBALS"})
  <2>1. Then(<<a, "GLOBALS">>)
    BY <1>2 DEF Invoke
  <2> QED BY <1>1, <1>2, <2>1, ReplacedByFew
<1>3. ASSUME NEW b \in Frames, Then(Invoke(a) \o <<b>>), {a, "GLOBALS"} \subseteq Above(b),
             \A f \in Frames : Top \in Above(f) => {a, "GLOBALS", b} \subseteq Above(f)
      PROVE  Shift({a, "GLOBALS", b})
  <2> DEFINE c == Invoke(a) \o <<b>>
  <2>1. PICK g \in Frames : g = "GLOBALS"
    BY <1>1
  <2>0. <<a, g>> \in Seq(Frames) /\ <<b>> \in Seq(Frames)
    OBVIOUS
  <2>2. PICK s \in Seq(Frames) : s = <<a, g>>
    BY <2>0, Zenon
  <2>3. PICK t \in Seq(Frames) : t = <<b>>
    BY <2>0, Zenon
  <2>6. /\ s \o t \in Seq(Frames) /\ Len(s \o t) = 3 /\ c = s \o t
        /\ (s \o t)[1] = a /\ (s \o t)[2] = g /\ (s \o t)[3] = b
    <3>0. Len(s) = 2 /\ s[1] = a /\ s[2] = g /\ Len(t) = 1 /\ t[1] = b
      BY <2>2, <2>3
    <3>1. /\ s \o t \in Seq(Frames) /\ Len(s \o t) = Len(s) + Len(t)
          /\ \A i \in 1..Len(s) + Len(t) :
               (s \o t)[i] = IF i <= Len(s) THEN s[i] ELSE t[i - Len(s)]
      BY ONLY ConcatProperties, s \in Seq(Frames), t \in Seq(Frames)
    <3>2. Len(s) + Len(t) = 3 /\ 1 \in 1..3 /\ 2 \in 1..3 /\ 3 \in 1..3
      BY <3>0
    <3>3. c = s \o t
      BY <2>1, <2>2, <2>3 DEF Invoke
    <3> QED BY <3>0, <3>1, <3>2, <3>3
  <2>4. Then(c)
    BY <1>3
  <2> HIDE DEF c
  <2>5. c \in Seq(Frames) /\ Len(c) = 3 /\ c[1] = a /\ c[2] = "GLOBALS" /\ c[3] = b
    BY <2>1, <2>6
  <2>7. /\ c[1] \in Above(c[2]) /\ {c[1], c[2]} \subseteq Above(c[3])
        /\ \A f \in Frames : Top \in Above(f) => {c[1], c[2], c[3]} \subseteq Above(f)
    BY <1>1, <1>3, <2>5
  <2>8. Top # "GLOBALS" /\ Top # "exit"
    OBVIOUS
  <2>9. Shift({c[1], c[2], c[3]})
    BY <2>4, <2>5, <2>7, <2>8, ReplacedByFew
  <2> QED BY <2>5, <2>9
<1> QED BY <1>2, <1>3

\* what may be under one call may be under those it makes
LEMMA AboveFacts ==
  ASSUME NEW f \in Frames
  PROVE  /\ "SAVE" \in Above(f) => {"SAVE_AS", "GLOBALS"} \subseteq Above(f)
         /\ "SAVE_AS" \in Above(f) => {"SAVE", "GLOBALS"} \subseteq Above(f)
         /\ "GEN" \in Above(f) => {"SAVE", "GLOBALS", "write"} \subseteq Above(f)
         /\ "EXEC" \in Above(f) => {"GEN", "GLOBALS", "popen"} \subseteq Above(f)
         /\ "OPEN" \in Above(f) => "GLOBALS" \in Above(f)
         /\ "NEW" \in Above(f) => "GLOBALS" \in Above(f)
         /\ "PARAM_MODIFY" \in Above(f) => "props" \in Above(f)
         /\ "CLOSE" \in Above(f) => {"GLOBALS", "ask", "stop"} \subseteq Above(f)
         /\ "ask" \in Above(f) => {"SAVE", "GLOBALS", "still", "stop"} \subseteq Above(f)
         /\ "still" \in Above(f) => "stop" \in Above(f)
         /\ "stop" \in Above(f) => {"KILL", "GLOBALS", "remove"} \subseteq Above(f)
         /\ "remove" \in Above(f) => "GLOBALS" \in Above(f)
         /\ "QUIT" \in Above(f) => {"each", "QUIT_END"} \subseteq Above(f)
         /\ "each" \in Above(f) => {"CLOSE", "each"} \subseteq Above(f)
PROOF
<1>1. \/ f \in {"popen", "write", "still", "remove", "ask", "stop", "each", "QUIT_END"}
      \/ f = "GLOBALS" /\ Above(f) = Frames \ {"exit"}
      \/ Above(f) = {}
  BY DEF Above
<1>2. CASE Above(f) = {}
  BY <1>2
<1>3. CASE f = "GLOBALS" /\ Above(f) = Frames \ {"exit"}
  BY <1>3 DEF Frames, UserActions, Dialogs
<1>4. CASE f \in {"popen", "write", "still", "remove", "ask", "stop", "each", "QUIT_END"}
  <2>1. CASE f \in {"popen", "write", "still", "remove", "ask", "stop"}
    BY <2>1 DEF Above, Saving
  <2>2. CASE f \in {"each", "QUIT_END"}
    BY <2>2 DEF Above, Saving, Closing
  <2> QED BY <1>4, <2>1, <2>2
<1> QED BY <1>1, <1>2, <1>3, <1>4

\* what is under a call, by what it may be on top of
LEMMA BelowFacts ==
  ASSUME Inv, Nested, calls # << >>
  PROVE  /\ Top \in Closing => Below \subseteq {"each", "QUIT_END", "GLOBALS"}
         /\ Top = "KILL" => Below \subseteq {"remove", "each", "QUIT_END", "GLOBALS"}
         /\ Top = "each" => Below \subseteq {"QUIT_END", "GLOBALS"}
         /\ Top \notin Closing \cup Saving \cup {"KILL", "GEN", "write", "each"} =>
              Below \subseteq {"GLOBALS"}
PROOF
<1>1. ASSUME NEW f \in Below PROVE f \in Frames /\ Top \in Above(f)
  BY <1>1, TopFacts
<1>2. ASSUME Top \in Closing, NEW f \in Below PROVE f \in {"each", "QUIT_END", "GLOBALS"}
  BY <1>1, <1>2 DEF Above, Closing, Saving
<1>3. ASSUME Top = "KILL", NEW f \in Below
      PROVE  f \in {"remove", "each", "QUIT_END", "GLOBALS"}
  BY <1>1, <1>3 DEF Above, Closing, Saving
<1>4. ASSUME Top = "each", NEW f \in Below PROVE f \in {"QUIT_END", "GLOBALS"}
  BY <1>1, <1>4 DEF Above, Closing, Saving
<1>5. ASSUME Top \notin Closing \cup Saving \cup {"KILL", "GEN", "write", "each"},
             NEW f \in Below
      PROVE  f = "GLOBALS"
  BY <1>1, <1>5 DEF Above, Saving
<1> QED BY <1>2, <1>3, <1>4, <1>5

-----------------------------------------------------------------------------
(* The invariant but for the buttons.                                       *)

\* a step that neither closes, quits nor executes
LEMMA CalmTurn ==
  ASSUME Inv, Sane, calls # << >>, NEW T, Shift(T),
         T \cap (Closing \cup {"each", "popen", "QUIT_END", "exit"}) = {},
         Top \notin Closing \cup {"each", "QUIT_END", "exit", "KILL"},
         UNCHANGED <<notebook, processes, toClose>>,
         Top = "GLOBALS" => UNCHANGED <<saved, discarded>>
  PROVE  Sane'
PROOF
<1>1. \A f : On(f) <=> f = Top \/ f \in Below
  BY TopFacts DEF Sane, Ordered
<1>2. \A f : On(f)' <=> f \in T \cup Below
  BY DEF Shift
<1>3. /\ \A f \in Closing \cup {"each", "QUIT_END", "exit"} : On(f)' <=> On(f)
      /\ On("popen")' => On("popen")
      /\ On("KILL") => On("KILL")'
  BY <1>1, <1>2
<1>4. Ordered'
  BY <1>3 DEF Shift, Sane, Ordered
<1>5. /\ open' = open /\ current' = current /\ proc' = proc /\ procs' = procs
      /\ closing' = closing /\ left' = left
  BY DEF notebook, processes, toClose
<1>6. Quits'
  BY <1>3, <1>5 DEF Sane, Quits
<1>7. ASSUME On("stop")' \/ On("remove")'
      PROVE  saved'[closing] \/ closing \in discarded'
  <2>1. "stop" \in Below \/ "remove" \in Below
    BY <1>1, <1>3, <1>7 DEF Closing
  <2>2. Top = "GLOBALS"
    BY <2>1, TopFacts DEF Above, Sane, Ordered
  <2> QED BY <1>3, <1>7, <2>2 DEF Sane, Closes, Closing
<1>8. Closes'
  BY <1>3, <1>5, <1>7 DEF Sane, Closes, Closing
<1>9. Runs'
  BY <1>3, <1>5 DEF Sane, Runs
<1> QED BY <1>4, <1>6, <1>8, <1>9 DEF Sane

LEMMA SaneStays ==
  ASSUME Sane, UNCHANGED <<notebook, processes, toClose, calls, saved, discarded>>
  PROVE  Sane'
BY DEF Sane, Ordered, Nested, Bottomed, Quits, Closes, Runs, On, notebook, processes, toClose

CalmActions ==
  \/ Globals \/ UndoAction \/ RedoAction \/ ParamModify \/ PropsAccept \/ PropsCancel
  \/ OpenCancel \/ SaveElsewhere \/ (\E ok \in BOOLEAN : SaveToFile(ok))
  \/ SaveAsCancel \/ (\E f \in Files : SaveAsFile(f))
  \/ Gen \/ (\E ok \in BOOLEAN : WriteScript(ok)) \/ NotSaved

LEMMA CalmActionsSane ==
  ASSUME Inv, Sane, CalmActions
  PROVE  Sane'
PROOF
<1> DEFINE Still == UNCHANGED <<notebook, processes, toClose>>
<1>1. Nested /\ Bottomed
  BY DEF Sane, Ordered
<1>2. Top # "main loop" => calls # << >>
  BY DEF Top
<1>3. ASSUME Then(<< >>), Still, Top = "GLOBALS" => UNCHANGED <<saved, discarded>>,
             Top \in {"GLOBALS", "UNDO", "REDO", "props", "OPEN", "SAVE", "SAVE_AS", "GEN",
                      "write", "popen"}
      PROVE  Sane'
  <2>1. Shift({})
    BY <1>1, <1>2, <1>3, ReplacedByFew
  <2> QED BY <1>2, <1>3, <2>1, CalmTurn DEF Closing
<1>4. CASE Globals \/ UndoAction \/ RedoAction \/ PropsAccept \/ PropsCancel
           \/ OpenCancel \/ (\E ok \in BOOLEAN : SaveToFile(ok)) \/ SaveAsCancel
           \/ (\E ok \in BOOLEAN : WriteScript(ok)) \/ NotSaved
  <2>1. Then(<< >>) /\ Still
    BY <1>4 DEF Globals, UndoAction, RedoAction, UndoOr, PropsAccept, PropsCancel, OpenCancel,
                SaveToFile, SaveAsCancel, WriteScript, NotSaved, OnlyCalls
  <2>2. Top \in {"GLOBALS", "UNDO", "REDO", "props", "OPEN", "SAVE", "SAVE_AS", "write", "popen"}
    BY <1>4 DEF Globals, UndoAction, RedoAction, PropsAccept, PropsCancel, OpenCancel,
                SaveToFile, SaveAsCancel, WriteScript, NotSaved, At
  <2>3. Top = "GLOBALS" => UNCHANGED <<saved, discarded>>
    BY <1>4 DEF Globals, UndoAction, RedoAction, PropsAccept, PropsCancel, OpenCancel,
                SaveToFile, SaveAsCancel, WriteScript, NotSaved, At, documents, history
  <2> QED BY <1>3, <2>1, <2>2, <2>3
<1>5. CASE ParamModify
  <2>1. At("PARAM_MODIFY") /\ Then(<<"props">>) /\ Still /\ "props" \in Frames
    BY <1>5 DEF ParamModify, OnlyCalls, Frames, Dialogs
  <2>2. Shift({"props"})
    BY <1>1, <1>2, <2>1, AboveFacts, ReplacedByFew DEF At
  <2> QED BY <1>2, <2>1, <2>2, CalmTurn DEF Closing, At
<1>6. CASE SaveElsewhere
  <2>1. At("SAVE") /\ Then(Invoke("SAVE_AS")) /\ Still /\ "SAVE_AS" \in Frames \ {"exit"}
    BY <1>6 DEF SaveElsewhere, OnlyCalls, Frames, UserActions
  <2>2. Shift({"SAVE_AS", "GLOBALS"})
    BY <1>1, <1>2, <2>1, AboveFacts, ReplacedByActions DEF At
  <2> QED BY <1>2, <2>1, <2>2, CalmTurn DEF Closing, At
<1>7. ASSUME NEW f \in Files, SaveAsFile(f) PROVE Sane'
  <2>1. At("SAVE_AS") /\ Then(Invoke("SAVE")) /\ Still /\ "SAVE" \in Frames \ {"exit"}
    BY <1>7 DEF SaveAsFile, Frames, UserActions
  <2>2. Shift({"SAVE", "GLOBALS"})
    BY <1>1, <1>2, <2>1, AboveFacts, ReplacedByActions DEF At
  <2> QED BY <1>2, <2>1, <2>2, CalmTurn DEF Closing, At
<1>8. CASE Gen
  <2>1. At("GEN") /\ Still /\ "SAVE" \in Frames \ {"exit"} /\ "write" \in Frames
    BY <1>8 DEF Gen, OnlyCalls, Frames, UserActions
  <2>2. CASE Then(<< >>)
    BY <1>3, <2>1, <2>2 DEF At
  <2>3. CASE Then(<<"write">>)
    <3>1. Shift({"write"})
      BY <1>1, <1>2, <2>1, <2>3, AboveFacts, ReplacedByFew DEF At
    <3> QED BY <1>2, <2>1, <3>1, CalmTurn DEF Closing, At
  <2>4. CASE Then(Invoke("SAVE") \o <<"write">>)
    <3>1. {"SAVE", "GLOBALS"} \subseteq Above("write")
      BY DEF Above, Saving
    <3>2. \A f \in Frames : Top \in Above(f) => {"SAVE", "GLOBALS", "write"} \subseteq Above(f)
      BY <2>1, AboveFacts DEF At
    <3>3. calls # << >> /\ Top \notin {"exit", "GLOBALS"}
      BY <1>2, <2>1 DEF At
    <3>4. Shift({"SAVE", "GLOBALS", "write"})
      BY <1>1, <2>1, <2>4, <3>1, <3>2, <3>3, ReplacedByActions
    <3> QED BY <1>2, <2>1, <3>4, CalmTurn DEF Closing, At
  <2> QED BY <1>8, <2>2, <2>3, <2>4 DEF Gen
<1> QED BY <1>4, <1>5, <1>6, <1>7, <1>8 DEF CalmActions

\* between actions nothing is under way
LEMMA IdleFacts ==
  ASSUME Inv, Sane, Idle
  PROVE  /\ calls = << >> /\ left = {} /\ closing = NoPage /\ current \in open
         /\ \A f : ~On(f)
PROOF
<1>1. calls = << >>
  <2>1. ASSUME calls # << >> PROVE FALSE
    BY <2>1, TopFacts DEF Idle, At, Sane, Ordered, Frames, UserActions, Dialogs
  <2> QED BY <2>1
<1>2. \A f : ~On(f)
  BY <1>1 DEF On
<1> QED BY <1>1, <1>2 DEF Sane, Quits, Closes

\* the user starts an action, or only what is common to them follows
LEMMA StartsFresh ==
  ASSUME NEW a \in UserActions
  PROVE  /\ calls' = Invoke(a) => Nested' /\ Bottomed' /\ \A f : On(f)' <=> f \in {a, "GLOBALS"}
         /\ calls' = <<"GLOBALS">> => Nested' /\ Bottomed' /\ \A f : On(f)' <=> f = "GLOBALS"
PROOF
<1>1. a \in Above("GLOBALS")
  BY DEF Above, Frames, UserActions
<1>2. ASSUME calls' = Invoke(a)
      PROVE  Nested' /\ Bottomed' /\ \A f : On(f)' <=> f \in {a, "GLOBALS"}
  <2>1. DOMAIN calls' = {1, 2} /\ Len(calls') = 2 /\ calls'[1] = a /\ calls'[2] = "GLOBALS"
    BY <1>2 DEF Invoke
  <2> QED BY <1>1, <2>1 DEF Nested, Bottomed, On
<1>3. ASSUME calls' = <<"GLOBALS">>
      PROVE  Nested' /\ Bottomed' /\ \A f : On(f)' <=> f = "GLOBALS"
  <2>1. DOMAIN calls' = {1} /\ Len(calls') = 1 /\ calls'[1] = "GLOBALS"
    BY <1>3
  <2> QED BY <2>1 DEF Nested, Bottomed, On
<1> QED BY <1>2, <1>3

StartActions ==
  \/ \E a \in UserActions : Activate(a)
  \/ \E p \in Pages : ClickClose(p) \/ SwitchPage(p)
  \/ \E g \in Graphs : Edit(g) \/ PasteRaises(g)

LEMMA StartsSane ==
  ASSUME Inv, Sane, StartActions
  PROVE  Sane'
PROOF
<1>1. Idle
  BY DEF StartActions, Activate, ClickClose, SwitchPage, Edit, PasteRaises
<1>2. left = {} /\ closing = NoPage /\ current \in open /\ \A f : ~On(f)
  BY <1>1, IdleFacts
<1>3. ASSUME NEW a \in UserActions, Activate(a) PROVE Sane'
  <2>1. Nested' /\ Bottomed' /\ \A f : On(f)' <=> f \in {a, "GLOBALS"}
    BY <1>3, StartsFresh DEF Activate
  <2>2. /\ open' = open /\ current' = current /\ proc' = proc /\ procs' = procs
        /\ closing' = closing /\ left' = left
    BY <1>3 DEF Activate, OnlyCalls, notebook, processes, toClose
  <2>3. Ordered'
    BY <2>1 DEF Ordered, UserActions
  <2>4. Quits'
    BY <1>2, <2>2 DEF Quits
  <2>5. Closes'
    <3>1. \A f \in {"ask", "still", "stop", "remove", "QUIT_END"} : ~On(f)'
      BY <2>1 DEF UserActions
    <3> QED BY <1>2, <2>2, <3>1 DEF Closes
  <2>6. Runs'
    BY <1>2, <2>1, <2>2 DEF Sane, Runs, UserActions
  <2> QED BY <2>3, <2>4, <2>5, <2>6 DEF Sane
<1>4. ASSUME NEW p \in Pages, ClickClose(p) PROVE Sane'
  <2>0. "CLOSE" \in UserActions
    BY DEF UserActions
  <2>1. Nested' /\ Bottomed' /\ \A f : On(f)' <=> f \in {"CLOSE", "GLOBALS"}
    BY <1>4, <2>0, StartsFresh DEF ClickClose
  <2>2. /\ open' = open /\ current' = current /\ proc' = proc /\ procs' = procs
        /\ closing' = p /\ left' = left /\ p \in open
    BY <1>4 DEF ClickClose, notebook, processes
  <2>3. Ordered'
    BY <2>1 DEF Ordered
  <2>4. Quits'
    BY <1>2, <2>2 DEF Quits
  <2>5. Closes'
    <3>1. \A f \in {"ask", "still", "stop", "remove", "QUIT_END"} : ~On(f)'
      BY <2>1
    <3>2. \E c \in Closing : On(c)'
      BY <2>1 DEF Closing
    <3> QED BY <1>2, <2>2, <3>1, <3>2 DEF Closes
  <2>6. Runs'
    BY <1>2, <2>1, <2>2 DEF Sane, Runs
  <2> QED BY <2>3, <2>4, <2>5, <2>6 DEF Sane
<1>5. ASSUME calls' = <<"GLOBALS">>, current' \in open,
             UNCHANGED <<open, processes, toClose>>
      PROVE  Sane'
  <2>0. "NEW" \in UserActions
    BY DEF UserActions
  <2>1. Nested' /\ Bottomed' /\ \A f : On(f)' <=> f = "GLOBALS"
    BY <1>5, <2>0, StartsFresh
  <2>2. /\ open' = open /\ current' \in open /\ proc' = proc /\ procs' = procs
        /\ closing' = closing /\ left' = left
    BY <1>5 DEF processes, toClose
  <2>3. Ordered'
    BY <2>1 DEF Ordered
  <2>4. Quits'
    BY <1>2, <2>2 DEF Quits
  <2>5. Closes'
    BY <1>2, <2>1, <2>2 DEF Closes
  <2>6. Runs'
    BY <1>2, <2>1, <2>2 DEF Sane, Runs
  <2> QED BY <2>3, <2>4, <2>5, <2>6 DEF Sane
<1>6. ASSUME NEW p \in Pages, SwitchPage(p) PROVE Sane'
  BY <1>5, <1>6 DEF SwitchPage
<1>7. ASSUME NEW g \in Graphs, Edit(g) PROVE Sane'
  BY <1>2, <1>5, <1>7 DEF Edit, notebook
<1>8. ASSUME NEW g \in Graphs, PasteRaises(g) PROVE Sane'
  <2>1. UNCHANGED <<notebook, processes, toClose, calls, saved, discarded>>
    BY <1>8 DEF PasteRaises
  <2> QED BY <2>1, SaneStays
<1> QED BY <1>3, <1>4, <1>6, <1>7, <1>8 DEF StartActions

\* what the threads and the processes do, between two steps of the main thread
LEMMA ThreadsSane ==
  ASSUME Inv, Sane, NEW k \in Pids, ProcessEnds(k) \/ ThreadEnds(k) \/ Done(k)
  PROVE  Sane'
PROOF
<1>1. UNCHANGED <<notebook, toClose, calls, saved, discarded>>
  BY DEF ProcessEnds, ThreadEnds, Done, documents, history
<1>2. /\ open' = open /\ current' = current /\ closing' = closing /\ left' = left
      /\ saved' = saved /\ discarded' = discarded
      /\ \A f : On(f)' <=> On(f)
  BY <1>1 DEF notebook, toClose, On
<1>3. Ordered'
  BY <1>1 DEF Sane, Ordered, Nested, Bottomed, On
<1>4. Quits'
  BY <1>2 DEF Sane, Quits
<1>5. /\ procs \in [Pids -> ThreadType] /\ proc \in [Pages -> Pids \cup {NoProc}]
      /\ open \subseteq Pages /\ closing \in Pages \cup {NoPage} /\ current \in Pages
  BY DEF Inv, TypeOK
<1>6. CASE ProcessEnds(k) \/ ThreadEnds(k)
  <2>1. /\ proc' = proc /\ procs[k].state # "none"
        /\ \A j \in Pids : /\ procs'[j].page = procs[j].page
                           /\ procs'[j].killed = procs[j].killed
                           /\ procs'[j].state # "none" <=> procs[j].state # "none"
    <3>1. PICK s \in {"ended", "reported"} : procs' = [procs EXCEPT ![k].state = s]
      BY <1>6 DEF ProcessEnds, ThreadEnds
    <3>2. procs[k] \in ThreadType /\ procs'[k] = [procs[k] EXCEPT !.state = s]
          /\ \A j \in Pids \ {k} : procs'[j] = procs[j]
      BY <1>5, <3>1
    <3>3. proc' = proc /\ procs[k].state # "none"
      BY <1>6 DEF ProcessEnds, ThreadEnds
    <3>4. /\ procs'[k].page = procs[k].page /\ procs'[k].killed = procs[k].killed
          /\ procs'[k].state = s
      BY <3>2 DEF ThreadType
    <3> QED BY <3>2, <3>3, <3>4
  <2>2. Closes'
    BY <1>2, <1>5, <2>1 DEF Sane, Closes
  <2>3. Runs'
    <3>1. ASSUME NEW j \in Pids, procs'[j].state # "none"
          PROVE  /\ procs'[j].page \in Pages /\ proc'[procs'[j].page] = j
                 /\ procs'[j].page \in open \/ procs'[j].killed
      BY <2>1, <3>1 DEF Sane, Runs
    <3>2. ASSUME NEW q \in Pages, proc'[q] # NoProc
          PROVE  procs'[proc'[q]].page = q /\ procs'[proc'[q]].state # "none"
      BY <1>5, <2>1, <3>2 DEF Sane, Runs
    <3>3. On("popen") => proc'[current] = NoProc
      BY <2>1 DEF Sane, Runs
    <3> QED BY <1>2, <3>1, <3>2, <3>3 DEF Runs
  <2> QED BY <1>3, <1>4, <2>2, <2>3 DEF Sane
<1>7. CASE Done(k)
  <2> DEFINE p == procs[k].page
  <2>1. /\ proc' = [proc EXCEPT ![p] = NoProc] /\ procs' = [procs EXCEPT ![k] = NoThread]
        /\ procs[k].state = "reported"
    BY <1>7 DEF Done
  <2>2. p \in Pages /\ proc[p] = k
    BY <2>1 DEF Sane, Runs
  <2>3. /\ \A j \in Pids \ {k} : procs'[j] = procs[j] /\ (procs[j].state # "none" => procs[j].page # p)
        /\ procs'[k].state = "none"
        /\ proc'[p] = NoProc
        /\ \A q \in Pages \ {p} : proc'[q] = proc[q] /\ proc[q] # k
    <3>1. \A j \in Pids \ {k} : procs'[j] = procs[j] /\ (procs[j].state # "none" => procs[j].page # p)
      BY <1>5, <2>1, <2>2 DEF Sane, Runs
    <3>2. \A q \in Pages \ {p} : proc'[q] = proc[q] /\ proc[q] # k
      BY <1>5, <2>1, <2>2, NoProcAssumption DEF Sane, Runs
    <3> QED BY <1>5, <2>1, <2>2, <3>1, <3>2 DEF NoThread
  <2> HIDE DEF p
  <2>4. Closes'
    BY <1>2, <1>5, <2>2, <2>3 DEF Sane, Closes
  <2>5. Runs'
    <3>1. ASSUME NEW j \in Pids, procs'[j].state # "none"
          PROVE  /\ procs'[j].page \in Pages /\ proc'[procs'[j].page] = j
                 /\ procs'[j].page \in open \/ procs'[j].killed
      BY <2>3, <3>1 DEF Sane, Runs
    <3>2. ASSUME NEW q \in Pages, proc'[q] # NoProc
          PROVE  procs'[proc'[q]].page = q /\ procs'[proc'[q]].state # "none"
      BY <1>5, <2>3, <3>2 DEF Sane, Runs
    <3>3. On("popen") => proc'[current] = NoProc
      BY <1>5, <2>3 DEF Sane, Runs
    <3> QED BY <1>2, <3>1, <3>2, <3>3 DEF Runs
  <2> QED BY <1>3, <1>4, <2>4, <2>5 DEF Sane
<1> QED BY <1>6, <1>7

\* a page is opened, or one that is open is shown
LEMMA FreshTurn ==
  ASSUME Inv, Sane, calls # << >>, Top \in {"NEW", "OPEN", "CREATE_HIER"},
         Nested', Bottomed', \A f : On(f)' => f = "GLOBALS" \/ f \in Below,
         UNCHANGED <<toClose, procs>>, open \subseteq open', current' \in open',
         proc' = proc \/ \E p \in Unused : proc' = [proc EXCEPT ![p] = NoProc]
  PROVE  Sane'
PROOF
<1>1. \A f : On(f) <=> f = Top \/ f \in Below
  BY TopFacts DEF Sane, Ordered
<1>2. Below \subseteq {"GLOBALS"}
  BY BelowFacts DEF Sane, Ordered, Closing, Saving
<1>3. \A f : On(f)' => f = "GLOBALS"
  BY <1>2
<1>4. closing = NoPage /\ left = {} /\ closing' = NoPage /\ left' = {} /\ procs' = procs
  BY <1>1, <1>2 DEF Sane, Closes, Quits, Closing, toClose
<1>5. Ordered'
  BY <1>3 DEF Ordered
<1>6. Quits'
  BY <1>4 DEF Quits
<1>7. Closes'
  BY <1>3, <1>4 DEF Closes
<1>8. /\ procs \in [Pids -> ThreadType] /\ proc \in [Pages -> Pids \cup {NoProc}]
  BY DEF Inv, TypeOK
<1>9. CASE proc' = proc
  <2>1. Runs'
    BY <1>3, <1>4, <1>9 DEF Sane, Runs
  <2> QED BY <1>5, <1>6, <1>7, <2>1 DEF Sane
<1>10. ASSUME NEW p \in Unused, proc' = [proc EXCEPT ![p] = NoProc] PROVE Sane'
  <2>1. p \in Pages /\ \A k \in Pids : procs[k].page # p
    BY DEF Unused
  <2>2. proc'[p] = NoProc /\ \A q \in Pages \ {p} : proc'[q] = proc[q]
    BY <1>8, <1>10, <2>1
  <2>3. ASSUME NEW j \in Pids, procs[j].state # "none"
        PROVE  /\ procs[j].page \in Pages /\ proc'[procs[j].page] = j
               /\ procs[j].page \in open' \/ procs[j].killed
    BY <2>1, <2>2, <2>3 DEF Sane, Runs
  <2>4. ASSUME NEW q \in Pages, proc'[q] # NoProc
        PROVE  procs[proc'[q]].page = q /\ procs[proc'[q]].state # "none"
    BY <2>2, <2>4 DEF Sane, Runs
  <2>5. Runs'
    BY <1>3, <1>4, <2>3, <2>4 DEF Runs
  <2> QED BY <1>5, <1>6, <1>7, <2>5 DEF Sane
<1> QED BY <1>9, <1>10

LEMMA PagesMadeSane ==
  ASSUME Inv, Sane,
         NewPage \/ (\E f \in Files : OpenFile(f)) \/ (\E recorded \in BOOLEAN, last, g \in Graphs : CreateHier(recorded, last, g))
  PROVE  Sane'
PROOF
<1>1. Nested /\ Bottomed
  BY DEF Sane, Ordered
<1>2. Top # "main loop" => calls # << >>
  BY DEF Top
<1>3. "GLOBALS" \in Frames
  BY DEF Frames
<1>4. CASE NewPage
  <2>1. At("NEW") /\ Then(<<"GLOBALS">>) /\ UNCHANGED <<toClose, procs>>
    BY <1>4 DEF NewPage
  <2>2. Shift({"GLOBALS"})
    BY <1>1, <1>2, <1>3, <2>1, AboveFacts, ReplacedByFew DEF At
  <2>3. \E p \in Unused : proc' = [proc EXCEPT ![p] = NoProc] /\ open' = open \cup {p} /\ current' = p
    BY <1>4 DEF NewPage, MakePage
  <2> QED BY <1>2, <2>1, <2>2, <2>3, FreshTurn DEF At, Shift
<1>5. ASSUME NEW f \in Files, OpenFile(f) PROVE Sane'
  <2>1. At("OPEN") /\ Then(<<"GLOBALS">>) /\ UNCHANGED <<toClose, procs>>
    BY <1>5 DEF OpenFile
  <2>2. Shift({"GLOBALS"})
    BY <1>1, <1>2, <1>3, <2>1, AboveFacts, ReplacedByFew DEF At
  <2>3. \A g : ~(g \in {"QUIT_END", "exit"} /\ On(g))
    BY <1>1, <1>2, <2>1, TopFacts, BelowFacts DEF At, Closing, Saving
  <2>4. current \in open
    BY <2>3 DEF Sane, Quits
  <2>5. \/ proc' = proc /\ open' = open /\ current' \in open
        \/ \E p \in Unused : proc' = [proc EXCEPT ![p] = NoProc] /\ open' = open \cup {p} /\ current' = p
    BY <1>5, <2>4 DEF OpenFile, MakePage, notebook
  <2> QED BY <1>2, <2>1, <2>2, <2>5, FreshTurn DEF At, Shift
<1>6. ASSUME NEW recorded \in BOOLEAN, NEW last \in Graphs, NEW g \in Graphs,
             CreateHier(recorded, last, g) PROVE Sane'
  <2>1. At("CREATE_HIER") /\ UNCHANGED <<toClose, procs>>
    BY <1>6 DEF CreateHier
  <2>2. Nested' /\ Bottomed' /\ \A f : On(f)' => f \in Below
    <3>1. CASE Then(<< >>)
      <4>1. Shift({})
        BY <1>1, <1>2, <2>1, <3>1, ReplacedByFew DEF At
      <4> QED BY <4>1 DEF Shift
    <3>2. CASE calls' = << >>
      BY <3>2 DEF Nested, Bottomed, On
    <3> QED BY <1>6, <3>1, <3>2 DEF CreateHier
  <2>3. \E p \in Unused : proc' = [proc EXCEPT ![p] = NoProc] /\ open' = open \cup {p} /\ current' = p
    BY <1>6 DEF CreateHier
  <2> QED BY <1>2, <2>1, <2>2, <2>3, FreshTurn DEF At
<1> QED BY <1>4, <1>5, <1>6

-----------------------------------------------------------------------------
\* EXEC: the page has no process when it is generated and executed
LEMMA ExecSane ==
  ASSUME Inv, Sane, Exec
  PROVE  Sane'
PROOF
<1>1. Nested /\ Bottomed /\ Top = "EXEC" /\ calls # << >>
  BY DEF Sane, Ordered, Exec, At, Top
<1>2. UNCHANGED <<notebook, processes, toClose>>
  BY DEF Exec, OnlyCalls
<1>3. CASE proc[current] # NoProc
  <2>1. Shift({})
    BY <1>1, <1>3, ReplacedByFew DEF Exec
  <2> QED BY <1>1, <1>2, <2>1, CalmTurn DEF Closing
<1>4. CASE proc[current] = NoProc
  <2>1. \A f \in Frames : Top \in Above(f) => {"GEN", "GLOBALS", "popen"} \subseteq Above(f)
    BY <1>1, AboveFacts
  <2>2. /\ "GEN" \in Frames \ {"exit"} /\ "popen" \in Frames
        /\ {"GEN", "GLOBALS"} \subseteq Above("popen")
    BY DEF Frames, UserActions, Above, Saving
  <2>3. Then(Invoke("GEN") \o <<"popen">>)
    BY <1>4 DEF Exec
  <2>4. Shift({"GEN", "GLOBALS", "popen"})
    BY <1>1, <2>1, <2>2, <2>3, ReplacedByActions
  <2>5. Below \subseteq {"GLOBALS"} /\ \A f : On(f) <=> f = "EXEC" \/ f \in Below
    BY <1>1, BelowFacts, TopFacts DEF Closing, Saving
  <2>6. \A f : On(f)' => f \in {"GEN", "GLOBALS", "popen"}
    BY <2>4, <2>5 DEF Shift
  <2>7. /\ open' = open /\ current' = current /\ proc' = proc /\ procs' = procs
        /\ closing' = closing /\ left' = left
    BY <1>2 DEF notebook, processes, toClose
  <2>8. closing = NoPage /\ left = {} /\ current \in open
    BY <2>5 DEF Sane, Closes, Quits, Closing
  <2>9. Ordered'
    BY <2>4, <2>6 DEF Ordered, Shift
  <2>10. Quits'
    BY <2>7, <2>8 DEF Quits
  <2>11. Closes'
    <3>1. \A f \in {"CLOSE", "ask", "still", "stop", "remove"} : ~On(f)'
      BY <2>6
    <3> QED BY <2>7, <2>8, <3>1 DEF Closes
  <2>12. Runs'
    BY <1>4, <2>7 DEF Sane, Runs
  <2> QED BY <2>9, <2>10, <2>11, <2>12 DEF Sane
<1> QED BY <1>3, <1>4

\* Popen: the page that is shown still has no process and gets one
LEMMA PopenSane ==
  ASSUME Inv, Sane, Popen
  PROVE  Sane'
PROOF
<1>1. Nested /\ Bottomed /\ Top = "popen" /\ calls # << >>
  BY DEF Sane, Ordered, Popen, At, Top
<1>2. Shift({}) /\ UNCHANGED <<notebook, toClose>>
  BY <1>1, ReplacedByFew DEF Popen
<1>3. CASE UNCHANGED <<procs, proc, button>>
  <2>1. UNCHANGED <<notebook, processes, toClose>>
    BY <1>2, <1>3 DEF processes
  <2> QED BY <1>1, <1>2, <2>1, CalmTurn DEF Closing
<1>4. ASSUME NEW k \in Pids, procs[k] = NoThread, proc' = [proc EXCEPT ![current] = k],
             procs' = [procs EXCEPT ![k] =
                         [page |-> current, state |-> "running", killed |-> FALSE]]
      PROVE  Sane'
  <2>1. Below \subseteq {"GLOBALS"} /\ \A f : On(f) <=> f = "popen" \/ f \in Below
    BY <1>1, BelowFacts, TopFacts DEF Closing, Saving
  <2>2. \A f : On(f)' => f = "GLOBALS"
    BY <1>2, <2>1 DEF Shift
  <2>3. closing = NoPage /\ left = {} /\ current \in open /\ proc[current] = NoProc
    BY <2>1 DEF Sane, Closes, Quits, Closing, Runs
  <2>4. open' = open /\ current' = current /\ closing' = closing /\ left' = left
    BY <1>2 DEF notebook, toClose
  <2>5. /\ procs \in [Pids -> ThreadType] /\ proc \in [Pages -> Pids \cup {NoProc}]
        /\ current \in Pages
    BY DEF Inv, TypeOK
  <2>6. /\ proc'[current] = k /\ \A q \in Pages \ {current} : proc'[q] = proc[q]
        /\ procs'[k] = [page |-> current, state |-> "running", killed |-> FALSE]
        /\ \A j \in Pids \ {k} : procs'[j] = procs[j]
        /\ procs[k].state = "none"
    BY <1>4, <2>5 DEF NoThread
  <2>7. ASSUME NEW j \in Pids, procs'[j].state # "none"
        PROVE  /\ procs'[j].page \in Pages /\ proc'[procs'[j].page] = j
               /\ procs'[j].page \in open \/ procs'[j].killed
    <3>1. CASE j = k
      BY <2>3, <2>5, <2>6, <3>1
    <3>2. CASE j # k
      <4>1. procs'[j] = procs[j] /\ procs[j].state # "none"
        BY <2>6, <2>7, <3>2
      <4>2. /\ procs[j].page \in Pages /\ proc[procs[j].page] = j
            /\ procs[j].page \in open \/ procs[j].killed
        BY <4>1 DEF Sane, Runs
      <4>3. procs[j].page # current
        BY <2>3, <4>2, NoProcAssumption
      <4> QED BY <2>6, <4>1, <4>2, <4>3
    <3> QED BY <3>1, <3>2
  <2>8. ASSUME NEW q \in Pages, proc'[q] # NoProc
        PROVE  procs'[proc'[q]].page = q /\ procs'[proc'[q]].state # "none"
    <3>1. CASE q = current
      BY <2>6, <3>1
    <3>2. CASE q # current
      BY <2>5, <2>6, <2>8, <3>2 DEF Sane, Runs
    <3> QED BY <3>1, <3>2
  <2>9. Ordered' /\ Quits' /\ Closes'
    BY <1>2, <2>2, <2>3, <2>4 DEF Ordered, Shift, Quits, Closes
  <2>10. Runs'
    BY <2>2, <2>4, <2>7, <2>8 DEF Runs
  <2> QED BY <2>9, <2>10 DEF Sane
<1> QED BY <1>3, <1>4 DEF Popen

\* KILL: the process of the page that is shown counts as killed
LEMMA KillSane ==
  ASSUME Inv, Sane, Kill
  PROVE  Sane'
PROOF
<1>1. Nested /\ Bottomed /\ Top = "KILL" /\ calls # << >>
  BY DEF Sane, Ordered, Kill, At, Top
<1>2. Shift({}) /\ UNCHANGED <<notebook, toClose, proc, saved, discarded>>
  BY <1>1, ReplacedByFew DEF Kill, documents, history
<1>3. Below \subseteq {"remove", "each", "QUIT_END", "GLOBALS"}
      /\ \A f : On(f) <=> f = "KILL" \/ f \in Below
  BY <1>1, BelowFacts, TopFacts
<1>4. \A f : On(f)' <=> f \in Below
  BY <1>2 DEF Shift
<1>5. open' = open /\ current' = current /\ closing' = closing /\ left' = left /\ proc' = proc
  BY <1>2 DEF notebook, toClose
<1>6. /\ procs \in [Pids -> ThreadType] /\ proc \in [Pages -> Pids \cup {NoProc}]
      /\ current \in Pages /\ closing \in Pages \cup {NoPage}
  BY DEF Inv, TypeOK
<1>7. /\ \A j \in Pids : /\ procs'[j].page = procs[j].page /\ procs'[j].state = procs[j].state
                         /\ procs[j].killed => procs'[j].killed
      /\ proc[current] # NoProc => procs'[proc[current]].killed
  <2>1. CASE proc[current] = NoProc
    BY <2>1 DEF Kill
  <2>2. CASE proc[current] # NoProc
    <3> DEFINE k == proc[current]
    <3>1. k \in Pids /\ procs' = [procs EXCEPT ![k].killed = TRUE]
      BY <1>6, <2>2 DEF Kill
    <3>2. procs[k] \in ThreadType /\ procs'[k] = [procs[k] EXCEPT !.killed = TRUE]
          /\ \A j \in Pids \ {k} : procs'[j] = procs[j]
      BY <1>6, <3>1
    <3>3. procs'[k].page = procs[k].page /\ procs'[k].state = procs[k].state /\ procs'[k].killed
      BY <3>2 DEF ThreadType
    <3> QED BY <3>2, <3>3
  <2> QED BY <2>1, <2>2
<1>8. Ordered'
  BY <1>2, <1>3, <1>4 DEF Ordered, Shift, Sane
<1>9. Quits'
  BY <1>3, <1>4, <1>5 DEF Sane, Quits
<1>10. Closes'
  <2>1. closing # NoPage => closing \in open \ left /\ \E c \in Closing : On(c)'
    BY <1>3, <1>4 DEF Sane, Closes, Closing
  <2>2. ~On("CLOSE")' /\ ~On("ask")' /\ ~On("still")' /\ ~On("stop")'
    BY <1>3, <1>4
  <2>3. On("remove")' => closing # NoPage /\ (proc[closing] = NoProc \/ procs'[proc[closing]].killed)
    BY <1>3, <1>4, <1>6, <1>7 DEF Sane, Closes
  <2>4. On("remove")' => saved'[closing] \/ closing \in discarded'
    BY <1>2, <1>3, <1>4 DEF Sane, Closes
  <2> QED BY <1>5, <2>1, <2>2, <2>3, <2>4 DEF Closes
<1>11. Runs'
  <2>1. ASSUME NEW j \in Pids, procs'[j].state # "none"
        PROVE  /\ procs'[j].page \in Pages /\ proc'[procs'[j].page] = j
               /\ procs'[j].page \in open \/ procs'[j].killed
    BY <1>5, <1>7, <2>1 DEF Sane, Runs
  <2>2. ASSUME NEW q \in Pages, proc'[q] # NoProc
        PROVE  procs'[proc'[q]].page = q /\ procs'[proc'[q]].state # "none"
    BY <1>5, <1>6, <1>7, <2>2 DEF Sane, Runs
  <2>3. ~On("popen")'
    BY <1>3, <1>4
  <2> QED BY <1>5, <2>1, <2>2, <2>3 DEF Runs
<1> QED BY <1>8, <1>9, <1>10, <1>11 DEF Sane

-----------------------------------------------------------------------------
(* Closing and quitting.                                                    *)

\* a call pushed on the stack, and two calls in a row
LEMMA Pushed ==
  ASSUME NEW S, NEW s \in Seq(S), s # << >>, NEW x \in S
  PROVE  <<x>> \o s = <<x, s[1]>> \o Tail(s)
PROOF
<1>1. /\ Len(s) \in Nat /\ Len(s) > 0 /\ s[1] \in S /\ Tail(s) \in Seq(S)
      /\ Len(Tail(s)) = Len(s) - 1
      /\ \A i \in 1..Len(s) - 1 : Tail(s)[i] = s[i + 1]
  BY HeadTailProperties
<1>2. <<x>> \in Seq(S) /\ <<x, s[1]>> \in Seq(S)
  BY <1>1
<1>3. PICK u \in Seq(S) : u = <<x>>
  BY <1>2, Zenon
<1>4. PICK v \in Seq(S) : v = <<x, s[1]>>
  BY <1>2, Zenon
<1>5. Len(u) = 1 /\ u[1] = x /\ Len(v) = 2 /\ v[1] = x /\ v[2] = s[1]
  BY <1>3, <1>4
<1>6. /\ u \o s \in Seq(S) /\ Len(u \o s) = 1 + Len(s)
      /\ \A i \in 1..1 + Len(s) : (u \o s)[i] = IF i <= 1 THEN u[i] ELSE s[i - 1]
  <2>1. /\ u \o s \in Seq(S) /\ Len(u \o s) = Len(u) + Len(s)
        /\ \A i \in 1..Len(u) + Len(s) :
             (u \o s)[i] = IF i <= Len(u) THEN u[i] ELSE s[i - Len(u)]
    BY ConcatProperties
  <2> QED BY <1>5, <2>1
<1>7. /\ v \o Tail(s) \in Seq(S) /\ Len(v \o Tail(s)) = 2 + Len(Tail(s))
      /\ \A i \in 1..2 + Len(Tail(s)) :
           (v \o Tail(s))[i] = IF i <= 2 THEN v[i] ELSE Tail(s)[i - 2]
  <2> DEFINE t == Tail(s)
  <2>1. /\ v \o t \in Seq(S) /\ Len(v \o t) = Len(v) + Len(t)
        /\ \A i \in 1..Len(v) + Len(t) :
             (v \o t)[i] = IF i <= Len(v) THEN v[i] ELSE t[i - Len(v)]
    BY <1>1, ConcatProperties
  <2> QED BY <1>5, <2>1
<1>8. ASSUME NEW i \in 1..1 + Len(s) PROVE (u \o s)[i] = (v \o Tail(s))[i]
  <2>1. CASE i = 1
    BY <1>1, <1>5, <1>6, <1>7, <2>1
  <2>2. CASE i = 2
    BY <1>1, <1>5, <1>6, <1>7, <2>2
  <2>3. CASE i > 2
    <3>1. i - 2 \in 1..Len(s) - 1 /\ (i - 2) + 1 = i - 1 /\ ~(i <= 2) /\ ~(i <= 1)
          /\ i \in 1..2 + Len(Tail(s))
      BY <1>1, <2>3
    <3>2. Tail(s)[i - 2] = s[i - 1]
      BY <1>1, <3>1
    <3> QED BY <1>6, <1>7, <3>1, <3>2
  <2>4. i = 1 \/ i = 2 \/ i > 2
    BY <1>1
  <2> QED BY <2>1, <2>2, <2>3, <2>4
<1>9. u \o s = v \o Tail(s)
  BY <1>1, <1>6, <1>7, <1>8, SeqEqual
<1> QED BY <1>3, <1>4, <1>9

LEMMA TwoElements ==
  ASSUME NEW S, NEW x \in S, NEW y \in S
  PROVE  <<x>> \o <<y>> = <<x, y>>
PROOF
<1>1. <<y>> \in Seq(S) /\ <<y>> # << >> /\ <<x, y>> \in Seq(S)
  OBVIOUS
<1>2. PICK t \in Seq(S) : t = <<y>>
  BY <1>1, Zenon
<1>3. PICK v \in Seq(S) : v = <<x, y>>
  BY <1>1, Zenon
<1>4. t # << >> /\ Tail(t) = << >> /\ t[1] = y
  BY <1>2
<1>5. <<x>> \o t = v \o Tail(t)
  BY <1>3, <1>4, Pushed
<1>6. v \o << >> = v
  BY ConcatEmptySeq
<1> QED BY <1>2, <1>3, <1>4, <1>5, <1>6

\* a step of closing a page that leaves the calls T
LEMMA ClosingTurn ==
  ASSUME Inv, Sane, Top \in Closing, NEW T, Shift(T),
         T \cap {"CLOSE", "each", "QUIT_END", "popen", "exit"} = {}
  PROVE  /\ Ordered' /\ Below \subseteq {"each", "QUIT_END", "GLOBALS"}
         /\ \A f : On(f) <=> f = Top \/ f \in Below
         /\ \A f : On(f)' <=> f \in T \cup Below
         /\ \A f \in {"each", "QUIT_END"} : On(f)' <=> On(f)
         /\ ~On("CLOSE")' /\ ~On("popen")' /\ ~On("exit")' /\ ~On("exit")
         /\ \A f \in {"ask", "still", "stop", "remove", "KILL"} : On(f)' <=> f \in T
PROOF
<1>1. calls # << >>
  BY DEF Top, Closing
<1>2. /\ Below \subseteq {"each", "QUIT_END", "GLOBALS"}
      /\ \A f : On(f) <=> f = Top \/ f \in Below
  BY <1>1, BelowFacts, TopFacts DEF Sane, Ordered
<1>3. \A f : On(f)' <=> f \in T \cup Below
  BY DEF Shift
<1>4. \A f \in {"each", "QUIT_END"} : On(f)' <=> On(f)
  BY <1>2, <1>3 DEF Closing
<1>5. ~On("CLOSE")' /\ ~On("popen")' /\ ~On("exit")' /\ ~On("exit")
  BY <1>2, <1>3 DEF Closing
<1>6. \A f \in {"ask", "still", "stop", "remove", "KILL"} : On(f)' <=> f \in T
  BY <1>2, <1>3
<1>7. Ordered'
  BY <1>4 DEF Ordered, Shift, Sane
<1> QED BY <1>2, <1>3, <1>4, <1>5, <1>6, <1>7

\* the handlers of a closing page leave the calls they may
LEMMA ClosingShifts ==
  ASSUME Inv, Sane, Top \in Closing
  PROVE  /\ Then(<< >>) => Shift({})
         /\ Top = "CLOSE" =>
              /\ Then(<<"ask">>) => Shift({"ask"})
              /\ Then(<<"stop">>) => Shift({"stop"})
              /\ Then(<<"GLOBALS", "ask">>) => Shift({"GLOBALS", "ask"})
              /\ Then(<<"GLOBALS", "stop">>) => Shift({"GLOBALS", "stop"})
         /\ Top = "ask" =>
              /\ Then(Invoke("SAVE") \o <<"still">>) => Shift({"SAVE", "GLOBALS", "still"})
              /\ Then(<<"stop">>) => Shift({"stop"})
         /\ Top = "still" => (Then(<<"stop">>) => Shift({"stop"}))
         /\ Top = "stop" =>
              /\ Then(<<"remove">>) => Shift({"remove"})
              /\ Then(Invoke("KILL") \o <<"remove">>) => Shift({"KILL", "GLOBALS", "remove"})
         /\ Top = "remove" => (Then(<<"GLOBALS">>) => Shift({"GLOBALS"}))
PROOF
<1>1. calls # << >> /\ Nested /\ Bottomed /\ Top \notin {"exit", "GLOBALS"}
  BY DEF Top, Closing, Sane, Ordered
<1>2. /\ {"ask", "stop", "GLOBALS", "remove", "still"} \subseteq Frames
      /\ "SAVE" \in Frames \ {"exit"} /\ "KILL" \in Frames \ {"exit"}
      /\ "GLOBALS" \in Above("ask") /\ "GLOBALS" \in Above("stop")
      /\ {"SAVE", "GLOBALS"} \subseteq Above("still")
      /\ {"KILL", "GLOBALS"} \subseteq Above("remove")
  BY DEF Frames, Dialogs, UserActions, Above, Saving
<1>3. Then(<< >>) => Shift({})
  BY <1>1, ReplacedByFew
<1>4. ASSUME Top = "CLOSE"
      PROVE  /\ Then(<<"ask">>) => Shift({"ask"})
             /\ Then(<<"stop">>) => Shift({"stop"})
             /\ Then(<<"GLOBALS", "ask">>) => Shift({"GLOBALS", "ask"})
             /\ Then(<<"GLOBALS", "stop">>) => Shift({"GLOBALS", "stop"})
  <2>1. \A f \in Frames : Top \in Above(f) => {"GLOBALS", "ask", "stop"} \subseteq Above(f)
    BY <1>4, AboveFacts
  <2>2. /\ Then(<<"ask">>) => Shift({"ask"})
        /\ Then(<<"stop">>) => Shift({"stop"})
    BY <1>1, <1>2, <2>1, ReplacedByFew
  <2>3. Then(<<"GLOBALS", "ask">>) => Shift({"GLOBALS", "ask"})
    BY <1>1, <1>2, <2>1, ReplacedByFew
  <2>4. Then(<<"GLOBALS", "stop">>) => Shift({"GLOBALS", "stop"})
    BY <1>1, <1>2, <2>1, ReplacedByFew
  <2> QED BY <2>2, <2>3, <2>4
<1>5. ASSUME Top = "ask"
      PROVE  /\ Then(Invoke("SAVE") \o <<"still">>) => Shift({"SAVE", "GLOBALS", "still"})
             /\ Then(<<"stop">>) => Shift({"stop"})
  <2>1. \A f \in Frames :
          Top \in Above(f) => {"SAVE", "GLOBALS", "still", "stop"} \subseteq Above(f)
    BY <1>5, AboveFacts
  <2>2. Then(<<"stop">>) => Shift({"stop"})
    BY <1>1, <1>2, <2>1, ReplacedByFew
  <2>3. \A f \in Frames : Top \in Above(f) => {"SAVE", "GLOBALS", "still"} \subseteq Above(f)
    BY <2>1
  <2>4. Then(Invoke("SAVE") \o <<"still">>) => Shift({"SAVE", "GLOBALS", "still"})
    BY <1>1, <1>2, <2>3, ReplacedByActions
  <2> QED BY <2>2, <2>4
<1>6. ASSUME Top = "still" PROVE Then(<<"stop">>) => Shift({"stop"})
  <2>1. \A f \in Frames : Top \in Above(f) => "stop" \in Above(f)
    BY <1>6, AboveFacts
  <2> QED BY <1>1, <1>2, <2>1, ReplacedByFew
<1>7. ASSUME Top = "stop"
      PROVE  /\ Then(<<"remove">>) => Shift({"remove"})
             /\ Then(Invoke("KILL") \o <<"remove">>) => Shift({"KILL", "GLOBALS", "remove"})
  <2>1. \A f \in Frames : Top \in Above(f) => {"KILL", "GLOBALS", "remove"} \subseteq Above(f)
    BY <1>7, AboveFacts
  <2>2. Then(<<"remove">>) => Shift({"remove"})
    BY <1>1, <1>2, <2>1, ReplacedByFew
  <2>3. Then(Invoke("KILL") \o <<"remove">>) => Shift({"KILL", "GLOBALS", "remove"})
    BY <1>1, <1>2, <2>1, ReplacedByActions
  <2> QED BY <2>2, <2>3
<1>8. ASSUME Top = "remove" PROVE Then(<<"GLOBALS">>) => Shift({"GLOBALS"})
  <2>1. \A f \in Frames : Top \in Above(f) => "GLOBALS" \in Above(f)
    BY <1>8, AboveFacts
  <2> QED BY <1>1, <1>2, <2>1, ReplacedByFew
<1> QED BY <1>3, <1>4, <1>5, <1>6, <1>7, <1>8

\* nothing but the page being closed depends on where closing it stands
LEMMA ClosingStays ==
  ASSUME Inv, Sane, Top \in Closing, NEW T, Shift(T),
         T \cap {"CLOSE", "each", "QUIT_END", "popen", "exit"} = {},
         UNCHANGED <<open, processes, left>>, current' \in Pages,
         current' = current \/ current' \in open, Closes'
  PROVE  Sane'
PROOF
<1>1. /\ Ordered' /\ ~On("popen")' /\ ~On("exit")
      /\ \A f \in {"each", "QUIT_END"} : On(f)' <=> On(f)
  BY ClosingTurn
<1>2. open' = open /\ proc' = proc /\ procs' = procs /\ left' = left
  BY DEF processes
<1>3. Quits'
  BY <1>1, <1>2 DEF Sane, Quits
<1>4. Runs'
  BY <1>1, <1>2 DEF Sane, Runs
<1> QED BY <1>1, <1>3, <1>4 DEF Sane

\* CLOSE: the page is asked about or stopped, and shown if it has a process
LEMMA CloseSane ==
  ASSUME Inv, Sane, Close
  PROVE  Sane'
PROOF
<1> DEFINE p == ToClose
<1>1. /\ Top = "CLOSE" /\ Top \in Closing /\ saved' = saved
      /\ closing' = p /\ UNCHANGED <<open, processes, left>>
      /\ current' = IF saved[p] /\ proc[p] = NoProc THEN current ELSE p
  BY DEF Close, At, Closing, documents
<1>2. Then((IF current' = current THEN << >> ELSE <<"GLOBALS">>)
            \o (IF saved[p] THEN <<"stop">> ELSE <<"ask">>))
  BY DEF Close
<1>3. \E T \in SUBSET {"ask", "stop", "GLOBALS"} :
        Shift(T) /\ ("ask" \in T \/ "stop" \in T) /\ ("stop" \in T => saved[p])
  <2>1. CASE current' = current /\ saved[p]
    <3>1. Then(<<"stop">>)
      BY <1>2, <2>1
    <3>2. Shift({"stop"})
      BY <1>1, <3>1, ClosingShifts
    <3> QED BY <2>1, <3>2
  <2>2. CASE current' = current /\ ~saved[p]
    <3>1. Then(<<"ask">>)
      BY <1>2, <2>2
    <3>2. Shift({"ask"})
      BY <1>1, <3>1, ClosingShifts
    <3> QED BY <2>2, <3>2
  <2>3. CASE current' # current /\ saved[p]
    <3>1. <<"GLOBALS">> \o <<"stop">> = <<"GLOBALS", "stop">>
      BY TwoElements, {"GLOBALS", "stop"} \subseteq {"GLOBALS", "stop"}
    <3>2. Then(<<"GLOBALS">> \o <<"stop">>)
      BY <1>2, <2>3, Zenon
    <3>3. Shift({"GLOBALS", "stop"})
      BY <1>1, <3>1, <3>2, ClosingShifts
    <3> QED BY <2>3, <3>3
  <2>4. CASE current' # current /\ ~saved[p]
    <3>1. <<"GLOBALS">> \o <<"ask">> = <<"GLOBALS", "ask">>
      BY TwoElements, {"GLOBALS", "ask"} \subseteq {"GLOBALS", "ask"}
    <3>2. Then(<<"GLOBALS">> \o <<"ask">>)
      BY <1>2, <2>4, Zenon
    <3>3. Shift({"GLOBALS", "ask"})
      BY <1>1, <3>1, <3>2, ClosingShifts
    <3>4. {"GLOBALS", "ask"} \in SUBSET {"ask", "stop", "GLOBALS"} /\ "stop" \notin {"GLOBALS", "ask"}
          /\ "ask" \in {"GLOBALS", "ask"}
      OBVIOUS
    <3> QED BY <3>3, <3>4
  <2> QED BY <2>1, <2>2, <2>3, <2>4
<1>4. PICK T \in SUBSET {"ask", "stop", "GLOBALS"} :
        Shift(T) /\ ("ask" \in T \/ "stop" \in T) /\ ("stop" \in T => saved[p])
  BY <1>3
<1>5. T \cap {"CLOSE", "each", "QUIT_END", "popen", "exit"} = {}
  OBVIOUS
<1>6. calls # << >> /\ On("CLOSE") /\ ~On("exit")
  BY <1>1, <1>4, <1>5, ClosingTurn DEF Top
<1>7. p \in open \ left /\ p \in Pages /\ p # NoPage
  <2>1. open \subseteq Pages
    BY DEF Inv, TypeOK
  <2>2. p \in open \ left
    BY <1>6 DEF ToClose, Sane, Closes, Quits, Ordered
  <2> QED BY <2>1, <2>2, PagesAssumption
<1>8. current' \in Pages /\ (current' = current \/ current' \in open)
  BY <1>1, <1>7 DEF Inv, TypeOK
<1>9. proc[p] = NoProc \/ current' = p
  BY <1>1
<1>10. On("ask")' \/ On("stop")'
  BY <1>4 DEF Shift
<1>11. ~On("CLOSE")' /\ ~On("remove")' /\ (On("stop")' => saved[p])
  BY <1>1, <1>4, <1>5, ClosingTurn
<1>12. open' = open /\ left' = left /\ closing' = p /\ proc' = proc
  BY <1>1 DEF processes
<1>13. Closes'
  <2>1. \E c \in Closing : On(c)'
    BY <1>10 DEF Closing
  <2>2. saved' = saved
    BY <1>1
  <2> QED BY <1>7, <1>9, <1>11, <1>12, <2>1, <2>2 DEF Closes
<1> QED BY <1>1, <1>4, <1>5, <1>8, <1>13, ClosingStays

\* the answers, and what follows from them, keep the page until it is removed
LEMMA ClosingSane ==
  ASSUME Inv, Sane, AnswerSave \/ AnswerDiscard \/ StillUnsaved \/ StopIt
  PROVE  Sane'
PROOF
<1>1. UNCHANGED <<open, processes, left>> /\ current' = current /\ Top \in Closing
  BY DEF AnswerSave, AnswerDiscard, StillUnsaved, StopIt, OnlyCalls, notebook, toClose, At, Closing
<1>2. open' = open /\ left' = left /\ proc' = proc /\ procs' = procs /\ current' = current
      /\ current \in Pages
  BY <1>1 DEF processes, Inv, TypeOK
<1>3. Top \in {"ask", "still", "stop"} /\ calls # << >>
  BY DEF AnswerSave, AnswerDiscard, StillUnsaved, StopIt, At, Top
<1>4. \A f : On(f) <=> f = Top \/ f \in Below
  BY <1>3, TopFacts DEF Sane, Ordered
<1>5. closing # NoPage /\ closing \in open \ left /\ (proc[closing] = NoProc \/ current = closing)
  BY <1>3, <1>4 DEF Sane, Closes
<1>6. ASSUME NEW T, Shift(T), T \cap {"CLOSE", "each", "QUIT_END", "popen", "exit"} = {},
             closing' = closing, T \cap {"ask", "still", "stop", "remove"} # {},
             "remove" \in T => proc[closing] = NoProc \/ "KILL" \in T,
             T \cap {"stop", "remove"} # {} => saved'[closing] \/ closing \in discarded'
      PROVE  Sane'
  <2>1. /\ ~On("CLOSE")'
        /\ \A f \in {"ask", "still", "stop", "remove", "KILL"} : On(f)' <=> f \in T
    BY <1>1, <1>6, ClosingTurn
  <2>2. \E c \in Closing : On(c)'
    BY <1>6, <2>1 DEF Closing
  <2>3. On("remove")' => proc[closing] = NoProc \/ On("KILL")'
    BY <1>6, <2>1
  <2>4. On("stop")' \/ On("remove")' => saved'[closing] \/ closing \in discarded'
    BY <1>6, <2>1
  <2>5. Closes'
    BY <1>2, <1>5, <1>6, <2>1, <2>2, <2>3, <2>4 DEF Closes
  <2> QED BY <1>1, <1>2, <1>6, <2>5, ClosingStays
<1>7. CASE AnswerSave
  <2>1. Shift({"SAVE", "GLOBALS", "still"}) /\ closing' = closing
    BY <1>1, <1>7, ClosingShifts DEF AnswerSave, At, OnlyCalls, toClose
  <2> QED BY <1>6, <2>1
<1>8. CASE AnswerDiscard
  <2>1. Shift({"stop"}) /\ closing' = closing /\ closing \in discarded'
    BY <1>1, <1>8, ClosingShifts DEF AnswerDiscard, At, toClose
  <2> QED BY <1>6, <2>1
<1>9. CASE StillUnsaved
  <2>1. CASE saved[closing]
    <3>1. Shift({"stop"}) /\ closing' = closing /\ saved'[closing]
      BY <1>1, <1>9, <2>1, ClosingShifts DEF StillUnsaved, At, documents
    <3> QED BY <1>6, <3>1
  <2>2. CASE ~saved[closing]
    <3>1. Shift({}) /\ closing' = NoPage
      BY <1>1, <1>9, <2>2, ClosingShifts DEF StillUnsaved
    <3>2. /\ ~On("CLOSE")'
          /\ \A f \in {"ask", "still", "stop", "remove", "KILL"} : ~On(f)'
      BY <1>1, <3>1, ClosingTurn
    <3>3. Closes'
      BY <3>1, <3>2 DEF Closes
    <3> QED BY <1>1, <1>2, <3>1, <3>3, ClosingStays
  <2> QED BY <2>1, <2>2
<1>10. CASE StopIt
  <2>1. Top = "stop" /\ closing' = closing /\ (saved'[closing] \/ closing \in discarded')
    BY <1>4, <1>10 DEF StopIt, At, OnlyCalls, toClose, documents, history, Sane, Closes
  <2>2. CASE proc[closing] = NoProc
    <3>1. Shift({"remove"})
      BY <1>1, <1>10, <2>1, <2>2, ClosingShifts DEF StopIt
    <3> QED BY <1>6, <2>1, <2>2, <3>1
  <2>3. CASE proc[closing] # NoProc
    <3>1. Then(Invoke("KILL") \o <<"remove">>)
      BY <1>10, <2>3 DEF StopIt
    <3>2. Shift({"KILL", "GLOBALS", "remove"})
      BY <1>1, <2>1, <3>1, ClosingShifts
    <3> QED BY <1>6, <2>1, <3>2
  <2> QED BY <2>2, <2>3
<1> QED BY <1>7, <1>8, <1>9, <1>10

\* the page goes with what is left of its process, which has been killed
LEMMA RemoveSane ==
  ASSUME Inv, Sane, Remove
  PROVE  Sane'
PROOF
<1> DEFINE rest == open \ {closing}
<1>1. Top = "remove" /\ Top \in Closing /\ calls # << >> /\ Nested /\ Bottomed
  BY DEF Remove, At, Top, Closing, Sane, Ordered
<1>2. closing' = NoPage /\ procs' = procs /\ left' = left
  BY DEF Remove
<1>3. \E T \in SUBSET {"GLOBALS"} : Shift(T)
  <2>1. Then(<< >>) \/ Then(<<"GLOBALS">>)
    BY DEF Remove
  <2>2. Shift({}) \/ Shift({"GLOBALS"})
    BY <1>1, <2>1, ClosingShifts
  <2> QED BY <2>2
<1>4. PICK T \in SUBSET {"GLOBALS"} : Shift(T)
  BY <1>3
<1>5. T \cap {"CLOSE", "each", "QUIT_END", "popen", "exit"} = {}
      /\ T \cap {"ask", "still", "stop", "remove", "KILL"} = {}
  OBVIOUS
<1>6. /\ Ordered' /\ Below \subseteq {"each", "QUIT_END", "GLOBALS"}
      /\ \A f : On(f) <=> f = "remove" \/ f \in Below
      /\ \A f \in {"each", "QUIT_END"} : On(f)' <=> On(f)
      /\ ~On("CLOSE")' /\ ~On("popen")' /\ ~On("exit")
      /\ \A f \in {"ask", "still", "stop", "remove", "KILL"} : ~On(f)'
  BY <1>1, <1>4, <1>5, ClosingTurn
<1>7. /\ closing \in open \ left /\ On("remove") /\ ~On("KILL")
      /\ proc[closing] = NoProc \/ procs[proc[closing]].killed
  BY <1>6 DEF Sane, Closes
<1>8. Closes'
  BY <1>2, <1>6 DEF Closes
<1>9. /\ procs \in [Pids -> ThreadType] /\ proc \in [Pages -> Pids \cup {NoProc}]
      /\ open \subseteq Pages
  BY DEF Inv, TypeOK
<1>10. \A j \in Pids : procs[j].state # "none" =>
         /\ procs[j].page \in Pages /\ proc[procs[j].page] = j
         /\ procs[j].page \in rest \/ procs[j].killed
  BY <1>7, <1>9, NoProcAssumption DEF Sane, Runs
<1>11. Quitting <=> On("QUIT_END")
  BY DEF Quitting, On
<1>12. ASSUME rest = {}, ~Quitting, NEW p \in Unused, open' = {p}, current' = p,
              proc' = [proc EXCEPT ![p] = NoProc]
       PROVE  Sane'
  <2>1. p \in Pages /\ \A k \in Pids : procs[k].page # p
    BY DEF Unused
  <2>2. proc'[p] = NoProc /\ \A q \in Pages \ {p} : proc'[q] = proc[q]
    BY <1>9, <1>12, <2>1
  <2>3. left' = {}
    BY <1>2, <1>7, <1>12 DEF Sane, Quits
  <2>4. Quits'
    BY <1>12, <2>3 DEF Quits
  <2>5. ASSUME NEW j \in Pids, procs[j].state # "none"
        PROVE  /\ procs[j].page \in Pages /\ proc'[procs[j].page] = j
               /\ procs[j].page \in open' \/ procs[j].killed
    BY <1>10, <1>12, <2>1, <2>2, <2>5
  <2>6. ASSUME NEW q \in Pages, proc'[q] # NoProc
        PROVE  procs[proc'[q]].page = q /\ procs[proc'[q]].state # "none"
    BY <2>2, <2>6 DEF Sane, Runs
  <2>7. Runs'
    BY <1>2, <1>6, <2>5, <2>6 DEF Runs
  <2> QED BY <1>6, <1>8, <2>4, <2>7 DEF Sane
<1>13. ASSUME rest # {} \/ Quitting, open' = rest, UNCHANGED proc,
              current' \in IF current # closing \/ rest = {} THEN {current} ELSE rest
       PROVE  Sane'
  <2>1. left' \subseteq open' /\ (left' # {} => On("each")')
    BY <1>2, <1>6, <1>7, <1>13 DEF Sane, Quits
  <2>2. current' \in open' \/ (open' = {} /\ On("QUIT_END")')
    <3>1. CASE rest = {}
      BY <1>6, <1>11, <1>13, <3>1
    <3>2. CASE rest # {}
      BY <1>7, <1>13, <3>2 DEF Sane, Quits
    <3> QED BY <3>1, <3>2
  <2>3. Quits'
    BY <2>1, <2>2 DEF Quits
  <2>4. Runs'
    BY <1>2, <1>6, <1>10, <1>13 DEF Sane, Runs
  <2> QED BY <1>6, <1>8, <2>3, <2>4 DEF Sane
<1> QED BY <1>12, <1>13 DEF Remove

\* QUIT: the pages are taken one at a time, and nothing is under way between them
LEMMA QuitsSane ==
  ASSUME Inv, Sane, QuitBegin \/ QuitEach \/ QuitEnd
  PROVE  Sane'
PROOF
<1>1. calls # << >> /\ Nested /\ Bottomed
  BY DEF QuitBegin, QuitEach, QuitEnd, At, Top, Sane, Ordered
<1>2. \A f : On(f) <=> f = Top \/ f \in Below
  BY <1>1, TopFacts
<1>3. CASE QuitBegin
  <2>1. Top = "QUIT" /\ Then(<<"each", "QUIT_END">>) /\ left' = open /\ closing' = closing
        /\ open' = open /\ current' = current /\ proc' = proc /\ procs' = procs
    BY <1>3 DEF QuitBegin, At, notebook, processes
  <2>2. Below \subseteq {"GLOBALS"}
    BY <1>1, <2>1, BelowFacts DEF Closing, Saving
  <2>3. Shift({"each", "QUIT_END"})
    <3>1. \A f \in Frames : Top \in Above(f) => {"each", "QUIT_END"} \subseteq Above(f)
      BY <2>1, AboveFacts
    <3>2. "each" \in Frames /\ "QUIT_END" \in Frames /\ "each" \in Above("QUIT_END")
      BY DEF Frames, Above
    <3> QED BY <1>1, <2>1, <3>1, <3>2, ReplacedByFew
  <2>4. \A f : On(f)' => f \in {"each", "QUIT_END", "GLOBALS"}
    BY <2>2, <2>3 DEF Shift
  <2>5. On("each")' /\ On("QUIT_END")'
    BY <2>3 DEF Shift
  <2>6. closing = NoPage /\ current \in open
    BY <1>2, <2>1, <2>2 DEF Sane, Closes, Quits, Closing
  <2>7. Ordered'
    BY <2>3, <2>5 DEF Ordered, Shift
  <2>8. Quits'
    BY <2>1, <2>5, <2>6 DEF Quits
  <2>9. Closes'
    <3>1. \A f \in {"CLOSE", "ask", "still", "stop", "remove"} : ~On(f)'
      BY <2>4
    <3> QED BY <2>1, <2>6, <3>1 DEF Closes
  <2>10. Runs'
    <3>1. ~On("popen")'
      BY <2>2, <2>3 DEF Shift
    <3> QED BY <2>1, <3>1 DEF Sane, Runs
  <2> QED BY <2>7, <2>8, <2>9, <2>10 DEF Sane
<1>4. CASE QuitEach
  <2>1. Top = "each" /\ Below \subseteq {"QUIT_END", "GLOBALS"}
        /\ open' = open /\ current' = current /\ proc' = proc /\ procs' = procs
    BY <1>1, <1>4, BelowFacts DEF QuitEach, At, notebook, processes
  <2>2. On("each") /\ On("QUIT_END") /\ "QUIT_END" \in Below /\ ~On("exit") /\ ~On("popen")
    BY <1>2, <2>1 DEF Sane, Ordered
  <2>3. closing = NoPage
    BY <1>2, <2>1 DEF Sane, Closes, Closing
  <2>4. CASE left = {}
    <3>1. Shift({}) /\ closing' = closing /\ left' = left
      BY <1>1, <1>4, <2>1, <2>4, ReplacedByFew DEF QuitEach, toClose
    <3>2. \A f : On(f)' <=> f \in Below
      BY <3>1 DEF Shift
    <3>3. Ordered'
      BY <2>2, <3>1, <3>2 DEF Ordered, Shift
    <3>4. Quits'
      BY <2>1, <2>2, <2>4, <3>1, <3>2 DEF Sane, Quits
    <3>5. Closes'
      <4>1. \A f \in {"CLOSE", "ask", "still", "stop", "remove"} : ~On(f)'
        BY <2>1, <3>2
      <4> QED BY <2>3, <3>1, <4>1 DEF Closes
    <3>6. Runs'
      <4>1. ~On("popen")'
        BY <2>1, <3>2
      <4> QED BY <2>1, <4>1 DEF Sane, Runs
    <3> QED BY <3>3, <3>4, <3>5, <3>6 DEF Sane
  <2>5. ASSUME NEW p \in left, closing' = p, left' = left \ {p},
               calls' = <<"CLOSE">> \o calls
        PROVE  Sane'
    <3>1. Then(<<"CLOSE", "each">>)
      <4>1. calls \in Seq(Frames) /\ "CLOSE" \in Frames /\ calls[1] = "each"
        BY <1>1, <2>1, TopFacts DEF Inv, TypeOK, Frames, UserActions
      <4>2. <<"CLOSE">> \o calls = <<"CLOSE", calls[1]>> \o Tail(calls)
        BY <1>1, <4>1, Pushed
      <4> QED BY <2>5, <4>1, <4>2 DEF Then
    <3>2. Shift({"CLOSE", "each"})
      <4>1. \A f \in Frames : Top \in Above(f) => {"CLOSE", "each"} \subseteq Above(f)
        BY <2>1, AboveFacts
      <4>2. "CLOSE" \in Frames /\ "each" \in Frames /\ "CLOSE" \in Above("each")
        BY DEF Frames, UserActions, Above, Closing
      <4> QED BY <1>1, <2>1, <3>1, <4>1, <4>2, ReplacedByFew
    <3>3. \A f : On(f)' <=> f \in {"CLOSE", "each"} \cup Below
      BY <3>2 DEF Shift
    <3>4. Ordered'
      BY <2>2, <3>2, <3>3 DEF Ordered, Shift
    <3>5. left \subseteq open /\ open \subseteq Pages /\ p # NoPage
      BY PagesAssumption DEF Sane, Quits, Inv, TypeOK
    <3>6. Quits'
      <4>1. On("each")' /\ On("QUIT_END")'
        BY <2>2, <3>3
      <4> QED BY <2>1, <2>5, <3>5, <4>1 DEF Sane, Quits
    <3>7. Closes'
      <4>1. \A f \in {"ask", "still", "stop", "remove"} : ~On(f)'
        BY <2>1, <3>3
      <4>2. On("CLOSE")' /\ "CLOSE" \in Closing
        BY <3>3 DEF Closing
      <4> QED BY <2>1, <2>5, <3>5, <4>1, <4>2 DEF Closes
    <3>8. Runs'
      <4>1. ~On("popen")'
        BY <2>1, <3>3
      <4> QED BY <2>1, <4>1 DEF Sane, Runs
    <3> QED BY <3>4, <3>6, <3>7, <3>8 DEF Sane
  <2> QED BY <1>4, <2>4, <2>5 DEF QuitEach
<1>5. CASE QuitEnd
  <2>1. Top = "QUIT_END" /\ Below \subseteq {"GLOBALS"}
        /\ open' = open /\ current' = current /\ proc' = proc /\ procs' = procs
        /\ closing' = closing /\ left' = left
    BY <1>1, <1>5, BelowFacts DEF QuitEnd, At, Closing, Saving, OnlyCalls, notebook, processes, toClose
  <2>2. closing = NoPage /\ left = {}
    BY <1>2, <2>1 DEF Sane, Closes, Quits, Closing
  <2>3. Closes' /\ Runs' /\ Ordered' /\ Quits'
    <3>1. CASE open = {}
      <4>1. calls' = <<"exit">>
        BY <1>5, <3>1 DEF QuitEnd
      <4>2. DOMAIN calls' = {1} /\ Len(calls') = 1 /\ calls'[1] = "exit"
        BY <4>1
      <4>3. Nested' /\ Bottomed' /\ \A f : On(f)' <=> f = "exit"
        BY <4>2 DEF Nested, Bottomed, On
      <4>4. Ordered' /\ Closes'
        BY <2>1, <2>2, <4>3 DEF Ordered, Closes
      <4>5. Quits' /\ Runs'
        BY <2>1, <2>2, <3>1, <4>3 DEF Quits, Runs, Sane
      <4> QED BY <4>4, <4>5
    <3>2. CASE open # {}
      <4>1. Shift({})
        BY <1>1, <1>5, <2>1, <3>2, ReplacedByFew DEF QuitEnd
      <4>2. \A f : On(f)' => f = "GLOBALS"
        BY <2>1, <4>1 DEF Shift
      <4>3. Ordered' /\ Closes'
        BY <2>1, <2>2, <4>1, <4>2 DEF Ordered, Closes, Shift
      <4>4. Quits' /\ Runs'
        BY <2>1, <2>2, <3>2, <4>2 DEF Quits, Runs, Sane
      <4> QED BY <4>3, <4>4
    <3> QED BY <3>1, <3>2
  <2> QED BY <2>3 DEF Sane
<1> QED BY <1>3, <1>4, <1>5

-----------------------------------------------------------------------------
(* The buttons.                                                             *)

LEMMA NotEmpty ==
  ASSUME NEW S, NEW s \in Seq(S), NEW t \in Seq(S), s # << >> \/ t # << >>
  PROVE  s \o t # << >>
BY ConcatEqualIffEmpty

\* as long as a call is left the main loop does not turn
LEMMA InACall ==
  ASSUME NEW s \in Seq(Frames), s # << >>
  PROVE  Head(s) # "main loop"
PROOF
<1>1. Head(s) \in Frames
  BY HeadTailProperties
<1> QED BY <1>1 DEF Frames, UserActions, Dialogs

\* no handler is the last one to run: what is common to all actions follows it
LEMMA Busy ==
  ASSUME Inv, Sane, Top \notin {"main loop", "GLOBALS", "exit"},
         (\E c \in Seq(Frames) : Then(c)) \/ calls' # << >>
  PROVE  calls' # << >>
PROOF
<1>1. calls # << >>
  BY DEF Top
<1>2. /\ calls \in Seq(Frames) /\ Top = calls[1] /\ calls[Len(calls)] \in {"GLOBALS", "exit"}
      /\ Len(calls) \in Nat /\ Len(calls) > 0
  BY <1>1, TopFacts DEF Inv, TypeOK, Sane, Ordered, Bottomed
<1>3. Len(calls) # 1
  BY <1>2
<1>4. Tail(calls) \in Seq(Frames) /\ Len(Tail(calls)) = Len(calls) - 1
  BY <1>1, <1>2, HeadTailProperties
<1>5. Tail(calls) # << >>
  <2>1. Len(calls) - 1 # 0
    <3>1. PICK n \in Nat : n = Len(calls)
      BY <1>2, Zenon
    <3>2. n # 1
      BY <1>3, <3>1, Zenon
    <3>3. n - 1 # 0
      BY ONLY n \in Nat, <3>2
    <3> QED BY <3>1, <3>3, Zenon
  <2>2. Len(<< >>) = 0
    OBVIOUS
  <2> QED BY <1>4, <2>1, <2>2, Zenon
<1>6. ASSUME NEW c \in Seq(Frames), Then(c) PROVE calls' # << >>
  <2>1. c \o Tail(calls) # << >>
    BY <1>4, <1>5, NotEmpty
  <2> QED BY <1>6, <2>1 DEF Then
<1> QED BY <1>6

\* the steps that leave calls in the stack
BusyActions ==
  \/ UserAnswers
  \/ MainThread /\ ~Globals /\ ~\E recorded \in BOOLEAN, last, g \in Graphs : CreateHier(recorded, last, g)

LEMMA BusyActionsBusy ==
  ASSUME Inv, Sane, BusyActions
  PROVE  calls' # << >>
PROOF
<1>1. CASE \/ \E g \in Graphs : PropsChange(g)
           \/ PropsAccept \/ PropsCancel \/ OpenCancel \/ SaveAsCancel \/ AnswerSave
           \/ AnswerDiscard \/ \E f \in Files : OpenFile(f) \/ SaveAsFile(f)
  <2>1. Top \in {"props", "OPEN", "SAVE_AS", "ask"}
    BY <1>1 DEF PropsChange, PropsAccept, PropsCancel, OpenCancel, SaveAsCancel, AnswerSave,
                AnswerDiscard, OpenFile, SaveAsFile, At
  <2>2. (\E c \in Seq(Frames) : Then(c)) \/ calls' # << >>
    <3>1. {"stop", "still", "GLOBALS", "SAVE"} \subseteq Frames
      BY DEF Frames, UserActions
    <3>2. CASE \E g \in Graphs : PropsChange(g)
      BY <2>1, <3>2 DEF PropsChange, Top
    <3>3. CASE PropsAccept \/ PropsCancel \/ OpenCancel \/ SaveAsCancel
      <4>1. Then(<< >>)
        BY <3>3 DEF PropsAccept, PropsCancel, OpenCancel, SaveAsCancel
      <4> QED BY <4>1, FrameSequences
    <3>4. CASE AnswerSave
      BY <3>1, <3>4, FrameSequences DEF AnswerSave
    <3>5. CASE AnswerDiscard
      BY <3>1, <3>5, FrameSequences DEF AnswerDiscard
    <3>6. CASE \E f \in Files : OpenFile(f)
      BY <3>1, <3>6, FrameSequences DEF OpenFile
    <3>7. CASE \E f \in Files : SaveAsFile(f)
      BY <3>1, <3>7, FrameSequences DEF SaveAsFile
    <3> QED BY <1>1, <3>2, <3>3, <3>4, <3>5, <3>6, <3>7
  <2> QED BY <2>1, <2>2, Busy
<1>2. CASE MainThread /\ ~Globals /\ ~\E recorded \in BOOLEAN, last, g \in Graphs : CreateHier(recorded, last, g)
  <2>1. Top \notin {"main loop", "GLOBALS", "exit"}
    BY <1>2 DEF MainThread, UndoAction, RedoAction, ParamModify, NewPage,
                SaveElsewhere, SaveToFile, Gen, WriteScript, NotSaved, Exec, Popen, Kill,
                Close, StillUnsaved, StopIt, Remove, QuitBegin, QuitEach, QuitEnd, At
  <2>2. (\E c \in Seq(Frames) : Then(c)) \/ calls' # << >>
    <3>1. {"props", "GLOBALS", "SAVE", "SAVE_AS", "write", "GEN", "popen", "ask", "stop",
           "remove", "KILL", "each", "QUIT_END"} \subseteq Frames
      BY DEF Frames, UserActions, Dialogs
    <3>2. CASE \/ UndoAction \/ RedoAction \/ Popen \/ Kill \/ NotSaved
               \/ \E ok \in BOOLEAN : SaveToFile(ok) \/ WriteScript(ok)
      <4>1. Then(<< >>)
        BY <3>2 DEF UndoAction, RedoAction, UndoOr, Popen, Kill, NotSaved, SaveToFile,
                    WriteScript
      <4> QED BY <4>1, FrameSequences
    <3>3. CASE ParamModify \/ NewPage
      BY <3>1, <3>3, FrameSequences DEF ParamModify, NewPage
    <3>4. CASE SaveElsewhere
      BY <3>1, <3>4, FrameSequences DEF SaveElsewhere
    <3>5. CASE Gen
      BY <3>1, <3>5, FrameSequences DEF Gen
    <3>6. CASE Exec
      BY <3>1, <3>6, FrameSequences DEF Exec
    <3>7. CASE StillUnsaved
      BY <3>1, <3>7, FrameSequences DEF StillUnsaved
    <3>8. CASE StopIt
      BY <3>1, <3>8, FrameSequences DEF StopIt
    <3>9. CASE Remove
      BY <3>1, <3>9, FrameSequences DEF Remove
    <3>10. CASE QuitBegin
      <4>1. <<"each", "QUIT_END">> \in Seq(Frames)
        BY <3>1
      <4> QED BY <3>10, <4>1 DEF QuitBegin
    <3>11. CASE QuitEach
      <4>1. calls \in Seq(Frames) /\ <<"CLOSE">> \in Seq(Frames) /\ <<"CLOSE">> # << >>
        BY DEF Inv, TypeOK, Frames, UserActions
      <4>2. <<"CLOSE">> \o calls # << >>
        BY <4>1, ConcatEqualIffEmpty
      <4> QED BY <3>11, <4>2, FrameSequences DEF QuitEach
    <3>12. CASE QuitEnd
      <4>1. calls' = <<"exit">> \/ Then(<< >>)
        BY <3>12 DEF QuitEnd
      <4>2. <<"exit">> # << >>
        OBVIOUS
      <4> QED BY <4>1, <4>2, FrameSequences
    <3>13. CASE Close
      <4> DEFINE s == IF current' = current THEN << >> ELSE <<"GLOBALS">>
                 t == IF saved[ToClose] THEN <<"stop">> ELSE <<"ask">>
      <4>1. s \in Seq(Frames) /\ t \in Seq(Frames)
        BY <3>1
      <4>2. Then(s \o t)
        BY <3>13 DEF Close
      <4> HIDE DEF s, t
      <4>3. s \o t \in Seq(Frames)
        BY <4>1, ConcatProperties
      <4> QED BY <4>2, <4>3
    <3> QED BY <1>2, <3>2, <3>3, <3>4, <3>5, <3>6, <3>7, <3>8, <3>9, <3>10, <3>11, <3>12,
               <3>13 DEF MainThread
  <2> QED BY <2>1, <2>2, Busy
<1> QED BY <1>1, <1>2 DEF BusyActions, UserAnswers

LEMMA ButtonsKeepFollowing ==
  ASSUME Inv, Inv', Sane, ButtonsFollow, [Next]_vars
  PROVE  ButtonsFollow'
PROOF
<1>1. button \in ButtonType
  BY DEF Inv, TypeOK
<1>2. CASE Globals
  <2>1. /\ button' = [button EXCEPT !.exec = CanExec(graph[current], proc[current]),
                                    !.kill = proc[current] # NoProc, !.save = ~saved[current]]
        /\ current' = current /\ graph' = graph /\ proc' = proc /\ saved' = saved
    BY <1>2 DEF Globals, notebook, documents, processes
  <2>2. /\ button'.exec = CanExec(graph[current], proc[current])
        /\ button'.kill = (proc[current] # NoProc)
        /\ button'.save = ~saved[current]
    BY <1>1, <2>1 DEF ButtonType
  <2> QED BY <2>1, <2>2 DEF ButtonsFollow, CanExec
<1>3. ASSUME NEW k \in Pids, Done(k) PROVE ButtonsFollow'
  <2>1. /\ button' = ExecStop(button, graph[current], proc'[current])
        /\ current' = current /\ graph' = graph /\ saved' = saved /\ calls' = calls
    BY <1>3 DEF Done, notebook, documents
  <2>2. /\ button'.exec = CanExec(graph[current], proc'[current])
        /\ button'.kill = (proc'[current] # NoProc)
        /\ button'.save = button.save
    BY <1>1, <2>1 DEF ButtonType, ExecStop
  <2> QED BY <2>1, <2>2 DEF ButtonsFollow, CanExec, Idle, At, Top
<1>4. ASSUME UNCHANGED <<notebook, documents, proc, calls, button, unrecorded>>
      PROVE  ButtonsFollow'
  BY <1>4 DEF ButtonsFollow, CanExec, Idle, At, Top, notebook, documents
<1>5. ASSUME NEW k \in Pids, ProcessEnds(k) \/ ThreadEnds(k) PROVE ButtonsFollow'
  BY <1>4, <1>5 DEF ProcessEnds, ThreadEnds, history
<1>6. CASE UNCHANGED vars
  BY <1>4, <1>6 DEF vars, processes, history
<1>7. CASE BusyActions
  <2>1. calls' # << >>
    BY <1>7, BusyActionsBusy
  <2>2. ~Idle'
    BY <2>1, InACall DEF Idle, At, Top, Inv, TypeOK
  <2> QED BY <2>2 DEF ButtonsFollow
<1>8. ASSUME NEW recorded \in BOOLEAN, NEW last \in Graphs, NEW g \in Graphs,
             CreateHier(recorded, last, g)
      PROVE  ButtonsFollow'
  <2> DEFINE blank == NewCache(BlankGraph)
             c == IF recorded THEN SaveNewState(blank, last) ELSE blank
  <2>1. CASE Then(<< >>)
    <3>1. Top \notin {"main loop", "GLOBALS", "exit"}
      BY <1>8 DEF CreateHier, At
    <3>2. calls' # << >>
      BY <2>1, <3>1, FrameSequences, Busy
    <3>3. ~Idle'
      BY <3>2, InACall DEF Idle, At, Top, Inv, TypeOK
    <3> QED BY <3>3 DEF ButtonsFollow
  <2>2. CASE \E e \in BOOLEAN :
               button' = [UndoRedo(button, c) EXCEPT !.exec = e, !.kill = FALSE,
                                                     !.save = recorded]
    <3>1. PICK e \in BOOLEAN :
               button' = [UndoRedo(button, c) EXCEPT !.exec = e, !.kill = FALSE,
                                                     !.save = recorded]
      BY <2>2
    <3>2. UndoRedo(button, c) \in ButtonType
      BY <1>1, ButtonTypes
    <3>3. button'.kill = FALSE /\ button'.save = recorded
      BY <3>1, <3>2 DEF ButtonType
    <3>4. PICK p \in Pages : /\ saved' = [saved EXCEPT ![p] = ~recorded]
                             /\ proc' = [proc EXCEPT ![p] = NoProc]
                             /\ current' = p /\ unrecorded' = unrecorded \cup {p}
      BY <1>8 DEF CreateHier, Unused
    <3>5. current' \in unrecorded' /\ proc'[current'] = NoProc
      BY <3>4 DEF Inv, TypeOK
    <3>6. saved'[current'] = ~recorded
      BY <3>4 DEF Inv, TypeOK
    <3>7. button'.save = ~saved'[current']
      BY <1>8, <3>3, <3>6
    <3> QED BY <3>3, <3>5, <3>7 DEF ButtonsFollow
  <2> QED BY <1>8, <2>1, <2>2 DEF CreateHier
<1>9. ASSUME NEW g \in Graphs, PasteRaises(g) PROVE ButtonsFollow'
  <2>1. /\ current' = current /\ proc' = proc /\ saved' = saved /\ button' = button
        /\ Idle /\ current' \in unrecorded'
    BY <1>9 DEF PasteRaises, notebook, processes
  <2> QED BY <2>1 DEF ButtonsFollow
<1>10. CASE UserStarts /\ ~\E g \in Graphs : PasteRaises(g)
  <2>1. calls' = <<"GLOBALS">> \/ \E a \in UserActions : calls' = <<a, "GLOBALS">>
    BY <1>10 DEF UserStarts, Activate, ClickClose, SwitchPage, Edit, Invoke, UserActions
  <2>2. calls' # << >>
    <3>1. <<"GLOBALS">> # << >> /\ \A a \in UserActions : <<a, "GLOBALS">> # << >>
      OBVIOUS
    <3> QED BY <2>1, <3>1, Zenon
  <2>3. ~Idle'
    BY <2>2, InACall DEF Idle, At, Top, Inv, TypeOK
  <2> QED BY <2>3 DEF ButtonsFollow
<1> QED BY <1>2, <1>3, <1>5, <1>6, <1>7, <1>8, <1>9, <1>10 DEF Next, Others, BusyActions

-----------------------------------------------------------------------------
LEMMA StoppableAtFirst == Init => Stoppable
PROOF
<1> SUFFICES ASSUME Init PROVE Stoppable
  OBVIOUS
<1>1. Inv
  BY InitKeeps
<1>2. calls = <<"GLOBALS">> /\ ~Idle
  BY DEF Init, Idle, At, Top
<1>3. DOMAIN calls = {1} /\ Len(calls) = 1 /\ calls[1] = "GLOBALS"
  BY <1>2
<1>4. Nested /\ Bottomed /\ \A f : On(f) <=> f = "GLOBALS"
  BY <1>3 DEF Nested, Bottomed, On
<1>5. open = {current} /\ closing = NoPage /\ left = {}
      /\ proc = [p \in Pages |-> NoProc] /\ procs = [k \in Pids |-> NoThread]
  BY DEF Init
<1>6. Ordered /\ Quits /\ Closes
  BY <1>4, <1>5 DEF Ordered, Quits, Closes
<1>7. Runs
  BY <1>4, <1>5 DEF Runs, NoThread
<1> QED BY <1>1, <1>2, <1>6, <1>7 DEF Stoppable, Sane, ButtonsFollow

LEMMA StaysStoppable == Stoppable /\ [Next]_vars => Stoppable'
PROOF
<1> SUFFICES ASSUME Stoppable, [Next]_vars PROVE Stoppable'
  OBVIOUS
<1>1. Inv /\ Sane /\ ButtonsFollow
  BY DEF Stoppable
<1>2. Inv'
  BY <1>1, NextKeeps
<1>3. ButtonsFollow'
  BY <1>1, <1>2, ButtonsKeepFollowing
<1>4. Sane'
  <2>1. CASE UserStarts
    <3>1. StartActions
      BY <2>1 DEF UserStarts, StartActions
    <3> QED BY <1>1, <3>1, StartsSane
  <2>2. CASE UserAnswers
    <3>1. CASE \E g \in Graphs : PropsChange(g)
      <4>1. UNCHANGED <<notebook, processes, toClose, calls, saved, discarded>>
        BY <3>1 DEF PropsChange, history
      <4> QED BY <1>1, <4>1, SaneStays
    <3>2. CASE PropsAccept \/ PropsCancel \/ OpenCancel \/ SaveAsCancel
               \/ \E f \in Files : SaveAsFile(f)
      <4>1. CalmActions
        BY <3>2 DEF CalmActions
      <4> QED BY <1>1, <4>1, CalmActionsSane
    <3>3. CASE \E f \in Files : OpenFile(f)
      BY <1>1, <3>3, PagesMadeSane
    <3>4. CASE AnswerSave \/ AnswerDiscard
      BY <1>1, <3>4, ClosingSane
    <3> QED BY <2>2, <3>1, <3>2, <3>3, <3>4 DEF UserAnswers
  <2>3. CASE MainThread
    <3>1. CASE \/ Globals \/ UndoAction \/ RedoAction \/ ParamModify \/ SaveElsewhere
               \/ (\E ok \in BOOLEAN : SaveToFile(ok))
               \/ Gen \/ (\E ok \in BOOLEAN : WriteScript(ok)) \/ NotSaved
      <4>1. CalmActions
        BY <3>1 DEF CalmActions
      <4> QED BY <1>1, <4>1, CalmActionsSane
    <3>2. CASE NewPage \/ \E recorded \in BOOLEAN, last, g \in Graphs : CreateHier(recorded, last, g)
      BY <1>1, <3>2, PagesMadeSane
    <3>3. CASE StillUnsaved \/ StopIt
      BY <1>1, <3>3, ClosingSane
    <3>4. CASE QuitBegin \/ QuitEach \/ QuitEnd
      BY <1>1, <3>4, QuitsSane
    <3> QED BY <1>1, <2>3, <3>1, <3>2, <3>3, <3>4, ExecSane, PopenSane, KillSane, CloseSane,
               RemoveSane DEF MainThread
  <2>4. CASE Others
    BY <1>1, <2>4, ThreadsSane DEF Others
  <2>5. CASE UNCHANGED vars
    <3>1. UNCHANGED <<notebook, processes, toClose, calls, saved, discarded>>
      BY <2>5 DEF vars, documents, history
    <3> QED BY <1>1, <3>1, SaneStays
  <2> QED BY <2>1, <2>2, <2>3, <2>4, <2>5 DEF Next
<1> QED BY <1>2, <1>3, <1>4 DEF Stoppable

\* Every process that runs belongs to a page that knows it, one whose page is gone has
\* been killed, and between actions the gen/exec, kill and save buttons tell of the
\* page that is shown: so a process can always be stopped from its page.
THEOREM StoppableTheorem == Spec => []ProcessesCanBeStopped
PROOF
<1>1. Stoppable => ProcessesCanBeStopped
  BY DEF Stoppable, Sane, Runs, ProcessesCanBeStopped, ProcessesAreReachable
<1> QED BY <1>1, StoppableAtFirst, StaysStoppable, PTL DEF Spec

\* Only `remove` takes a page out of the notebook, and a page comes to it saved or
\* given up by the user's answer: whatever the saving of it came to, and whoever asked
\* for it to be closed.
THEOREM AskedTheorem == Spec => AskedBeforeLost
PROOF
<1>1. ASSUME Stoppable, [Next]_vars, NEW p \in open \ open'
      PROVE  saved[p] \/ p \in discarded
  <2>1. CASE Remove
    <3>1. calls # << >> /\ Top = "remove" /\ Inv /\ Nested
      BY <1>1, <2>1 DEF Remove, At, Top, Stoppable, Sane, Ordered
    <3>2. On("remove")
      BY <3>1, TopFacts
    <3>3. open \ open' \subseteq {closing}
      BY <2>1 DEF Remove
    <3> QED BY <1>1, <3>2, <3>3 DEF Stoppable, Sane, Closes
  <2>2. CASE NewPage \/ (\E f \in Files : OpenFile(f))
             \/ \E recorded \in BOOLEAN, last, g \in Graphs : CreateHier(recorded, last, g)
    <3>1. open \subseteq open'
      BY <2>2 DEF NewPage, OpenFile, CreateHier, notebook
    <3> QED BY <1>1, <3>1
  <2>3. CASE UNCHANGED open
    BY <1>1, <2>3
  <2>4. CASE UserStarts
    <3>1. UNCHANGED open
      BY <2>4 DEF UserStarts, Activate, ClickClose, SwitchPage, Edit, PasteRaises, OnlyCalls,
                  notebook
    <3> QED BY <2>3, <3>1
  <2>5. CASE UserAnswers /\ ~\E f \in Files : OpenFile(f)
    <3>1. UNCHANGED open
      BY <2>5 DEF UserAnswers, PropsChange, PropsAccept, PropsCancel, OpenCancel, SaveAsCancel,
                  AnswerSave, AnswerDiscard, SaveAsFile, OnlyCalls, notebook
    <3> QED BY <2>3, <3>1
  <2>6. CASE MainThread /\ ~Remove /\ ~NewPage /\ ~\E recorded \in BOOLEAN, last, g \in Graphs : CreateHier(recorded, last, g)
    <3>1. UNCHANGED open
      BY <2>6 DEF MainThread, Globals, UndoAction, RedoAction, UndoOr, ParamModify, SaveElsewhere,
                  SaveToFile, Gen, WriteScript, NotSaved, Exec, Popen, Kill, Close, StillUnsaved,
                  StopIt, QuitBegin, QuitEach, QuitEnd, OnlyCalls, notebook
    <3> QED BY <2>3, <3>1
  <2>7. CASE Others \/ UNCHANGED vars
    <3>1. UNCHANGED open
      BY <2>7 DEF Others, ProcessEnds, ThreadEnds, Done, vars, notebook
    <3> QED BY <2>3, <3>1
  <2> QED BY <1>1, <2>1, <2>2, <2>4, <2>5, <2>6, <2>7 DEF Next
<1>2. Stoppable /\ [Next]_vars => [\A p \in open \ open' : saved[p] \/ p \in discarded]_vars
  BY <1>1
<1> QED BY <1>2, StoppableAtFirst, StaysStoppable, PTL DEF Spec, AskedBeforeLost

-----------------------------------------------------------------------------
(***************************************************************************)
(* A page, its file and its undo list (PagesAgree).  The file of a page    *)
(* that counts as saved holds what its undo list calls the current state,  *)
(* not what the page shows: the page may be in the middle of a dialog that  *)
(* is cancelled.                                                           *)
(***************************************************************************)

Recorded(p) ==
  graph[p] \in Shown(CurrentState(cache[p])) \/ (p = current /\ At("props"))

Kept(p) ==
  saved[p] /\ HasFile(p) =>
    IF p \in unrecorded
    THEN graph[p] = disk[file[p]] \/ (p = current /\ At("props"))
    ELSE disk[file[p]] \in Shown(CurrentState(cache[p]))

Agrees(p) == (p \notin unrecorded => Recorded(p)) /\ (p \notin astray => Kept(p))

PagesKept == Inv /\ unrecorded \subseteq open /\ \A p \in open : Agrees(p)

\* a step that does nothing to page p, nor to its file unless p goes astray
Spares(p) ==
  /\ graph'[p] = graph[p] /\ cache'[p] = cache[p]
  /\ saved'[p] = saved[p] /\ file'[p] = file[p]
  /\ p \in unrecorded' <=> p \in unrecorded
  /\ p \notin astray' => p \notin astray /\ (HasFile(p) => disk'[file[p]] = disk[file[p]])
  /\ p # current \/ ~At("props") \/ UNCHANGED <<current, calls>>

LEMMA ShownFacts ==
  ASSUME NEW n \in Graphs
  PROVE  n \in Shown(n) /\ \A g \in Graphs : Imported[g][n] \in Shown(n)
PROOF
  BY DEF Shown

LEMMA SparedAgrees ==
  ASSUME NEW p, Agrees(p), Spares(p)
  PROVE  Agrees(p)'
PROOF
<1>1. (p = current /\ At("props")) => (p = current /\ At("props"))'
  BY DEF Spares, At, Top
<1>2. HasFile(p)' <=> HasFile(p)
  BY DEF Spares, HasFile
<1>3. p \notin unrecorded' => Recorded(p)'
  BY <1>1 DEF Agrees, Spares, Recorded
<1>4. p \notin astray' => Kept(p)'
  BY <1>1, <1>2 DEF Agrees, Spares, Kept
<1> QED BY <1>3, <1>4 DEF Agrees

\* a step that spares all pages but those of S, which agree after it
LEMMA OthersAgree ==
  ASSUME PagesKept, Inv', NEW S, \A p \in open' \ S : p \in open /\ Spares(p),
         \A p \in S \cap open' : Agrees(p)', unrecorded' \subseteq open'
  PROVE  PagesKept'
PROOF
<1>1. ASSUME NEW p \in open' PROVE Agrees(p)'
  <2>1. CASE p \in S
    BY <2>1
  <2>2. CASE p \notin S
    BY <2>2, SparedAgrees DEF PagesKept
  <2> QED BY <2>1, <2>2
<1> QED BY <1>1 DEF PagesKept

QuietActions ==
  \/ ControlActions \/ ThreadActions
  \/ \E p \in Pages : ClickClose(p) \/ SwitchPage(p)
  \/ AnswerDiscard \/ Globals \/ Popen \/ Kill \/ Close \/ StillUnsaved
  \/ QuitBegin \/ QuitEach
  \/ \E ok \in BOOLEAN : WriteScript(ok)

LEMMA QuietKeeps ==
  ASSUME PagesKept, Inv', QuietActions
  PROVE  PagesKept'
PROOF
<1> DEFINE Quiet == UNCHANGED <<open, documents, disk, astray, unrecorded>>
           Turned == ~At("props") \/ UNCHANGED <<current, calls>>
<1>0. ASSUME Quiet, Turned PROVE PagesKept'
  <2>1. ASSUME NEW p \in open' \ {} PROVE p \in open /\ Spares(p)
    BY <1>0 DEF Spares, documents
  <2>2. unrecorded' \subseteq open' /\ \A p \in {} \cap open' : Agrees(p)'
    BY <1>0 DEF PagesKept
  <2> QED BY <2>1, <2>2, OthersAgree
<1> SUFFICES Quiet /\ Turned
  BY <1>0
<1> USE DEF notebook, documents, processes, toClose, written, history, At
<1>1. CASE ControlActions
  BY <1>1 DEF ControlActions, Activate, OpenCancel, SaveAsCancel, AnswerSave, ParamModify,
              SaveElsewhere, Gen, NotSaved, Exec, StopIt, QuitEnd, OnlyCalls, Idle
<1>2. CASE ThreadActions
  BY <1>2 DEF ThreadActions, ProcessEnds, ThreadEnds, Done
<1>3. CASE \E p \in Pages : ClickClose(p) \/ SwitchPage(p)
  BY <1>3 DEF ClickClose, SwitchPage, Idle
<1>4. CASE AnswerDiscard \/ Globals \/ Popen \/ Kill
  BY <1>4 DEF AnswerDiscard, Globals, Popen, Kill
<1>5. CASE Close \/ StillUnsaved \/ QuitBegin \/ QuitEach
  BY <1>5 DEF Close, StillUnsaved, QuitBegin, QuitEach
<1>6. CASE \E ok \in BOOLEAN : WriteScript(ok)
  BY <1>6 DEF WriteScript
<1> QED BY <1>1, <1>2, <1>3, <1>4, <1>5, <1>6 DEF QuietActions

\* an edit, an undo or a redo: the page shows what its undo list says and is unsaved
LEMMA ChangeAgrees ==
  ASSUME PagesKept, Inv', NEW g, NEW c, g \in Shown(CurrentState(c)), Change(g, c),
         UNCHANGED <<notebook, disk, astray>>
  PROVE  PagesKept'
PROOF
<1>1. /\ current \in Pages /\ graph \in [Pages -> Graphs] /\ cache \in [Pages -> CacheType]
      /\ saved \in [Pages -> BOOLEAN] /\ open \subseteq Pages
  BY DEF PagesKept, Inv, TypeOK
<1>2. /\ graph'[current] = g /\ cache'[current] = c /\ saved'[current] = FALSE
      /\ \A p \in Pages \ {current} : /\ graph'[p] = graph[p] /\ cache'[p] = cache[p]
                                      /\ saved'[p] = saved[p]
      /\ file' = file /\ disk' = disk /\ open' = open /\ current' = current
      /\ astray' = astray /\ unrecorded' = unrecorded \ {current}
  BY <1>1 DEF Change, notebook
<1>3. ASSUME NEW p \in open' \ {current} PROVE p \in open /\ Spares(p)
  BY <1>1, <1>2 DEF Spares
<1>4. Recorded(current)' /\ Kept(current)'
  BY <1>2 DEF Recorded, Kept
<1>5. unrecorded' \subseteq open' /\ \A p \in {current} \cap open' : Agrees(p)'
  BY <1>2, <1>4 DEF PagesKept, Agrees
<1> QED BY <1>3, <1>5, OthersAgree

LEMMA EditsAgree ==
  ASSUME PagesKept, Inv', EditActions
  PROVE  PagesKept'
PROOF
<1>0. /\ current \in Pages /\ Sound(cache[current]) /\ graph[current] \in Graphs
  BY DEF PagesKept, Inv, TypeOK, SoundCaches
<1> USE DEF written
<1>1. ASSUME NEW g \in Graphs, Edit(g) PROVE PagesKept'
  <2>1. g \in Shown(CurrentState(SaveNewState(cache[current], g)))
    BY <1>0, SaveRecords, ShownFacts
  <2> QED BY <1>1, <2>1, ChangeAgrees DEF Edit
<1>2. CASE PropsAccept
  <2>1. graph[current] \in Shown(CurrentState(SaveNewState(cache[current], graph[current])))
    BY <1>0, SaveRecords, ShownFacts
  <2> QED BY <1>2, <2>1, ChangeAgrees DEF PropsAccept
<1>3. ASSUME NEW can, NEW moved, can => Sound(moved), UndoOr(can, moved), Top # "props"
      PROVE  PagesKept'
  <2>1. CASE can
    <3>1. CurrentState(moved) \in Graphs
      BY <1>3, <2>1 DEF Sound, Written
    <3>2. Imported[graph[current]][CurrentState(moved)] \in Shown(CurrentState(moved))
      BY <1>0, <3>1, ShownFacts
    <3> QED BY <1>3, <2>1, <3>2, ChangeAgrees DEF UndoOr
  <2>2. CASE ~can
    <3>1. UNCHANGED <<open, documents, disk, astray, unrecorded>>
      BY <1>3, <2>2 DEF UndoOr, notebook
    <3>2. ASSUME NEW p \in open' \ {} PROVE p \in open /\ Spares(p)
      BY <1>3, <3>1 DEF Spares, documents, At
    <3>3. unrecorded' \subseteq open' /\ \A p \in {} \cap open' : Agrees(p)'
      BY <3>1 DEF PagesKept
    <3> QED BY <3>2, <3>3, OthersAgree
  <2> QED BY <2>1, <2>2
<1>4. CASE UndoAction
  <2>1. CanUndo(cache[current]) => Sound(ToPrevState(cache[current]))
    BY <1>0, PrevUndoes
  <2> QED BY <1>3, <1>4, <2>1 DEF UndoAction, At
<1>5. CASE RedoAction
  <2>1. CanRedo(cache[current]) => Sound(ToNextState(cache[current]))
    BY <1>0, NextRedoes
  <2> QED BY <1>3, <1>5, <2>1 DEF RedoAction, At
<1> QED BY <1>1, <1>2, <1>4, <1>5 DEF EditActions

\* a dialog that changes the flow graph as the user types, and takes it back
LEMMA PropsAgree ==
  ASSUME PagesKept, Inv', PropsCancel \/ \E g \in Graphs : PropsChange(g)
  PROVE  PagesKept'
PROOF
<1>1. /\ current \in Pages /\ graph \in [Pages -> Graphs] /\ open \subseteq Pages
      /\ CurrentState(cache[current]) \in Graphs /\ graph[current] \in Graphs
  BY DEF PagesKept, Inv, TypeOK, SoundCaches, Sound, Written
<1>2. /\ file' = file /\ saved' = saved /\ cache' = cache /\ disk' = disk
      /\ open' = open /\ current' = current
      /\ \A p \in Pages \ {current} : graph'[p] = graph[p]
      /\ unrecorded' \subseteq unrecorded /\ unrecorded \ {current} \subseteq unrecorded'
      /\ astray' \subseteq astray \cup {current} /\ astray \subseteq astray'
  BY <1>1 DEF PropsCancel, PropsChange, notebook, written, history
<1>3. ASSUME NEW p \in open' \ {current} PROVE p \in open /\ Spares(p)
  BY <1>1, <1>2, <1>3 DEF Spares
<1>4. ASSUME current \in open PROVE Agrees(current)'
  <2>0. Agrees(current) /\ (HasFile(current)' <=> HasFile(current))
    BY <1>2, <1>4 DEF PagesKept, HasFile
  <2>1. CASE PropsCancel
    <3> DEFINE n == CurrentState(cache[current])
    <3>1. /\ graph'[current] = Imported[graph[current]][n] /\ current \notin unrecorded'
          /\ astray' = astray \cup (unrecorded \cap {current})
      BY <1>1, <2>1 DEF PropsCancel
    <3>2. graph'[current] \in Shown(n)
      BY <1>1, <3>1, ShownFacts
    <3>3. Recorded(current)'
      BY <1>2, <3>2 DEF Recorded
    <3>4. current \notin astray' => Kept(current)'
      BY <1>2, <2>0, <3>1 DEF Agrees, Kept
    <3> QED BY <1>2, <3>3, <3>4 DEF Agrees
  <2>2. CASE \E g \in Graphs : PropsChange(g)
    <3>1. calls' = calls /\ At("props") /\ astray' = astray /\ unrecorded' = unrecorded
      BY <2>2 DEF PropsChange, history
    <3>2. At("props")'
      BY <3>1 DEF At, Top
    <3>3. Recorded(current)'
      BY <1>2, <3>2 DEF Recorded
    <3>4. current \notin astray' => Kept(current)'
      BY <1>2, <2>0, <3>1, <3>2 DEF Agrees, Kept
    <3> QED BY <1>2, <3>3, <3>4 DEF Agrees
  <2> QED BY <2>1, <2>2
<1>5. unrecorded' \subseteq open' /\ \A p \in {current} \cap open' : Agrees(p)'
  BY <1>2, <1>4 DEF PagesKept
<1> QED BY <1>3, <1>5, OthersAgree

\* a paste that raises: the page is neither recorded nor, if it counts as saved, what its
\* file holds
LEMMA PasteAgrees ==
  ASSUME PagesKept, Inv', NEW g \in Graphs, PasteRaises(g), current \in open
  PROVE  PagesKept'
PROOF
<1>1. /\ current \in Pages /\ graph \in [Pages -> Graphs] /\ open \subseteq Pages
  BY DEF PagesKept, Inv, TypeOK
<1>2. /\ file' = file /\ saved' = saved /\ cache' = cache /\ disk' = disk
      /\ open' = open /\ current' = current /\ calls' = calls
      /\ \A p \in Pages \ {current} : graph'[p] = graph[p]
      /\ unrecorded' = unrecorded \cup {current} /\ astray' = astray \cup {current}
  BY <1>1 DEF PasteRaises, notebook, written
<1>3. ASSUME NEW p \in open' \ {current} PROVE p \in open /\ Spares(p)
  BY <1>1, <1>2, <1>3 DEF Spares
<1>4. unrecorded' \subseteq open' /\ \A p \in {current} \cap open' : Agrees(p)'
  BY <1>2 DEF PagesKept, Agrees
<1> QED BY <1>3, <1>4, OthersAgree

\* saving: what is written is what the page shows; a page whose file another one
\* writes goes astray
LEMMA SavesAgree ==
  ASSUME PagesKept, Inv',
         \/ \E f \in Files : SaveAsFile(f)
         \/ \E ok \in BOOLEAN : SaveToFile(ok)
  PROVE  PagesKept'
PROOF
<1>1. /\ current \in Pages /\ open \subseteq Pages /\ file \in [Pages -> Files \cup {NoFile}]
      /\ saved \in [Pages -> BOOLEAN] /\ disk \in [Files -> Graphs \cup {Damaged}]
  BY DEF PagesKept, Inv, TypeOK
<1>2. /\ graph' = graph /\ cache' = cache /\ unrecorded' = unrecorded
      /\ open' = open /\ current' = current /\ ~At("props")
  BY DEF SaveAsFile, SaveToFile, notebook, At
<1>3. unrecorded' \subseteq open'
  BY <1>2 DEF PagesKept
<1>4. current \in open => (current \notin unrecorded' => Recorded(current)')
  BY <1>2 DEF PagesKept, Agrees, Recorded
<1>5. ASSUME NEW f \in Files, SaveAsFile(f) PROVE PagesKept'
  <2>1. /\ saved' = saved /\ disk' = disk /\ astray' = astray \cup {current}
        /\ \A p \in Pages \ {current} : file'[p] = file[p]
    BY <1>1, <1>5 DEF SaveAsFile, written
  <2>2. ASSUME NEW p \in open' \ {current} PROVE p \in open /\ Spares(p)
    BY <1>1, <1>2, <2>1, <2>2 DEF Spares
  <2>3. \A p \in {current} \cap open' : Agrees(p)'
    BY <1>2, <1>4, <2>1 DEF Agrees
  <2> QED BY <1>3, <2>2, <2>3, OthersAgree
<1>6. ASSUME NEW ok \in BOOLEAN, SaveToFile(ok) PROVE PagesKept'
  <2> DEFINE f == file[current]
  <2>1. /\ f \in Files /\ file' = file
        /\ saved' = [saved EXCEPT ![current] = ok]
        /\ ok => disk' = [disk EXCEPT ![f] = graph[current]]
        /\ disk' = disk \/ \E d \in Graphs \cup {Damaged} : disk' = [disk EXCEPT ![f] = d]
        /\ astray' = (IF ok THEN astray \ {current} ELSE astray)
                        \cup {p \in open \ {current} : file[p] = f /\ disk' # disk}
    <3>1. graph[current] \in Graphs \cup {Damaged}
      BY DEF PagesKept, Inv, TypeOK
    <3> QED BY <1>6, <3>1 DEF SaveToFile
  <2> HIDE DEF f
  <2>2. ASSUME NEW p \in open' \ {current} PROVE p \in open /\ Spares(p)
    <3>1. p \in open /\ p \in Pages /\ p # current
      BY <1>1, <1>2, <2>2
    <3>2. p \notin astray' => p \notin astray /\ (file[p] # f \/ disk' = disk)
      BY <2>1, <3>1
    <3>3. HasFile(p) /\ file[p] # f => disk'[file[p]] = disk[file[p]]
      BY <1>1, <2>1, <3>1 DEF HasFile
    <3>4. saved'[p] = saved[p]
      BY <1>1, <2>1, <3>1
    <3> QED BY <1>2, <2>1, <3>1, <3>2, <3>3, <3>4 DEF Spares
  <2>3. ASSUME current \in open PROVE Kept(current)'
    <3>1. saved'[current] = ok /\ file'[current] = f
      BY <1>1, <2>1 DEF f
    <3>2. CASE ok
      <4>1. disk'[f] = graph'[current]
        BY <1>1, <1>2, <2>1, <3>2
      <4>2. current \notin unrecorded =>
              graph'[current] \in Shown(CurrentState(cache'[current]))
        BY <1>2, <2>3 DEF PagesKept, Agrees, Recorded
      <4> QED BY <1>2, <3>1, <4>1, <4>2 DEF Kept
    <3>3. CASE ~ok
      BY <1>2, <3>1, <3>3 DEF Kept
    <3> QED BY <3>2, <3>3
  <2>4. \A p \in {current} \cap open' : Agrees(p)'
    BY <1>2, <1>4, <2>3 DEF Agrees
  <2> QED BY <1>3, <2>2, <2>4, OthersAgree
<1> QED BY <1>5, <1>6

\* a page that was made: what its undo list begins with is imported, and it has no
\* file or the one that was read
LEMMA MadeAgrees ==
  ASSUME PagesKept, Inv', NEW p \in Unused, NEW f, NEW n \in Graphs, MakePage(p, f, n),
         f = NoFile \/ disk[f] = n, open' = open \cup {p},
         UNCHANGED <<disk, astray, unrecorded>>, ~At("props")
  PROVE  PagesKept'
PROOF
<1>1. /\ p \in Pages /\ p \notin open /\ open \subseteq Pages /\ p \notin unrecorded
      /\ file \in [Pages -> Files \cup {NoFile}] /\ saved \in [Pages -> BOOLEAN]
      /\ graph \in [Pages -> Graphs] /\ cache \in [Pages -> CacheType]
  BY DEF PagesKept, Inv, TypeOK, Unused
<1>2. ASSUME NEW q \in open' \ {p} PROVE q \in open /\ Spares(q)
  BY <1>1, <1>2 DEF Spares, MakePage
<1>3. /\ file'[p] = f /\ graph'[p] = Imported[BlankGraph][n]
      /\ CurrentState(cache'[p]) = n
  BY <1>1, NewBegins DEF MakePage
<1>4. graph'[p] \in Shown(n) /\ n \in Shown(n)
  BY <1>3, ShownFacts
<1>5. Recorded(p)' /\ Kept(p)'
  BY <1>1, <1>3, <1>4 DEF Recorded, Kept, HasFile
<1>6. unrecorded' \subseteq open' /\ \A q \in {p} \cap open' : Agrees(q)'
  BY <1>5 DEF Agrees, PagesKept
<1> QED BY <1>2, <1>6, OthersAgree

LEMMA PagesMadeAgree ==
  ASSUME PagesKept, Inv',
         \/ NewPage \/ \E f \in Files : OpenFile(f)
         \/ \E recorded \in BOOLEAN, last, g \in Graphs : CreateHier(recorded, last, g)
  PROVE  PagesKept'
PROOF
<1> USE DEF written, history
<1>1. CASE NewPage
  <2>1. PICK p \in Unused : MakePage(p, NoFile, BlankGraph) /\ open' = open \cup {p}
    BY <1>1 DEF NewPage
  <2>2. UNCHANGED <<disk, astray, unrecorded>> /\ ~At("props")
    BY <1>1 DEF NewPage, At
  <2> QED BY <2>1, <2>2, MadeAgrees
<1>2. ASSUME NEW f \in Files, OpenFile(f) PROVE PagesKept'
  <2>1. UNCHANGED <<disk, astray, unrecorded>> /\ ~At("props")
    BY <1>2 DEF OpenFile, At
  <2>2. CASE UNCHANGED <<documents, open>>
    <3>1. ASSUME NEW p \in open' \ {} PROVE p \in open /\ Spares(p)
      BY <2>1, <2>2 DEF Spares, documents
    <3>2. unrecorded' \subseteq open' /\ \A p \in {} \cap open' : Agrees(p)'
      BY <2>1, <2>2 DEF PagesKept
    <3> QED BY <3>1, <3>2, OthersAgree
  <2>3. CASE ~UNCHANGED <<documents, open>>
    <3>1. disk[f] # Damaged
      BY <1>2, <2>3 DEF OpenFile, notebook
    <3>2. disk[f] \in Graphs
      BY <3>1 DEF PagesKept, Inv, TypeOK
    <3>3. PICK p \in Unused : MakePage(p, f, disk[f]) /\ open' = open \cup {p}
      BY <1>2, <2>3 DEF OpenFile, notebook
    <3> QED BY <2>1, <3>2, <3>3, MadeAgrees
  <2> QED BY <2>2, <2>3
<1>3. ASSUME NEW recorded \in BOOLEAN, NEW last \in Graphs, NEW g \in Graphs,
             CreateHier(recorded, last, g)
      PROVE  PagesKept'
  <2>1. PICK p \in Unused :
          /\ file' = [file EXCEPT ![p] = NoFile]
          /\ \A q \in Pages \ {p} : /\ saved'[q] = saved[q] /\ cache'[q] = cache[q]
                                   /\ graph'[q] = graph[q]
          /\ open' = open \cup {p} /\ unrecorded' = unrecorded \cup {p}
    <3>1. /\ saved \in [Pages -> BOOLEAN] /\ cache \in [Pages -> CacheType]
          /\ graph \in [Pages -> Graphs]
      BY DEF PagesKept, Inv, TypeOK
    <3> QED BY <1>3, <3>1 DEF CreateHier
  <2>2. disk' = disk /\ astray' = astray /\ ~At("props")
    BY <1>3 DEF CreateHier, At
  <2>3. /\ p \in Pages /\ p \notin open /\ open \subseteq Pages
        /\ file \in [Pages -> Files \cup {NoFile}]
    BY DEF PagesKept, Inv, TypeOK, Unused
  <2>4. ASSUME NEW q \in open' \ {p} PROVE q \in open /\ Spares(q)
    BY <2>1, <2>2, <2>3, <2>4 DEF Spares
  <2>5. Kept(p)'
    BY <2>1, <2>3 DEF Kept, HasFile
  <2>6. unrecorded' \subseteq open' /\ \A q \in {p} \cap open' : Agrees(q)'
    BY <2>1, <2>5 DEF Agrees, PagesKept
  <2> QED BY <2>4, <2>6, OthersAgree
<1> QED BY <1>1, <1>2, <1>3

\* a page that is removed is left blank, as is the one made in its place
LEMMA RemoveAgrees ==
  ASSUME PagesKept, Inv', Remove
  PROVE  PagesKept'
PROOF
<1>1. /\ open \subseteq Pages /\ unrecorded \subseteq open
      /\ file \in [Pages -> Files \cup {NoFile}] /\ saved \in [Pages -> BOOLEAN]
      /\ graph \in [Pages -> Graphs] /\ cache \in [Pages -> CacheType]
  BY DEF PagesKept, Inv, TypeOK
<1>2. /\ astray' = astray \ {closing} /\ unrecorded' = unrecorded \ {closing}
      /\ disk' = disk /\ ~At("props")
  BY DEF Remove, written, At
<1>3. PICK S \in SUBSET (Pages \cup {NoPage}) :
        /\ BlankPages(S) /\ closing \in S
        /\ open' \subseteq (open \ {closing}) \cup S /\ open \ {closing} \subseteq open'
        /\ open' \subseteq Pages
  <2>1. closing \in Pages \cup {NoPage}
    BY DEF PagesKept, Inv, TypeOK
  <2>2. CASE open \ {closing} = {} /\ \E p \in Unused : open' = {p} /\ BlankPages({closing, p})
    <3>1. PICK p \in Unused : open' = {p} /\ BlankPages({closing, p})
      BY <2>2
    <3>2. p \in Pages
      BY DEF Unused
    <3> QED BY <2>1, <2>2, <3>1, <3>2
  <2>3. CASE open' = open \ {closing} /\ BlankPages({closing})
    BY <1>1, <2>1, <2>3
  <2> QED BY <2>2, <2>3 DEF Remove
<1>4. ASSUME NEW q \in open' \ S PROVE q \in open /\ Spares(q)
  <2>1. q \in open /\ q \in Pages /\ q \notin S /\ q # closing
    BY <1>1, <1>3, <1>4
  <2>2. saved'[q] = saved[q]
    <3>1. saved[q] \in BOOLEAN /\ saved'[q] = (q \in S \/ saved[q])
      BY <1>1, <1>3, <2>1 DEF BlankPages
    <3> QED BY <2>1, <3>1
  <2>3. file'[q] = file[q] /\ cache'[q] = cache[q] /\ graph'[q] = graph[q]
    BY <1>3, <2>1 DEF BlankPages
  <2> QED BY <1>2, <2>1, <2>2, <2>3 DEF Spares
<1>5. ASSUME NEW q \in S \cap open' PROVE Agrees(q)'
  <2>1. /\ q \in Pages /\ file'[q] = NoFile /\ graph'[q] = Imported[BlankGraph][BlankGraph]
        /\ cache'[q] = NewCache(BlankGraph)
    BY <1>3, <1>5 DEF BlankPages
  <2>2. graph'[q] \in Shown(CurrentState(cache'[q]))
    BY <2>1, NewBegins, ShownFacts
  <2> QED BY <2>1, <2>2 DEF Agrees, Recorded, Kept, HasFile
<1>6. unrecorded' \subseteq open'
  BY <1>1, <1>2, <1>3
<1> QED BY <1>4, <1>5, <1>6, OthersAgree

LEMMA PagesAgreeAtFirst == Init => PagesKept
PROOF
<1> SUFFICES ASSUME Init PROVE PagesKept
  OBVIOUS
<1>1. Inv /\ current \in Pages
  BY InitKeeps DEF Inv, TypeOK
<1>2. /\ graph[current] = Imported[BlankGraph][BlankGraph] /\ cache[current] = NewCache(BlankGraph)
      /\ file[current] = NoFile /\ open = {current} /\ unrecorded = {}
  BY <1>1 DEF Init
<1>3. graph[current] \in Shown(CurrentState(cache[current]))
  BY <1>2, NewBegins, ShownFacts
<1> QED BY <1>1, <1>2, <1>3 DEF PagesKept, Agrees, Recorded, Kept, HasFile

LEMMA PagesStayKept == PagesKept /\ Stoppable /\ [Next]_vars => PagesKept'
PROOF
<1> SUFFICES ASSUME PagesKept, Stoppable, [Next]_vars PROVE PagesKept'
  OBVIOUS
<1>0. Inv'
  BY NextKeeps DEF PagesKept
<1>1. CASE QuietActions
  BY <1>0, <1>1, QuietKeeps
<1>2. CASE EditActions
  BY <1>0, <1>2, EditsAgree
<1>3. CASE PropsCancel \/ \E g \in Graphs : PropsChange(g)
  BY <1>0, <1>3, PropsAgree
<1>4. CASE (\E f \in Files : SaveAsFile(f)) \/ \E ok \in BOOLEAN : SaveToFile(ok)
  BY <1>0, <1>4, SavesAgree
<1>5. CASE \/ NewPage \/ \E f \in Files : OpenFile(f)
           \/ \E recorded \in BOOLEAN, last, g \in Graphs : CreateHier(recorded, last, g)
  BY <1>0, <1>5, PagesMadeAgree
<1>6. CASE Remove
  BY <1>0, <1>6, RemoveAgrees
<1>7. CASE UNCHANGED vars
  <2>1. ASSUME NEW p \in open' \ {} PROVE p \in open /\ Spares(p)
    BY <1>7 DEF Spares, vars, notebook, documents, written, history
  <2>2. unrecorded' \subseteq open' /\ \A p \in {} \cap open' : Agrees(p)'
    BY <1>7 DEF PagesKept, vars, notebook, history
  <2> QED BY <1>0, <2>1, <2>2, OthersAgree
<1>8. UserStarts => QuietActions \/ EditActions \/ \E g \in Graphs : PasteRaises(g)
  BY DEF UserStarts, QuietActions, EditActions, ControlActions
<1>9. ASSUME NEW g \in Graphs, PasteRaises(g) PROVE PagesKept'
  <2>1. current \in open
    BY <1>9, IdleFacts DEF PasteRaises, Stoppable
  <2> QED BY <1>0, <1>9, <2>1, PasteAgrees
<1>10. UserAnswers =>
        \/ QuietActions \/ EditActions \/ PropsCancel \/ (\E g \in Graphs : PropsChange(g))
        \/ (\E f \in Files : SaveAsFile(f)) \/ \E f \in Files : OpenFile(f)
  BY DEF UserAnswers, QuietActions, EditActions, ControlActions
<1>11. MainThread =>
         \/ QuietActions \/ EditActions \/ (\E ok \in BOOLEAN : SaveToFile(ok))
         \/ NewPage \/ (\E recorded \in BOOLEAN, last, g \in Graphs : CreateHier(recorded, last, g)) \/ Remove
  BY DEF MainThread, QuietActions, EditActions, ControlActions
<1>12. Others => QuietActions
  BY DEF Others, QuietActions, ThreadActions
<1> QED
  BY <1>1, <1>2, <1>3, <1>4, <1>5, <1>6, <1>7, <1>8, <1>9, <1>10, <1>11, <1>12 DEF Next

\* For any number of pages, files and flow graphs, whatever import_data makes of a
\* recorded one: a page that counts as saved and its file show the same flow graph, and
\* what the undo list calls the current state is what the page shows, through edits,
\* undo, dialogs that are cancelled, pastes that raise, writes that fail and pages that
\* are closed and made again (ActionHandler.py, NotebookPage.py), with the exceptions
\* that SavedIsOnDisk and CurrentIsRecorded name.
THEOREM PagesTheorem == Spec => []PagesAgree
PROOF
<1>1. PagesKept => PagesAgree
  <2> SUFFICES ASSUME PagesKept PROVE SavedIsOnDisk /\ CurrentIsRecorded
    BY DEF PagesAgree
  <2>1. CurrentIsRecorded
    BY DEF PagesKept, Agrees, Recorded, CurrentIsRecorded
  <2>2. ASSUME Idle, NEW p \in open \ astray, saved[p], HasFile(p)
        PROVE  \E n \in Graphs : {graph[p], disk[file[p]]} \subseteq Shown(n)
    <3>1. p \in Pages /\ graph[p] \in Graphs /\ CurrentState(cache[p]) \in Graphs
      BY DEF PagesKept, Inv, TypeOK, SoundCaches, Sound, Written
    <3>2. Kept(p) /\ (p \notin unrecorded => Recorded(p)) /\ ~At("props")
      BY <2>2 DEF PagesKept, Agrees, Idle, At
    <3>3. CASE p \in unrecorded
      BY <2>2, <3>1, <3>2, <3>3, ShownFacts DEF Kept
    <3>4. CASE p \notin unrecorded
      BY <2>2, <3>1, <3>2, <3>4 DEF Kept, Recorded
    <3> QED BY <3>3, <3>4
  <2> QED BY <2>1, <2>2 DEF SavedIsOnDisk
<1> QED BY <1>1, StoppableAtFirst, StaysStoppable, PagesAgreeAtFirst, PagesStayKept, PTL
        DEF Spec
=============================================================================
