---------------------------- MODULE BufferProofs ----------------------------
(***************************************************************************)
(* What holds of a gr::buffer of every size, with any number of readers    *)
(* that come and go.  Four layers, each using the ones before it: the      *)
(* types, the two ways of counting, the contents of the slots, the tags.   *)
(* Then that the buffer implements StreamFifo.                             *)
(***************************************************************************)
EXTENDS Buffer, SequenceTheorems, TLAPS

-----------------------------------------------------------------------------
(* Index arithmetic: adding and subtracting modulo the buffer size, for    *)
(* operands in [0, d_bufsize).                                             *)

LEMMA IndexRange ==
  ASSUME NEW a \in Slots, NEW b \in Slots
  PROVE  /\ IndexAdd(a, b) \in Slots
         /\ IndexSub(a, b) \in Slots
BY BufSizeAssumption DEF Slots, IndexAdd, IndexSub

(* Moving the far end n on lengthens the distance by n.                    *)
LEMMA Advance ==
  ASSUME NEW w \in Slots, NEW r \in Slots, NEW n \in Nat,
         n <= BufSize - IndexSub(w, r) - 1
  PROVE  IndexSub(IndexAdd(w, n), r) = IndexSub(w, r) + n
BY BufSizeAssumption DEF Slots, IndexAdd, IndexSub

(* Moving the near end n on shortens it by n.                              *)
LEMMA Retire ==
  ASSUME NEW w \in Slots, NEW r \in Slots, NEW n \in Nat,
         n <= IndexSub(w, r)
  PROVE  IndexSub(w, IndexAdd(r, n)) = IndexSub(w, r) - n
BY BufSizeAssumption DEF Slots, IndexAdd, IndexSub

(* Going k back puts the index k behind.                                   *)
LEMMA GoBack ==
  ASSUME NEW w \in Slots, NEW k \in Slots
  PROVE  IndexSub(w, IndexSub(w, k)) = k
BY BufSizeAssumption DEF Slots, IndexSub

LEMMA AddTwice ==
  ASSUME NEW r \in Slots, NEW n \in Nat, NEW j \in Nat, n + j < BufSize
  PROVE  IndexAdd(IndexAdd(r, n), j) = IndexAdd(r, n + j)
BY BufSizeAssumption DEF Slots, IndexAdd

(* A slot in a reader's window is not among the free ones after w, and a   *)
(* slot past its window is the corresponding one after w.                  *)
LEMMA InWindow ==
  ASSUME NEW w \in Slots, NEW r \in Slots, NEW j \in Nat, j < IndexSub(w, r)
  PROVE  IndexSub(IndexAdd(r, j), w) = BufSize - IndexSub(w, r) + j
BY BufSizeAssumption DEF Slots, IndexAdd, IndexSub

LEMMA PastWindow ==
  ASSUME NEW w \in Slots, NEW r \in Slots, NEW j \in Nat,
         j >= IndexSub(w, r), j < BufSize
  PROVE  IndexAdd(r, j) = IndexAdd(w, j - IndexSub(w, r))
BY BufSizeAssumption DEF Slots, IndexAdd, IndexSub

LEMMA FreeSlot ==
  ASSUME NEW w \in Slots, NEW i \in Slots
  PROVE  /\ IndexSub(IndexAdd(w, i), w) = i
         /\ IndexAdd(w, IndexSub(i, w)) = i
BY BufSizeAssumption DEF Slots, IndexAdd, IndexSub

-----------------------------------------------------------------------------
(* Types.  In particular both indices stay in [0, d_bufsize): the          *)
(* assertions of index_add and index_sub (buffer.h) never fail.            *)
THEOREM BufferTyping == Spec => []TypeOK
<1>1. Init => TypeOK
  BY BufSizeAssumption, PreloadAssumption DEF Init, TypeOK, Slots, Tags
<1>2. TypeOK /\ [Next]_vars => TypeOK'
  <2> SUFFICES ASSUME TypeOK, [Next]_vars PROVE TypeOK'
    OBVIOUS
  <2> USE BufSizeAssumption, PreloadAssumption, BoundsAssumption
  <2>1. ASSUME NEW r \in Readers, NEW n \in 0..MaxPreload, AddReader(r, n)
        PROVE  TypeOK'
    <3>0. n \in Slots
      BY DEF Slots
    <3>1. IndexSub(d_write_index, n) \in Slots
      BY <3>0, IndexRange DEF TypeOK
    <3>2. d_read_index' \in [Readers -> Slots]
      BY <2>1, <3>1 DEF AddReader, TypeOK
    <3>3. attach' \in [Readers -> [at : Nat, preload : 0..MaxPreload, clean : BOOLEAN]]
      BY <2>1 DEF AddReader, TypeOK
    <3> QED
      BY <2>1, <3>2, <3>3
      DEF AddReader, TypeOK, indexVars, writerPc, readerPc, Tags
  <2>2. ASSUME NEW r \in Readers, DropReader(r) PROVE TypeOK'
    BY <2>2 DEF DropReader, TypeOK, indexVars, tagVars, writerPc, readerPc, Tags
  <2>3. CASE MinAvailableSpace
    <3>1. d_item_tags' \subseteq Tags /\ d_last_min_items_read' \in Nat
      BY <2>3 DEF MinAvailableSpace, NoteMinItemsRead, PruneTags, TypeOK
    <3>2. granted' \in 0..(BufSize - 1) /\ writer' \in {"idle", "granted", "written"}
      BY <2>3 DEF MinAvailableSpace, SpaceFor, TypeOK
    <3> QED
      BY <2>3, <3>1, <3>2
      DEF MinAvailableSpace, TypeOK, indexVars, readerVars, readerPc, Tags
  <2>4. CASE WriteItems
    <3>1. \A i \in Slots : IndexSub(i, d_write_index) \in Slots
      BY IndexRange DEF TypeOK
    <3>2. \A i \in Slots :
            d_abs_write_offset + IndexSub(i, d_write_index) + 1 \in Nat
      <4>1. d_abs_write_offset \in Nat
        BY DEF TypeOK
      <4>2. TAKE i \in Slots
      <4>3. IndexSub(i, d_write_index) \in Nat
        BY <3>1, <4>2 DEF Slots
      <4> QED
        BY <4>1, <4>3
    <3>3. base' \in [Slots -> Nat]
      BY <2>4, <3>2 DEF WriteItems, TypeOK
    <3> QED
      BY <2>4, <3>3
      DEF WriteItems, TypeOK, indexVars, readerVars, tagVars, readerPc, Tags
  <2>5. ASSUME NEW o \in TagOffsets, AddItemTag(o) PROVE TypeOK'
    BY <2>5
    DEF AddItemTag, TypeOK, indexVars, readerVars, writerPc, readerPc, Tags
  <2>6. ASSUME NEW n \in 1..BufSize, Produce(n) PROVE TypeOK'
    <3>1. n \in Slots
      BY <2>6 DEF Produce, TypeOK, Slots
    <3>2. d_write_index' \in Slots
      BY <2>6, <3>1, IndexRange DEF Produce, UpdateWritePointer, TypeOK
    <3> QED
      BY <2>6, <3>2
      DEF Produce, UpdateWritePointer, TypeOK, readerVars, tagVars, readerPc, Tags
  <2>7. ASSUME NEW n \in 0..BufSize, ProduceEach(n) PROVE TypeOK'
    <3>1. n \in Slots
      BY <2>7 DEF ProduceEach, TypeOK, Slots
    <3>2. d_write_index' \in Slots
      BY <2>7, <3>1, IndexRange DEF ProduceEach, UpdateWritePointer, TypeOK
    <3> QED
      BY <2>7, <3>2
      DEF ProduceEach, UpdateWritePointer, TypeOK, readerVars, tagVars, readerPc, Tags
  <2>8. ASSUME NEW r \in Readers, SampleInput(r) PROVE TypeOK'
    <3>1. ItemsAvailable(r) \in 0..(BufSize - 1)
      BY IndexRange DEF ItemsAvailable, TypeOK, Slots
    <3> QED
      BY <2>8, <3>1
      DEF SampleInput, TypeOK, indexVars, readerVars, tagVars, writerPc, Tags
  <2>9. ASSUME NEW r \in Readers, NEW n \in 1..BufSize, Consume(r, n)
        PROVE  TypeOK'
    <3>0. attach[r].preload \in Nat /\ ninput_items[r] \in 0..(BufSize - 1)
      BY DEF TypeOK
    <3>1. n \in Slots /\ ninput_items[r] - n \in 0..(BufSize - 1)
      BY <2>9, <3>0 DEF Consume, Slots
    <3>2. IndexAdd(d_read_index[r], n) \in Slots
      BY <3>1, IndexRange DEF TypeOK
    <3> QED
      BY <2>9, <3>1, <3>2
      DEF Consume, TypeOK, indexVars, tagVars, writerPc, Tags
  <2>10. ASSUME NEW r \in Readers, NEW t \in d_item_tags, RemoveItemTag(r, t)
         PROVE  TypeOK'
    <3>1. t \in Tags
      BY DEF TypeOK
    <3>2. [t EXCEPT !.marked_deleted = @ \cup {r}] \in Tags /\ t.offset \in Nat
      BY <3>1 DEF Tags
    <3> QED
      BY <2>10, <3>2
      DEF RemoveItemTag, TypeOK, indexVars, readerVars, writerPc, readerPc
  <2>11. ASSUME NEW r \in Readers, PropagateTags(r) PROVE TypeOK'
    <3>1. \A t \in d_item_tags : t.offset \in Nat
      BY DEF TypeOK, Tags
    <3>2. got' \in [Readers -> SUBSET Nat]
      BY <2>11, <3>1 DEF PropagateTags, TagsInRange, TypeOK
    <3> QED
      BY <2>11, <3>2
      DEF PropagateTags, TypeOK, indexVars, readerVars, writerPc, Tags
  <2>12. CASE UNCHANGED vars
    BY <2>12
    DEF vars, TypeOK, indexVars, readerVars, tagVars, writerPc, readerPc, Tags
  <2> QED
    BY <2>1, <2>2, <2>3, <2>4, <2>5, <2>6, <2>7, <2>8, <2>9, <2>10, <2>11, <2>12
    DEF Next, WriterNext, ReaderNext, ConfigureNext
<1> QED
  BY <1>1, <1>2, PTL DEF Spec

-----------------------------------------------------------------------------
(***************************************************************************)
(* The two ways of counting.  CountsAgree and GrantsStayValid are not      *)
(* inductive alone: a new reader is covered because an idle writer holds   *)
(* no grant, an idle reader no sample, a reader consumes only while        *)
(* attached, and what it may not consume (its preload) always lies behind  *)
(* the write index.                                                        *)
(***************************************************************************)
CountInv ==
  /\ CountsAgree
  /\ GrantsStayValid
  /\ writer = "idle" => granted = 0
  /\ \A r \in d_readers : attach[r].preload <= ItemsAvailable(r)
  /\ \A r \in Readers : /\ reader[r] = "working" => r \in d_readers
                        /\ reader[r] = "idle" => ninput_items[r] = 0

(* Steps that move no index and grant nothing keep CountInv.               *)
LEMMA CountFrame ==
  ASSUME CountInv,
         UNCHANGED <<d_write_index, d_abs_write_offset, d_readers, d_read_index,
                     d_abs_read_offset, attach, granted, ninput_items, reader>>,
         writer' = "idle" => writer = "idle"
  PROVE  CountInv'
BY DEF CountInv, CountsAgree, GrantsStayValid, SpaceFor, ItemsAvailable,
       IndexSub, Backlog, Position

(* Publishing n items of a grant.                                          *)
LEMMA CountPublish ==
  ASSUME TypeOK, CountInv,
         NEW n \in Nat, n <= granted, UpdateWritePointer(n),
         granted' \in 0..(granted - n),
         writer' = "idle" => granted' = 0,
         UNCHANGED <<d_readers, d_read_index, d_abs_read_offset, attach, reader,
                     ninput_items>>
  PROVE  CountInv'
<1> USE BufSizeAssumption
<1>1. /\ granted \in 0..(BufSize - 1) /\ d_write_index \in Slots
      /\ d_readers \subseteq Readers /\ d_abs_write_offset \in Nat
      /\ \A r \in Readers : /\ d_read_index[r] \in Slots
                            /\ ninput_items[r] \in Nat
                            /\ d_abs_read_offset[r] \in Nat
                            /\ attach[r].at \in Nat /\ attach[r].preload \in Nat
  BY DEF TypeOK
<1>2. ASSUME NEW r \in d_readers
      PROVE  /\ ItemsAvailable(r)' = ItemsAvailable(r) + n
             /\ ItemsAvailable(r) \in Nat
             /\ n + ItemsAvailable(r) + granted' <= BufSize - 1
  <2>1. granted <= BufSize - ItemsAvailable(r) - 1
    BY <1>2 DEF CountInv, GrantsStayValid, SpaceFor
  <2>2. d_read_index[r] \in Slots /\ ItemsAvailable(r) \in Slots
    BY <1>1, <1>2, IndexRange DEF ItemsAvailable
  <2>3. n <= BufSize - IndexSub(d_write_index, d_read_index[r]) - 1
    BY <1>1, <2>1, <2>2 DEF ItemsAvailable, Slots
  <2>4. ItemsAvailable(r)' = ItemsAvailable(r) + n
    BY <1>1, <2>2, <2>3, Advance DEF UpdateWritePointer, ItemsAvailable
  <2> QED
    BY <1>1, <2>1, <2>2, <2>4 DEF Slots
<1>3. CountsAgree'
  BY <1>1, <1>2 DEF CountInv, CountsAgree, Backlog, Position, UpdateWritePointer
<1>4. GrantsStayValid'
  <2>1. granted' <= BufSize - 1
    BY <1>1
  <2>2. ASSUME NEW r \in d_readers
        PROVE  /\ granted' <= BufSize - ItemsAvailable(r)' - 1
               /\ ninput_items[r] <= ItemsAvailable(r)'
    <3>1. ninput_items[r] <= ItemsAvailable(r)
      BY <2>2 DEF CountInv, GrantsStayValid
    <3> QED
      BY <1>1, <1>2, <2>2, <3>1
  <2> QED
    BY <2>1, <2>2 DEF GrantsStayValid, SpaceFor
<1> QED
  BY <1>1, <1>2, <1>3, <1>4 DEF CountInv

LEMMA BufferCountInv == Spec => []CountInv
<1>1. Init => CountInv
  BY BufSizeAssumption
  DEF Init, CountInv, CountsAgree, GrantsStayValid, SpaceFor
<1>2. TypeOK /\ CountInv /\ [Next]_vars => CountInv'
  <2> SUFFICES ASSUME TypeOK, CountInv, [Next]_vars PROVE CountInv'
    OBVIOUS
  <2> USE BufSizeAssumption, PreloadAssumption, BoundsAssumption
  <2>0. /\ granted \in 0..(BufSize - 1) /\ d_write_index \in Slots
        /\ d_readers \subseteq Readers /\ d_abs_write_offset \in Nat
        /\ \A r \in Readers : /\ d_read_index[r] \in Slots
                              /\ ninput_items[r] \in Nat
                              /\ d_abs_read_offset[r] \in Nat
                              /\ attach[r].at \in Nat /\ attach[r].preload \in Nat
                              /\ ItemsAvailable(r) \in Slots
    BY IndexRange DEF TypeOK, ItemsAvailable
  <2>1. ASSUME NEW r \in Readers, NEW n \in 0..MaxPreload, AddReader(r, n)
        PROVE  CountInv'
    <3>1. /\ writer = "idle" /\ granted = 0 /\ granted' = granted /\ writer' = writer
          /\ d_readers' = d_readers \cup {r}
          /\ ninput_items' = ninput_items /\ reader' = reader
          /\ d_write_index' = d_write_index
          /\ d_abs_write_offset' = d_abs_write_offset
      BY <2>1 DEF AddReader, Configuring, CountInv, writerPc, readerPc, indexVars
    <3>2. n \in Slots
      BY DEF Slots
    <3>3. /\ ItemsAvailable(r)' = n
          /\ attach'[r].preload = n /\ attach'[r].at = d_abs_write_offset
          /\ d_abs_read_offset'[r] = 0
      <4>1. d_read_index'[r] = IndexSub(d_write_index, n)
        BY <2>1 DEF AddReader, TypeOK
      <4> QED
        BY <2>0, <2>1, <3>1, <3>2, <4>1, GoBack
        DEF AddReader, ItemsAvailable, TypeOK
    <3>4. ASSUME NEW q \in d_readers
          PROVE  /\ ItemsAvailable(q)' = ItemsAvailable(q)
                 /\ attach'[q] = attach[q]
                 /\ d_abs_read_offset'[q] = d_abs_read_offset[q]
      BY <2>0, <2>1, <3>1, <3>4 DEF AddReader, ItemsAvailable, TypeOK
    <3>5. reader[r] = "idle"
      <4>1. reader[r] \in {"idle", "working"}
        BY DEF TypeOK
      <4> QED
        BY <2>1, <4>1 DEF AddReader, CountInv
    <3>6. ninput_items[r] <= n
      BY <3>2, <3>5 DEF CountInv, Slots
    <3> QED
      BY <2>0, <3>1, <3>2, <3>3, <3>4, <3>5, <3>6
      DEF CountInv, CountsAgree, GrantsStayValid, SpaceFor, Backlog, Position, Slots
  <2>2. ASSUME NEW r \in Readers, DropReader(r) PROVE CountInv'
    <3>1. /\ d_readers' = d_readers \ {r} /\ reader[r] = "idle"
          /\ UNCHANGED <<d_write_index, d_abs_write_offset, d_read_index,
                         d_abs_read_offset, attach, granted, ninput_items,
                         writer, reader>>
      BY <2>2 DEF DropReader, Configuring, indexVars, writerPc, readerPc
    <3> QED
      BY <3>1 DEF CountInv, CountsAgree, GrantsStayValid, SpaceFor,
                  ItemsAvailable, IndexSub, Backlog, Position
  <2>3. CASE MinAvailableSpace
    <3>1. UNCHANGED <<d_write_index, d_abs_write_offset, d_readers, d_read_index,
                      d_abs_read_offset, attach, ninput_items, reader>>
      BY <2>3 DEF MinAvailableSpace, indexVars, readerVars, readerPc
    <3>2. \/ granted' = granted /\ writer' = writer
          \/ SpaceFor(granted') /\ writer' = "granted"
      BY <2>3 DEF MinAvailableSpace
    <3> QED
      BY <3>1, <3>2 DEF CountInv, CountsAgree, GrantsStayValid, SpaceFor,
                        ItemsAvailable, IndexSub, Backlog, Position
  <2>4. CASE WriteItems
    BY <2>4, CountFrame DEF WriteItems, indexVars, readerVars, readerPc
  <2>5. ASSUME NEW o \in TagOffsets, AddItemTag(o) PROVE CountInv'
    BY <2>5, CountFrame DEF AddItemTag, indexVars, readerVars, writerPc, readerPc
  <2>6. ASSUME NEW n \in 1..BufSize, Produce(n) PROVE CountInv'
    <3>1. n \in Nat /\ n <= granted /\ granted' \in 0..(granted - n)
          /\ writer' # "idle"
      BY <2>0, <2>6 DEF Produce
    <3> QED
      BY <2>6, <3>1, CountPublish DEF Produce, readerVars, readerPc
  <2>7. ASSUME NEW n \in 0..BufSize, ProduceEach(n) PROVE CountInv'
    <3>1. n \in Nat /\ n <= granted /\ granted' \in 0..(granted - n)
          /\ granted' = 0
      BY <2>0, <2>7 DEF ProduceEach
    <3> QED
      BY <2>7, <3>1, CountPublish DEF ProduceEach, readerVars, readerPc
  <2>8. ASSUME NEW r \in Readers, SampleInput(r) PROVE CountInv'
    <3>1. /\ UNCHANGED <<d_write_index, d_abs_write_offset, d_readers,
                         d_read_index, d_abs_read_offset, attach, granted, writer>>
          /\ r \in d_readers
          /\ ninput_items'[r] = ItemsAvailable(r) /\ reader'[r] = "working"
          /\ \A q \in Readers \ {r} : /\ ninput_items'[q] = ninput_items[q]
                                      /\ reader'[q] = reader[q]
      BY <2>8 DEF SampleInput, TypeOK, indexVars, readerVars, writerPc
    <3>2. \A q \in Readers : ItemsAvailable(q)' = ItemsAvailable(q)
      BY <3>1 DEF ItemsAvailable, IndexSub
    <3> QED
      BY <2>0, <3>1, <3>2 DEF CountInv, CountsAgree, GrantsStayValid, SpaceFor,
                              Backlog, Position, Slots
  <2>9. ASSUME NEW r \in Readers, NEW n \in 1..BufSize, Consume(r, n)
        PROVE  CountInv'
    <3>1. /\ UNCHANGED <<d_write_index, d_abs_write_offset, d_readers, attach,
                         granted, writer, reader>>
          /\ d_read_index'[r] = IndexAdd(d_read_index[r], n)
          /\ d_abs_read_offset'[r] = d_abs_read_offset[r] + n
          /\ ninput_items'[r] = ninput_items[r] - n
          /\ n <= ninput_items[r] - attach[r].preload
          /\ reader[r] = "working"
          /\ \A q \in Readers \ {r} : /\ ninput_items'[q] = ninput_items[q]
                                      /\ d_read_index'[q] = d_read_index[q]
                                      /\ d_abs_read_offset'[q] = d_abs_read_offset[q]
      BY <2>9 DEF Consume, TypeOK, indexVars, writerPc
    <3>2. /\ r \in d_readers /\ n \in Nat
          /\ ninput_items[r] <= ItemsAvailable(r)
      BY <3>1 DEF CountInv, GrantsStayValid
    <3>3. n <= IndexSub(d_write_index, d_read_index[r])
      BY <2>0, <3>1, <3>2 DEF ItemsAvailable, Slots
    <3>4. ItemsAvailable(r)' = ItemsAvailable(r) - n
      BY <2>0, <3>1, <3>2, <3>3, Retire DEF ItemsAvailable
    <3>5. \A q \in Readers \ {r} : ItemsAvailable(q)' = ItemsAvailable(q)
      BY <3>1 DEF ItemsAvailable
    <3>6. CountsAgree'
      BY <2>0, <3>1, <3>2, <3>4, <3>5
      DEF CountInv, CountsAgree, Backlog, Position, Slots
    <3>7. GrantsStayValid'
      BY <2>0, <3>1, <3>2, <3>4, <3>5
      DEF CountInv, GrantsStayValid, SpaceFor, Slots
    <3> QED
      BY <2>0, <3>1, <3>2, <3>4, <3>5, <3>6, <3>7 DEF CountInv, Slots
  <2>10. ASSUME NEW r \in Readers, NEW t \in d_item_tags, RemoveItemTag(r, t)
         PROVE  CountInv'
    BY <2>10, CountFrame
    DEF RemoveItemTag, indexVars, readerVars, writerPc, readerPc
  <2>11. ASSUME NEW r \in Readers, PropagateTags(r) PROVE CountInv'
    <3>1. /\ UNCHANGED <<d_write_index, d_abs_write_offset, d_readers,
                         d_read_index, d_abs_read_offset, attach, granted, writer>>
          /\ ninput_items'[r] = 0 /\ reader'[r] = "idle"
          /\ \A q \in Readers \ {r} : /\ ninput_items'[q] = ninput_items[q]
                                      /\ reader'[q] = reader[q]
      BY <2>11 DEF PropagateTags, TypeOK, indexVars, readerVars, writerPc
    <3>2. \A q \in Readers : ItemsAvailable(q)' = ItemsAvailable(q)
      BY <3>1 DEF ItemsAvailable, IndexSub
    <3> QED
      BY <2>0, <3>1, <3>2 DEF CountInv, CountsAgree, GrantsStayValid, SpaceFor,
                              Backlog, Position, Slots
  <2>12. CASE UNCHANGED vars
    BY <2>12, CountFrame DEF vars, indexVars, readerVars, writerPc, readerPc
  <2> QED
    BY <2>1, <2>2, <2>3, <2>4, <2>5, <2>6, <2>7, <2>8, <2>9, <2>10, <2>11, <2>12
    DEF Next, WriterNext, ReaderNext, ConfigureNext
<1> QED
  BY <1>1, <1>2, BufferTyping, PTL DEF Spec

(* Indices and absolute offsets tell the same story, and what a thread     *)
(* sampled under the mutex stays true while it acts without.               *)
THEOREM BufferCounts == Spec => []SamplesHold
BY BufferCountInv, PTL DEF CountInv, SamplesHold

-----------------------------------------------------------------------------
(***************************************************************************)
(* The contents of the slots.  Beside the readers' windows, the slots the  *)
(* writer has filled but not published hold the next items of the stream.  *)
(***************************************************************************)
SlotInv ==
  /\ WindowIntact
  /\ writer = "written" =>
       \A i \in 0..(granted - 1) :
         base[IndexAdd(d_write_index, i)] = d_abs_write_offset + i + 1

Facts ==
  /\ granted \in 0..(BufSize - 1) /\ d_write_index \in Slots
  /\ d_readers \subseteq Readers /\ d_abs_write_offset \in Nat
  /\ \A r \in Readers : /\ d_read_index[r] \in Slots
                        /\ d_abs_read_offset[r] \in Nat
                        /\ attach[r].at \in Nat /\ attach[r].preload \in Nat
                        /\ ItemsAvailable(r) \in Slots
  /\ \A r \in d_readers :
       /\ granted <= BufSize - ItemsAvailable(r) - 1
       /\ ninput_items[r] <= ItemsAvailable(r)
       /\ ItemsAvailable(r) = Backlog(r)
       /\ attach[r].preload <= ItemsAvailable(r)
  /\ \A r \in Readers : reader[r] = "working" => r \in d_readers

LEMMA FactsHold == TypeOK /\ CountInv => Facts
<1> SUFFICES ASSUME TypeOK, CountInv PROVE Facts
  OBVIOUS
<1>1. /\ granted \in 0..(BufSize - 1) /\ d_write_index \in Slots
      /\ d_readers \subseteq Readers /\ d_abs_write_offset \in Nat
      /\ \A r \in Readers : /\ d_read_index[r] \in Slots
                            /\ d_abs_read_offset[r] \in Nat
                            /\ attach[r].at \in Nat /\ attach[r].preload \in Nat
  BY DEF TypeOK
<1>2. \A r \in Readers : ItemsAvailable(r) \in Slots
  BY <1>1, IndexRange DEF ItemsAvailable
<1>3. \A r \in d_readers :
        /\ granted <= BufSize - ItemsAvailable(r) - 1
        /\ ninput_items[r] <= ItemsAvailable(r)
        /\ ItemsAvailable(r) = Backlog(r)
        /\ attach[r].preload <= ItemsAvailable(r)
  BY DEF CountInv, CountsAgree, GrantsStayValid, SpaceFor
<1>4. \A r \in Readers : reader[r] = "working" => r \in d_readers
  BY DEF CountInv
<1> QED
  BY <1>1, <1>2, <1>3, <1>4 DEF Facts

(* Steps that touch neither the slots nor an index keep SlotInv.           *)
LEMMA SlotFrame ==
  ASSUME SlotInv,
         UNCHANGED <<base, d_write_index, d_abs_write_offset, d_read_index,
                     d_abs_read_offset, attach>>,
         d_readers' \subseteq d_readers,
         \/ UNCHANGED <<writer, granted>>
         \/ writer' # "written"
  PROVE  SlotInv'
BY DEF SlotInv, WindowIntact, ItemsAvailable, IndexSub, ItemAt, Expected, Position

(* The unlocked stores of general_work stay out of every window.           *)
LEMMA StoresStayOutside ==
  ASSUME Facts, WriteItems,
         NEW r \in d_readers, NEW j \in 0..(ItemsAvailable(r) - 1)
  PROVE  ItemAt(r, j)' = ItemAt(r, j)
<1> USE BufSizeAssumption
<1>1. /\ UNCHANGED <<d_read_index>>
      /\ \A i \in Slots :
           base'[i] = LET k == IndexSub(i, d_write_index)
                      IN  IF k < granted THEN d_abs_write_offset + k + 1
                          ELSE base[i]
  BY DEF WriteItems, readerVars
<1>2. r \in Readers /\ j \in Slots /\ j \in Nat /\ j < ItemsAvailable(r)
  BY DEF Facts, Slots
<1>3. IndexSub(IndexAdd(d_read_index[r], j), d_write_index)
        = BufSize - ItemsAvailable(r) + j
  BY <1>2, InWindow DEF Facts, ItemsAvailable
<1>4. IndexAdd(d_read_index[r], j) \in Slots
  BY <1>2, IndexRange DEF Facts
<1>5. ~(BufSize - ItemsAvailable(r) + j < granted)
  BY <1>2 DEF Facts, Slots
<1> QED
  BY <1>1, <1>3, <1>4, <1>5 DEF ItemAt

(* Publishing n of the filled slots appends them to every window.          *)
LEMMA SlotPublish ==
  ASSUME Facts, SlotInv, writer = "written",
         NEW n \in Nat, n <= granted, UpdateWritePointer(n),
         NEW left \in Nat, granted' = left, left <= granted - n,
         UNCHANGED <<base, d_readers, d_read_index, d_abs_read_offset, attach>>
  PROVE  SlotInv'
<1> USE BufSizeAssumption DEF Facts
<1>1. ASSUME NEW r \in d_readers, NEW j \in 0..(ItemsAvailable(r)' - 1)
      PROVE  /\ Expected(r, j) > attach[r].at => ItemAt(r, j) = Expected(r, j)
             /\ attach[r].clean /\ Expected(r, j) <= attach[r].at => ItemAt(r, j) = 0
  <2>1. r \in Readers /\ n <= BufSize - IndexSub(d_write_index, d_read_index[r]) - 1
    BY DEF ItemsAvailable, Slots
  <2>2. ItemsAvailable(r)' = ItemsAvailable(r) + n
    BY <2>1, Advance DEF UpdateWritePointer, ItemsAvailable
  <2>3. CASE j < ItemsAvailable(r)
    <3>1. j \in 0..(ItemsAvailable(r) - 1)
      BY <1>1, <2>1, <2>2, <2>3 DEF Slots
    <3> QED
      BY <3>1 DEF SlotInv, WindowIntact
  <2>4. CASE j >= ItemsAvailable(r)
    <3> DEFINE i == j - ItemsAvailable(r)
    <3>1. j \in Nat /\ j < BufSize /\ i \in 0..(granted - 1)
      BY <1>1, <2>1, <2>2, <2>4 DEF Slots
    <3>2. ItemAt(r, j) = base[IndexAdd(d_write_index, i)]
      BY <2>1, <2>4, <3>1, PastWindow DEF ItemAt, ItemsAvailable
    <3>3. ItemAt(r, j) = d_abs_write_offset + i + 1
      BY <3>1, <3>2 DEF SlotInv
    <3>4. Expected(r, j) = d_abs_write_offset + i + 1
      BY <2>1, <3>1 DEF Expected, Backlog, Position, Slots
    <3>5. Expected(r, j) > attach[r].at
      BY <2>1, <3>1, <3>4 DEF Backlog, Position, Slots
    <3> QED
      BY <2>1, <3>1, <3>3, <3>4, <3>5
  <2> QED
    BY <1>1, <2>1, <2>2, <2>3, <2>4 DEF Slots
<1>2. WindowIntact'
  BY <1>1 DEF WindowIntact, ItemAt, Expected, Position
<1>3. ASSUME NEW i \in 0..(left - 1)
      PROVE  base[IndexAdd(d_write_index', i)] = d_abs_write_offset' + i + 1
  <2>1. n + i \in 0..(granted - 1) /\ n + i < BufSize /\ i \in Nat
    BY <1>3
  <2>2. IndexAdd(IndexAdd(d_write_index, n), i) = IndexAdd(d_write_index, n + i)
    BY <2>1, AddTwice
  <2>3. base[IndexAdd(d_write_index, n + i)] = d_abs_write_offset + (n + i) + 1
    BY <2>1 DEF SlotInv
  <2> QED
    BY <2>1, <2>2, <2>3 DEF UpdateWritePointer
<1> QED
  BY <1>2, <1>3 DEF SlotInv

LEMMA BufferSlotInv == Spec => []SlotInv
<1>1. Init => SlotInv
  BY DEF Init, SlotInv, WindowIntact
<1>2. Facts /\ TypeOK /\ SlotInv /\ [Next]_vars => SlotInv'
  <2> SUFFICES ASSUME Facts, TypeOK, SlotInv, [Next]_vars PROVE SlotInv'
    OBVIOUS
  <2> USE BufSizeAssumption
  <2>1. ASSUME NEW r \in Readers, NEW n \in 0..MaxPreload, AddReader(r, n)
        PROVE  SlotInv'
    <3>0. /\ d_readers' = d_readers \cup {r} /\ writer' # "written"
          /\ UNCHANGED <<base, d_write_index, d_abs_write_offset>>
      BY <2>1 DEF AddReader, Configuring, indexVars, writerPc
    <3>1. n \in Slots /\ n \in Nat
      BY PreloadAssumption DEF Slots
    <3>2. /\ d_read_index'[r] = IndexSub(d_write_index, n)
          /\ d_abs_read_offset'[r] = 0
          /\ attach'[r] = [at |-> d_abs_write_offset, preload |-> n,
                           clean |-> base = [i \in Slots |-> 0]]
      BY <2>1 DEF AddReader, TypeOK
    <3>3. ASSUME NEW j \in 0..(ItemsAvailable(r)' - 1)
          PROVE  /\ Expected(r, j)' > attach'[r].at =>
                      ItemAt(r, j)' = Expected(r, j)'
                 /\ attach'[r].clean /\ Expected(r, j)' <= attach'[r].at =>
                      ItemAt(r, j)' = 0
      <4>1. ItemsAvailable(r)' = n
        BY <3>0, <3>1, <3>2, GoBack DEF ItemsAvailable, Facts
      <4>2. j \in Slots /\ j < n
        BY <3>1, <3>3, <4>1 DEF Slots
      <4>3. ~(Expected(r, j)' > attach'[r].at)
        BY <3>1, <3>2, <4>2 DEF Expected, Position, Facts, Slots
      <4>4. IndexAdd(d_read_index'[r], j) \in Slots
        BY <3>1, <3>2, <4>2, IndexRange DEF Facts
      <4>5. attach'[r].clean => ItemAt(r, j)' = 0
        <5>1. attach'[r].clean = (base = [i \in Slots |-> 0])
          BY <3>2
        <5>2. ItemAt(r, j)' = base[IndexAdd(d_read_index'[r], j)]
          BY <3>0 DEF ItemAt
        <5>3. base = [i \in Slots |-> 0] => ItemAt(r, j)' = 0
          BY <4>4, <5>2
        <5> QED
          BY <5>1, <5>3, Zenon
      <4> QED
        BY <4>3, <4>5
    <3>4. ASSUME NEW q \in d_readers
          PROVE  /\ d_read_index'[q] = d_read_index[q]
                 /\ d_abs_read_offset'[q] = d_abs_read_offset[q]
                 /\ attach'[q] = attach[q]
      <4>1. q \in Readers /\ q # r
        BY <2>1 DEF AddReader, Facts
      <4> QED
        BY <2>1, <4>1 DEF AddReader, TypeOK
    <3>5. WindowIntact'
      BY <3>0, <3>3, <3>4
      DEF SlotInv, WindowIntact, ItemsAvailable, ItemAt, Expected, Position
    <3> QED
      BY <3>0, <3>5 DEF SlotInv
  <2>2. ASSUME NEW r \in Readers, DropReader(r) PROVE SlotInv'
    BY <2>2, SlotFrame DEF DropReader, indexVars, writerPc
  <2>3. CASE MinAvailableSpace
    <3>1. UNCHANGED <<writer, granted>> \/ writer' # "written"
      BY <2>3 DEF MinAvailableSpace
    <3> QED
      BY <2>3, <3>1, SlotFrame DEF MinAvailableSpace, indexVars, readerVars
  <2>4. CASE WriteItems
    <3>1. /\ UNCHANGED <<d_write_index, d_abs_write_offset, d_readers,
                         d_read_index, d_abs_read_offset, attach, granted>>
          /\ \A i \in Slots :
               base'[i] = LET k == IndexSub(i, d_write_index)
                          IN  IF k < granted THEN d_abs_write_offset + k + 1
                              ELSE base[i]
      BY <2>4 DEF WriteItems, indexVars, readerVars
    <3>2. ASSUME NEW r \in d_readers, NEW j \in 0..(ItemsAvailable(r) - 1)
          PROVE  ItemAt(r, j)' = ItemAt(r, j)
      BY <2>4, <3>2, StoresStayOutside
    <3>3. WindowIntact'
      BY <3>1, <3>2
      DEF SlotInv, WindowIntact, ItemsAvailable, IndexSub, Expected, Position
    <3>4. ASSUME NEW i \in 0..(granted - 1)
          PROVE  base'[IndexAdd(d_write_index, i)] = d_abs_write_offset + i + 1
      <4>1. i \in Slots /\ i < granted
        BY <3>4 DEF Facts, Slots
      <4>2. /\ IndexAdd(d_write_index, i) \in Slots
            /\ IndexSub(IndexAdd(d_write_index, i), d_write_index) = i
        BY <4>1, IndexRange, FreeSlot DEF Facts
      <4> QED
        BY <3>1, <4>1, <4>2
    <3> QED
      BY <3>1, <3>3, <3>4 DEF SlotInv
  <2>5. ASSUME NEW o \in TagOffsets, AddItemTag(o) PROVE SlotInv'
    BY <2>5, SlotFrame DEF AddItemTag, indexVars, readerVars, writerPc
  <2>6. ASSUME NEW n \in 1..BufSize, Produce(n) PROVE SlotInv'
    <3>1. n \in Nat /\ n <= granted /\ granted' \in Nat /\ granted' <= granted - n
      BY <2>6 DEF Produce, Facts
    <3> QED
      BY <2>6, <3>1, SlotPublish DEF Produce, readerVars
  <2>7. ASSUME NEW n \in 0..BufSize, ProduceEach(n) PROVE SlotInv'
    <3>1. n \in Nat /\ n <= granted /\ granted' \in Nat /\ granted' <= granted - n
      BY <2>7 DEF ProduceEach, Facts
    <3> QED
      BY <2>7, <3>1, SlotPublish DEF ProduceEach, readerVars
  <2>8. ASSUME NEW r \in Readers, SampleInput(r) PROVE SlotInv'
    BY <2>8, SlotFrame DEF SampleInput, indexVars, readerVars, writerPc
  <2>9. ASSUME NEW r \in Readers, NEW n \in 1..BufSize, Consume(r, n)
        PROVE  SlotInv'
    <3>1. /\ UNCHANGED <<base, d_write_index, d_abs_write_offset, d_readers,
                         attach, granted, writer>>
          /\ d_read_index'[r] = IndexAdd(d_read_index[r], n)
          /\ d_abs_read_offset'[r] = d_abs_read_offset[r] + n
          /\ \A q \in Readers \ {r} : /\ d_read_index'[q] = d_read_index[q]
                                      /\ d_abs_read_offset'[q] = d_abs_read_offset[q]
      BY <2>9 DEF Consume, TypeOK, indexVars, writerPc
    <3>2. ASSUME r \in d_readers, NEW j \in 0..(ItemsAvailable(r)' - 1)
          PROVE  /\ Expected(r, j)' > attach[r].at =>
                      ItemAt(r, j)' = Expected(r, j)'
                 /\ attach[r].clean /\ Expected(r, j)' <= attach[r].at =>
                      ItemAt(r, j)' = 0
      <4>1. n <= ninput_items[r] - attach[r].preload /\ ninput_items[r] \in Nat
        BY <2>9 DEF Consume, TypeOK
      <4>2. n \in Nat /\ n <= ItemsAvailable(r)
        BY <3>2, <4>1 DEF Facts, Slots
      <4>3. ItemsAvailable(r)' = ItemsAvailable(r) - n
        BY <3>1, <4>2, Retire DEF ItemsAvailable, Facts
      <4>4. /\ j \in Nat /\ n + j \in 0..(ItemsAvailable(r) - 1)
            /\ n + j < BufSize
        BY <3>2, <4>2, <4>3 DEF Facts, Slots
      <4>5. ItemAt(r, j)' = ItemAt(r, n + j)
        BY <3>1, <4>2, <4>4, AddTwice DEF ItemAt, Facts
      <4>6. Expected(r, j)' = Expected(r, n + j)
        BY <3>1, <4>2, <4>4 DEF Expected, Position, Facts
      <4> QED
        BY <3>2, <4>4, <4>5, <4>6 DEF SlotInv, WindowIntact
    <3>3. ASSUME NEW q \in d_readers, q # r,
                 NEW j \in 0..(ItemsAvailable(q)' - 1)
          PROVE  /\ Expected(q, j)' > attach[q].at =>
                      ItemAt(q, j)' = Expected(q, j)'
                 /\ attach[q].clean /\ Expected(q, j)' <= attach[q].at =>
                      ItemAt(q, j)' = 0
      <4>1. /\ d_read_index'[q] = d_read_index[q]
            /\ d_abs_read_offset'[q] = d_abs_read_offset[q]
        BY <3>1, <3>3 DEF Facts
      <4>2. /\ ItemsAvailable(q)' = ItemsAvailable(q)
            /\ ItemAt(q, j)' = ItemAt(q, j)
            /\ Expected(q, j)' = Expected(q, j)
        BY <3>1, <4>1 DEF ItemsAvailable, ItemAt, Expected, Position
      <4> QED
        BY <3>3, <4>2 DEF SlotInv, WindowIntact
    <3>4. WindowIntact'
      BY <3>1, <3>2, <3>3 DEF WindowIntact
    <3> QED
      BY <3>1, <3>4 DEF SlotInv
  <2>10. ASSUME NEW r \in Readers, NEW t \in d_item_tags, RemoveItemTag(r, t)
         PROVE  SlotInv'
    BY <2>10, SlotFrame DEF RemoveItemTag, indexVars, readerVars, writerPc
  <2>11. ASSUME NEW r \in Readers, PropagateTags(r) PROVE SlotInv'
    BY <2>11, SlotFrame DEF PropagateTags, indexVars, readerVars, writerPc
  <2>12. CASE UNCHANGED vars
    BY <2>12, SlotFrame DEF vars, indexVars, readerVars, writerPc
  <2> QED
    BY <2>1, <2>2, <2>3, <2>4, <2>5, <2>6, <2>7, <2>8, <2>9, <2>10, <2>11, <2>12
    DEF Next, WriterNext, ReaderNext, ConfigureNext
<1> QED
  BY <1>1, <1>2, BufferTyping, BufferCountInv, FactsHold, PTL DEF Spec

(* No interleaving of unlocked stores, publications, reads and returns     *)
(* lets a reader see a slot that is not the item it is entitled to.        *)
THEOREM BufferWindows == Spec => []WindowIntact
BY BufferSlotInv, PTL DEF SlotInv

-----------------------------------------------------------------------------
(***************************************************************************)
(* The tags.  The minimum remembered for the next pruning never passes a   *)
(* reader nor the writer; a tag removed by anyone lies before the write    *)
(* offset, so that a reader attached later does not miss it; and the tags  *)
(* nobody is past are all there.                                           *)
(***************************************************************************)
Ahead(o) == o >= d_abs_write_offset \/ \E q \in d_readers : o >= Position(q)

Visible(o, t) ==
  /\ t.offset = o
  /\ \A r \in d_readers :
       r \in t.marked_deleted /\ o >= Position(r) => o \in got[r]

TagInv ==
  /\ d_last_min_items_read <= d_abs_write_offset
  /\ \A r \in d_readers : d_last_min_items_read <= Position(r)
  /\ \A t \in d_item_tags : t.marked_deleted # {} => t.offset < d_abs_write_offset
  /\ \A o \in tagged : Ahead(o) => \E t \in d_item_tags : Visible(o, t)

(* A step that only moves the writer or readers forward, detaches readers  *)
(* or lets them obtain more tags keeps TagInv.                             *)
LEMMA TagFrame ==
  ASSUME TypeOK, TagInv,
         UNCHANGED <<d_item_tags, d_last_min_items_read, tagged, attach>>,
         d_readers' \subseteq d_readers,
         NEW w \in Nat, d_abs_write_offset' = w, d_abs_write_offset <= w,
         NEW a \in [Readers -> Nat], d_abs_read_offset' = a,
         \A r \in Readers : d_abs_read_offset[r] <= a[r],
         \A r \in Readers : got[r] \subseteq got'[r]
  PROVE  TagInv'
<1>1. /\ d_readers \subseteq Readers /\ d_last_min_items_read \in Nat
      /\ d_abs_write_offset \in Nat
      /\ \A r \in Readers : attach[r].at \in Nat /\ d_abs_read_offset[r] \in Nat
      /\ \A t \in d_item_tags : t.offset \in Nat
      /\ \A o \in tagged : o \in Nat
  BY DEF TypeOK, Tags
<1>2. \A r \in d_readers' : /\ r \in d_readers /\ r \in Readers
                            /\ Position(r) <= Position(r)'
                            /\ Position(r) \in Nat /\ Position(r)' \in Nat
  BY <1>1 DEF Position
<1>3. /\ d_last_min_items_read' <= d_abs_write_offset'
      /\ \A r \in d_readers' : d_last_min_items_read' <= Position(r)'
  BY <1>1, <1>2 DEF TagInv
<1>4. \A t \in d_item_tags' : t.marked_deleted # {} => t.offset < d_abs_write_offset'
  BY <1>1 DEF TagInv
<1>5. ASSUME NEW o \in tagged, Ahead(o)'
      PROVE  \E t \in d_item_tags : Visible(o, t)'
  <2>1. Ahead(o)
    BY <1>1, <1>2, <1>5 DEF Ahead
  <2>2. PICK t \in d_item_tags : Visible(o, t)
    BY <2>1 DEF TagInv
  <2>3. Visible(o, t)'
    BY <1>1, <1>2, <2>2 DEF Visible
  <2> QED
    BY <2>3
<1> QED
  BY <1>3, <1>4, <1>5 DEF TagInv

(* However many readers there are and whenever they come and go, no tag is *)
(* pruned or hidden before the block it is meant for has consumed its item.*)
THEOREM BufferTags == Spec => []UnreadTagsKept
<1>1. Init => TagInv
  BY DEF Init, TagInv
<1>2. Facts /\ TypeOK /\ TagInv /\ [Next]_vars => TagInv'
  <2> SUFFICES ASSUME Facts, TypeOK, TagInv, [Next]_vars PROVE TagInv'
    OBVIOUS
  <2>0. /\ d_readers \subseteq Readers /\ d_last_min_items_read \in Nat
        /\ d_abs_write_offset \in Nat /\ d_abs_read_offset \in [Readers -> Nat]
        /\ \A r \in Readers : /\ attach[r].at \in Nat /\ attach[r].preload \in Nat
                              /\ d_abs_read_offset[r] \in Nat /\ Position(r) \in Nat
        /\ \A t \in d_item_tags : t.offset \in Nat
        /\ \A o \in tagged : o \in Nat
    BY DEF TypeOK, Tags, Position
  <2>00. \A r \in d_readers : Position(r) <= d_abs_write_offset
    BY <2>0 DEF Facts, Backlog, Position, Slots
  <2>1. ASSUME NEW r \in Readers, NEW n \in 0..MaxPreload, AddReader(r, n)
        PROVE  TagInv'
    <3>1. /\ d_readers' = d_readers \cup {r} /\ r \notin d_readers
          /\ UNCHANGED <<d_abs_write_offset, d_item_tags, d_last_min_items_read,
                         tagged>>
      BY <2>1 DEF AddReader, indexVars
    <3>2. Position(r)' = d_abs_write_offset
      BY <2>0, <2>1 DEF AddReader, Position, TypeOK
    <3>3. \A q \in d_readers : Position(q)' = Position(q) /\ got'[q] = got[q]
      BY <2>0, <2>1, <3>1 DEF AddReader, Position, TypeOK
    <3>4. ASSUME NEW o \in tagged, Ahead(o)'
          PROVE  \E t \in d_item_tags : Visible(o, t)'
      <4>1. Ahead(o)
        BY <3>1, <3>2, <3>3, <3>4 DEF Ahead
      <4>2. PICK t \in d_item_tags : Visible(o, t)
        BY <4>1 DEF TagInv
      <4>3. ~(r \in t.marked_deleted /\ o >= Position(r)')
        <5>1. t.marked_deleted # {} => t.offset < d_abs_write_offset
          BY DEF TagInv
        <5> QED
          BY <2>0, <3>2, <4>2, <5>1 DEF Visible
      <4>4. Visible(o, t)'
        BY <3>1, <3>3, <4>2, <4>3 DEF Visible
      <4> QED
        BY <4>4
    <3>5. \A q \in d_readers' : d_last_min_items_read' <= Position(q)'
      BY <3>1, <3>2, <3>3 DEF TagInv
    <3> QED
      BY <3>1, <3>4, <3>5 DEF TagInv
  <2>2. ASSUME NEW r \in Readers, DropReader(r) PROVE TagInv'
    BY <2>0, <2>2, TagFrame DEF DropReader, indexVars, tagVars
  <2>3. CASE MinAvailableSpace
    <3>1. /\ UNCHANGED <<d_abs_write_offset, d_readers, d_abs_read_offset, attach,
                         tagged, got>>
          /\ NoteMinItemsRead
      BY <2>3 DEF MinAvailableSpace, indexVars, readerVars
    <3>2. \A q \in Readers : Position(q)' = Position(q)
      BY <3>1 DEF Position
    <3>3. CASE d_readers = {}
      BY <3>1, <3>2, <3>3 DEF NoteMinItemsRead, TagInv, Ahead, Visible
    <3>4. CASE d_readers # {}
      <4>1. PICK slowest \in d_readers :
              /\ \A r \in d_readers :
                   d_abs_read_offset[slowest] <= d_abs_read_offset[r]
              /\ d_last_min_items_read' = d_abs_read_offset[slowest]
        BY <3>1, <3>4 DEF NoteMinItemsRead
      <4>2. \/ d_item_tags' = d_item_tags
            \/ d_item_tags' = PruneTags(d_last_min_items_read)
        BY <3>1, <3>4 DEF NoteMinItemsRead
      <4>3. \A r \in d_readers : d_last_min_items_read' <= Position(r)'
        BY <2>0, <3>2, <4>1 DEF Position
      <4>4. d_last_min_items_read' <= d_abs_write_offset'
        BY <2>0, <2>00, <3>1, <4>1 DEF Position
      <4>5. d_item_tags' \subseteq d_item_tags
        BY <4>2 DEF PruneTags
      <4>6. ASSUME NEW o \in tagged, Ahead(o)
            PROVE  \E t \in d_item_tags' : Visible(o, t)
        <5>1. PICK t \in d_item_tags : Visible(o, t)
          BY <4>6 DEF TagInv
        <5>2. o >= d_last_min_items_read
          BY <2>0, <4>6 DEF Ahead, TagInv
        <5>3. t \in d_item_tags'
          BY <4>2, <5>1, <5>2 DEF PruneTags, Visible
        <5> QED
          BY <5>1, <5>3
      <4>7. \A o : /\ Ahead(o)' = Ahead(o)
                   /\ \A t : Visible(o, t)' = Visible(o, t)
        BY <2>0, <3>1, <3>2 DEF Ahead, Visible
      <4>8. \A o \in tagged' : Ahead(o)' => \E t \in d_item_tags' : Visible(o, t)'
        BY <3>1, <4>6, <4>7
      <4>9. \A t \in d_item_tags' :
              t.marked_deleted # {} => t.offset < d_abs_write_offset'
        BY <3>1, <4>5 DEF TagInv
      <4> QED
        BY <3>1, <4>3, <4>4, <4>8, <4>9 DEF TagInv
    <3> QED
      BY <3>3, <3>4
  <2>4. CASE WriteItems
    BY <2>0, <2>4, TagFrame DEF WriteItems, indexVars, readerVars, tagVars
  <2>5. ASSUME NEW o \in TagOffsets, AddItemTag(o) PROVE TagInv'
    <3> DEFINE new == [offset |-> o, marked_deleted |-> {}]
    <3>1. /\ UNCHANGED <<d_abs_write_offset, d_readers, d_abs_read_offset, attach,
                         got, d_last_min_items_read>>
          /\ d_item_tags' = d_item_tags \cup {new} /\ tagged' = tagged \cup {o}
      BY <2>5 DEF AddItemTag, indexVars, readerVars
    <3>2. \A p : /\ Ahead(p)' = Ahead(p)
                 /\ \A t : Visible(p, t)' = Visible(p, t)
      BY <3>1 DEF Ahead, Visible, Position
    <3>3. Visible(o, new)
      BY DEF Visible
    <3>4. \A p \in tagged' : Ahead(p)' => \E t \in d_item_tags' : Visible(p, t)'
      BY <3>1, <3>2, <3>3 DEF TagInv
    <3> QED
      BY <3>1, <3>4 DEF TagInv, Position
  <2>6. ASSUME NEW n \in 1..BufSize, Produce(n) PROVE TagInv'
    <3>1. d_abs_write_offset + n \in Nat /\ d_abs_write_offset <= d_abs_write_offset + n
      BY <2>0, BufSizeAssumption
    <3> QED
      BY <2>0, <2>6, <3>1, TagFrame
      DEF Produce, UpdateWritePointer, readerVars, tagVars
  <2>7. ASSUME NEW n \in 0..BufSize, ProduceEach(n) PROVE TagInv'
    <3>1. d_abs_write_offset + n \in Nat /\ d_abs_write_offset <= d_abs_write_offset + n
      BY <2>0, BufSizeAssumption
    <3> QED
      BY <2>0, <2>7, <3>1, TagFrame
      DEF ProduceEach, UpdateWritePointer, readerVars, tagVars
  <2>8. ASSUME NEW r \in Readers, SampleInput(r) PROVE TagInv'
    BY <2>0, <2>8, TagFrame DEF SampleInput, indexVars, readerVars, tagVars
  <2>9. ASSUME NEW r \in Readers, NEW n \in 1..BufSize, Consume(r, n)
        PROVE  TagInv'
    <3> DEFINE a == [d_abs_read_offset EXCEPT ![r] = @ + n]
    <3>1. a \in [Readers -> Nat] /\ \A q \in Readers : d_abs_read_offset[q] <= a[q]
      BY <2>0, BufSizeAssumption
    <3>2. /\ UNCHANGED <<d_item_tags, d_last_min_items_read, tagged, attach, got,
                         d_readers, d_abs_write_offset>>
          /\ d_abs_read_offset' = a
      BY <2>9 DEF Consume, indexVars, tagVars
    <3> HIDE DEF a
    <3> QED
      BY <2>0, <3>1, <3>2, TagFrame
  <2>10. ASSUME NEW r \in Readers, NEW t \in d_item_tags, RemoveItemTag(r, t)
         PROVE  TagInv'
    <3> DEFINE u == [t EXCEPT !.marked_deleted = @ \cup {r}]
    <3>1. /\ UNCHANGED <<d_abs_write_offset, d_readers, d_abs_read_offset, attach,
                         d_last_min_items_read, tagged>>
          /\ d_item_tags' = (d_item_tags \ {t}) \cup {u}
          /\ reader[r] = "working"
          /\ t.offset < d_abs_read_offset[r] + ninput_items[r] - attach[r].preload
      BY <2>10 DEF RemoveItemTag, TagsInRange, indexVars, readerVars
    <3>2. u.offset = t.offset /\ u.marked_deleted = t.marked_deleted \cup {r}
      BY DEF TypeOK, Tags
    <3>3. \A q \in Readers : /\ got[q] \subseteq got'[q]
                             /\ q = r => t.offset \in got'[q]
      BY <2>10 DEF RemoveItemTag, TypeOK
    <3>4. t.offset < d_abs_write_offset
      <4>1. r \in d_readers /\ ninput_items[r] \in Nat
        BY <3>1 DEF TypeOK, Facts
      <4> QED
        BY <2>0, <3>1, <4>1 DEF Facts, Backlog, Position, Slots
    <3>5. ASSUME NEW o \in tagged, Ahead(o)
          PROVE  \E v \in d_item_tags' : Visible(o, v)'
      <4>1. PICK v \in d_item_tags : Visible(o, v)
        BY <3>5 DEF TagInv
      <4>2. CASE v # t
        <5>1. Visible(o, v)'
          BY <2>0, <3>1, <3>3, <4>1 DEF Visible, Position
        <5> QED
          BY <3>1, <4>2, <5>1
      <4>3. CASE v = t
        <5>1. Visible(o, u)'
          BY <2>0, <3>1, <3>2, <3>3, <4>1, <4>3 DEF Visible, Position
        <5> QED
          BY <3>1, <5>1
      <4> QED
        BY <4>2, <4>3
    <3>6. \A o : Ahead(o)' = Ahead(o)
      BY <3>1 DEF Ahead, Position
    <3>7. \A v \in d_item_tags' :
            v.marked_deleted # {} => v.offset < d_abs_write_offset'
      BY <3>1, <3>2, <3>4 DEF TagInv
    <3> QED
      BY <3>1, <3>5, <3>6, <3>7 DEF TagInv, Position
  <2>11. ASSUME NEW r \in Readers, PropagateTags(r) PROVE TagInv'
    <3>1. \A q \in Readers : got[q] \subseteq got'[q]
      BY <2>11 DEF PropagateTags, TypeOK
    <3> QED
      BY <2>0, <2>11, <3>1, TagFrame DEF PropagateTags, indexVars, readerVars
  <2>12. CASE UNCHANGED vars
    BY <2>0, <2>12, TagFrame DEF vars, indexVars, readerVars, tagVars
  <2> QED
    BY <2>1, <2>2, <2>3, <2>4, <2>5, <2>6, <2>7, <2>8, <2>9, <2>10, <2>11, <2>12
    DEF Next, WriterNext, ReaderNext, ConfigureNext
<1>3. TagInv => UnreadTagsKept
  BY DEF TagInv, UnreadTagsKept, Ahead, Visible
<1> QED
  BY <1>1, <1>2, <1>3, BufferTyping, BufferCountInv, FactsHold, PTL DEF Spec

-----------------------------------------------------------------------------
(***************************************************************************)
(* A gr::buffer is a lossless FIFO to each of its readers: every behaviour *)
(* of Buffer is, seen through the readers' windows, one of StreamFifo.     *)
(* Only three kinds of step are visible there: publishing items appends    *)
(* them to every queue, consuming takes the oldest ones off one queue, and *)
(* readers join and leave.  All others - the unlocked stores, the sampling *)
(* of space and items, the tags - are stuttering steps.                    *)
(***************************************************************************)
(* Sequences that are given as functions.                                  *)

LEMMA FunctionIsSeq ==
  ASSUME NEW S, NEW n \in Nat, NEW f \in [1..n -> S]
  PROVE  f \in Seq(S) /\ Len(f) = n
OBVIOUS

LEMMA IsConcat ==
  ASSUME NEW S, NEW s \in Seq(S), NEW t \in Seq(S), NEW u \in Seq(S),
         Len(u) = Len(s) + Len(t),
         \A i \in 1..Len(u) : u[i] = IF i <= Len(s) THEN s[i] ELSE t[i - Len(s)]
  PROVE  u = s \o t
<1>1. /\ s \o t \in Seq(S) /\ Len(s \o t) = Len(s) + Len(t)
      /\ \A i \in 1..Len(s) + Len(t) :
           (s \o t)[i] = IF i <= Len(s) THEN s[i] ELSE t[i - Len(s)]
  BY ConcatProperties
<1>2. \A i \in 1..Len(u) : u[i] = (s \o t)[i]
  BY <1>1
<1> QED
  BY <1>1, <1>2, SeqEqual

LEMMA IsSuffix ==
  ASSUME NEW S, NEW s \in Seq(S), NEW u \in Seq(S), NEW n \in Nat,
         n <= Len(s), Len(u) = Len(s) - n,
         \A i \in 1..Len(u) : u[i] = s[n + i]
  PROVE  u = SubSeq(s, n + 1, Len(s))
<1>1. Len(s) \in Nat /\ Len(u) \in Nat
  BY LenProperties
<1>2. \A i \in (n + 1)..Len(s) : s[i] \in S
  BY <1>1, ElementOfSeq
<1>3. /\ SubSeq(s, n + 1, Len(s)) \in Seq(S)
      /\ Len(SubSeq(s, n + 1, Len(s))) =
           IF n + 1 <= Len(s) THEN Len(s) - (n + 1) + 1 ELSE 0
      /\ \A i \in 1..(Len(s) - (n + 1) + 1) :
           SubSeq(s, n + 1, Len(s))[i] = s[(n + 1) + i - 1]
  BY <1>1, <1>2, SubSeqProperties
<1>4. Len(SubSeq(s, n + 1, Len(s))) = Len(u)
  BY <1>1, <1>3
<1>5. ASSUME NEW i \in 1..Len(u)
      PROVE  u[i] = SubSeq(s, n + 1, Len(s))[i]
  <2>1. i \in 1..(Len(s) - (n + 1) + 1) /\ (n + 1) + i - 1 = n + i
    BY <1>1, <1>5
  <2> QED
    BY <1>3, <1>5, <2>1
<1> QED
  BY <1>3, <1>4, <1>5, SeqEqual

-----------------------------------------------------------------------------
(* A reader's window is a sequence of items, as long as its backlog, in    *)
(* the state before a step and in the state after it.                      *)
LEMMA SlotsAreSeq ==
  ASSUME NEW b \in [Slots -> Nat], NEW w \in Slots, NEW r \in Slots,
         NEW f, f = [j \in 1..IndexSub(w, r) |-> b[IndexAdd(r, j - 1)]]
  PROVE  /\ f \in Seq(Nat)
         /\ Len(f) = IndexSub(w, r)
         /\ IndexSub(w, r) \in Slots
<1>1. IndexSub(w, r) \in Slots
  BY IndexRange
<1>2. IndexSub(w, r) \in Nat
  BY <1>1, BufSizeAssumption DEF Slots
<1>3. ASSUME NEW j \in 1..IndexSub(w, r) PROVE b[IndexAdd(r, j - 1)] \in Nat
  <2>1. j - 1 \in Slots
    BY <1>1, <1>2, BufSizeAssumption DEF Slots
  <2>2. IndexAdd(r, j - 1) \in Slots
    BY <2>1, IndexRange
  <2> QED
    BY <2>2
<1>4. f \in [1..IndexSub(w, r) -> Nat]
  BY <1>3
<1> QED
  BY <1>1, <1>2, <1>4, FunctionIsSeq

LEMMA WindowIsSeq ==
  ASSUME TypeOK, NEW r \in Readers
  PROVE  /\ Window(r) \in Seq(Nat)
         /\ Len(Window(r)) = ItemsAvailable(r)
         /\ ItemsAvailable(r) \in Slots
<1>1. /\ base \in [Slots -> Nat] /\ d_write_index \in Slots
      /\ d_read_index[r] \in Slots
  BY DEF TypeOK
<1>2. Window(r) = [j \in 1..IndexSub(d_write_index, d_read_index[r]) |->
                     base[IndexAdd(d_read_index[r], j - 1)]]
  BY DEF Window, ItemAt, ItemsAvailable
<1> QED
  BY <1>1, <1>2, SlotsAreSeq DEF ItemsAvailable

LEMMA WindowIsSeqNext ==
  ASSUME TypeOK', NEW r \in Readers
  PROVE  /\ Window(r)' \in Seq(Nat)
         /\ Len(Window(r)') = ItemsAvailable(r)'
<1>1. /\ base' \in [Slots -> Nat] /\ d_write_index' \in Slots
      /\ d_read_index'[r] \in Slots
  BY DEF TypeOK
<1>2. Window(r)' = [j \in 1..IndexSub(d_write_index', d_read_index'[r]) |->
                      base'[IndexAdd(d_read_index'[r], j - 1)]]
  BY DEF Window, ItemAt, ItemsAvailable
<1>3. ItemsAvailable(r)' = IndexSub(d_write_index', d_read_index'[r])
  BY DEF ItemsAvailable
<1>4. \A b \in [Slots -> Nat] : \A w, i \in Slots : \A f :
        f = [j \in 1..IndexSub(w, i) |-> b[IndexAdd(i, j - 1)]]
        => f \in Seq(Nat) /\ Len(f) = IndexSub(w, i)
  BY SlotsAreSeq
<1> QED
  BY <1>1, <1>2, <1>3, <1>4

(* A step that leaves the readers, the indices and the published slots     *)
(* alone is invisible.                                                     *)
LEMMA WindowsUnchanged ==
  ASSUME TypeOK,
         UNCHANGED <<d_write_index, d_abs_write_offset, d_readers, d_read_index>>,
         \A r \in d_readers : \A j \in 0..(ItemsAvailable(r) - 1) :
           ItemAt(r, j)' = ItemAt(r, j)
  PROVE  UNCHANGED <<d_abs_write_offset, d_readers, Queues>>
<1>1. ASSUME NEW r \in d_readers PROVE Window(r)' = Window(r)
  <2>1. r \in Readers /\ ItemsAvailable(r) \in Slots
    BY WindowIsSeq DEF TypeOK
  <2>2. ItemsAvailable(r)' = ItemsAvailable(r) /\ ItemsAvailable(r) \in Nat
    BY <2>1, BufSizeAssumption DEF ItemsAvailable, IndexSub, Slots
  <2>3. \A j \in 1..ItemsAvailable(r) : ItemAt(r, j - 1)' = ItemAt(r, j - 1)
    BY <2>2
  <2> QED
    BY <2>2, <2>3 DEF Window
<1>2. Queues' = Queues
  BY <1>1 DEF Queues
<1> QED
  BY <1>2

-----------------------------------------------------------------------------
(* Publishing n > 0 filled slots sends n items.                            *)
LEMMA PublishSends ==
  ASSUME TypeOK, TypeOK', Facts, SlotInv, writer = "written",
         NEW n \in 1..(BufSize - 1), n <= granted, UpdateWritePointer(n),
         UNCHANGED <<base, d_readers, d_read_index>>
  PROVE  Fifo!Send(n)
<1> USE BufSizeAssumption
<1> DEFINE items == [i \in 1..n |-> d_abs_write_offset + i]
<1>1. n \in Nat /\ d_abs_write_offset \in Nat /\ granted \in 0..(BufSize - 1)
      /\ d_write_index \in Slots
  BY DEF TypeOK
<1>2. items \in Seq(Nat) /\ Len(items) = n
  <2>1. items \in [1..n -> Nat]
    BY <1>1
  <2> QED
    BY <1>1, <2>1, FunctionIsSeq
<1>3. ASSUME NEW r \in d_readers
      PROVE  /\ Len(Window(r)) + n <= BufSize - 1
             /\ Window(r)' = Window(r) \o items
  <2>1. r \in Readers /\ d_read_index[r] \in Slots
    BY DEF TypeOK
  <2>2. /\ Window(r) \in Seq(Nat) /\ Len(Window(r)) = ItemsAvailable(r)
        /\ ItemsAvailable(r) \in Slots
    BY <2>1, WindowIsSeq
  <2>3. Window(r)' \in Seq(Nat) /\ Len(Window(r)') = ItemsAvailable(r)'
    BY <2>1, WindowIsSeqNext
  <2>4. granted <= BufSize - ItemsAvailable(r) - 1 /\ ItemsAvailable(r) \in Nat
    BY <2>2 DEF Facts, Slots
  <2>5. ItemsAvailable(r)' = ItemsAvailable(r) + n
    <3>1. n <= BufSize - IndexSub(d_write_index, d_read_index[r]) - 1
      BY <1>1, <2>4 DEF ItemsAvailable
    <3>2. IndexSub(IndexAdd(d_write_index, n), d_read_index[r])
            = IndexSub(d_write_index, d_read_index[r]) + n
      BY <1>1, <2>1, <3>1, Advance
    <3> QED
      BY <3>2 DEF UpdateWritePointer, ItemsAvailable
  <2>6. ASSUME NEW i \in 1..Len(Window(r)')
        PROVE  Window(r)'[i] = IF i <= Len(Window(r)) THEN Window(r)[i]
                               ELSE items[i - Len(Window(r))]
    <3>1. i \in 1..(ItemsAvailable(r) + n) /\ Window(r)'[i] = ItemAt(r, i - 1)
      BY <2>3, <2>5, <2>6 DEF Window, ItemAt
    <3>2. CASE i <= ItemsAvailable(r)
      <4>1. i \in 1..ItemsAvailable(r)
        BY <1>1, <2>4, <3>1, <3>2
      <4> QED
        BY <2>2, <3>1, <3>2, <4>1 DEF Window
    <3>3. CASE i > ItemsAvailable(r)
      <4> DEFINE k == i - 1 - ItemsAvailable(r)
      <4>1. /\ i - 1 \in Nat /\ i - 1 >= IndexSub(d_write_index, d_read_index[r])
            /\ i - 1 < BufSize /\ k \in 0..(granted - 1)
            /\ i - ItemsAvailable(r) \in 1..n
        BY <1>1, <2>4, <3>1, <3>3, SMTT(60) DEF ItemsAvailable
      <4>2. ItemAt(r, i - 1) = base[IndexAdd(d_write_index, k)]
        BY <1>1, <2>1, <4>1, PastWindow DEF ItemAt, ItemsAvailable
      <4>3. ItemAt(r, i - 1) = d_abs_write_offset + k + 1
        BY <4>1, <4>2 DEF SlotInv
      <4>4. items[i - ItemsAvailable(r)] = d_abs_write_offset + (i - ItemsAvailable(r))
        BY <4>1
      <4>5. ~(i <= ItemsAvailable(r)) /\ i \in Nat
        BY <1>1, <2>4, <3>1, <3>3
      <4> QED
        BY <1>1, <2>2, <2>4, <3>1, <4>3, <4>4, <4>5
    <3> QED
      BY <1>1, <2>4, <3>1, <3>2, <3>3
  <2>7. Window(r)' = Window(r) \o items
    <3> HIDE DEF items
    <3> QED
      BY <1>2, <2>2, <2>3, <2>5, <2>6, IsConcat
  <2> QED
    BY <1>1, <2>2, <2>4, <2>7
<1>4. Queues' = [r \in Readers |-> IF r \in d_readers THEN Queues[r] \o items
                                   ELSE << >>]
  BY <1>3 DEF Queues
<1>5. \A r \in d_readers : Len(Queues[r]) + n <= BufSize - 1
  BY <1>3 DEF Queues, TypeOK
<1> QED
  BY <1>1, <1>4, <1>5 DEF Fifo!Send, UpdateWritePointer

(* Consuming takes the oldest items of one queue.                          *)
LEMMA ConsumeTakes ==
  ASSUME TypeOK, TypeOK', Facts, NEW r \in Readers, NEW n \in 1..BufSize,
         Consume(r, n)
  PROVE  n \in 1..(BufSize - 1) /\ Fifo!Take(r, n)
<1> USE BufSizeAssumption
<1>1. /\ UNCHANGED <<base, d_write_index, d_abs_write_offset, d_readers>>
      /\ d_read_index' = [d_read_index EXCEPT ![r] = IndexAdd(@, n)]
      /\ reader[r] = "working" /\ n <= ninput_items[r] - attach[r].preload
  BY DEF Consume, indexVars
<1>2. /\ r \in d_readers /\ d_read_index \in [Readers -> Slots]
      /\ d_write_index \in Slots /\ d_readers \subseteq Readers
  BY <1>1 DEF Facts, TypeOK
<1>3. /\ Window(r) \in Seq(Nat) /\ Len(Window(r)) = ItemsAvailable(r)
      /\ ItemsAvailable(r) \in Slots
      /\ Window(r)' \in Seq(Nat) /\ Len(Window(r)') = ItemsAvailable(r)'
  BY WindowIsSeq, WindowIsSeqNext
<1>4. n \in Nat /\ n <= ItemsAvailable(r) /\ ItemsAvailable(r) \in Nat
  <2>1. ninput_items[r] \in Nat /\ attach[r].preload \in Nat
    BY DEF TypeOK
  <2> QED
    BY <1>1, <1>2, <1>3, <2>1, SMTT(60) DEF Facts, Slots
<1>5. ItemsAvailable(r)' = ItemsAvailable(r) - n
  BY <1>1, <1>2, <1>4, Retire DEF ItemsAvailable
<1>6. \A i \in 1..Len(Window(r)') : Window(r)'[i] = Window(r)[n + i]
  <2>1. TAKE i \in 1..Len(Window(r)')
  <2>2. /\ i - 1 \in Nat /\ n + (i - 1) < BufSize
        /\ n + i \in 1..ItemsAvailable(r) /\ (n + i) - 1 = n + (i - 1)
        /\ i \in 1..ItemsAvailable(r)'
    BY <1>3, <1>4, <1>5, <2>1 DEF Slots
  <2>3. Window(r)'[i] = ItemAt(r, i - 1)'
    BY <2>2 DEF Window
  <2>4. ItemAt(r, i - 1)' = base[IndexAdd(IndexAdd(d_read_index[r], n), i - 1)]
    BY <1>1, <1>2 DEF ItemAt
  <2>5. IndexAdd(IndexAdd(d_read_index[r], n), i - 1)
          = IndexAdd(d_read_index[r], n + (i - 1))
    BY <1>2, <1>4, <2>2, AddTwice
  <2>6. Window(r)[n + i] = ItemAt(r, n + (i - 1))
    BY <2>2 DEF Window
  <2> QED
    BY <2>3, <2>4, <2>5, <2>6 DEF ItemAt
<1>7. Window(r)' = SubSeq(Window(r), n + 1, Len(Window(r)))
  BY <1>3, <1>4, <1>5, <1>6, IsSuffix
<1>8. \A q \in d_readers \ {r} : Window(q)' = Window(q)
  BY <1>1, <1>2 DEF Window, ItemAt, ItemsAvailable
<1>9. Queues' = [Queues EXCEPT ![r] = SubSeq(@, n + 1, Len(@))]
  BY <1>1, <1>2, <1>7, <1>8 DEF Queues
<1>10. Queues[r] = Window(r)
  BY <1>2 DEF Queues
<1> QED
  BY <1>1, <1>2, <1>3, <1>4, <1>9, <1>10 DEF Fifo!Take, Slots

(* A new reader's queue is its preload; a dropped reader's is gone.        *)
LEMMA AddAttaches ==
  ASSUME TypeOK, TypeOK', NEW r \in Readers, NEW n \in 0..MaxPreload,
         AddReader(r, n)
  PROVE  Fifo!Attach(r)
<1> USE BufSizeAssumption, PreloadAssumption
<1>1. /\ r \notin d_readers /\ d_readers' = d_readers \cup {r}
      /\ UNCHANGED <<base, d_write_index, d_abs_write_offset>>
      /\ d_read_index' = [d_read_index EXCEPT ![r] = IndexSub(d_write_index, n)]
  BY DEF AddReader, indexVars
<1>0. n \in Slots
  BY DEF Slots
<1>2. /\ n \in Slots /\ d_write_index \in Slots
      /\ d_readers \subseteq Readers /\ d_read_index \in [Readers -> Slots]
  BY <1>0 DEF TypeOK
<1>3. ItemsAvailable(r)' = n
  BY <1>1, <1>2, GoBack DEF ItemsAvailable
<1>4. Len(Window(r)') = n
  BY <1>3, WindowIsSeqNext
<1>5. \A q \in d_readers : Window(q)' = Window(q)
  BY <1>1, <1>2 DEF Window, ItemAt, ItemsAvailable
<1>6. Queues' = [Queues EXCEPT ![r] = Window(r)']
  BY <1>1, <1>2, <1>5 DEF Queues
<1>7. Queues'[r] = Window(r)'
  BY <1>6 DEF Queues
<1>8. Len(Queues'[r]) <= MaxPreload
  BY <1>4, <1>7
<1>9. Queues' = [Queues EXCEPT ![r] = Queues'[r]]
  BY <1>6, <1>7
<1> QED
  BY <1>1, <1>8, <1>9 DEF Fifo!Attach

LEMMA DropDetaches ==
  ASSUME TypeOK, NEW r \in Readers, DropReader(r)
  PROVE  Fifo!Detach(r)
<1>1. /\ r \in d_readers /\ d_readers' = d_readers \ {r}
      /\ UNCHANGED <<base, d_write_index, d_abs_write_offset, d_read_index>>
  BY DEF DropReader, indexVars
<1>2. \A q \in Readers : Window(q)' = Window(q)
  BY <1>1 DEF Window, ItemAt, ItemsAvailable, IndexAdd, IndexSub
<1>3. Queues' = [Queues EXCEPT ![r] = << >>]
  BY <1>1, <1>2 DEF Queues
<1> QED
  BY <1>1, <1>3 DEF Fifo!Detach

-----------------------------------------------------------------------------
(* Every reader of a gr::buffer gets everything written since it attached, *)
(* once and in order, and the writer is never more than d_bufsize - 1      *)
(* items ahead of it.                                                      *)
THEOREM BufferImplementsFifo == Spec => ImplementsFifo
<1>1. Init => Fifo!Init
  BY DEF Init, Fifo!Init, Queues
<1>2. TypeOK /\ TypeOK' /\ Facts /\ SlotInv /\ [Next]_vars => [Fifo!Next]_(Fifo!vars)
  <2> SUFFICES ASSUME TypeOK, TypeOK', Facts, SlotInv, [Next]_vars
               PROVE  [Fifo!Next]_(Fifo!vars)
    OBVIOUS
  <2> USE BufSizeAssumption
  <2>1. ASSUME NEW r \in Readers, NEW n \in 0..MaxPreload, AddReader(r, n)
        PROVE  Fifo!Next
    BY <2>1, AddAttaches DEF Fifo!Next
  <2>2. ASSUME NEW r \in Readers, DropReader(r) PROVE Fifo!Next
    BY <2>2, DropDetaches DEF Fifo!Next
  <2>3. ASSUME NEW n \in 1..BufSize, Produce(n) PROVE Fifo!Next
    <3>1. n \in 1..(BufSize - 1)
      BY <2>3 DEF Produce, TypeOK
    <3>2. Fifo!Send(n)
      BY <2>3, <3>1, PublishSends DEF Produce, readerVars
    <3> QED
      BY <3>1, <3>2 DEF Fifo!Next
  <2>4. ASSUME NEW n \in 0..BufSize, ProduceEach(n)
        PROVE  Fifo!Next \/ UNCHANGED Fifo!vars
    <3>1. CASE n = 0
      <4>1. /\ IndexAdd(d_write_index, 0) = d_write_index
            /\ d_abs_write_offset + 0 = d_abs_write_offset
        BY DEF TypeOK, Slots, IndexAdd
      <4>2. UNCHANGED <<base, d_write_index, d_abs_write_offset, d_readers,
                        d_read_index>>
        BY <2>4, <3>1, <4>1 DEF ProduceEach, UpdateWritePointer, readerVars
      <4> QED
        BY <4>2, WindowsUnchanged DEF Fifo!vars, ItemAt, IndexAdd
    <3>2. CASE n # 0
      <4>1. n \in 1..(BufSize - 1)
        BY <2>4, <3>2 DEF ProduceEach, TypeOK
      <4>2. Fifo!Send(n)
        BY <2>4, <4>1, PublishSends DEF ProduceEach, readerVars
      <4> QED
        BY <4>1, <4>2 DEF Fifo!Next
    <3> QED
      BY <3>1, <3>2
  <2>5. ASSUME NEW r \in Readers, NEW n \in 1..BufSize, Consume(r, n)
        PROVE  Fifo!Next
    BY <2>5, ConsumeTakes DEF Fifo!Next
  <2>6. CASE WriteItems
    <3>1. UNCHANGED <<d_write_index, d_abs_write_offset, d_readers, d_read_index>>
      BY <2>6 DEF WriteItems, indexVars, readerVars
    <3>2. ASSUME NEW r \in d_readers, NEW j \in 0..(ItemsAvailable(r) - 1)
          PROVE  ItemAt(r, j)' = ItemAt(r, j)
      BY <2>6, <3>2, StoresStayOutside
    <3> QED
      BY <3>1, <3>2, WindowsUnchanged DEF Fifo!vars
  <2>7. ASSUME UNCHANGED <<base, indexVars, readerVars>>
        PROVE  UNCHANGED Fifo!vars
    BY <2>7, WindowsUnchanged
    DEF Fifo!vars, indexVars, readerVars, ItemAt, IndexAdd
  <2>8. CASE MinAvailableSpace
    BY <2>7, <2>8 DEF MinAvailableSpace
  <2>9. ASSUME NEW o \in TagOffsets, AddItemTag(o) PROVE UNCHANGED Fifo!vars
    BY <2>7, <2>9 DEF AddItemTag
  <2>10. ASSUME NEW r \in Readers, SampleInput(r) PROVE UNCHANGED Fifo!vars
    BY <2>7, <2>10 DEF SampleInput
  <2>11. ASSUME NEW r \in Readers, NEW t \in d_item_tags, RemoveItemTag(r, t)
         PROVE  UNCHANGED Fifo!vars
    BY <2>7, <2>11 DEF RemoveItemTag
  <2>12. ASSUME NEW r \in Readers, PropagateTags(r) PROVE UNCHANGED Fifo!vars
    BY <2>7, <2>12 DEF PropagateTags
  <2>13. CASE UNCHANGED vars
    BY <2>7, <2>13 DEF vars
  <2> QED
    BY <2>1, <2>2, <2>3, <2>4, <2>5, <2>6, <2>8, <2>9, <2>10, <2>11, <2>12, <2>13
    DEF Next, WriterNext, ReaderNext, ConfigureNext
<1> QED
  BY <1>1, <1>2, BufferTyping, BufferCountInv, FactsHold, BufferSlotInv, PTL
  DEF Spec, ImplementsFifo, Fifo!Spec
=============================================================================
