------------------------------- MODULE Buffer -------------------------------
(***************************************************************************)
(* gr::buffer and its gr::buffer_readers: the single-writer, multi-reader  *)
(* circular buffer that carries one stream between the threads of two or   *)
(* more blocks, and the item tags that travel beside it.                   *)
(*                                                                         *)
(* The writing block's thread fills slots of the buffer WITHOUT holding    *)
(* the buffer's mutex and publishes them afterwards with                   *)
(* update_write_pointer; a reading block's thread samples how much there   *)
(* is, uses it without the mutex, and gives it back with                   *)
(* update_read_pointer.  Every action below is one critical section of     *)
(* the mutex, or one unlocked access to the slots.                         *)
(*                                                                         *)
(* An item is represented by its number: the k-th item ever written (from  *)
(* 1) is k, and 0 is the zero item a fresh buffer is filled with.          *)
(***************************************************************************)
EXTENDS Integers, FiniteSets

CONSTANTS
  Readers,          \* identities for gr::buffer_reader objects
  BufSize,          \* d_bufsize, in items
  MaxWritten,       \* bound: items the writing block produces in all
  MaxPreload,       \* bound: largest nzero_preload (history - 1) of a reader
  MaxConsumes,      \* bound: calls of consume() within one general_work
  AttachAt,         \* write offsets at which the flowgraph is (re)configured
  TagOffsets,       \* item offsets the writing block attaches a tag to
  CallsProduce      \* TRUE: general_work calls produce() itself

(***************************************************************************)
(* A buffer holds at least two items, and flat_flowgraph::allocate_buffer  *)
(* makes it larger than the history of every block that reads it.          *)
(***************************************************************************)
ASSUME BufSizeAssumption == BufSize \in Nat /\ BufSize >= 2
ASSUME PreloadAssumption == MaxPreload \in Nat /\ MaxPreload < BufSize
ASSUME BoundsAssumption ==
  /\ MaxWritten \in Nat /\ MaxConsumes \in Nat
  /\ TagOffsets \subseteq Nat /\ AttachAt \subseteq Nat
  /\ CallsProduce \in BOOLEAN

VARIABLES
  base,                   \* the slots: slot -> item number
  d_write_index, d_abs_write_offset,
  d_readers,              \* readers attached to the buffer
  d_read_index, d_abs_read_offset,
  d_item_tags,            \* set of [offset, marked_deleted]
  d_last_min_items_read,
  writer,                 \* where the writing block's thread is
  granted,                \* noutput_items left to it in this general_work
  start_written,          \* nitems_written when general_work was called
  reader,                 \* where each reading block's thread is
  ninput_items,           \* what it sampled, less what it consumed since
  start_nitems_read,      \* d_start_nitems_read: tags are looked up from here
  consumes,               \* consume() calls in this general_work
  attach,                 \* history: [at, preload, clean] of each reader
  tagged,                 \* history: offsets a tag was ever attached to
  got                     \* history: tag offsets each reading block obtained

indexVars  == <<d_write_index, d_abs_write_offset>>
readerVars == <<d_readers, d_read_index, d_abs_read_offset, attach>>
tagVars    == <<d_item_tags, d_last_min_items_read, tagged, got>>
writerPc   == <<writer, granted, start_written>>
readerPc   == <<reader, ninput_items, start_nitems_read, consumes>>
vars == <<base, indexVars, readerVars, tagVars, writerPc, readerPc>>

-----------------------------------------------------------------------------
(***************************************************************************)
(* The index arithmetic.                                                   *)
(***************************************************************************)
Slots == 0..BufSize-1

(* Mutant: the wrap test is off by one.                                    *)
IndexAddLate(a, b) == IF a + b > BufSize THEN a + b - BufSize ELSE a + b

IndexAdd(a, b) == IF a + b >= BufSize THEN a + b - BufSize ELSE a + b

IndexSub(a, b) == IF a - b < 0 THEN a - b + BufSize ELSE a - b

ItemsAvailable(r) == IndexSub(d_write_index, d_read_index[r])

(* Mutants: the slot that tells full from empty is given away; only one of *)
(* the readers is asked.                                                   *)
SpaceForAll(n) == \A r \in d_readers : n <= BufSize - ItemsAvailable(r)
SpaceForOne(n) == /\ n <= BufSize - 1
                  /\ d_readers # {} =>
                       \E r \in d_readers : n <= BufSize - ItemsAvailable(r) - 1

(* Room for n more items: d_bufsize - most_data - 1, or d_bufsize - 1 when *)
(* there are no readers.                                                   *)
SpaceFor(n) == /\ n <= BufSize - 1
               /\ \A r \in d_readers : n <= BufSize - ItemsAvailable(r) - 1

(***************************************************************************)
(* What space_available does besides counting: when the slowest reader has *)
(* moved since the last call, the tags before the PREVIOUS minimum are     *)
(* pruned and the new minimum is remembered.                               *)
(***************************************************************************)
PruneTags(max_time) == {t \in d_item_tags : t.offset >= max_time}

(* Mutant: the fastest reader is taken for the slowest.                    *)
NoteMaxItemsRead ==
  IF d_readers = {}
  THEN UNCHANGED <<d_item_tags, d_last_min_items_read>>
  ELSE \E fastest \in d_readers :
         /\ \A r \in d_readers :
              d_abs_read_offset[fastest] >= d_abs_read_offset[r]
         /\ d_last_min_items_read' = d_abs_read_offset[fastest]
         /\ d_item_tags' = PruneTags(d_last_min_items_read)

NoteMinItemsRead ==
  IF d_readers = {}
  THEN UNCHANGED <<d_item_tags, d_last_min_items_read>>
  ELSE \E slowest \in d_readers :
         /\ \A r \in d_readers :
              d_abs_read_offset[slowest] <= d_abs_read_offset[r]
         /\ d_last_min_items_read' = d_abs_read_offset[slowest]
         /\ d_item_tags' = IF d_last_min_items_read' # d_last_min_items_read
                           THEN PruneTags(d_last_min_items_read)
                           ELSE d_item_tags

(* Tags of [start, end) that block r has not removed.                      *)
TagsInRange(r, start, end) ==
  {t \in d_item_tags : t.offset >= start /\ t.offset < end
                       /\ r \notin t.marked_deleted}

-----------------------------------------------------------------------------
Init ==
  /\ base = [i \in Slots |-> 0]
  /\ d_write_index = 0
  /\ d_abs_write_offset = 0
  /\ d_readers = {}
  /\ d_read_index = [r \in Readers |-> 0]
  /\ d_abs_read_offset = [r \in Readers |-> 0]
  /\ d_item_tags = {}
  /\ d_last_min_items_read = 0
  /\ writer = "idle"
  /\ granted = 0
  /\ start_written = 0
  /\ reader = [r \in Readers |-> "idle"]
  /\ ninput_items = [r \in Readers |-> 0]
  /\ start_nitems_read = [r \in Readers |-> 0]
  /\ consumes = [r \in Readers |-> 0]
  /\ attach = [r \in Readers |-> [at |-> 0, preload |-> 0, clean |-> FALSE]]
  /\ tagged = {}
  /\ got = [r \in Readers |-> {}]

(***************************************************************************)
(* Readers come and go only while the flowgraph is being configured: no    *)
(* block's thread is running then.  A new reader starts nzero_preload      *)
(* items behind the write index, with d_abs_read_offset 0 whatever the     *)
(* write offset is.                                                        *)
(***************************************************************************)
Configuring == /\ writer = "idle"
               /\ \A r \in d_readers : reader[r] = "idle"
               /\ d_abs_write_offset \in AttachAt

AddReader(r, nzero_preload) ==
  /\ Configuring
  /\ r \notin d_readers
  /\ d_readers' = d_readers \cup {r}
  /\ d_read_index' = [d_read_index EXCEPT
                        ![r] = IndexSub(d_write_index, nzero_preload)]
  /\ d_abs_read_offset' = [d_abs_read_offset EXCEPT ![r] = 0]
  /\ attach' = [attach EXCEPT ![r] =
                  [at |-> d_abs_write_offset, preload |-> nzero_preload,
                   clean |-> base = [i \in Slots |-> 0]]]
  /\ got' = [got EXCEPT ![r] = {}]
  /\ UNCHANGED <<base, indexVars, d_item_tags, d_last_min_items_read, tagged,
                 writerPc, readerPc>>

DropReader(r) ==
  /\ Configuring
  /\ r \in d_readers
  /\ d_readers' = d_readers \ {r}
  /\ UNCHANGED <<base, indexVars, d_read_index, d_abs_read_offset, attach,
                 tagVars, writerPc, readerPc>>

(***************************************************************************)
(* The writing block's thread.  min_available_space limits noutput_items   *)
(* to half the buffer; rounding, alignment and max_noutput_items may leave *)
(* any smaller number.  With no room the block stays blocked on output,    *)
(* but space_available has done its bookkeeping all the same.              *)
(***************************************************************************)
MinAvailableSpace ==
  /\ writer = "idle"
  /\ NoteMinItemsRead
  /\ start_written' = d_abs_write_offset
  /\ \/ /\ ~SpaceFor(1)
        /\ UNCHANGED <<writer, granted>>
     \/ \E n \in 1..(BufSize \div 2) :
          /\ SpaceFor(n)
          /\ d_abs_write_offset + n <= MaxWritten
          /\ granted' = n
          /\ writer' = "granted"
  /\ UNCHANGED <<base, indexVars, readerVars, tagged, got, readerPc>>

(* general_work stores into the slots from write_pointer() on, unlocked.   *)
WriteItems ==
  /\ writer = "granted"
  /\ writer' = "written"
  /\ base' = [i \in Slots |->
                LET k == IndexSub(i, d_write_index)
                IN  IF k < granted THEN d_abs_write_offset + k + 1 ELSE base[i]]
  /\ UNCHANGED <<indexVars, readerVars, tagVars, granted, start_written,
                 readerPc>>

(***************************************************************************)
(* A tag is attached to an item of this general_work, by the block itself  *)
(* or by the executor's propagate_tags, which runs before produce_each but *)
(* after any produce() of the block's own.                                 *)
(***************************************************************************)
AddItemTag(offset) ==
  /\ writer = "written"
  /\ offset \notin tagged
  /\ offset >= start_written
  /\ offset < d_abs_write_offset + granted
  /\ d_item_tags' = d_item_tags \cup {[offset |-> offset, marked_deleted |-> {}]}
  /\ tagged' = tagged \cup {offset}
  /\ UNCHANGED <<base, indexVars, readerVars, d_last_min_items_read, got,
                 writerPc, readerPc>>

(* Mutant: one item more is published than was counted.                    *)
PublishOneMore(n) ==
  /\ d_write_index' = IndexAdd(d_write_index, n + 1)
  /\ d_abs_write_offset' = d_abs_write_offset + n

UpdateWritePointer(n) ==
  /\ d_write_index' = IndexAdd(d_write_index, n)
  /\ d_abs_write_offset' = d_abs_write_offset + n

(* produce() called from within general_work.                              *)
Produce(n) ==
  /\ CallsProduce
  /\ writer = "written"
  /\ n <= granted
  /\ UpdateWritePointer(n)
  /\ granted' = granted - n
  /\ UNCHANGED <<base, readerVars, tagVars, writer, start_written, readerPc>>

(* general_work returned n: produce_each, which ignores n = 0.  A block    *)
(* that called produce() returns WORK_CALLED_PRODUCE.                      *)
ProduceEach(n) ==
  /\ writer = "written"
  /\ n <= granted
  /\ CallsProduce => n = 0
  /\ UpdateWritePointer(n)
  /\ writer' = "idle"
  /\ granted' = 0
  /\ start_written' = d_abs_write_offset'
  /\ UNCHANGED <<base, readerVars, tagVars, readerPc>>

(***************************************************************************)
(* A reading block's thread.  It keeps its history: of the items it sees,  *)
(* the oldest nzero_preload are not its to consume.                        *)
(***************************************************************************)
SampleInput(r) ==
  /\ r \in d_readers
  /\ reader[r] = "idle"
  /\ ItemsAvailable(r) > attach[r].preload
  /\ reader' = [reader EXCEPT ![r] = "working"]
  /\ ninput_items' = [ninput_items EXCEPT ![r] = ItemsAvailable(r)]
  /\ start_nitems_read' = [start_nitems_read EXCEPT ![r] = d_abs_read_offset[r]]
  /\ consumes' = [consumes EXCEPT ![r] = 0]
  /\ UNCHANGED <<base, indexVars, readerVars, tagVars, writerPc>>

(* consume(): update_read_pointer.                                         *)
Consume(r, n) ==
  /\ reader[r] = "working"
  /\ consumes[r] < MaxConsumes
  /\ n <= ninput_items[r] - attach[r].preload
  /\ d_read_index' = [d_read_index EXCEPT ![r] = IndexAdd(@, n)]
  /\ d_abs_read_offset' = [d_abs_read_offset EXCEPT ![r] = @ + n]
  /\ ninput_items' = [ninput_items EXCEPT ![r] = @ - n]
  /\ consumes' = [consumes EXCEPT ![r] = @ + 1]
  /\ UNCHANGED <<base, indexVars, d_readers, attach, tagVars, writerPc, reader,
                 start_nitems_read>>

(* The block takes a tag of its input out of its own sight, which it does  *)
(* when it has read the tag and acts on it itself.                         *)
RemoveItemTag(r, t) ==
  /\ reader[r] = "working"
  /\ t \in TagsInRange(r, start_nitems_read[r],
                       d_abs_read_offset[r] + ninput_items[r] - attach[r].preload)
  /\ d_item_tags' = (d_item_tags \ {t})
         \cup {[t EXCEPT !.marked_deleted = @ \cup {r}]}
  /\ got' = [got EXCEPT ![r] = @ \cup {t.offset}]
  /\ UNCHANGED <<base, indexVars, readerVars, d_last_min_items_read, tagged,
                 writerPc, readerPc>>

(* general_work returned: propagate_tags fetches the tags of the items     *)
(* that were consumed.                                                     *)
PropagateTags(r) ==
  /\ reader[r] = "working"
  /\ reader' = [reader EXCEPT ![r] = "idle"]
  /\ got' = [got EXCEPT ![r] = @ \cup
               {t.offset : t \in TagsInRange(r, start_nitems_read[r],
                                             d_abs_read_offset[r])}]
  /\ ninput_items' = [ninput_items EXCEPT ![r] = 0]
  /\ start_nitems_read' = [start_nitems_read EXCEPT ![r] = d_abs_read_offset[r]]
  /\ consumes' = [consumes EXCEPT ![r] = 0]
  /\ UNCHANGED <<base, indexVars, readerVars, d_item_tags,
                 d_last_min_items_read, tagged, writerPc>>

WriterNext ==
  \/ MinAvailableSpace
  \/ WriteItems
  \/ \E offset \in TagOffsets : AddItemTag(offset)
  \/ \E n \in 1..BufSize : Produce(n)
  \/ \E n \in 0..BufSize : ProduceEach(n)

ReaderNext(r) ==
  \/ SampleInput(r)
  \/ \E n \in 1..BufSize : Consume(r, n)
  \/ \E t \in d_item_tags : RemoveItemTag(r, t)
  \/ PropagateTags(r)

ConfigureNext ==
  \E r \in Readers :
    \/ \E nzero_preload \in 0..MaxPreload : AddReader(r, nzero_preload)
    \/ DropReader(r)

Next == WriterNext \/ (\E r \in Readers : ReaderNext(r)) \/ ConfigureNext

Spec == Init /\ [][Next]_vars

-----------------------------------------------------------------------------
Tags == [offset : Nat, marked_deleted : SUBSET Readers]

(* Every variable stays in the range its declaration gives it; in          *)
(* particular both indices stay in [0, d_bufsize), which index_add and     *)
(* index_sub assert.                                                       *)
TypeOK ==
  /\ base \in [Slots -> Nat]
  /\ d_write_index \in Slots
  /\ d_abs_write_offset \in Nat
  /\ d_readers \subseteq Readers
  /\ d_read_index \in [Readers -> Slots]
  /\ d_abs_read_offset \in [Readers -> Nat]
  /\ d_item_tags \subseteq Tags
  /\ d_last_min_items_read \in Nat
  /\ writer \in {"idle", "granted", "written"}
  /\ granted \in 0..(BufSize - 1)
  /\ start_written \in Nat
  /\ reader \in [Readers -> {"idle", "working"}]
  /\ ninput_items \in [Readers -> 0..(BufSize - 1)]
  /\ start_nitems_read \in [Readers -> Nat]
  /\ consumes \in [Readers -> Nat]
  /\ attach \in [Readers -> [at : Nat, preload : 0..MaxPreload, clean : BOOLEAN]]
  /\ tagged \subseteq Nat
  /\ got \in [Readers -> SUBSET Nat]

(***************************************************************************)
(* Positions in the stream.  The item a reader's block counts as its next  *)
(* one is the Position(r)-th of the stream (from 0); the first item in its *)
(* window lies nzero_preload before it.                                    *)
(***************************************************************************)
Position(r) == attach[r].at + d_abs_read_offset[r]

Backlog(r) == d_abs_write_offset - Position(r) + attach[r].preload

(* The two counts a reader is kept by never disagree: the distance between *)
(* the wrapped indices is the number of items written since it attached,   *)
(* plus its preload, less what it consumed.  A writer that lapped a reader *)
(* or a full buffer taken for an empty one (buffer::space_available,       *)
(* index_sub) would break it.                                              *)
CountsAgree == \A r \in d_readers : ItemsAvailable(r) = Backlog(r)

(* Every slot between a reader's index and the write index holds the item  *)
(* the reader is entitled to, in order, at every moment: while the writer  *)
(* fills further slots without the mutex (write_pointer) and while other   *)
(* readers run.  Items before the reader attached are zeros if it attached *)
(* to a fresh buffer.                                                      *)
ItemAt(r, j) == base[IndexAdd(d_read_index[r], j)]
Expected(r, j) == Position(r) - attach[r].preload + j + 1

WindowIntact ==
  \A r \in d_readers : \A j \in 0..(ItemsAvailable(r) - 1) :
    /\ Expected(r, j) > attach[r].at => ItemAt(r, j) = Expected(r, j)
    /\ attach[r].clean /\ Expected(r, j) <= attach[r].at => ItemAt(r, j) = 0

(* What a thread sampled under the mutex is still true when it acts on it  *)
(* without: the writer never holds more room than is free, and a reader    *)
(* never holds more items than are there (block_executor reads both and    *)
(* drops the lock before general_work runs).                               *)
GrantsStayValid ==
  /\ SpaceFor(granted)
  /\ \A r \in d_readers : ninput_items[r] <= ItemsAvailable(r)

(* Both: what the executors read under the mutexes counts items and room   *)
(* as the absolute offsets do, and goes on to hold while they work.        *)
SamplesHold == CountsAgree /\ GrantsStayValid

(* A tag on an item that some reader's block has yet to consume is still   *)
(* in the deque, and hidden from that block only if the block removed it   *)
(* itself: pruning is driven by another thread, removal by other readers.  *)
(* (prune_tags, remove_item_tag)                                           *)
UnreadTagsKept ==
  \A offset \in tagged : \A r \in d_readers :
    offset >= Position(r) =>
      \E t \in d_item_tags :
         /\ t.offset = offset
         /\ r \in t.marked_deleted => offset \in got[r]

-----------------------------------------------------------------------------
(* The buffer is a lossless FIFO to each of its readers.                   *)
Window(r) == [j \in 1..ItemsAvailable(r) |-> ItemAt(r, j - 1)]

Queues == [r \in Readers |-> IF r \in d_readers THEN Window(r) ELSE << >>]

Fifo == INSTANCE StreamFifo WITH
          Capacity <- BufSize - 1,
          sent <- d_abs_write_offset,
          attached <- d_readers,
          queue <- Queues

ImplementsFifo == Fifo!Spec
=============================================================================
