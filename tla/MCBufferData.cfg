\* Two readers that come and go while the write index wraps, and a tag.
SPECIFICATION Spec
CONSTANTS
  Readers = {r1, r2}
  BufSize = 4
  MaxWritten = 5
  MaxPreload = 1
  MaxConsumes = 1
  AttachAt = {0, 2}
  TagOffsets = {2}
  CallsProduce = TRUE
SYMMETRY ReaderSymmetry
INVARIANTS TypeOK SamplesHold WindowIntact UnreadTagsKept
PROPERTIES ImplementsFifo
\* The stream ends after MaxWritten items.
CHECK_DEADLOCK FALSE
