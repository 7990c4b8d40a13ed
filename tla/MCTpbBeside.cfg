SPECIFICATION Spec
CONSTANTS
  src = src
  one = one
  two = two
  add = add
  snk = snk
  s = s
  a = a
  b = b
  Endless = Endless
  Blocks <- DiamondBlocks
  Buffers <- DiamondBuffers
  Ins <- DiamondIns
  Outs <- DiamondOuts
  Readers <- DiamondReaders
  Order <- DiamondOrder
  Rate <- DiamondRate
  Supply <- HeadBeside
  BufSize <- BesideSizes
  Droppers <- Nothing
  PartialWork = TRUE
  StopAllowed = FALSE
  OwnMax <- DiamondOwnMax
  GlobalMax = 100
INVARIANTS
  EndOfStream

