SPECIFICATION Spec
CONSTANTS
  src = src
  one = one
  two = two
  add = add
  snk = snk
  s = s
  a = a
  b = b
  Endless = Endless
  Blocks <- DiamondBlocks
  Buffers <- DiamondBuffers
  Ins <- DiamondIns
  Outs <- DiamondOuts
  Readers <- DiamondReaders
  Order <- DiamondOrder
  Rate <- DiamondRate
  Supply <- DiamondSupply
  BufSize <- DiamondSizes
  Droppers <- Nothing
  PartialWork = FALSE
  StopAllowed = FALSE
  OwnMax <- DiamondOwnMax
  GlobalMax = 100
INVARIANTS
  StreamsFlowToTheEnd

