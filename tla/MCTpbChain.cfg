SPECIFICATION Spec
CONSTANTS
  src = src
  one = one
  two = two
  add = add
  snk = snk
  s = s
  a = a
  b = b
  Endless = Endless
  Blocks <- ChainBlocks
  Buffers <- ChainBuffers
  Ins <- ChainIns
  Outs <- ChainOuts
  Readers <- ChainReaders
  Order <- ChainOrder
  Rate <- ChainDecimating
  Supply <- ChainSupply
  BufSize <- ChainSizes6
  Droppers <- OnlyOne
  PartialWork = FALSE
  StopAllowed = TRUE
  OwnMax <- NoOwnMax
  GlobalMax = 100
INVARIANTS
  TypeOK
  StreamsFlow
PROPERTIES
  RunsEnd
