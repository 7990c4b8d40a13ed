SPECIFICATION Spec
CONSTANTS
  Infinite <- NoLimit
  Blocks <- AllBlocks
  Signature <- AllSignatures
  Hiers <- FiveHiers
  Top <- TB
  MsgIn <- MsgBlocksIn
  MsgOut <- MsgBlocksOut
  Applications <- ThreeApps
  NoEndpoint = NoEndpoint
  NoParent = NoParent
  MaxListed = 2
CHECK_DEADLOCK FALSE
INVARIANTS
  TypeOK
  FlattenFollowsPaths
  LocksReachTop
