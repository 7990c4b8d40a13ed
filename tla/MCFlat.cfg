SPECIFICATION FlatSpec
CONSTANTS
  NoReader = NoReader
  Infinite <- NoLimit
  Blocks <- FourBlocks
  Signature <- FourSignatures
  Settings <- FourSettings
  Cables <- SomeCables
  MsgCables <- OneMsgCable
  SortedCables <- AllArrows
  FixedItems = 4
  Granularity = 2
  Alignment = 4
  MaxStarts = 2
  MaxItems = 2
CHECK_DEADLOCK FALSE
INVARIANTS
  FlatTypeOK
  ReadersAreInPlace
  OrdersAreGood
PROPERTIES
  SurvivorsKeepTheirPlace
