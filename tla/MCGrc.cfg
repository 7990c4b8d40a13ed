SPECIFICATION Spec
CONSTANTS
  Variables = {"n", "m"}
  BlockIds = {"tone", "tone_0", "adder", "mixer"}
  Cloned <- MCCloned
  Fixed <- MCFixed
  NoNamespace = NoNamespace
  Exprs <- MCExprs
  Selections = {{"tone", "adder"}}
  CopyOf <- MCCopyOf
  Files <- MCFiles
  STATE_CACHE_SIZE = 2
  Graphs = {}
  NoState = NoState
  MaxActs = 4
INVARIANTS
  TypeOK
  DerivedInStep
  RecordedIsShown
  PortsFollowUnlessCut
PROPERTIES
  RestoreLosesOnlyUnfit
