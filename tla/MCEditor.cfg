SPECIFICATION Spec
CONSTANTS
  STATE_CACHE_SIZE = 2
  NoState = NoState
  Pages = {p1, p2}
  NoPage = NoPage
  Files = {a}
  NoFile = NoFile
  ReadOnly = {}
  Graphs = {"blank", "full"}
  BlankGraph = "blank"
  Valid = {"full"}
  Imported <- MCImported
  Scripts = {"top_block"}
  ScriptOf <- MCScriptOf
  Damaged = Damaged
  Pids = {k1}
  NoProc = NoProc
  MaxActs = 4
INVARIANTS
  TypeOK
  PagesAgree
  ProcessesCanBeStopped
PROPERTIES
  CachesAreHistories
  AskedBeforeLost
  KilledIsNoticed
