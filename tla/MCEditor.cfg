CONSTANTS
  MaxLen = 9
  MaxHistory = 2
  Indent = 2
  KeySets <- Sessions
  Symbols <- Scope
  Keywords <- Reserved
  BlockWords <- Blocks
  Fill <- Memory
  MaxKeys = 7
SPECIFICATION Spec
INVARIANT HistoryKept
PROPERTY DraftKept
