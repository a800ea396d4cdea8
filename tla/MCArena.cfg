SPECIFICATION Spec
INVARIANTS HeldIntact NoOverrun Canonical ProbeEnds
CONSTANTS
  foo = foo  bar = bar  baz = baz
  Strings = {foo, bar}
  Words <- MCWords
  Hash <- MCHash
  Data = Data
  Requests = {2, 4}
  BlockSize = 3
  FirstSlots = 2
  NoTable = NoTable
  NULL = NULL
  MaxBlocks = 3
  MaxSlots = 8
CHECK_DEADLOCK FALSE
