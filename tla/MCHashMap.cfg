SPECIFICATION Spec
INVARIANTS TypeOK LookupExact KeysDistinct OneSlotEach
PROPERTIES EntriesKeepPlace ImplementsStringMap
CONSTANTS
  k1 = k1  k2 = k2  k3 = k3  k4 = k4  k5 = k5  k6 = k6
  Keys = {k1, k2, k3, k4}
  NoKey = NoKey
  NULL = NULL
  Junk = Junk
  Ops = {"put", "intern", "inc"}
  PutValues = {ptr}
  MaxCount = 2
  MinCapacity = 4
  MaxDoublings = 2
  Hash <- MCHash
CHECK_DEADLOCK FALSE
