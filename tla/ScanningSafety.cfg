SPECIFICATION FairSpec
CONSTANTS
  Instances = {i1}
  Calls = {c1, c2}
  NoInstance = NoInstance
  Pools = {p1}
  Fallback = {p0}
  MaxScans = 3
  MaxFaults = 1
INVARIANTS TypeOK StoreOrdered
PROPERTIES AnswersMonotone Populated
