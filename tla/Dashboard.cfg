SPECIFICATION Spec
CONSTANTS
  Owners = {o1, o2}
  NoOwner = NoOwner
  Unknown = Unknown
  NotRegistered = NotRegistered
  Runs = {r1, r2}
  MaxAccounts = 2
  MaxLookups = 2
SYMMETRY Symmetry
INVARIANTS TypeOK RegisteredIsOwn WorkShownIsDone ShownIsTrue
