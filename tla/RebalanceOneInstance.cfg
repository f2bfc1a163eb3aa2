SPECIFICATION Spec
CONSTANTS
  Instances = {i1}
  Calls = {c1, c2}
  NoInstance = NoInstance
  NumPools = 2
  Apys = {1, 3}
  MinDelta = 2
  PerTxCap = 2
  DailyCap = 3
  Cooldown = 2
  Day = 2
  Modes = {"smart-account","keypair"}
  Events = {"db", "exec", "crash", "refresh", "unregister"}
  Start = 2
  MaxTime = 4
  MaxTotal = 2
  MaxExec = 4
SYMMETRY Symmetry
INVARIANTS TypeOK DailyCapHolds RecordedWasMoved
PROPERTIES MovesPay CooldownHolds
