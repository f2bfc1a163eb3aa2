SPECIFICATION Spec
CONSTANTS
  Owners = {o1}
  NoOwner = NoOwner
  Wallets = {w1}
  NoWallet = NoWallet
  Instances = {i1, i2}
  Calls = {c1, c2}
  NoInstance = NoInstance
  Requests = {r1}
  Hashes = {h1, h2}
  NoHash = NoHash
  OldSupply = OldSupply
  PerTxCap = 1
  MaxIdle = 2
  Events = {"rpc", "late", "db", "crash", "mint", "unregister", "reset"}
SYMMETRY Symmetry
INVARIANTS TypeOK OneTickPerInstance RecordedIsBacked NoDoubleCredit
