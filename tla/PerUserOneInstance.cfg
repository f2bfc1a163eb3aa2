SPECIFICATION Spec
CONSTANTS
  Owners = {o1}
  NoOwner = NoOwner
  Wallets = {w1, w2}
  NoWallet = NoWallet
  Instances = {i1}
  Calls = {c1, c2}
  NoInstance = NoInstance
  Requests = {}
  Hashes = {h1, h2}
  NoHash = NoHash
  OldSupply = OldSupply
  PerTxCap = 1
  MaxIdle = 2
  Events = {"rpc", "late", "db", "crash"}
SYMMETRY Symmetry
PROPERTIES ImplementsSupplyLedger
