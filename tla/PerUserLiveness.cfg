SPECIFICATION FairSpec
CONSTANTS
  Owners = {o1}
  NoOwner = NoOwner
  Wallets = {w1}
  NoWallet = NoWallet
  Instances = {i1, i2}
  Calls = {c1, c2}
  NoInstance = NoInstance
  Requests = {}
  Hashes = {h1, h2, h3, h4}
  NoHash = NoHash
  OldSupply = OldSupply
  PerTxCap = 1
  MaxIdle = 2
  Events = {}
PROPERTIES TickEnds EventuallySupplied
