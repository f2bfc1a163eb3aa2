SPECIFICATION Spec
CONSTANTS
  Owners = {o1}
  Wallets = {w1}
  NoWallet = NoWallet
  Requests = {r1, r2}
  NoRequest = NoRequest
  Events = {"overlap"}
  MaxSeq = 1
SYMMETRY Symmetry
INVARIANTS RegisteredIdsNameRules
CHECK_DEADLOCK FALSE
