SPECIFICATION Spec
CONSTANTS
  Owners = {o1}
  Wallets = {w1, w2}
  NoWallet = NoWallet
  Requests = {r1, r2, r3}
  NoRequest = NoRequest
  Events = {"rpc", "late", "db", "crash"}
  MaxSeq = 1
SYMMETRY Symmetry
INVARIANTS TypeOK RegisteredIdsNameRules AnswersAreOwn
CHECK_DEADLOCK FALSE
