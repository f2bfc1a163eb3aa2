SPECIFICATION FairSpec
CONSTANTS
  Plan <- AllKinds
  Drivers = {d1, d2}
  NoDriver = NoDriver
  EmptyLock = EmptyLock
  Attempts = 2
  MaxFaults = 2
  Hazards = {"error", "lost", "kill", "torn", "flags"}
INVARIANTS TypeOK OneDriver RecordedWasDone DuplicatesExplained OneAccountPerWallet SummaryBalances
PROPERTIES RecordsSurvive PlanCompletes
