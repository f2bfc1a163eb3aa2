SPECIFICATION Spec
CONSTANTS
  SetReserveTries = 4
  MaxFaults = 3
INVARIANTS TypeOK RecordedFitTogether
PROPERTIES CompletesOrStranded
