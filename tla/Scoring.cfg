SPECIFICATION Spec
CONSTANTS
  BlendPools <- MCBlendPools
  Strategies <- MCStrategies
  FallbackTvl = 100000
  Apys = {1, 2}
  Tvls = {49999, 50000}
  Utils = {2000, 5000, 9000}
  Ages = {3600, 3601}
  PlateWidth = 320
  Crags <- MCCrags
  LabelWidth = 90
  RouteLabelWidth = 200
  LabelHeight = 16
INVARIANTS TypeOK BestIsFirstHighest BolderSeesMore RiskOrdered CapDividesPlate LabelsClear
CHECK_DEADLOCK FALSE
