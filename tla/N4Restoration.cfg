SPECIFICATION Spec
CONSTANTS
  Seid = {q1}
  NoSeid = none
  Configuration <- SmfAssociates
  MaxFault = 1
PROPERTIES
  RestorationKeepsNew
