SPECIFICATION Spec
CONSTANTS
  Temps = {1, 2, 3}
  MinTemp = 1
  MaxTemp = 3
  MinHyst = 1
  MaxHyst = 2
  MinDwell = 1
  MaxDwell = 2
  ControlSamples = 3
  RecoverSamples = 2
  InitPolicies <- MCInitPolicies
  Settings <- MCSettings
  MaxGen = 3
  Window = 3
INVARIANTS
  TypeOK
  FailSafe
  TrustIsEarned
PROPERTIES
  NoShortCycle
  OutlierCannotStart
  SemiNeverStartsItself
