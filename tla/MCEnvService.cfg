SPECIFICATION Spec
CONSTANTS
  Temps = {1, 3}
  MinTemp = 1
  MaxTemp = 3
  MinHyst = 1
  MaxHyst = 2
  MinDwell = 1
  MaxDwell = 2
  ControlSamples = 1
  RecoverSamples = 1
  Slots = {s1, s2}
  InitPolicies <- MCBootSemi
  Settings <- MCSettings
  UserModes = {"auto", "disabled"}
  Delays = {0}
  Spans = {2}
  Lease = 3
  Patience = 1
  Grace = 1
  HoldTime = 1
  MaxGen = 3
  MaxFaults = 1
  MaxLate = 0
SYMMETRY MCSlots
VIEW MCView
INVARIANTS
  TypeOK
  CommandTruth
  HoldKeepsOff
  HoldNotPersisted
PROPERTIES
  TimersRespectDwell
