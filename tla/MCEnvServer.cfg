SPECIFICATION ServerFairSpec
CONSTANTS
  Temps = {3}
  MinTemp = 1
  MaxTemp = 3
  MinHyst = 1
  MaxHyst = 2
  MinDwell = 1
  MaxDwell = 1
  ControlSamples = 1
  RecoverSamples = 1
  Slots = {s1}
  InitPolicies <- MCBoot
  Settings = {}
  UserModes = {}
  ClientSettings <- MCSettings
  ClientModes = {"auto"}
  Delays = {0}
  Spans = {1}
  Lease = 1
  Patience = 1
  Grace = 1
  HoldTime = 1
  MaxGen = 3
  MaxFaults = 1
  MaxLate = 0
  None = None
  Instances = {d1, d2}
  Clients = {c1, c2}
  Requests = {r1, r2}
  Setups <- MCSetups
INVARIANTS OneDaemon
PROPERTIES NoLostUpdate HoldEnds StuckLineRecovers TimedRunEnds
