SPECIFICATION FairSpec
CONSTANTS
  Installers = {i1, i2}
  None = None
  Dead = Dead
  Fragile <- MCFragile
  Slots <- MCSlots
  MaxFaults <- MCMaxFaults
INVARIANTS PlanOrdered OneInstaller LedgerTruth SuccessIsConverged
PROPERTY Converges
