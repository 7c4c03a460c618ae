SPECIFICATION Spec
CONSTANTS
  Commits = {c1, c2}
  None = None
  Procs = {p1}
  Builders = {p1}
  Updaters = {}
  MaxBad = 1
INVARIANT AlwaysReconcilable
