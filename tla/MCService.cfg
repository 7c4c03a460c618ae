SPECIFICATION ServiceSpec
CONSTANTS
  c1 = c1
  c2 = c2
  Commits = {c1, c2}
  None = None
  Procs = {pre, p1}
  Builders = {p1}
  Updaters = {p1}
  MaxBad = 0
  Pre = pre
  large = large
  small = small
  Models = {large, small}
  Default = large
  Setups <- MCSetups
INVARIANTS ReadyIsTrue SelectionInForce
PROPERTIES StartSettles
CHECK_DEADLOCK FALSE
