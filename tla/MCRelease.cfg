SPECIFICATION Spec
CONSTANTS
  Commits = {c1, c2, c3}
  None = None
  Procs = {p1, p2}
  Builders = {p1}
  Updaters = {}
  MaxBad = 2
SYMMETRY Symmetry
INVARIANTS TypeOK Reconcilable ReleasesUsable
PROPERTIES Transactional
