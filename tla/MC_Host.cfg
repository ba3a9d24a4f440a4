CONSTANTS
  p1 = p1
  p2 = p2
  t1 = t1
  t2 = t2
  v1 = v1
  v2 = v2
  f1 = f1
  f2 = f2
  f3 = f3
  None = None
  Deployers = {p1, p2}
  Tags = {t1, t2}
  Args = {v1, v2}
  Matches <- MC_Matches
  Files = {f1, f2, f3}
SPECIFICATION HostSpec
SYMMETRY Symmetry
INVARIANTS DoneMeansInstalled OnlyListedRuns ShowsOwnList
CHECK_DEADLOCK FALSE
