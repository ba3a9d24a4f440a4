CONSTANTS
  a = a
  b = b
  Procs = {p1, p2}
  Inodes = {i1, i2, i3}
  Bytes = {a, b}
  None = None
  Texts <- MC_Texts
  LinkLens = {1, 3}
  top = top
  d1 = d1
  d2 = d2
  d3 = d3
  f1 = f1
  f2 = f2
  f3 = f3
  f4 = f4
  f5 = f5
  Root = top
  Dirs = {top, d1, d2, d3}
  Listings <- MC_Listings
  NameLen <- MC_NameLen
  RootLens = {0, 1, 2, 3, 5}
  PATH_MAXLEN = 10
  Stop = Stop
  Running = Running
  Leftover = Leftover
  NoName = NoName
  MaxGone = 2
  LastSecond = 6
  Nanos = {0, 499999, 500000, 999499999, 999500000, 999999999}
  IntHalf = 4
  Stamps <- MC_Stamps
SPECIFICATION Spec
CHECK_DEADLOCK FALSE
SYMMETRY Symmetry
INVARIANT AckedIsKept
INVARIANT ShowsTree
INVARIANT PathRestored
INVARIANT BufferHolds
PROPERTY LoadsWhole
INVARIANT AgeTells
INVARIANT ReadsBack
PROPERTY ClockKeepsUp
