SPECIFICATION Spec
CONSTANTS
  d = d  b = b  n = n
  Users = {d, b, n}
  Cells = {c1}
  NoCell = NoCell
  Constraint <- MCConstraint
  Bound <- MCBound
  Options <- MCOptions
  T = 1
  TimeMax = 3
PROPERTIES HandsOutLoadedOids
