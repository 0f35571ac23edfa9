SPECIFICATION Spec
CONSTANTS
  kim = kim
  lee = lee
  s1 = s1
  main = main
  dev = dev
  c1 = c1
  c2 = c2
  c3 = c3
  k1 = k1
  k2 = k2
  p1 = p1
  p2 = p2
  Users = {kim, lee}
  FirstAdmin = kim
  Slugs = {s1}
  Refs = {main}
  Granted = {"editor"}
  Calls = {c1, c2, c3}
  Commands = {k1, k2}
  Pushes = {}
  MaxRepos = 2
  MaxBegun = 5
SYMMETRY Symmetry
INVARIANTS AnAdminStays
CHECK_DEADLOCK FALSE
