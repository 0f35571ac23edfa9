SPECIFICATION Spec
CONSTANTS
  f = f
  f2 = f2
  r = r
  m = m
  g = g
  Workspace = Workspace
  Elsewhere = Elsewhere
  Ids = {f, f2, r, m, g}
  Parents = {Workspace, Elsewhere, f, f2, r}
  Folders = {f, f2}
  Requests = {r}
  Metas = {m}
  FolderMetas = {g}
  l1 = l1
  l2 = l2
  Loads = {l1, l2}
  WritesKept = 1
  Instances <- MCInstances
  MaxVersion = 3
SYMMETRY Symmetry
INVARIANTS LogTellsAll GivesWhatReadingItAllGives
CHECK_DEADLOCK FALSE
