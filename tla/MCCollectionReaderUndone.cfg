SPECIFICATION Spec
CONSTANTS
  f = f
  f2 = f2
  r = r
  m = m
  g = g
  Workspace = Workspace
  Elsewhere = Elsewhere
  Ids = {f, f2, r, m, g}
  Parents = {Workspace, Elsewhere, f, f2, r}
  Folders = {f, f2}
  Requests = {r}
  Metas = {m}
  FolderMetas = {g}
  l1 = l1
  Loads = {l1}
  WritesKept = 1
  Instances <- MCInstances
  MaxVersion = 3
INVARIANT GivesAllThatIsThere
CHECK_DEADLOCK FALSE
