SPECIFICATION Spec
CONSTANTS
  token = token
  certs = certs
  Fields = {token, certs}
  Certs = {certs}
  a = a
  b = b
  Values = {a, b}
  NoValue = NoValue
  home = home
  work = work
  Keyrings = {home, work}
  Weak = Weak
  Refuses = Refuses
  MaxKeys = 3
  MaxLaunches = 3
SYMMETRY Symmetry
INVARIANT SessionReadsBack
CHECK_DEADLOCK FALSE
