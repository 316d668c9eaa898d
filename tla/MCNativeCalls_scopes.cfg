CONSTANTS
  a = a
  d = d
  s1 = s1
  s2 = s2
  s3 = s3
  Instances = {a, d}
  Strings = {s1, s2, s3}
  Destructible = {d}
  MaxDepth = 3
  MaxTemps = 3
  InitCapacity = 1
  Noisy = FALSE
  NULL = NULL
SPECIFICATION Spec
SYMMETRY StringSymmetry
INVARIANTS CountsExact HeldAlive ExceptionKept ReleasedAtHost
PROPERTY CallerTempsKept
