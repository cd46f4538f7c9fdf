CONSTANTS
  Thread = {t1, t2}
  Sema = {s1, s2, s3}
  None = None
  MaxOwned = 3
SYMMETRY Symmetry
SPECIFICATION Spec
INVARIANT ListComplete
