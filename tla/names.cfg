CONSTANTS
  a = a
  c = c
  e = e
  Empty = Empty
  Name = {Empty, a, c, e}
  Index = {0, 1}
  IndexOf <- HashIndex
  Holder = {x1, x2, x3}
  MaxUsage = 4
SPECIFICATION Spec
SYMMETRY Symmetry
INVARIANTS TypeOK NamesKept SameNameSameHandle FindFindsHolders UsageCoversHolders
