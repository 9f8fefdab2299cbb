\* Two rows, three owners, as many tags as owners so that a fresh one is left.
SPECIFICATION Spec
CONSTANTS
  MaxHandles = 2
  Tags = {g1, g2, g3}
  Owners = {o1, o2, o3}
  FreshTags = TRUE
  None = None
SYMMETRY Symm
INVARIANTS TypeOK BitmapExact LookupFindsOwner StaleHandleDead
