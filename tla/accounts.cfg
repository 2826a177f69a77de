SPECIFICATION Spec
CONSTANTS
  ann = ann
  n5 = n5
  s1 = s1
  s2 = s2
  Names = {ann}
  Numbers = {n5}
  PagerOf <- Pagers
  InFile = {ann}
  Sessions = {s1, s2}
  ReverseHash = TRUE
  Rehash = Rehash
  Blank = Blank
  Given = Given
  NoRecord = NoRecord
SYMMETRY Alike
INVARIANTS
  ChangesStick
  AliasAgrees
  NobodyIsNameless
\* Every session ends.
CHECK_DEADLOCK FALSE
