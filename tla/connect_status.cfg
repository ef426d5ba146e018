SPECIFICATION StraySpec
CONSTANTS
  Null = Null
  Junk = Junk
  Cells = {c1, c2, c3, c4, c5}
  Fresh = {Null}
  GNodes = {u1, u2, u3}
  Compares = {f}
  Items = {i1, i2}
  Values = {d1, d2}
  MaxMine = 3
  MaxItems = 3
  Programs <- MCPrograms
PROPERTY SuccessConnects
CONSTRAINT Bounds
VIEW View
SYMMETRY Alike
CHECK_DEADLOCK FALSE
