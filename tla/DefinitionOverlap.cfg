SPECIFICATION Spec
CONSTANTS
  NULL = NULL
  a = a  b = b  c = c  s1 = s1  s2 = s2  s3 = s3  t1 = t1  i1 = i1  r1 = r1  r2 = r2
  Names = {a, b, c}
  Ids = {s1, s2}
  Transitions = {t1}
  Instances = {i1}
  Editors = {r1}
  Renamers = {}
PROPERTIES
  DeleteFindsItEmpty
SYMMETRY Symmetry
CHECK_DEADLOCK FALSE
