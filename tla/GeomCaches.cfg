SPECIFICATION Spec
CONSTANTS
  None = None
  A = A
  B = B
  E = E
  a1 = a1
  ai = ai
  b1 = b1
  ei = ei
  prep = prep
  itree = itree
  Geometry = {A, B, E}
  Datum = {a1, ai, b1, ei}
  OnDisk = {a1, b1}
  NoTree = {E}
  Entry = {prep, itree}
  Value <- Holds
  Uses <- UsesOfIntersects
  MaxObj = 6
INVARIANTS
  CountsAreReferences
  ArgumentsOfThisRow
  TreesSound
PROPERTY TreeOnTheSecondCall
VIEW Addressless
