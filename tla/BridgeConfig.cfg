SPECIFICATION Spec
CONSTANTS
  Id = {id1}
  File = {f1, f2}
  Node = {n1, n2}
  None = None
  Null = Null
  Bare = Bare
  NotXml = NotXml
SYMMETRY NodeSymmetry
PROPERTIES FoundIsCurrent WritesOwnFile
