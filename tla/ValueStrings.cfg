SPECIFICATION Spec
CONSTANTS
  Object = {v1, v2}
  Block = {b1, b2}
  Literals <- Strings
  Half = 2
  Heap = Heap
  Temporary = Temporary
  Nil = Nil
PROPERTIES CopiesAlike
