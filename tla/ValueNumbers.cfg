SPECIFICATION Spec
CONSTANTS
  Object = {v1, v2}
  Block = {b1, b2}
  Literals <- Numbers
  Half = 2
  Heap = Heap
  Temporary = Temporary
  Nil = Nil
SYMMETRY Symmetry
INVARIANTS NumbersOrdered
