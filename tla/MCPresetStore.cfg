SPECIFICATION Spec
CONSTANTS
  Collections = {empty, a, b}
  Empty = empty
  NoWrite = nowrite
  Missing = missing
  Bad = bad
PROPERTY ImplementsRegister
