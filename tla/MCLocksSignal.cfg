CONSTANTS
  a = a
  j = j
  p = p
  r = r
  z = z
  Workers = {r, z}
  Engine <- Patient
SPECIFICATION Spec
INVARIANTS
  OneCommand
