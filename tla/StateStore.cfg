SPECIFICATION Spec
CONSTANTS
  short = short
  long = long
  Writers = {w1, w2}
  Readers = {r1}
  Values = {short, long}
  Size <- MCSize
  Inodes = {i1, i2, i3, i4, i5}
  None = None
  Empty = Empty
SYMMETRY Symmetric
INVARIANTS WholeUnlessOverlapped CredentialsFitKey
PROPERTIES NeverMissing ImplementsAtomicFile
