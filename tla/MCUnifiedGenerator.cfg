SPECIFICATION Spec
CONSTANTS
  Objects = {o1, o2, o3}
  Addresses = {c1, c2, c3}
  Iterators = {i1, i2}
  Streams <- MCStreams
  null = null
  free = free
  gone = gone
  nullptr = nullptr
SYMMETRY MCSymmetry
INVARIANTS
  TypeOK
  OwnedOnce
  NoNullCall
  HoldsWhatItDestroys
PROPERTY ImplementsGenerators
