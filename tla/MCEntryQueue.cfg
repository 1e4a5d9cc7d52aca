CONSTANTS
  e1 = e1
  e2 = e2
  e3 = e3
  e4 = e4
  e5 = e5
  p1 = p1
  p2 = p2
  c1 = c1
  c2 = c2
  Nil = Nil
  Entries <- FiveEntries
  Producers <- TwoProducers
  Consumers <- TwoConsumers
  Size = 2
SPECIFICATION Spec
SYMMETRY Symmetry
INVARIANT Conservation
INVARIANT SliceDecay
PROPERTY Refinement
PROPERTY StoppedIsFinal
