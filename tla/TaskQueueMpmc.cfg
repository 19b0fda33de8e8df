SPECIFICATION Spec
CONSTANTS
  Producers = {p1, p2}
  Consumers = {c1, c2}
  Clearers = {p2}
  Items = {a, b}
  None = None
  Capacity = 2
  WeakCas = TRUE
PROPERTY BagSpec
