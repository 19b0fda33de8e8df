SPECIFICATION Spec
CONSTANTS
  Producers = {p1, p2}
  Consumers = {c1}
  Clearers = {}
  Items = {a}
  None = None
  Capacity = 4
  WeakCas = FALSE
INVARIANT NoTaskStranded
