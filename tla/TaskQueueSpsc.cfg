SPECIFICATION FairSpec
CONSTANTS
  Producers = {p}
  Consumers = {c}
  Clearers = {}
  Items = {a, b}
  None = None
  Capacity = 4
  WeakCas = FALSE
INVARIANT NoTaskStranded
PROPERTIES FifoSpec EverySlotDrains
