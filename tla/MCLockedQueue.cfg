CONSTANTS
  Producers = {p1, p2}
  Consumers = {c1, c2}
  Items = {x, y}
  Capacity = 2
  None = None
SPECIFICATION FairSpec
INVARIANTS TypeOK PredicateHolds Bounded NoLostWakeup
PROPERTIES FifoSpec FifoProgress
