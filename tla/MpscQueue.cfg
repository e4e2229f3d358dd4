\* Two producers race for a ring of two slots, which wraps three times.
CONSTANTS
  Producers = {p1, p2}
  Capacity = 2
  MaxCalls = 6
SPECIFICATION FairSpec
INVARIANTS TypeOK WithinCapacity NoDataRace FifoOrder
PROPERTIES FullOnlyAtCapacity ImplementsFifo EveryClaimDelivered
CHECK_DEADLOCK FALSE
