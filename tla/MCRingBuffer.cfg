\* ring_buffer.h with kCapacity = 4.
SPECIFICATION OrderSpec
CONSTANTS
  Samples <- MCSamples
  Silence = 0
  KCapacity = 4
  Capacities <- MCCapacities
  Chunks <- MCChunks
  Counts <- MCCounts
  MaxPos = 7
INVARIANTS IInv 
PROPERTIES FifoSpec
