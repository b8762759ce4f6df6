SPECIFICATION FairSpec
CONSTANTS
  Processes <- Pair
  ADDRESSES <- Addrs
  BASE <- Base
  DECREMENT <- Decrement
  PREEMPT <- Preempt
  INTERVAL <- Interval
  INBOX = 1
  Faults = {"kill", "loss", "late", "assume"}
INVARIANTS TimerOfState HeldByMaster
PROPERTY ElectionSettles
