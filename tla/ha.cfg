SPECIFICATION Spec
CONSTANTS
  AgentBoots = {1}
  Policies = {"p"}
  NoPolicy = "none"
  LEASES = {1}
  MEMBER_LEASE <- MemberLease
  MARGIN = 0
  PRIORITY <- Priority
  PREEMPT <- Preempt
  MAX_TERM = 2
  MAX_BOOT = 1
  MAX_STRAYS = 1
INVARIANTS Exclusive GrantOnDisk StoppedWhenReplaced
