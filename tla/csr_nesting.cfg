CONSTANTS
  Addrs = {0, 4, 24}
  Mtvec0 = 24
  MaxDepth = 4

SPECIFICATION Spec

INVARIANT PrivilegeFollowsNesting
