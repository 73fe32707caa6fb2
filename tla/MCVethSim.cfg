\* Mbuf ownership, statistics and the RPC queue of the simulator transport: three heap objects.
CONSTANTS
  m1 = m1
  m2 = m2
  m3 = m3
  req = req
  NoPool = NoPool
  Mbufs <- MCMbufs3
  PoolSizes <- MCPoolSizes
  MaxCacheSize = 1
  HEADROOM = 1
  AllocSizes <- MCAllocSizes
  Lens <- MCLens
  LenWidth = 4
  RpcRequests <- MCRpcRequests
SPECIFICATION VSpec
CONSTRAINT VethConstraint
SYMMETRY MCSymmetry3
VIEW MCView
INVARIANT LiveAccounts
INVARIANT ExclusiveOwnership
INVARIANT StatsAccounting
