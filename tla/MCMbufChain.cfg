\* Pool accounting, aliasing and chain invariants: three heap objects, one-byte data operations.
CONSTANTS
  m1 = m1
  m2 = m2
  m3 = m3
  NoPool = NoPool
  Mbufs <- MCMbufs3
  PoolSizes <- MCPoolSizes
  MaxCacheSize = 1
  HEADROOM = 1
  AllocSizes <- MCAllocSizes
  Lens <- MCLens
  LenWidth = 4
SPECIFICATION Spec
CONSTRAINT ChainConstraint
SYMMETRY MCSymmetry3
VIEW MCView
INVARIANT TypeOK
INVARIANT ChainConsistent
INVARIANT InUsedAccounts
INVARIANT NoAliasing
