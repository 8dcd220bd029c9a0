SPECIFICATION FairSpec
CONSTANTS
  None = None
  k1 = k1 k2 = k2
  r1 = r1 r2 = r2 r3 = r3 g1 = g1 q1 = q1 h1 = h1
  x = x
  Request = {r1, r2, r3, g1, q1, h1}
  Container = {k1, k2}
  Home <- Where
  Probe = {h1}
  ExternalRef = {x}
  external_ref <- Refs
  total_tokens = 2
  database_pool_size = 1
  database_max_overflow = 1
  ReplyFirst = {k2}
INVARIANTS
  TypeOK
  StallsTimeOut
  NoStallBelowThreads
  OneCreator
PROPERTIES
  EveryRequestEnds
ACTION_CONSTRAINT InOrder
