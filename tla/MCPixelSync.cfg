SPECIFICATION FairSpec
CONSTANTS
  None = None
  a1 = a1 a2 = a2 a3 = a3
  c1 = c1 c2 = c2
  p1 = p1 p2 = p2
  n1 = n1 n2 = n2 on = on off = off
  Sync = {s1, s2}
  Advertiser = {a1, a2, a3}
  Account = {c1, c2}
  Pixel = {p1, p2}
  Name = {n1, n2}
  Status = {on}
  AdAccount <- TwoAccounts
  Refreshable = {a1}
  Listing <- EitherOrder
  Rank <- ByName
INVARIANTS
  TypeOK
  SortedSyncsNeverDeadlock
PROPERTIES
  SyncIsAllOrNothing
  ImplementsTable
  EverySyncEnds
