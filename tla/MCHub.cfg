SPECIFICATION FairSpec
CONSTANTS
  None = None
  r1 = r1 s1 = s1 s2 = s2
  a1 = a1 a2 = a2 c1 = c1 c2 = c2
  n1 = n1 p1 = p1 p2 = p2 d1 = d1 m1 = m1 on = on
  Request = {r1}
  Sync = {s1, s2}
  Advertiser = {a1, a2}
  Account = {c1, c2}
  Name = {n1}
  Pixel = {p1, p2}
  Key = {}
  Detail = {d1}
  PixelName = {m1}
  Status = {on}
  AdAccount <- TwoAccounts
  Refreshable = {a1}
  Call <- Calls
  ReplyBeforeCommit = FALSE
  Listing <- Listings
  Rank <- ByName
INVARIANTS
  TypeOK
  OnlyUpsertsDeadlock
  TaggedPixelsWereListed
PROPERTIES
  ImplementsTags
  ImplementsSyncs
  EverySessionEnds
