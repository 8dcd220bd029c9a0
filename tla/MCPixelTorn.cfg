SPECIFICATION Spec
CONSTANTS
  None = None
  a1 = a1 a2 = a2 a3 = a3
  c1 = c1 c2 = c2
  p1 = p1 p2 = p2
  n1 = n1 n2 = n2 on = on off = off
  Sync = {s1, s2, s3}
  Advertiser = {a1}
  Account = {c1}
  Pixel = {p1, p2}
  Name = {n1, n2}
  Status = {on, off}
  AdAccount <- OneAccount
  Refreshable = {a1}
  Listing <- Edits
  Rank <- ByName
INVARIANTS
  RowsWereListed
