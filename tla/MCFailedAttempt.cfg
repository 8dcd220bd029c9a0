SPECIFICATION Spec
CONSTANTS
  None = None
  r1 = r1 r2 = r2 r3 = r3
  a1 = a1 a2 = a2
  n1 = n1 n2 = n2
  p1 = p1 d1 = d1 d2 = d2 k1 = k1 act = act
  Request = {r1, r2}
  Advertiser = {a1}
  Account = {act}
  Name = {n1, n2}
  Pixel = {p1}
  Key = {k1}
  Detail = {d1}
  AdAccount <- OneAdvertiser
  Refreshable = {a1}
  Call <- Contention
  ReplyBeforeCommit = FALSE
INVARIANTS
  FailedAttemptKept
