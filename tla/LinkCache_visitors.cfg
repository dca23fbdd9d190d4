SPECIFICATION Spec
CONSTANTS
  v1 = v1
  v2 = v2
  p1 = p1
  p2 = p2
  Client = {v1, v2}
  Process = {p1, p2}
  ProcessOf <- TwoVisitors
  Writer = {a}
  NoClient = NoClient
  LostToken = LostToken
  NoRow = NoRow
  MaxOps = 2
  MaxFaults = 1
  MaxExpirations = 1
INVARIANTS BanHolds StampedeBounded
PROPERTY ReleasesOwn
