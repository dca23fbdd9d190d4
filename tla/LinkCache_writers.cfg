SPECIFICATION FairSpec
CONSTANTS
  v1 = v1
  v2 = v2
  p1 = p1
  p2 = p2
  Client = {v1}
  Process = {p1}
  ProcessOf <- OneVisitor
  Writer = {a, b}
  NoClient = NoClient
  LostToken = LostToken
  NoRow = NoRow
  MaxOps = 2
  MaxFaults = 1
  MaxExpirations = 0
INVARIANTS TypeOK Coherent
PROPERTIES StaysSettled Converges
