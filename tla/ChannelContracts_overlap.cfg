SPECIFICATION Spec
CONSTANTS
  A = A
  B = B
  orders = orders
  refunds = refunds
  c1 = c1
  c2 = c2
  None = None
  Names = {A, B}
  Topics = {orders, refunds}
  Docs <- MCDocs
  Calls = {c1, c2}
  MaxCalls = 3
  MaxDeletes = 1
SYMMETRY Symmetric
INVARIANTS TypeOK ContractsWereReleased SubscribersStayServed QuietReleaseClaims
PROPERTIES OwnerDecides
CHECK_DEADLOCK FALSE
