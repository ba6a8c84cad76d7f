SPECIFICATION Spec
CONSTANTS
  Processes = {"p", "q"}
  Placements <- Placed
  Pools = {"k1", "k2"}
  ProcessOf <- BothOfPublisher
  Nonces = {0, 1}
  MaxAttempts = 2
  MaxUid = 2
CHECK_DEADLOCK FALSE
INVARIANTS TypeOK BlocksOwnTheirObjects NameKeepsItsObject HandleAccounting ImportsStayLocal VerdictsAgree
