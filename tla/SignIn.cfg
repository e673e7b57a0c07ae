SPECIFICATION Spec
CONSTANTS
  r1 = r1  r2 = r2  f1 = f1  uma = uma  ulf = ulf
  None = None
  Requests = {r1, r2}
  Flows = {f1}
  Users = {uma, ulf}
  Old = 1
  MaxPending = 1
  MaxNew = 1
  MaxCarried = 1
  CarryMaxMisses = 1
  MaxAccounts = 2
  MaxLogins = 2
  MaxCodes = 2
SYMMETRY MCAlike
CHECK_DEADLOCK FALSE
INVARIANTS
  SingleUse
  LimitsKept
  OneLetIn
