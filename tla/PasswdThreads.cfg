CONSTANTS
  Conns = {c1}
  Threads = {t1, t2}
  Users = {u1, u2}
  Passwords = {p1, p2}
  Founders = {u1}
  Initial = p1
  RpcMethods <- AppMethods
  Restricted = {"report"}
  MaxJobs = 4
  MaxCrashes = 1
  None = None
SPECIFICATION Spec
CHECK_DEADLOCK FALSE
SYMMETRY Symmetry
INVARIANTS TypeOK NobodyLockedOut FileUpToDate AcknowledgedHolds LoginDecided NeverTrapped
PROPERTIES PasswordKept
