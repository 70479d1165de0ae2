SPECIFICATION Spec
CONSTANTS
  u1 = u1
  u2 = u2
  NoUser = NoUser
  Users <- MCUsers
  AppTasks = {}
  Positions <- MCPositions
  MaxLogins = 2
  MaxListeners = 2
  CloseMayFail = TRUE
  AdapterMayMismatch = TRUE
SYMMETRY Symmetry
INVARIANTS SessionCoherent DomainsBelongToLoginUser NoResourceEscapes ListenersInformed
PROPERTIES ErrorsChangeNothing
