SPECIFICATION BindingsSpec
CONSTANTS
    Users = {u1, u2}
    NoUser = NoUser
    AppTasks = {}
    Positions = {1, 2, 3}
    MaxLogins = 2
    MaxListeners = 2
    CloseMayFail = TRUE
    AdapterMayMismatch = FALSE
INVARIANTS JsListenersInformed LastErrorIsCurrent LoggedInUserConfirmed DestroyedHandlesAreClean
CHECK_DEADLOCK FALSE
