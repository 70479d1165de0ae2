SPECIFICATION Spec
CONSTANTS
  MaxAttempts = 2
  MaxPushes = 3
  MaxInbox = 2
  MaxBreaks = 2
INVARIANTS CloseFailsAtMostOnce GapsAreAnnounced
PROPERTIES ImplementsResource CallsTerminate ReconnectSettles
CHECK_DEADLOCK FALSE
