SPECIFICATION Spec
CONSTANTS
  Owner = "me"
  NoMsg = "none"
  Convs <- MCConvs
  Msgs <- MCMsgsWithPicture
  Attr <- MCAttr
  MaxTraffic = 1
  MaxChannel = 1
  Touchable = {"own"}
  ServerMayErr = TRUE
INVARIANT SentMessagesSettle
CHECK_DEADLOCK FALSE
