SPECIFICATION Spec
CONSTANTS
  Owner = "me"
  NoMsg = "none"
  Convs <- MCConvs
  Msgs <- MCMsgsWithPicture
  Attr <- MCAttr
  MaxTraffic = 2
  MaxChannel = 2
  Touchable = {"own"}
  ServerMayErr = FALSE
INVARIANT DrainedTextsStored
CHECK_DEADLOCK FALSE
