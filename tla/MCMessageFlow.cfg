SPECIFICATION Spec
CONSTANTS
  Owner = "me"
  NoMsg = "none"
  Convs <- MCConvs
  Msgs <- MCMsgs
  Attr <- MCAttr
  MaxTraffic = 3
  MaxChannel = 2
  Touchable = {"own"}
  ServerMayErr = TRUE
INVARIANTS LatestIsNewest UnreadNeverUndercounts ConversationsShowThePeer EventsKeepUpWithConversations OnlyVisibleMessagesStored StoredMessagesAccountedFor
CHECK_DEADLOCK FALSE
