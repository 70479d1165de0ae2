SPECIFICATION Spec
CONSTANTS
    None = None
    MaxId = 2
    MaxList = 2
    Drafters = {0, 1}
INVARIANTS SyncMirrorsServer NoResurrectedMembers ConversationListsAgree
PROPERTIES CallsChangeWhatTheySay
