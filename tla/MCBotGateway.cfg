SPECIFICATION Spec
CONSTANTS
    Conversations = {x1}
    Kinds <- MCKinds
    PostKinds <- MCPostKinds
    Posts = {p1}
    MaxUpdates = 3
    QueueSize = 1
    HistoryMessages = 4
    MaxSessions = 1
    MaxRequestMessages = 4
    MaxRemembered = 2
    MaxAccepted = 5
    MaxRestarts = 1
CHECK_DEADLOCK FALSE
INVARIANTS
    TypeOK
    AcceptedOnce
    HistoryIsADialogue
