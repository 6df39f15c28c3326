SPECIFICATION Spec
CONSTANTS
    Chats = {h1}
    Alerts = {a1}
    FollowUps = {f1}
    Runs <- MCRequests
    Authors <- MCAuthors
    CallIds = {c1}
    Answers <- MCAnswers
    Deliveries = {2}
    Faults = {"none", "unsynced"}
    MaxFaults = 1
    MaxCrashes = 1
    None = None
CHECK_DEADLOCK FALSE
INVARIANTS
    TypeOK
    JournalMirrorsMemory
    AnsweredIsRecorded
    EvidenceIsItsOwn
    ReturnedIsSettled
