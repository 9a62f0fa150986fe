SPECIFICATION PubSpec
CONSTANTS
    Primary = primary
    Backup = backup
    LogLength = 2
    Torn = torn
    Free = free
    Poll = poll
    MaxFlips = 3
    Messages = {2}
    MaxAttempts = 2
INVARIANTS
    FileIsNeverTorn
    SnapshotIsConsistent
    EveryFlipIsLogged
    SlackIsHonest
    LoggedIsAnnounced
PROPERTIES
    ImplementsJournal
    EveryMessageEnds
