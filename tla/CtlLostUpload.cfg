SPECIFICATION Spec
CONSTANTS
    Byte = 2
    ActiveThreshold = 10
    PrimaryTotal = 400
    BackupTotal = 200
    Totals = {200, 400}
    Speeds = {0, 90}
    ReallocationSettle = 1
    OvershootSettle = 0
    Primary = primary
    Backup = backup
    Links = {primary, backup}
    CheckFailed = failed
    NoLink = none
    ConfirmCount = 2
    ActiveInterval = 1
    IdleInterval = 3
    LinkCheckMinSpeed = 90
    UploadLimits <- MCUploadLimits
    NoUpload = none
    OutageConfirm = 2
    SabLeast = 40
    Unset = unset
    Faults = {"wan", "lost"}
    MaxFaults = 3
    MaxPenaltyPercent = 0
PROPERTIES
    UploadFollowsLink
