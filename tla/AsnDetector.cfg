SPECIFICATION Spec
CONSTANTS
    Raised = raised
    AsnOf <- MCAsnOf
    OrgOf <- MCOrgOf
    BackupOrgs = {22}
    Primary = primary
    Backup = backup
    CheckFailed = failed
    Nothing = nothing
    Timeout = 3
    Floor = 1
    Owners = {"full", "pointer"}
    MaxAnswers = 2
INVARIANTS
    TypeOK
    CacheIsConsistent
    RepliesAreUnderstood
    CheckIsBounded
PROPERTIES
    ReadingIsOfTheAddressRead
