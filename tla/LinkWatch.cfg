SPECIFICATION Spec
CONSTANTS
    Links = {primary, backup, other}
    Primary = primary
    Backup = backup
    CheckFailed = failed
    NoLink = none
    ConfirmCount = 2
    ActiveInterval = 2
    IdleInterval = 5
    MaxStep = 7
INVARIANTS
    DetectionIsTimely
PROPERTIES
    ImplementsDebounce
