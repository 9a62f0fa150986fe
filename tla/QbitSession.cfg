SPECIFICATION Spec
CONSTANTS
    Limits = {1, 2}
    NoCall = none
PROPERTIES
    ImplementsAppCall
    OneLapseIsAbsorbed
