CONSTANTS
    IoCount = 1
    AdcCount = 1
    Values <- Binary
    Commands <- NoCommand
    Roominess <- Short
    MaxWire = 1
    NoValue = NoValue
SPECIFICATION FairSpec
PROPERTIES
    UpdatesAreSent
