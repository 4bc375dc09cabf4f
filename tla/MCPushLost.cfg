\* The push that README.md promises against the three calls add_to_payload
\* makes for each input.
CONSTANTS
    IoCount = 1
    AdcCount = 1
    Values <- Binary
    Commands <- NoCommand
    Roominess <- Short
    MaxWire = 1
    NoValue = NoValue
SPECIFICATION Spec
INVARIANTS
    NoUpdateIsLost
