CONSTANTS
    IoCount = 1
    AdcCount = 1
    Values <- Binary
    Commands <- OneWrite
    Roominess <- Both
    MaxWire = 1
    NoValue = NoValue
SPECIFICATION FairSpec
PROPERTIES
    FlagIsServed
    PollingClientConverges
