\* The table of gpio.c: every line is an output, reversed, requested high.
CONSTANTS
    Count = 2
    Type <- OutputsType
    IsReversed <- OutputsReversed
    InitState <- OutputsInitState
SPECIFICATION Spec
PROPERTIES
    CleanOpensRelays
