\* A thread cancelled inside a critical section keeps the exit waiting for ever.
SPECIFICATION FairSpec
CHECK_DEADLOCK FALSE
PROPERTY
    ShutdownCompletes
