CONSTANTS
    Lines <- LongLines
    MaxKids = 3
    MaxPipes = 3
    Capacity = 1
SPECIFICATION Spec
INVARIANT FdsRestored
CHECK_DEADLOCK FALSE
