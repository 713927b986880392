CONSTANTS
    Lines <- ShortLines
    MaxKids = 3
    MaxPipes = 2
    Capacity = 1
SPECIFICATION FairSpec
INVARIANTS ParsedAsTyped FdsRestored ChildrenCounted
PROPERTY PromptReturns
CHECK_DEADLOCK FALSE
