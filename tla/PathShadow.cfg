SPECIFICATION PathSpec
CONSTANTS
    Names = {"a"}
    MaxList = 4
    MaxPath = 3
INVARIANT ListedIsAllowed
CHECK_DEADLOCK FALSE
