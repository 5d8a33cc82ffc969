SPECIFICATION PathSpec
CONSTANTS
    Names = {"a"}
    MaxList = 4
    MaxPath = 3
INVARIANTS AllowedIsListed RefusedForAName
CHECK_DEADLOCK FALSE
