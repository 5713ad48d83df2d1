CONSTANTS
    NULL = NULL
    Edits <- MCEditScripts
    MaxChanges = 1
    MaxUpdates = 1
    NewSpaceRoom = 5
SPECIFICATION EditSpec
INVARIANT AllInstancesTransformed
CHECK_DEADLOCK FALSE
