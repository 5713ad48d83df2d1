CONSTANTS
    Value = {v1, v2, v3, v4, v5, v6}
    MaxPriority = 2
    kMinimumSize = 2
    IntWidth = 8
    Ops = {"Insert", "RemoveMinimum", "RemoveByValue"}
SPECIFICATION Spec
SYMMETRY Symmetry
INVARIANTS MinimumIsLeast
