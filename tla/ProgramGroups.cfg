CONSTANTS
    Program = {g}
    Client = {c1, c2, c3}
    kNumberOfGroups = 5
SPECIFICATION Spec
INVARIANTS GroupsAreNew
