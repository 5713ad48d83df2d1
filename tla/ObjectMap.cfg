CONSTANTS
    Id = {0, 1, 8, 16}
    Objects = {20, 21, 28, 22}
    NULL = NULL
    Capacity = 8
    GrowIntoList = TRUE
SPECIFICATION Spec
PROPERTY ActsAsDictionary
