SPECIFICATION Spec
CONSTANTS
    a = a
    b = b
    plugin1 = plugin1
    plugin11 = plugin11
    message = message
    none = none
    Name <- TwoNames
    Path <- TwoLibraries
    Key <- OneKey
    KeyOf <- SameKey
    Builds <- TwoLibraries
    Makes <- NoLibrary
    Kept <- OneKept
    None = none
    MaxInits = 2
    MaxLoads = 2
INVARIANTS NeverCrashes
CHECK_DEADLOCK FALSE
