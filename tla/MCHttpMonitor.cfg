SPECIFICATION MonitorSpec
CONSTANTS
    a = a
    b = b
    fix_client = fix_client
    plugin11 = plugin11
    http_server = http_server
    fix = fix
    http = http
    none = none
    Name <- TwoNames
    Path <- ThreeLibraries
    Key <- TwoKeys
    KeyOf <- Keys
    Builds <- Builders
    Makes <- Factories
    Kept <- OneKept
    None = none
    MaxInits = 4
    MaxLoads = 4
    HttpKey = http
    NeedsArgs <- TwoBare
INVARIANTS MonitorTypeOK HandlesMatch FoundIsLoaded LoadedWorks AnswersTell OutlivesOthers
PROPERTIES OnlyNewerDisplaces
CHECK_DEADLOCK FALSE
