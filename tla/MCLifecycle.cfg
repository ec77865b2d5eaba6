SPECIFICATION FairSpec
CONSTANTS
    c1 = c1
    c2 = c2
    none = none
    Coroutine <- TwoCoroutines
    None = none
INVARIANTS TypeOK RegistriesQuiet ServedIsRegistered CalledIsThere NothingLeft
PROPERTIES ShutdownEnds
CHECK_DEADLOCK FALSE
