SPECIFICATION Spec
CONSTANTS
    FieldLength = 1
    Shape <- Shapes
    MaxMessages = 1
INVARIANTS BodyIsWhole
CHECK_DEADLOCK FALSE
