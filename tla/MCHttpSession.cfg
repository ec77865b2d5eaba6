SPECIFICATION Spec
CONSTANTS
    FieldLength = 2
    Shape <- Shapes
    MaxMessages = 2
INVARIANTS TypeOK WholeUnlessCut NothingForeign
CHECK_DEADLOCK FALSE
