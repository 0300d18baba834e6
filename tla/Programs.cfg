\* Every program, with every call failing or not. A program ends.
SPECIFICATION Spec
INVARIANTS
    WaysOut
    NothingOutlives
CHECK_DEADLOCK FALSE
