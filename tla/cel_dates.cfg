SPECIFICATION CelSpec
CONSTANTS
    Path = {p1}
    Scalar <- Texts
    Expr <- Trees
    Height <- Heights
INVARIANT DaysAreMidnights
CHECK_DEADLOCK FALSE
