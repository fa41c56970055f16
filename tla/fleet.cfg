SPECIFICATION MCSpec
CONSTANTS
    c1 = c1
    d1 = d1
    k1 = k1
    Code = {c1, c2}
    Device = {d1, d2}
    Key = {k1, k2}
    None = None
    Thread = {t1}
    Loop = Loop
    Socket = {s1}
    Item = {1, 2, 3}
    IdOf <- MCId
    ParentOf <- MCParent
    Bad = Bad
    Window = 1
    Client = {d1}
    BatchSize = 2
INVARIANT
    FleetTypeOK
    CodePaysForOne
    LateStoresNothing
    ParentsStored
    AnswerTrue
PROPERTY
    GoneIsFinal
CHECK_DEADLOCK FALSE
