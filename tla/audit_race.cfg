SPECIFICATION AuditSpec
CONSTANTS
    Appender = {t1, t2}
    Synced = {}
    MaxEvents = 3
INVARIANT
    AppendsVerify
CHECK_DEADLOCK FALSE
