SPECIFICATION Spec
CONSTANTS
    Handler = {h1, h2}
    Actor = {a, b}
    Sid = {s1, s2}
    Chosen = {s1}
    Nobody = Nobody
    Executor = {t1}
    Proposal = {p, q}
    Rule = {r1}
    MaxVersions = 3
    Appender = {t1, t2}
    Synced <- Foreign
    MaxEvents = 3
    Path = {p1}
    Scalar <- Values
    Expr <- Trees
    Height <- Heights
    Contract = {1, 2}
    Drafted <- InPlan
    Written <- InPrompts
    Planned = {2}
    Run = {r1}
    MaxIssues = 2
    Name <- Daemons
    Caller = {c1, c2}
    Free = Free
    MaxServers = 2
    State = {1, 2, 3, 4, 5, 6}
    StateId <- Ids
    StateParent <- ParentIds
    Peer = {p1, p2}
    Cert = {1, 2, 3, 4, 5, 6}
    About <- Certificates
    Anchors = {1}
    Chains <- Shown
    Revocable = {4}
    Lists <- TrustedLists
    Never = Never
    MaxAge = 2
    Validity = 1
    MaxTime = 3
    MaxPapers = 2
    Job = {j1, j2}
    Point = {k1, k2}
    NoFile = NoFile
    MaxCommits = 1
INVARIANT ServicesTypeOK  AppendsUnderRules OneTrailVerifies
INVARIANT AllowsOnlyMeaning BoardKept  RootsTellAll TrustSound
INVARIANT RestoreSound
CHECK_DEADLOCK FALSE
