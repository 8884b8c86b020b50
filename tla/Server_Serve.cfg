SPECIFICATION FairSpec
CONSTANTS
    Clients = {c1, c2}
    NoOne = NoOne
    Requests <- AllKinds
    Apart <- KeptApart
    Quiet = {"unload"}
    WithOpen <- OneAtATime
    ReloadsDropped = FALSE
    CommitsAborted = FALSE
    Outcomes = {TRUE}
    Replies = {TRUE}
    MaxInfos = 1
    MaxLoads = 2
    MaxTxns = 2
INVARIANTS
    TypeOK
    
    
    ManagerMatches
    LockPerTransaction
    OwnTransaction
    WorksAlone

    
