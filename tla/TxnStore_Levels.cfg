\* Two transactions of any levels over one triple.
SPECIFICATION FairSpec
CONSTANTS
    INVALID = 99
    MaxTxn = 2
    BeginLevels = {"SERIALIZABLE", "SNAPSHOT", "READ_COMMITTED"}
    Keys <- OneTripleKeys
    Rank <- OneTripleRank
    Reads <- OneTripleReads
    Writes <- OneTripleWrites
INVARIANTS
    TypeOK
    VersionOwner
    VersionChain
    LatchExact
    AllOrNothing
    CheckpointAlone
PROPERTIES
    ImplementsCommitStore
    LatchProtects
    EveryCallReturns
