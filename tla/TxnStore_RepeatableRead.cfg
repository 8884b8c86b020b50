\* A SNAPSHOT transaction sees a commit halfway.
SPECIFICATION Spec
CONSTANTS
    INVALID = 99
    MaxTxn = 2
    BeginLevels = {"SNAPSHOT"}
    Keys <- OneTripleKeys
    Rank <- OneTripleRank
    Reads <- OneTripleReads
    Writes <- OneTripleWrites
INVARIANT RepeatableRead
