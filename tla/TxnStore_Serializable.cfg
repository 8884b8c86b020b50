\* Write skew between two serializable transactions.
SPECIFICATION Spec
CONSTANTS
    INVALID = 99
    MaxTxn = 2
    BeginLevels = {"SERIALIZABLE"}
    Keys <- SkewKeys
    Rank <- SkewRank
    Reads <- SkewReads
    Writes <- SkewWrites
INVARIANT Serializable
