\* A buffer that nearly every node has to leave, and one that none has to.
SPECIFICATION Spec
CONSTANTS
    Degree = 4
    Setups <- FourSetups
    MaxLeft = 1
INVARIANTS
    TreeSound
    FileSound
    ExactUntilSplit
    FindsWhatIsKnown
CHECK_DEADLOCK FALSE
