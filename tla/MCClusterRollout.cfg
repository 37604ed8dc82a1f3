\* A rollout of two waves that is aborted, resumed and edited, with one fault.
CONSTANTS
    Slots <- FourSlots
    Original <- LastThree
    WaveSize = 2
    MaxRequests = 3
    MaxFaults = 1
    MaxScales = 1
SPECIFICATION FairSpec
INVARIANTS
    TypeOK
    WavesInOrder
    NoMemberOvertaken
    OneChain
    AbortStopsWave
PROPERTIES
    QuietAbortHolds
    RolloutSettles
CHECK_DEADLOCK FALSE
