SPECIFICATION FairSpec
CONSTANTS
    Conversations = {c1, c2}
    NoKey = NoKey
    Streams = {f1, f2}
    MaxRuns = 1
    MaxEvents = 2
    MaxStarted = 2
INVARIANTS TypeOK AgentsInReach SavedOnceAndWhole StreamShowsTheAnswer
PROPERTIES EveryEndIsSaved EveryStreamEnds
CHECK_DEADLOCK FALSE
