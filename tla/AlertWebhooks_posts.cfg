SPECIFICATION FairSpec
CONSTANTS
    Channels = {ch1}
    MaxPosts = 2
    MaxTries = 2
    MaxAnalyses = 1
    MaxRounds = 3
INVARIANTS LastWordHasCause HeardIsRecorded ToldBeforeExhausted
PROPERTY GoroutinesEnd
CHECK_DEADLOCK FALSE
