SPECIFICATION FairSpec
CONSTANTS
    NumCalls = 2
    MaxChunks = 2
    MaxSessions = 2
    Browsers <- MCBrowsers
    Watchers = {"messages", "render"}
    Callbacks = {"flush", "scrollToBottom", "scroll"}
CHECK_DEADLOCK FALSE
INVARIANTS OwnAnswer CallIsControlled ScreenIsCurrent
PROPERTIES StoppedStays AnswerEnds
