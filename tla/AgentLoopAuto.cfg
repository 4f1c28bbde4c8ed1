SPECIFICATION FairSpec
CONSTANTS
    read = read
    grep = grep
    bash = bash
    Tools = {read, grep}
    Automatic = {read, grep}
    Limit <- OnlySubmits
INVARIANTS
    StreamsDoNotOverlap
    StreamingMeansBusy
    ResultsAreSent
PROPERTIES
    StreamingEnds
CHECK_DEADLOCK FALSE
