SPECIFICATION Spec
CONSTANTS
    read = read
    grep = grep
    bash = bash
    Tools = {read, bash}
    Automatic = {read}
    Limit <- Everything
INVARIANTS
    TypeOK
    SentOnce
PROPERTIES
    Lifecycle
CHECK_DEADLOCK FALSE
