SPECIFICATION Spec
CONSTANTS
    read = read
    grep = grep
    bash = bash
    Tools = {read, bash}
    Automatic = {read}
    Limit <- WithStop
PROPERTIES
    DanglingCleared
CHECK_DEADLOCK FALSE
