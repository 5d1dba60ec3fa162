SPECIFICATION Spec
CONSTANTS
    first = first
    second = second
    Workers = {first, second}
    Setups <- FailoverOnly
    Timeout = 1
CHECK_DEADLOCK FALSE
PROPERTIES FailoverRecorded
