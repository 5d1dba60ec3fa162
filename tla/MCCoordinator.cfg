SPECIFICATION Spec
CONSTANTS
    first = first
    second = second
    Workers = {first, second}
    Setups <- AllSetups
    Timeout = 1
CHECK_DEADLOCK FALSE
INVARIANTS TypeOK EntriesHaveHandlers FencedOncePerEpoch RecoveryNeedsFailure
PROPERTIES HelloAnswered SilenceDeclared RecoveryVerified DeadIsForgotten
