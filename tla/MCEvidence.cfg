SPECIFICATION MCSpec
CONSTANTS
    oa = oa  oc = oc
    None = None
    ObjectiveId = {oa, oc}
    Dimension <- Both
    EvidenceId = {1, 2, 3, 4, 5, 6, 7}
    Records <- AccountRecords
    Short <- ShortIn29OfHundred
    Phases = {"Observed", "Authoritative", "Initiated", "Restored", "Verified"}
    Totals = {2}
    BudgetWindow = 1
    RingCap = 2
    DedupCap = 2
    CostCap = 2
    CostDuration = 1
    MaxTime = 2
    MaxGen = 2
    MaxNoted = 4
    MaxDeliveries = 2
    MaxRestarts = 1
INVARIANTS EvidenceCountedOnce AvailabilityNeverOverstated CostNotHidden BudgetNeverOvercounts
PROPERTY RecoverySettles
CHECK_DEADLOCK FALSE
