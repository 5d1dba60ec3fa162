SPECIFICATION Spec
CONSTANTS
    o1 = o1  o2 = o2  s1 = s1  w1 = w1  w2 = w2  p1 = p1
    None = None
    ContractId = {1}
    PolicyId = {p1}
    ObjectiveId = {o1}
    Service = {s1}
    Workload = {w1}
    Thread = {t1, t2}
    ContractDefs <- TwoGenerations
    PolicyGens = {1}
    Bindings = {o1}
    ManagedIds = {}
    EnforcementIds = {}
    Cooldown = 0
    HistoryCap = 2
    MaxTime = 0
    MaxEvaluations = 1
    MaxEnforcements = 1
    MaxIncarnation = 2
INVARIANTS TypeOK HistoryOrdered EvaluationLookupExact FileCoversReceipts
PROPERTY RestoredIsOld
CHECK_DEADLOCK FALSE
SYMMETRY ThreadSymmetry
