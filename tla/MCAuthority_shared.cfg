SPECIFICATION Spec
CONSTANTS
    o1 = o1  o2 = o2  s1 = s1  w1 = w1  w2 = w2  p1 = p1
    None = None
    ContractId = {1, 2}
    PolicyId = {p1}
    ObjectiveId = {o1}
    Service = {s1}
    Workload = {w1, w2}
    Thread = {}
    ContractDefs <- SharedDefs
    PolicyGens = {1}
    Bindings = {o1}
    ManagedIds = {1}
    EnforcementIds = {}
    Cooldown = 2
    HistoryCap = 2
    MaxTime = 0
    MaxEvaluations = 1
    MaxEnforcements = 1
    MaxIncarnation = 0
PROPERTY AuthorizedByOwnContract
CHECK_DEADLOCK FALSE
