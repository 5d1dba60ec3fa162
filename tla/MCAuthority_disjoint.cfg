SPECIFICATION Spec
CONSTANTS
    o1 = o1  o2 = o2  s1 = s1  w1 = w1  w2 = w2  p1 = p1
    None = None
    ContractId = {1, 2}
    PolicyId = {p1}
    ObjectiveId = {o1, o2}
    Service = {s1}
    Workload = {w1, w2}
    Thread = {}
    ContractDefs <- DisjointDefs
    PolicyGens = {1, 2}
    Bindings = {o1, o2, None}
    ManagedIds = {1}
    EnforcementIds = {}
    Cooldown = 2
    HistoryCap = 2
    MaxTime = 3
    MaxEvaluations = 2
    MaxEnforcements = 2
    MaxIncarnation = 0
INVARIANTS CooldownHonoured AuthorityMovesForward
PROPERTIES AuthorizedByOwnContract LapsedStaysLapsed
CHECK_DEADLOCK FALSE
