SPECIFICATION EnforcementSpec
CONSTANTS
    o1 = o1  s1 = s1  w1 = w1  p1 = p1  d1 = d1  d2 = d2
    None = None
    ContractId = {1}
    PolicyId = {p1}
    ObjectiveId = {o1}
    Service = {s1}
    Workload = {w1}
    Thread = {}
    ContractDefs <- UnsetThenFirst
    PolicyGens = {1}
    Bindings = {o1, None}
    ManagedIds = {}
    EnforcementIds = {1}
    Cooldown = 0
    HistoryCap = 1
    MaxTime = 0
    MaxEvaluations = 2
    MaxEnforcements = 1
    MaxIncarnation = 0
    Dispatcher = {d1}
    Actions = {"ReclaimMemory", "Escalate"}
    Wired = {"memory"}
    MaxDispatches = 2
INVARIANTS DispatchesAccounted FenceAdmitsOneIntent
PROPERTY AbortedNeverCommits
CHECK_DEADLOCK FALSE
