SPECIFICATION Spec
CONSTANTS
    o1 = o1  o2 = o2  o3 = o3
    None = None
    Scenarios <- OrderAndAgeing
    Cooldown = 1
PROPERTY HardBindsFirst
