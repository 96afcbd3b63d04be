CONSTANTS
    Users      = {"role", "stat"}
    Timeout    = 2
    Intervals  = {1, 3}
    MaxReloads = 1
SPECIFICATION Spec
INVARIANTS TypeOK WireInOrder
PROPERTIES EndsForCause AdmittedByServer RoleIsDecided StatRepeats
