SPECIFICATION Spec
CONSTANTS
    NONE = NONE
    e1 = e1 e2 = e2
    u1 = u1 u2 = u2
    n1 = n1 n2 = n2
    c1 = c1 c2 = c2
    Events = {e2}
    Created <- MCCreated
    Users = {u1, u2}
    Recipients <- MCRecipients
    Instances = {n1, n2}
    Cycles = {c1, c2}
    InstanceOf <- TwoInstances
    BatchSize = 2
    MaxAttempts = 2
    Heard = {e2}
    Faults <- AllFaults
    MaxFaults = 0
PROPERTIES
    ConcurrentInsertIsReturned
