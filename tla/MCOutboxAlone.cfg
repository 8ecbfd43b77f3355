SPECIFICATION FairSpec
CONSTANTS
    NONE = NONE
    e1 = e1 e2 = e2
    u1 = u1 u2 = u2
    n1 = n1 n2 = n2
    c1 = c1 c2 = c2
    Events = {e1, e2}
    Created <- MCCreatedInOrder
    Users = {u1, u2}
    Recipients <- MCRecipients
    Instances = {n1}
    Cycles = {c1, c2}
    InstanceOf <- OneInstance
    BatchSize = 1
    MaxAttempts = 2
    Heard = {e1, e2}
    Faults <- PassingFaults
    MaxFaults = 3
PROPERTIES
    
    EventIsSettled
