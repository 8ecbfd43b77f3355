SPECIFICATION Spec
CONSTANTS
    NONE = NONE
    Blueprints <- MCBlueprints
    Scale <- MCScale
    RoleNames <- MCRoleNames
    PermissionNames <- MCPermissionNames
    PermissionsOf <- MCPermissionsOf
    MaxRuns = 2
    MaxFaults = 1
INVARIANTS
    TypeOK
    RunIsNotRefused
    RecordedSchemaIsWhole
    InterruptedSchemaNeedsRepair
    NoTenantTwice
CHECK_DEADLOCK FALSE
