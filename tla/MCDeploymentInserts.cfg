SPECIFICATION Spec
CONSTANTS
    NONE = NONE
    Blueprints <- MCBlueprints
    Scale <- MCScale
    RoleNames <- MCRoleNames
    PermissionNames <- MCPermissionNames
    PermissionsOf <- MCPermissionsOf
    MaxRuns = 1
    MaxFaults = 0
INVARIANT InsertsFitSchema
CHECK_DEADLOCK FALSE
