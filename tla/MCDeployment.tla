---------------------------- MODULE MCDeployment ----------------------------
(***************************************************************************)
(* A small instance of Deployment: two tenants, one row of most kinds.     *)
(***************************************************************************)
EXTENDS Deployment

MCBlueprints == <<"EKE", "AMS">>
MCScale == [stores |-> 1, categories |-> 1, suppliers |-> 1, products |-> 1,
            users |-> 1, orders |-> 1]
MCRoleNames == <<"SUPER_ADMIN", "CASHIER">>
MCPermissionNames == {"product:read", "business:create"}
MCPermissionsOf == [SUPER_ADMIN |-> MCPermissionNames,
                    CASHIER |-> {"product:read"}]

=============================================================================
