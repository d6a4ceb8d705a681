------------------------------- MODULE Access -------------------------------
(* Who may call what: the roles and permissions of an organization           *)
(* (orgs/roles.ts, orgs/permissions.ts) and what the decorators of every     *)
(* controller under an organization ask of the caller, by handler.           *)
EXTENDS Integers

Role == {"member", "admin", "owner"}
Rank == [member |-> 0, admin |-> 1, owner |-> 2]
Satisfies(held, required) == Rank[held] >= Rank[required]

MemberGrants == {"org:read", "workspace:read", "member:read", "customer:read", "product:read",
                 "subscription:read", "ai:read", "workflow:read", "analytics:read", "invoice:read"}
AdminGrants == MemberGrants \union
    {"org:update", "workspace:write", "member:update", "member:remove",
     "invite:read", "invite:create", "invite:revoke", "customer:write", "product:write",
     "subscription:write", "ai:invoke", "workflow:write", "workflow:run",
     "analytics:write", "invoice:write", "audit:read"}
Grants == [member |-> MemberGrants, admin |-> AdminGrants, owner |-> AdminGrants]
Can(role, permission) == permission \in Grants[role]

(* A route that reads and one that changes something, with the permission or *)
(* the role that it asks for; membership is all that an Open one asks.       *)
Reads(p) == [writes |-> FALSE, permission |-> p, role |-> "member"]
Writes(p) == [writes |-> TRUE, permission |-> p, role |-> "member"]
ForRole(r) == [writes |-> TRUE, permission |-> "", role |-> r]
Open == [writes |-> FALSE, permission |-> "", role |-> "member"]
Unprotected == [writes |-> TRUE, permission |-> "", role |-> "member"]

(* OrgGuard: the role in the organization, or "none", against the route.     *)
Admits(role, route) ==
    /\ role # "none"
    /\ Satisfies(role, route.role)
    /\ route.permission = "" \/ Can(role, route.permission)

CustomersController ==
    [create |-> Writes("customer:write"), list |-> Reads("customer:read"),
     get |-> Reads("customer:read"), update |-> Writes("customer:write"),
     remove |-> Writes("customer:write"), addNote |-> Writes("customer:write"),
     listNotes |-> Reads("customer:read")]
ProductsController ==
    [create |-> Writes("product:write"), list |-> Reads("product:read"),
     get |-> Reads("product:read"), update |-> Writes("product:write"),
     remove |-> Writes("product:write"), archive |-> Writes("product:write"),
     unarchive |-> Writes("product:write"), addPrice |-> Writes("product:write"),
     listPrices |-> Reads("product:read"), archivePrice |-> Writes("product:write")]
SubscriptionsController ==
    [create |-> Writes("subscription:write"), list |-> Reads("subscription:read"),
     summary |-> Reads("subscription:read"), get |-> Reads("subscription:read"),
     changePrice |-> Writes("subscription:write"), cancel |-> Writes("subscription:write"),
     resume |-> Writes("subscription:write"), renew |-> Writes("subscription:write")]
BillingController ==
    [create |-> Writes("invoice:write"), list |-> Reads("invoice:read"),
     get |-> Reads("invoice:read"), issue |-> Writes("invoice:write"),
     pay |-> Writes("invoice:write"), void |-> Writes("invoice:write"),
     sweep |-> Writes("invoice:write")]
WorkflowsController ==
    [create |-> Writes("workflow:write"), list |-> Reads("workflow:read"),
     run |-> Reads("workflow:read"), get |-> Reads("workflow:read"),
     update |-> Writes("workflow:write"), remove |-> Writes("workflow:write"),
     runNow |-> Writes("workflow:run"), listRuns |-> Reads("workflow:read")]
AnalyticsController ==
    [summary |-> Reads("analytics:read"), series |-> Reads("analytics:read"),
     snapshot |-> Writes("analytics:write"), addEntry |-> Writes("analytics:write"),
     listEntries |-> Reads("analytics:read"), deleteEntry |-> Writes("analytics:write")]
AiController ==
    [models |-> Reads("ai:read"), complete |-> Writes("ai:invoke"),
     usageSummary |-> Reads("ai:read"), requests |-> Reads("ai:read")]
AuditController == [list |-> Reads("audit:read")]
InvitationsController ==
    [create |-> Writes("invite:create"), list |-> Reads("invite:read"), revoke |-> Writes("invite:revoke")]
(* remove: the handler asks for member:remove unless somebody leaves.        *)
MembersController ==
    [list |-> Reads("member:read"), update |-> Writes("member:update"), remove |-> Unprotected]
OrgsController == [get |-> Open, update |-> ForRole("admin")]
WorkspacesController ==
    [list |-> Open, create |-> ForRole("admin"), update |-> ForRole("admin"), remove |-> ForRole("admin")]

Controllers == {CustomersController, ProductsController, SubscriptionsController, BillingController,
                WorkflowsController, AnalyticsController, AiController, AuditController,
                InvitationsController, MembersController, OrgsController, WorkspacesController}
=============================================================================
