----------------------------- MODULE MCCatalog ------------------------------
(* An instance of Catalog: two requests at a time between two organizations, *)
(* one of which may have a second workspace.  The handlers are called in     *)
(* groups, each with the removal of the workspace where it matters.          *)
EXTENDS Catalog, TLC

CONSTANTS o1, o2, w1, w2, w3, p1, x1, x2, r1, r2

MCOrganization == {o1, o2}
MCWorkspace == {w1, w2, w3}
MCOrgOf == (w1 :> o1) @@ (w2 :> o2) @@ (w3 :> o1)
MCFirst == {w1, w2}
MCProduct == {p1}
MCPrice == {x1, x2}
MCRequest == {r1, r2}
MCStage == {"lead", "active", "churned"}
MCCaller == {"member", "admin"}

Group(handlers, organizations, n) ==
    [handlers |-> handlers, organizations |-> organizations, customers |-> n]
OnCustomers(names) == {"customers"} \X names
OnProducts(names) == {"products"} \X names
Removal == <<"workspaces", "remove">>

MCCalls == {
    Group(OnCustomers({"create", "update"}) \union {Removal}, MCOrganization, 2),
    Group(OnCustomers({"create", "addNote", "remove"}) \union {Removal}, MCOrganization, 2),
    Group(OnCustomers({"create", "list", "remove"}), {o1}, 3),
    Group(OnProducts({"create", "remove", "addPrice", "archivePrice"}) \union {Removal}, MCOrganization, 0),
    Group(OnProducts({"create", "archive", "unarchive"}) \union {Removal, <<"workspaces", "create">>},
          MCOrganization, 0)}

MCSymmetry == Permutations(MCRequest) \union Permutations(MCPrice)

(* Of every controller under an organization: a route that changes something   *)
(* turns members away, except the removal of a member, whose handler decides   *)
(* by itself; and a higher role may call whatever a lower one may.             *)
Routes == UNION {{controller[handler] : handler \in DOMAIN controller} : controller \in Controllers}
ASSUME MembersOnlyRead ==
    \A route \in Routes : route.writes /\ Admits("member", route) => route = Unprotected
ASSUME HigherRolesMayMore ==
    \A route \in Routes : \A held, higher \in Role :
        Satisfies(higher, held) /\ Admits(held, route) => Admits(higher, route)
=============================================================================
