------------------------------- MODULE Members -------------------------------
(***************************************************************************)
(* The members of one organization and their roles, and the invitations    *)
(* by which they join it (backend/src/orgs): a request changes somebody's  *)
(* role, removes somebody or leaves, invites, revokes or accepts.          *)
(*                                                                         *)
(* One action is one SQL statement, or one transaction that only writes:   *)
(* OrgGuard reads the caller's role, the service reads the target's, then  *)
(* perhaps counts the owners, then writes by id.  Accepting reads the      *)
(* invitation, then commits both rows.  A removal is a change of the role  *)
(* to "none".                                                              *)
(***************************************************************************)
EXTENDS Integers, FiniteSets

CONSTANTS Request,     \* concurrent requests, in any of the API processes
          User,
          Founder,     \* the user with whose registration it was created
          Invitation,  \* identifiers that invitations may get
          EmailOf,     \* the address each of them names
          Offer,       \* the roles that each of them may be sent with
          NoUser, NoInvitation

ASSUME UserAssumption == IsFiniteSet(User) /\ Founder \in User /\ NoUser \notin User
ASSUME InvitationAssumption == NoInvitation \notin Invitation
ASSUME OfferAssumption == Offer \in [Invitation -> SUBSET {"member", "admin", "owner"}]

VARIABLES role,         \* the memberships: each user's role, or "none"
          invitations,  \* the table: a row for each identifier
          request,      \* the local state of each request
          admitted,     \* history: whom each invitation let in
          overlapped,   \* history: two changes of roles have overlapped
          raced         \* history: invitations two worked on at once

vars == <<role, invitations, request, admitted, overlapped, raced>>

-----------------------------------------------------------------------------
(* Rows and local states *)

Role == {"member", "admin", "owner"}

\* byOwner: history, whether it makes an owner and who sent it was one.  A revoked
\* invitation is a row that was deleted.
InvitationRow == [status : {"absent", "open", "expired", "accepted", "revoked"},
                  role : Role, byOwner : BOOLEAN]

AbsentInvitation == [status |-> "absent", role |-> "member", byOwner |-> FALSE]

\* A request: what its caller was let in as (an owner, an admin, or somebody who
\* is leaving), whom it changes and to what, or who accepts which invitation.
RequestState ==
    [pc : {"idle", "changing", "counting", "writing", "inviting", "accepting"},
     as : {"owner", "admin", "self"}, target : User \cup {NoUser},
     to : Role \cup {"none"}, invitation : Invitation \cup {NoInvitation}]

Idle == [pc |-> "idle", as |-> "self", target |-> NoUser, to |-> "none",
         invitation |-> NoInvitation]

Owners == {u \in User : role[u] = "owner"}

TypeOK ==
    /\ role \in [User -> Role \cup {"none"}]
    /\ invitations \in [Invitation -> InvitationRow]
    /\ request \in [Request -> RequestState]
    /\ admitted \in [Invitation -> SUBSET User]
    /\ overlapped \in BOOLEAN
    /\ raced \subseteq Invitation

Init ==
    /\ role = [u \in User |-> IF u = Founder THEN "owner" ELSE "none"]
    /\ invitations = [i \in Invitation |-> AbsentInvitation]
    /\ request = [r \in Request |-> Idle]
    /\ admitted = [i \in Invitation |-> {}]
    /\ overlapped = FALSE
    /\ raced = {}

-----------------------------------------------------------------------------
(* updateRole and remove *)

\* member:update, member:remove, invite:create and invite:revoke: all of an
\* admin's and an owner's permissions, none of a member's.
Manages(as) == as \in {"admin", "owner"}

\* The guard, and the controller's exception for who leaves.
ChangeAdmitted(r, actor, target, to) ==
    /\ request[r].pc = "idle"
    /\ role[actor] # "none"
    /\ Manages(role[actor]) \/ (to = "none" /\ target = actor)
    /\ request' = [request EXCEPT ![r] =
                     [Idle EXCEPT !.pc = "changing", !.target = target, !.to = to,
                                  !.as = IF role[actor] = "owner" THEN "owner"
                                         ELSE IF to = "none" /\ target = actor
                                              THEN "self" ELSE "admin"]]
    /\ UNCHANGED <<role, invitations, admitted, overlapped, raced>>

\* Mutation of MayChange: an owner is only protected from being demoted.
MayChangeUpward(local, held) == local.as \in {"owner", "self"} \/ held # "owner"

\* Only an owner changes an owner or makes one, but anybody may leave.
MayChange(local, held) ==
    local.as \in {"owner", "self"} \/ (held # "owner" /\ local.to # "owner")

\* Mutation of EndsOwner: leaving is not counted.
EndsOwnerDemoted(local, held) == held = "owner" /\ local.to \in {"member", "admin"}

EndsOwner(local, held) == held = "owner" /\ local.to # "owner"

\* A change that has read its target and not yet written it.
ChangePending(r) == request[r].pc \in {"counting", "writing"}

ChangeRead(r) ==
    LET local == request[r]
        held == role[local.target]
        goesOn == held # "none" /\ MayChange(local, held)
    IN
    /\ local.pc = "changing"
    /\ request' = [request EXCEPT ![r] =
                     IF ~ goesOn THEN Idle
                     ELSE [local EXCEPT !.pc = IF EndsOwner(local, held)
                                               THEN "counting" ELSE "writing"]]
    /\ overlapped' = (overlapped \/ (goesOn /\ \E q \in Request : ChangePending(q)))
    /\ UNCHANGED <<role, invitations, admitted, raced>>

\* assertNotLastOwner.
ChangeCount(r) ==
    /\ request[r].pc = "counting"
    /\ request' = [request EXCEPT ![r] =
                     IF Cardinality(Owners) <= 1 THEN Idle ELSE [@ EXCEPT !.pc = "writing"]]
    /\ UNCHANGED <<role, invitations, admitted, overlapped, raced>>

\* Mutation of Changed: the membership is inserted if it is no longer there.
ChangedUpsert(held, to) == to

\* What an update or a deletion of the membership makes of it.
Changed(held, to) == IF held = "none" THEN "none" ELSE to

ChangeWrite(r) ==
    LET local == request[r] IN
    /\ local.pc = "writing"
    /\ role' = [role EXCEPT ![local.target] = Changed(role[local.target], local.to)]
    /\ request' = [request EXCEPT ![r] = Idle]
    /\ UNCHANGED <<invitations, admitted, overlapped, raced>>

-----------------------------------------------------------------------------
(* Invitations *)

InviteAdmitted(r, actor, to) ==
    /\ request[r].pc = "idle"
    /\ Manages(role[actor])
    /\ to = "owner" => role[actor] = "owner"
    /\ request' = [request EXCEPT ![r] =
                     [Idle EXCEPT !.pc = "inviting", !.to = to,
                                  !.as = IF role[actor] = "owner" THEN "owner" ELSE "admin"]]
    /\ UNCHANGED <<role, invitations, admitted, overlapped, raced>>

IsOpen(row) == row.status \in {"open", "expired"}

\* The partial unique index: one invitation to an address that is not accepted,
\* expired or not.
IndexAllows(i) ==
    \A k \in Invitation : EmailOf[k] = EmailOf[i] => ~ IsOpen(invitations[k])

InviteInsert(r, i) ==
    /\ request[r].pc = "inviting"
    /\ invitations[i].status = "absent"
    /\ request[r].to \in Offer[i]
    /\ IndexAllows(i)
    /\ invitations' = [invitations EXCEPT ![i] =
                         [status |-> "open", role |-> request[r].to,
                          byOwner |-> request[r].to = "owner" /\ request[r].as = "owner"]]
    /\ request' = [request EXCEPT ![r] = Idle]
    /\ UNCHANGED <<role, admitted, overlapped, raced>>

InviteCollides(r, i) ==
    /\ request[r].pc = "inviting"
    /\ invitations[i].status = "absent"
    /\ request[r].to \in Offer[i]
    /\ ~ IndexAllows(i)
    /\ request' = [request EXCEPT ![r] = Idle]
    /\ UNCHANGED <<role, invitations, admitted, overlapped, raced>>

InHand(i) == \E r \in Request : request[r].invitation = i

\* The statement that deletes the row if it is not accepted.  That the caller
\* manages members is all his guard reads, and is folded into it.
Revoke(i) ==
    /\ \E u \in User : Manages(role[u])
    /\ IsOpen(invitations[i])
    /\ invitations' = [invitations EXCEPT ![i].status = "revoked"]
    /\ raced' = IF InHand(i) THEN raced \cup {i} ELSE raced
    /\ UNCHANGED <<role, request, admitted, overlapped>>

Expire(i) ==
    /\ invitations[i].status = "open"
    /\ invitations' = [invitations EXCEPT ![i].status = "expired"]
    /\ UNCHANGED <<role, request, admitted, overlapped, raced>>

CanAccept(row) == row.status = "open"

AcceptRead(r, u, i) ==
    /\ request[r].pc = "idle"
    /\ CanAccept(invitations[i])
    /\ request' = [request EXCEPT ![r] =
                     [Idle EXCEPT !.pc = "accepting", !.target = u, !.invitation = i]]
    /\ raced' = IF InHand(i) THEN raced \cup {i} ELSE raced
    /\ UNCHANGED <<role, invitations, admitted, overlapped>>

\* Mutation of Accepted: the invitation is not marked.
AcceptedUnmarked(row) == row

Accepted(row) == IF IsOpen(row) THEN [row EXCEPT !.status = "accepted"] ELSE row

\* The membership and the mark, in one transaction.
AcceptCommit(r, i) ==
    LET u == request[r].target IN
    /\ request[r].pc = "accepting"
    /\ request[r].invitation = i
    /\ role[u] = "none"
    /\ role' = [role EXCEPT ![u] = invitations[i].role]
    /\ invitations' = [invitations EXCEPT ![i] = Accepted(invitations[i])]
    /\ admitted' = [admitted EXCEPT ![i] = admitted[i] \cup {u}]
    /\ request' = [request EXCEPT ![r] = Idle]
    /\ UNCHANGED <<overlapped, raced>>

\* He is a member already: isMember has found it or, if he has become one since,
\* the unique constraint aborts the transaction.
AcceptRefused(r) ==
    /\ request[r].pc = "accepting"
    /\ role[request[r].target] # "none"
    /\ request' = [request EXCEPT ![r] = Idle]
    /\ UNCHANGED <<role, invitations, admitted, overlapped, raced>>

Next ==
    \/ \E r \in Request, actor, target \in User, to \in Role \cup {"none"} :
         ChangeAdmitted(r, actor, target, to)
    \/ \E r \in Request : ChangeRead(r)
    \/ \E r \in Request : ChangeCount(r)
    \/ \E r \in Request : ChangeWrite(r)
    \/ \E r \in Request, actor \in User, to \in Role : InviteAdmitted(r, actor, to)
    \/ \E r \in Request, i \in Invitation : InviteInsert(r, i)
    \/ \E r \in Request, i \in Invitation : InviteCollides(r, i)
    \/ \E i \in Invitation : Revoke(i)
    \/ \E i \in Invitation : Expire(i)
    \/ \E r \in Request, u \in User, i \in Invitation : AcceptRead(r, u, i)
    \/ \E r \in Request, i \in Invitation : AcceptCommit(r, i)
    \/ \E r \in Request : AcceptRefused(r)

Spec == Init /\ [][Next]_vars

-----------------------------------------------------------------------------
(* Properties *)

\* "The last owner of an organization cannot be demoted or removed, by anyone,
\* including themselves" (TASK-005): it always has an owner, unless two changes
\* of roles have overlapped.
OwnerRemains == overlapped \/ Owners # {}

\* Nobody becomes or ceases to be an owner but by the hand of one who was let in
\* as an owner, by an invitation such a one has sent, or by leaving; unless two
\* changes of roles have overlapped.
OwnersByOwners ==
    [][\A u \in User :
         /\ role'[u] # role[u]
         /\ "owner" \in {role[u], role'[u]}
         => \/ overlapped
            \/ \E r \in Request : /\ request[r].pc = "writing" /\ request'[r].pc = "idle"
                                  /\ request[r].target = u
                                  /\ \/ request[r].as = "owner"
                                     \/ request[r].as = "self" /\ role'[u] = "none"
            \/ \E i \in Invitation : /\ u \in admitted'[i] /\ role[u] = "none"
                                     /\ invitations[i].byOwner]_vars

\* An invitation that no two worked on at once lets in one user at most, and does
\* so exactly if it is marked as accepted: a revoked one lets in nobody, one that
\* a member tried to use is still open.
InvitationsAccounted ==
    \A i \in Invitation \ raced :
        /\ Cardinality(admitted[i]) <= 1
        /\ admitted[i] # {} <=> invitations[i].status = "accepted"

\* Who was removed, or was never let in, comes in by an invitation and not by a
\* change of role that was decided before the removal, whatever races.
JoinsByInvitation ==
    [][\A u \in User : role[u] = "none" /\ role'[u] # "none" =>
         \E i \in Invitation : /\ u \in admitted'[i]
                               /\ role'[u] = invitations[i].role
                               /\ invitations[i].status # "absent"]_vars

\* "The organization can never become ownerless" (TASK-005, acceptance criteria).
NeverOwnerless == Owners # {}
=============================================================================
