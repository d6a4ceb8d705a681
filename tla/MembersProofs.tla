--------------------------- MODULE MembersProofs ----------------------------
(***************************************************************************)
(* What Members keeps for every number of users, invitations and requests: *)
(* that an organization has an owner, who makes owners, whom invitations   *)
(* let in.  A request's copy of its target is current, and no other change *)
(* of roles is pending, as long as no two have overlapped.                 *)
(***************************************************************************)
EXTENDS Members, FiniteSetTheorems, TLAPS

-----------------------------------------------------------------------------
(* Types *)

\* Whoever accepts an invitation, or is to be changed, is a user.
TargetIsUser ==
    \A r \in Request : request[r].pc \in {"changing", "counting", "writing", "accepting"} =>
        request[r].target \in User

TypeInv == TypeOK /\ TargetIsUser

LEMMA TypeInit == Init => TypeInv
<1> SUFFICES ASSUME Init PROVE TypeInv
  OBVIOUS
<1>1. role \in [User -> Role \cup {"none"}]
  BY DEF Init, Role
<1>2. invitations \in [Invitation -> InvitationRow]
  BY DEF Init, AbsentInvitation, InvitationRow, Role
<1>3. request \in [Request -> RequestState]
  BY DEF Init, Idle, RequestState
<1>4. admitted \in [Invitation -> SUBSET User] /\ overlapped \in BOOLEAN /\ raced \subseteq Invitation
  BY DEF Init
<1>5. TargetIsUser
  BY DEF Init, Idle, TargetIsUser
<1> QED BY <1>1, <1>2, <1>3, <1>4, <1>5 DEF TypeInv, TypeOK

LEMMA TypeStep == TypeInv /\ [Next]_vars => TypeInv'
<1> SUFFICES ASSUME TypeOK, TargetIsUser, [Next]_vars PROVE TypeInv'
  BY DEF TypeInv
<1> USE DEF TypeOK
<1>1. ASSUME NEW r \in Request, NEW actor \in User, NEW target \in User, NEW to \in Role \cup {"none"}, ChangeAdmitted(r, actor, target, to)
      PROVE  TypeInv'
  <2>1. request' \in [Request -> RequestState]
    BY <1>1 DEF ChangeAdmitted, Idle, RequestState, Role
  <2>8. TargetIsUser'
    BY <1>1 DEF ChangeAdmitted, TargetIsUser, Idle
  <2> QED BY <1>1, <2>1, <2>8 DEF TypeInv, ChangeAdmitted
<1>2. ASSUME NEW r \in Request, ChangeRead(r)
      PROVE  TypeInv'
  <2>1. request' \in [Request -> RequestState]
    BY <1>2 DEF ChangeRead, Idle, RequestState, Role
  <2>8. TargetIsUser'
    BY <1>2 DEF ChangeRead, TargetIsUser, Idle
  <2> QED BY <1>2, <2>1, <2>8 DEF TypeInv, ChangeRead
<1>3. ASSUME NEW r \in Request, ChangeCount(r)
      PROVE  TypeInv'
  <2>1. request' \in [Request -> RequestState]
    BY <1>3 DEF ChangeCount, Idle, RequestState, Role
  <2>8. TargetIsUser'
    BY <1>3 DEF ChangeCount, TargetIsUser, Idle
  <2> QED BY <1>3, <2>1, <2>8 DEF TypeInv, ChangeCount
<1>4. ASSUME NEW r \in Request, ChangeWrite(r)
      PROVE  TypeInv'
  <2>1. role' \in [User -> Role \cup {"none"}]
    BY <1>4 DEF ChangeWrite, Changed, RequestState
  <2>2. request' \in [Request -> RequestState]
    BY <1>4 DEF ChangeWrite, Idle, RequestState
  <2>8. TargetIsUser'
    BY <1>4 DEF ChangeWrite, TargetIsUser, Idle
  <2> QED BY <1>4, <2>1, <2>2, <2>8 DEF TypeInv, ChangeWrite
<1>5. ASSUME NEW r \in Request, NEW actor \in User, NEW to \in Role, InviteAdmitted(r, actor, to)
      PROVE  TypeInv'
  <2>1. request' \in [Request -> RequestState]
    BY <1>5 DEF InviteAdmitted, Idle, RequestState, Role
  <2>8. TargetIsUser'
    BY <1>5 DEF InviteAdmitted, TargetIsUser, Idle
  <2> QED BY <1>5, <2>1, <2>8 DEF TypeInv, InviteAdmitted
<1>6. ASSUME NEW r \in Request, NEW k \in Invitation, InviteInsert(r, k)
      PROVE  TypeInv'
  <2>1. invitations' \in [Invitation -> InvitationRow]
    BY <1>6, OfferAssumption DEF InviteInsert, InvitationRow, RequestState, Role
  <2>2. request' \in [Request -> RequestState]
    BY <1>6 DEF InviteInsert, Idle, RequestState
  <2>8. TargetIsUser'
    BY <1>6 DEF InviteInsert, TargetIsUser, Idle
  <2> QED BY <1>6, <2>1, <2>2, <2>8 DEF TypeInv, InviteInsert
<1>7. ASSUME NEW r \in Request, NEW k \in Invitation, InviteCollides(r, k)
      PROVE  TypeInv'
  <2>1. request' \in [Request -> RequestState]
    BY <1>7 DEF InviteCollides, Idle, RequestState, Role
  <2>8. TargetIsUser'
    BY <1>7 DEF InviteCollides, TargetIsUser, Idle
  <2> QED BY <1>7, <2>1, <2>8 DEF TypeInv, InviteCollides
<1>8. ASSUME NEW k \in Invitation, Revoke(k)
      PROVE  TypeInv'
  <2>1. invitations' \in [Invitation -> InvitationRow]
    BY <1>8 DEF Revoke, InvitationRow
  <2>8. TargetIsUser'
    BY <1>8 DEF Revoke, TargetIsUser
  <2> QED BY <1>8, <2>1, <2>8 DEF TypeInv, Revoke
<1>9. ASSUME NEW k \in Invitation, Expire(k)
      PROVE  TypeInv'
  <2>1. invitations' \in [Invitation -> InvitationRow]
    BY <1>9 DEF Expire, InvitationRow
  <2>8. TargetIsUser'
    BY <1>9 DEF Expire, TargetIsUser
  <2> QED BY <1>9, <2>1, <2>8 DEF TypeInv, Expire
<1>10. ASSUME NEW r \in Request, NEW u \in User, NEW k \in Invitation, AcceptRead(r, u, k)
      PROVE  TypeInv'
  <2>1. request' \in [Request -> RequestState]
    BY <1>10 DEF AcceptRead, Idle, RequestState, Role
  <2>8. TargetIsUser'
    BY <1>10 DEF AcceptRead, TargetIsUser, Idle
  <2> QED BY <1>10, <2>1, <2>8 DEF TypeInv, AcceptRead
<1>11. ASSUME NEW r \in Request, NEW k \in Invitation, AcceptCommit(r, k)
      PROVE  TypeInv'
  <2>1. invitations' \in [Invitation -> InvitationRow]
    BY <1>11 DEF AcceptCommit, Accepted, InvitationRow
  <2>2. request' \in [Request -> RequestState]
    BY <1>11 DEF AcceptCommit, Idle, RequestState
  <2>3. role' \in [User -> Role \cup {"none"}]
    BY <1>11 DEF AcceptCommit, InvitationRow
  <2>4. admitted' \in [Invitation -> SUBSET User]
    <3>1. request[r].target \in User
      BY <1>11 DEF AcceptCommit, TargetIsUser
    <3> QED BY <1>11, <3>1 DEF AcceptCommit
  <2>8. TargetIsUser'
    BY <1>11 DEF AcceptCommit, TargetIsUser, Idle
  <2> QED BY <1>11, <2>1, <2>2, <2>3, <2>4, <2>8 DEF TypeInv, AcceptCommit
<1>12. ASSUME NEW r \in Request, AcceptRefused(r)
      PROVE  TypeInv'
  <2>1. request' \in [Request -> RequestState]
    BY <1>12 DEF AcceptRefused, Idle, RequestState, Role
  <2>8. TargetIsUser'
    BY <1>12 DEF AcceptRefused, TargetIsUser, Idle
  <2> QED BY <1>12, <2>1, <2>8 DEF TypeInv, AcceptRefused
<1>13. CASE UNCHANGED vars
  BY <1>13 DEF vars, TypeInv, TargetIsUser
<1> QED BY <1>1, <1>2, <1>3, <1>4, <1>5, <1>6, <1>7, <1>8, <1>9, <1>10, <1>11, <1>12, <1>13 DEF Next

\* Every reachable state is well typed.
THEOREM TypeCorrect == Spec => []TypeOK
<1>1. Spec => []TypeInv
  BY TypeInit, TypeStep, PTL DEF Spec
<1> QED BY <1>1, PTL DEF TypeInv

-----------------------------------------------------------------------------
(* Roles *)

\* Who is leaving can only be removed.
LeavingRemoves ==
    \A r \in Request :
        request[r].pc \in {"changing", "counting", "writing"} /\ request[r].as = "self"
        => request[r].to = "none"

\* Only an owner invites an owner.
OwnerInvites ==
    /\ \A i \in Invitation : invitations[i].role = "owner" => invitations[i].byOwner
    /\ \A r \in Request : request[r].pc = "inviting" /\ request[r].to = "owner"
                         => request[r].as = "owner"

\* Only one change is pending, what it has read of its target still holds, and
\* once the owners are counted there is another one.
Current(r) ==
    LET local == request[r]
        held == role[local.target]
    IN
    /\ held # "none"
    /\ MayChange(local, held)
    /\ local.pc = "counting" => EndsOwner(local, held)
    /\ local.pc = "writing" /\ EndsOwner(local, held) => \E u \in Owners : u # local.target

AloneAndCurrent ==
    ~ overlapped => \A r \in Request : ChangePending(r) =>
        /\ Current(r)
        /\ \A q \in Request : ChangePending(q) => q = r

RolesInv == LeavingRemoves /\ OwnerInvites /\ AloneAndCurrent /\ OwnerRemains

LEMMA RolesInit == Init => RolesInv
BY UserAssumption DEF Init, RolesInv, LeavingRemoves, OwnerInvites, AloneAndCurrent, OwnerRemains,
                      Owners, Idle, AbsentInvitation, ChangePending

LEMMA ManyOwners == Cardinality(Owners) > 1 => \A v : \E u \in Owners : u # v
<1> SUFFICES ASSUME NEW v, \A u \in Owners : u = v PROVE ~ (Cardinality(Owners) > 1)
  OBVIOUS
<1>1. CASE Owners = {}
  BY <1>1, FS_EmptySet
<1>2. CASE Owners # {}
  <2>1. Owners = {v}
    BY <1>2
  <2>2. Cardinality(Owners) = 1
    BY <2>1, FS_Singleton
  <2> QED BY <2>2
<1> QED BY <1>1, <1>2

LEMMA RolesStep == TypeInv /\ RolesInv /\ [Next]_vars => RolesInv'
<1> SUFFICES ASSUME TypeInv, RolesInv, [Next]_vars PROVE RolesInv'
  OBVIOUS
<1> USE DEF TypeInv, TypeOK, RolesInv
<1>1. ASSUME NEW r \in Request, NEW actor \in User, NEW target \in User, NEW to \in Role \cup {"none"}, ChangeAdmitted(r, actor, target, to)
      PROVE  RolesInv'
  <2>1. LeavingRemoves'
    BY <1>1 DEF ChangeAdmitted, LeavingRemoves, Idle
  <2>2. OwnerInvites'
    BY <1>1 DEF ChangeAdmitted, OwnerInvites, Idle
  <2>3. AloneAndCurrent'
    BY <1>1 DEF ChangeAdmitted, AloneAndCurrent, ChangePending, Current, Owners, EndsOwner, MayChange, Idle
  <2>4. OwnerRemains'
    BY <1>1 DEF ChangeAdmitted, OwnerRemains, Owners
  <2> QED BY <2>1, <2>2, <2>3, <2>4
<1>2. ASSUME NEW r \in Request, ChangeRead(r)
      PROVE  RolesInv'
  <2>1. LeavingRemoves'
    BY <1>2 DEF ChangeRead, LeavingRemoves, Idle
  <2>2. OwnerInvites'
    BY <1>2 DEF ChangeRead, OwnerInvites, Idle
  <2>3. AloneAndCurrent'
    <3> SUFFICES ASSUME ~ overlapped', NEW q \in Request, ChangePending(q)'
                 PROVE  Current(q)' /\ \A p \in Request : ChangePending(p)' => p = q
      BY DEF AloneAndCurrent
    <3> DEFINE local == request[r]
               held == role[local.target]
    <3>1. ~ overlapped /\ request[r].pc = "changing" /\ role' = role
      BY <1>2 DEF ChangeRead
    <3>2. \A p \in Request : p # r => request'[p] = request[p]
      BY <1>2 DEF ChangeRead
    <3>3. CASE q = r
      <4>1. request'[r].pc \in {"counting", "writing"}
        BY <3>3 DEF ChangePending
      <4>2. held # "none" /\ MayChange(local, held)
        BY <4>1, <1>2 DEF ChangeRead, Idle
      <4>3. ~ \E p \in Request : ChangePending(p)
        BY <4>2, <1>2 DEF ChangeRead
      <4>4. request'[r] = [local EXCEPT !.pc = IF EndsOwner(local, held)
                                               THEN "counting" ELSE "writing"]
        BY <4>2, <1>2 DEF ChangeRead
      <4>5. /\ request'[r].as = local.as /\ request'[r].to = local.to
            /\ request'[r].target = local.target
            /\ request'[r].pc = IF EndsOwner(local, held) THEN "counting" ELSE "writing"
        BY <4>4 DEF RequestState
      <4>6. Current(r)'
        BY <4>2, <4>5, <3>1 DEF Current, MayChange, EndsOwner
      <4> QED BY <4>6, <4>3, <3>2, <3>3 DEF ChangePending
    <3>4. CASE q # r
      <4>1. ChangePending(q)
        BY <3>4, <3>2 DEF ChangePending
      <4>2. Current(q)' /\ \A p \in Request : ChangePending(p) => p = q
        BY <3>4, <3>1, <3>2, <4>1 DEF AloneAndCurrent, Current, Owners
      <4>3. ~ ChangePending(r)'
        BY <1>2, <4>1, <3>1 DEF ChangeRead, Idle, ChangePending
      <4> QED BY <4>2, <4>3, <3>2 DEF ChangePending
    <3> QED BY <3>3, <3>4
  <2>4. OwnerRemains'
    BY <1>2 DEF ChangeRead, OwnerRemains, Owners
  <2> QED BY <2>1, <2>2, <2>3, <2>4
<1>3. ASSUME NEW r \in Request, ChangeCount(r)
      PROVE  RolesInv'
  <2>1. LeavingRemoves'
    BY <1>3 DEF ChangeCount, LeavingRemoves, Idle
  <2>2. OwnerInvites'
    BY <1>3 DEF ChangeCount, OwnerInvites, Idle
  <2>3. AloneAndCurrent'
    <3> SUFFICES ASSUME ~ overlapped', NEW q \in Request, ChangePending(q)'
                 PROVE  Current(q)' /\ \A p \in Request : ChangePending(p)' => p = q
      BY DEF AloneAndCurrent
    <3>1. ~ overlapped /\ ChangePending(r) /\ role' = role
      BY <1>3 DEF ChangeCount, ChangePending
    <3>2. \A p \in Request : p # r => request'[p] = request[p]
      BY <1>3 DEF ChangeCount
    <3>3. Current(r) /\ \A p \in Request : ChangePending(p) => p = r
      BY <3>1 DEF AloneAndCurrent
    <3>4. q = r /\ \A p \in Request : ChangePending(p)' => p = r
      BY <3>2, <3>3 DEF ChangePending
    <3>5. ~ (Cardinality(Owners) <= 1) /\ request'[r] = [request[r] EXCEPT !.pc = "writing"]
      BY <3>4, <1>3 DEF ChangeCount, ChangePending, Idle
    <3>6. \E u \in Owners : u # request[r].target
      <4>1. IsFiniteSet(Owners)
        BY UserAssumption, FS_Subset DEF Owners
      <4>2. Cardinality(Owners) \in Nat
        BY <4>1, FS_CardinalityType
      <4> QED BY <3>5, <4>2, ManyOwners
    <3>7. Current(r)'
      BY <3>1, <3>3, <3>5, <3>6 DEF Current, MayChange, EndsOwner, Owners, RequestState
    <3> QED BY <3>4, <3>7
  <2>4. OwnerRemains'
    BY <1>3 DEF ChangeCount, OwnerRemains, Owners
  <2> QED BY <2>1, <2>2, <2>3, <2>4
<1>4. ASSUME NEW r \in Request, ChangeWrite(r)
      PROVE  RolesInv'
  <2>1. LeavingRemoves'
    BY <1>4 DEF ChangeWrite, LeavingRemoves, Idle
  <2>2. OwnerInvites'
    BY <1>4 DEF ChangeWrite, OwnerInvites, Idle
  <2>3. AloneAndCurrent'
    BY <1>4 DEF ChangeWrite, AloneAndCurrent, ChangePending, Idle
  <2>4. OwnerRemains'
    BY <1>4 DEF ChangeWrite, OwnerRemains, AloneAndCurrent, ChangePending, Current, Owners, EndsOwner, Changed, TargetIsUser, RequestState
  <2> QED BY <2>1, <2>2, <2>3, <2>4
<1>5. ASSUME NEW r \in Request, NEW actor \in User, NEW to \in Role, InviteAdmitted(r, actor, to)
      PROVE  RolesInv'
  <2>1. LeavingRemoves'
    BY <1>5 DEF InviteAdmitted, LeavingRemoves, Idle
  <2>2. OwnerInvites'
    BY <1>5 DEF InviteAdmitted, OwnerInvites, Idle
  <2>3. AloneAndCurrent'
    BY <1>5 DEF InviteAdmitted, AloneAndCurrent, ChangePending, Current, Owners, EndsOwner, MayChange, Idle
  <2>4. OwnerRemains'
    BY <1>5 DEF InviteAdmitted, OwnerRemains, Owners
  <2> QED BY <2>1, <2>2, <2>3, <2>4
<1>6. ASSUME NEW r \in Request, NEW k \in Invitation, InviteInsert(r, k)
      PROVE  RolesInv'
  <2>1. LeavingRemoves'
    BY <1>6 DEF InviteInsert, LeavingRemoves, Idle
  <2>2. OwnerInvites'
    BY <1>6 DEF InviteInsert, OwnerInvites, Idle
  <2>3. AloneAndCurrent'
    BY <1>6 DEF InviteInsert, AloneAndCurrent, ChangePending, Current, Owners, EndsOwner, MayChange, Idle
  <2>4. OwnerRemains'
    BY <1>6 DEF InviteInsert, OwnerRemains, Owners
  <2> QED BY <2>1, <2>2, <2>3, <2>4
<1>7. ASSUME NEW r \in Request, NEW k \in Invitation, InviteCollides(r, k)
      PROVE  RolesInv'
  <2>1. LeavingRemoves'
    BY <1>7 DEF InviteCollides, LeavingRemoves, Idle
  <2>2. OwnerInvites'
    BY <1>7 DEF InviteCollides, OwnerInvites, Idle
  <2>3. AloneAndCurrent'
    BY <1>7 DEF InviteCollides, AloneAndCurrent, ChangePending, Current, Owners, EndsOwner, MayChange, Idle
  <2>4. OwnerRemains'
    BY <1>7 DEF InviteCollides, OwnerRemains, Owners
  <2> QED BY <2>1, <2>2, <2>3, <2>4
<1>8. ASSUME NEW k \in Invitation, Revoke(k)
      PROVE  RolesInv'
  <2>1. LeavingRemoves'
    BY <1>8 DEF Revoke, LeavingRemoves
  <2>2. OwnerInvites'
    BY <1>8 DEF Revoke, OwnerInvites
  <2>3. AloneAndCurrent'
    BY <1>8 DEF Revoke, AloneAndCurrent, ChangePending, Current, Owners, EndsOwner, MayChange
  <2>4. OwnerRemains'
    BY <1>8 DEF Revoke, OwnerRemains, Owners
  <2> QED BY <2>1, <2>2, <2>3, <2>4
<1>9. ASSUME NEW k \in Invitation, Expire(k)
      PROVE  RolesInv'
  <2>1. LeavingRemoves'
    BY <1>9 DEF Expire, LeavingRemoves
  <2>2. OwnerInvites'
    BY <1>9 DEF Expire, OwnerInvites
  <2>3. AloneAndCurrent'
    BY <1>9 DEF Expire, AloneAndCurrent, ChangePending, Current, Owners, EndsOwner, MayChange
  <2>4. OwnerRemains'
    BY <1>9 DEF Expire, OwnerRemains, Owners
  <2> QED BY <2>1, <2>2, <2>3, <2>4
<1>10. ASSUME NEW r \in Request, NEW u \in User, NEW k \in Invitation, AcceptRead(r, u, k)
      PROVE  RolesInv'
  <2>1. LeavingRemoves'
    BY <1>10 DEF AcceptRead, LeavingRemoves, Idle
  <2>2. OwnerInvites'
    BY <1>10 DEF AcceptRead, OwnerInvites, Idle
  <2>3. AloneAndCurrent'
    BY <1>10 DEF AcceptRead, AloneAndCurrent, ChangePending, Current, Owners, EndsOwner, MayChange, Idle
  <2>4. OwnerRemains'
    BY <1>10 DEF AcceptRead, OwnerRemains, Owners
  <2> QED BY <2>1, <2>2, <2>3, <2>4
<1>11. ASSUME NEW r \in Request, NEW k \in Invitation, AcceptCommit(r, k)
      PROVE  RolesInv'
  <2>1. LeavingRemoves'
    BY <1>11 DEF AcceptCommit, LeavingRemoves, Idle
  <2>2. OwnerInvites'
    BY <1>11 DEF AcceptCommit, OwnerInvites, Idle, Accepted
  <2>3. AloneAndCurrent'
    BY <1>11 DEF AcceptCommit, AloneAndCurrent, ChangePending, Current, Owners, EndsOwner, MayChange, Idle, TargetIsUser
  <2>4. OwnerRemains'
    BY <1>11 DEF AcceptCommit, OwnerRemains, Owners
  <2> QED BY <2>1, <2>2, <2>3, <2>4
<1>12. ASSUME NEW r \in Request, AcceptRefused(r)
      PROVE  RolesInv'
  <2>1. LeavingRemoves'
    BY <1>12 DEF AcceptRefused, LeavingRemoves, Idle
  <2>2. OwnerInvites'
    BY <1>12 DEF AcceptRefused, OwnerInvites, Idle
  <2>3. AloneAndCurrent'
    BY <1>12 DEF AcceptRefused, AloneAndCurrent, ChangePending, Current, Owners, EndsOwner, MayChange, Idle
  <2>4. OwnerRemains'
    BY <1>12 DEF AcceptRefused, OwnerRemains, Owners
  <2> QED BY <2>1, <2>2, <2>3, <2>4
<1>13. CASE UNCHANGED vars
  BY <1>13 DEF vars, LeavingRemoves, OwnerInvites, AloneAndCurrent, OwnerRemains, Current, ChangePending,
               Owners
<1> QED BY <1>1, <1>2, <1>3, <1>4, <1>5, <1>6, <1>7, <1>8, <1>9, <1>10, <1>11, <1>12, <1>13 DEF Next

LEMMA RolesAlways == Spec => [](TypeInv /\ RolesInv)
BY TypeInit, TypeStep, RolesInit, RolesStep, PTL DEF Spec

\* An organization has an owner unless two changes of roles have overlapped.
THEOREM OwnerRemainsHolds == Spec => []OwnerRemains
BY RolesAlways, PTL DEF RolesInv

\* Only owners make and unmake owners, unless two changes of roles have
\* overlapped: what a request was let in for is still allowed when it writes.
THEOREM OwnersByOwnersHolds == Spec => OwnersByOwners
<1> DEFINE Hand(u) ==
      \/ overlapped
      \/ \E r \in Request : /\ request[r].pc = "writing" /\ request'[r].pc = "idle"
                            /\ request[r].target = u
                            /\ \/ request[r].as = "owner"
                               \/ request[r].as = "self" /\ role'[u] = "none"
      \/ \E i \in Invitation : /\ u \in admitted'[i] /\ role[u] = "none"
                               /\ invitations[i].byOwner
<1>1. ASSUME TypeInv, RolesInv, [Next]_vars, NEW u \in User,
             role'[u] # role[u], "owner" \in {role[u], role'[u]}
      PROVE  Hand(u)
  <2> USE DEF TypeInv, TypeOK, RolesInv
  <2>1. ASSUME NEW r \in Request, ChangeWrite(r) PROVE Hand(u)
    <3>1. /\ request[r].pc = "writing" /\ request'[r].pc = "idle" /\ request[r].target = u
          /\ role[u] # "none" /\ role'[u] = request[r].to
      BY <2>1, <1>1 DEF ChangeWrite, Changed, Idle, TargetIsUser
    <3>2. CASE ~ overlapped
      <4>1. Current(r)
        BY <3>1, <3>2, <1>1 DEF AloneAndCurrent, ChangePending
      <4>2. request[r].as \in {"owner", "self"}
        BY <4>1, <3>1, <1>1 DEF Current, MayChange
      <4>3. request[r].as = "self" => role'[u] = "none"
        BY <3>1, <1>1 DEF LeavingRemoves
      <4> QED BY <3>1, <4>2, <4>3
    <3> QED BY <3>2
  <2>2. ASSUME NEW r \in Request, NEW i \in Invitation, AcceptCommit(r, i) PROVE Hand(u)
    <3>1. /\ u \in admitted'[i] /\ role[u] = "none" /\ role'[u] = invitations[i].role
      BY <2>2, <1>1 DEF AcceptCommit, TargetIsUser
    <3>2. invitations[i].byOwner
      BY <3>1, <1>1 DEF OwnerInvites
    <3> QED BY <3>1, <3>2
  <2>3. (\E r \in Request : ChangeWrite(r)) \/ (\E r \in Request, i \in Invitation : AcceptCommit(r, i))
    BY <1>1 DEF Next, vars, ChangeAdmitted, ChangeRead, ChangeCount, InviteAdmitted, InviteInsert,
                InviteCollides, Revoke, Expire, AcceptRead, AcceptRefused
  <2> QED BY <2>1, <2>2, <2>3
<1>2. TypeInv /\ RolesInv /\ [Next]_vars
      => [\A u \in User :
            /\ role'[u] # role[u]
            /\ "owner" \in {role[u], role'[u]}
            => Hand(u)]_vars
  BY <1>1
<1> QED BY <1>2, RolesAlways, PTL DEF OwnersByOwners, Spec

-----------------------------------------------------------------------------
(* Invitations *)

\* What is in hand has been sent.
InHandIsSent ==
    \A r \in Request : request[r].invitation \in Invitation =>
        request[r].pc = "accepting" /\ invitations[request[r].invitation].status # "absent"

\* An invitation that no two worked on at once is in one hand at most, where it
\* stays open and has let in nobody; it has let in one user if it is accepted.
Accounted(i) ==
    /\ \A r, q \in Request : request[r].invitation = i /\ request[q].invitation = i => r = q
    /\ InHand(i) => IsOpen(invitations[i])
    /\ admitted[i] # {} <=> invitations[i].status = "accepted"
    /\ admitted[i] = {} \/ \E u \in User : admitted[i] = {u}

AccountsInv == InHandIsSent /\ \A i \in Invitation \ raced : Accounted(i)

LEMMA AccountsInit == Init => AccountsInv
BY InvitationAssumption DEF Init, AccountsInv, InHandIsSent, Accounted, InHand, Idle, AbsentInvitation

LEMMA AccountsStep == TypeInv /\ AccountsInv /\ [Next]_vars => AccountsInv'
<1> SUFFICES ASSUME TypeInv, AccountsInv, [Next]_vars PROVE AccountsInv'
  OBVIOUS
<1> USE InvitationAssumption DEF TypeInv, TypeOK, AccountsInv
<1>1. ASSUME NEW r \in Request, NEW actor \in User, NEW target \in User, NEW to \in Role \cup {"none"}, ChangeAdmitted(r, actor, target, to)
      PROVE  AccountsInv'
  <2>1. InHandIsSent'
    BY <1>1 DEF ChangeAdmitted, Idle, InHandIsSent
  <2>2. ASSUME NEW i \in Invitation, i \notin raced' PROVE Accounted(i)'
    BY <1>1, <2>2 DEF ChangeAdmitted, Idle, Accounted, InHand, IsOpen
  <2> QED BY <2>1, <2>2
<1>2. ASSUME NEW r \in Request, ChangeRead(r)
      PROVE  AccountsInv'
  <2>1. InHandIsSent'
    BY <1>2 DEF ChangeRead, Idle, InHandIsSent
  <2>2. ASSUME NEW i \in Invitation, i \notin raced' PROVE Accounted(i)'
    BY <1>2, <2>2 DEF ChangeRead, Idle, Accounted, InHand, IsOpen
  <2> QED BY <2>1, <2>2
<1>3. ASSUME NEW r \in Request, ChangeCount(r)
      PROVE  AccountsInv'
  <2>1. InHandIsSent'
    BY <1>3 DEF ChangeCount, Idle, InHandIsSent
  <2>2. ASSUME NEW i \in Invitation, i \notin raced' PROVE Accounted(i)'
    BY <1>3, <2>2 DEF ChangeCount, Idle, Accounted, InHand, IsOpen
  <2> QED BY <2>1, <2>2
<1>4. ASSUME NEW r \in Request, ChangeWrite(r)
      PROVE  AccountsInv'
  <2>1. InHandIsSent'
    BY <1>4 DEF ChangeWrite, Idle, InHandIsSent
  <2>2. ASSUME NEW i \in Invitation, i \notin raced' PROVE Accounted(i)'
    BY <1>4, <2>2 DEF ChangeWrite, Idle, Accounted, InHand, IsOpen
  <2> QED BY <2>1, <2>2
<1>5. ASSUME NEW r \in Request, NEW actor \in User, NEW to \in Role, InviteAdmitted(r, actor, to)
      PROVE  AccountsInv'
  <2>1. InHandIsSent'
    BY <1>5 DEF InviteAdmitted, Idle, InHandIsSent
  <2>2. ASSUME NEW i \in Invitation, i \notin raced' PROVE Accounted(i)'
    BY <1>5, <2>2 DEF InviteAdmitted, Idle, Accounted, InHand, IsOpen
  <2> QED BY <2>1, <2>2
<1>6. ASSUME NEW r \in Request, NEW k \in Invitation, InviteInsert(r, k)
      PROVE  AccountsInv'
  <2>1. InHandIsSent'
    BY <1>6 DEF InviteInsert, Idle, InHandIsSent, IsOpen
  <2>2. ASSUME NEW i \in Invitation, i \notin raced' PROVE Accounted(i)'
    BY <1>6, <2>2 DEF InviteInsert, Idle, InHandIsSent, Accounted, InHand, IsOpen
  <2> QED BY <2>1, <2>2
<1>7. ASSUME NEW r \in Request, NEW k \in Invitation, InviteCollides(r, k)
      PROVE  AccountsInv'
  <2>1. InHandIsSent'
    BY <1>7 DEF InviteCollides, Idle, InHandIsSent
  <2>2. ASSUME NEW i \in Invitation, i \notin raced' PROVE Accounted(i)'
    BY <1>7, <2>2 DEF InviteCollides, Idle, Accounted, InHand, IsOpen
  <2> QED BY <2>1, <2>2
<1>8. ASSUME NEW k \in Invitation, Revoke(k)
      PROVE  AccountsInv'
  <2>1. InHandIsSent'
    BY <1>8 DEF Revoke, InHandIsSent, IsOpen
  <2>2. ASSUME NEW i \in Invitation, i \notin raced' PROVE Accounted(i)'
    BY <1>8, <2>2 DEF Revoke, Accounted, InHand, IsOpen
  <2> QED BY <2>1, <2>2
<1>9. ASSUME NEW k \in Invitation, Expire(k)
      PROVE  AccountsInv'
  <2>1. InHandIsSent'
    BY <1>9 DEF Expire, InHandIsSent, IsOpen
  <2>2. ASSUME NEW i \in Invitation, i \notin raced' PROVE Accounted(i)'
    BY <1>9, <2>2 DEF Expire, Accounted, InHand, IsOpen
  <2> QED BY <2>1, <2>2
<1>10. ASSUME NEW r \in Request, NEW u \in User, NEW k \in Invitation, AcceptRead(r, u, k)
      PROVE  AccountsInv'
  <2>1. InHandIsSent'
    BY <1>10 DEF AcceptRead, Idle, InHandIsSent, CanAccept, InHand
  <2>2. ASSUME NEW i \in Invitation, i \notin raced' PROVE Accounted(i)'
    BY <1>10, <2>2 DEF AcceptRead, Idle, CanAccept, Accounted, InHand, IsOpen
  <2> QED BY <2>1, <2>2
<1>11. ASSUME NEW r \in Request, NEW k \in Invitation, AcceptCommit(r, k)
      PROVE  AccountsInv'
  <2>1. InHandIsSent'
    BY <1>11 DEF AcceptCommit, Idle, InHandIsSent, Accepted, IsOpen
  <2>2. ASSUME NEW i \in Invitation, i \notin raced' PROVE Accounted(i)'
    <3>1. i \notin raced /\ Accounted(i)
      BY <1>11, <2>2 DEF AcceptCommit
    <3>2. request' = [request EXCEPT ![r] = Idle] /\ request[r].target \in User
      BY <1>11 DEF AcceptCommit, TargetIsUser
    <3>3. CASE i # k
      <4>1. invitations'[i] = invitations[i] /\ admitted'[i] = admitted[i]
        BY <1>11, <3>3 DEF AcceptCommit
      <4> QED BY <3>1, <3>2, <4>1 DEF Accounted, InHand, IsOpen, Idle
    <3>4. CASE i = k
      <4>1. request[r].invitation = i
        BY <1>11, <3>4 DEF AcceptCommit
      <4>2. IsOpen(invitations[i]) /\ admitted[i] = {}
        BY <3>1, <4>1 DEF Accounted, InHand, IsOpen
      <4>3. admitted'[i] = {request[r].target}
        BY <1>11, <3>4, <4>2 DEF AcceptCommit
      <4>4. invitations'[i].status = "accepted"
        <5>1. invitations'[i] = [invitations[i] EXCEPT !.status = "accepted"]
          BY <1>11, <3>4, <4>2 DEF AcceptCommit, Accepted
        <5> QED BY <5>1 DEF InvitationRow
      <4>5. \A q \in Request : request'[q].invitation # i
        BY <3>1, <3>2, <4>1 DEF Accounted, Idle
      <4> QED BY <3>2, <4>3, <4>4, <4>5 DEF Accounted, InHand
    <3> QED BY <3>3, <3>4
  <2> QED BY <2>1, <2>2
<1>12. ASSUME NEW r \in Request, AcceptRefused(r)
      PROVE  AccountsInv'
  <2>1. InHandIsSent'
    BY <1>12 DEF AcceptRefused, Idle, InHandIsSent
  <2>2. ASSUME NEW i \in Invitation, i \notin raced' PROVE Accounted(i)'
    BY <1>12, <2>2 DEF AcceptRefused, Idle, Accounted, InHand, IsOpen
  <2> QED BY <2>1, <2>2
<1>13. CASE UNCHANGED vars
  BY <1>13 DEF vars, InHandIsSent, Accounted, InHand, IsOpen
<1> QED BY <1>1, <1>2, <1>3, <1>4, <1>5, <1>6, <1>7, <1>8, <1>9, <1>10, <1>11, <1>12, <1>13 DEF Next

LEMMA AccountsAlways == Spec => [](TypeInv /\ AccountsInv)
BY TypeInit, TypeStep, AccountsInit, AccountsStep, PTL DEF Spec

\* An invitation that no two worked on at once lets in one user at most, and is
\* marked as accepted exactly if it did.
THEOREM InvitationsAccountedHolds == Spec => []InvitationsAccounted
<1>1. AccountsInv => InvitationsAccounted
  <2> SUFFICES ASSUME AccountsInv, NEW i \in Invitation \ raced
               PROVE  /\ Cardinality(admitted[i]) <= 1
                      /\ admitted[i] # {} <=> invitations[i].status = "accepted"
    BY DEF InvitationsAccounted
  <2>1. admitted[i] = {} => Cardinality(admitted[i]) = 0
    BY FS_EmptySet
  <2>2. \A u : admitted[i] = {u} => Cardinality(admitted[i]) = 1
    BY FS_Singleton
  <2>3. Accounted(i)
    BY DEF AccountsInv
  <2>4. Cardinality(admitted[i]) = 0 \/ Cardinality(admitted[i]) = 1
    BY <2>1, <2>2, <2>3 DEF Accounted
  <2> QED BY <2>3, <2>4 DEF Accounted
<1> QED BY <1>1, AccountsAlways, PTL

\* Nobody becomes a member but by an invitation that was sent, and with its role.
THEOREM JoinsByInvitationHolds == Spec => JoinsByInvitation
<1> DEFINE Invited(u) ==
      \E i \in Invitation : /\ u \in admitted'[i]
                            /\ role'[u] = invitations[i].role
                            /\ invitations[i].status # "absent"
<1>1. ASSUME TypeInv, AccountsInv, [Next]_vars, NEW u \in User,
             role[u] = "none", role'[u] # "none"
      PROVE  Invited(u)
  <2> USE DEF TypeInv, TypeOK, AccountsInv
  <2>1. ASSUME NEW r \in Request, ChangeWrite(r) PROVE FALSE
    BY <2>1, <1>1 DEF ChangeWrite, Changed, TargetIsUser
  <2>2. ASSUME NEW r \in Request, NEW i \in Invitation, AcceptCommit(r, i) PROVE Invited(u)
    BY <2>2, <1>1 DEF AcceptCommit, TargetIsUser, InHandIsSent
  <2>3. (\E r \in Request : ChangeWrite(r)) \/ (\E r \in Request, i \in Invitation : AcceptCommit(r, i))
    BY <1>1 DEF Next, vars, ChangeAdmitted, ChangeRead, ChangeCount, InviteAdmitted, InviteInsert,
                InviteCollides, Revoke, Expire, AcceptRead, AcceptRefused
  <2> QED BY <2>1, <2>2, <2>3
<1>2. TypeInv /\ AccountsInv /\ [Next]_vars
      => [\A u \in User : role[u] = "none" /\ role'[u] # "none" => Invited(u)]_vars
  BY <1>1
<1> QED BY <1>2, AccountsAlways, PTL DEF JoinsByInvitation, Spec
=============================================================================
