------------------------------ MODULE Sessions ------------------------------
(* Accounts and the sessions that stand for them: auth.service.ts,           *)
(* users.service.ts, session.guard.ts, and the organization that comes with  *)
(* an account (orgs.service.ts).  One action is one statement of the         *)
(* database, or one transaction; hashing a password takes the time between   *)
(* two of them.  A password is the number of times it has been changed: a    *)
(* request that does not know the one it reads changes nothing.              *)
EXTENDS Integers, Sequences, FiniteSetsExt

CONSTANTS User, Token, Request,
          Name,            \* of an organization, as the slug it makes
          NoUser, NoToken,
          TTL,             \* SESSION_TTL_MS
          SeenInterval,    \* LAST_SEEN_INTERVAL_MS
          MaxTime,         \* bound: the clock
          MaxPassword,     \* bound: password changes of one user
          MaxOrganizations \* bound: organizations

\* A slug is the numbers it ends in: acme is <<>>, acme-2 is <<2>>, acme-2-2 is
\* <<2, 2>>.  Names of different words never meet, and none is cut for its length.
ASSUME NameAssumption == Name \subseteq Seq(Nat)

ASSUME SessionsAssumption ==
    /\ NoUser \notin User /\ NoToken \notin Token
    /\ {TTL, SeenInterval, MaxTime, MaxPassword, MaxOrganizations} \subseteq Nat

VARIABLES users,      \* the table: status "none" before registration
          sessions,   \* the table, by token; one without a row belongs to NoUser
          organizations, \* the table: the name each was founded under, and its suffix
          request,    \* what each request in progress has read
          now,
          ended,      \* history: tokens whose row has been deleted
          slipped     \* history: tokens of logins overtaken by a change of the account
vars == <<users, sessions, organizations, request, now, ended, slipped>>

Password == 0..MaxPassword
Time == 0..(MaxTime + TTL)
UserRow == [status : {"none", "active", "disabled"}, password : Password]
SessionRow == [user : User \union {NoUser}, expiresAt : Time, lastSeenAt : Time, password : Password]
NoSession == [user |-> NoUser, expiresAt |-> 0, lastSeenAt |-> 0, password |-> 0]
Organization == [name : Seq(Nat), suffix : Nat]
NoOrganization == [name |-> <<>>, suffix |-> 0]
Local == [pc : {"idle", "registering", "founding", "verified", "seen", "admitted", "hashing", "leaving"},
          user : User \union {NoUser}, token : Token \union {NoToken},
          password : Password, founds : Organization, overtaken : BOOLEAN]
Idle == [pc |-> "idle", user |-> NoUser, token |-> NoToken,
         password |-> 0, founds |-> NoOrganization, overtaken |-> FALSE]

(* Everything is in its domain.                                              *)
TypeOK ==
    /\ users \in [User -> UserRow] /\ sessions \in [Token -> SessionRow]
    /\ organizations \subseteq Organization /\ now \in 0..MaxTime
    /\ request \in [Request -> Local]
    /\ ended \subseteq Token /\ slipped \subseteq Token

Init ==
    /\ users = [u \in User |-> [status |-> "none", password |-> 0]]
    /\ sessions = [t \in Token |-> NoSession]
    /\ organizations = {} /\ now = 0
    /\ request = [r \in Request |-> Idle]
    /\ ended = {} /\ slipped = {}

HasRow(t) == sessions[t].user # NoUser
Fresh == {t \in Token : ~HasRow(t) /\ t \notin ended}
Becomes(r, next) == request' = [request EXCEPT ![r] = next]
Overtaking(u) == [q \in Request |-> IF request[q].pc = "verified" /\ request[q].user = u
                                    THEN [request[q] EXCEPT !.overtaken = TRUE] ELSE request[q]]

-----------------------------------------------------------------------------
(* register: one transaction.  It inserts the user, reads the slugs taken,   *)
(* and inserts the organization with the first that is free, its owner, its  *)
(* workspace and the session.  A second insertion of the same address waits  *)
(* for the first transaction.                                                *)
\* What uniqueSlug makes of a name and a suffix; the first suffix is none.
Slug(o) == IF o.suffix = 1 THEN o.name ELSE Append(o.name, o.suffix)
TakenSlugs == {Slug(o) : o \in organizations}

\* Mutation of FreeSuffix: one more than there are.
FreeSuffixAfter(name, taken) == Cardinality(taken) + 2
FreeSuffix(name, taken) ==
    Min({n \in 1..(Cardinality(taken) + 1) : Slug([name |-> name, suffix |-> n]) \notin taken})
Candidate(name) == [name |-> name, suffix |-> FreeSuffix(name, TakenSlugs)]

RegisterBegin(r, u, name) ==
    /\ request[r].pc = "idle"
    /\ users[u].status = "none" /\ Cardinality(organizations) < MaxOrganizations
    /\ \A q \in Request : ~(request[q].pc = "registering" /\ request[q].user = u)
    /\ Becomes(r, [Idle EXCEPT !.pc = "registering", !.user = u, !.founds = Candidate(name)])
    /\ UNCHANGED <<users, sessions, organizations, now, ended, slipped>>

(* startSession                                                              *)
Started(u, password) == [user |-> u, expiresAt |-> now + TTL, lastSeenAt |-> now, password |-> password]

RegisterCommit(r, t) ==
    LET u == request[r].user IN
    /\ request[r].pc = "registering"
    /\ Slug(request[r].founds) \notin TakenSlugs
    /\ users' = [users EXCEPT ![u].status = "active"]
    /\ organizations' = organizations \union {request[r].founds}
    /\ sessions' = [sessions EXCEPT ![t] = Started(u, 0)]
    /\ Becomes(r, Idle)
    /\ UNCHANGED <<now, ended, slipped>>

(* The slug was taken since it was read: the whole of it is rolled back.     *)
SlugTaken(r) ==
    /\ request[r].pc \in {"registering", "founding"}
    /\ Slug(request[r].founds) \in TakenSlugs
    /\ Becomes(r, Idle)
    /\ UNCHANGED <<users, sessions, organizations, now, ended, slipped>>

(* OrgsService.create for somebody signed in                                 *)
FoundBegin(r, name) ==
    /\ request[r].pc = "admitted" /\ Cardinality(organizations) < MaxOrganizations
    /\ Becomes(r, [Idle EXCEPT !.pc = "founding", !.founds = Candidate(name)])
    /\ UNCHANGED <<users, sessions, organizations, now, ended, slipped>>

FoundCommit(r) ==
    /\ request[r].pc = "founding"
    /\ Slug(request[r].founds) \notin TakenSlugs
    /\ organizations' = organizations \union {request[r].founds}
    /\ Becomes(r, Idle)
    /\ UNCHANGED <<users, sessions, now, ended, slipped>>

-----------------------------------------------------------------------------
(* login: the row is read, its hash verified, its status looked at.          *)
LoginRead(r, u) ==
    /\ request[r].pc = "idle"
    /\ users[u].status = "active"
    /\ Becomes(r, [Idle EXCEPT !.pc = "verified", !.user = u, !.password = users[u].password])
    /\ UNCHANGED <<users, sessions, organizations, now, ended, slipped>>

LoginStart(r, t) ==
    /\ request[r].pc = "verified"
    /\ sessions' = [sessions EXCEPT ![t] = Started(request[r].user, request[r].password)]
    /\ slipped' = IF request[r].overtaken THEN slipped \union {t} ELSE slipped
    /\ Becomes(r, Idle)
    /\ UNCHANGED <<users, organizations, now, ended>>

(* authenticate, as SessionGuard calls it                                    *)
Live(row) == row.user # NoUser /\ row.expiresAt > now

Authenticate(r, t) ==
    LET row == sessions[t] IN
    /\ request[r].pc = "idle"
    /\ Live(row) /\ users[row.user].status = "active"
    /\ Becomes(r, [Idle EXCEPT !.pc = IF now - row.lastSeenAt < SeenInterval THEN "admitted" ELSE "seen",
                               !.user = row.user, !.token = t])
    /\ UNCHANGED <<users, sessions, organizations, now, ended, slipped>>

(* touch: an update by id, of no row when the session has ended meanwhile    *)
Touched(row, u) == IF row.user = NoUser THEN row ELSE [row EXCEPT !.lastSeenAt = now]

Touch(r) ==
    LET t == request[r].token IN
    /\ request[r].pc = "seen"
    /\ sessions' = [sessions EXCEPT ![t] = Touched(@, request[r].user)]
    /\ Becomes(r, [request[r] EXCEPT !.pc = "admitted"])
    /\ UNCHANGED <<users, organizations, now, ended, slipped>>

(* A request that does something else with its session, or only that.        *)
Handled(r) ==
    /\ request[r].pc = "admitted"
    /\ Becomes(r, Idle)
    /\ UNCHANGED <<users, sessions, organizations, now, ended, slipped>>

-----------------------------------------------------------------------------
(* changePassword: the row is read and verified, the new one hashed, and one *)
(* transaction writes it and deletes every other session of the user.        *)
ChangeRead(r) ==
    /\ request[r].pc = "admitted"
    /\ Becomes(r, [request[r] EXCEPT !.pc = "hashing"])
    /\ UNCHANGED <<users, sessions, organizations, now, ended, slipped>>

\* Mutation of Revoked: those that are still good are kept.
RevokedExpired(u, t) == {s \in Token \ {t} : sessions[s].user = u /\ ~Live(sessions[s])}
Revoked(u, t) == {s \in Token \ {t} : sessions[s].user = u}

Deleted(gone) == [t \in Token |-> IF t \in gone THEN NoSession ELSE sessions[t]]

ChangeCommit(r) ==
    LET u == request[r].user
        t == request[r].token
        gone == Revoked(u, t)
        next == users[u].password + 1
    IN
    /\ request[r].pc = "hashing" /\ users[u].password < MaxPassword
    /\ users' = [users EXCEPT ![u].password = next]
    /\ sessions' = IF HasRow(t) THEN [Deleted(gone) EXCEPT ![t].password = next] ELSE Deleted(gone)
    /\ ended' = ended \union gone
    /\ slipped' = slipped \ (gone \union {t})
    /\ request' = [Overtaking(u) EXCEPT ![r] = Idle]
    /\ UNCHANGED <<organizations, now>>

(* logout                                                                    *)
LogoutBegin(r, t) ==
    /\ request[r].pc = "idle" /\ HasRow(t)
    /\ Becomes(r, [Idle EXCEPT !.pc = "leaving", !.token = t])
    /\ UNCHANGED <<users, sessions, organizations, now, ended, slipped>>

Logout(r) ==
    LET t == request[r].token IN
    /\ request[r].pc = "leaving"
    /\ sessions' = Deleted({t}) /\ ended' = ended \union {t}
    /\ Becomes(r, Idle)
    /\ UNCHANGED <<users, organizations, now, slipped>>

(* purgeExpiredSessions                                                      *)
\* Mutation of Purgeable: one that is about to expire goes too.
PurgeableNow(row) == row.user # NoUser /\ row.expiresAt <= now + 1
Purgeable(row) == row.user # NoUser /\ row.expiresAt < now

Purge ==
    LET gone == {t \in Token : Purgeable(sessions[t])} IN
    /\ gone # {}
    /\ sessions' = Deleted(gone) /\ ended' = ended \union gone
    /\ UNCHANGED <<users, organizations, request, now, slipped>>

-----------------------------------------------------------------------------
(* An operator disables an account or enables it again.                      *)
SetStatus(u, status) ==
    /\ users[u].status \notin {"none", status}
    /\ users' = [users EXCEPT ![u].status = status]
    /\ request' = Overtaking(u)
    /\ UNCHANGED <<sessions, organizations, now, ended, slipped>>

Tick ==
    /\ now < MaxTime /\ now' = now + 1
    /\ UNCHANGED <<users, sessions, organizations, request, ended, slipped>>

(* A process dies and forgets what it had read.                              *)
Dies(r) ==
    /\ request[r].pc # "idle"
    /\ Becomes(r, Idle)
    /\ UNCHANGED <<users, sessions, organizations, now, ended, slipped>>

Next ==
    \/ \E r \in Request, u \in User, name \in Name : RegisterBegin(r, u, name)
    \/ \E r \in Request, name \in Name : FoundBegin(r, name)
    \/ \E r \in Request, u \in User : LoginRead(r, u)
    \/ \E r \in Request, t \in Fresh : RegisterCommit(r, t) \/ LoginStart(r, t)
    \/ \E r \in Request, t \in Token : Authenticate(r, t) \/ LogoutBegin(r, t)
    \/ \E r \in Request : SlugTaken(r) \/ FoundCommit(r) \/ Touch(r) \/ Handled(r) \/ ChangeRead(r)
                          \/ ChangeCommit(r) \/ Logout(r) \/ Dies(r)
    \/ \E u \in User, s \in {"active", "disabled"} : SetStatus(u, s)
    \/ Purge \/ Tick

Spec == Init /\ [][Next]_vars

-----------------------------------------------------------------------------
(* A session that has ended, by logout, revocation or purge, stays ended: no *)
(* request that had read it before brings it back.  After a change of the    *)
(* password, one that still authenticates is the one it was changed from or  *)
(* was begun with the new password; only a login that had verified the old   *)
(* one and was overtaken may start another.                                  *)
SessionsVerified ==
    \A t \in Token : HasRow(t) =>
        /\ t \notin ended
        /\ sessions[t].password = users[sessions[t].user].password \/ t \in slipped

(* A session ends for a cause: it has expired, it is logged out, or another  *)
(* session of the same user changes the password in that step.               *)
EndsForCause ==
    [][\A t \in Token : HasRow(t) /\ ~HasRow(t)' =>
         \/ ~Live(sessions[t])
         \/ \E r \in Request : /\ request[r].pc = "leaving" /\ request[r].token = t
                               /\ request'[r].pc = "idle"
         \/ \E r \in Request : /\ request[r].pc = "hashing" /\ request[r].token # t
                               /\ request[r].user = sessions[t].user
                               /\ users'[request[r].user] # users[request[r].user]]_vars

(* The slug of an organization is nobody else's, and the first that was free  *)
(* of those its name may have, although it was found before: each one before  *)
(* it is taken, by an organization of the same name or by one whose name ends *)
(* in that number.  A request that was overtaken takes all of it back.        *)
Preceded(o) == \A n \in 1..(o.suffix - 1) : Slug([o EXCEPT !.suffix = n]) \in TakenSlugs

SlugsInOrder ==
    /\ \A o, p \in organizations : Slug(o) = Slug(p) => o = p
    /\ \A o \in organizations : Preceded(o)
=============================================================================
