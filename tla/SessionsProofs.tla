---------------------------- MODULE SessionsProofs ----------------------------
(* Theorems about Sessions, for any users, tokens and requests and any        *)
(* lifetime of a session.                                                     *)
EXTENDS Sessions, TLAPS, FiniteSetTheorems, WellFoundedInduction

-----------------------------------------------------------------------------
(* What a request has read, against what is in the tables now.  A session it *)
(* has authenticated is still that user's or has ended; a password a login   *)
(* verified is still the one, or the account has changed since; an account   *)
(* being registered is not there yet; and before the slug it found free all  *)
(* are taken.                                                                *)
HolderKnows(r) ==
    request[r].pc \in {"seen", "admitted", "hashing"} =>
        /\ request[r].token \in Token /\ request[r].user \in User
        /\ users[request[r].user].status # "none"
        /\ IF HasRow(request[r].token) THEN sessions[request[r].token].user = request[r].user
           ELSE request[r].token \in ended

LeaverKnows(r) == request[r].pc = "leaving" => request[r].token \in Token

LoginKnows(r) ==
    request[r].pc = "verified" =>
        /\ request[r].user \in User /\ users[request[r].user].status # "none"
        /\ request[r].password = users[request[r].user].password \/ request[r].overtaken

NewcomerKnows(r) ==
    request[r].pc = "registering" =>
        /\ request[r].user \in User /\ users[request[r].user].status = "none"
        /\ \A q \in Request \ {r} :
              request[q].pc = "registering" => request[q].user # request[r].user

RequestInv == \A r \in Request : HolderKnows(r) /\ LeaverKnows(r) /\ LoginKnows(r) /\ NewcomerKnows(r)
SlugInv ==
    /\ IsFiniteSet(TakenSlugs) /\ SlugsInOrder
    /\ \A r \in Request : request[r].pc \in {"registering", "founding"} => Preceded(request[r].founds)
AccountInv == \A u \in User : users[u].status = "none" => users[u].password = 0

IInv == TypeOK /\ SessionsVerified /\ RequestInv /\ AccountInv /\ SlugInv

-----------------------------------------------------------------------------
LEMMA Zero == 0 \in Password /\ 0 \in Time
  BY SessionsAssumption DEF Password, Time

LEMMA IdleType == Idle \in Local /\ NoOrganization \in Organization
  BY Zero DEF Idle, Local, NoOrganization, Organization

LEMMA NoSessionType == NoSession \in SessionRow
  BY Zero DEF NoSession, SessionRow

LEMMA InvInit == Init => IInv
<1> SUFFICES ASSUME Init PROVE IInv
  OBVIOUS
<1>1. TypeOK
  BY Zero, IdleType, NoSessionType, SessionsAssumption DEF Init, TypeOK, UserRow
<1>2. SessionsVerified
  BY DEF Init, SessionsVerified, HasRow, NoSession
<1>3. \A r \in Request : request[r].pc = "idle"
  BY DEF Init, Idle
<1>4. RequestInv
  BY <1>3 DEF RequestInv, HolderKnows, LeaverKnows, LoginKnows, NewcomerKnows
<1>5. AccountInv
  BY DEF Init, AccountInv
<1>6. SlugInv
  <2>1. organizations = {}
    BY DEF Init
  <2> QED
    BY <1>3, <2>1, FS_EmptySet DEF SlugInv, SlugsInOrder, TakenSlugs
<1> QED
  BY <1>1, <1>2, <1>4, <1>5, <1>6 DEF IInv

(* A request that moves on, and changes no table, keeps everything when what *)
(* it knows now is true; the others know what they knew.                     *)
Known(l) ==
    /\ l.pc \in {"seen", "admitted", "hashing"} =>
          /\ l.token \in Token /\ l.user \in User /\ users[l.user].status # "none"
          /\ IF HasRow(l.token) THEN sessions[l.token].user = l.user ELSE l.token \in ended
    /\ l.pc = "leaving" => l.token \in Token
    /\ l.pc = "verified" =>
          /\ l.user \in User /\ users[l.user].status # "none"
          /\ l.password = users[l.user].password \/ l.overtaken

LEMMA BecomesInv ==
  ASSUME IInv, NEW r \in Request, NEW l \in Local, Becomes(r, l), Known(l),
         UNCHANGED <<users, sessions, organizations, now, ended, slipped>>,
         l.pc = "registering" => /\ l.user \in User /\ users[l.user].status = "none"
                                 /\ \A q \in Request : ~(request[q].pc = "registering" /\ request[q].user = l.user),
         l.pc \in {"registering", "founding"} => Preceded(l.founds)
  PROVE  IInv'
<1>1. request \in [Request -> Local]
  BY DEF IInv, TypeOK
<1>2. request'[r] = l /\ \A q \in Request \ {r} : request'[q] = request[q]
  BY <1>1 DEF Becomes
<1>3. TypeOK'
  BY <1>1 DEF IInv, TypeOK, Becomes
<1>4. SessionsVerified' /\ AccountInv'
  BY DEF IInv, SessionsVerified, AccountInv, HasRow
<1>5. ASSUME NEW q \in Request
      PROVE  HolderKnows(q)' /\ LeaverKnows(q)' /\ LoginKnows(q)' /\ NewcomerKnows(q)'
  <2>1. HolderKnows(q) /\ LeaverKnows(q) /\ LoginKnows(q) /\ NewcomerKnows(q)
    BY DEF IInv, RequestInv
  <2>2. HolderKnows(q)'
    BY <1>2, <2>1 DEF HolderKnows, Known, HasRow
  <2>3. LeaverKnows(q)'
    BY <1>2, <2>1 DEF LeaverKnows, Known
  <2>4. LoginKnows(q)'
    BY <1>2, <2>1 DEF LoginKnows, Known
  <2>5. NewcomerKnows(q)'
    BY <1>2, <2>1 DEF NewcomerKnows
  <2> QED
    BY <2>2, <2>3, <2>4, <2>5
<1>6. SlugInv'
  BY <1>2 DEF IInv, SlugInv, SlugsInOrder, Preceded, TakenSlugs
<1> QED
  BY <1>3, <1>4, <1>5, <1>6 DEF IInv, RequestInv

LEMMA EndsInv ==
  ASSUME IInv, NEW r \in Request, Becomes(r, Idle),
         UNCHANGED <<users, sessions, organizations, now, ended, slipped>>
  PROVE  IInv'
<1>1. Idle.pc = "idle"
  BY DEF Idle
<1> HIDE DEF Idle
<1>2. Known(Idle)
  BY <1>1 DEF Known
<1> QED
  BY <1>1, <1>2, IdleType, BecomesInv

(* No two suffixes of one name make the same slug.                           *)
LEMMA SlugsDiffer ==
  ASSUME NEW name \in Seq(Nat), NEW m \in Nat, NEW n \in Nat,
         Slug([name |-> name, suffix |-> m]) = Slug([name |-> name, suffix |-> n])
  PROVE  m = n
<1>1. \A k \in Nat : Slug([name |-> name, suffix |-> k]) = IF k = 1 THEN name ELSE Append(name, k)
  BY DEF Slug
<1>2. \A k \in Nat : Append(name, k) # name /\ Append(name, k)[Len(name) + 1] = k
  OBVIOUS
<1>3. CASE m = 1 \/ n = 1
  BY <1>1, <1>2, <1>3
<1>4. CASE m # 1 /\ n # 1
  BY <1>1, <1>2, <1>4
<1> QED
  BY <1>3, <1>4

(* Of some subsets of a finite set, one has none of the others in it.        *)
LEMMA LeastSubset ==
  ASSUME NEW S, IsFiniteSet(S), NEW B, B \subseteq SUBSET S, B # {}
  PROVE  \E T \in B : \A U \in B : U \subseteq T => U = T
<1>1. IsWellFoundedOn(StrictSubsetOrdering(S), SUBSET S)
  BY FS_StrictSubsetOrderingWellFounded, FS_FiniteSubsetsOfFinite
<1>2. PICK T \in B : \A U \in B : <<U, T>> \notin StrictSubsetOrdering(S)
  BY <1>1, WFMin
<1> QED
  BY <1>2 DEF StrictSubsetOrdering

(* A set of numbers with one in it has a smallest.                           *)
LEMMA MinIsSmallest ==
  ASSUME NEW N \in Nat, NEW S \in SUBSET (1..N), S # {}
  PROVE  Min(S) \in S /\ \A n \in S : Min(S) <= n
<1> DEFINE B == {1..x : x \in S}
           I == 1..N
<1>1. PICK U \in B : \A V \in B : V \subseteq U => V = U
  <2>1. \A x \in S : 1..x \subseteq I
    OBVIOUS
  <2>2. B \subseteq SUBSET I
    BY <2>1
  <2>3. B # {}
    BY S # {}
  <2>4. IsFiniteSet(I)
    BY FS_Interval
  <2> HIDE DEF B, I
  <2> QED
    BY <2>2, <2>3, <2>4, LeastSubset
<1>2. PICK x \in S : U = 1..x
  OBVIOUS
<1>3. \A y \in S : x <= y
  <2> SUFFICES ASSUME NEW y \in S, y < x PROVE FALSE
    OBVIOUS
  <2>1. 1..y \subseteq 1..x /\ x \in 1..x /\ x \notin 1..y
    OBVIOUS
  <2>2. 1..y \in B
    OBVIOUS
  <2> QED
    BY <1>1, <1>2, <2>1, <2>2
<1> QED
  BY <1>3 DEF Min

(* Of one suffix more than there are slugs, one is free; and all before the  *)
(* first that is are taken.                                                  *)
LEMMA FreeSuffixIsFirst ==
  ASSUME NEW name \in Seq(Nat), NEW taken, IsFiniteSet(taken)
  PROVE  /\ FreeSuffix(name, taken) \in Nat
         /\ \A n \in 1..(FreeSuffix(name, taken) - 1) : Slug([name |-> name, suffix |-> n]) \in taken
<1> DEFINE N == Cardinality(taken) + 1
           I == 1..N
           free == {n \in 1..N : Slug([name |-> name, suffix |-> n]) \notin taken}
<1>1. N \in Nat /\ N >= 1 /\ N > Cardinality(taken)
  BY FS_CardinalityType
<1>6. IsFiniteSet(I) /\ Cardinality(I) = N
  <2> HIDE DEF N
  <2> QED
    BY <1>1, FS_Interval
<1>2. free # {}
  <2> SUFFICES ASSUME \A n \in 1..N : Slug([name |-> name, suffix |-> n]) \in taken PROVE FALSE
    OBVIOUS
  <2> DEFINE f == [n \in 1..N |-> Slug([name |-> name, suffix |-> n])]
  <2>1. f \in [I -> taken]
    OBVIOUS
  <2>2. \E x, y \in I : x # y /\ f[x] = f[y]
    <3>1. Cardinality(taken) < Cardinality(I)
      BY <1>1, <1>6
    <3> HIDE DEF f, I, N
    <3> QED
      BY <1>6, <2>1, <3>1, FS_PigeonHole
  <2>3. PICK x \in 1..N, y \in 1..N : x # y /\ f[x] = f[y]
    BY <2>2
  <2>4. x \in Nat /\ y \in Nat /\ Slug([name |-> name, suffix |-> x]) = Slug([name |-> name, suffix |-> y])
    BY <1>1, <2>3
  <2> QED
    BY <2>3, <2>4, SlugsDiffer
<1>3. free \in SUBSET (1..N)
  OBVIOUS
<1> HIDE DEF N
<1>4. Min(free) \in free /\ \A n \in free : Min(free) <= n
  <2> HIDE DEF free
  <2> QED
    BY <1>1, <1>2, <1>3, MinIsSmallest
<1>5. FreeSuffix(name, taken) = Min(free)
  BY DEF FreeSuffix, N
<1> DEFINE k == FreeSuffix(name, taken)
<1>7. k \in 1..N /\ \A n \in free : k <= n
  BY <1>4, <1>5
<1>8. \A n \in 1..(k - 1) : n \in 1..N /\ ~(k <= n)
  BY <1>1, <1>7
<1> HIDE DEF k
<1> QED
  BY <1>1, <1>7, <1>8 DEF k

LEMMA CandidatePreceded ==
  ASSUME IInv, NEW name \in Name
  PROVE  Candidate(name) \in Organization /\ Preceded(Candidate(name))
<1> DEFINE k == FreeSuffix(name, TakenSlugs)
<1>1. IsFiniteSet(TakenSlugs) /\ name \in Seq(Nat)
  BY NameAssumption DEF IInv, SlugInv
<1>2. k \in Nat /\ \A n \in 1..(k - 1) : Slug([name |-> name, suffix |-> n]) \in TakenSlugs
  BY <1>1, FreeSuffixIsFirst
<1>3. Candidate(name) = [name |-> name, suffix |-> k]
  BY DEF Candidate
<1> HIDE DEF k
<1>4. \A n : [Candidate(name) EXCEPT !.suffix = n] = [name |-> name, suffix |-> n]
  BY <1>3
<1> QED
  BY <1>1, <1>2, <1>3, <1>4 DEF Organization, Preceded

-----------------------------------------------------------------------------
(* The steps of a request that change no table.                              *)
LEMMA RegisterBeginInv ==
  ASSUME IInv, NEW r \in Request, NEW u \in User, NEW name \in Name, RegisterBegin(r, u, name) PROVE IInv'
<1> DEFINE l == [Idle EXCEPT !.pc = "registering", !.user = u, !.founds = Candidate(name)]
<1>1. l \in Local /\ l.pc = "registering" /\ l.user = u /\ l.founds = Candidate(name)
  BY IdleType, CandidatePreceded DEF Local, Idle
<1>2. /\ Becomes(r, l) /\ UNCHANGED <<users, sessions, organizations, now, ended, slipped>>
      /\ users[u].status = "none"
      /\ \A q \in Request : ~(request[q].pc = "registering" /\ request[q].user = u)
  BY DEF RegisterBegin
<1> HIDE DEF l
<1>3. Known(l)
  BY <1>1 DEF Known
<1> QED
  BY <1>1, <1>2, <1>3, CandidatePreceded, BecomesInv

LEMMA FoundBeginInv ==
  ASSUME IInv, NEW r \in Request, NEW name \in Name, FoundBegin(r, name) PROVE IInv'
<1> DEFINE l == [Idle EXCEPT !.pc = "founding", !.founds = Candidate(name)]
<1>1. l \in Local /\ l.pc = "founding" /\ l.founds = Candidate(name)
  BY IdleType, CandidatePreceded DEF Local, Idle
<1>2. Becomes(r, l) /\ UNCHANGED <<users, sessions, organizations, now, ended, slipped>>
  BY DEF FoundBegin
<1> HIDE DEF l
<1>3. Known(l)
  BY <1>1 DEF Known
<1> QED
  BY <1>1, <1>2, <1>3, CandidatePreceded, BecomesInv

LEMMA LoginReadInv == ASSUME IInv, NEW r \in Request, NEW u \in User, LoginRead(r, u) PROVE IInv'
<1> DEFINE l == [Idle EXCEPT !.pc = "verified", !.user = u, !.password = users[u].password]
<1>1. l \in Local /\ l.pc = "verified" /\ l.user = u /\ l.password = users[u].password
      /\ users[u].status # "none"
  BY IdleType DEF Local, Idle, IInv, TypeOK, UserRow, LoginRead
<1>2. Becomes(r, l) /\ UNCHANGED <<users, sessions, organizations, now, ended, slipped>>
  BY DEF LoginRead
<1> HIDE DEF l
<1>3. Known(l)
  BY <1>1 DEF Known
<1> QED
  BY <1>1, <1>2, <1>3, BecomesInv

LEMMA AuthenticateInv == ASSUME IInv, NEW r \in Request, NEW t \in Token, Authenticate(r, t) PROVE IInv'
<1> DEFINE pc == IF now - sessions[t].lastSeenAt < SeenInterval THEN "admitted" ELSE "seen"
           l == [Idle EXCEPT !.pc = pc, !.user = sessions[t].user, !.token = t]
<1>1. pc \in {"seen", "admitted"}
  OBVIOUS
<1>2. HasRow(t) /\ sessions[t].user \in User /\ users[sessions[t].user].status # "none"
  BY DEF Authenticate, Live, HasRow, IInv, TypeOK, SessionRow
<1>3. Becomes(r, l) /\ UNCHANGED <<users, sessions, organizations, now, ended, slipped>>
  BY DEF Authenticate
<1> HIDE DEF pc
<1>4. l \in Local /\ l.pc = pc /\ l.user = sessions[t].user /\ l.token = t
  BY <1>1, <1>2, IdleType DEF Local, Idle
<1> HIDE DEF l
<1>5. Known(l)
  BY <1>1, <1>2, <1>4 DEF Known
<1> QED
  BY <1>1, <1>3, <1>4, <1>5, BecomesInv

LEMMA ChangeReadInv == ASSUME IInv, NEW r \in Request, ChangeRead(r) PROVE IInv'
<1> DEFINE l == [request[r] EXCEPT !.pc = "hashing"]
<1>1. request[r] \in Local /\ request[r].pc = "admitted" /\ HolderKnows(r)
  BY DEF IInv, TypeOK, RequestInv, ChangeRead
<1>2. l \in Local /\ l.pc = "hashing" /\ l.user = request[r].user /\ l.token = request[r].token
  BY <1>1 DEF Local
<1>3. Becomes(r, l) /\ UNCHANGED <<users, sessions, organizations, now, ended, slipped>>
  BY DEF ChangeRead
<1> HIDE DEF l
<1>4. Known(l)
  BY <1>1, <1>2 DEF Known, HolderKnows
<1> QED
  BY <1>2, <1>3, <1>4, BecomesInv

LEMMA LogoutBeginInv == ASSUME IInv, NEW r \in Request, NEW t \in Token, LogoutBegin(r, t) PROVE IInv'
<1> DEFINE l == [Idle EXCEPT !.pc = "leaving", !.token = t]
<1>1. l \in Local /\ l.pc = "leaving" /\ l.token = t
  BY IdleType DEF Local, Idle
<1>2. Becomes(r, l) /\ UNCHANGED <<users, sessions, organizations, now, ended, slipped>>
  BY DEF LogoutBegin
<1> HIDE DEF l
<1>3. Known(l)
  BY <1>1 DEF Known
<1> QED
  BY <1>1, <1>2, <1>3, BecomesInv

-----------------------------------------------------------------------------
(* The steps that change a table.                                            *)
(* Requests that have ended know nothing and claim no slug.                  *)
LEMMA SlugsKept ==
  ASSUME SlugInv, UNCHANGED organizations,
         \A q \in Request : \/ request'[q].pc = "idle"
                            \/ request'[q].pc = request[q].pc /\ request'[q].founds = request[q].founds
  PROVE  SlugInv'
BY DEF SlugInv, SlugsInOrder, Preceded, TakenSlugs

(* One more organization leaves all taken that was taken.                    *)
LEMMA SlugsGrow ==
  ASSUME IInv, NEW r \in Request, request[r].pc \in {"registering", "founding"},
         Slug(request[r].founds) \notin TakenSlugs,
         organizations' = organizations \union {request[r].founds},
         request' = [request EXCEPT ![r] = Idle]
  PROVE  SlugInv'
<1> DEFINE o == request[r].founds
           Comes(q) == request'[q].pc \in {"registering", "founding"}
<1>1. Preceded(o) /\ SlugInv
  BY DEF IInv, SlugInv
<1>2. TakenSlugs' = TakenSlugs \union {Slug(o)} /\ IsFiniteSet(TakenSlugs')
  <2>1. TakenSlugs' = TakenSlugs \union {Slug(o)}
    BY DEF TakenSlugs
  <2> QED
    BY <1>1, <2>1, FS_AddElement DEF SlugInv
<1>3. \A p : Preceded(p) => \A n \in 1..(p.suffix - 1) : Slug([p EXCEPT !.suffix = n]) \in TakenSlugs'
  BY <1>2 DEF Preceded
<1>4. \A p \in organizations : Slug(p) # Slug(o)
  BY DEF TakenSlugs
<1>5. SlugsInOrder'
  <2>1. \A p \in organizations' : Preceded(p)
    BY <1>1 DEF SlugInv, SlugsInOrder
  <2>2. \A p \in organizations' : \A n \in 1..(p.suffix - 1) : Slug([p EXCEPT !.suffix = n]) \in TakenSlugs'
    BY <1>3, <2>1
  <2>3. \A p, q \in organizations' : Slug(p) = Slug(q) => p = q
    BY <1>1, <1>4 DEF SlugInv, SlugsInOrder
  <2> QED
    BY <2>2, <2>3 DEF SlugsInOrder, Preceded
<1>6. Idle.pc = "idle" /\ request \in [Request -> Local]
  BY DEF Idle, IInv, TypeOK
<1> HIDE DEF Idle
<1>7. \A q \in Request : Comes(q) => request'[q] = request[q]
  BY <1>6
<1>8. ASSUME NEW q \in Request, Comes(q)
      PROVE  \A n \in 1..(request'[q].founds.suffix - 1) : Slug([request'[q].founds EXCEPT !.suffix = n]) \in TakenSlugs'
  <2>1. request'[q] = request[q] /\ Preceded(request[q].founds)
    BY <1>1, <1>7, <1>8 DEF SlugInv
  <2> QED
    BY <1>3, <2>1
<1> QED
  BY <1>2, <1>5, <1>8 DEF SlugInv, Preceded

(* A session that starts has a token nobody has had.                         *)
LEMMA StartInv ==
  ASSUME IInv, NEW r \in Request, NEW t \in Fresh, NEW u \in User, NEW password \in Password,
         sessions' = [sessions EXCEPT ![t] = Started(u, password)],
         users' \in [User -> UserRow],
         \A v \in User : users'[v].password = users[v].password,
         \A v \in User \ {u} : users'[v].status = users[v].status,
         users'[u].status # "none",
         \A q \in Request \ {r} : ~(request[q].pc = "registering" /\ request[q].user = u),
         slipped \subseteq slipped', slipped' \subseteq Token,
         password = users[u].password \/ t \in slipped',
         SlugInv', organizations' \subseteq Organization,
         request' = [request EXCEPT ![r] = Idle], now' = now, ended' = ended
  PROVE  IInv'
<1>1. /\ users \in [User -> UserRow] /\ sessions \in [Token -> SessionRow] /\ now \in 0..MaxTime
      /\ request \in [Request -> Local] /\ ended \subseteq Token /\ NoUser \notin User
      /\ t \in Token /\ t \notin ended /\ ~HasRow(t)
  BY SessionsAssumption DEF IInv, TypeOK, Fresh
<1> DEFINE row == Started(u, password)
<1>2. row \in SessionRow /\ row.user = u /\ row.password = password
  BY <1>1, SessionsAssumption DEF Started, SessionRow, Time
<1>3. sessions' = [sessions EXCEPT ![t] = row]
  OBVIOUS
<1> HIDE DEF row
<1>4. sessions'[t] = row /\ \A o \in Token \ {t} : sessions'[o] = sessions[o]
  BY <1>1, <1>3
<1>5. Idle.pc = "idle"
  BY DEF Idle
<1>6. request'[r].pc = "idle" /\ \A q \in Request \ {r} : request'[q] = request[q]
  BY <1>1, <1>5
<1>7. TypeOK'
  <2>1. sessions' \in [Token -> SessionRow]
    BY <1>1, <1>2, <1>3
  <2>2. request' \in [Request -> Local]
    BY <1>1, IdleType
  <2> QED
    BY <1>1, <2>1, <2>2 DEF TypeOK
<1>8. SessionsVerified'
  <2> SUFFICES ASSUME NEW o \in Token, HasRow(o)'
               PROVE  o \notin ended' /\ (sessions'[o].password = users'[sessions'[o].user].password \/ o \in slipped')
    BY DEF SessionsVerified
  <2>1. CASE o = t
    BY <1>1, <1>2, <1>4, <2>1
  <2>2. CASE o # t
    <3>1. HasRow(o) /\ sessions[o].user \in User
      BY <1>1, <1>4, <2>2 DEF HasRow, SessionRow
    <3> QED
      BY <1>4, <2>2, <3>1 DEF IInv, SessionsVerified
  <2> QED
    BY <2>1, <2>2
<1>9. ASSUME NEW q \in Request
      PROVE  HolderKnows(q)' /\ LeaverKnows(q)' /\ LoginKnows(q)' /\ NewcomerKnows(q)'
  <2>1. CASE q = r
    BY <1>6, <2>1 DEF HolderKnows, LeaverKnows, LoginKnows, NewcomerKnows
  <2>2. CASE q # r
    <3>0. HolderKnows(q) /\ LeaverKnows(q) /\ LoginKnows(q) /\ NewcomerKnows(q) /\ request'[q] = request[q]
      BY <1>6, <2>2 DEF IInv, RequestInv
    <3>1. HolderKnows(q)'
      BY <1>1, <1>4, <3>0 DEF HolderKnows, HasRow
    <3>2. LeaverKnows(q)'
      BY <3>0 DEF LeaverKnows
    <3>3. LoginKnows(q)'
      BY <3>0 DEF LoginKnows
    <3>4. NewcomerKnows(q)'
      BY <1>6, <2>2, <3>0 DEF NewcomerKnows
    <3> QED
      BY <3>1, <3>2, <3>3, <3>4
  <2> QED
    BY <2>1, <2>2
<1>10. AccountInv'
  BY DEF IInv, AccountInv
<1> QED
  BY <1>7, <1>8, <1>9, <1>10 DEF IInv, RequestInv

LEMMA RegisterCommitInv == ASSUME IInv, NEW r \in Request, NEW t \in Fresh, RegisterCommit(r, t) PROVE IInv'
<1> DEFINE u == request[r].user
<1>1. u \in User /\ users[u].status = "none" /\ users[u].password = 0
  BY DEF IInv, RequestInv, AccountInv, NewcomerKnows, RegisterCommit
<1>2. \A q \in Request \ {r} : ~(request[q].pc = "registering" /\ request[q].user = u)
  BY DEF IInv, RequestInv, NewcomerKnows, RegisterCommit
<1>3. /\ users' = [users EXCEPT ![u].status = "active"] /\ users \in [User -> UserRow]
      /\ slipped' = slipped /\ slipped \subseteq Token
  BY DEF RegisterCommit, IInv, TypeOK
<1>4. /\ users' \in [User -> UserRow] /\ \A v \in User : users'[v].password = users[v].password
      /\ users'[u].status # "none" /\ \A v \in User \ {u} : users'[v].status = users[v].status
  BY <1>1, <1>3 DEF UserRow
<1>5. request' = [request EXCEPT ![r] = Idle] /\ sessions' = [sessions EXCEPT ![t] = Started(u, 0)]
      /\ now' = now /\ ended' = ended
  BY DEF RegisterCommit, Becomes
<1>6. SlugInv'
  BY <1>5, SlugsGrow DEF RegisterCommit
<1>7. organizations' \subseteq Organization
  BY DEF RegisterCommit, IInv, TypeOK, Local
<1> HIDE DEF u
<1> QED
  BY <1>1, <1>2, <1>3, <1>4, <1>5, <1>6, <1>7, Zero, StartInv

LEMMA LoginStartInv == ASSUME IInv, NEW r \in Request, NEW t \in Fresh, LoginStart(r, t) PROVE IInv'
<1> DEFINE u == request[r].user
           password == request[r].password
<1>1. /\ request[r].pc = "verified" /\ request[r] \in Local /\ LoginKnows(r)
      /\ users \in [User -> UserRow] /\ request \in [Request -> Local] /\ slipped \subseteq Token /\ t \in Token
  BY DEF IInv, RequestInv, TypeOK, LoginStart, Fresh
<1>2. u \in User /\ password \in Password /\ (password = users[u].password \/ request[r].overtaken)
      /\ users[u].status # "none"
  BY <1>1 DEF LoginKnows, Local
<1>3. \A q \in Request \ {r} : ~(request[q].pc = "registering" /\ request[q].user = u)
  BY <1>2 DEF IInv, RequestInv, NewcomerKnows
<1>4. slipped \subseteq slipped' /\ slipped' \subseteq Token /\ (password = users[u].password \/ t \in slipped')
  BY <1>1, <1>2 DEF LoginStart
<1>5. /\ request' = [request EXCEPT ![r] = Idle] /\ sessions' = [sessions EXCEPT ![t] = Started(u, password)]
      /\ users' = users /\ now' = now /\ ended' = ended /\ organizations' = organizations
  BY DEF LoginStart, Becomes
<1>6. SlugInv'
  <2>1. Idle.pc = "idle"
    BY DEF Idle
  <2> HIDE DEF Idle
  <2> QED
    BY <1>1, <1>5, <2>1, SlugsKept DEF IInv
<1> HIDE DEF u, password
<1>7. organizations' \subseteq Organization
  BY <1>5 DEF IInv, TypeOK
<1> QED
  BY <1>1, <1>2, <1>3, <1>4, <1>5, <1>6, <1>7, StartInv

(* Sessions that go, for whatever reason, are not heard of again.            *)
LEMMA GoneInv ==
  ASSUME IInv, NEW gone \in SUBSET Token, sessions' = Deleted(gone), ended' = ended \union gone,
         UNCHANGED <<users, organizations, now, slipped>>,
         request' \in [Request -> Local],
         \A q \in Request : request'[q] = request[q] \/ request'[q].pc = "idle"
  PROVE  IInv'
<1>1. /\ users \in [User -> UserRow] /\ sessions \in [Token -> SessionRow] /\ now \in 0..MaxTime
      /\ ended \subseteq Token /\ slipped \subseteq Token /\ organizations \subseteq Organization
  BY DEF IInv, TypeOK
<1>2. \A t \in Token : sessions'[t] = IF t \in gone THEN NoSession ELSE sessions[t]
  BY DEF Deleted
<1>3. TypeOK'
  <2>1. sessions' \in [Token -> SessionRow]
    BY <1>1, NoSessionType DEF Deleted
  <2> QED
    BY <1>1, <2>1 DEF TypeOK
<1>4. \A t \in Token : HasRow(t)' <=> HasRow(t) /\ t \notin gone
  BY <1>2 DEF HasRow, NoSession
<1>5. SessionsVerified'
  BY <1>2, <1>4 DEF IInv, SessionsVerified
<1>6. ASSUME NEW q \in Request
      PROVE  HolderKnows(q)' /\ LeaverKnows(q)' /\ LoginKnows(q)' /\ NewcomerKnows(q)'
  <2>1. CASE request'[q].pc = "idle"
    BY <2>1 DEF HolderKnows, LeaverKnows, LoginKnows, NewcomerKnows
  <2>2. CASE request'[q] = request[q]
    <3>0. HolderKnows(q) /\ LeaverKnows(q) /\ LoginKnows(q) /\ NewcomerKnows(q)
      BY DEF IInv, RequestInv
    <3>1. HolderKnows(q)'
      BY <1>2, <1>4, <2>2, <3>0 DEF HolderKnows
    <3>2. LeaverKnows(q)' /\ LoginKnows(q)' /\ NewcomerKnows(q)'
      BY <2>2, <3>0 DEF LeaverKnows, LoginKnows, NewcomerKnows
    <3> QED
      BY <3>1, <3>2
  <2> QED
    BY <2>1, <2>2
<1>7. SlugInv' /\ AccountInv'
  BY SlugsKept DEF IInv, AccountInv
<1> QED
  BY <1>3, <1>5, <1>6, <1>7 DEF IInv, RequestInv

LEMMA LogoutInv == ASSUME IInv, NEW r \in Request, Logout(r) PROVE IInv'
<1>1. request[r].token \in Token
  BY DEF IInv, RequestInv, LeaverKnows, Logout
<1>2. Idle.pc = "idle" /\ request \in [Request -> Local] /\ request' = [request EXCEPT ![r] = Idle]
  BY DEF Idle, IInv, TypeOK, Logout, Becomes
<1> HIDE DEF Idle
<1>3. request' \in [Request -> Local] /\ \A q \in Request : request'[q] = request[q] \/ request'[q].pc = "idle"
  BY <1>2, IdleType
<1> QED
  BY <1>1, <1>3, GoneInv DEF Logout

LEMMA PurgeInv == ASSUME IInv, Purge PROVE IInv'
<1> DEFINE gone == {t \in Token : Purgeable(sessions[t])}
<1>1. gone \in SUBSET Token /\ sessions' = Deleted(gone) /\ ended' = ended \union gone
  BY DEF Purge
<1>2. request' = request /\ request \in [Request -> Local] /\ UNCHANGED <<users, organizations, now, slipped>>
  BY DEF Purge, IInv, TypeOK
<1> HIDE DEF gone
<1> QED
  BY <1>1, <1>2, GoneInv

(* An update by id never brings a row back.                                  *)
LEMMA TouchInv == ASSUME IInv, NEW r \in Request, Touch(r) PROVE IInv'
<1> DEFINE t == request[r].token
           l == [request[r] EXCEPT !.pc = "admitted"]
<1>1. /\ users \in [User -> UserRow] /\ sessions \in [Token -> SessionRow] /\ now \in 0..MaxTime
      /\ request \in [Request -> Local] /\ request[r] \in Local /\ now \in Time
  BY SessionsAssumption DEF IInv, TypeOK, Time
<1>2. t \in Token /\ HolderKnows(r) /\ request[r].pc = "seen"
  BY DEF IInv, RequestInv, HolderKnows, Touch
<1>3. l \in Local /\ l.pc = "admitted" /\ l.user = request[r].user /\ l.token = t /\ l.founds = request[r].founds
  BY <1>1 DEF Local
<1>4. request' = [request EXCEPT ![r] = l] /\ UNCHANGED <<users, organizations, now, ended, slipped>>
  BY DEF Touch, Becomes
<1>5. /\ sessions' \in [Token -> SessionRow]
      /\ \A o \in Token : sessions'[o].user = sessions[o].user /\ sessions'[o].password = sessions[o].password
  <2>1. sessions' = [sessions EXCEPT ![t] = Touched(sessions[t], request[r].user)]
    BY DEF Touch
  <2>2. CASE sessions[t].user = NoUser
    BY <1>1, <1>2, <2>1, <2>2 DEF Touched
  <2>3. CASE sessions[t].user # NoUser
    <3> DEFINE row == [sessions[t] EXCEPT !.lastSeenAt = now]
    <3>1. row \in SessionRow /\ row.user = sessions[t].user /\ row.password = sessions[t].password
      BY <1>1, <1>2 DEF SessionRow
    <3>2. sessions' = [sessions EXCEPT ![t] = row]
      BY <2>1, <2>3 DEF Touched
    <3> HIDE DEF row
    <3> QED
      BY <1>1, <1>2, <3>1, <3>2
  <2> QED
    BY <2>2, <2>3
<1> HIDE DEF l
<1>6. request'[r] = l /\ \A q \in Request \ {r} : request'[q] = request[q]
  BY <1>1, <1>4
<1>7. \A o \in Token : HasRow(o)' <=> HasRow(o)
  BY <1>5 DEF HasRow
<1>8. TypeOK'
  BY <1>1, <1>3, <1>4, <1>5 DEF IInv, TypeOK
<1>9. SessionsVerified'
  BY <1>4, <1>5, <1>7 DEF IInv, SessionsVerified
<1>10. ASSUME NEW q \in Request
       PROVE  HolderKnows(q)' /\ LeaverKnows(q)' /\ LoginKnows(q)' /\ NewcomerKnows(q)'
  <2>0. HolderKnows(q) /\ LeaverKnows(q) /\ LoginKnows(q) /\ NewcomerKnows(q)
    BY DEF IInv, RequestInv
  <2>1. CASE q = r
    <3>1. HolderKnows(q)'
      BY <1>2, <1>3, <1>4, <1>5, <1>6, <1>7, <2>1 DEF HolderKnows
    <3> QED
      BY <1>3, <1>6, <2>1, <3>1 DEF LeaverKnows, LoginKnows, NewcomerKnows
  <2>2. CASE q # r
    <3>1. HolderKnows(q)'
      BY <1>4, <1>5, <1>6, <1>7, <2>0, <2>2 DEF HolderKnows
    <3>2. LeaverKnows(q)' /\ LoginKnows(q)'
      BY <1>4, <1>6, <2>0, <2>2 DEF LeaverKnows, LoginKnows
    <3>3. NewcomerKnows(q)'
      BY <1>3, <1>4, <1>6, <2>0, <2>2 DEF NewcomerKnows
    <3> QED
      BY <3>1, <3>2, <3>3
  <2> QED
    BY <2>1, <2>2
<1>11. SlugInv'
  <2>1. \A q \in Request : request'[q].pc \in {"registering", "founding"} =>
            request'[q].pc = request[q].pc /\ request'[q].founds = request[q].founds
    BY <1>3, <1>6
  <2> QED
    BY <1>4, <2>1 DEF IInv, SlugInv, SlugsInOrder, Preceded, TakenSlugs
<1>12. AccountInv'
  BY <1>4 DEF IInv, AccountInv
<1> QED
  BY <1>8, <1>9, <1>10, <1>11, <1>12 DEF IInv, RequestInv

LEMMA FoundCommitInv == ASSUME IInv, NEW r \in Request, FoundCommit(r) PROVE IInv'
<1>1. /\ request' = [request EXCEPT ![r] = Idle] /\ request \in [Request -> Local]
      /\ UNCHANGED <<users, sessions, now, ended, slipped>>
  BY DEF FoundCommit, Becomes, IInv, TypeOK
<1>2. SlugInv'
  BY <1>1, SlugsGrow DEF FoundCommit
<1>3. Idle.pc = "idle"
  BY DEF Idle
<1> HIDE DEF Idle
<1>4. request'[r].pc = "idle" /\ \A q \in Request \ {r} : request'[q] = request[q]
  BY <1>1, <1>3
<1>5. TypeOK'
  <2>1. organizations' \subseteq Organization
    BY DEF FoundCommit, IInv, TypeOK, Local
  <2>2. request' \in [Request -> Local]
    BY <1>1, IdleType
  <2> QED
    BY <1>1, <2>1, <2>2 DEF IInv, TypeOK
<1>6. SessionsVerified' /\ AccountInv'
  BY <1>1 DEF IInv, SessionsVerified, AccountInv, HasRow
<1>7. ASSUME NEW q \in Request
      PROVE  HolderKnows(q)' /\ LeaverKnows(q)' /\ LoginKnows(q)' /\ NewcomerKnows(q)'
  <2>0. HolderKnows(q) /\ LeaverKnows(q) /\ LoginKnows(q) /\ NewcomerKnows(q)
    BY DEF IInv, RequestInv
  <2>1. CASE q = r
    BY <1>4, <2>1 DEF HolderKnows, LeaverKnows, LoginKnows, NewcomerKnows
  <2>2. CASE q # r
    BY <1>1, <1>4, <2>0, <2>2 DEF HolderKnows, LeaverKnows, LoginKnows, NewcomerKnows, HasRow
  <2> QED
    BY <2>1, <2>2
<1> QED
  BY <1>2, <1>5, <1>6, <1>7 DEF IInv, RequestInv

(* Requests on an account that changes learn of it; nothing else of theirs   *)
(* is touched.                                                               *)
LEMMA OvertakingType ==
  ASSUME TypeOK, NEW u \in User, NEW q \in Request
  PROVE  /\ Overtaking(u)[q] \in Local
         /\ Overtaking(u)[q].pc = request[q].pc /\ Overtaking(u)[q].user = request[q].user
         /\ Overtaking(u)[q].token = request[q].token /\ Overtaking(u)[q].password = request[q].password
         /\ Overtaking(u)[q].founds = request[q].founds
         /\ request[q].overtaken => Overtaking(u)[q].overtaken
         /\ request[q].pc = "verified" /\ request[q].user = u => Overtaking(u)[q].overtaken
<1>1. request[q] \in Local
  BY DEF TypeOK
<1>2. Overtaking(u)[q] = IF request[q].pc = "verified" /\ request[q].user = u THEN [request[q] EXCEPT !.overtaken = TRUE] ELSE request[q]
  BY DEF Overtaking
<1>3. CASE request[q].pc = "verified" /\ request[q].user = u
  <2> DEFINE l == [request[q] EXCEPT !.overtaken = TRUE]
  <2>1. l \in Local /\ l.pc = request[q].pc /\ l.user = request[q].user /\ l.token = request[q].token
    BY <1>1 DEF Local
  <2>2. l.password = request[q].password /\ l.founds = request[q].founds
    BY <1>1 DEF Local
  <2>3. l.overtaken
    BY <1>1 DEF Local
  <2>4. Overtaking(u)[q] = l
    BY <1>2, <1>3
  <2> HIDE DEF l
  <2> QED
    BY <2>1, <2>2, <2>3, <2>4
<1>4. CASE ~(request[q].pc = "verified" /\ request[q].user = u)
  BY <1>1, <1>2, <1>4 DEF Local
<1> QED
  BY <1>3, <1>4

(* A change of the password leaves one session of that user, the one it was  *)
(* asked through, and every login under way overtaken.                       *)
LEMMA ChangeCommitInv == ASSUME IInv, NEW r \in Request, ChangeCommit(r) PROVE IInv'
<1> DEFINE u == request[r].user
           t == request[r].token
           gone == Revoked(u, t)
           next == users[u].password + 1
<1>1. /\ users \in [User -> UserRow] /\ sessions \in [Token -> SessionRow] /\ now \in 0..MaxTime
      /\ request \in [Request -> Local] /\ ended \subseteq Token /\ slipped \subseteq Token
  BY DEF IInv, TypeOK
<1>2. /\ u \in User /\ t \in Token /\ users[u].status # "none" /\ request[r].pc = "hashing"
      /\ IF HasRow(t) THEN sessions[t].user = u ELSE t \in ended
  BY DEF IInv, RequestInv, HolderKnows, ChangeCommit
<1>3. next \in Password /\ next # users[u].password
  <2>1. users[u].password \in Password
    BY <1>1, <1>2 DEF UserRow
  <2> QED
    BY <2>1, SessionsAssumption DEF Password, ChangeCommit
<1>4. users' = [users EXCEPT ![u].password = next]
  BY DEF ChangeCommit
<1>5. /\ users' \in [User -> UserRow] /\ users'[u].password = next
      /\ \A v \in User : users'[v].status = users[v].status
      /\ \A v \in User \ {u} : users'[v].password = users[v].password
  BY <1>1, <1>2, <1>3, <1>4 DEF UserRow
<1>6. /\ sessions' = IF HasRow(t) THEN [Deleted(gone) EXCEPT ![t].password = next] ELSE Deleted(gone)
      /\ ended' = ended \union gone /\ slipped' = slipped \ (gone \union {t})
      /\ request' = [Overtaking(u) EXCEPT ![r] = Idle] /\ organizations' = organizations /\ now' = now
  BY DEF ChangeCommit
<1>7. /\ gone \subseteq Token /\ t \notin gone
      /\ \A o \in Token : o \in gone <=> o # t /\ sessions[o].user = u
  BY DEF Revoked
<1>8. Deleted(gone) \in [Token -> SessionRow] /\ \A o \in Token : Deleted(gone)[o] = IF o \in gone THEN NoSession ELSE sessions[o]
  BY <1>1, NoSessionType DEF Deleted
<1> HIDE DEF u, t, gone, next
<1>9. /\ sessions' \in [Token -> SessionRow]
      /\ \A o \in Token \ {t} : sessions'[o] = IF o \in gone THEN NoSession ELSE sessions[o]
      /\ sessions'[t].user = sessions[t].user /\ (HasRow(t) => sessions'[t].password = next)
  <2>1. CASE HasRow(t)
    <3> DEFINE row == [sessions[t] EXCEPT !.password = next]
    <3>1. row \in SessionRow /\ row.user = sessions[t].user /\ row.password = next
      BY <1>1, <1>2, <1>3 DEF SessionRow
    <3>2. sessions' = [Deleted(gone) EXCEPT ![t] = row]
      BY <1>2, <1>6, <1>7, <1>8, <2>1
    <3> HIDE DEF row
    <3> QED
      BY <1>2, <1>8, <3>1, <3>2
  <2>2. CASE ~HasRow(t)
    BY <1>2, <1>6, <1>7, <1>8, <2>2
  <2> QED
    BY <2>1, <2>2
<1>10. \A o \in Token : HasRow(o)' <=> HasRow(o) /\ o \notin gone
  BY <1>2, <1>7, <1>9 DEF HasRow, NoSession
<1>11. Idle.pc = "idle" /\ TypeOK
  BY DEF Idle, IInv
<1>12. request'[r] = Idle /\ \A q \in Request \ {r} : request'[q] = Overtaking(u)[q]
  BY <1>6 DEF Overtaking
<1>13. TypeOK'
  <2>1. \A q \in Request : Overtaking(u)[q] \in Local
    BY <1>2, <1>11, OvertakingType
  <2>2. request' \in [Request -> Local]
    BY <1>6, <2>1, IdleType DEF Overtaking
  <2> QED
    BY <1>1, <1>5, <1>6, <1>7, <1>9, <1>11, <2>2 DEF TypeOK
<1>14. SessionsVerified'
  <2> SUFFICES ASSUME NEW o \in Token, HasRow(o)'
               PROVE  o \notin ended' /\ (sessions'[o].password = users'[sessions'[o].user].password \/ o \in slipped')
    BY DEF SessionsVerified
  <2>1. HasRow(o) /\ o \notin gone /\ o \notin ended
    BY <1>10 DEF IInv, SessionsVerified
  <2>2. CASE o = t
    BY <1>2, <1>5, <1>6, <1>9, <2>1, <2>2
  <2>3. CASE o # t
    <3>1. sessions[o].user \in User \ {u}
      BY <1>1, <1>7, <2>1, <2>3 DEF HasRow, SessionRow
    <3> QED
      BY <1>5, <1>6, <1>9, <2>1, <2>3, <3>1 DEF IInv, SessionsVerified
  <2> QED
    BY <2>2, <2>3
<1>15. ASSUME NEW q \in Request
       PROVE  HolderKnows(q)' /\ LeaverKnows(q)' /\ LoginKnows(q)' /\ NewcomerKnows(q)'
  <2>0. HolderKnows(q) /\ LeaverKnows(q) /\ LoginKnows(q) /\ NewcomerKnows(q)
    BY DEF IInv, RequestInv
  <2>1. CASE q = r
    <3>1. request'[q].pc = "idle"
      BY <1>11, <1>12, <2>1
    <3> QED
      BY <3>1 DEF HolderKnows, LeaverKnows, LoginKnows, NewcomerKnows
  <2>2. CASE q # r
    <3>0. /\ request'[q].pc = request[q].pc /\ request'[q].user = request[q].user
          /\ request'[q].token = request[q].token /\ request'[q].password = request[q].password
          /\ request[q].overtaken => request'[q].overtaken
          /\ request[q].pc = "verified" /\ request[q].user = u => request'[q].overtaken
      BY <1>2, <1>11, <1>12, <2>2, OvertakingType
    <3>1. HolderKnows(q)'
      <4> SUFFICES ASSUME request[q].pc \in {"seen", "admitted", "hashing"}
                   PROVE  /\ request[q].token \in Token /\ request[q].user \in User
                          /\ users'[request[q].user].status # "none"
                          /\ IF sessions'[request[q].token].user # NoUser
                             THEN sessions'[request[q].token].user = request[q].user
                             ELSE request[q].token \in ended'
        BY <3>0 DEF HolderKnows, HasRow
      <4>1. CASE request[q].token = t
        BY <1>5, <1>6, <1>7, <1>9, <1>10, <2>0, <4>1 DEF HolderKnows, HasRow
      <4>2. CASE request[q].token # t
        BY <1>5, <1>6, <1>9, <1>10, <2>0, <4>2 DEF HolderKnows, HasRow
      <4> QED
        BY <4>1, <4>2
    <3>2. LeaverKnows(q)'
      BY <2>0, <3>0 DEF LeaverKnows
    <3>3. LoginKnows(q)'
      BY <1>5, <2>0, <3>0 DEF LoginKnows
    <3>4. NewcomerKnows(q)'
      <4>1. \A o \in Request : request'[o].pc = "registering" =>
               request[o].pc = "registering" /\ request'[o].user = request[o].user
        BY <1>2, <1>11, <1>12, OvertakingType
      <4> QED
        BY <1>5, <2>0, <3>0, <4>1 DEF NewcomerKnows
    <3> QED
      BY <3>1, <3>2, <3>3, <3>4
  <2> QED
    BY <2>1, <2>2
<1>16. SlugInv'
  <2>1. \A q \in Request \ {r} : request'[q].pc = request[q].pc /\ request'[q].founds = request[q].founds
    BY <1>2, <1>11, <1>12, OvertakingType
  <2> QED
    BY <1>6, <1>11, <1>12, <2>1, SlugsKept DEF IInv
<1>17. AccountInv'
  <2>1. AccountInv
    BY DEF IInv
  <2> QED
    BY <1>2, <1>5, <2>1 DEF AccountInv
<1> QED
  BY <1>13, <1>14, <1>15, <1>16, <1>17 DEF IInv, RequestInv

LEMMA SetStatusInv ==
  ASSUME IInv, NEW u \in User, NEW s \in {"active", "disabled"}, SetStatus(u, s) PROVE IInv'
<1>1. /\ users \in [User -> UserRow] /\ users[u].status # "none" /\ users' = [users EXCEPT ![u].status = s]
      /\ request' = Overtaking(u) /\ UNCHANGED <<sessions, organizations, now, ended, slipped>> /\ TypeOK
  BY DEF IInv, TypeOK, SetStatus
<1>2. /\ users' \in [User -> UserRow] /\ users'[u].status = s
      /\ \A v \in User : users'[v].password = users[v].password
      /\ \A v \in User \ {u} : users'[v].status = users[v].status
  BY <1>1 DEF UserRow
<1>3. \A q \in Request :
         /\ request'[q] \in Local
         /\ request'[q].pc = request[q].pc /\ request'[q].user = request[q].user
         /\ request'[q].token = request[q].token /\ request'[q].password = request[q].password
         /\ request'[q].founds = request[q].founds
         /\ request[q].overtaken => request'[q].overtaken
         /\ request[q].pc = "verified" /\ request[q].user = u => request'[q].overtaken
  BY <1>1, OvertakingType
<1>4. TypeOK'
  <2>1. request' \in [Request -> Local]
    BY <1>1, <1>3 DEF Overtaking
  <2> QED
    BY <1>1, <1>2, <2>1 DEF TypeOK
<1>5. SessionsVerified'
  <2>1. \A o \in Token : HasRow(o) => sessions[o].user \in User
    BY <1>1 DEF TypeOK, SessionRow, HasRow
  <2> QED
    BY <1>1, <1>2, <2>1 DEF IInv, SessionsVerified, HasRow
<1>6. ASSUME NEW q \in Request
      PROVE  HolderKnows(q)' /\ LeaverKnows(q)' /\ LoginKnows(q)' /\ NewcomerKnows(q)'
  <2>0. HolderKnows(q) /\ LeaverKnows(q) /\ LoginKnows(q) /\ NewcomerKnows(q)
    BY DEF IInv, RequestInv
  <2>1. HolderKnows(q)'
    BY <1>1, <1>2, <1>3, <2>0 DEF HolderKnows, HasRow
  <2>2. LeaverKnows(q)'
    BY <1>3, <2>0 DEF LeaverKnows
  <2>3. LoginKnows(q)'
    BY <1>2, <1>3, <2>0 DEF LoginKnows
  <2>4. NewcomerKnows(q)'
    BY <1>1, <1>2, <1>3, <2>0 DEF NewcomerKnows
  <2> QED
    BY <2>1, <2>2, <2>3, <2>4
<1>7. SlugInv'
  BY <1>1, <1>3, SlugsKept DEF IInv
<1>8. AccountInv'
  BY <1>1, <1>2 DEF IInv, AccountInv
<1> QED
  BY <1>4, <1>5, <1>6, <1>7, <1>8 DEF IInv, RequestInv

LEMMA TickInv == ASSUME IInv, Tick PROVE IInv'
<1>1. TypeOK'
  BY SessionsAssumption DEF IInv, TypeOK, Tick
<1>2. SessionsVerified' /\ AccountInv' /\ SlugInv'
  BY DEF IInv, SessionsVerified, AccountInv, SlugInv, SlugsInOrder, Preceded, TakenSlugs, HasRow, Tick
<1>3. RequestInv'
  BY DEF IInv, RequestInv, HolderKnows, LeaverKnows, LoginKnows, NewcomerKnows, HasRow, Tick
<1> QED
  BY <1>1, <1>2, <1>3 DEF IInv

LEMMA InvNext == IInv /\ [Next]_vars => IInv'
<1> SUFFICES ASSUME IInv, [Next]_vars PROVE IInv'
  OBVIOUS
<1>1. CASE UNCHANGED vars
  <2>1. TypeOK'
    BY <1>1 DEF IInv, TypeOK, vars
  <2>2. SessionsVerified' /\ AccountInv' /\ SlugInv'
    BY <1>1 DEF IInv, SessionsVerified, AccountInv, SlugInv, SlugsInOrder, Preceded, TakenSlugs, HasRow, vars
  <2>3. RequestInv'
    BY <1>1 DEF IInv, RequestInv, HolderKnows, LeaverKnows, LoginKnows, NewcomerKnows, HasRow, vars
  <2> QED
    BY <2>1, <2>2, <2>3 DEF IInv
<1>2. ASSUME NEW r \in Request, SlugTaken(r) \/ Handled(r) \/ Dies(r) PROVE IInv'
  BY <1>2, EndsInv DEF SlugTaken, Handled, Dies
<1> QED
  BY <1>1, <1>2, RegisterBeginInv, RegisterCommitInv, FoundBeginInv, FoundCommitInv, LoginReadInv,
     LoginStartInv, AuthenticateInv, TouchInv, ChangeReadInv, ChangeCommitInv, LogoutBeginInv,
     LogoutInv, PurgeInv, SetStatusInv, TickInv DEF Next

LEMMA InvAlways == Spec => []IInv
  BY InvInit, InvNext, PTL DEF Spec

-----------------------------------------------------------------------------
\* Every row and every request in progress keeps its type.
THEOREM TypeCorrect == Spec => []TypeOK
<1>1. IInv => TypeOK
  BY DEF IInv
<1> QED
  BY <1>1, InvAlways, PTL

\* A session that has ended never comes back, and one that authenticates is of
\* the user's current password unless its login was overtaken by a change.
THEOREM SessionsVerifiedHolds == Spec => []SessionsVerified
<1>1. IInv => SessionsVerified
  BY DEF IInv
<1> QED
  BY <1>1, InvAlways, PTL

\* No two organizations have the same slug, and each has the first that was free
\* of those its name may have, however many are founded at the same time.
THEOREM SlugsInOrderHolds == Spec => []SlugsInOrder
<1>1. IInv => SlugsInOrder
  BY DEF IInv, SlugInv
<1> QED
  BY <1>1, InvAlways, PTL

\* A session ends because it has expired, is logged out, or another session of
\* the same user changes the password, and for no other reason.
THEOREM EndsForCauseHolds == Spec => EndsForCause
<1> DEFINE Cause(t) ==
         \/ ~Live(sessions[t])
         \/ \E r \in Request : /\ request[r].pc = "leaving" /\ request[r].token = t
                               /\ request'[r].pc = "idle"
         \/ \E r \in Request : /\ request[r].pc = "hashing" /\ request[r].token # t
                               /\ request[r].user = sessions[t].user
                               /\ users'[request[r].user] # users[request[r].user]
<1>1. ASSUME IInv, [Next]_vars, NEW t \in Token, HasRow(t), ~HasRow(t)' PROVE Cause(t)
  <2>0. /\ users \in [User -> UserRow] /\ sessions \in [Token -> SessionRow] /\ now \in 0..MaxTime
        /\ request \in [Request -> Local]
    BY <1>1 DEF IInv, TypeOK
  <2>1. ASSUME NEW r \in Request, ChangeCommit(r) PROVE Cause(t)
    <3> DEFINE u == request[r].user
               o == request[r].token
               gone == Revoked(u, o)
    <3>1. request[r].pc = "hashing" /\ u \in User /\ o \in Token
      BY <1>1, <2>1 DEF IInv, RequestInv, HolderKnows, ChangeCommit
    <3>2. /\ users' = [users EXCEPT ![u].password = users[u].password + 1]
          /\ sessions' = IF HasRow(o) THEN [Deleted(gone) EXCEPT ![o].password = users[u].password + 1] ELSE Deleted(gone)
      BY <2>1 DEF ChangeCommit
    <3>3. users'[u] # users[u]
      <4>1. users[u].password \in Nat /\ users[u] \in UserRow
        BY <2>0, <3>1, SessionsAssumption DEF UserRow, Password
      <4>2. users'[u].password = users[u].password + 1
        BY <2>0, <3>1, <3>2 DEF UserRow
      <4> QED
        BY <4>1, <4>2
    <3>4. o \notin gone /\ \A x \in Token : x \in gone => sessions[x].user = u
      BY DEF Revoked
    <3>5. t # o /\ t \in gone
      <4>1. \A x \in Token : Deleted(gone)[x] = IF x \in gone THEN NoSession ELSE sessions[x]
        BY DEF Deleted
      <4>2. Deleted(gone) \in [Token -> SessionRow]
        BY <2>0, NoSessionType DEF Deleted
      <4>3. CASE HasRow(o)
        <5> DEFINE row == [sessions[o] EXCEPT !.password = users[u].password + 1]
        <5>1. row.user = sessions[o].user
          BY <2>0, <3>1 DEF SessionRow
        <5>2. sessions' = [Deleted(gone) EXCEPT ![o] = row]
          BY <3>1, <3>2, <3>4, <4>1, <4>3
        <5> HIDE DEF row, gone
        <5> QED
          BY <1>1, <3>1, <3>4, <4>1, <4>2, <5>1, <5>2 DEF HasRow
      <4>4. CASE ~HasRow(o)
        BY <1>1, <3>2, <4>1, <4>4 DEF HasRow
      <4> QED
        BY <4>3, <4>4
    <3> QED
      BY <3>1, <3>3, <3>4, <3>5
  <2>2. ASSUME NEW r \in Request, Logout(r) PROVE Cause(t)
    <3>1. t = request[r].token
      BY <1>1, <2>2 DEF Logout, Deleted, HasRow
    <3>2. Idle.pc = "idle"
      BY DEF Idle
    <3> HIDE DEF Idle
    <3>3. request'[r].pc = "idle" /\ request[r].pc = "leaving"
      BY <2>0, <2>2, <3>2 DEF Logout, Becomes
    <3> QED
      BY <3>1, <3>3
  <2>3. ASSUME Purge PROVE Cause(t)
    <3>1. Purgeable(sessions[t])
      BY <1>1, <2>3 DEF Purge, Deleted, HasRow
    <3>2. sessions[t].expiresAt \in Int /\ now \in Int
      BY <2>0, SessionsAssumption DEF SessionRow, Time
    <3> QED
      BY <3>1, <3>2 DEF Purgeable, Live
  <2>4. ASSUME NEW r \in Request, NEW o \in Fresh, RegisterCommit(r, o) \/ LoginStart(r, o) PROVE FALSE
    <3>1. PICK row : sessions' = [sessions EXCEPT ![o] = row]
      BY <2>4 DEF RegisterCommit, LoginStart
    <3>2. t # o
      BY <1>1 DEF Fresh
    <3> QED
      BY <1>1, <2>0, <3>1, <3>2 DEF HasRow
  <2>5. ASSUME NEW r \in Request, Touch(r) PROVE FALSE
    <3> DEFINE o == request[r].token
    <3>1. sessions' = [sessions EXCEPT ![o] = Touched(sessions[o], request[r].user)]
      BY <2>5 DEF Touch
    <3>2. Touched(sessions[t], request[r].user).user = sessions[t].user
      BY <2>0 DEF Touched, SessionRow
    <3> HIDE DEF o
    <3> QED
      BY <1>1, <2>0, <3>1, <3>2 DEF HasRow
  <2>6. CASE UNCHANGED sessions
    BY <1>1, <2>6 DEF HasRow
  <2> QED
    BY <1>1, <2>1, <2>2, <2>3, <2>4, <2>5, <2>6 DEF Next, vars, RegisterBegin, LoginRead, Authenticate,
       LogoutBegin, SlugTaken, FoundBegin, FoundCommit, Handled, ChangeRead, Dies, SetStatus, Tick
<1>2. IInv /\ [Next]_vars
      => [\A t \in Token : HasRow(t) /\ ~HasRow(t)' =>
         \/ ~Live(sessions[t])
         \/ \E r \in Request : /\ request[r].pc = "leaving" /\ request[r].token = t
                               /\ request'[r].pc = "idle"
         \/ \E r \in Request : /\ request[r].pc = "hashing" /\ request[r].token # t
                               /\ request[r].user = sessions[t].user
                               /\ users'[request[r].user] # users[request[r].user]]_vars
  BY <1>1
<1> QED
  BY <1>2, InvAlways, PTL DEF Spec, EndsForCause
=============================================================================
