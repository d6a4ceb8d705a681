-------------------------- MODULE MigrationsProofs --------------------------
(* Theorems about Migrations, for any number of migrations and processes:    *)
(* its types, what its table tells about the database, and that it           *)
(* implements SchemaHistory.                                                 *)
EXTENDS Migrations, TLAPS

-----------------------------------------------------------------------------
(* What a process knows.  An hash it read from the table is still there, or  *)
(* the migration was reverted since; what it has passed is there with the    *)
(* hash it found, has no file, or was reverted; and a down that nobody       *)
(* overlapped is about to revert the last.                                   *)
Explained(i) == i \in Recorded \/ i \in raced \/ i \in missed

KnownHolds(r) ==
    r.op \in {"up", "loop", "apply"} =>
        \A i \in Id : r.known[i] # 0 => recorded[i] = r.known[i] \/ i \in r.undone

PassedHolds(r) ==
    r.op \in {"loop", "apply"} =>
        \A i \in Id : /\ i < r.at => r.files[i] = 0 \/ recorded[i] = r.files[i] \/ i \in r.undone
                      /\ r.files[i] = 0 => i \in missed

UndoneHolds(r) == r.op # "idle" => \A i \in r.undone : i \in Recorded \/ i \in raced

PlaceHolds(r) ==
    /\ r.op = "apply" => r.at \in Id /\ r.files[r.at] # 0 /\ r.contents # 0
    /\ r.op \in {"down", "revert"} => r.at \in Id

AloneHolds(p) ==
    run[p].op \in {"down", "revert"} /\ run[p].alone =>
        /\ \A j \in Recorded : j <= run[p].at
        /\ \A q \in Process \ {p} : run[q].op = "idle"

Knows(p) ==
    /\ KnownHolds(run[p]) /\ PassedHolds(run[p]) /\ UndoneHolds(run[p])
    /\ PlaceHolds(run[p]) /\ AloneHolds(p)

TableHolds ==
    /\ \A i \in Id : recorded[i] # 0 <=> schema[i] # 0
    /\ \A i \in Id : recorded[i] # 0 => schema[i] = recorded[i] \/ i \in slipped
    /\ \A j \in Recorded : \A i \in Id : i < j => Explained(i)
    /\ \A i \in Id : repo[i] = 0 => i \in missed

IInv == TypeOK /\ TableHolds /\ \A p \in Process : Knows(p)

-----------------------------------------------------------------------------
LEMMA IdleType == Idle \in Invocation
  BY MigrationsAssumption DEF Idle, Invocation, Empty, Op, Id, Version

(* At moves an up to another migration and changes nothing else it knows.    *)
LEMMA AtType ==
  ASSUME NEW r \in Invocation, NEW k \in 1..(N + 1)
  PROVE  /\ At(r, k) \in Invocation
         /\ At(r, k).op = "loop" /\ At(r, k).at = k /\ At(r, k).known = r.known
         /\ At(r, k).files = r.files /\ At(r, k).undone = r.undone
<1>1. k \in 0..(N + 1) /\ 0 \in Version /\ "loop" \in Op
  BY MigrationsAssumption DEF Version, Op
<1> QED
  BY <1>1 DEF At, Invocation

(* What an up has passed is accounted for when what it knows is.             *)
LEMMA ReachesPasses ==
  ASSUME TypeOK, NEW r \in Invocation, NEW i \in Nat, NEW k \in 1..(N + 1),
         Reaches(r, i, k), KnownHolds(r), r.op \in {"up", "loop", "apply"}
  PROVE  \A x \in Id : i <= x /\ x < k =>
            r.files[x] = 0 \/ recorded[x] = r.files[x] \/ x \in r.undone
  BY DEF Reaches, Passed, KnownHolds

(* No process knows anything before it starts.                               *)
LEMMA IdleKnows == KnownHolds(Idle) /\ PassedHolds(Idle) /\ UndoneHolds(Idle) /\ PlaceHolds(Idle)
  BY DEF Idle, KnownHolds, PassedHolds, UndoneHolds, PlaceHolds

LEMMA InvInit == Init => IInv
<1> SUFFICES ASSUME Init PROVE IInv
  OBVIOUS
<1>1. TypeOK
  BY MigrationsAssumption, IdleType DEF Init, TypeOK, Empty, Id, Version
<1>2. TableHolds
  BY DEF Init, TableHolds, Empty, Recorded
<1>3. ASSUME NEW p \in Process PROVE Knows(p)
  <2>1. run[p] = Idle
    BY DEF Init
  <2>2. AloneHolds(p)
    BY <2>1 DEF AloneHolds, Idle
  <2> QED
    BY <2>1, <2>2, IdleKnows DEF Knows
<1> QED
  BY <1>1, <1>2, <1>3 DEF IInv

-----------------------------------------------------------------------------
(* A process that is under way moves on, and touches only what it knows.     *)
LEMMA BecomesInv ==
  ASSUME IInv, NEW p \in Process, NEW r \in Invocation, Becomes(p, r), Busy(p),
         KnownHolds(r), PassedHolds(r), UndoneHolds(r), PlaceHolds(r),
         r.op \in {"down", "revert"} =>
            run[p].op \in {"down", "revert"} /\ r.at = run[p].at /\ r.alone = run[p].alone
  PROVE  IInv'
<1>1. run' = [run EXCEPT ![p] = r] /\ UNCHANGED <<repo, schema, recorded, raced, missed, changes, slipped>>
  BY DEF Becomes
<1>2. TypeOK'
  BY <1>1 DEF IInv, TypeOK
<1>3. TableHolds'
  BY <1>1 DEF IInv, TableHolds, Recorded, Explained
<1>4. run'[p] = r /\ \A q \in Process \ {p} : run'[q] = run[q]
  BY <1>1 DEF IInv, TypeOK
<1>5. ASSUME NEW q \in Process PROVE Knows(q)'
  <2>0. KnownHolds(run[q]) /\ PassedHolds(run[q]) /\ UndoneHolds(run[q]) /\ PlaceHolds(run[q]) /\ AloneHolds(q)
    BY DEF IInv, Knows
  <2>1. KnownHolds(run[q])'
    BY <1>1, <1>4, <2>0 DEF KnownHolds
  <2>2. PassedHolds(run[q])'
    BY <1>1, <1>4, <2>0 DEF PassedHolds
  <2>3. UndoneHolds(run[q])'
    BY <1>1, <1>4, <2>0 DEF UndoneHolds, Recorded
  <2>4. PlaceHolds(run[q])'
    BY <1>1, <1>4, <2>0 DEF PlaceHolds
  <2>5. AloneHolds(q)'
    BY <1>1, <1>4, <2>0 DEF AloneHolds, Recorded, Busy
  <2> QED
    BY <2>1, <2>2, <2>3, <2>4, <2>5 DEF Knows
<1> QED
  BY <1>2, <1>3, <1>5 DEF IInv

(* In particular when it ends, with or without an error.                     *)
LEMMA EndsInv ==
  ASSUME IInv, NEW p \in Process, Busy(p), Becomes(p, Idle)
  PROVE  IInv'
<1>1. Idle.op \notin {"down", "revert"}
  BY DEF Idle
<1> HIDE DEF Idle
<1> QED
  BY <1>1, IdleType, IdleKnows, BecomesInv

(* A process starts, and those that are under way are no longer alone.       *)
LEMMA BeginsInv ==
  ASSUME IInv, NEW p \in Process, NEW first \in Invocation, Begins(p, first), run[p].op = "idle",
         KnownHolds(first), PassedHolds(first), UndoneHolds(first), PlaceHolds(first),
         first.op \in {"down", "revert"} => \A j \in Recorded : j <= first.at
  PROVE  IInv'
<1> DEFINE a == \A o \in Process : ~Busy(o)
<1>1. run' = [q \in Process |-> IF q = p THEN [first EXCEPT !.alone = a]
                ELSE IF Busy(q) THEN [run[q] EXCEPT !.alone = FALSE] ELSE run[q]]
  BY DEF Begins
<1>2. UNCHANGED <<repo, schema, recorded, raced, missed, changes, slipped>>
  BY DEF Begins
<1>3. a \in BOOLEAN /\ (a => \A o \in Process : run[o].op = "idle")
  BY DEF Busy
<1> HIDE DEF a
<1>4. [first EXCEPT !.alone = a] \in Invocation
  BY <1>3 DEF Invocation
<1>5. \A q \in Process : run[q] \in Invocation /\ [run[q] EXCEPT !.alone = FALSE] \in Invocation
  BY DEF IInv, TypeOK, Invocation
<1>6. run' \in [Process -> Invocation]
  BY <1>1, <1>4, <1>5
<1>7. TypeOK'
  BY <1>2, <1>6 DEF IInv, TypeOK
<1>8. TableHolds'
  BY <1>2 DEF IInv, TableHolds, Recorded, Explained
<1>9. ASSUME NEW q \in Process PROVE Knows(q)'
  <2> DEFINE s == IF q = p THEN first ELSE run[q]
  <2>0. KnownHolds(s) /\ PassedHolds(s) /\ UndoneHolds(s) /\ PlaceHolds(s)
    BY DEF IInv, Knows
  <2>1. /\ run'[q].op = s.op /\ run'[q].known = s.known /\ run'[q].files = s.files /\ run'[q].at = s.at
        /\ run'[q].contents = s.contents /\ run'[q].undone = s.undone
    BY <1>1, <1>5 DEF Invocation
  <2>2. run'[q].alone => s.op = "idle" \/ (q = p /\ a)
    BY <1>1, <1>5, <1>3 DEF Invocation, Busy
  <2>3. q = p => s = first
    OBVIOUS
  <2> HIDE DEF s
  <2>4. KnownHolds(run[q])'
    BY <1>2, <2>0, <2>1 DEF KnownHolds
  <2>5. PassedHolds(run[q])'
    BY <1>2, <2>0, <2>1 DEF PassedHolds
  <2>6. UndoneHolds(run[q])'
    BY <1>2, <2>0, <2>1 DEF UndoneHolds, Recorded
  <2>7. PlaceHolds(run[q])'
    BY <2>0, <2>1 DEF PlaceHolds
  <2>8. AloneHolds(q)'
    <3>1. SUFFICES ASSUME run'[q].op \in {"down", "revert"}, run'[q].alone
                   PROVE  /\ \A j \in Recorded' : j <= run'[q].at
                          /\ \A o \in Process \ {q} : run'[o].op = "idle"
      BY DEF AloneHolds
    <3>2. q = p /\ a /\ s = first
      BY <2>1, <2>2, <2>3, <3>1
    <3>3. \A o \in Process \ {p} : run'[o].op = "idle"
      BY <1>1, <1>3, <3>2 DEF Busy
    <3>4. \A j \in Recorded : j <= first.at
      BY <2>1, <3>1, <3>2
    <3> QED
      BY <1>2, <2>1, <3>2, <3>3, <3>4 DEF Recorded
  <2> QED
    BY <2>4, <2>5, <2>6, <2>7, <2>8 DEF Knows
<1> QED
  BY <1>7, <1>8, <1>9 DEF IInv

-----------------------------------------------------------------------------
LEMMA UpBeginInv == ASSUME IInv, NEW p \in Process, UpBegin(p) PROVE IInv'
<1> DEFINE r == [Idle EXCEPT !.op = "up", !.known = recorded]
<1>1. r \in Invocation /\ r.op = "up" /\ r.known = recorded /\ r.undone = {}
  BY IdleType DEF Idle, Invocation, Op, IInv, TypeOK
<1>2. Begins(p, r) /\ run[p].op = "idle"
  BY DEF UpBegin
<1> HIDE DEF r
<1>3. KnownHolds(r) /\ PassedHolds(r) /\ UndoneHolds(r) /\ PlaceHolds(r)
  BY <1>1 DEF KnownHolds, PassedHolds, UndoneHolds, PlaceHolds
<1> QED
  BY <1>1, <1>2, <1>3, BeginsInv

LEMMA UpDiscoverInv == ASSUME IInv, NEW p \in Process, UpDiscover(p) PROVE IInv'
<1> DEFINE r == [run[p] EXCEPT !.files = repo]
<1>1. /\ r \in Invocation /\ r.files = repo /\ r.op = "up"
      /\ r.known = run[p].known /\ r.undone = run[p].undone
  BY DEF IInv, TypeOK, Invocation, UpDiscover
<1>2. PICK k \in 1..(N + 1) : Reaches(r, 1, k) /\ Becomes(p, At(r, k))
  BY DEF UpDiscover
<1>3. run[p].op = "up" /\ KnownHolds(run[p]) /\ UndoneHolds(run[p])
  BY DEF UpDiscover, IInv, Knows
<1> HIDE DEF r
<1>4. KnownHolds(r)
  BY <1>1, <1>3 DEF KnownHolds
<1>5. \A x \in Id : x < k => r.files[x] = 0 \/ recorded[x] = r.files[x] \/ x \in r.undone
  <2>1. \A x \in Id : 1 <= x
    BY MigrationsAssumption DEF Id
  <2> QED
    BY <1>1, <1>2, <1>4, <2>1, ReachesPasses DEF IInv
<1>6. \A x \in Id : r.files[x] = 0 => x \in missed
  BY <1>1 DEF IInv, TableHolds
<1> DEFINE s == At(r, k)
<1>7. /\ s \in Invocation /\ s.op = "loop" /\ s.at = k /\ s.known = r.known
      /\ s.files = r.files /\ s.undone = r.undone
  BY <1>1, AtType
<1>8. Becomes(p, s)
  BY <1>2
<1> HIDE DEF s
<1>9. KnownHolds(s) /\ PassedHolds(s) /\ UndoneHolds(s) /\ PlaceHolds(s)
  BY <1>1, <1>3, <1>4, <1>5, <1>6, <1>7 DEF KnownHolds, PassedHolds, UndoneHolds, PlaceHolds
<1> QED
  BY <1>3, <1>7, <1>8, <1>9, BecomesInv DEF Busy

LEMMA UpReadInv == ASSUME IInv, NEW p \in Process, UpRead(p) PROVE IInv'
<1> DEFINE r == [run[p] EXCEPT !.op = "apply", !.contents = repo[run[p].at]]
<1>1. run[p] \in Invocation /\ run[p].op = "loop" /\ run[p].at \in Id /\ run[p].files[run[p].at] # 0
  BY DEF IInv, TypeOK, UpRead, Pending
<1>2. repo[run[p].at] \in Version /\ repo[run[p].at] # 0
  BY <1>1 DEF IInv, TypeOK, UpRead
<1>3. /\ r \in Invocation /\ r.op = "apply" /\ r.contents = repo[run[p].at] /\ r.at = run[p].at
      /\ r.known = run[p].known /\ r.files = run[p].files /\ r.undone = run[p].undone
  BY <1>1, <1>2 DEF Invocation, Op
<1>4. Becomes(p, r)
  BY DEF UpRead
<1>5. KnownHolds(run[p]) /\ PassedHolds(run[p]) /\ UndoneHolds(run[p])
  BY DEF IInv, Knows
<1> HIDE DEF r
<1>6. KnownHolds(r) /\ PassedHolds(r) /\ UndoneHolds(r) /\ PlaceHolds(r)
  BY <1>1, <1>2, <1>3, <1>5 DEF KnownHolds, PassedHolds, UndoneHolds, PlaceHolds
<1> QED
  BY <1>1, <1>3, <1>4, <1>6, BecomesInv DEF Busy

(* An up puts a migration on top of what it found below it.                  *)
LEMMA UpApplyInv == ASSUME IInv, NEW p \in Process, UpApply(p) PROVE IInv'
<1> DEFINE i == run[p].at
           h == run[p].files[i]
<1>1. run[p] \in Invocation /\ run[p].op = "apply"
  BY DEF IInv, TypeOK, UpApply
<1>2. /\ KnownHolds(run[p]) /\ PassedHolds(run[p]) /\ UndoneHolds(run[p]) /\ PlaceHolds(run[p])
  BY DEF IInv, Knows
<1>3. i \in Id /\ h # 0 /\ run[p].contents # 0
  BY <1>1, <1>2 DEF PlaceHolds
<1>4. h \in Version /\ run[p].contents \in Version
  BY <1>1, <1>3 DEF Invocation
<1>5. schema' = [schema EXCEPT ![i] = run[p].contents] /\ recorded' = [recorded EXCEPT ![i] = h]
  BY DEF UpApply
<1>6. PICK k \in 1..(N + 1) : Reaches(run[p], i + 1, k) /\ run' = [run EXCEPT ![p] = At(run[p], k)]
  BY DEF UpApply
<1>7. /\ raced' = raced \ {i} /\ UNCHANGED <<repo, missed, changes>>
      /\ slipped' = IF run[p].contents = h THEN slipped \ {i} ELSE slipped \union {i}
  BY DEF UpApply
<1>8. recorded[i] = 0
  BY <1>3 DEF UpApply, Fails, Recorded
<1>9. /\ At(run[p], k) \in Invocation /\ At(run[p], k).op = "loop" /\ At(run[p], k).at = k
      /\ At(run[p], k).known = run[p].known /\ At(run[p], k).files = run[p].files
      /\ At(run[p], k).undone = run[p].undone
  BY <1>1, AtType
<1>10. repo \in [Id -> Version] /\ schema \in [Id -> Version] /\ recorded \in [Id -> Version]
       /\ run \in [Process -> Invocation] /\ raced \subseteq Id /\ missed \subseteq Id
       /\ slipped \subseteq Id /\ changes \in 0..MaxChanges
  BY DEF IInv, TypeOK
<1>11. /\ \A x \in Id : recorded'[x] = IF x = i THEN h ELSE recorded[x]
       /\ \A x \in Id : schema'[x] = IF x = i THEN run[p].contents ELSE schema[x]
  BY <1>5, <1>10
<1>12. run'[p] = At(run[p], k) /\ \A q \in Process \ {p} : run'[q] = run[q]
  BY <1>6, <1>10
<1>13. Recorded' = Recorded \union {i}
  BY <1>3, <1>11 DEF Recorded
<1> HIDE DEF i, h
<1>14. TypeOK'
  <2>1. schema' \in [Id -> Version] /\ recorded' \in [Id -> Version]
    BY <1>4, <1>5, <1>10
  <2>2. run' \in [Process -> Invocation]
    BY <1>6, <1>9, <1>10
  <2> QED
    BY <1>3, <1>7, <1>10, <2>1, <2>2 DEF TypeOK
<1>15. \A x \in Id : x < i => Explained(x) \/ x \in run[p].undone
  BY <1>1, <1>2 DEF PassedHolds, Explained, Recorded, i
<1>16. \A x \in Id : x < i => Explained(x)
  BY <1>1, <1>2, <1>15 DEF UndoneHolds, Explained
<1>17. TableHolds'
  <2>1. TableHolds
    BY DEF IInv
  <2>2. \A x \in Id : recorded'[x] # 0 <=> schema'[x] # 0
    BY <1>3, <1>11, <2>1 DEF TableHolds
  <2>3. \A x \in Id : recorded'[x] # 0 => schema'[x] = recorded'[x] \/ x \in slipped'
    BY <1>7, <1>11, <2>1 DEF TableHolds
  <2>4. ASSUME NEW x \in Id, Explained(x) PROVE Explained(x)'
    BY <1>7, <1>13, <2>4 DEF Explained
  <2>5. \A j \in Recorded' : \A x \in Id : x < j => Explained(x)'
    <3> SUFFICES ASSUME NEW j \in Recorded', NEW x \in Id, x < j PROVE Explained(x)'
      OBVIOUS
    <3>1. CASE j = i
      BY <1>16, <2>4, <3>1
    <3>2. CASE j # i
      BY <1>13, <2>1, <2>4, <3>2 DEF TableHolds
    <3> QED
      BY <3>1, <3>2
  <2>6. \A x \in Id : repo'[x] = 0 => x \in missed'
    BY <1>7, <2>1 DEF TableHolds
  <2> QED
    BY <2>2, <2>3, <2>5, <2>6 DEF TableHolds
<1>18. ASSUME NEW q \in Process, q # p PROVE Knows(q)'
  <2>0. /\ KnownHolds(run[q]) /\ PassedHolds(run[q]) /\ UndoneHolds(run[q]) /\ PlaceHolds(run[q])
        /\ AloneHolds(q) /\ run'[q] = run[q]
    BY <1>12, <1>18 DEF IInv, Knows
  <2>1. KnownHolds(run[q])'
    BY <1>8, <1>11, <2>0 DEF KnownHolds
  <2>2. PassedHolds(run[q])'
    BY <1>7, <1>8, <1>11, <2>0 DEF PassedHolds
  <2>3. UndoneHolds(run[q])'
    BY <1>7, <1>13, <2>0 DEF UndoneHolds
  <2>4. PlaceHolds(run[q])'
    BY <2>0 DEF PlaceHolds
  <2>5. AloneHolds(q)'
    BY <1>1, <1>18, <2>0 DEF AloneHolds
  <2> QED
    BY <2>1, <2>2, <2>3, <2>4, <2>5 DEF Knows
<1>19. Knows(p)'
  <2>1. KnownHolds(run[p])'
    BY <1>1, <1>2, <1>8, <1>9, <1>11, <1>12 DEF KnownHolds
  <2>2. PassedHolds(run[p])'
    <3>1. i + 1 \in Nat /\ \A x \in Id : x # i /\ ~(x < i) => i + 1 <= x
      BY <1>3, MigrationsAssumption DEF Id
    <3>2. \A x \in Id : i + 1 <= x /\ x < k =>
             run[p].files[x] = 0 \/ recorded[x] = run[p].files[x] \/ x \in run[p].undone
      BY <1>1, <1>2, <1>6, <3>1, ReachesPasses DEF IInv
    <3>3. \A x \in Id : x < i => run[p].files[x] = 0 \/ recorded[x] = run[p].files[x] \/ x \in run[p].undone
      BY <1>1, <1>2 DEF PassedHolds, i
    <3>4. \A x \in Id : x < k => run[p].files[x] = 0 \/ recorded'[x] = run[p].files[x] \/ x \in run[p].undone
      <4> TAKE x \in Id
      <4>1. CASE x = i
        BY <1>11, <4>1 DEF h, i
      <4>2. CASE x # i
        BY <1>11, <3>1, <3>2, <3>3, <4>2
      <4> QED
        BY <4>1, <4>2
    <3>5. \A x \in Id : run[p].files[x] = 0 => x \in missed'
      BY <1>1, <1>2, <1>7 DEF PassedHolds
    <3> QED
      BY <1>9, <1>12, <3>4, <3>5 DEF PassedHolds
  <2>3. UndoneHolds(run[p])'
    BY <1>1, <1>2, <1>7, <1>9, <1>12, <1>13 DEF UndoneHolds
  <2>4. PlaceHolds(run[p])' /\ AloneHolds(p)'
    BY <1>9, <1>12 DEF PlaceHolds, AloneHolds
  <2> QED
    BY <2>1, <2>2, <2>3, <2>4 DEF Knows
<1> QED
  BY <1>14, <1>17, <1>18, <1>19 DEF IInv

LEMMA DownBeginInv == ASSUME IInv, NEW p \in Process, DownBegin(p) PROVE IInv'
<1>1. PICK i \in Id : IsLast(recorded, i) /\ Begins(p, [Idle EXCEPT !.op = "down", !.at = i])
  BY DEF DownBegin
<1> DEFINE r == [Idle EXCEPT !.op = "down", !.at = i]
<1>2. i \in 0..(N + 1)
  BY MigrationsAssumption DEF Id
<1>3. r \in Invocation /\ r.op = "down" /\ r.at = i /\ r.undone = {}
  BY <1>2, IdleType DEF Idle, Invocation, Op
<1>4. Begins(p, r) /\ run[p].op = "idle"
  BY <1>1 DEF DownBegin
<1> HIDE DEF r
<1>5. KnownHolds(r) /\ PassedHolds(r) /\ UndoneHolds(r) /\ PlaceHolds(r)
  BY <1>3 DEF KnownHolds, PassedHolds, UndoneHolds, PlaceHolds
<1>6. \A j \in Recorded : j <= r.at
  BY <1>1, <1>3 DEF IsLast, Recorded
<1> QED
  BY <1>3, <1>4, <1>5, <1>6, BeginsInv

LEMMA DownReadInv == ASSUME IInv, NEW p \in Process, DownRead(p) PROVE IInv'
<1> DEFINE r == [run[p] EXCEPT !.op = "revert"]
<1>1. run[p] \in Invocation /\ run[p].op = "down"
  BY DEF IInv, TypeOK, DownRead
<1>2. UndoneHolds(run[p]) /\ PlaceHolds(run[p])
  BY DEF IInv, Knows
<1>3. r \in Invocation /\ r.op = "revert" /\ r.at = run[p].at /\ r.undone = run[p].undone /\ r.alone = run[p].alone
  BY <1>1 DEF Invocation, Op
<1>4. Becomes(p, r) \/ Becomes(p, Idle)
  BY DEF DownRead
<1> HIDE DEF r
<1>5. KnownHolds(r) /\ PassedHolds(r) /\ UndoneHolds(r) /\ PlaceHolds(r)
  BY <1>1, <1>2, <1>3 DEF KnownHolds, PassedHolds, UndoneHolds, PlaceHolds
<1> QED
  BY <1>1, <1>3, <1>4, <1>5, BecomesInv, EndsInv DEF Busy

(* A down takes the last away, or leaves a hole that a race explains.        *)
LEMMA DownRevertInv == ASSUME IInv, NEW p \in Process, DownRevert(p) PROVE IInv'
<1> DEFINE i == run[p].at
<1>1. run[p] \in Invocation /\ run[p].op = "revert"
  BY DEF IInv, TypeOK, DownRevert
<1>2. i \in Id /\ AloneHolds(p)
  BY <1>1 DEF IInv, Knows, PlaceHolds
<1>3. schema' = [schema EXCEPT ![i] = 0] /\ recorded' = [recorded EXCEPT ![i] = 0]
  BY DEF DownRevert, Without
<1>4. /\ raced' = IF run[p].alone THEN raced ELSE raced \union {i}
      /\ slipped' = slipped \ {i} /\ UNCHANGED <<repo, missed, changes>>
  BY DEF DownRevert
<1>5. run' = [q \in Process |-> IF q = p THEN Idle
                                ELSE IF Busy(q) THEN [run[q] EXCEPT !.undone = @ \union {i}]
                                ELSE run[q]]
  BY DEF DownRevert
<1>6. repo \in [Id -> Version] /\ schema \in [Id -> Version] /\ recorded \in [Id -> Version]
      /\ run \in [Process -> Invocation] /\ raced \subseteq Id /\ missed \subseteq Id
      /\ slipped \subseteq Id /\ changes \in 0..MaxChanges
  BY DEF IInv, TypeOK
<1>7. /\ \A x \in Id : recorded'[x] = IF x = i THEN 0 ELSE recorded[x]
      /\ \A x \in Id : schema'[x] = IF x = i THEN 0 ELSE schema[x]
  BY <1>3, <1>6
<1>8. Recorded' = Recorded \ {i}
  BY <1>2, <1>7 DEF Recorded
<1> HIDE DEF i
<1>9. TypeOK'
  <2>1. 0 \in Version
    BY MigrationsAssumption DEF Version
  <2>2. schema' \in [Id -> Version] /\ recorded' \in [Id -> Version]
    BY <1>3, <1>6, <2>1
  <2>3. \A q \in Process : [run[q] EXCEPT !.undone = @ \union {i}] \in Invocation
    BY <1>2, <1>6 DEF Invocation
  <2>4. run' \in [Process -> Invocation]
    BY <1>5, <1>6, <2>3, IdleType
  <2> QED
    BY <1>2, <1>4, <1>6, <2>2, <2>4 DEF TypeOK
<1>10. TableHolds'
  <2>1. TableHolds
    BY DEF IInv
  <2>2. \A x \in Id : recorded'[x] # 0 <=> schema'[x] # 0
    BY <1>7, <2>1 DEF TableHolds
  <2>3. \A x \in Id : recorded'[x] # 0 => schema'[x] = recorded'[x] \/ x \in slipped'
    BY <1>4, <1>7, <2>1 DEF TableHolds
  <2>4. ASSUME NEW j \in Recorded', NEW x \in Id, x < j PROVE Explained(x)'
    <3>1. j \in Recorded /\ Explained(x)
      BY <1>8, <2>1, <2>4 DEF TableHolds
    <3>2. CASE x # i
      BY <1>4, <1>8, <3>1, <3>2 DEF Explained
    <3>3. CASE x = i
      <4>1. ~(j <= i)
        BY <2>4, <3>1, <3>3, MigrationsAssumption DEF Recorded, Id
      <4>2. ~run[p].alone
        BY <1>1, <1>2, <3>1, <4>1 DEF AloneHolds, i
      <4> QED
        BY <1>4, <3>3, <4>2 DEF Explained
    <3> QED
      BY <3>2, <3>3
  <2>5. \A x \in Id : repo'[x] = 0 => x \in missed'
    BY <1>4, <2>1 DEF TableHolds
  <2> QED
    BY <2>2, <2>3, <2>4, <2>5 DEF TableHolds
<1>11. Knows(p)'
  <2>1. run'[p] = Idle
    BY <1>5
  <2>2. Idle.op = "idle"
    BY DEF Idle
  <2> HIDE DEF Idle
  <2> QED
    BY <2>1, <2>2 DEF Knows, KnownHolds, PassedHolds, UndoneHolds, PlaceHolds, AloneHolds
<1>12. ASSUME NEW q \in Process, q # p PROVE Knows(q)'
  <2>0. /\ KnownHolds(run[q]) /\ PassedHolds(run[q]) /\ UndoneHolds(run[q]) /\ PlaceHolds(run[q])
        /\ AloneHolds(q)
    BY DEF IInv, Knows
  <2>1. CASE ~Busy(q)
    <3>1. run'[q].op = "idle"
      BY <1>5, <1>12, <2>1 DEF Busy
    <3> QED
      BY <3>1 DEF Knows, KnownHolds, PassedHolds, UndoneHolds, PlaceHolds, AloneHolds
  <2>2. CASE Busy(q)
    <3>1. run'[q] = [run[q] EXCEPT !.undone = @ \union {i}]
      BY <1>5, <1>12, <2>2
    <3>2. /\ run'[q].op = run[q].op /\ run'[q].known = run[q].known /\ run'[q].files = run[q].files
          /\ run'[q].at = run[q].at /\ run'[q].contents = run[q].contents
          /\ run'[q].alone = run[q].alone /\ run'[q].undone = run[q].undone \union {i}
      BY <1>6, <3>1 DEF Invocation
    <3>3. ~run[p].alone
      BY <1>1, <1>2, <1>12, <2>2 DEF AloneHolds, Busy
    <3>4. KnownHolds(run[q])'
      BY <1>7, <2>0, <3>2 DEF KnownHolds
    <3>5. PassedHolds(run[q])'
      BY <1>4, <1>7, <2>0, <3>2 DEF PassedHolds
    <3>6. UndoneHolds(run[q])'
      BY <1>4, <1>8, <2>0, <3>2, <3>3 DEF UndoneHolds
    <3>7. PlaceHolds(run[q])'
      BY <2>0, <3>2 DEF PlaceHolds
    <3>8. AloneHolds(q)'
      BY <1>1, <1>12, <2>0, <3>2 DEF AloneHolds
    <3> QED
      BY <3>4, <3>5, <3>6, <3>7, <3>8 DEF Knows
  <2> QED
    BY <2>1, <2>2
<1> QED
  BY <1>9, <1>10, <1>11, <1>12 DEF IInv

LEMMA ChangeInv == ASSUME IInv, NEW i \in Id, NEW v \in Version, Change(i, v) PROVE IInv'
<1>1. /\ repo' = [repo EXCEPT ![i] = v] /\ changes' = changes + 1 /\ changes < MaxChanges
      /\ missed' = IF v = 0 THEN missed \union {i} ELSE missed
      /\ UNCHANGED <<schema, recorded, run, raced, slipped>>
  BY DEF Change
<1>2. TypeOK'
  <2>1. TypeOK
    BY DEF IInv
  <2>2. changes' \in 0..MaxChanges
    BY <1>1, <2>1, MigrationsAssumption DEF TypeOK
  <2> QED
    BY <1>1, <2>1, <2>2 DEF TypeOK
<1>3. TableHolds'
  <2>1. TableHolds /\ repo \in [Id -> Version]
    BY DEF IInv, TypeOK
  <2>2. \A x \in Id : repo'[x] = 0 => x \in missed'
    BY <1>1, <2>1 DEF TableHolds
  <2> QED
    BY <1>1, <2>1, <2>2 DEF TableHolds, Recorded, Explained
<1>4. ASSUME NEW q \in Process PROVE Knows(q)'
  <2>0. Knows(q)
    BY DEF IInv
  <2> QED
    BY <1>1, <2>0 DEF Knows, KnownHolds, PassedHolds, UndoneHolds, PlaceHolds, AloneHolds, Recorded
<1> QED
  BY <1>2, <1>3, <1>4 DEF IInv

LEMMA InvNext == IInv /\ [Next]_vars => IInv'
<1> SUFFICES ASSUME IInv, [Next]_vars PROVE IInv'
  OBVIOUS
<1>1. ASSUME NEW p \in Process, Step(p) PROVE IInv'
  <2>1. CASE UpRefuse(p) \/ UpFail(p) \/ UpReturn(p) \/ DownFail(p) \/ Crash(p)
    BY <2>1, EndsInv DEF UpRefuse, UpFail, UpReturn, DownFail, Crash, Busy
  <2> QED
    BY <1>1, <2>1, UpBeginInv, UpDiscoverInv, UpReadInv, UpApplyInv, DownBeginInv, DownReadInv,
       DownRevertInv DEF Step
<1>2. CASE UNCHANGED vars
  BY <1>2 DEF vars, IInv, TypeOK, TableHolds, Explained, Recorded, Knows, KnownHolds, PassedHolds,
     UndoneHolds, PlaceHolds, AloneHolds
<1> QED
  BY <1>1, <1>2, ChangeInv DEF Next

LEMMA InvAlways == Spec => []IInv
  BY InvInit, InvNext, PTL DEF Spec

-----------------------------------------------------------------------------
\* Every table, file and process keeps its type, whatever runs and dies.
THEOREM TypeCorrect == Spec => []TypeOK
<1>1. IInv => TypeOK
  BY DEF IInv
<1> QED
  BY <1>1, InvAlways, PTL

\* The table names what is in force in the database, from the contents whose
\* hash it keeps, however many runs of up and down there are and wherever they
\* die.
THEOREM RecordIsSchemaHolds == Spec => []RecordIsSchema
<1>1. IInv => RecordIsSchema
  BY DEF IInv, TableHolds, RecordIsSchema, Recorded, InForce
<1> QED
  BY <1>1, InvAlways, PTL

\* A migration is missing below one that is applied, or a run of up has passed
\* one that is not recorded as it found it, for no reason but a file that had
\* been absent or a down that another run overlapped.
THEOREM HistoryWholeHolds == Spec => []HistoryWhole
<1>1. ASSUME IInv PROVE HistoryWhole
  <2>1. \A j \in Recorded : \A i \in 1..(j - 1) : i \in Recorded \/ i \in raced \/ i \in missed
    <3> SUFFICES ASSUME NEW j \in Recorded, NEW i \in 1..(j - 1) PROVE Explained(i)
      BY DEF Explained
    <3>1. i \in Id /\ i < j
      BY MigrationsAssumption DEF Recorded, Id
    <3> QED
      BY <1>1, <3>1 DEF IInv, TableHolds
  <2>2. ASSUME NEW p \in Process, run[p].op = "loop", NEW i \in 1..(run[p].at - 1)
        PROVE  run[p].files[i] = 0 \/ recorded[i] = run[p].files[i] \/ i \in run[p].undone
    <3>1. run[p].at \in 0..(N + 1) /\ PassedHolds(run[p])
      BY <1>1 DEF IInv, TypeOK, Invocation, Knows
    <3>2. i \in Id /\ i < run[p].at
      BY <3>1, MigrationsAssumption DEF Id
    <3> QED
      BY <2>2, <3>1, <3>2 DEF PassedHolds
  <2> QED
    BY <2>1, <2>2 DEF HistoryWhole
<1> QED
  BY <1>1, InvAlways, PTL

\* The runner implements SchemaHistory: what the table names grows by one
\* migration whose needs are met, shrinks by one that nothing needs, or stays.
THEOREM ImplementsHistoryHolds == Spec => ImplementsHistory
<1>1. Init => History!Init
  BY DEF Init, History!Init, Recorded, Empty
<1>2. ASSUME IInv, [Next]_vars PROVE [History!Next]_Recorded
  <2>0. \A i \in Id : recorded[i] # 0 <=> schema[i] # 0
    BY <1>2 DEF IInv, TableHolds
  <2>f. recorded \in [Id -> Version]
    BY <1>2 DEF IInv, TypeOK
  <2>1. ASSUME NEW p \in Process, UpApply(p) PROVE \E i \in Id : History!Apply(i)
    <3> DEFINE i == run[p].at
    <3>1. i \in Id /\ run[p].files[i] # 0
      BY <1>2, <2>1 DEF IInv, Knows, PlaceHolds, UpApply
    <3>2. i \notin Recorded /\ \A j \in Id : <<i, j>> \in Needs => j \in Recorded
      BY <2>0, <2>1 DEF UpApply, Fails, Recorded, InForce
    <3>3. recorded' = [recorded EXCEPT ![i] = run[p].files[i]]
      BY <2>1 DEF UpApply
    <3>4. Recorded' = Recorded \union {i}
      BY <2>f, <3>1, <3>3 DEF Recorded
    <3> QED
      BY <3>1, <3>2, <3>4 DEF History!Apply
  <2>2. ASSUME NEW p \in Process, DownRevert(p) PROVE UNCHANGED Recorded \/ \E i \in Id : History!Revert(i)
    <3> DEFINE i == run[p].at
    <3>1. i \in Id
      BY <1>2, <2>2 DEF IInv, Knows, PlaceHolds, DownRevert
    <3>2. \A j \in Recorded : <<j, i>> \notin Needs
      BY <2>0, <2>2 DEF DownRevert, NeededBy, Recorded, InForce
    <3>3. recorded' = [recorded EXCEPT ![i] = 0]
      BY <2>2 DEF DownRevert, Without
    <3>4. Recorded' = Recorded \ {i}
      BY <2>f, <3>1, <3>3 DEF Recorded
    <3> QED
      BY <3>1, <3>2, <3>4 DEF History!Revert
  <2>3. CASE UNCHANGED recorded
    BY <2>3 DEF Recorded
  <2>4. ASSUME NEW p \in Process, Step(p) PROVE UpApply(p) \/ DownRevert(p) \/ UNCHANGED recorded
    BY <2>4 DEF Step, UpBegin, UpDiscover, UpRefuse, UpRead, UpFail, UpReturn, DownBegin, DownRead,
       DownFail, Crash, Begins, Becomes
  <2>5. (\E i \in Id : History!Apply(i) \/ History!Revert(i)) => History!Next
    BY DEF History!Next
  <2> QED
    BY <1>2, <2>1, <2>2, <2>3, <2>4, <2>5 DEF Next, Change, vars
<1> QED
  BY <1>1, <1>2, InvAlways, PTL DEF Spec, ImplementsHistory, History!Spec
=============================================================================
