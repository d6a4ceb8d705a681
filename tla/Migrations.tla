----------------------------- MODULE Migrations -----------------------------
(* The migration runner (database/migrate.ts): processes that run `up` or    *)
(* `down` against one database while the directory they read changes.  Each  *)
(* migration is applied or reverted, and recorded, in one transaction; what  *)
(* a run decides from was read before it, and a run may die at any point.    *)
EXTENDS Integers

CONSTANTS N,           \* migrations 1..N, in the order of their names
          Needs,       \* <<i, j>>: the statements of i refer to what j creates
          Paired,      \* those that have a .down.sql
          Process,     \* invocations of the runner
          MaxVersion,  \* bound: versions of the contents of one file
          MaxChanges   \* bound: how often the directory changes

Id == 1..N
Version == 0..MaxVersion       \* 0: there is no such file, row or table
Empty == [i \in Id |-> 0]

ASSUME MigrationsAssumption ==
    /\ N \in Nat \ {0} /\ MaxVersion \in Nat \ {0} /\ MaxChanges \in Nat
    /\ Paired \subseteq Id
    /\ Needs \subseteq {p \in Id \X Id : p[2] < p[1]}

VARIABLES repo,       \* the version of each file in the directory
          schema,     \* the version whose statements are in force in the database
          recorded,   \* the table onestack_migrations: id |-> hash
          run,        \* what each process is doing
          raced,      \* history: reverted by a run that was not alone, and not applied since
          missed,     \* history: files that have been absent from the directory
          changes,    \* how often the directory has changed
          slipped     \* history: applied from a file edited since its hash was taken
vars == <<repo, schema, recorded, run, raced, missed, changes, slipped>>

Idle == [op |-> "idle", known |-> Empty, files |-> Empty, at |-> 0, contents |-> 0, undone |-> {}, alone |-> TRUE]
Op == {"idle", "up", "loop", "apply", "down", "revert"}
Invocation == [op : Op, known : [Id -> Version], files : [Id -> Version], at : 0..(N + 1),
               contents : Version, undone : SUBSET Id, alone : BOOLEAN]

(* Everything is in its domain. *)
TypeOK ==
    /\ repo \in [Id -> Version] /\ schema \in [Id -> Version] /\ recorded \in [Id -> Version]
    /\ run \in [Process -> Invocation]
    /\ raced \subseteq Id /\ missed \subseteq Id /\ slipped \subseteq Id
    /\ changes \in 0..MaxChanges

Init ==
    /\ repo = [i \in Id |-> 1]
    /\ schema = Empty /\ recorded = Empty
    /\ run = [p \in Process |-> Idle]
    /\ raced = {} /\ missed = {} /\ slipped = {} /\ changes = 0

Recorded == {i \in Id : recorded[i] # 0}
InForce == {i \in Id : schema[i] # 0}
Busy(p) == run[p].op # "idle"

-----------------------------------------------------------------------------
(* A commit, a checkout or a deployment changes one file of the directory.   *)
Change(i, v) ==
    /\ repo[i] # v /\ changes < MaxChanges
    /\ changes' = changes + 1
    /\ repo' = [repo EXCEPT ![i] = v]
    /\ missed' = IF v = 0 THEN missed \union {i} ELSE missed
    /\ UNCHANGED <<schema, recorded, run, raced, slipped>>

Begins(p, first) ==
    /\ run' = [q \in Process |->
                IF q = p THEN [first EXCEPT !.alone = \A o \in Process : ~Busy(o)]
                ELSE IF Busy(q) THEN [run[q] EXCEPT !.alone = FALSE] ELSE run[q]]
    /\ UNCHANGED <<repo, schema, recorded, raced, missed, changes, slipped>>

Becomes(p, next) ==
    /\ run' = [run EXCEPT ![p] = next]
    /\ UNCHANGED <<repo, schema, recorded, raced, missed, changes, slipped>>

(* up: ensureTable and applied                                               *)
UpBegin(p) ==
    /\ run[p].op = "idle"
    /\ Begins(p, [Idle EXCEPT !.op = "up", !.known = recorded])

(* up, for one migration: passed over when there was no file or it is known  *)
(* with the hash it has; the loop awaits nothing until it gets to another    *)
Passed(r, i) == r.files[i] = 0 \/ (r.known[i] # 0 /\ r.known[i] = r.files[i])
Edited(r, i) == r.files[i] # 0 /\ r.known[i] \notin {0, r.files[i]}
Pending(r, i) == r.files[i] # 0 /\ r.known[i] = 0
Reaches(r, i, k) ==
    /\ i <= k /\ \A j \in Id : i <= j /\ j < k => Passed(r, j)
    /\ k \in Id => ~Passed(r, k)
At(r, k) == [r EXCEPT !.op = "loop", !.contents = 0, !.at = k]

(* up: discover                                                              *)
UpDiscover(p) ==
    LET read == [run[p] EXCEPT !.files = repo] IN
    /\ run[p].op = "up"
    /\ \E k \in 1..(N + 1) : Reaches(read, 1, k) /\ Becomes(p, At(read, k))

(* up throws: modified after it was applied, no down migration, no file      *)
UpRefuse(p) ==
    LET i == run[p].at IN
    /\ run[p].op = "loop" /\ i \in Id
    /\ \/ Edited(run[p], i)
       \/ Pending(run[p], i) /\ (i \notin Paired \/ repo[i] = 0)
    /\ Becomes(p, Idle)

(* up: readFile of what discover had hashed                                  *)
UpRead(p) ==
    LET i == run[p].at IN
    /\ run[p].op = "loop" /\ i \in Id
    /\ Pending(run[p], i) /\ i \in Paired /\ repo[i] # 0
    /\ Becomes(p, [run[p] EXCEPT !.op = "apply", !.contents = repo[i]])

(* The statements of i fail on what exists already or does not exist, the    *)
(* insertion on the primary key; then nothing of the transaction stays.      *)
Fails(i) ==
    \/ i \in InForce \/ i \in Recorded
    \/ \E j \in Id : <<i, j>> \in Needs /\ j \notin InForce

UpApply(p) ==
    LET i == run[p].at IN
    /\ run[p].op = "apply"
    /\ ~Fails(i)
    /\ schema' = [schema EXCEPT ![i] = run[p].contents]
    /\ recorded' = [recorded EXCEPT ![i] = run[p].files[i]]
    /\ \E k \in 1..(N + 1) : Reaches(run[p], i + 1, k) /\ run' = [run EXCEPT ![p] = At(run[p], k)]
    /\ raced' = raced \ {i}
    /\ slipped' = IF run[p].contents = run[p].files[i] THEN slipped \ {i} ELSE slipped \union {i}
    /\ UNCHANGED <<repo, missed, changes>>

UpFail(p) == run[p].op = "apply" /\ Fails(run[p].at) /\ Becomes(p, Idle)

UpReturn(p) == run[p].op = "loop" /\ run[p].at = N + 1 /\ Becomes(p, Idle)

-----------------------------------------------------------------------------
(* down: the greatest id of the table, or null                               *)
\* Mutation of IsLast: the smallest.
IsLastOldest(table, i) == table[i] # 0 /\ \A j \in Id : table[j] # 0 => i <= j
IsLast(table, i) == table[i] # 0 /\ \A j \in Id : table[j] # 0 => j <= i

DownBegin(p) ==
    /\ run[p].op = "idle"
    /\ \E i \in Id : IsLast(recorded, i) /\ Begins(p, [Idle EXCEPT !.op = "down", !.at = i])

(* down: discover and readFile; throws when either file is not there         *)
DownRead(p) ==
    LET found == repo[run[p].at] # 0 /\ run[p].at \in Paired IN
    /\ run[p].op = "down"
    /\ Becomes(p, IF found THEN [run[p] EXCEPT !.op = "revert"] ELSE Idle)

(* The tables go, without CASCADE, and the row with them.                    *)
\* Mutation of NeededBy: what needs the tables goes with them.
NeededByCascade(i) == {}
NeededBy(i) == {j \in InForce : <<j, i>> \in Needs}

\* Mutation of Without: the row stays.
WithoutKept(table, i) == table
Without(table, i) == [table EXCEPT ![i] = 0]

DownRevert(p) ==
    LET i == run[p].at IN
    /\ run[p].op = "revert"
    /\ NeededBy(i) = {}
    /\ schema' = [schema EXCEPT ![i] = 0]
    /\ recorded' = Without(recorded, i)
    /\ run' = [q \in Process |-> IF q = p THEN Idle
                                 ELSE IF Busy(q) THEN [run[q] EXCEPT !.undone = @ \union {i}]
                                 ELSE run[q]]
    /\ raced' = IF run[p].alone THEN raced ELSE raced \union {i}
    /\ slipped' = slipped \ {i}
    /\ UNCHANGED <<repo, missed, changes>>

DownFail(p) == run[p].op = "revert" /\ NeededBy(run[p].at) # {} /\ Becomes(p, Idle)

(* A process dies between two statements; a transaction dies as a whole.     *)
Crash(p) == Busy(p) /\ Becomes(p, Idle)

Step(p) ==
    \/ UpBegin(p) \/ UpDiscover(p) \/ UpRefuse(p) \/ UpRead(p)
    \/ UpApply(p) \/ UpFail(p) \/ UpReturn(p)
    \/ DownBegin(p) \/ DownRead(p) \/ DownRevert(p) \/ DownFail(p)
    \/ Crash(p)

Next ==
    \/ \E p \in Process : Step(p)
    \/ \E i \in Id, v \in Version : Change(i, v)

Spec == Init /\ [][Next]_vars

-----------------------------------------------------------------------------
(* The table tells the truth about the database after any crash and any      *)
(* interleaving: what it names is what is in force, from the contents whose  *)
(* hash it keeps, except where the file was edited between the hash that     *)
(* discover took and the second reading that up applied.                     *)
RecordIsSchema ==
    /\ Recorded = InForce
    /\ \A i \in Recorded : schema[i] = recorded[i] \/ i \in slipped

(* The record has no hole that nobody can explain.  A migration is missing   *)
(* below one that is applied only if its file had been absent, or a down     *)
(* reverted it while another run was under way (up applies in order and down *)
(* takes the last); and a run of up leaves every migration it found and has  *)
(* passed recorded with the hash it found, also those that other runs        *)
(* applied, except for what was reverted since it began.                     *)
HistoryWhole ==
    /\ \A j \in Recorded : \A i \in 1..(j - 1) : i \in Recorded \/ i \in raced \/ i \in missed
    /\ \A p \in Process : run[p].op = "loop" => \A i \in 1..(run[p].at - 1) :
          run[p].files[i] = 0 \/ recorded[i] = run[p].files[i] \/ i \in run[p].undone

(* The runner implements SchemaHistory, with what the table names as what is *)
(* applied: in particular nothing is recorded on top of what is not there.   *)
History == INSTANCE SchemaHistory WITH applied <- Recorded
ImplementsHistory == History!Spec

=============================================================================
