---------------------------- MODULE MCMigrations ----------------------------
(* Two processes on four migrations of which the third needs the first and   *)
(* the last has no down migration, while the directory changes twice.        *)
EXTENDS Migrations, TLC

CONSTANTS p1, p2
MCProcess == {p1, p2}
MCSymmetry == Permutations(MCProcess)
MCNeeds == {<<3, 1>>}
MCPaired == 1..3
=============================================================================
