----------------------------- MODULE MCSessions -----------------------------
(* Two users, two requests at a time, two tokens, and the names Acme and     *)
(* Acme 2.                                                                   *)
EXTENDS Sessions, TLC

CONSTANTS u1, u2, t1, t2, r1, r2
MCUser == {u1, u2}
MCToken == {t1, t2}
MCRequest == {r1, r2}
MCName == {<<>>, <<2>>}
MCSymmetry == Permutations(MCUser) \union Permutations(MCToken) \union Permutations(MCRequest)
=============================================================================
