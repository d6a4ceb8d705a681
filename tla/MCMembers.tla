----------------------------- MODULE MCMembers ------------------------------
(* Small instances of Members with two requests at a time: the founder and a *)
(* second user, with two invitations to one address, of which the second     *)
(* makes a member; and with one invitation that makes an owner.              *)
EXTENDS Members, TLC

CONSTANTS r1, r2, u1, u2, i1, i2, e1

MCRequest == {r1, r2}
MCSymmetry == Permutations(MCRequest)
MCUser == {u1, u2}
MCInvitation == {i1, i2}
OneInvitation == {i1}
MCEmailOf == [i \in MCInvitation |-> e1]
MCOffer == [i \in MCInvitation |-> IF i = i1 THEN {"member", "owner"} ELSE {"member"}]
OneOffer == [i \in OneInvitation |-> {"owner"}]
=============================================================================
