------------------------------ MODULE MCRegister ------------------------------
(***************************************************************************)
(* Small instances of Register: requests r1..r3 for the addresses "ann"    *)
(* and "ANN", which share a user name, and "bob".                          *)
(***************************************************************************)
EXTENDS Register, TLC

CONSTANTS r1, r2, r3, ann, ANN, bob, annName, bobName

MCTwoRequests == {r1, r2}
MCRequests == {r1, r2, r3}
MCEmails == {ann, ANN, bob}
MCNames == {annName, bobName}
MCNormalizedName == [e \in MCEmails |-> IF e = bob THEN bobName ELSE annName]
MCAllFlaws == AllFlaws
MCNoFlaws == {"none"}

MCSymmetry == Permutations(UserIds)
=============================================================================
