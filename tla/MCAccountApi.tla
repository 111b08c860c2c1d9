------------------------------ MODULE MCAccountApi ------------------------------
(***************************************************************************)
(* Small instances of AccountApi: two requests, the addresses "ann" and    *)
(* "ANN", which share a user name, and "bob".                              *)
(***************************************************************************)
EXTENDS AccountApi

CONSTANTS r1, r2, ann, ANN, bob, annName, bobName

MCRequests == {r1, r2}
MCEmails == {ann, ANN, bob}
MCNames == {annName, bobName}
MCNormalizedName == [e \in MCEmails |-> IF e = bob THEN bobName ELSE annName]
MCAllFlaws == AllFlaws
=============================================================================
