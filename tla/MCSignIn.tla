-------------------------------- MODULE MCSignIn --------------------------------
(***************************************************************************)
(* Small instances of SignIn; attempts are interchangeable.                *)
(***************************************************************************)
EXTENDS SignIn, TLC

AttemptSymmetry == Permutations(Attempts)
=============================================================================
