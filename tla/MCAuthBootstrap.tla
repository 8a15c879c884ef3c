-------------------------- MODULE MCAuthBootstrap --------------------------
(***************************************************************************)
(* One account whose permissions change once; tokens are interchangeable.   *)
(***************************************************************************)
EXTENDS AuthBootstrap, TLC

MCSymmetry == Permutations(Tokens)
=============================================================================
