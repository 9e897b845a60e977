--------------------------- MODULE MCSigningKeys ---------------------------
(***************************************************************************)
(* Small instances of SigningKeys.  CLI processes and key pairs are        *)
(* interchangeable.                                                        *)
(***************************************************************************)
EXTENDS SigningKeys, TLC

MCSymmetry == Permutations(Cli) \cup Permutations(Key)
=============================================================================
