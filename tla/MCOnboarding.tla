---------------------------- MODULE MCOnboarding ----------------------------
(***************************************************************************)
(* Small instances of Onboarding.  No symmetry: the runs check liveness.   *)
(***************************************************************************)
EXTENDS Onboarding
=============================================================================
