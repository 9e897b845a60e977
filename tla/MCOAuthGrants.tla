--------------------------- MODULE MCOAuthGrants ---------------------------
(***************************************************************************)
(* Small instances of OAuthGrants.  Authorizations, refresh tokens and     *)
(* handlers are interchangeable.                                           *)
(***************************************************************************)
EXTENDS OAuthGrants, TLC

MCSymmetry == Permutations(Request) \cup Permutations(Refresh) \cup Permutations(Auth)
=============================================================================
