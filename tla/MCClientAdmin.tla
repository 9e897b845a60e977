--------------------------- MODULE MCClientAdmin ----------------------------
(***************************************************************************)
(* Small instances of ClientAdmin.  No symmetry: the run checks liveness.  *)
(***************************************************************************)
EXTENDS ClientAdmin

\* Lists whose items name one grant type each, as the admin console sends them.
PlainItems == {{g} : g \in Grant}
=============================================================================
