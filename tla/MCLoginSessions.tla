-------------------------- MODULE MCLoginSessions ---------------------------
(***************************************************************************)
(* Small instances of LoginSessions.  Passwords, session ids and handlers  *)
(* are interchangeable.                                                    *)
(***************************************************************************)
EXTENDS LoginSessions, TLC

MCSymmetry ==
    Permutations(Password) \cup Permutations(Session) \cup Permutations(Request)
=============================================================================
