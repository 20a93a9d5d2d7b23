--------------------------- MODULE MC_UserSessions ---------------------------
(***************************************************************************)
(* Logins differ only in their names, and so do passwords: the initial     *)
(* states and the invariants treat all of them alike.                      *)
(***************************************************************************)
EXTENDS UserSessions, TLC

Symmetry == Permutations(Logins) \cup Permutations(Passwords)
=============================================================================
