----------------------------- MODULE MCFindPwd -----------------------------
(* The instances of FindPwd that TLC checks: two requests for any of two   *)
(* accounts (MCFindPwd.cfg), and for one account (MCFindPwd_twice.cfg).    *)
EXTENDS FindPwd, TLC

Symmetry == Permutations(Users) \cup Permutations(Accounts)
=============================================================================
