----------------------------- MODULE MCAccounts -----------------------------
(***************************************************************************)
(* Instances of Accounts for TLC.                                          *)
(***************************************************************************)
EXTENDS Accounts, TLC

\* Sets of operations under which a documented promise fails; revoke_others keeps the last
\* instance going when its only token is used up.
ResetDuringRefresh == {"login", "refresh", "forgot", "reset"}
ForgotTwice == {"forgot"}
LoginsAndLocks == {"login", "expire_lock", "revoke_others"}

Symmetry ==
    Permutations(Requests) \cup Permutations(Tokens) \cup Permutations(Families) \cup Permutations(Links)
=============================================================================
