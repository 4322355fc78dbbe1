------------------------------ MODULE MCAccounts ------------------------------
(***************************************************************************)
(* Instances of Accounts for TLC.                                          *)
(***************************************************************************)
EXTENDS Accounts, TLC

\* Users, names, passwords, tokens and requests are interchangeable.
Symmetry ==
  Permutations(Users) \cup Permutations(Names) \cup Permutations(Passwords)
    \cup Permutations(Tokens) \cup Permutations(Requests)

=============================================================================
