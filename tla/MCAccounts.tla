----------------------------- MODULE MCAccounts -----------------------------
(* A small instance of Accounts: the identities are interchangeable.        *)
EXTENDS Accounts, TLC

MCSymmetry ==
  Permutations(Users) \cup Permutations(Emails) \cup Permutations(Sessions)
    \cup Permutations(Requests)
=============================================================================
