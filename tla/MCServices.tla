---------------------------- MODULE MCServices ----------------------------
(* Services for TLC: two sessions, two accounts, two certificates, and room *)
(* for one certificate on an account.                                      *)
EXTENDS Services, TLC

Symmetry == Permutations(Sessions) \cup Permutations(Accounts)
            \cup Permutations(Passwords) \cup Permutations(Certs)

=============================================================================
