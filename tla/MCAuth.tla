------------------------------- MODULE MCAuth -------------------------------
(* Instances of Auth for TLC. *)
EXTENDS Auth, TLC

(* Slots, accounts, addresses and passwords are interchangeable. *)
Symmetry == Permutations(Slots) \cup Permutations(Names)
            \cup Permutations(Emails) \cup Permutations(Passwords)

=============================================================================
