----------------------------- MODULE MCDashboard -----------------------------
(* Instances of Dashboard for TLC.  Users are interchangeable: no property *)
(* checked with this symmetry is a liveness property.                      *)
EXTENDS Dashboard, TLC

UserSymmetry == Permutations(Users)

=============================================================================
