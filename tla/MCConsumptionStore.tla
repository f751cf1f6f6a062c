------------------------- MODULE MCConsumptionStore -------------------------
(* Instances of ConsumptionStore for TLC. *)
EXTENDS ConsumptionStore, TLC

CONSTANTS s1, s2, u1

(* One user in two tabs. *)
SameUser == s1 :> u1 @@ s2 :> u1

=============================================================================
