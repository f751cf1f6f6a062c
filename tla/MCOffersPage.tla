---------------------------- MODULE MCOffersPage ----------------------------
(* Instances of OffersPage for TLC. *)
EXTENDS OffersPage

Current == [Blank EXCEPT !["name"] = "text", !["provider"] = "text", !["peak"] = 3,
                         !["current"] = TRUE, !["public"] = TRUE]
Sunny == [Current EXCEPT !["flat"] = TRUE, !["surplus"] = 10,
                         !["permanence"] = TRUE, !["months"] = 12]

(* A year of the current offer costs 3, of what is imported -1, of what is *)
(* created in a blank form 0.                                              *)
MCShared == {Sunny}
MCTyped == {-1}
MCInitial == {<<Current, None, None>>}

=============================================================================
