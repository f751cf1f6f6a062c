------------------------------ MODULE MCBilling ------------------------------
(* Instances of AnnualView, and so of Billing, for TLC. *)
EXTENDS AnnualView

(* Prices of some tenths of a cent, so that the roundings matter: flat,    *)
(* the same prices stored as tiered, tiered, cheap but for the power with   *)
(* and without prices left over from before it was flat.                   *)
Flat == [flat |-> TRUE, peak |-> 15, mid |-> 15, valley |-> 15,
         same |-> TRUE, powerPeak |-> 1, powerValley |-> 1, surplus |-> 7]
Stored == [Flat EXCEPT !.flat = FALSE, !.same = FALSE]
Tiered == [flat |-> FALSE, peak |-> 19, mid |-> 13, valley |-> 8,
           same |-> FALSE, powerPeak |-> 2, powerValley |-> 1, surplus |-> 0]
Cheap == [flat |-> TRUE, peak |-> 9, mid |-> 4, valley |-> 4,
          same |-> TRUE, powerPeak |-> 2, powerValley |-> 0, surplus |-> 11]
Zeroed == [Cheap EXCEPT !.mid = 0, !.valley = 0]
MCOffers == {Flat, Stored, Tiered, Cheap, Zeroed}
MCOfferLists == {<<>>} \cup {<<o>> : o \in MCOffers}
                \cup {<<o, q>> : o, q \in MCOffers}

(* Months with nothing used, one period used, all, more sold than used,    *)
(* reduced VAT; and some the validation refuses.                           *)
Idle == [month |-> 12, year |-> 2023, peak |-> 0, mid |-> 0, valley |-> 0,
         powerPeak |-> 3, powerValley |-> 3, surplus |-> 0, iva |-> 0]
Used == {[Idle EXCEPT !.peak = 5],
         [Idle EXCEPT !.peak = 5, !.mid = 5],
         [Idle EXCEPT !.peak = 3, !.mid = 4, !.valley = 6],
         [Idle EXCEPT !.peak = 3, !.mid = 7, !.valley = 6, !.powerPeak = 4],
         [Idle EXCEPT !.peak = 3, !.mid = 4, !.valley = 6, !.surplus = 140],
         [Idle EXCEPT !.valley = 7, !.iva = 10, !.month = 2, !.year = 2024]}
Wrong == {[Idle EXCEPT !.month = 13], [Idle EXCEPT !.mid = -1],
          [Idle EXCEPT !.powerPeak = 0], [Idle EXCEPT !.iva = 101]}
YearOf(y, n) == [i \in 1..n |-> [Idle EXCEPT !.month = 1 + ((i - 1) % 12), !.year = y,
                                             !.valley = i]]
(* A table never has a month twice: January instead of December, as long,  *)
(* and of the year after.                                                  *)
Later(m) == [m EXCEPT !.month = IF m.month = 12 THEN 1 ELSE @,
                      !.year = IF m.month = 12 THEN 2024 ELSE m.year + 1]
MCBodies == {<<>>} \cup {<<m>> : m \in Wrong}
            \cup {<<m, Later(n)>> : m \in Used \cup {Idle}, n \in Used \cup Wrong}
            \cup {YearOf(2023, 12), YearOf(0, 12), YearOf(2000, 12), YearOf(2023, 13)}

(* In 2023 all of a year is on the chart, later only the end of it.        *)
MCTodays == {[month |-> 12, year |-> 2023], [month |-> 1, year |-> 2024],
             [month |-> 3, year |-> 2025]}

MCPeriods == [kWh: {-1, 0, 7, 13}, power: {0, 3}, surplus: {0, 140}, days: {0, 30}]

=============================================================================
