------------------------------ MODULE MCMonths ------------------------------
(* Instances of Months for TLC. *)
EXTENDS Months

Comma(n) == [is |-> n, comma |-> TRUE, grouped |-> FALSE]
Whole(n) == [is |-> n, comma |-> FALSE, grouped |-> n >= 1000000]
Lines == [peak |-> Comma(12500), mid |-> Comma(8000), valley |-> Comma(0)]
Contract == [powerPeak |-> Comma(5750), powerValley |-> Comma(3202)]

New == [pdf |-> TRUE, readable |-> TRUE, period |-> 3, powersA |-> Contract, powersB |-> None,
        rows |-> Lines, poured |-> Whole(1234000), compensated |-> Comma(1000),
        iva |-> Whole(10000)]
Old == [New EXCEPT !.period = 2, !.powersA = None, !.powersB = Contract, !.iva = None,
                   !.poured = None, !.compensated = Whole(7000)]
Broken == [New EXCEPT !.rows = [Lines EXCEPT !["valley"] = Whole(7000)]]
Photo == [New EXCEPT !.pdf = FALSE]

MCFiles == {New, Old, Broken, Photo}
MCTyped == {None, -1, 21000}
MCSaved == {<<>>, [m \in 1..2 |-> [Blank EXCEPT !["peak"] = 100, !["iva"] = 50]]}

=============================================================================
