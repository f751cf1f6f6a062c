----------------------------- MODULE AnnualView -----------------------------
(***************************************************************************)
(* What the browser shows of an answer of Billing: the lines of            *)
(* AnnualCostChart, the bars of MonthlyBreakdownChart, the receipts of     *)
(* MonthlyDetailDrawer.  They keep no state of their own that matters:     *)
(* each is a function of the answer, of which offers the list says are     *)
(* current, of the offers' names, of today and of what is hidden.          *)
(*                                                                         *)
(* An offer is named by its place in the answer, its offer_id.  Amounts    *)
(* are in cents; prices in ticks, as in Billing.                           *)
(*                                                                         *)
(* A Bug_X is X as a slip would leave it; nothing uses it, but the         *)
(* properties are checked to tell it from X.                               *)
(***************************************************************************)
EXTENDS Billing, SequencesExt, Sorting

CONSTANT Todays    \* months in which somebody looks, as [month, year]

ASSUME TodaysAssumption == Todays \subseteq [month: 1..12, year: Nat]

(* The page asks for the rows of its table, that has no month twice: it    *)
(* starts as twelve successive months (buildDefaultMonths), is replaced by *)
(* the history, one row per month and year (the table's UNIQUE), and an    *)
(* invoice replaces the row of its month.                                  *)
ASSUME TableAssumption ==
  \A b \in Bodies : Len(b) <= 12 => \A j, k \in DOMAIN b :
    b[j].month = b[k].month /\ b[j].year = b[k].year => j = k

-----------------------------------------------------------------------------
(* The drawer of one month *)

FindMonthBreakdown(r, m) ==
  SelectInSeq(r.months, LAMBDA b : b.input.month = m.month /\ b.input.year = m.year)

Found(data, m) == {i \in DOMAIN data : FindMonthBreakdown(data[i], m) # 0}
Breakdown(data, i, m) == data[i].months[FindMonthBreakdown(data[i], m)]
TotalOf(data, i, m) == Breakdown(data, i, m).bill.total

(* In the order of the energy term. *)
Bug_Entries(data, m) ==
  Sorted(Found(data, m),
    LAMBDA i, j : \/ Breakdown(data, i, m).bill.energy < Breakdown(data, j, m).bill.energy
                  \/ Breakdown(data, i, m).bill.energy = Breakdown(data, j, m).bill.energy
                     /\ i < j)

(* The offers that bill the month, cheapest first; a stable sort.          *)
Entries(data, m) ==
  Sorted(Found(data, m),
    LAMBDA i, j : \/ TotalOf(data, i, m) < TotalOf(data, j, m)
                  \/ TotalOf(data, i, m) = TotalOf(data, j, m) /\ i < j)

(* The total of the current offer, if the drawer has one: empty for null.  *)
CurrentTotal(data, m, current) ==
  LET place == SelectInSeq(Entries(data, m), LAMBDA i : i \in current)
  IN  {TotalOf(data, Entries(data, m)[p], m) : p \in {place} \ {0}}

(* "vs. actual", when there is one to compare with and it costs something. *)
Difference(data, i, m, current) ==
  {TotalOf(data, i, m) - t :
     t \in {u \in CurrentTotal(data, m, current) : u # 0 /\ i \notin current}}

-----------------------------------------------------------------------------
(* A receipt: lines of a quantity (kWh, or kW times days), a price and the *)
(* amount beside them.  It does not know of the flags of the offer: it     *)
(* guesses them from the prices.                                           *)
EnergyFlat(o) == o.mid = 0 /\ o.valley = 0
RowOf(quantity, price, value) == [quantity |-> quantity, price |-> price, value |-> value]

EnergyRows(o, b) ==
  IF EnergyFlat(o)
    THEN <<RowOf(b.input.peak + b.input.mid + b.input.valley, o.peak, b.bill.energy)>>
    ELSE <<RowOf(b.input.peak, o.peak, b.terms.peakTerm),
           RowOf(b.input.mid, o.mid, b.terms.midTerm),
           RowOf(b.input.valley, o.valley, b.terms.valleyTerm)>>

(* The valley's power at the price of the field, whatever it is. *)
Bug_PowerRows(o, b) ==
  LET Row(kW, price) == RowOf(kW * b.days, price, Round2(kW * b.days * price, Ticks))
  IN  <<Row(b.input.powerPeak, o.powerPeak), Row(b.input.powerValley, o.powerValley)>>

PowerRows(o, b) ==
  LET valley == IF o.powerValley = 0 THEN o.powerPeak ELSE o.powerValley
      Row(kW, price) == RowOf(kW * b.days, price, Round2(kW * b.days * price, Ticks))
  IN  <<Row(b.input.powerPeak, o.powerPeak), Row(b.input.powerValley, valley)>>

SurplusRows(o, b) == <<RowOf(b.input.surplus, o.surplus, b.bill.surplus)>>

(* With the total in the heading.  IVA and Total come after the sections.  *)
SectionOf(total, rows) == [total |-> total, rows |-> rows]
Sections(o, b) ==
  {SectionOf(b.bill.energy, EnergyRows(o, b)), SectionOf(b.bill.power, PowerRows(o, b))}
  \cup IF b.input.surplus > 0 THEN {SectionOf(b.bill.surplus, SurplusRows(o, b))} ELSE {}

-----------------------------------------------------------------------------
(* The charts *)

(* buildRollingMonths: the twelve calendar months up to today's.           *)
RollingMonths(today) ==
  [i \in 1..12 |->
    LET n == 12 * today.year + today.month - 1 - 12 + i
    IN  [month |-> 1 + (n % 12), year |-> n \div 12]]

(* A point filed by its month without the year. *)
Bug_PointsOf(r, m) ==
  {k \in DOMAIN r.months : r.months[k].input.month = m.month}

(* What byMonthYear has of a month: the last breakdown set under its key.  *)
PointsOf(r, m) ==
  {k \in DOMAIN r.months : r.months[k].input.month = m.month
                           /\ r.months[k].input.year = m.year}

(* The points of the line of offer i.  They are indexed by name: those of  *)
(* the last offer that has it.                                             *)
ChartLine(data, names, i, today) ==
  LET r == data[Max({j \in DOMAIN data : names[j] = names[i]})]
  IN  [k \in 1..12 |->
        LET points == PointsOf(r, RollingMonths(today)[k])
        IN  IF points = {} THEN {} ELSE {r.months[Max(points)].bill.total}]

(* The offer whose bars a click on the line of offer i shows.              *)
Clicked(data, names, i) ==
  Min({j \in DOMAIN data : names[j] = names[i]})

(* The lines of the chart but for those whose name the legend has hidden:  *)
(* the current offer's is dashed, and starred in the legend.               *)
Drawn(data, names, today, current, hidden) ==
  [i \in {j \in DOMAIN data : names[j] \notin hidden} |->
    [points |-> ChartLine(data, names, i, today), dashed |-> i \in current,
     starred |-> Clicked(data, names, i) \in current]]

(* The stacked bars of the selected offer, and the tooltip's total.        *)
Bars(r) ==
  [k \in DOMAIN r.months |->
    [Punta |-> r.months[k].terms.peakTerm, Llano |-> r.months[k].terms.midTerm,
     Valle |-> r.months[k].terms.valleyTerm, Potencia |-> r.months[k].bill.power]]
BarTotal(bar) == bar.Punta + bar.Llano + bar.Valle + bar.Potencia
BreakdownChart(r) == [bars |-> Bars(r), year |-> r.yearTotal]

-----------------------------------------------------------------------------
(* Properties *)

(* "When the offer is flat-priced, mid and valley prices are stored as 0", *)
(* "same price ... valley price is stored as 0" (MonthlyDetailDrawer.tsx), *)
(* or as high as the other, and no price is zero otherwise.                *)
AsCommented(o) ==
  /\ IF o.flat THEN o.mid = o.valley /\ o.mid \in {0, o.peak} ELSE ~EnergyFlat(o)
  /\ IF o.same THEN o.powerValley \in {0, o.powerPeak} ELSE o.powerValley # 0

(* The receipt of an offer that is stored so is the bill: every line is    *)
(* its quantity at its price, to within two cents, and the lines of a      *)
(* section add up to its heading, to within their roundings.               *)
ReceiptIsTheBill ==
  \A r \in Billed : \A b \in Months(r) : AsCommented(r.offer) =>
    \A s \in Sections(r.offer, b) :
      /\ \A k \in DOMAIN s.rows :
           Abs(s.rows[k].quantity * s.rows[k].price - s.rows[k].value * Ticks) <= 2 * Ticks
      /\ Abs(SumFunction([k \in DOMAIN s.rows |-> s.rows[k].value]) - s.total)
           <= Len(s.rows) - 1

Complete == pc = "bill" /\ Len(results) = Len(offers)
Alone(names, i) == \A j \in DOMAIN names : names[j] = names[i] => j = i

(* The screens say the same of one answer, whatever is current or hidden:  *)
(* the line of an offer whose name is its own is that of the offer a click *)
(* on it opens, passes through the totals of the drawer, is dashed if it   *)
(* is starred, is hidden by its own name only, and adds up to the year's   *)
(* total of the bars if the year is what the chart shows; the bars are the *)
(* energy and the power billed.                                            *)
ViewsAgree ==
  Complete => \A names \in [DOMAIN results -> DOMAIN results], today \in Todays,
                 current, hidden \in SUBSET DOMAIN results :
    \A i \in DOMAIN results :
      LET r == results[i]
          lines == Drawn(results, names, today, current, hidden)
          line == lines[i].points
          window == RollingMonths(today)
          shown == {window[k] : k \in 1..12}
          chart == BreakdownChart(r)
      IN  /\ \A k \in DOMAIN r.months :
               Abs(BarTotal(chart.bars[k]) - r.months[k].bill.energy - r.months[k].bill.power) <= 2
          /\ i \in DOMAIN lines <=> names[i] \notin hidden
          /\ Alone(names, i) /\ i \in DOMAIN lines =>
               /\ Clicked(results, names, i) = i
               /\ lines[i].starred <=> lines[i].dashed
               /\ \A k \in 1..12 : line[k] = IF i \in Found(results, window[k])
                                            THEN {TotalOf(results, i, window[k])} ELSE {}
               /\ (\A b \in Months(r) : [month |-> b.input.month, year |-> b.input.year] \in shown)
                    => SumFunction([k \in 1..12 |-> SumSet(line[k])]) = chart.year

(* o asks no more than p for anything, and pays no less for the surplus.   *)
Asks(o) == <<o.peak, IF o.flat THEN o.peak ELSE o.mid, IF o.flat THEN o.peak ELSE o.valley,
             o.powerPeak, IF o.same THEN o.powerPeak ELSE o.powerValley, -o.surplus>>
Undercuts(o, p) == \A k \in 1..6 : Asks(o)[k] <= Asks(p)[k]

(* In the drawer of a month every offer that bills it has one place, none  *)
(* after a dearer one nor after one that it undercuts, unless they bill    *)
(* the same; whichever offers are current, the others' "vs. actual"        *)
(* differences grow from place to place, and what stands before every      *)
(* current offer is never called dearer.                                   *)
DrawerRanks ==
  Complete => \A k \in DOMAIN asked :
    LET m == [month |-> asked[k].month, year |-> asked[k].year]
        e == Entries(results, m)
    IN  /\ Len(e) = Len(results) /\ {e[p] : p \in DOMAIN e} = DOMAIN results
        /\ \A p, q \in DOMAIN e :
             p < q /\ Undercuts(results[e[q]].offer, results[e[p]].offer)
               => TotalOf(results, e[p], m) = TotalOf(results, e[q], m)
        /\ \A current \in SUBSET DOMAIN results : \A p, q \in DOMAIN e : p < q =>
             /\ \A d \in Difference(results, e[p], m, current) :
                  \A f \in Difference(results, e[q], m, current) : d <= f
             /\ (\A c \in 1..p : e[c] \notin current) =>
                  \A d \in Difference(results, e[p], m, current) : d <= 0

=============================================================================
