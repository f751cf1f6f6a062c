------------------------------ MODULE Billing ------------------------------
(***************************************************************************)
(* The simulation handlers and CalculatorService: bills of the user's      *)
(* offers for one period (Simulate) or for up to twelve months             *)
(* (SimulateAnnual).                                                       *)
(*                                                                         *)
(* Money is exact: an amount is an integer over a denominator where the    *)
(* code has a float64, and cents once round2 has been applied.  Prices are *)
(* in ticks, Ticks of them to a cent.                                      *)
(*                                                                         *)
(* An operator named Bug_X is the definition X with a plausible mistake in *)
(* the code it models; nothing uses it but the experiments that show which *)
(* property would notice that mistake.                                     *)
(***************************************************************************)
EXTENDS Integers, Sequences, Functions

CONSTANTS Ticks,              \* price units in a cent
          TaxNum, TaxDen,     \* ElectricityTaxRate
          IvaDen, DefaultIva, \* VAT rates are n/IvaDen; IVARate
          Rental,             \* MeterRentalDailyRate, in ticks
          MaxKWh, MaxPower,   \* maxConsumptionKWh, maxPowerKW
          CurrentYear,
          OfferLists,         \* what ListOffers may return
          Bodies,             \* annual requests: sequences of months
          Periods             \* single-period requests

Month == [month: Int, year: Int, peak: Int, mid: Int, valley: Int,
          powerPeak: Int, powerValley: Int, surplus: Int, iva: Int]
Period == [kWh: Int, power: Int, surplus: Int, days: Int]
Offer == [flat: BOOLEAN, peak: Nat, mid: Nat, valley: Nat,
          same: BOOLEAN, powerPeak: Nat, powerValley: Nat, surplus: Nat]

ASSUME RatesAssumption ==
  /\ Ticks \in Nat \ {0} /\ TaxNum \in Nat /\ TaxDen \in Nat \ {0}
  /\ IvaDen \in Nat \ {0} /\ DefaultIva \in 0..IvaDen /\ Rental \in Nat
  /\ MaxKWh \in Nat /\ MaxPower \in Nat /\ CurrentYear \in Nat
ASSUME InputsAssumption ==
  /\ OfferLists \subseteq Seq(Offer) /\ Bodies \subseteq Seq(Month)
  /\ Periods \subseteq Period

VARIABLES pc,       \* "idle", "validate", "list", "bill"
          asked,    \* months of the annual request
          at,       \* the month it is at
          days,     \* the days filled in so far
          offers,   \* what ListOffers has returned
          results,  \* per offer billed, its months' bills and year total
          bills,    \* of the offer being billed, so far
          answer    \* bills of the last single-period request

vars == <<pc, asked, at, days, offers, results, bills, answer>>

-----------------------------------------------------------------------------
(* round2 of n/d cents: half away from zero.                               *)
Round2(n, d) == IF n >= 0 THEN (2 * n + d) \div (2 * d)
                ELSE -((d - 2 * n) \div (2 * d))

(* Days before the first of the month-th month of a year, a month after    *)
(* December being one of the next year, as time.Date normalises it.        *)
Leap(y) == y % 4 = 0 /\ (y % 100 # 0 \/ y % 400 = 0)
BeforeYear(y) == 365 * y + (y + 3) \div 4 - (y + 99) \div 100 + (y + 399) \div 400
BeforeMonth == <<0, 31, 59, 90, 120, 151, 181, 212, 243, 273, 304, 334>>
BeforeFirst(y, month) ==
  LET year == y + (month - 1) \div 12
      m == 1 + ((month - 1) % 12)
  IN  BeforeYear(year) + BeforeMonth[m] + IF m > 2 /\ Leap(year) THEN 1 ELSE 0

(* The current year's days although the request names another. *)
Bug_DaysOf(m) ==
  BeforeFirst(CurrentYear, m.month + 1) - BeforeFirst(CurrentYear, m.month)

(* The day of the month before the first of the next month.                *)
DaysOf(m) ==
  LET year == IF m.year = 0 THEN CurrentYear ELSE m.year
  IN  BeforeFirst(year, m.month + 1) - BeforeFirst(year, m.month)

ValidMonth(m) ==
  /\ m.month \in 1..12
  /\ {m.peak, m.mid, m.valley, m.surplus} \subseteq 0..MaxKWh
  /\ {m.powerPeak, m.powerValley} \subseteq 1..MaxPower
  /\ m.iva \in 0..IvaDen

-----------------------------------------------------------------------------
(* The bill for an energy term e, a power term p and a surplus credit s,   *)
(* all in 1/unit ticks.                                                    *)

Subtotal(e, p, s, n, unit) ==
  (e + p + Rental * n * unit - s) * TaxDen + (e + p) * TaxNum

(* The VAT shown is the default's. *)
Bug_Bill(e, p, s, n, rate, unit) ==
  LET cent == unit * Ticks
      sub == Subtotal(e, p, s, n, unit)
  IN [energy |-> Round2(e, cent), power |-> Round2(p, cent),
      surplus |-> Round2(s, cent),
      tax |-> Round2((e + p) * TaxNum, cent * TaxDen),
      rental |-> Round2(Rental * n, Ticks),
      iva |-> Round2(sub * DefaultIva, cent * TaxDen * IvaDen),
      total |-> Round2(sub * (IvaDen + rate), cent * TaxDen * IvaDen)]

Bill(e, p, s, n, rate, unit) ==
  LET cent == unit * Ticks
      sub == Subtotal(e, p, s, n, unit)
  IN [energy |-> Round2(e, cent), power |-> Round2(p, cent),
      surplus |-> Round2(s, cent),
      tax |-> Round2((e + p) * TaxNum, cent * TaxDen),
      rental |-> Round2(Rental * n, Ticks),
      iva |-> Round2(sub * rate, cent * TaxDen * IvaDen),
      total |-> Round2(sub * (IvaDen + rate), cent * TaxDen * IvaDen)]

(* Sixths of a tick: averages of two and of three prices are exact.        *)
EffectiveEnergyPrice(o) == IF o.flat THEN 6 * o.peak
                           ELSE 2 * (o.peak + o.mid + o.valley)
EffectivePowerPrice(o) == IF o.same THEN 6 * o.powerPeak
                          ELSE 3 * (o.powerPeak + o.powerValley)

Calculate(o, r) ==
  Bill(r.kWh * EffectiveEnergyPrice(o), r.power * EffectivePowerPrice(o) * r.days,
       r.surplus * o.surplus * 6, r.days, DefaultIva, 6)

(* The valley left out of a tiered bill. *)
Bug_Energy(o, m) ==
  IF o.flat THEN (m.peak + m.mid + m.valley) * o.peak
  ELSE m.peak * o.peak + m.mid * o.mid

Energy(o, m) ==
  IF o.flat THEN (m.peak + m.mid + m.valley) * o.peak
  ELSE m.peak * o.peak + m.mid * o.mid + m.valley * o.valley

Power(o, m, n) ==
  n * (IF o.same THEN (m.powerPeak + m.powerValley) * o.powerPeak
       ELSE m.powerPeak * o.powerPeak + m.powerValley * o.powerValley)

Rate(m) == IF m.iva <= 0 THEN DefaultIva ELSE m.iva

(* What is sold charged like what is used. *)
Bug_CalculateMonthly(o, m, n) ==
  Bill(Energy(o, m) + m.surplus * o.surplus, Power(o, m, n), 0, n, Rate(m), 1)

CalculateMonthly(o, m, n) ==
  Bill(Energy(o, m), Power(o, m, n), m.surplus * o.surplus, n, Rate(m), 1)

(* What the charts show of each tariff period.  On a flat bill: shares of  *)
(* the rounded energy term, the valley's being what the others leave.      *)
PeriodTerms(o, m, energy) ==
  LET total == m.peak + m.mid + m.valley
      peak == IF ~o.flat THEN Round2(m.peak * o.peak, Ticks)
              ELSE IF total = 0 THEN 0 ELSE Round2(m.peak * energy, total)
      mid == IF ~o.flat THEN Round2(m.mid * o.mid, Ticks)
             ELSE IF total = 0 THEN 0 ELSE Round2(m.mid * energy, total)
  IN [peakTerm |-> peak, midTerm |-> mid,
      valleyTerm |-> IF o.flat THEN energy - peak - mid
                     ELSE Round2(m.valley * o.valley, Ticks)]

(* An entry of AnnualOfferResult.Months.                                   *)
MonthlyBill(o, m, n) ==
  LET bill == CalculateMonthly(o, m, n)
  IN  [bill |-> bill, terms |-> PeriodTerms(o, m, bill.energy), input |-> m,
       days |-> n]

-----------------------------------------------------------------------------
(* The handlers.  The single-period one is a step: it shares nothing.      *)

ValidPeriod(r) == r.kWh >= 0 /\ r.days > 0

(* OfferID 0 means all offers; one that names an offer gets that one's.    *)
Simulate ==
  /\ pc = "idle"
  /\ \E r \in Periods, os \in OfferLists :
       answer' = IF ValidPeriod(r)
                   THEN [i \in 1..Len(os) |-> Calculate(os[i], r)] ELSE <<>>
  /\ UNCHANGED <<pc, asked, at, days, offers, results, bills>>

SimulateAnnual ==
  /\ pc = "idle"
  /\ \E b \in Bodies :
       /\ Len(b) \in 1..12
       /\ asked' = b
  /\ pc' = "validate" /\ answer' = <<>>
  /\ UNCHANGED <<at, days, offers, results, bills>>

(* Answered; the handler keeps nothing.                                    *)
Reply ==
  /\ pc' = "idle" /\ at' = 1
  /\ asked' = <<>> /\ days' = <<>> /\ offers' = <<>> /\ results' = <<>>
  /\ bills' = <<>> /\ answer' = <<>>

(* No month and more than twelve are refused like an invalid one.          *)
RefuseLength ==
  /\ pc = "idle"
  /\ \E b \in Bodies : Len(b) \notin 1..12
  /\ Reply

ValidateMonth ==
  /\ pc = "validate" /\ at <= Len(asked)
  /\ IF ValidMonth(asked[at])
       THEN /\ days' = Append(days, DaysOf(asked[at]))
            /\ at' = at + 1
            /\ UNCHANGED <<pc, asked, offers, results, bills, answer>>
       ELSE Reply

ListOffers ==
  /\ pc = "validate" /\ at > Len(asked)
  /\ \E os \in OfferLists : offers' = os
  /\ pc' = "bill" /\ at' = 1
  /\ UNCHANGED <<asked, days, results, bills, answer>>

(* One month of the offer whose turn it is.                                *)
BillMonth ==
  /\ pc = "bill" /\ Len(results) < Len(offers) /\ at <= Len(asked)
  /\ bills' = Append(bills, MonthlyBill(offers[Len(results) + 1], asked[at], days[at]))
  /\ at' = at + 1
  /\ UNCHANGED <<pc, asked, days, offers, results, answer>>

(* The bills of the offer before not cleared. *)
Bug_FinishOffer ==
  /\ pc = "bill" /\ Len(results) < Len(offers) /\ at > Len(asked)
  /\ results' = Append(results,
       [offer |-> offers[Len(results) + 1], months |-> bills,
        yearTotal |-> SumFunction([i \in 1..Len(bills) |-> bills[i].bill.total])])
  /\ at' = 1
  /\ UNCHANGED <<pc, asked, days, offers, bills, answer>>

(* The year total counts cents: round2 leaves it as it is.  *)
FinishOffer ==
  /\ pc = "bill" /\ Len(results) < Len(offers) /\ at > Len(asked)
  /\ results' = Append(results,
       [offer |-> offers[Len(results) + 1], months |-> bills,
        yearTotal |-> SumFunction([i \in 1..Len(bills) |-> bills[i].bill.total])])
  /\ bills' = <<>> /\ at' = 1
  /\ UNCHANGED <<pc, asked, days, offers, answer>>

AnswerAnnual ==
  /\ pc = "bill" /\ Len(results) = Len(offers)
  /\ Reply

(* ListOffers or the connection fails.                                     *)
Fail ==
  /\ pc = "validate" /\ at > Len(asked)
  /\ Reply

Init ==
  /\ pc = "idle" /\ asked = <<>> /\ at = 1 /\ days = <<>> /\ offers = <<>>
  /\ results = <<>> /\ bills = <<>> /\ answer = <<>>

Next == Simulate \/ SimulateAnnual \/ RefuseLength \/ ValidateMonth \/ ListOffers
        \/ BillMonth \/ FinishOffer \/ AnswerAnnual \/ Fail

Spec == Init /\ [][Next]_vars

-----------------------------------------------------------------------------
(* Properties *)

Abs(n) == IF n >= 0 THEN n ELSE -n
Billed == {results[i] : i \in 1..Len(results)}
Months(r) == {r.months[i] : i \in 1..Len(r.months)}
BillsShown == {answer[i] : i \in 1..Len(answer)}
              \cup UNION {{b.bill : b \in Months(r)} : r \in Billed}

(* The lines of a bill, each rounded by itself, add up to its total, that  *)
(* is rounded from the exact amounts, to within three cents; the terms of  *)
(* the periods to the energy term, to within two and exactly on a flat     *)
(* bill, where the valley's is what the others leave.                      *)
BillsAddUp ==
  /\ \A b \in BillsShown :
       Abs(b.energy + b.power + b.tax + b.rental - b.surplus + b.iva - b.total) <= 3
  /\ \A r \in Billed : \A b \in Months(r) :
       Abs(b.terms.peakTerm + b.terms.midTerm + b.terms.valleyTerm - b.bill.energy)
         <= IF r.offer.flat THEN 0 ELSE 2

(* A whole year is billed for all its days, leap days included.            *)
WholeYear ==
  \A r \in Billed :
    LET y == asked[1].year
    IN  (Len(asked) = 12 /\ \A i \in 1..12 : asked[i].month = i /\ asked[i].year = y)
        => SumFunction([i \in 1..12 |-> r.months[i].days])
             = IF Leap(IF y = 0 THEN CurrentYear ELSE y) THEN 366 ELSE 365

(* Two offers whose prices are the same in every period have the same      *)
(* bills, whether they are stored as flat or tiered, same or split.        *)
Uniform(o) == o.peak = o.mid /\ o.mid = o.valley /\ o.powerPeak = o.powerValley
SamePricesSameBills ==
  \A r, q \in Billed :
    (/\ Uniform(r.offer) /\ Uniform(q.offer)
     /\ r.offer.peak = q.offer.peak /\ r.offer.powerPeak = q.offer.powerPeak
     /\ r.offer.surplus = q.offer.surplus)
    => \A i \in 1..Len(r.months) : r.months[i].bill = q.months[i].bill

(* Who uses no less in any period, and feeds no more into the grid, in the *)
(* same number of days and at the same VAT, pays no less.                  *)
Usage(m) == <<m.peak, m.mid, m.valley, m.powerPeak, m.powerValley, -m.surplus>>
UsingMoreCostsMore ==
  \A r \in Billed : \A b, c \in Months(r) :
    (/\ b.days = c.days /\ Rate(b.input) = Rate(c.input)
     /\ \A i \in 1..6 : Usage(b.input)[i] <= Usage(c.input)[i])
    => b.bill.total <= c.bill.total

(* The year's cost before any rounding, in the least unit there is.        *)
ExactCost(r) ==
  SumFunction([i \in 1..Len(r.months) |->
    LET b == r.months[i]
    IN  Subtotal(Energy(r.offer, b.input), Power(r.offer, b.input, b.days),
                 b.input.surplus * r.offer.surplus, b.days, 1)
        * (IvaDen + Rate(b.input))])

(* Rounding every month does not reverse the order of the offers: one that *)
(* is dearer by a cent a month never has the lesser year total.            *)
RankingHonest ==
  \A r, q \in Billed :
    ExactCost(r) + Len(asked) * Ticks * TaxDen * IvaDen <= ExactCost(q)
      => r.yearTotal <= q.yearTotal

=============================================================================
