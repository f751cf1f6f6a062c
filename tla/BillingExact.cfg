SPECIFICATION Spec
CONSTANTS
  Ticks = 10
  TaxNum = 51
  TaxDen = 1000
  IvaDen = 100
  DefaultIva = 21
  Rental = 27
  MaxKWh = 1000
  MaxPower = 10
  CurrentYear = 2024
  OfferLists <- MCOfferLists
  Bodies <- MCBodies
  Periods <- MCPeriods
  Todays <- MCTodays
INVARIANTS BillsAddUp WholeYear SamePricesSameBills
           UsingMoreCostsMore RankingHonest ReceiptIsTheBill ViewsAgree DrawerRanks
