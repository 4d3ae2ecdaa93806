SPECIFICATION Spec
CONSTANTS
  l1 = l1
  l2 = l2
  k1 = k1
  k2 = k2
  k3 = k3
  a1 = a1
  g1 = g1
  g2 = g2
  top = top
  w1 = w1
  Sections = {"budgets"}
  Ledgers <- AllLedgers
  Periods = {p1, p2, invalid}
  Invalid = invalid
  FirstPeriod = p1
  Offers <- TheOffers
  CurrencyOf <- TheCurrencyOf
  AccountsOf <- TheAccountsOf
  MaxPages = 2
  MaxChanges = 1
  CategoriesOf <- TheCategoriesOf
  Forests <- TheForests
  Matching <- TheMatching
  Top = top
  Texts = {w1, notext}
  NoText = notext
  None = None
INVARIANT LedgersIndependent
