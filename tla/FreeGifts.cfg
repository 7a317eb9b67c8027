CONSTANTS
  g1 = g1
  g2 = g2
  g3 = g3
  scarf = scarf
  ann = ann
  bob = bob
  kim = kim
  lee = lee
  phone = phone
  Gifts = {g1, g2, g3}
  Products = {scarf}
  Item <- MCItem
  Keys = {ann, bob, kim, lee, phone}
  SendKeys <- MCSendKeys
  ReceiveKeys <- MCReceiveKeys
  Cost <- MCCost
  Charged = {g1}
  Currencies = {"AUD", "USD"}
  CurrencyOf <- MCCurrencyOf
  Budgets <- MCBudgets
  GiftCaps = {1}
  Forms <- MCForms
  Repeats = {g2}
  MaxOpening = 2
SPECIFICATION FairSpec
CHECK_DEADLOCK FALSE
INVARIANTS TypeOK BudgetBacked OneTimeRights CountersBacked
PROPERTIES UnpaidGivesBack
