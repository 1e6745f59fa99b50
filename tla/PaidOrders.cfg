CONSTANTS
  f1 = f1
  f2 = f2
  Telegram = {1}
  Stars = {1}
  Crypto = {2}
  Refunders = {f1, f2}
  None = none
  BaseVolume = 1
  MaxUse = 1
  MaxFaults = 2
SPECIFICATION FairSpec
INVARIANTS
  BalanceMatchesOrders
  GrantIsPaidFor
  RefundReturnsMoney
PROPERTIES
  LedgerSpec
  PaidInvoiceSettles
