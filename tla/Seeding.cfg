CONSTANTS
  Menu = {dashboard, settings}
  Permission = {currencyList, roleDelete}
  MerchantPermission = {currencyList}
  MerchantMenu = {dashboard}
  MaxRuns = 2
SPECIFICATION SeedSpec
INVARIANTS SeedIsIdempotent
CHECK_DEADLOCK FALSE
