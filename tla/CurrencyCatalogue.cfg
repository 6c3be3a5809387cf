CONSTANTS
  Currency = {btc, eth}
  Fee = {low, high}
  Request = {q1}
  Listing <- MCListing
  Contains <- MCContains
  DefaultLimit = 20
  MaxLimit = 100
  MaxChange = 1
  MaxTrouble = 1
  Null = Null  NotOffered = NotOffered  NoRow = NoRow
SPECIFICATION CatalogueSpec
INVARIANTS VisibilityAsAsked WalkMissesNothing
PROPERTIES CatalogueCatchesUp
