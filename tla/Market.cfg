SPECIFICATION MarketSpec
CONSTANTS
  Entity = {"ann", "bob", "cyd"}
  Quotes <- Roles
  Walker = {"ann"}
  Mortal = {"cyd"}
  Price = {1, 2}
  MaxQty = 2
  MaxBook = 3
  Cap = 2
  Endowment <- Goodwill
  Purse <- Coins
  Rate = 5
  Siting = {TRUE, FALSE}
  Overlapping = FALSE
PROPERTIES
  ShelfServesBook
  AuctionIsFair
