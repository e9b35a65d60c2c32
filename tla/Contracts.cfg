SPECIFICATION Spec
CONSTANTS
    Folk = {"ann", "bob"}
    House = {"h1", "h2"}
    LastTick = 3
    Lenders <- MCLenders
    Principals = {1, 2}
    LoanRates = {2}
    Cap = 1
    Sums = {1}
    DebtRates = {1}
    Floor = 1
    MaxDeposit = 2
    Issuer = "h1"
    Symbols = {"T4"}
    MaxUnits = 1
    Face = 2
    Coupon = 1
    Interval = 1
    Periods = 2
    Tidy = TRUE
    Pool <- MCPool
    Kinds = {"future", "call", "put"}
    Prices = {0, 1, 2, 4}
    Lots = {2}
    Margins = {1, 3}
    Strikes = {2}
    Premiums = {0, 1}
    MaxPositions = 2
    Insurer = "h1"
    Heirs <- MCHeirs
    Coverages = {1, 2}
    Premia = {0, 1}
    Lines = {"loan", "bank", "bond", "exchange", "insurance"}
    Purses <- MCPurses
    Opened <- MCOpened
INVARIANTS TypeOK BooksBalance
PROPERTY ForceIsLawful
CHECK_DEADLOCK FALSE
