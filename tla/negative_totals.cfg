SPECIFICATION AmountsSpec
CONSTANTS
    MaxInt = 7
    MaxColumn = 3
    Products = {1, 2}
    Prices <- MCPrices
    Stocks <- MCStocks
    Asked <- MCAsked
    MaxLines = 3
INVARIANTS TotalsAreNotNegative
CHECK_DEADLOCK FALSE
