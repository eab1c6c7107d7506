\* Orders of up to three lines; an order's columns hold two of the widest lines.
CONSTANTS
    snack = snack
    juice = juice
    tea = tea
    gum = gum
    soap = soap
    Product = {snack, juice, tea, gum, soap}
    Unknown = Unknown
    NotANumber = NotANumber
    Null = Null
    GstRate <- MCGstRate
    Orders <- MCOrders
    Scale = 10
    QuantityLimit = 90
    PriceLimit = 100
    RateLimit = 10000
    TaxLimit = 180
    LineLimit = 200
    OrderLimit = 400
SPECIFICATION Spec
INVARIANTS
    TypeOK
    OrderAddsUp
    TotalsNeedManyLines
CHECK_DEADLOCK FALSE
