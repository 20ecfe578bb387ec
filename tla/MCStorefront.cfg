SPECIFICATION MCSpec
CONSTANTS
    Products <- MCProducts
    AddonPrice = 1
    Prices <- MCPrices
    Savings <- MCSavings
    Slots <- MCSlots
    MaxCarts = 2
    MaxClicks = 4
    MaxUnits = 2
    MaxEvents = 1
INVARIANTS PaysWhatWasShown VisitsAgree
PROPERTIES TicketSurvivesValidation CheckoutNeverStuck
CHECK_DEADLOCK FALSE
