SPECIFICATION Spec
CONSTANTS
    Days = {1, 2, 3}
    MonthOf <- MCMonthOf
    Caps <- MCCaps
    MonthlyData = 3
    Chunk = 2
INVARIANTS CallsReserved
PROPERTIES WithinCaps
