SPECIFICATION Spec
CONSTANTS
    NONE = NONE
    t1 = t1 t2 = t2 t3 = t3
    p1 = p1 p2 = p2 p3 = p3
    o1 = o1 o2 = o2 o3 = o3
    i1 = i1 i2 = i2 i3 = i3 i4 = i4
    Txns = {t1, t2, t3}
    Products <- MCSeparateProducts
    Orders <- MCOrders
    Items <- MCItems
    OrderOf <- MCOrderOf
    ProductOf <- MCProductOf
    Requested <- MCRequested
    SeedStatus <- MCSeedStatus
    Opening <- MCSeparateOpening
    ReorderPoint <- MCSeparateReorderPoint
    Requests <- SeparateRequests
SYMMETRY Symmetry
INVARIANTS
    HistoryIsChain
    DirectionExplainsBalance
    CompleteOrderIsReceived
PROPERTIES
    LowStockIsAnnounced
    ImplementsStockBook
