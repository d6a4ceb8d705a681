CONSTANTS
    o1 = o1
    o2 = o2
    w1 = w1
    w2 = w2
    w3 = w3
    p1 = p1
    x1 = x1
    x2 = x2
    r1 = r1
    r2 = r2
    Keep = Keep
    NoWorkspace = NoWorkspace
    NoProduct = NoProduct
    NoTarget = NoTarget
    Organization <- MCOrganization
    Workspace <- MCWorkspace
    OrgOf <- MCOrgOf
    First <- MCFirst
    Product <- MCProduct
    Price <- MCPrice
    Request <- MCRequest
    Stage <- MCStage
    Calls <- MCCalls
    Caller <- MCCaller
    Limit = 1
    MaxCustomers = 3
    MaxNotes = 1

SPECIFICATION Spec

SYMMETRY MCSymmetry

CHECK_DEADLOCK FALSE

INVARIANTS
    TablesSound
    ConvertedOnce

PROPERTIES
    ManagersWrite
    PricesStay
    PagesComplete
