SPECIFICATION FairSpec
CONSTANTS
    Proc = {p1, p2}
    AssetType = {ty1, ty2}
    Asset = {a1, a2}
    Company = {c1, c2}
    CompanyOf <- MCCompanyOf
    Label = {"LAP-", "MON-"}
    LabelOf <- MCOwnLabel
    Manual <- MCManual
    Statuses = {"IN_STOCK", "ASSIGNED"}
    NoNumber = NoNumber
    NoAsset = NoAsset
    NoType = NoType
    NoCompany = NoCompany
    NoStatus = NoStatus
    MaxEvents = 1
    ty1 = ty1
    ty2 = ty2
    c1 = c1
    c2 = c2
INVARIANTS
    TypeOK
    NumberingGapless
    GeneratedNumberIsFree
    HistoryEndsAtStatus
PROPERTY EveryRequestEnds
CHECK_DEADLOCK FALSE
