SPECIFICATION Spec
CONSTANTS
    Proc = {p1, p2}
    AssetType = {ty1, ty2}
    Asset = {a1}
    Company = {c1}
    CompanyOf <- MCCompanyOf
    Label = {"LAP-", "MON-"}
    LabelOf <- MCOwnLabel
    Manual <- MCNoManual
    Statuses = {"IN_STOCK", "ASSIGNED"}
    NoNumber = NoNumber
    NoAsset = NoAsset
    NoType = NoType
    NoCompany = NoCompany
    NoStatus = NoStatus
    MaxEvents = 2
    ty1 = ty1
    ty2 = ty2
    c1 = c1
    c2 = c2
INVARIANT HistoryChains
CHECK_DEADLOCK FALSE
