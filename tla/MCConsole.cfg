SPECIFICATION Spec
CONSTANTS
    Page = {"organization", "users", "assets", "roles", "companies", "platform", "asset"}
    Item = {i1, i2, i3}
    ItemsOf <- MCItemsOf
    Type = {i1, i2}
    Lifecycle = i1
    Match = {i1}
    FirstRows <- MCFirstRows
    Permissions <- MCPermissions
    Value = {v1, v2}
    New = v1
    MaxCalls = 2
    MaxWrites = 2
    MaxLoads = 2
    MaxOthers = 1
    Shared = {"organization", "users", "assets", "roles", "companies", "platform"}
    MaxFaults = 1
    Nil = Nil
    i1 = i1
    i2 = i2
    i3 = i3
    v1 = v1
INVARIANTS
    TypeOK
    ReadYourWrites
    SubmittedOnce
PROPERTIES
    PageInRange
    ChoiceKept
    ComesToRest
CHECK_DEADLOCK FALSE
