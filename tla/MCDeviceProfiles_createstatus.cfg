SPECIFICATION Spec
CONSTANTS
    Nil = Nil
    Request = {r1, r2}
    User = {u1}
    Slug = {s1}
    MalformedId = {bad}
    Faults = FALSE
    Field <- MCField
    Value <- MCValue
    Zero <- MCZero
    Accepted <- MCAccepted
    Payload <- MCPayload
    Catalogs <- MCCatalogs
INVARIANTS
    CreateStatusDocumented
