SPECIFICATION Spec
CONSTANTS
    Nil = Nil
    Request = {r1, r2, r3}
    User = {u1}
    Slug = {}
    MalformedId = {}
    Faults = FALSE
    Field <- MCField
    Value <- MCValue
    Zero <- MCZero
    Accepted <- MCAccepted
    Payload <- RacePayload
    Catalogs <- MCCatalogs
PROPERTIES
    PatchIsPartial
