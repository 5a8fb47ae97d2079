SPECIFICATION Spec
CONSTANTS
    Nil = Nil
    Request = {r1, r2}
    User = {u1, u2}
    Slug = {s1}
    MalformedId = {bad}
    Faults = TRUE
    Field <- MCField
    Value <- MCValue
    Zero <- MCZero
    Accepted <- MCAccepted
    Payload <- MCPayload
    Catalogs <- MCCatalogs
SYMMETRY Symmetry
INVARIANTS
    TypeOK
    RowsValid
    SlugResolves
PROPERTIES
    ImplementsStore
