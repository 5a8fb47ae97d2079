SPECIFICATION Spec
CONSTANTS
    Nil = Nil
    Request = {r1, r2, r3}
    User = {u1, u2}
    Slug = {s1}
    MalformedId = {bad}
    Faults = FALSE
    Field <- MCField
    Value <- MCValue
    Zero <- MCZero
    Accepted <- MCAccepted
    Payload <- RacePayload
    Catalogs <- RaceCatalogs
SYMMETRY Symmetry
INVARIANTS
    NamesUnique
    DisclosesOnlyOwn
    UpdateBasis
PROPERTIES
    NoResurrection
    OwnerOnlyWrites
    ImplementsStore
