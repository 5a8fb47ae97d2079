SPECIFICATION Spec
CONSTANTS
    ID = {i1, i2, i3}
    User = {u1, u2}
    Name = {n1, n2, n3}
    Body = {b1, b2}
    RawPage <- MCPage
    MaxLimit = 2
    DefaultLimit = 1
INVARIANTS
    TypeOK
    MapsAgree
PROPERTIES
    ImplementsPort
