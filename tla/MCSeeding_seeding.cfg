SPECIFICATION FairSpec
CONSTANTS
    s1 = s1
    s2 = s2
    s3 = s3
    a = a
    b = b
    c = c
    old = old
    new = new
    None = None
    Seeder = {s1, s2, s3}
    Slug = {a, b, c}
    Body = {old, new}
    Rows <- MCRows
    Content <- MCContent
CHECK_DEADLOCK FALSE
INVARIANTS
    TypeOK
    OkMeansSeeded
    DeadlockNeedsTwoReleases
PROPERTIES
    ImplementsCatalog
    SeedersEnd
