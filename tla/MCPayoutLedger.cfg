CONSTANTS
    Users = {u1, u2}
    Payouts = {p1, p2}
    Sessions = {s1, s2}
    Amounts <- SmallAmounts
    MinPayout = 1
    MaxEarned = 2
    NoUser = NoUser
    NoPayout = NoPayout
SPECIFICATION FairSpec
INVARIANTS
    TypeOK
    BooksBalance
    AuditTellsStatus
PROPERTIES
    ImplementsContract
    AdminOperationsEnd
