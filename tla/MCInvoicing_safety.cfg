SPECIFICATION Spec
CONSTANTS
    Customer = {k1}
    Request = {r1, r2}
    MaxInvoices = 2
    Legacy = 1
    Charge = {2050}
    MaxConsumed = 4100
    TopUp = {10}
    MaxCredits = 3
    Strays = {1, 2}
    LiveBackfill = FALSE
    Absent = Absent
SYMMETRY Interchangeable
CHECK_DEADLOCK FALSE
INVARIANTS
    TypeOK
    PaidOnce
    BooksBalance
PROPERTY PaidStaysPaid
