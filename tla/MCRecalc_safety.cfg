SPECIFICATION Spec
CONSTANTS
    c1 = c1
    c2 = c2
    c3 = c3
    c4 = c4
    k1 = k1
    k2 = k2
    Cdr = {c1, c2, c4}
    Customer = {k1, k2}
    Owner <- MCOwner
    Job = {j1, j2}
    Scope <- OpenScope
    Closed = {c1, c2}
    PricesOf <- MCPricesOf
    ChunkSize = 2
    MaxScans = 2
    Absent = Absent
CHECK_DEADLOCK FALSE
INVARIANTS
    TypeOK
    BooksBalance
SYMMETRY JobSymmetry
