CONSTANTS
    Tx = {t1, t2, t3}
    Payload = {p, q}
    MaxId = 3
    PageSize = 2
SPECIFICATION Spec
SYMMETRY Symmetric
CHECK_DEADLOCK FALSE
INVARIANTS PagingIsComplete SerialLogVerifies
