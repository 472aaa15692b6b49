SPECIFICATION Spec
CONSTANTS
    Calls = {c1, c2}
    Tokens = {t1, t2, t3, t4}
    Key = Key
    MaxRetries = 1
    None = None
SYMMETRY MCSymmetry
INVARIANTS
    TypeOK
    AttemptsBounded
    GivesUpLate
