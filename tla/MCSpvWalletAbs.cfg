CONSTANTS
    Paymails <- MCPaymails
    IntWidth = 8
    Mantissa = 4
SPECIFICATION Spec
INVARIANTS
    AbsExact
