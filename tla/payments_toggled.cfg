\* Prices with no, one and two decimals.
CONSTANTS
    Half = 1000
    Typed <- MCTyped
    NoPage = NoPage
SPECIFICATION Spec
PROPERTY
    AmountKept
