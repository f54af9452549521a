SPECIFICATION Spec
CONSTANTS
    Digits <- MCDigits
    PASSWORD_LENGTH = 2
    DefaultPassword <- MCDefaultPassword
    Missing = Missing
INVARIANTS
    NewPasswordStays
