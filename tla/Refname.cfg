\* Refnames of up to five bytes.
CONSTANTS
    Chars <- MCChars
    Refnames <- MCRefnames
SPECIFICATION Spec
INVARIANTS
    TypeOK
    AcceptedIsValid
    ErrorHolds
