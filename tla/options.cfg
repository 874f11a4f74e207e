SPECIFICATION Spec
CONSTANTS
    Unset = Unset
    NaN = NaN
    RawValue = RawValue
    RawKeys <- MCRawKeys
    Settings <- MCSettings
    MaxSets = 3
INVARIANTS
    TypeOK
    DocumentSaysWhatWasAsked
    NothingIsDropped
    RefusedIffInvalid
