SPECIFICATION Spec
CONSTANTS
    Unset = Unset
    high_end = high_end
    deep_embedded = deep_embedded
    Names <- MCNames
    Inis <- MCInis
INVARIANTS
    TypeOK
    AcceleratorSelected
    SectionsReadBack
