SPECIFICATION FieldsSpec
CONSTANTS
    NRows = 2
    Limit = 2
    UIntValues = 8
    Numbers <- MCNumbers
    Bad = Bad
    Choices <- MCChoices
INVARIANTS FreshAboveInvalid LevelAsShown
