SPECIFICATION Spec
CONSTANTS
    Debounce = 1
    MaxDefer = 2
    Errors = {"EACCES"}
    MaxDocs = 3
PROPERTIES
    FlushDrains
