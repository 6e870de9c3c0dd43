SPECIFICATION RegistrySpec
CONSTANTS
    Null = Null
    Absent = Absent
    Adapters <- RegistryAdapters
    Definitions <- RegistryDefinitions
    Endpoints <- RegistryEndpoints
    Changes <- RegistryChanges
    Operators = {o1}
    Caps = {2, 3}
    DefaultItems = 2
INVARIANTS RowsAccepted
