SPECIFICATION IdentifierSpec
CONSTANTS
    Genesis <- MCGenesis
    GenesisLength <- MCGenesisLength

INVARIANTS
    ComponentsValidated

CHECK_DEADLOCK FALSE
