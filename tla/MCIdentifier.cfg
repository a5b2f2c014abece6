SPECIFICATION IdentifierSpec
CONSTANTS
    Genesis <- MCGenesis
    GenesisLength <- MCGenesisLength

INVARIANTS
    TextAndComponentsAgree
    OneTextPerDid

CHECK_DEADLOCK FALSE
