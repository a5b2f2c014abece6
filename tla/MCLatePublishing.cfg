SPECIFICATION Spec

CONSTANTS
    Json <- MCJson
    Fields <- MCFields
    Did <- MCDid
    NotADid = NotADid
    Method <- MCMethod
    Key <- MCKey
    NoKey = NoKey
    Address <- MCAddress
    Patch <- MCPatch
    Patched <- MCPatched
    PatchFails = PatchFails
    Context <- MCContext
    NoContext = NoContext
    Undecodable = Undecodable
    MaxVersionId <- MCMaxVersionId
    Update <- MCUpdate
    UpdateJson <- MCUpdateJson
    UnsecuredJson <- MCUnsecuredJson
    NoDocument = NoDocument
    Txid <- MCTxid
    Time <- MCTime
    Clock <- MCClock
    None = None
    NoMetadata = NoMetadata
    NoUpdate = NoUpdate
    ResolutionOptions <- MCResolutionOptions
    InitialDocument <- MCInitialDocument
    Batches <- MCBatches

INVARIANTS
    LateMeansLate

CHECK_DEADLOCK FALSE
