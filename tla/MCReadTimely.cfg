SPECIFICATION ReadSpec

CONSTANTS
    Json <- MCJson
    Fields <- MCFields
    Did <- MCDid
    NotADid = NotADid
    Method <- MCMethod
    Key <- MCKey
    NoKey = NoKey
    Address <- MCAddress
    Patch <- MCPatch
    Patched <- MCPatched
    PatchFails = PatchFails
    Context <- MCContext
    NoContext = NoContext
    Undecodable = Undecodable
    MaxVersionId <- MCMaxVersionId
    Update <- MCUpdate
    UpdateJson <- MCUpdateJson
    UnsecuredJson <- MCUnsecuredJson
    Txid <- MCReadTxid
    Time <- MCTime
    Clock <- MCClock
    None = None
    NoMetadata = NoMetadata
    NoUpdate = NoUpdate
    ResolutionOptions <- MCResolutionOptions
    InitialDocument <- MCInitialDocument
    Batches <- MCNoBatches
    Versions <- MCVersions
    History <- MCHistory
    TxidOf <- MCTxidOf
    AnnounceAt <- MCAnyBeacon
    PaymentTxid <- MCPaymentTxid
    PageSize <- MCPageSize
    MaxPayments <- MCMaxPayments

INVARIANTS
    TimelyHistoryAccepted

CHECK_DEADLOCK FALSE
