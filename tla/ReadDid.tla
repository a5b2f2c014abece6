------------------------------- MODULE ReadDid -------------------------------
(***************************************************************************)
(* The program of src/examples/read_did.rs: the resolver, the loop that    *)
(* sends its requests one by one to an Esplora server, and the blockchain, *)
(* which goes on growing while the program runs.                           *)
(*                                                                         *)
(* The chain and the server are not part of the repository.  They are      *)
(* modelled from how the code uses them: an address is answered with its   *)
(* transactions, those in the mempool first, then the mined ones from the  *)
(* newest to the oldest, as many as fit on a page.  The controller of the  *)
(* DID is honest: each update is announced at a beacon of the document it  *)
(* replaces, once the one before it is mined, and may be announced again   *)
(* at the other beacons.  Anybody may pay to the address of a beacon.      *)
(***************************************************************************)
EXTENDS Resolver, FiniteSets

CONSTANTS
    Versions,    \* the documents of the DID, Versions[n] for version n
    History,     \* the updates between them, History[n] makes version n + 1
    AnnounceAt,  \* AnnounceAt[n]: the addresses History[n] may be announced at
    TxidOf,      \* TxidOf[n][a]: the transaction announcing History[n] at a
    PaymentTxid, \* the transactions that are mere payments
    PageSize,    \* the mined transactions one answer holds (Esplora: 25)
    MaxPayments  \* bound of the model: the payments ever mined at an address

VARIABLES
    mempool,        \* announcements broadcast and not mined yet, <<n, a>>
    chain,          \* address -> what was mined there, newest first, see MinedTransaction
    height,         \* the number of blocks, which is also the time
    fetched,        \* the requests of this round that were answered
    responses,      \* what they were answered, in the order of the requests
    driver,         \* "Running", or "Failed" once a request failed
    start_version   \* history: the version on the chain when resolving began

network == <<mempool, chain, height>>
program == <<fetched, responses, driver>>
readVars == <<vars, network, program, start_version>>

ASSUME HistoryAssumption ==
    /\ History \in Seq(Update)
    /\ Versions \in Seq(Document)
    /\ Len(Versions) = Len(History) + 1
    /\ InitialDocument = {Versions[1]}
    /\ \A n \in DOMAIN History :
           /\ History[n].body.source_hash = DocHash(Versions[n])
           /\ History[n].body.target_version_id = n + 1
           /\ Verified(Versions[n], History[n])
           /\ PatchedDoc(Versions[n], History[n]) = Versions[n + 1]
           /\ AnnounceAt[n] \subseteq BeaconAddresses(Versions[n])

ASSUME TxidAssumption ==
    /\ TxidOf \in [DOMAIN History -> [Address -> Txid]]
    /\ \A m, n \in DOMAIN History, a, b \in Address :
           TxidOf[m][a] = TxidOf[n][b] => m = n /\ a = b
    /\ PaymentTxid \in Txid

(* The chain is as long as Time allows. *)
ASSUME ChainAssumption == 0 \in Time

ASSUME PageAssumption ==
    PageSize \in Nat \ {0} /\ MaxPayments \in [Address -> Nat]

-----------------------------------------------------------------------------
Payment == 0

(* A mined transaction: the update it announces, or Payment, and its time. *)
MinedTransaction == [update : DOMAIN History \cup {Payment}, block_time : 1..height]

IsMined(n, a) == \E k \in DOMAIN chain[a] : chain[a][k].update = n

Payments(a) == {k \in DOMAIN chain[a] : chain[a][k].update = Payment}

(* The updates with a mined announcement are the first ones of History. *)
ChainVersion ==
    1 + Cardinality({n \in DOMAIN History : \E a \in Address : IsMined(n, a)})

ReadInit ==
    /\ Init
    /\ mempool = {}
    /\ chain = [a \in Address |-> <<>>]
    /\ height = 0
    /\ fetched = {}
    /\ responses = <<>>
    /\ driver = "Running"
    /\ start_version = 1

(* The controller announces the next update, or an old one once more. *)
Announce(n, a) ==
    /\ n <= ChainVersion
    /\ a \in AnnounceAt[n]
    /\ <<n, a>> \notin mempool
    /\ ~IsMined(n, a)
    /\ mempool' = mempool \cup {<<n, a>>}
    /\ UNCHANGED <<vars, chain, height, program, start_version>>

AddBlock(n, a) ==
    /\ height + 1 \in Time
    /\ height' = height + 1
    /\ chain' = [chain EXCEPT ![a] =
                    <<[update |-> n, block_time |-> height']>> \o @]
    /\ UNCHANGED <<vars, program, start_version>>

Mine(n, a) ==
    /\ <<n, a>> \in mempool
    /\ mempool' = mempool \ {<<n, a>>}
    /\ AddBlock(n, a)

(* Somebody pays to the address of a beacon. *)
Pay(a) ==
    /\ Cardinality(Payments(a)) < MaxPayments[a]
    /\ AddBlock(Payment, a)
    /\ UNCHANGED mempool

-----------------------------------------------------------------------------
TransactionFor(n, a, confirmed, block_time) ==
    [txid |-> IF n = Payment THEN PaymentTxid ELSE TxidOf[n][a],
     last_output |-> IF n = Payment THEN "other" ELSE "signal",
     signal_bytes |-> IF n = Payment THEN DocHash(Versions[1])
                                     ELSE UpdateHash(History[n]),
     confirmed |-> confirmed, block_time |-> block_time]

AsResponse(tx) == [beacon_type |-> "Singleton", tx |-> tx]

(* The code asks for the first page of an address and for no other. *)
OnPage(a) == {k \in DOMAIN chain[a] : k <= PageSize}

MinedResponses(a) ==
    [k \in OnPage(a) |->
        AsResponse(TransactionFor(chain[a][k].update, a, TRUE,
                                  chain[a][k].block_time))]

(* The mempool part of an answer, in any order. *)
MempoolResponses(a) ==
    LET waiting == {n \in DOMAIN History : <<n, a>> \in mempool}
        orders  == {order \in [1..Cardinality(waiting) -> waiting] :
                       \A m \in waiting : \E k \in DOMAIN order : order[k] = m}
    IN  {[k \in DOMAIN order |->
             AsResponse(TransactionFor(order[k], a, FALSE, height))] :
         order \in orders}

Running == driver = "Running"

(* fsm.resolve()? *)
CallResolve ==
    /\ Running
    /\ Resolve
    /\ start_version' = IF fsm = "Init" THEN ChainVersion ELSE start_version
    /\ UNCHANGED <<network, program>>

(* agent.run(req)? and what extend() appends to the entry of its type *)
Request(a) ==
    /\ Running
    /\ fsm = "WaitingForResponses"
    /\ a \in requests \ fetched
    /\ \E unmined \in MempoolResponses(a) :
           responses' = responses \o unmined \o MinedResponses(a)
    /\ fetched' = fetched \cup {a}
    /\ UNCHANGED <<vars, network, driver, start_version>>

(* The ? after run() or read_json(): main returns the error. *)
RequestFails ==
    /\ Running
    /\ fsm = "WaitingForResponses"
    /\ fetched # requests
    /\ driver' = "Failed"
    /\ UNCHANGED <<vars, network, fetched, responses, start_version>>

(* Slip: the map of the responses is made once, outside the loop. *)
RespondKeepsResponses ==
    /\ Running
    /\ fetched = requests
    /\ ProcessResponses(responses)
    /\ fetched' = {}
    /\ UNCHANGED <<network, driver, responses, start_version>>

(* next_state.process_responses(responses) *)
Respond ==
    /\ Running
    /\ fetched = requests
    /\ ProcessResponses(responses)
    /\ fetched' = {}
    /\ responses' = <<>>
    /\ UNCHANGED <<network, driver, start_version>>

ProgramStep ==
    \/ CallResolve
    \/ \E a \in Address : Request(a)
    \/ RequestFails
    \/ Respond

NetworkStep ==
    \E a \in Address :
        \/ \E n \in DOMAIN History : Announce(n, a) \/ Mine(n, a)
        \/ Pay(a)

ReadNext == ProgramStep \/ NetworkStep

(* The program is a plain loop: it goes on whenever it is its turn.  That  *)
(* a request ends is not assumed, since the agent is made without a        *)
(* timeout, nor anything of the controller or the miners.                  *)
ReadSpec ==
    ReadInit /\ [][ReadNext]_readVars /\ WF_readVars(CallResolve \/ Respond)

-----------------------------------------------------------------------------
(* The transactions that may be found at one of the addresses. *)
TxidsAt(addresses) ==
    {TxidOf[n][a] : n \in DOMAIN History, a \in addresses} \cup {PaymentTxid}

(* The types of what this module adds to the resolver.  What is collected  *)
(* for the resolver answers requests of this round: no answer, and so no   *)
(* announcement at an address of an earlier round, is handed over twice    *)
(* (src/examples/read_did.rs:24-33).                                       *)
ReadTypeOK ==
    /\ mempool \subseteq (DOMAIN History) \X Address
    /\ chain \in [Address -> Seq(MinedTransaction)]
    /\ \A a \in Address : Len(chain[a]) <= height
    /\ height \in Nat /\ 0..height \subseteq Time
    /\ fetched \subseteq requests
    /\ responses \in Seq(Response)
    /\ \A k \in DOMAIN responses : responses[k].tx.txid \in TxidsAt(fetched)
    /\ driver \in {"Running", "Failed"}
    /\ start_version \in DOMAIN Versions

(* The announcements on the chain, each by its address and its position. *)
MinedAnnouncements ==
    {at \in Address \X (1..height) :
        /\ at[2] \in DOMAIN chain[at[1]]
        /\ chain[at[1]][at[2]].update # Payment}

(* No announcement has been pushed off the first page of its address. *)
PagesHold == \A at \in MinedAnnouncements : at[2] \in OnPage(at[1])

(* No announcement is later than the time bound of the resolution. *)
WithinBound ==
    target_condition.kind = "Time" =>
        \A at \in MinedAnnouncements :
            chain[at[1]][at[2]].block_time <= target_condition.time

(* The version to be found: that of the chain, or a lower one asked for.   *)
VersionSought ==
    IF target_condition.kind = "VersionId" /\ target_condition.version_id < start_version
    THEN target_condition.version_id ELSE start_version

(* The document returned was the current one of the DID at some moment     *)
(* between the start of the resolution and its end, however the chain grew *)
(* between two requests of a round: no version mined before the start is   *)
(* missed (src/resolver.rs:193, src/examples/read_did.rs:26), unless the   *)
(* chain has outrun the time bound or payments have pushed an announcement *)
(* off the page the code asks for (src/resolver.rs:251).  Even then it is  *)
(* a version the controller made.                                          *)
ReturnsCurrentVersion ==
    fsm = "Resolved" =>
        /\ current_version_id <= ChainVersion
        /\ contemporary_doc = Versions[current_version_id]
        /\ WithinBound /\ PagesHold => VersionSought <= current_version_id

(* At every beacon an announcement stands above those of the updates before *)
(* it, but for updates of documents older than any that had the beacon.    *)
Orderly ==
    \A at \in MinedAnnouncements :
        LET a == at[1]
        IN  \A earlier \in 1..(chain[a][at[2]].update - 1) :
                \/ \E k \in DOMAIN chain[a] :
                       k > at[2] /\ chain[a][k].update = earlier
                \/ \A v \in 1..earlier : a \notin BeaconAddresses(Versions[v])

(* The updates that were announced at more than one beacon. *)
Repeated ==
    {n \in DOMAIN History :
        \E a, b \in Address : a # b /\ IsMined(n, a) /\ IsMined(n, b)}

OneRepeated == \A m, n \in Repeated : m = n

(* A history is never refused as late, whenever the answers of a round are *)
(* taken, if beacons hold what a reader who comes to them needs and no     *)
(* second update is announced twice (src/resolver.rs:141, 150 and 182).    *)
OrderlyHistoryAccepted ==
    Orderly /\ OneRepeated /\ PagesHold => error # "LatePublishingError"

(* The sidecar data hold the update behind every mined announcement. *)
SidecarComplete ==
    \A at \in MinedAnnouncements :
        LET n == chain[at[1]][at[2]].update
        IN  signals_metadata[TxidOf[n][at[1]]] = History[n]

OnlyKnownBeacons == \A v \in 1..ChainVersion : OnlySingletons(Versions[v])

(* What an honest controller signed never fails a check, in whichever      *)
(* batch, order or number of copies it arrives: no update is rejected for  *)
(* its content, its proof or its place in the hash history                 *)
(* (src/document.rs:445, src/update.rs:76).  Besides late publishing there *)
(* are three reasons to refuse: an announcement still in the mempool, gaps *)
(* in the sidecar data and beacons of other types (src/resolver.rs:227,    *)
(* 282 and 263).                                                           *)
HonestUpdatesPass ==
    /\ error \in {"None", "LatePublishingError", "UnconfirmedSignal",
                  "SidecarDataNotFound", "UpdateHashMismatch",
                  "UnsupportedBeacon"}
    /\ SidecarComplete => error \notin {"SidecarDataNotFound", "UpdateHashMismatch"}
    /\ OnlyKnownBeacons => error # "UnsupportedBeacon"

(* A history that asks nothing special of its reader. *)
Readily ==
    /\ Orderly /\ OneRepeated /\ PagesHold /\ WithinBound
    /\ SidecarComplete /\ OnlyKnownBeacons

(* Such a history is read to its end: unless an answer held an announcement *)
(* not mined yet, a resolution that ends returns a document that was       *)
(* current while it ran, or the version asked for, however the chain grew  *)
(* between the requests (src/examples/read_did.rs:20-41).                  *)
HonestHistoryRead ==
    Readily /\ fsm \in Done /\ error # "UnconfirmedSignal" =>
        /\ fsm = "Resolved"
        /\ contemporary_doc = Versions[current_version_id]
        /\ VersionSought <= current_version_id
        /\ current_version_id <= ChainVersion

Unanswered == requests \ fetched

(* However the chain grows meanwhile, every step of the program leaves less *)
(* to do: the resolver advances, or a request is answered or fails for good *)
(* (src/examples/read_did.rs:26-33).                                       *)
ProgramAdvances ==
    [][\/ UNCHANGED <<vars, program>>
       \/ Advance
       \/ UNCHANGED vars /\ Running /\ ~Running'
       \/ /\ UNCHANGED <<vars, driver>>
          /\ StrictlyWithin(Unanswered', Unanswered)]_readVars

(* The program waits for the answer to a request. *)
Awaiting == Running /\ fsm = "WaitingForResponses" /\ fetched # requests

(* The program ends, whatever the controller and the miners do meanwhile   *)
(* (the loop of src/examples/read_did.rs:20-41), or some request is never  *)
(* answered: nothing else can keep it from its end.                        *)
Ends == <>(fsm \in Done \/ driver = "Failed") \/ <>[]Awaiting

(* src/error.rs:35: LatePublishingError means "Update payload was          *)
(* published late".  Here every update is mined before the next one is     *)
(* announced, so none would be reported, at least as long as the answers   *)
(* hold all announcements and none is repeated.                            *)
TimelyHistoryAccepted ==
    PagesHold /\ Repeated = {} => error # "LatePublishingError"

(* src/document.rs:161 calls the time "a bound for when to stop            *)
(* resolving": of what was on the chain when the resolution began, nothing *)
(* within the bound would be left out.                                     *)
NothingWithinBoundMissed ==
    fsm = "Resolved" /\ target_condition.kind = "Time" /\ PagesHold =>
        \A at \in MinedAnnouncements :
            LET mined == chain[at[1]][at[2]]
            IN  /\ mined.update < start_version
                /\ mined.block_time <= target_condition.time
                => mined.update < current_version_id
=============================================================================
