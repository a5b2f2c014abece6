------------------------------ MODULE Resolver ------------------------------
(***************************************************************************)
(* The sans-I/O state machine of src/resolver.rs that finds the current    *)
(* document of a DID on the Bitcoin blockchain.  Its owner calls resolve() *)
(* until a document or an error comes out; in between it sends the         *)
(* requests it is handed and returns the transactions found through        *)
(* process_responses().                                                    *)
(*                                                                         *)
(* resolve() and process_responses() consume the resolver, so nothing can  *)
(* interleave with a call; its loop over a batch of updates is one action  *)
(* per iteration.  The environment is the choice of the answers (Batches), *)
(* of the order in which HashMap and sort_unstable_by_key leave what they  *)
(* hold, and of the clock when the resolver is made.                       *)
(***************************************************************************)
EXTENDS DidDocument, Integers

CONSTANTS
    Txid,               \* transaction ids
    Time,               \* block times and bounds on them
    Clock,              \* what Utc::now() may return
    None,               \* an option the caller left out
    NoMetadata,         \* signals_metadata has no entry for a transaction
    NoUpdate,           \* it has one, whose btc1_update is None
    ResolutionOptions,  \* the options a caller may pass
    InitialDocument,    \* the documents the resolver may start from
    Batches             \* the answers process_responses() may be given

VARIABLES
    contemporary_doc,     \* the document built so far
    current_version_id,   \* and its version
    target_condition,     \* when to stop
    update_hash_history,  \* hashes pushed by steps 10.1 and 10.2.8
    signals_metadata,     \* sidecar data, keyed by transaction id
    request_cache,        \* the addresses requested so far
    requests,             \* those requested by the last call
    fsm,                  \* control state, see States
    transactions,         \* the answers, in the order they are iterated over
    pending,              \* positions of updates the loop has yet to handle
    contemporary_hash,    \* the loop's copy of the document's hash
    error,                \* why the machine is in Err or Panicked
    applied               \* history: the updates applied, with block times

machine == <<contemporary_doc, current_version_id, update_hash_history>>
options == <<target_condition, signals_metadata>>
traffic == <<request_cache, requests, transactions>>
vars == <<machine, options, traffic, fsm, pending, contemporary_hash, error,
          applied>>

(* "Updates" is the loop of step 10, which the code runs inside resolve(). *)
States == {"Init", "WaitingForResponses", "FindNextSignals", "Updates",
           "Resolved", "Err", "Panicked"}

Done == {"Resolved", "Err", "Panicked"}

Errors == {"None", "SidecarDataNotFound", "UpdateHashMismatch",
           "LatePublishingError", "Zcap", "InvalidDidUpdate",
           "ProofVerification", "InvalidUpdateProof"}

Panics == {"NoOutputs", "UnconfirmedSignal", "UnsupportedBeacon",
           "HistoryIndexOutOfBounds"}

(***************************************************************************)
(* A transaction as far as find_next_signals looks at it: whether it has   *)
(* outputs, whether the last one is an OP_RETURN followed by 32 bytes, and *)
(* whether and when it was confirmed.                                      *)
(***************************************************************************)
Transaction ==
    [txid : Txid, last_output : {"missing", "other", "signal"},
     signal_bytes : Sha256Hash, confirmed : BOOLEAN, block_time : Time]

Response == [beacon_type : BeaconType, tx : Transaction]

SidecarEntries == Update \cup {NoMetadata, NoUpdate}

ResolutionOptionsType ==
    [version_id : (1..MaxVersionId) \cup {None}, version_time : Time \cup {None},
     signals_metadata : [Txid -> SidecarEntries]]

TargetConditions ==
    [kind : {"VersionId"}, version_id : 1..MaxVersionId]
        \cup [kind : {"Time"}, time : Time]

ASSUME TimeAssumption == Time \subseteq Int /\ Clock \subseteq Time

ASSUME OptionsAssumption ==
    /\ ResolutionOptions \subseteq ResolutionOptionsType
    /\ None \notin 1..MaxVersionId
    /\ None \notin Time
    /\ NoMetadata \notin Update
    /\ NoUpdate \notin Update

ASSUME InitialAssumption == InitialDocument \subseteq Document

ASSUME BatchesAssumption == Batches \subseteq Seq(Response)

-----------------------------------------------------------------------------
(* TargetCondition::from: a version wins over a time, the default is now. *)
TargetConditionFrom(opts, now) ==
    IF opts.version_id # None
    THEN [kind |-> "VersionId", version_id |-> opts.version_id]
    ELSE [kind |-> "Time", time |-> IF opts.version_time # None
                                    THEN opts.version_time ELSE now]

InitialVersionId == 1

(* Resolver::new *)
Init ==
    /\ contemporary_doc \in InitialDocument
    /\ current_version_id = InitialVersionId
    /\ \E opts \in ResolutionOptions, now \in Clock :
           /\ target_condition = TargetConditionFrom(opts, now)
           /\ signals_metadata = opts.signals_metadata
    /\ update_hash_history = <<>>
    /\ request_cache = {}
    /\ requests = {}
    /\ fsm = "Init"
    /\ transactions = <<>>
    /\ pending = {}
    /\ contemporary_hash = DocHash(contemporary_doc)
    /\ error = "None"
    /\ applied = <<>>

-----------------------------------------------------------------------------
(* Slip: the version asked for is noticed once it is passed. *)
TargetPassed(version) ==
    /\ target_condition.kind = "VersionId"
    /\ target_condition.version_id < version

(* The version the caller asked for is the one just reached. *)
TargetReached(version) ==
    /\ target_condition.kind = "VersionId"
    /\ target_condition.version_id = version

AfterTarget(block_time) ==
    /\ target_condition.kind = "Time"
    /\ block_time > target_condition.time

(* find_next_signals keeps the transactions whose last output announces. *)
IsSignal(tx) == tx.last_output = "signal"

Signals == {i \in DOMAIN transactions : IsSignal(transactions[i].tx)}

FirstSignal(i) == i \in Signals /\ \A j \in Signals : i <= j

(* A position at which find_next_signals unwraps or reaches its todo!(). *)
Unreadable(i) ==
    LET tx == transactions[i].tx
    IN  \/ tx.last_output = "missing"
        \/ IsSignal(tx) /\ ~tx.confirmed

UpdateAt(i) == signals_metadata[transactions[i].tx.txid]

VersionAt(i) == UpdateAt(i).body.target_version_id

(* The check of process_singleton_beacon_signal against the signal bytes. *)
Announced(i) == UpdateHash(UpdateAt(i)) = transactions[i].tx.signal_bytes

(* What process_beacon_signals makes of the signal at position i. *)
SignalError(i) ==
    IF UpdateAt(i) = NoMetadata THEN "SidecarDataNotFound"
    ELSE IF transactions[i].beacon_type # "Singleton" THEN "UnsupportedBeacon"
    ELSE IF UpdateAt(i) = NoUpdate THEN "SidecarDataNotFound"
    ELSE IF ~Announced(i) THEN "UpdateHashMismatch"
    ELSE "None"

(* Slip: only the first document's beacons are asked. *)
FreshAddressesOnce ==
    IF request_cache = {} THEN BeaconAddresses(contemporary_doc) ELSE {}

(* Slip: the cache is written and never read. *)
FreshAddressesUncached == BeaconAddresses(contemporary_doc)

(* The addresses of the document's beacons that were never requested. *)
FreshAddresses == BeaconAddresses(contemporary_doc) \ request_cache

-----------------------------------------------------------------------------
Finish == fsm' = "Resolved" /\ UNCHANGED error

Fail(reason) == fsm' = "Err" /\ error' = reason

Panic(reason) == fsm' = "Panicked" /\ error' = reason

(***************************************************************************)
(* next_signals_requests: ask for the beacons not asked for yet.  resolve  *)
(* hands out even an empty set of requests from Init, and takes an empty   *)
(* one as the end of the resolution after a batch (step 12).               *)
(***************************************************************************)
NextSignalsRequests(whenEmpty) ==
    \/ /\ OnlySingletons(contemporary_doc)
       /\ requests' = FreshAddresses
       /\ request_cache' = request_cache \cup FreshAddresses
       /\ fsm' = IF FreshAddresses = {} THEN whenEmpty
                                        ELSE "WaitingForResponses"
       /\ UNCHANGED error
    \/ /\ ~OnlySingletons(contemporary_doc)
       /\ Panic("UnsupportedBeacon")
       /\ UNCHANGED <<request_cache, requests>>

(* resolve() in state Init: the initial version may be the one asked for. *)
ResolveInit ==
    /\ fsm = "Init"
    /\ \/ /\ TargetReached(current_version_id)
          /\ Finish
          /\ UNCHANGED <<request_cache, requests>>
       \/ /\ ~TargetReached(current_version_id)
          /\ NextSignalsRequests("WaitingForResponses")
    /\ UNCHANGED <<machine, options, transactions, pending, contemporary_hash,
                   applied>>

(* Slip: the state resolve() took is not replaced, its default remains. *)
ForgetResponses(responses) ==
    /\ fsm = "WaitingForResponses"
    /\ transactions' = responses
    /\ fsm' = "Init"
    /\ UNCHANGED <<machine, options, request_cache, requests, pending,
                   contemporary_hash, error, applied>>

(* process_responses() *)
ProcessResponses(responses) ==
    /\ fsm = "WaitingForResponses"
    /\ transactions' = responses
    /\ fsm' = "FindNextSignals"
    /\ UNCHANGED <<machine, options, request_cache, requests, pending,
                   contemporary_hash, error, applied>>

(***************************************************************************)
(* resolve() in state FindNextSignals, up to the loop over the updates.    *)
(***************************************************************************)
Scanning == fsm = "FindNextSignals"

SignalsPanic ==
    /\ Scanning
    /\ \E i \in DOMAIN transactions :
           /\ Unreadable(i)
           /\ Panic(IF IsSignal(transactions[i].tx) THEN "UnconfirmedSignal"
                                                    ELSE "NoOutputs")
    /\ UNCHANGED <<machine, options, traffic, pending, contemporary_hash,
                   applied>>

Readable == Scanning /\ \A i \in DOMAIN transactions : ~Unreadable(i)

(* Step 5 *)
NoSignals ==
    /\ Readable
    /\ Signals = {}
    /\ Finish
    /\ UNCHANGED <<machine, options, traffic, pending, contemporary_hash,
                   applied>>

(* Step 6 looks at the first signal only. *)
StopsAtTime ==
    \E i \in Signals : FirstSignal(i) /\ AfterTarget(transactions[i].tx.block_time)

AfterTargetTime ==
    /\ Readable
    /\ StopsAtTime
    /\ Finish
    /\ UNCHANGED <<machine, options, traffic, pending, contemporary_hash,
                   applied>>

Collecting == Readable /\ Signals # {} /\ ~StopsAtTime

(* Step 8: the first signal that yields no update ends the resolution. *)
SignalRejected ==
    /\ Collecting
    /\ \E i \in Signals :
           /\ SignalError(i) # "None"
           /\ \A j \in Signals : j < i => SignalError(j) = "None"
           /\ IF SignalError(i) \in Panics THEN Panic(SignalError(i))
                                           ELSE Fail(SignalError(i))
    /\ UNCHANGED <<machine, options, traffic, pending, contemporary_hash,
                   applied>>

CollectUpdates ==
    /\ Collecting
    /\ \A i \in Signals : SignalError(i) = "None"
    /\ pending' = Signals
    /\ contemporary_hash' = DocHash(contemporary_doc)
    /\ fsm' = "Updates"
    /\ UNCHANGED <<machine, options, traffic, error, applied>>

-----------------------------------------------------------------------------
(***************************************************************************)
(* The loop of step 10.  After the unstable sort of step 9 any pending     *)
(* update of the lowest version may be the next one.                       *)
(***************************************************************************)
Selected(i) ==
    /\ fsm = "Updates"
    /\ i \in pending
    /\ \A j \in pending : VersionAt(i) <= VersionAt(j)

IsDuplicate(i) == VersionAt(i) <= current_version_id

IsNext(i) == VersionAt(i) = current_version_id + 1

(* Slip: the source hash is not compared. *)
SourceUnchecked(update) == TRUE

SourceMatches(update) == update.body.source_hash = contemporary_hash

(* Slip: the history is taken to start with version 0. *)
HistoryIndexUnshifted(update) == update.body.target_version_id + 1

(* Slip: the history is taken to start with version 1. *)
HistoryIndexOffByOne(update) == update.body.target_version_id

(* Where confirm_duplicate looks: version 2 is the first one pushed. *)
HistoryIndex(update) == update.body.target_version_id - 1

(* Slip: a repeated version is taken for a duplicate. *)
AnyHistory(update, history) == TRUE

MatchesHistory(update, history) ==
    history[HistoryIndex(update)] = UnsecuredHash(update)

(* Step 10.1 pushes the document's hash, then calls confirm_duplicate. *)
PushedHistory == Append(update_hash_history, contemporary_hash)

ConfirmDuplicate(i) ==
    /\ Selected(i)
    /\ IsDuplicate(i)
    /\ update_hash_history' = PushedHistory
    /\ pending' = pending \ {i}
    /\ \/ /\ HistoryIndex(UpdateAt(i)) \notin DOMAIN PushedHistory
          /\ Panic("HistoryIndexOutOfBounds")
       \/ /\ HistoryIndex(UpdateAt(i)) \in DOMAIN PushedHistory
          /\ IF MatchesHistory(UpdateAt(i), PushedHistory)
             THEN UNCHANGED <<fsm, error>>
             ELSE Fail("LatePublishingError")
    /\ UNCHANGED <<contemporary_doc, current_version_id, options, traffic,
                   contemporary_hash, applied>>

(* Step 10.2.1 *)
RejectSource(i) ==
    /\ Selected(i)
    /\ IsNext(i)
    /\ ~SourceMatches(UpdateAt(i))
    /\ Fail("LatePublishingError")
    /\ UNCHANGED <<machine, options, traffic, pending, contemporary_hash,
                   applied>>

Applying(i) == Selected(i) /\ IsNext(i) /\ SourceMatches(UpdateAt(i))

(* Steps 10.2.2 and 10.2.3, the update fails a check *)
RejectUpdate(i) ==
    /\ Applying(i)
    /\ ~Verified(contemporary_doc, UpdateAt(i))
    /\ Fail(ApplyUpdateError(contemporary_doc, UpdateAt(i)))
    /\ contemporary_doc' = DocAfterUpdate(contemporary_doc, UpdateAt(i))
    /\ UNCHANGED <<current_version_id, update_hash_history, options, traffic,
                   pending, contemporary_hash, applied>>

(* Slip: step 10.2.4 is missing. *)
ExtendSameVersion(i) ==
    /\ Applying(i)
    /\ Verified(contemporary_doc, UpdateAt(i))
    /\ contemporary_doc' = PatchedDoc(contemporary_doc, UpdateAt(i))
    /\ pending' = pending \ {i}
    /\ applied' = Append(applied, [update |-> UpdateAt(i),
                                   block_time |-> transactions[i].tx.block_time])
    /\ UNCHANGED current_version_id

(* Steps 10.2.2 to 10.2.4 and what they leave in the history variable. *)
ExtendDocument(i) ==
    /\ Applying(i)
    /\ Verified(contemporary_doc, UpdateAt(i))
    /\ contemporary_doc' = PatchedDoc(contemporary_doc, UpdateAt(i))
    /\ current_version_id' = current_version_id + 1
    /\ pending' = pending \ {i}
    /\ applied' = Append(applied, [update |-> UpdateAt(i),
                                   block_time |-> transactions[i].tx.block_time])

(* Step 13, reached before the update enters the hash history *)
ReachTargetVersion(i) ==
    /\ ExtendDocument(i)
    /\ TargetReached(current_version_id + 1)
    /\ Finish
    /\ UNCHANGED <<update_hash_history, options, traffic, contemporary_hash>>

(* Steps 10.2.5 to 10.2.9 *)
ApplyNext(i) ==
    /\ ExtendDocument(i)
    /\ ~TargetReached(current_version_id + 1)
    /\ update_hash_history' =
           Append(update_hash_history, UnsecuredHash(UpdateAt(i)))
    /\ contemporary_hash' = DocHash(contemporary_doc')
    /\ UNCHANGED <<options, traffic, fsm, error>>

(* Step 10.3 *)
LatePublished(i) ==
    /\ Selected(i)
    /\ VersionAt(i) > current_version_id + 1
    /\ Fail("LatePublishingError")
    /\ UNCHANGED <<machine, options, traffic, pending, contemporary_hash,
                   applied>>

(* Step 12 *)
FinishBatch ==
    /\ fsm = "Updates"
    /\ pending = {}
    /\ NextSignalsRequests("Resolved")
    /\ UNCHANGED <<machine, options, transactions, pending, contemporary_hash,
                   applied>>

-----------------------------------------------------------------------------
HandleUpdate(i) ==
    \/ ConfirmDuplicate(i)
    \/ RejectSource(i)
    \/ RejectUpdate(i)
    \/ ReachTargetVersion(i)
    \/ ApplyNext(i)
    \/ LatePublished(i)

(* Everything resolve() does. *)
Resolve ==
    \/ ResolveInit
    \/ SignalsPanic
    \/ NoSignals
    \/ AfterTargetTime
    \/ SignalRejected
    \/ CollectUpdates
    \/ \E i \in pending : HandleUpdate(i)
    \/ FinishBatch

Next ==
    \/ Resolve
    \/ \E responses \in Batches : ProcessResponses(responses)

Spec == Init /\ [][Next]_vars

(***************************************************************************)
(* The owner drives the machine in a loop until it ends, as the example    *)
(* program does: no call it can make is put off for ever.  That its        *)
(* requests are answered is assumed of the server; ReadDid does without.   *)
(***************************************************************************)
FairSpec == Spec /\ WF_vars(Next)

-----------------------------------------------------------------------------
AppliedEntry == [update : Update, block_time : Time]

(* Every variable holds what the code's types allow.  Outside Err the      *)
(* document parses, in the loop every collected update is the one the      *)
(* sidecar data supplied for its transaction, and the version never leaves *)
(* the range of targetVersionId, so no checked_add (src/resolver.rs:147)   *)
(* can fail.                                                               *)
TypeOK ==
    /\ contemporary_doc \in Json
    /\ fsm # "Err" => contemporary_doc \in Document
    /\ current_version_id \in 1..MaxVersionId
    /\ target_condition \in TargetConditions
    /\ update_hash_history \in Seq(Sha256Hash)
    /\ signals_metadata \in [Txid -> SidecarEntries]
    /\ request_cache \subseteq Address
    /\ requests \subseteq request_cache
    /\ fsm \in States
    /\ transactions \in Seq(Response)
    /\ pending \subseteq Signals
    /\ fsm \in {"Init", "WaitingForResponses", "FindNextSignals"} => pending = {}
    /\ fsm = "Updates" => \A i \in Signals : SignalError(i) = "None"
    /\ contemporary_hash \in Sha256Hash
    /\ error \in Errors \cup Panics
    /\ applied \in Seq(AppliedEntry)

(* The hash is that of the document the first n applied updates led to. *)
ReachedBy(n, hash) ==
    IF n = 0 THEN hash \in {DocHash(doc) : doc \in InitialDocument}
             ELSE hash = applied[n].update.body.target_hash

(* Chain of custody: whatever batches arrive, the updates that were        *)
(* applied (src/resolver.rs:147-179) have consecutive versions from 2 on,  *)
(* each was made for the document the one before it led to, and the last   *)
(* one led to the document in hand.  In Err alone a half-applied update    *)
(* may be in the document (src/document.rs:478).                           *)
ChainOfCustody ==
    /\ current_version_id = Len(applied) + 1
    /\ \A n \in DOMAIN applied :
           /\ applied[n].update.body.target_version_id = n + 1
           /\ ReachedBy(n - 1, applied[n].update.body.source_hash)
    /\ fsm # "Err" => ReachedBy(Len(applied), DocHash(contemporary_doc))

(* The replaced document lists the key that signed the body and the proof  *)
(* of the update, in a capability for its DID.                             *)
SignedFor(update, doc) ==
    LET inner == update.proof.inner
        key   == Fields[doc].verification_method[inner.verification_method]
    IN  /\ inner.capability = Fields[doc].id
        /\ inner.proof_purpose = "capabilityInvocation"
        /\ key \in Key
        /\ update.proof.proof_value =
               [key |-> key, body |-> update.body, inner |-> inner]

(* Nobody but its controllers changes a document: every applied update was *)
(* signed, as a whole, with a key of the very document it replaced, be it  *)
(* one that an earlier update of the same batch brought in or took away    *)
(* (src/document.rs:458, src/cryptosuite.rs:58).                           *)
OnlyControllersChange ==
    \A n \in DOMAIN applied :
        \E doc \in Document :
            /\ ReachedBy(n - 1, DocHash(doc))
            /\ SignedFor(applied[n].update, doc)

(* It says, but for its proof, what the update applied for its version does. *)
RepeatsApplied(i) ==
    \E n \in DOMAIN applied :
        /\ n + 1 = VersionAt(i)
        /\ applied[n].update.body = UpdateAt(i).body

(* As JSON it is, without its proof, the document of an earlier version.   *)
RepeatsDocument(i) ==
    \E n \in 0..Len(applied) :
        /\ n + 1 < VersionAt(i)
        /\ ReachedBy(n, UnsecuredHash(UpdateAt(i)))

(* No fork survives a batch: every update the loop let through, applied or *)
(* confirmed as a duplicate (src/resolver.rs:140), has but for its proof   *)
(* the content of the one applied for its version, whatever was pushed     *)
(* into the hash history in between.  Duplicates push the hashes of        *)
(* documents, so there is one exception, the fork whose JSON without its   *)
(* proof is that of an earlier version of the document.                    *)
NoForkAccepted ==
    fsm = "Updates" =>
        \A i \in Signals \ pending : RepeatsApplied(i) \/ RepeatsDocument(i)

(* confirm_duplicate indexes the hash history (src/update.rs:76) without a *)
(* check: the index exists for every version an update may repeat, and the *)
(* panic is left to an update that claims to produce version 1.            *)
OnlyVersionOnePanics ==
    error = "HistoryIndexOutOfBounds" => \E i \in Signals : VersionAt(i) = 1

(* A resolver asked for a version never builds a later one, and stops as   *)
(* soon as it has it (src/resolver.rs:96 and 165).                         *)
NeverPastTarget ==
    target_condition.kind = "VersionId" =>
        /\ current_version_id <= target_condition.version_id
        /\ current_version_id = target_condition.version_id =>
               fsm \in {"Init", "Resolved"}

(* Unless it has reached the version asked for, a resolution does not end  *)
(* before every beacon of the document it returns was asked for updates    *)
(* (src/resolver.rs:193).                                                  *)
BeaconsQueried ==
    fsm = "Resolved" =>
        \/ TargetReached(current_version_id)
        \/ BeaconAddresses(contemporary_doc) \subseteq request_cache

(* What is left to do: the addresses never asked for, ...                  *)
Unasked == Address \ request_cache

(* ... the calls of the round, and in the loop the pending updates.        *)
Phase == IF fsm \in Done THEN 0
         ELSE [Updates |-> 1, FindNextSignals |-> 2, WaitingForResponses |-> 3,
               Init |-> 4][fsm]

StrictlyWithin(S, T) == S \subseteq T /\ S # T

(* A step after which less is left, addresses before calls before updates. *)
Advance ==
    \/ StrictlyWithin(Unasked', Unasked)
    \/ Unasked' = Unasked /\ Phase' < Phase
    \/ Unasked' = Unasked /\ Phase' = Phase /\ StrictlyWithin(pending', pending)

(* Every step leaves less to do than there was: no chain of updates,       *)
(* repeated answer or beacon that comes back starts anything over, and     *)
(* nothing follows the end (src/resolver.rs:91 and 258).                   *)
AlwaysAdvances == [][Advance]_vars

(* A resolution ends: each round asks for addresses never asked for, so a  *)
(* chain of updates cannot make the machine go round for ever.             *)
Terminates == <>(fsm \in Done)
=============================================================================
