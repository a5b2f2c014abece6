---------------------------- MODULE HonestProofs ----------------------------
(***************************************************************************)
(* Why the program of src/examples/read_did.rs can refuse the history of   *)
(* an honest controller, and that it reads it otherwise.                   *)
(***************************************************************************)
EXTENDS OrderlyProofs

-----------------------------------------------------------------------------
(***************************************************************************)
(* What is held against the program is held against it for good: sidecar   *)
(* data and versions that suffice now have sufficed before.                *)
(***************************************************************************)
LEMMA MetadataKept ==
    ASSUME [ReadNext]_readVars
    PROVE  UNCHANGED signals_metadata
  <1>1. CASE Idle \/ (\E b \in Address : Request(b)) \/ Respond
    BY <1>1 DEF Idle, Request, Respond, ProcessResponses, vars, options
  <1> QED BY <1>1, ReadSteps, ResolveKeepsAnswers

(* An announcement on the chain, as one of MinedAnnouncements. *)
LEMMA MinedAt ==
    ASSUME ReadTypeOK, NEW a \in Address, NEW k \in DOMAIN chain[a],
           chain[a][k].update # Payment
    PROVE  <<a, k>> \in MinedAnnouncements
  <1>1. /\ DOMAIN chain[a] = 1..Len(chain[a]) /\ Len(chain[a]) \in Nat
        /\ Len(chain[a]) <= height /\ height \in Nat
    BY DEF ReadTypeOK
  <1>2. k \in 1..height
    BY <1>1
  <1> QED BY <1>2 DEF MinedAnnouncements

LEMMA SidecarStays ==
    ASSUME ReadTypeOK, ReadTypeOK', [ReadNext]_readVars, SidecarComplete'
    PROVE  SidecarComplete
  <1>1. ChainKept /\ UNCHANGED signals_metadata
    BY StepsKeepChain, MetadataKept
  <1> SUFFICES ASSUME NEW a \in Address, NEW k \in 1..height,
                      k \in DOMAIN chain[a], chain[a][k].update # Payment
               PROVE  LET n == chain[a][k].update
                      IN  signals_metadata[TxidOf[n][a]] = History[n]
    BY DEF SidecarComplete, MinedAnnouncements
  <1>2. PICK s \in DOMAIN chain'[a] : chain'[a][s] = chain[a][k]
    BY <1>1 DEF ChainKept
  <1>3. s \in 1..height'
    <2>1. /\ DOMAIN chain'[a] = 1..Len(chain'[a]) /\ Len(chain'[a]) \in Nat
          /\ Len(chain'[a]) <= height' /\ height' \in Nat
      BY DEF ReadTypeOK
    <2> QED BY <2>1
  <1>4. <<a, s>> \in MinedAnnouncements'
    BY <1>2, <1>3 DEF MinedAnnouncements
  <1> QED BY <1>1, <1>2, <1>4 DEF SidecarComplete

LEMMA KnownBeaconsStay ==
    ASSUME SafeInv, [ReadNext]_readVars, OnlyKnownBeacons'
    PROVE  OnlyKnownBeacons
  <1>1. ChainVersion \in Nat /\ ChainVersion <= ChainVersion'
    BY PrefixStep, ChainVersionType, HistoryAssumption DEF SafeInv, ReadTypeInv
  <1>2. ChainVersion' \in Nat
    <2>1. ChainVersion' = 1 + Cardinality(MinedUpdates')
      BY DEF ChainVersion, MinedUpdates
    <2>2. MinedUpdates' \in SUBSET (DOMAIN History)
      BY DEF MinedUpdates
    <2>3. Cardinality(MinedUpdates') \in Nat
      BY <2>2, UpdatesAreFinite
    <2> QED BY <2>1, <2>3
  <1>3. 1..ChainVersion \subseteq 1..ChainVersion'
    BY <1>1, <1>2
  <1> QED BY <1>3 DEF OnlyKnownBeacons

-----------------------------------------------------------------------------
(***************************************************************************)
(* The server's answers have outputs, and those of singleton beacons only. *)
(***************************************************************************)
Served(response) ==
    /\ response.beacon_type = "Singleton"
    /\ response.tx.last_output # "missing"

ServedInv ==
    \A response \in Range(responses) \cup Range(transactions) : Served(response)

LEMMA AnswerIsServed ==
    ASSUME NEW n, NEW a, NEW confirmed, NEW block_time
    PROVE  Served(AsResponse(TransactionFor(n, a, confirmed, block_time)))
  BY DEF Served, AsResponse, TransactionFor

LEMMA ServedStep ==
    ASSUME SafeInv, ServedInv, [ReadNext]_readVars
    PROVE  ServedInv'
  <1>1. CASE Idle
    BY <1>1 DEF Idle, vars, traffic, ServedInv
  <1>2. ASSUME NEW a \in Address, Request(a)
        PROVE  ServedInv'
    <2>1. PICK unmined \in MempoolResponses(a) :
              responses' = responses \o unmined \o MinedResponses(a)
      BY <1>2 DEF Request
    <2>2. /\ ReadTypeOK
          /\ responses \in Seq(Response)
          /\ unmined \in Seq(Response)
          /\ MinedResponses(a) \in Seq(Response)
      BY MempoolResponsesType, MinedResponsesType
         DEF SafeInv, ReadTypeInv, ReadTypeOK
    <2>3. Range(responses') =
              Range(responses) \cup Range(unmined) \cup Range(MinedResponses(a))
      BY <2>1, <2>2, AnswersJoined
    <2>4. \A response \in Range(unmined) : Served(response)
      <3>1. PICK order : unmined =
                [k \in DOMAIN order |->
                    AsResponse(TransactionFor(order[k], a, FALSE, height))]
        BY DEF MempoolResponses
      <3>2. \A k \in DOMAIN unmined :
                unmined[k] = AsResponse(TransactionFor(order[k], a, FALSE, height))
        BY <3>1
      <3> QED BY <3>2, AnswerIsServed DEF Range
    <2>5. \A response \in Range(MinedResponses(a)) : Served(response)
      BY AnswerIsServed DEF MinedResponses, Range
    <2>6. UNCHANGED transactions
      BY <1>2 DEF Request, vars, traffic
    <2> QED BY <2>3, <2>4, <2>5, <2>6 DEF ServedInv
  <1>3. CASE Respond
    BY <1>3 DEF Respond, ProcessResponses, ServedInv, Range
  <1>4. CASE UNCHANGED program /\ Resolve
    BY <1>4, ResolveKeepsAnswers DEF program, ServedInv
  <1> QED BY <1>1, <1>2, <1>3, <1>4, ReadSteps

-----------------------------------------------------------------------------
(***************************************************************************)
(* The three reasons.                                                      *)
(***************************************************************************)

(* A confirmed signal without its update is a gap in the sidecar data. *)
LEMMA RejectedIsIncomplete ==
    ASSUME SafeInv, AnswersInv, ServedInv, SidecarComplete,
           fsm = "FindNextSignals", NEW i \in Signals, transactions[i].tx.confirmed
    PROVE  SignalError(i) = "None"
  <1>1. /\ i \in DOMAIN transactions /\ IsSignal(transactions[i].tx)
        /\ ReadTypeOK /\ requests \subseteq Address
    BY DEF Signals, SafeInv, ReadTypeInv, TypeOK
  <1>2. PICK n \in DOMAIN History, a \in requests :
            Tells(transactions[i], n, a) /\ IsMined(n, a)
    BY <1>1 DEF AnswersInv, Told
  <1>3. PICK k \in DOMAIN chain[a] : chain[a][k].update = n
    BY <1>2 DEF IsMined
  <1>4. <<a, k>> \in MinedAnnouncements
    <2>1. n # Payment /\ a \in Address
      BY <1>1, HistoryAssumption DEF Payment
    <2> QED BY <1>1, <1>3, <2>1, MinedAt
  <1>5. UpdateAt(i) = History[n]
    BY <1>2, <1>3, <1>4 DEF SidecarComplete, UpdateAt, Tells
  <1>6. UpdateAt(i) \in Update
    BY <1>5, HistoryAssumption
  <1>7. UpdateAt(i) # NoMetadata /\ UpdateAt(i) # NoUpdate
    BY <1>6, OptionsAssumption
  <1>8. transactions[i].beacon_type = "Singleton"
    BY <1>1 DEF ServedInv, Served, Range
  <1>9. Announced(i)
    BY <1>2, <1>5 DEF Announced, Tells
  <1> QED BY <1>7, <1>8, <1>9 DEF SignalError

(* The document in hand is a version that the chain has reached. *)
LEMMA KnownBeaconsAsked ==
    ASSUME SafeInv, fsm # "Err", OnlyKnownBeacons
    PROVE  OnlySingletons(contemporary_doc)
  <1>1. current_version_id \in Nat /\ current_version_id >= 1
    BY DEF SafeInv, TypeOK
  <1>2. ChainVersion \in Nat
    BY ChainVersionType, HistoryAssumption
  <1>3. current_version_id \in 1..ChainVersion
    BY <1>1, <1>2 DEF SafeInv, CurrentInv
  <1> QED BY <1>3 DEF OnlyKnownBeacons, SafeInv, CurrentInv

(* The next update of the history passes every check. *)
LEMMA NextIsVerified ==
    ASSUME SafeInv, NEW i \in pending
    PROVE  ~RejectUpdate(i)
  <1> SUFFICES ASSUME RejectUpdate(i) PROVE FALSE
    OBVIOUS
  <1>1. /\ fsm = "Updates" /\ VersionAt(i) = current_version_id + 1
        /\ ~Verified(contemporary_doc, UpdateAt(i)) /\ i \in Signals
        /\ current_version_id \in Nat
    BY DEF RejectUpdate, Applying, Selected, IsNext, SafeInv, TypeOK
  <1>2. PICK n \in DOMAIN History : UpdateAt(i) = History[n] /\ VersionAt(i) = n + 1
    BY <1>1, CollectedIsMined DEF SafeInv, ReadTypeInv
  <1>3. n = current_version_id
    BY <1>1, <1>2, HistoryAssumption
  <1>4. contemporary_doc = Versions[n]
    BY <1>1, <1>3 DEF SafeInv, CurrentInv
  <1> QED BY <1>1, <1>2, <1>4, HistoryAssumption

(* No update of the history claims version 1. *)
LEMMA NoVersionOne ==
    ASSUME SafeInv, fsm = "Updates", NEW i \in Signals
    PROVE  VersionAt(i) # 1
  <1>1. PICK n \in DOMAIN History : VersionAt(i) = n + 1
    BY CollectedIsMined DEF SafeInv, ReadTypeInv
  <1> QED BY <1>1, HistoryAssumption

(* What an iteration of the loop may report of an honest update. *)
LEMMA HonestHandled ==
    ASSUME SafeInv, PanicInv, error \notin {"HistoryIndexOutOfBounds"},
           [ReadNext]_readVars, NEW i \in pending, HandleUpdate(i)
    PROVE  error' \in {error, "LatePublishingError"}
  <1>1. /\ fsm = "Updates"
        /\ UNCHANGED <<transactions, signals_metadata>>
    BY DEF HandleUpdate, ConfirmDuplicate, RejectSource, RejectUpdate,
           ReachTargetVersion, ApplyNext, ExtendDocument, Applying, LatePublished,
           Selected, options, traffic
  <1>2. CASE ConfirmDuplicate(i)
    <2>1. error' # "HistoryIndexOutOfBounds"
      <3> SUFFICES ASSUME error' = "HistoryIndexOutOfBounds" PROVE FALSE
        OBVIOUS
      <3>1. OnlyVersionOnePanics'
        BY PanicStep, ReadStepIsStep DEF SafeInv
      <3>2. PICK j \in Signals' : VersionAt(j)' = 1
        BY <3>1 DEF OnlyVersionOnePanics
      <3>3. j \in Signals /\ VersionAt(j) = 1
        BY <1>1, <3>2 DEF Signals, VersionAt, UpdateAt
      <3> QED BY <1>1, <3>3, NoVersionOne
    <2> QED BY <1>2, <2>1 DEF ConfirmDuplicate, Panic, Fail
  <1>3. CASE RejectSource(i) \/ LatePublished(i)
    BY <1>3 DEF RejectSource, LatePublished, Fail
  <1>4. CASE ReachTargetVersion(i) \/ ApplyNext(i)
    BY <1>4 DEF ReachTargetVersion, ApplyNext, Finish
  <1> QED BY <1>2, <1>3, <1>4, NextIsVerified DEF HandleUpdate

LEMMA HonestPassStep ==
    ASSUME SafeInv, SafeInv', PanicInv, AnswersInv, ServedInv,
           HonestUpdatesPass, [ReadNext]_readVars
    PROVE  HonestUpdatesPass'
  <1>1. /\ SidecarComplete' => SidecarComplete
        /\ OnlyKnownBeacons' => OnlyKnownBeacons
    BY SidecarStays, KnownBeaconsStay DEF SafeInv, ReadTypeInv
  <1>2. CASE error' \in {error, "LatePublishingError"}
    BY <1>1, <1>2 DEF HonestUpdatesPass
  <1>3. CASE Idle \/ (\E b \in Address : Request(b)) \/ Respond
    BY <1>2, <1>3 DEF Idle, Request, Respond, ProcessResponses, vars
  <1>4. CASE NoSignals \/ AfterTargetTime \/ CollectUpdates
    BY <1>2, <1>4 DEF NoSignals, AfterTargetTime, CollectUpdates, Finish
  <1>5. CASE ResolveInit \/ FinishBatch
    <2>1. fsm # "Err"
      BY <1>5 DEF ResolveInit, FinishBatch
    <2>2. error' = error \/ (error' = "UnsupportedBeacon" /\ ~OnlyKnownBeacons)
      BY <1>5, <2>1, KnownBeaconsAsked
         DEF ResolveInit, FinishBatch, NextSignalsRequests, Finish, Panic
    <2> QED BY <1>1, <1>2, <2>2 DEF HonestUpdatesPass
  <1>6. CASE SignalsPanic
    <2>1. PICK i \in DOMAIN transactions :
              /\ Unreadable(i)
              /\ Panic(IF IsSignal(transactions[i].tx) THEN "UnconfirmedSignal"
                                                       ELSE "NoOutputs")
      BY <1>6 DEF SignalsPanic
    <2>2. transactions[i].tx.last_output # "missing"
      BY DEF ServedInv, Served, Range
    <2>3. error' = "UnconfirmedSignal"
      BY <2>1, <2>2 DEF Unreadable, Panic
    <2> QED BY <2>3 DEF HonestUpdatesPass
  <1>7. CASE SignalRejected
    <2>1. PICK i \in Signals :
              /\ SignalError(i) # "None"
              /\ IF SignalError(i) \in Panics THEN Panic(SignalError(i))
                                              ELSE Fail(SignalError(i))
      BY <1>7 DEF SignalRejected
    <2>2. /\ fsm = "FindNextSignals" /\ i \in DOMAIN transactions
          /\ transactions[i].tx.confirmed
      BY <1>7, <2>1 DEF SignalRejected, Collecting, Readable, Scanning, Unreadable,
                        Signals
    <2>3. ~SidecarComplete
      BY <2>1, <2>2, RejectedIsIncomplete
    <2>4. transactions[i].beacon_type = "Singleton"
      BY <2>2 DEF ServedInv, Served, Range
    <2>5. error' \in {"SidecarDataNotFound", "UpdateHashMismatch"}
      BY <2>1, <2>4 DEF SignalError, Panic, Fail
    <2> QED BY <1>1, <2>3, <2>5 DEF HonestUpdatesPass
  <1>8. ASSUME NEW i \in pending, HandleUpdate(i)
        PROVE  HonestUpdatesPass'
    BY <1>2, <1>8, HonestHandled DEF HonestUpdatesPass
  <1> QED BY <1>3, <1>4, <1>5, <1>6, <1>7, <1>8, ReadSteps DEF Resolve

HonestInv == ServedInv /\ HonestUpdatesPass

LEMMA HonestInvariant == ReadSpec => []HonestInv
  <1>1. ReadInit => HonestInv
    BY DEF ReadInit, Init, HonestInv, ServedInv, HonestUpdatesPass, Range
  <1>2. SafeInv /\ SafeInv' /\ PanicInv /\ OrderInv /\ HonestInv /\ [ReadNext]_readVars
            => HonestInv'
    BY ServedStep, HonestPassStep DEF OrderInv, HonestInv
  <1>3. ReadSpec => []PanicInv
    BY ReadSpecIsStepSpec, PanicInvariant, PTL
  <1> QED
    BY <1>1, <1>2, <1>3, SafeInvariant, OrderInvariant, PTL DEF ReadSpec

(* For all histories, sidecar data, page sizes and chains: no update of an *)
(* honest controller fails a check (src/document.rs:445), and a refusal    *)
(* has one of the reasons named.                                           *)
THEOREM HonestPass == ReadSpec => []HonestUpdatesPass
  BY HonestInvariant, PTL DEF HonestInv

-----------------------------------------------------------------------------
(* A machine that failed says why. *)
FailureSays == fsm \in {"Err", "Panicked"} => error # "None"

LEMMA FailureStep ==
    ASSUME TypeOK, FailureSays, [Step]_vars
    PROVE  FailureSays'
  <1>1. CASE UNCHANGED vars
    BY <1>1 DEF vars, FailureSays
  <1>2. CASE \/ ResolveInit \/ NoSignals \/ AfterTargetTime \/ CollectUpdates
             \/ FinishBatch
             \/ \E answers \in Seq(Response) : ProcessResponses(answers)
    BY <1>2 DEF ResolveInit, NoSignals, AfterTargetTime, CollectUpdates,
                FinishBatch, ProcessResponses, NextSignalsRequests, Finish, Panic,
                FailureSays
  <1>3. CASE SignalsPanic \/ SignalRejected
    BY <1>3 DEF SignalsPanic, SignalRejected, Panic, Fail, FailureSays
  <1>4. ASSUME NEW i \in pending, HandleUpdate(i)
        PROVE  FailureSays'
    <2>1. CASE ConfirmDuplicate(i)
      BY <2>1 DEF ConfirmDuplicate, Selected, Panic, Fail, FailureSays
    <2>2. CASE RejectUpdate(i)
      BY <2>2 DEF RejectUpdate, Verified, Fail, FailureSays
    <2>3. CASE RejectSource(i) \/ LatePublished(i)
      BY <2>3 DEF RejectSource, LatePublished, Fail, FailureSays
    <2>4. CASE ReachTargetVersion(i) \/ ApplyNext(i)
      BY <2>4 DEF ReachTargetVersion, ApplyNext, ExtendDocument, Applying,
                  Selected, Finish, FailureSays
    <2> QED BY <1>4, <2>1, <2>2, <2>3, <2>4 DEF HandleUpdate
  <1> QED BY <1>1, <1>2, <1>3, <1>4 DEF Step, Resolve

LEMMA FailureInvariant == StepSpec => []FailureSays
  <1>1. Init => FailureSays
    BY DEF Init, FailureSays
  <1> QED BY <1>1, FailureStep, TypeInvariant, PTL DEF StepSpec

(* An honest history with orderly beacons and complete sidecar data, on    *)
(* the first pages and within the time bound, never ends in an error, nor  *)
(* in a version older than the one sought: late publishing is excluded by  *)
(* OrderlyAccepted, the other errors by HonestPass, and what is returned   *)
(* is what CurrentVersionReturned says (src/examples/read_did.rs:20-41).   *)
THEOREM HistoryRead == ReadSpec => []HonestHistoryRead
  <1>1. /\ FailureSays /\ HonestUpdatesPass
        /\ OrderlyHistoryAccepted /\ ReturnsCurrentVersion
        => HonestHistoryRead
    BY DEF FailureSays, HonestUpdatesPass, OrderlyHistoryAccepted,
           ReturnsCurrentVersion, HonestHistoryRead, Readily, Done
  <1>2. ReadSpec => []FailureSays
    BY ReadSpecIsStepSpec, FailureInvariant, PTL
  <1> QED
    BY <1>1, <1>2, HonestPass, OrderlyAccepted, CurrentVersionReturned, PTL

=============================================================================
