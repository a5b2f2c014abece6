--------------------------- MODULE ResolverProofs ---------------------------
(***************************************************************************)
(* What holds of the resolver for all documents, updates, sidecar data,    *)
(* options and answers.                                                    *)
(***************************************************************************)
EXTENDS ResolverLog, TLAPS

(***************************************************************************)
(* What is proved holds whatever answers of the right type are given, so   *)
(* that it also holds of a program that drives the resolver.               *)
(***************************************************************************)
Step ==
    \/ Resolve
    \/ \E responses \in Seq(Response) : ProcessResponses(responses)

StepSpec == Init /\ [][Step]_vars

(* The answers of the specification are some of them. *)
LEMMA SpecIsStepSpec == Spec => StepSpec
<1>1. [Next]_vars => [Step]_vars
  BY BatchesAssumption DEF Next, Step
<1> QED
  BY <1>1, PTL DEF Spec, StepSpec

(* A verified update leads to a conformant document, the one whose hash    *)
(* the update names (src/document.rs:482-490).                             *)
LEMMA VerifiedTarget ==
    ASSUME NEW doc \in Document, NEW update \in Update, Verified(doc, update)
    PROVE  /\ PatchedDoc(doc, update) \in Document
           /\ DocHash(PatchedDoc(doc, update)) = update.body.target_hash
BY DEF Verified, ApplyUpdateError, PatchError

(* A failed application leaves JSON in the document and reports one of the *)
(* errors of Btc1Error.                                                    *)
LEMMA RejectedUpdate ==
    ASSUME NEW doc \in Document, NEW update \in Update
    PROVE  /\ DocAfterUpdate(doc, update) \in Json
           /\ ApplyUpdateError(doc, update) \in Errors
<1>1. update.body.patch \in Patch
  BY UpdateAssumption DEF UpdateBody
<1>2. doc \in Json
  BY DocumentAssumption
<1>3. DocAfterUpdate(doc, update) \in Json
  BY <1>1, <1>2, PatchAssumption DEF DocAfterUpdate, PatchedDoc
<1>4. ApplyUpdateError(doc, update) \in Errors
  BY DEF ApplyUpdateError, ProofError, PatchError, Errors
<1> QED BY <1>3, <1>4

(* Documents and updates are hashed. *)
LEMMA HashTypes ==
    /\ \A doc \in Json : DocHash(doc) \in Sha256Hash
    /\ \A u \in Update : /\ UpdateHash(u) \in Sha256Hash
                         /\ UnsecuredHash(u) \in Sha256Hash
<1>1. \A u \in Update : UpdateJson[u] \in Json /\ UnsecuredJson[u.body] \in Json
  BY JsonAssumption
<1> QED
  BY <1>1 DEF DocHash, UpdateHash, UnsecuredHash, Sha256Hash

(* A hash tells updates apart, and what they say but for their proofs. *)
LEMMA HashesInjective ==
    ASSUME NEW u \in Update, NEW v \in Update
    PROVE  /\ UpdateHash(u) = UpdateHash(v) => u = v
           /\ UnsecuredHash(u) = UnsecuredHash(v) => u.body = v.body
<1>1. /\ UpdateJson[u] = UpdateJson[v] => u = v
      /\ UnsecuredJson[u.body] = UnsecuredJson[v.body] => u.body = v.body
  BY JsonAssumption
<1> QED
  BY <1>1 DEF UpdateHash, UnsecuredHash, Hash

(* In the loop every signal has an update of the sidecar data behind it. *)
LEMMA CollectedUpdate ==
    ASSUME TypeOK, fsm = "Updates", NEW i \in Signals
    PROVE  /\ UpdateAt(i) \in Update
           /\ UpdateAt(i).body \in UpdateBody
           /\ VersionAt(i) \in 1..MaxVersionId
           /\ transactions[i].tx.block_time \in Time
<1>1. transactions[i] \in Response
  BY DEF TypeOK, Signals
<1>2. UpdateAt(i) \in SidecarEntries
  BY <1>1 DEF TypeOK, UpdateAt, Response, Transaction
<1>3. UpdateAt(i) \in Update
  BY <1>2 DEF TypeOK, SignalError, SidecarEntries
<1>4. UpdateAt(i).body \in UpdateBody
  BY <1>3, UpdateAssumption
<1> QED
  BY <1>1, <1>3, <1>4 DEF VersionAt, UpdateBody, Response, Transaction

-----------------------------------------------------------------------------
(* next_signals_requests keeps the types. *)
LEMMA RequestsType ==
    ASSUME TypeOK, fsm # "Err", NEW whenEmpty \in States \ {"Updates"},
           NextSignalsRequests(whenEmpty)
    PROVE  /\ request_cache' \subseteq Address
           /\ requests' \subseteq request_cache'
           /\ fsm' \in States \ {"Updates"}
           /\ error' \in Errors \cup Panics
<1>1. BeaconAddresses(contemporary_doc) \subseteq Address
  BY DocumentAssumption
     DEF TypeOK, BeaconAddresses, DocumentFields, Beacon
<1> QED
  BY <1>1 DEF TypeOK, NextSignalsRequests, FreshAddresses, Panic, States, Panics

(* The initial state is well typed. *)
LEMMA InitType == Init => TypeOK
<1> SUFFICES ASSUME Init PROVE TypeOK
  OBVIOUS
<1>1. contemporary_doc \in Document /\ contemporary_doc \in Json
  BY InitialAssumption, DocumentAssumption DEF Init
<1>2. /\ target_condition \in TargetConditions
      /\ signals_metadata \in [Txid -> SidecarEntries]
  <2>1. PICK opts \in ResolutionOptions, now \in Clock :
            /\ target_condition = TargetConditionFrom(opts, now)
            /\ signals_metadata = opts.signals_metadata
    BY DEF Init
  <2>2. opts \in ResolutionOptionsType
    BY OptionsAssumption
  <2> QED
    BY <2>1, <2>2, TimeAssumption
       DEF TargetConditionFrom, TargetConditions, ResolutionOptionsType
<1>3. contemporary_hash \in Sha256Hash
  BY <1>1, HashTypes DEF Init
<1>4. current_version_id \in 1..MaxVersionId
  BY VersionAssumption DEF Init, InitialVersionId
<1> QED
  BY <1>1, <1>2, <1>3, <1>4 DEF Init, TypeOK, States, Errors, Signals

(* Every step keeps the types. *)
LEMMA NextType == TypeOK /\ [Step]_vars => TypeOK'
<1> SUFFICES ASSUME TypeOK, [Step]_vars PROVE TypeOK'
  OBVIOUS
<1>1. CASE ResolveInit
  <2>1. /\ request_cache' \subseteq Address
        /\ requests' \subseteq request_cache'
        /\ fsm' \in States \ {"Updates"}
        /\ error' \in Errors \cup Panics
    BY <1>1, RequestsType DEF ResolveInit, Finish, States, TypeOK
  <2> QED
    BY <1>1, <2>1 DEF ResolveInit, machine, options, TypeOK, Signals
<1>2. ASSUME NEW responses \in Seq(Response), ProcessResponses(responses)
      PROVE  TypeOK'
  BY <1>2 DEF ProcessResponses, machine, options, TypeOK, Signals, States
<1>3. CASE SignalsPanic
  BY <1>3 DEF SignalsPanic, Scanning, Panic, machine, options, traffic, TypeOK, Signals,
              States, Panics
<1>4. CASE NoSignals
  BY <1>4 DEF NoSignals, Readable, Scanning, Finish, machine, options, traffic, TypeOK, Signals,
              States
<1>5. CASE AfterTargetTime
  BY <1>5 DEF AfterTargetTime, Readable, Scanning, Finish, machine, options, traffic, TypeOK,
              Signals, States
<1>6. CASE SignalRejected
  BY <1>6 DEF SignalRejected, Collecting, Readable, Scanning, SignalError, Fail, Panic, machine, options,
              traffic, TypeOK, Signals, States, Errors, Panics
<1>7. CASE CollectUpdates
  <2>1. contemporary_hash' \in Sha256Hash
    BY <1>7, HashTypes DEF CollectUpdates, TypeOK
  <2> QED
    BY <1>7, <2>1 DEF CollectUpdates, Collecting, Readable, Scanning, SignalError,
              UpdateAt, Announced, machine, options, traffic, TypeOK, Signals, States
<1>8. ASSUME NEW i \in pending, HandleUpdate(i)
      PROVE  TypeOK'
  <2>1. fsm = "Updates" /\ i \in Signals
    BY <1>8 DEF HandleUpdate, ConfirmDuplicate, RejectSource, RejectUpdate,
                ReachTargetVersion, ApplyNext, ExtendDocument, Applying,
                LatePublished, Selected, TypeOK
  <2>2. /\ UpdateAt(i) \in Update
        /\ VersionAt(i) \in 1..MaxVersionId
        /\ transactions[i].tx.block_time \in Time
    BY <2>1, CollectedUpdate
  <2>3. CASE ConfirmDuplicate(i)
    BY <2>1, <2>3 DEF ConfirmDuplicate, PushedHistory, Panic, Fail, options, traffic,
                TypeOK, Signals, SignalError, UpdateAt, Announced, States,
                Errors, Panics
  <2>4. CASE RejectSource(i)
    BY <2>4 DEF RejectSource, Fail, machine, options, traffic, TypeOK, Signals,
                States, Errors
  <2>5. CASE RejectUpdate(i)
    <3>1. contemporary_doc \in Document
      BY <2>1 DEF TypeOK
    <3>2. /\ DocAfterUpdate(contemporary_doc, UpdateAt(i)) \in Json
          /\ ApplyUpdateError(contemporary_doc, UpdateAt(i)) \in Errors
      BY <2>2, <3>1, RejectedUpdate
    <3> QED
      BY <2>5, <3>2 DEF RejectUpdate, Fail, options, traffic, TypeOK, Signals,
                        States
  <2>6. ASSUME ExtendDocument(i)
        PROVE  /\ contemporary_doc' \in Document
               /\ contemporary_doc' \in Json
               /\ current_version_id' \in 1..MaxVersionId
               /\ pending' \subseteq Signals
               /\ applied' \in Seq(AppliedEntry)
    <3>1. contemporary_doc \in Document /\ Verified(contemporary_doc, UpdateAt(i))
      BY <2>1, <2>6 DEF TypeOK, ExtendDocument
    <3>2. contemporary_doc' \in Document
      BY <2>2, <2>6, <3>1, VerifiedTarget DEF ExtendDocument
    <3> QED
      BY <2>2, <2>6, <3>2, DocumentAssumption
         DEF ExtendDocument, Applying, IsNext, TypeOK, AppliedEntry
  <2>7. CASE ReachTargetVersion(i)
    BY <2>6, <2>7 DEF ReachTargetVersion, Finish, options, traffic, TypeOK,
                      Signals, States
  <2>8. CASE ApplyNext(i)
    <3>1. /\ contemporary_hash' \in Sha256Hash
          /\ update_hash_history' \in Seq(Sha256Hash)
      BY <2>2, <2>6, <2>8, HashTypes DEF ApplyNext, TypeOK
    <3> QED
      BY <2>2, <2>6, <2>8, <3>1 DEF ApplyNext, options, traffic, TypeOK, Signals,
                        SignalError, UpdateAt, Announced
  <2>9. CASE LatePublished(i)
    BY <2>9 DEF LatePublished, Fail, machine, options, traffic, TypeOK, Signals,
                States, Errors
  <2> QED
    BY <1>8, <2>3, <2>4, <2>5, <2>7, <2>8, <2>9 DEF HandleUpdate
<1>9. CASE FinishBatch
  <2>1. /\ request_cache' \subseteq Address
        /\ requests' \subseteq request_cache'
        /\ fsm' \in States \ {"Updates"}
        /\ error' \in Errors \cup Panics
    BY <1>9, RequestsType DEF FinishBatch, States, TypeOK
  <2> QED
    BY <1>9, <2>1 DEF FinishBatch, machine, options, TypeOK, Signals
<1>10. CASE UNCHANGED vars
  BY <1>10 DEF vars, machine, options, traffic, TypeOK, Signals, SignalError,
               UpdateAt, Announced
<1> QED
  BY <1>1, <1>2, <1>3, <1>4, <1>5, <1>6, <1>7, <1>8, <1>9, <1>10
     DEF Step, Resolve

(* The type invariant, under any answers. *)
LEMMA TypeInvariant == StepSpec => []TypeOK
BY InitType, NextType, PTL DEF StepSpec

(* Every variable keeps to its type, and the version to the range in which *)
(* it can be incremented, in every behaviour (src/resolver.rs:147).        *)
THEOREM TypeCorrect == Spec => []TypeOK
BY TypeInvariant, SpecIsStepSpec, PTL

-----------------------------------------------------------------------------
(***************************************************************************)
(* Chain of custody.  It is not inductive alone: SourceMatches compares    *)
(* with the loop's copy of the document hash, which has to be fresh.       *)
(***************************************************************************)
HashFresh == fsm = "Updates" => contemporary_hash = DocHash(contemporary_doc)

CustodyInv == TypeOK /\ ChainOfCustody /\ HashFresh

(* A step applies one update, or keeps the applied updates and, unless it  *)
(* fails, the document.                                                    *)
LEMMA StepKinds ==
    ASSUME TypeOK, [Step]_vars
    PROVE  \/ /\ UNCHANGED <<applied, current_version_id>>
              /\ fsm' # "Err" => fsm # "Err" /\ UNCHANGED contemporary_doc
           \/ \E i \in pending : ExtendDocument(i)
<1>1. CASE UNCHANGED vars
  BY <1>1 DEF vars, machine
<1>2. ASSUME NEW i \in pending, HandleUpdate(i)
      PROVE  \/ /\ UNCHANGED <<applied, current_version_id>>
                /\ fsm' # "Err" => fsm # "Err" /\ UNCHANGED contemporary_doc
             \/ ExtendDocument(i)
  BY <1>2 DEF HandleUpdate, ConfirmDuplicate, RejectSource, RejectUpdate,
              ReachTargetVersion, ApplyNext, LatePublished, Applying, Selected,
              Fail, machine
<1>3. ASSUME NEW responses \in Seq(Response), ProcessResponses(responses)
      PROVE  /\ UNCHANGED <<applied, current_version_id, contemporary_doc>>
             /\ fsm # "Err"
  BY <1>3 DEF ProcessResponses, machine
<1>4. CASE \/ ResolveInit \/ SignalsPanic \/ NoSignals \/ AfterTargetTime
           \/ SignalRejected \/ CollectUpdates \/ FinishBatch
  BY <1>4 DEF ResolveInit, SignalsPanic, NoSignals, AfterTargetTime,
              SignalRejected, CollectUpdates, FinishBatch, Collecting, Readable,
              Scanning, machine
<1> QED
  BY <1>1, <1>2, <1>3, <1>4 DEF Step, Resolve

(* The step that applies an update appends a link to the chain. *)
LEMMA ExtendKeepsCustody ==
    ASSUME CustodyInv, NEW i \in pending, ExtendDocument(i)
    PROVE  ChainOfCustody'
<1> DEFINE update == UpdateAt(i)
<1>1. fsm = "Updates" /\ i \in Signals
  BY DEF ExtendDocument, Applying, Selected, CustodyInv, TypeOK
<1>2. /\ update \in Update
      /\ contemporary_doc \in Document
      /\ Verified(contemporary_doc, update)
  BY <1>1, CollectedUpdate DEF CustodyInv, TypeOK, ExtendDocument
<1>3. DocHash(contemporary_doc') = update.body.target_hash
  BY <1>2, VerifiedTarget DEF ExtendDocument
<1>4. /\ applied \in Seq(AppliedEntry)
      /\ current_version_id = Len(applied) + 1
      /\ update.body.target_version_id = current_version_id + 1
      /\ current_version_id' = current_version_id + 1
  BY DEF CustodyInv, TypeOK, ChainOfCustody, ExtendDocument, Applying, IsNext,
         VersionAt
<1>5. ReachedBy(Len(applied), update.body.source_hash)
  BY <1>1 DEF CustodyInv, ChainOfCustody, HashFresh, ExtendDocument, Applying,
              SourceMatches
<1>6. /\ Len(applied') = Len(applied) + 1
      /\ \A n \in DOMAIN applied : applied'[n] = applied[n]
      /\ applied'[Len(applied')].update = update
      /\ DOMAIN applied = 1..Len(applied) /\ DOMAIN applied' = 1..Len(applied')
  BY <1>4 DEF ExtendDocument
<1>7. ASSUME NEW n \in DOMAIN applied'
      PROVE  /\ applied'[n].update.body.target_version_id = n + 1
             /\ ReachedBy(n - 1, applied[n].update.body.source_hash)'
  <2>1. CASE n = Len(applied')
    BY <1>4, <1>5, <1>6, <2>1 DEF ReachedBy
  <2>2. CASE n # Len(applied')
    <3>1. n \in DOMAIN applied
      BY <1>4, <1>6, <2>2
    <3> QED
      BY <1>4, <1>6, <3>1 DEF CustodyInv, ChainOfCustody, ReachedBy
  <2> QED
    BY <2>1, <2>2
<1>8. ReachedBy(Len(applied), DocHash(contemporary_doc))'
  BY <1>3, <1>4, <1>6 DEF ReachedBy
<1> QED
  BY <1>4, <1>6, <1>7, <1>8 DEF ChainOfCustody

(* Whoever enters the loop or goes round it has the current hash. *)
LEMMA HashStaysFresh == CustodyInv /\ [Step]_vars => HashFresh'
<1> SUFFICES ASSUME CustodyInv, [Step]_vars, fsm' = "Updates"
             PROVE  contemporary_hash' = DocHash(contemporary_doc')
  BY DEF HashFresh
<1>1. CASE UNCHANGED vars
  BY <1>1 DEF vars, machine, CustodyInv, HashFresh
<1>2. ASSUME NEW i \in pending, HandleUpdate(i)
      PROVE  contemporary_hash' = DocHash(contemporary_doc')
  BY <1>2 DEF HandleUpdate, ConfirmDuplicate, RejectSource, RejectUpdate,
              ReachTargetVersion, ApplyNext, LatePublished, Applying, Selected,
              Fail, Finish, CustodyInv, HashFresh
<1>3. CASE CollectUpdates
  BY <1>3 DEF CollectUpdates, machine
<1>4. ASSUME \/ ResolveInit \/ SignalsPanic \/ NoSignals \/ AfterTargetTime
             \/ SignalRejected \/ FinishBatch
             \/ \E responses \in Seq(Response) : ProcessResponses(responses)
      PROVE  FALSE
  BY <1>4 DEF ResolveInit, SignalsPanic, NoSignals, AfterTargetTime,
              SignalRejected, FinishBatch, ProcessResponses, Finish, Fail, Panic,
              NextSignalsRequests
<1> QED
  BY <1>1, <1>2, <1>3, <1>4 DEF Step, Resolve

(* The inductive invariant behind the chain of custody. *)
LEMMA CustodyInvariant == StepSpec => []CustodyInv
<1>1. Init => CustodyInv
  BY InitType
     DEF Init, InitialVersionId, CustodyInv, ChainOfCustody, ReachedBy, HashFresh
<1>2. CustodyInv /\ [Step]_vars => CustodyInv'
  <2> SUFFICES ASSUME CustodyInv, [Step]_vars PROVE ChainOfCustody'
    BY NextType, HashStaysFresh DEF CustodyInv
  <2>1. CASE /\ UNCHANGED <<applied, current_version_id>>
             /\ fsm' # "Err" => fsm # "Err" /\ UNCHANGED contemporary_doc
    BY <2>1 DEF CustodyInv, ChainOfCustody, ReachedBy
  <2>2. CASE \E i \in pending : ExtendDocument(i)
    BY <2>2, ExtendKeepsCustody
  <2> QED
    BY <2>1, <2>2, StepKinds DEF CustodyInv
<1> QED
  BY <1>1, <1>2, PTL DEF StepSpec

(* However the batches are composed, the document in hand is the end of an *)
(* unbroken chain of updates from the initial one (src/resolver.rs:147).   *)
THEOREM ChainOfCustodyHolds == Spec => []ChainOfCustody
BY CustodyInvariant, SpecIsStepSpec, PTL DEF CustodyInv

-----------------------------------------------------------------------------
(* Whatever apply_update lets pass is signed for the document by a key it  *)
(* lists (src/document.rs:445-475).                                        *)
LEMMA VerifiedIsSigned ==
    ASSUME NEW doc \in Document, NEW update \in Update, Verified(doc, update)
    PROVE  SignedFor(update, doc)
<1> DEFINE inner == update.proof.inner
           key   == ProofKey(doc, update)
<1>1. ApplyUpdateError(doc, update) = "None"
  BY DEF Verified
<1>2. /\ inner.capability = Fields[doc].id
      /\ key # NoKey
      /\ ProofError(key, update) = "None"
  BY <1>1 DEF ApplyUpdateError
<1>3. /\ inner.proof_purpose = "capabilityInvocation"
      /\ SignatureVerifies(key, update)
  BY <1>2 DEF ProofError
<1>4. inner.verification_method \in Method
  BY UpdateAssumption DEF Proof, ProofInner
<1>5. key \in Key
  BY <1>2, <1>4, DocumentAssumption DEF ProofKey, DocumentFields
<1> QED
  BY <1>2, <1>3, <1>5 DEF SignedFor, ProofKey, SignatureVerifies

(* Updates are applied to a document in the chain of custody only, so that *)
(* the document which lists the key is the one the chain led to.           *)
LEMMA ControllersStep ==
    CustodyInv /\ OnlyControllersChange /\ [Step]_vars => OnlyControllersChange'
<1> SUFFICES ASSUME CustodyInv, OnlyControllersChange, [Step]_vars
             PROVE  OnlyControllersChange'
  OBVIOUS
<1>1. CASE UNCHANGED applied
  BY <1>1 DEF OnlyControllersChange, ReachedBy
<1>2. ASSUME NEW i \in pending, ExtendDocument(i)
      PROVE  OnlyControllersChange'
  <2>1. fsm = "Updates" /\ i \in Signals
    BY <1>2 DEF ExtendDocument, Applying, Selected, CustodyInv, TypeOK
  <2>2. /\ contemporary_doc \in Document
        /\ SignedFor(UpdateAt(i), contemporary_doc)
    BY <1>2, <2>1, CollectedUpdate, VerifiedIsSigned
       DEF CustodyInv, TypeOK, ExtendDocument
  <2>3. ReachedBy(Len(applied), DocHash(contemporary_doc))
    BY <2>1 DEF CustodyInv, ChainOfCustody
  <2>4. /\ applied \in Seq(AppliedEntry)
        /\ applied' = Append(applied, [update |-> UpdateAt(i),
                                block_time |-> transactions[i].tx.block_time])
    BY <1>2 DEF CustodyInv, TypeOK, ExtendDocument
  <2>5. ASSUME NEW n \in DOMAIN applied'
        PROVE  \E doc \in Document :
                   /\ ReachedBy(n - 1, DocHash(doc))'
                   /\ SignedFor(applied'[n].update, doc)
    <3>1. n \in 1..(Len(applied) + 1) /\ Len(applied) \in Nat
      BY <2>4
    <3>2. \A m \in 0..Len(applied), doc \in Document :
              ReachedBy(m, DocHash(doc)) => ReachedBy(m, DocHash(doc))'
      BY <2>4 DEF ReachedBy
    <3>3. CASE n = Len(applied) + 1
      <4>1. applied'[n].update = UpdateAt(i) /\ n - 1 = Len(applied)
        BY <2>4, <3>1, <3>3
      <4> QED
        BY <2>2, <2>3, <3>1, <3>2, <4>1
    <3>4. CASE n \in DOMAIN applied
      <4>1. applied'[n] = applied[n] /\ n - 1 \in 0..Len(applied)
        BY <2>4, <3>4
      <4>2. PICK doc \in Document : /\ ReachedBy(n - 1, DocHash(doc))
                                    /\ SignedFor(applied[n].update, doc)
        BY <3>4 DEF OnlyControllersChange
      <4> QED
        BY <3>2, <4>1, <4>2
    <3> QED
      BY <2>4, <3>1, <3>3, <3>4
  <2> QED
    BY <2>5 DEF OnlyControllersChange, DocHash, SignedFor
<1> QED
  BY <1>1, <1>2, StepKinds DEF CustodyInv

(* OnlyControllersChange, under any answers. *)
LEMMA ControllersInvariant == StepSpec => []OnlyControllersChange
<1>1. Init => OnlyControllersChange
  BY DEF Init, OnlyControllersChange
<1> QED
  BY <1>1, ControllersStep, CustodyInvariant, PTL DEF StepSpec

(* For all documents, patches and answers, each update that was applied is *)
(* signed as a whole with a key listed by the document it replaced: no     *)
(* batch makes the code take a key the document has not or no longer       *)
(* (src/document.rs:458).                                                  *)
THEOREM ControllersOnly == Spec => []OnlyControllersChange
BY ControllersInvariant, SpecIsStepSpec, PTL

-----------------------------------------------------------------------------
(***************************************************************************)
(* The hash history.  It holds document hashes between the update hashes   *)
(* (step 10.1 pushes one per duplicate), so an index says little about the *)
(* version stored there; what saves the comparison is that every hash in   *)
(* it is that of an update that was applied or of a version of the         *)
(* document that stood in hand, in front of as many hashes as it had       *)
(* updates behind it.                                                      *)
(***************************************************************************)
HistoryOrigin ==
    \A k \in DOMAIN update_hash_history :
        \/ \E n \in 0..Len(applied) :
               n < k /\ ReachedBy(n, update_hash_history[k])
        \/ \E n \in DOMAIN applied :
               update_hash_history[k] = UnsecuredHash(applied[n].update)

(* One hash at least for every update applied before the last return. *)
HistoryCovers ==
    fsm # "Resolved" => Len(update_hash_history) >= current_version_id - 1

HistoryInv == CustodyInv /\ HistoryOrigin /\ HistoryCovers

(* Outside the loop's two pushes the history and the updates stay put. *)
LEMMA HistorySteps ==
    ASSUME TypeOK, [Step]_vars
    PROVE  \/ /\ UNCHANGED <<update_hash_history, applied, current_version_id>>
              /\ fsm = "Resolved" => fsm' = "Resolved"
           \/ \E i \in pending : \/ ConfirmDuplicate(i)
                                 \/ ReachTargetVersion(i)
                                 \/ ApplyNext(i)
<1>1. CASE UNCHANGED vars
  BY <1>1 DEF vars, machine
<1>2. ASSUME NEW i \in pending, HandleUpdate(i)
      PROVE  \/ /\ UNCHANGED <<update_hash_history, applied, current_version_id>>
                /\ fsm = "Resolved" => fsm' = "Resolved"
             \/ ConfirmDuplicate(i) \/ ReachTargetVersion(i) \/ ApplyNext(i)
  BY <1>2 DEF HandleUpdate, RejectSource, RejectUpdate, LatePublished, Applying,
              Selected, machine
<1>3. ASSUME NEW responses \in Seq(Response), ProcessResponses(responses)
      PROVE  /\ UNCHANGED <<update_hash_history, applied, current_version_id>>
             /\ fsm # "Resolved"
  BY <1>3 DEF ProcessResponses, machine
<1>4. CASE \/ ResolveInit \/ SignalsPanic \/ NoSignals \/ AfterTargetTime
           \/ SignalRejected \/ CollectUpdates \/ FinishBatch
  BY <1>4 DEF ResolveInit, SignalsPanic, NoSignals, AfterTargetTime,
              SignalRejected, CollectUpdates, FinishBatch, Collecting, Readable,
              Scanning, machine
<1> QED
  BY <1>1, <1>2, <1>3, <1>4 DEF Step, Resolve

(* Applying an update appends it to those applied. *)
LEMMA AppliedGrows ==
    ASSUME CustodyInv, NEW i \in pending, ExtendDocument(i)
    PROVE  /\ applied' = Append(applied, [update |-> UpdateAt(i),
                              block_time |-> transactions[i].tx.block_time])
           /\ applied \in Seq(AppliedEntry)
           /\ DOMAIN applied = 1..Len(applied)
           /\ DOMAIN applied' = 1..(Len(applied) + 1)
           /\ Len(applied) \in Nat
           /\ \A n \in DOMAIN applied : applied'[n] = applied[n]
           /\ applied'[Len(applied) + 1].update = UpdateAt(i)
           /\ current_version_id' = Len(applied) + 2
           /\ VersionAt(i) = Len(applied) + 2
BY DEF CustodyInv, TypeOK, ChainOfCustody, ExtendDocument, Applying, IsNext

(* ReachedBy, of any sequence of applied updates. *)
Reached(n, hash, updates) ==
    IF n = 0 THEN hash \in {DocHash(doc) : doc \in InitialDocument}
             ELSE hash = updates[n].update.body.target_hash

(* Where a hash of the history comes from, of any sequence and history. *)
OriginOf(k, history, updates) ==
    \/ \E n \in 0..Len(updates) : n < k /\ Reached(n, history[k], updates)
    \/ \E n \in DOMAIN updates : history[k] = UnsecuredHash(updates[n].update)

(* HistoryOrigin says where each hash comes from, in both states of a step. *)
LEMMA OriginIsOf ==
    /\ HistoryOrigin <=> \A k \in DOMAIN update_hash_history :
                             OriginOf(k, update_hash_history, applied)
    /\ HistoryOrigin' <=> \A k \in DOMAIN update_hash_history' :
                             OriginOf(k, update_hash_history', applied')
BY DEF HistoryOrigin, OriginOf, ReachedBy, Reached, UnsecuredHash, Hash

(* Both pushes keep the origin and the length of the history. *)
LEMMA HistoryInvariant == StepSpec => []HistoryInv
<1>1. Init => HistoryOrigin /\ HistoryCovers
  BY DEF Init, InitialVersionId, HistoryOrigin, HistoryCovers
<1>2. HistoryInv /\ [Step]_vars => (HistoryOrigin /\ HistoryCovers)'
  <2> SUFFICES ASSUME HistoryInv, [Step]_vars
               PROVE  (HistoryOrigin /\ HistoryCovers)'
    OBVIOUS
  <2>a. /\ CustodyInv /\ TypeOK
        /\ update_hash_history \in Seq(Sha256Hash)
        /\ current_version_id \in Nat
        /\ current_version_id = Len(applied) + 1
    BY DEF HistoryInv, CustodyInv, TypeOK, ChainOfCustody
  <2>1. CASE /\ UNCHANGED <<update_hash_history, applied, current_version_id>>
             /\ fsm = "Resolved" => fsm' = "Resolved"
    BY <2>1, OriginIsOf DEF HistoryInv, HistoryCovers
  <2>2. ASSUME NEW i \in pending, ConfirmDuplicate(i)
        PROVE  (HistoryOrigin /\ HistoryCovers)'
    <3>1. ReachedBy(Len(applied), contemporary_hash)
      BY <2>a, <2>2 DEF CustodyInv, ChainOfCustody, HashFresh, ConfirmDuplicate,
                        Selected
    <3>2. /\ update_hash_history' = Append(update_hash_history, contemporary_hash)
          /\ UNCHANGED <<applied, current_version_id>>
          /\ fsm # "Resolved"
      BY <2>2 DEF ConfirmDuplicate, PushedHistory, Selected
    <3>3. Len(applied) \in Nat /\ Len(applied) <= Len(update_hash_history)
      BY <2>a, <3>2 DEF HistoryInv, HistoryCovers, TypeOK
    <3>4. contemporary_hash \in Sha256Hash
      BY <2>a DEF TypeOK
    <3>5. HistoryOrigin'
      <4> SUFFICES ASSUME NEW k \in DOMAIN update_hash_history'
                   PROVE  OriginOf(k, update_hash_history', applied)
        BY <3>2, OriginIsOf
      <4>1. CASE k \in DOMAIN update_hash_history
        <5>1. update_hash_history'[k] = update_hash_history[k]
          BY <2>a, <3>2, <3>4, <4>1
        <5> QED
          BY <4>1, <5>1, OriginIsOf DEF HistoryInv, OriginOf
      <4>2. CASE k \notin DOMAIN update_hash_history
        <5>1. /\ update_hash_history'[k] = contemporary_hash
              /\ k = Len(update_hash_history) + 1
              /\ Len(update_hash_history) \in Nat
          BY <2>a, <3>2, <3>4, <4>2
        <5> QED
          BY <3>1, <3>3, <5>1 DEF OriginOf, ReachedBy, Reached
      <4> QED
        BY <4>1, <4>2
    <3> QED
      BY <2>a, <3>2, <3>4, <3>5 DEF HistoryInv, HistoryCovers
  <2>3. ASSUME NEW i \in pending, ExtendDocument(i),
               \/ /\ update_hash_history' =
                         Append(update_hash_history, UnsecuredHash(UpdateAt(i)))
                  /\ fsm # "Resolved"
               \/ UNCHANGED update_hash_history /\ fsm' = "Resolved"
        PROVE  (HistoryOrigin /\ HistoryCovers)'
    <3>1. /\ DOMAIN applied = 1..Len(applied)
          /\ DOMAIN applied' = 1..(Len(applied) + 1)
          /\ Len(applied) \in Nat
          /\ \A n \in DOMAIN applied : applied'[n] = applied[n]
          /\ applied'[Len(applied) + 1].update = UpdateAt(i)
          /\ current_version_id' = Len(applied) + 2
      BY <2>a, <2>3, AppliedGrows
    <3>2. HistoryOrigin'
      <4> SUFFICES ASSUME NEW k \in DOMAIN update_hash_history'
                   PROVE  OriginOf(k, update_hash_history', applied')
        BY OriginIsOf
      <4>1. CASE k \in DOMAIN update_hash_history
        <5>1. update_hash_history'[k] = update_hash_history[k]
          BY <2>a, <2>3, <4>1
        <5>2. OriginOf(k, update_hash_history, applied)
          BY <4>1, OriginIsOf DEF HistoryInv
        <5>3. ASSUME NEW n \in 0..Len(applied), n < k,
                     Reached(n, update_hash_history[k], applied)
              PROVE  /\ n \in 0..Len(applied')
                     /\ Reached(n, update_hash_history'[k], applied')
          BY <3>1, <5>1, <5>3 DEF Reached
        <5>4. ASSUME NEW n \in DOMAIN applied,
                     update_hash_history[k] = UnsecuredHash(applied[n].update)
              PROVE  /\ n \in DOMAIN applied'
                     /\ update_hash_history'[k] = UnsecuredHash(applied'[n].update)
          BY <3>1, <5>1, <5>4
        <5> QED
          BY <5>2, <5>3, <5>4 DEF OriginOf
      <4>2. CASE k \notin DOMAIN update_hash_history
        <5>1. update_hash_history'[k] = UnsecuredHash(UpdateAt(i))
          BY <2>a, <2>3, <4>2
        <5> QED
          BY <3>1, <5>1 DEF OriginOf
      <4> QED
        BY <4>1, <4>2
    <3>3. HistoryCovers'
      BY <2>a, <2>3, <3>1 DEF HistoryInv, HistoryCovers
    <3> QED
      BY <3>2, <3>3
  <2>4. ASSUME NEW i \in pending, ReachTargetVersion(i) \/ ApplyNext(i)
        PROVE  (HistoryOrigin /\ HistoryCovers)'
    BY <2>3, <2>4 DEF ReachTargetVersion, ApplyNext, Finish, ExtendDocument,
                      Applying, Selected
  <2> QED
    BY <2>a, <2>1, <2>2, <2>4, HistorySteps
<1> QED
  BY <1>1, <1>2, CustodyInvariant, PTL DEF StepSpec, HistoryInv

-----------------------------------------------------------------------------
(* A hash found in the history by confirm_duplicate is the hash of the     *)
(* update applied for the same version, or that of an earlier document.    *)
LEMMA ConfirmedIsApplied ==
    ASSUME HistoryInv, NEW i \in pending, ConfirmDuplicate(i), fsm' = "Updates"
    PROVE  RepeatsApplied(i) \/ RepeatsDocument(i)
<1> DEFINE k == HistoryIndex(UpdateAt(i))
<1>1. /\ CustodyInv /\ TypeOK /\ ChainOfCustody
      /\ update_hash_history \in Seq(Sha256Hash)
      /\ contemporary_hash \in Sha256Hash
      /\ fsm = "Updates"
  BY DEF HistoryInv, CustodyInv, TypeOK, ConfirmDuplicate, Selected
<1>2. /\ PushedHistory = Append(update_hash_history, contemporary_hash)
      /\ k \in DOMAIN PushedHistory
      /\ PushedHistory[k] = UnsecuredHash(UpdateAt(i))
  BY DEF ConfirmDuplicate, PushedHistory, Panic, Fail, MatchesHistory
<1>3. UpdateAt(i) \in Update /\ VersionAt(i) \in Nat /\ k = VersionAt(i) - 1
  BY <1>1, CollectedUpdate, UpdateAssumption, VersionAssumption
     DEF TypeOK, HistoryIndex, VersionAt, UpdateBody
<1>4. VersionAt(i) <= Len(applied) + 1 /\ Len(applied) \in Nat
  BY <1>1 DEF ConfirmDuplicate, IsDuplicate, ChainOfCustody, TypeOK
<1>5. Len(applied) <= Len(update_hash_history)
  BY <1>1, <1>4 DEF HistoryInv, HistoryCovers, ChainOfCustody
<1>6. k \in DOMAIN update_hash_history /\ PushedHistory[k] = update_hash_history[k]
  BY <1>1, <1>2, <1>3, <1>4, <1>5
<1>7. CASE \E n \in 0..Len(applied) :
               n < k /\ ReachedBy(n, update_hash_history[k])
  BY <1>2, <1>3, <1>6, <1>7 DEF RepeatsDocument
<1>8. ASSUME NEW n \in DOMAIN applied,
             update_hash_history[k] = UnsecuredHash(applied[n].update)
      PROVE  RepeatsApplied(i)
  <2>1. applied[n].update \in Update
    <3>1. applied \in Seq(AppliedEntry)
      BY <1>1 DEF TypeOK
    <3>2. applied[n] \in AppliedEntry
      BY <3>1
    <3> QED
      BY <3>2 DEF AppliedEntry
  <2>2. UpdateAt(i).body = applied[n].update.body
    BY <1>2, <1>3, <1>6, <1>8, <2>1, HashesInjective
  <2>3. applied[n].update.body.target_version_id = n + 1
    BY <1>1 DEF ChainOfCustody
  <2> QED
    BY <2>2, <2>3 DEF VersionAt, RepeatsApplied
<1> QED
  BY <1>6, <1>7, <1>8 DEF HistoryInv, HistoryOrigin

(* NoForkAccepted with the history invariant it rests on. *)
ForkInv == HistoryInv /\ NoForkAccepted

(* In the loop an iteration handles one pending update, and entering the   *)
(* loop leaves all of them pending.                                        *)
LEMMA LoopSteps ==
    ASSUME TypeOK, [Step]_vars, fsm' = "Updates"
    PROVE  \/ UNCHANGED vars
           \/ CollectUpdates
           \/ \E i \in pending : ConfirmDuplicate(i) \/ ApplyNext(i)
<1>1. ASSUME NEW i \in pending, HandleUpdate(i)
      PROVE  ConfirmDuplicate(i) \/ ApplyNext(i)
  BY <1>1 DEF HandleUpdate, RejectSource, RejectUpdate, ReachTargetVersion,
              LatePublished, Fail, Finish
<1>2. ASSUME \/ ResolveInit \/ SignalsPanic \/ NoSignals \/ AfterTargetTime
             \/ SignalRejected \/ FinishBatch
             \/ \E responses \in Seq(Response) : ProcessResponses(responses)
      PROVE  FALSE
  BY <1>2 DEF ResolveInit, SignalsPanic, NoSignals, AfterTargetTime,
              SignalRejected, FinishBatch, ProcessResponses, Finish, Fail, Panic,
              NextSignalsRequests
<1> QED
  BY <1>1, <1>2 DEF Step, Resolve

(* Handling one more update keeps what was said of the others. *)
LEMMA ForkStep == ForkInv /\ [Step]_vars => NoForkAccepted'
<1> SUFFICES ASSUME ForkInv, [Step]_vars, fsm' = "Updates"
             PROVE  \A i \in Signals' \ pending' :
                        RepeatsApplied(i)' \/ RepeatsDocument(i)'
  BY DEF NoForkAccepted
<1>1. TypeOK /\ CustodyInv /\ HistoryInv /\ NoForkAccepted
  BY DEF ForkInv, HistoryInv, CustodyInv
<1>2. CASE UNCHANGED vars
  BY <1>1, <1>2 DEF vars, traffic, options, NoForkAccepted, Signals, VersionAt,
                    UpdateAt, RepeatsApplied, RepeatsDocument, ReachedBy,
                    UnsecuredHash, Hash
<1>3. CASE CollectUpdates
  BY <1>3 DEF CollectUpdates, traffic, Signals
<1>4. ASSUME NEW j \in pending, ConfirmDuplicate(j) \/ ApplyNext(j)
      PROVE  \A i \in Signals' \ pending' :
                 RepeatsApplied(i)' \/ RepeatsDocument(i)'
  <2>1. /\ fsm = "Updates"
        /\ pending' = pending \ {j}
        /\ UNCHANGED <<transactions, signals_metadata>>
    BY <1>4 DEF ConfirmDuplicate, ApplyNext, ExtendDocument, Applying, Selected,
                options, traffic
  <2>2. Signals' = Signals
    BY <2>1 DEF Signals
  <2>3. \A i \in Signals : /\ UpdateAt(i)' = UpdateAt(i)
                           /\ VersionAt(i)' = VersionAt(i)
    BY <2>1 DEF VersionAt, UpdateAt
  <2>4. /\ Len(applied) \in Nat
        /\ Len(applied') \in Nat
        /\ Len(applied) <= Len(applied')
        /\ DOMAIN applied = 1..Len(applied)
        /\ DOMAIN applied' = 1..Len(applied')
        /\ \A n \in DOMAIN applied : applied'[n] = applied[n]
    <3>1. CASE ConfirmDuplicate(j)
      BY <1>1, <3>1 DEF ConfirmDuplicate, TypeOK
    <3>2. CASE ApplyNext(j)
      BY <1>1, <3>2 DEF ApplyNext, ExtendDocument, TypeOK
    <3> QED
      BY <1>4, <3>1, <3>2
  <2>5. ASSUME NEW i \in Signals, RepeatsApplied(i)
        PROVE  RepeatsApplied(i)'
    BY <2>3, <2>4, <2>5 DEF RepeatsApplied
  <2>6. ASSUME NEW i \in Signals, RepeatsDocument(i)
        PROVE  RepeatsDocument(i)'
    <3>1. PICK n \in 0..Len(applied) :
              /\ n + 1 < VersionAt(i)
              /\ ReachedBy(n, UnsecuredHash(UpdateAt(i)))
      BY <2>6 DEF RepeatsDocument
    <3>2. n \in 0..Len(applied') /\ n + 1 < VersionAt(i)'
      BY <2>3, <2>4, <3>1
    <3>3. UnsecuredHash(UpdateAt(i))' = UnsecuredHash(UpdateAt(i))
      BY <2>3 DEF UnsecuredHash, Hash
    <3>4. ReachedBy(n, UnsecuredHash(UpdateAt(i)))'
      BY <2>4, <3>1, <3>3 DEF ReachedBy
    <3> QED
      BY <3>2, <3>4 DEF RepeatsDocument
  <2>7. RepeatsApplied(j)' \/ RepeatsDocument(j)'
    <3>1. j \in Signals
      BY <1>1 DEF TypeOK
    <3>2. CASE ConfirmDuplicate(j)
      BY <1>1, <2>5, <2>6, <3>1, <3>2, ConfirmedIsApplied
    <3>3. CASE ApplyNext(j)
      <4>1. ExtendDocument(j)
        BY <3>3 DEF ApplyNext
      <4>2. /\ DOMAIN applied' = 1..(Len(applied) + 1)
            /\ Len(applied) \in Nat
            /\ applied'[Len(applied) + 1].update = UpdateAt(j)
            /\ VersionAt(j) = Len(applied) + 2
        BY <1>1, <4>1, AppliedGrows
      <4> QED
        BY <2>3, <3>1, <4>2 DEF RepeatsApplied
    <3> QED
      BY <1>4, <3>2, <3>3
  <2>8. \A i \in Signals \ pending : RepeatsApplied(i) \/ RepeatsDocument(i)
    BY <1>1, <2>1 DEF NoForkAccepted
  <2> QED
    BY <2>1, <2>2, <2>5, <2>6, <2>7, <2>8
<1> QED
  BY <1>1, <1>2, <1>3, <1>4, LoopSteps

(* The invariant behind NoForkAccepted. *)
LEMMA ForkInvariant == StepSpec => []ForkInv
<1>1. Init => NoForkAccepted
  BY DEF Init, NoForkAccepted
<1> QED
  BY <1>1, ForkStep, HistoryInvariant, PTL DEF StepSpec, ForkInv

(* Every update the loop lets through says what the one applied for its    *)
(* version does, or is without its proof the JSON of an earlier document,  *)
(* for every batch and every order the unstable sort leaves equal versions *)
(* in (src/resolver.rs:133-144), and whichever documents are also updates. *)
THEOREM NoForkHolds == Spec => []NoForkAccepted
BY ForkInvariant, SpecIsStepSpec, PTL DEF ForkInv

-----------------------------------------------------------------------------
(* An error or panic is where a resolution stops. *)
ErrorStops == error # "None" => fsm \in {"Err", "Panicked"}

PanicInv == HistoryInv /\ ErrorStops /\ OnlyVersionOnePanics

(* What an iteration of the loop may report. *)
LEMMA PanicStep == PanicInv /\ [Step]_vars => (ErrorStops /\ OnlyVersionOnePanics)'
<1> SUFFICES ASSUME PanicInv, [Step]_vars
             PROVE  (ErrorStops /\ OnlyVersionOnePanics)'
  OBVIOUS
<1>1. TypeOK /\ CustodyInv /\ HistoryInv
  BY DEF PanicInv, HistoryInv, CustodyInv
<1>2. CASE UNCHANGED vars
  BY <1>2 DEF PanicInv, ErrorStops, OnlyVersionOnePanics, vars, traffic, options,
              Signals, VersionAt, UpdateAt
<1>3. CASE \/ ResolveInit \/ NoSignals \/ AfterTargetTime \/ CollectUpdates
           \/ FinishBatch
           \/ \E responses \in Seq(Response) : ProcessResponses(responses)
  BY <1>3 DEF ResolveInit, NoSignals, AfterTargetTime, CollectUpdates,
              FinishBatch, ProcessResponses, Collecting, Readable, Scanning,
              NextSignalsRequests, Finish, Panic, PanicInv, ErrorStops,
              OnlyVersionOnePanics
<1>4. CASE SignalsPanic \/ SignalRejected
  BY <1>4 DEF SignalsPanic, SignalRejected, SignalError, Panic, Fail, Panics,
              ErrorStops, OnlyVersionOnePanics
<1>5. ASSUME NEW i \in pending, HandleUpdate(i)
      PROVE  (ErrorStops /\ OnlyVersionOnePanics)'
  <2>1. /\ fsm = "Updates" /\ i \in Signals /\ error = "None"
        /\ UNCHANGED <<transactions, signals_metadata>>
    BY <1>1, <1>5 DEF HandleUpdate, ConfirmDuplicate, RejectSource, RejectUpdate,
                ReachTargetVersion, ApplyNext, ExtendDocument, Applying,
                LatePublished, Selected, TypeOK, options, traffic, PanicInv,
                ErrorStops
  <2>2. UpdateAt(i) \in Update /\ VersionAt(i) \in 1..MaxVersionId
    BY <1>1, <2>1, CollectedUpdate
  <2>3. CASE ConfirmDuplicate(i)
    <3>1. CASE /\ HistoryIndex(UpdateAt(i)) \notin DOMAIN PushedHistory
               /\ Panic("HistoryIndexOutOfBounds")
      <4>1. /\ DOMAIN PushedHistory = 1..(Len(update_hash_history) + 1)
            /\ Len(update_hash_history) \in Nat
        BY <1>1 DEF PushedHistory, TypeOK
      <4>2. Len(update_hash_history) >= current_version_id - 1
        BY <1>1, <2>1 DEF HistoryInv, HistoryCovers
      <4>3. VersionAt(i) <= current_version_id /\ current_version_id \in Nat
        BY <1>1, <2>3 DEF ConfirmDuplicate, IsDuplicate, TypeOK
      <4>4. HistoryIndex(UpdateAt(i)) = VersionAt(i) - 1
        BY DEF HistoryIndex, VersionAt
      <4>5. VersionAt(i) = 1
        BY <2>2, <3>1, <4>1, <4>2, <4>3, <4>4, VersionAssumption
      <4>6. i \in Signals' /\ VersionAt(i)' = 1
        BY <2>1, <4>5 DEF Signals, VersionAt, UpdateAt
      <4> QED
        BY <3>1, <4>6 DEF Panic, ErrorStops, OnlyVersionOnePanics
    <3>2. CASE HistoryIndex(UpdateAt(i)) \in DOMAIN PushedHistory
      BY <2>1, <2>3, <3>2
         DEF ConfirmDuplicate, Fail, ErrorStops, OnlyVersionOnePanics
    <3> QED
      BY <2>3, <3>1, <3>2 DEF ConfirmDuplicate
  <2>4. CASE RejectUpdate(i)
    <3>1. contemporary_doc \in Document
      BY <1>1, <2>1 DEF TypeOK
    <3>2. ApplyUpdateError(contemporary_doc, UpdateAt(i)) \in Errors
      BY <2>2, <3>1, RejectedUpdate
    <3> QED
      BY <2>4, <3>2 DEF RejectUpdate, Fail, Errors, ErrorStops,
                        OnlyVersionOnePanics
  <2>5. CASE \/ RejectSource(i) \/ ReachTargetVersion(i) \/ ApplyNext(i)
             \/ LatePublished(i)
    BY <2>1, <2>5 DEF RejectSource, ReachTargetVersion, ApplyNext, LatePublished,
                      Fail, Finish, ErrorStops, OnlyVersionOnePanics
  <2> QED
    BY <1>5, <2>3, <2>4, <2>5 DEF HandleUpdate
<1> QED
  BY <1>2, <1>3, <1>4, <1>5 DEF Step, Resolve

(* The invariant behind OnlyVersionOnePanics. *)
LEMMA PanicInvariant == StepSpec => []PanicInv
<1>1. Init => ErrorStops /\ OnlyVersionOnePanics
  BY DEF Init, ErrorStops, OnlyVersionOnePanics
<1> QED
  BY <1>1, PanicStep, HistoryInvariant, PTL DEF StepSpec, PanicInv

(* The unchecked index into the hash history (src/update.rs:76) is in      *)
(* range for every update but one that claims to produce version 1.        *)
THEOREM PanicHolds == Spec => []OnlyVersionOnePanics
BY PanicInvariant, SpecIsStepSpec, PTL DEF PanicInv

-----------------------------------------------------------------------------
(* A step that keeps the version keeps the target and, once it is reached, *)
(* the end of the resolution.                                              *)
LEMMA TargetStep == TypeOK /\ NeverPastTarget /\ [Step]_vars => NeverPastTarget'
<1> SUFFICES ASSUME TypeOK, NeverPastTarget, [Step]_vars PROVE NeverPastTarget'
  OBVIOUS
<1>1. CASE ResolveInit
  BY <1>1 DEF ResolveInit, NeverPastTarget, TargetReached, Finish, machine,
              options
<1>2. CASE \/ UNCHANGED vars
           \/ SignalsPanic \/ NoSignals \/ AfterTargetTime \/ SignalRejected
           \/ CollectUpdates \/ FinishBatch
           \/ \E responses \in Seq(Response) : ProcessResponses(responses)
  BY <1>2 DEF SignalsPanic, NoSignals, AfterTargetTime, SignalRejected,
              CollectUpdates, FinishBatch, ProcessResponses, Collecting,
              Readable, Scanning, NeverPastTarget, vars, machine, options
<1>3. ASSUME NEW i \in pending, HandleUpdate(i)
      PROVE  NeverPastTarget'
  <2>1. CASE ConfirmDuplicate(i) \/ RejectSource(i) \/ RejectUpdate(i)
             \/ LatePublished(i)
    BY <2>1 DEF ConfirmDuplicate, RejectSource, RejectUpdate, LatePublished,
                Applying, Selected, NeverPastTarget, machine, options
  <2>2. CASE ReachTargetVersion(i)
    BY <2>2 DEF ReachTargetVersion, ExtendDocument, TargetReached, Finish,
                NeverPastTarget, options
  <2>3. CASE ApplyNext(i)
    <3>1. /\ current_version_id \in Nat
          /\ target_condition \in TargetConditions
      BY DEF TypeOK
    <3>2. /\ current_version_id' = current_version_id + 1
          /\ target_condition' = target_condition
          /\ fsm = "Updates"
          /\ target_condition.kind = "VersionId" =>
                 target_condition.version_id # current_version_id + 1
      BY <2>3 DEF ApplyNext, ExtendDocument, Applying, Selected, TargetReached,
                  options
    <3>3. target_condition.kind = "VersionId" => target_condition.version_id \in Nat
      BY <3>1 DEF TargetConditions
    <3> QED
      BY <3>1, <3>2, <3>3 DEF NeverPastTarget
  <2> QED
    BY <1>3, <2>1, <2>2, <2>3 DEF HandleUpdate
<1> QED
  BY <1>1, <1>2, <1>3 DEF Step, Resolve

(* NeverPastTarget, under any answers. *)
LEMMA TargetInvariant == StepSpec => []NeverPastTarget
<1>1. Init => NeverPastTarget
  <2> SUFFICES ASSUME Init, target_condition.kind = "VersionId"
               PROVE  1 <= target_condition.version_id
    BY DEF Init, InitialVersionId, NeverPastTarget
  <2>1. target_condition \in TargetConditions
    BY InitType DEF TypeOK
  <2> QED
    BY <2>1 DEF TargetConditions
<1> QED
  BY <1>1, TargetStep, TypeInvariant, PTL DEF StepSpec

(* The machine stops at the version asked for and never goes beyond it     *)
(* (src/resolver.rs:96 and 165).                                           *)
THEOREM TargetHolds == Spec => []NeverPastTarget
BY TargetInvariant, SpecIsStepSpec, PTL

-----------------------------------------------------------------------------
(* While answers are awaited or read, every beacon of the document was     *)
(* asked; the loop, which changes the document, is left through new        *)
(* requests.                                                               *)
QueriesCover ==
    fsm \in {"WaitingForResponses", "FindNextSignals"} =>
        BeaconAddresses(contemporary_doc) \subseteq request_cache

QueryInv == TypeOK /\ QueriesCover /\ BeaconsQueried

(* Requests complete the cache for the document they are made for. *)
LEMMA QueryStep == QueryInv /\ [Step]_vars => (QueriesCover /\ BeaconsQueried)'
<1> SUFFICES ASSUME QueryInv, [Step]_vars
             PROVE  (QueriesCover /\ BeaconsQueried)'
  OBVIOUS
<1>1. CASE ResolveInit \/ FinishBatch
  BY <1>1 DEF ResolveInit, FinishBatch, NextSignalsRequests, FreshAddresses,
              BeaconAddresses, Finish, Panic, TargetReached, machine, options,
              QueriesCover, BeaconsQueried
<1>2. CASE \/ UNCHANGED vars
           \/ SignalsPanic \/ NoSignals \/ AfterTargetTime \/ SignalRejected
           \/ CollectUpdates
           \/ \E responses \in Seq(Response) : ProcessResponses(responses)
  BY <1>2 DEF SignalsPanic, NoSignals, AfterTargetTime, SignalRejected,
              CollectUpdates, ProcessResponses, Collecting, Readable, Scanning,
              Finish, Fail, Panic, TargetReached, BeaconAddresses, vars, machine,
              options, traffic, QueryInv, QueriesCover, BeaconsQueried
<1>3. ASSUME NEW i \in pending, HandleUpdate(i)
      PROVE  (QueriesCover /\ BeaconsQueried)'
  BY <1>3 DEF HandleUpdate, ConfirmDuplicate, RejectSource, RejectUpdate,
              ReachTargetVersion, ApplyNext, LatePublished, ExtendDocument,
              Applying, Selected, Finish, Fail, Panic, TargetReached, options,
              QueriesCover, BeaconsQueried
<1> QED
  BY <1>1, <1>2, <1>3 DEF Step, Resolve

(* The invariant behind BeaconsQueried. *)
LEMMA QueryInvariant == StepSpec => []QueryInv
<1>1. Init => QueriesCover /\ BeaconsQueried
  BY DEF Init, QueriesCover, BeaconsQueried
<1> QED
  BY <1>1, InitType, NextType, QueryStep, PTL DEF StepSpec, QueryInv

(* No resolution returns a document whose beacons it has not asked, unless *)
(* it is the version it was asked for (src/resolver.rs:193).               *)
THEOREM QueriesHold == Spec => []BeaconsQueried
BY QueryInvariant, SpecIsStepSpec, PTL DEF QueryInv

-----------------------------------------------------------------------------
(***************************************************************************)
(* Refinement: a step of the resolver is a step of the log or a stutter.   *)
(***************************************************************************)

(* The initial states are those of the log. *)
LEMMA LogInitMap == Init => Log!LogInit
BY DEF Init, InitialVersionId, Log!LogInit, Refused

(* Applying an update is the log's Supersede. *)
LEMMA ExtendMaps ==
    ASSUME CustodyInv, NEW i \in pending, ReachTargetVersion(i) \/ ApplyNext(i)
    PROVE  Log!Supersede
<1>1. /\ ExtendDocument(i)
      /\ fsm = "Updates" /\ i \in Signals
      /\ fsm' \in {"Updates", "Resolved"}
  BY DEF ReachTargetVersion, ApplyNext, ExtendDocument, Applying, Selected,
         Finish, CustodyInv, TypeOK
<1>2. /\ UpdateAt(i) \in Update
      /\ contemporary_doc \in Document
      /\ Verified(contemporary_doc, UpdateAt(i))
      /\ contemporary_doc' = PatchedDoc(contemporary_doc, UpdateAt(i))
  BY <1>1, CollectedUpdate DEF CustodyInv, TypeOK, ExtendDocument
<1>3. contemporary_doc' \in Document
  BY <1>2, VerifiedTarget
<1>4. /\ UpdateAt(i).body.source_hash = DocHash(contemporary_doc)
      /\ UpdateAt(i).body.target_version_id = current_version_id + 1
  BY <1>1 DEF CustodyInv, HashFresh, ExtendDocument, Applying, SourceMatches,
              IsNext, VersionAt
<1>5. current_version_id \in Nat /\ current_version_id' = current_version_id + 1
  BY <1>1 DEF CustodyInv, TypeOK, ExtendDocument
<1>6. <<contemporary_doc, current_version_id, contemporary_doc'>> \in Supersedes
  <2>1. LegalStep(contemporary_doc, current_version_id, contemporary_doc')
    BY <1>2, <1>4 DEF LegalStep
  <2> QED
    BY <1>2, <1>3, <1>5, <2>1 DEF Supersedes
<1> QED
  BY <1>1, <1>5, <1>6 DEF Log!Supersede, Refused

(* A step that applies nothing leaves the log alone or closes it. *)
LEMMA OtherStepsMap ==
    ASSUME CustodyInv, [Step]_vars,
           ~\E i \in pending : ReachTargetVersion(i) \/ ApplyNext(i)
    PROVE  [Log!LogNext]_(Log!logVars)
<1>1. /\ UNCHANGED current_version_id
      /\ fsm' # "Err" => UNCHANGED contemporary_doc
      /\ fsm \in Done => fsm' = fsm /\ UNCHANGED contemporary_doc
  <2>1. CASE UNCHANGED vars
    BY <2>1 DEF vars, machine
  <2>2. ASSUME NEW i \in pending, HandleUpdate(i)
        PROVE  /\ UNCHANGED current_version_id
               /\ fsm' # "Err" => UNCHANGED contemporary_doc
               /\ fsm \in Done => fsm' = fsm /\ UNCHANGED contemporary_doc
    BY <2>2 DEF HandleUpdate, ConfirmDuplicate, RejectSource, RejectUpdate,
                LatePublished, Applying, Selected, Fail, Done, machine
  <2>3. CASE \/ ResolveInit \/ SignalsPanic \/ NoSignals \/ AfterTargetTime
             \/ SignalRejected \/ CollectUpdates \/ FinishBatch
             \/ \E responses \in Seq(Response) : ProcessResponses(responses)
    BY <2>3 DEF ResolveInit, SignalsPanic, NoSignals, AfterTargetTime,
                SignalRejected, CollectUpdates, FinishBatch, ProcessResponses,
                Collecting, Readable, Scanning, Done, machine
  <2> QED
    BY <2>1, <2>2, <2>3 DEF Step, Resolve
<1> QED
  BY <1>1 DEF Log!LogNext, Log!Return, Log!Refuse, Log!logVars, Refused, Done

LEMMA LogImplemented == StepSpec => ImplementsLog
<1>1. CustodyInv /\ [Step]_vars => [Log!LogNext]_(Log!logVars)
  BY ExtendMaps, OtherStepsMap DEF Log!LogNext
<1> QED
  BY <1>1, LogInitMap, CustodyInvariant, PTL
     DEF StepSpec, ImplementsLog, Log!LogSpec

(* The resolver implements the log its caller sees: for all sidecar data   *)
(* and answers, documents change along verified consecutive updates only,  *)
(* and nothing follows a result (src/resolver.rs:88).                      *)
THEOREM LogRefined == Spec => ImplementsLog
BY LogImplemented, SpecIsStepSpec, PTL
=============================================================================
