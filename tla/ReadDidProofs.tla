--------------------------- MODULE ReadDidProofs ---------------------------
(***************************************************************************)
(* Theorems about the program of src/examples/read_did.rs, for histories   *)
(* of any length announced at any beacons, any payments and any size of    *)
(* the server's pages.                                                     *)
(***************************************************************************)
EXTENDS ReadDid, ResolverProofs, FiniteSetTheorems, SequenceTheorems

-----------------------------------------------------------------------------
(***************************************************************************)
(* What the steps do to the chain.                                         *)
(***************************************************************************)
MinedUpdates == {n \in DOMAIN History : \E a \in Address : IsMined(n, a)}

(* A set of updates is finite, the set of those mined has a number. *)
LEMMA UpdatesAreFinite ==
    ASSUME NEW updates \in SUBSET (DOMAIN History)
    PROVE  /\ IsFiniteSet(updates)
           /\ Cardinality(updates) \in Nat
           /\ Cardinality(updates) \in 0..Len(History)
  <1>1. Len(History) \in Nat /\ DOMAIN History = 1..Len(History)
    BY HistoryAssumption
  <1>2. IsFiniteSet(DOMAIN History) /\ Cardinality(DOMAIN History) = Len(History)
    BY <1>1, FS_Interval
  <1>3. IsFiniteSet(updates) /\ Cardinality(updates) <= Len(History)
    BY <1>2, FS_Subset
  <1> QED BY <1>1, <1>3, FS_CardinalityType

LEMMA ChainVersionType == ChainVersion \in DOMAIN Versions
  <1>1. Len(Versions) = Len(History) + 1 /\ DOMAIN Versions = 1..Len(Versions)
    BY HistoryAssumption
  <1>2. Cardinality(MinedUpdates) \in 0..Len(History)
    BY UpdatesAreFinite DEF MinedUpdates
  <1> QED BY <1>1, <1>2, HistoryAssumption DEF ChainVersion, MinedUpdates

(* What is mined stays, if further from the first page. *)
ChainKept ==
    \A a \in Address : \A k \in DOMAIN chain[a] :
        \E s \in DOMAIN chain'[a] : s >= k /\ chain'[a][s] = chain[a][k]

(* A new block holds one transaction more. *)
LEMMA BlockKeepsChain ==
    ASSUME ReadTypeOK, NEW n \in DOMAIN History \cup {Payment},
           NEW a \in Address, AddBlock(n, a)
    PROVE  /\ ChainKept
           /\ \A b \in Address : \A s \in DOMAIN chain'[b] :
                  \/ b = a /\ chain'[b][s] = [update |-> n, block_time |-> height']
                  \/ \E k \in DOMAIN chain[b] : chain'[b][s] = chain[b][k]
           /\ \E s \in DOMAIN chain'[a] : chain'[a][s].update = n
           /\ chain' \in [Address -> Seq(MinedTransaction')]
           /\ \A b \in Address : Len(chain'[b]) <= height'
  <1> DEFINE block == [update |-> n, block_time |-> height']
  <1>1. /\ height \in Nat /\ height' = height + 1
        /\ chain \in [Address -> Seq(MinedTransaction)]
        /\ \A b \in Address : Len(chain[b]) <= height
    BY DEF ReadTypeOK, AddBlock
  <1>2. /\ DOMAIN chain' = Address
        /\ chain'[a] = <<block>> \o chain[a]
        /\ \A b \in Address \ {a} : chain'[b] = chain[b]
    BY <1>1 DEF AddBlock
  <1>3. MinedTransaction \subseteq MinedTransaction' /\ block \in MinedTransaction'
    BY <1>1 DEF MinedTransaction
  <1>4. ASSUME NEW b \in Address
        PROVE  /\ chain[b] \in Seq(MinedTransaction')
               /\ DOMAIN chain[b] = 1..Len(chain[b])
               /\ Len(chain[b]) \in Nat
    BY <1>1, <1>3
  <1>5. /\ chain'[a] \in Seq(MinedTransaction')
        /\ Len(chain'[a]) = 1 + Len(chain[a])
        /\ chain'[a][1] = block
        /\ \A k \in DOMAIN chain[a] : chain'[a][k + 1] = chain[a][k]
    BY <1>2, <1>3, <1>4
  <1>6. DOMAIN chain'[a] = 1..(Len(chain[a]) + 1)
    BY <1>4, <1>5
  <1>7. ChainKept
    <2> SUFFICES ASSUME NEW b \in Address, NEW k \in DOMAIN chain[b]
                 PROVE  \E s \in DOMAIN chain'[b] :
                            s >= k /\ chain'[b][s] = chain[b][k]
      BY DEF ChainKept
    <2>1. CASE b = a
      <3>1. k + 1 \in DOMAIN chain'[a] /\ k + 1 >= k
        BY <1>4, <1>6, <2>1
      <3> QED BY <1>5, <2>1, <3>1
    <2>2. CASE b # a
      <3>1. k >= k
        BY <1>4
      <3> QED BY <1>2, <2>2, <3>1
    <2> QED BY <2>1, <2>2
  <1>8. ASSUME NEW b \in Address, NEW s \in DOMAIN chain'[b]
        PROVE  \/ b = a /\ chain'[b][s] = block
               \/ \E k \in DOMAIN chain[b] : chain'[b][s] = chain[b][k]
    <2>1. CASE b = a /\ s # 1
      <3>1. s - 1 \in DOMAIN chain[a] /\ s = (s - 1) + 1
        BY <1>4, <1>6, <2>1
      <3> QED BY <1>5, <2>1, <3>1
    <2> QED BY <1>2, <1>5, <2>1
  <1>9. chain' \in [Address -> Seq(MinedTransaction')]
    BY <1>1, <1>2, <1>4, <1>5 DEF AddBlock
  <1>10. \A b \in Address : Len(chain'[b]) <= height'
    BY <1>1, <1>2, <1>4, <1>5
  <1>11. \E s \in DOMAIN chain'[a] : chain'[a][s].update = n
    <2>1. 1 \in DOMAIN chain'[a]
      BY <1>4, <1>6
    <2> QED BY <1>5, <2>1
  <1> QED BY <1>7, <1>8, <1>9, <1>10, <1>11

(* No step removes a transaction from the chain. *)
LEMMA StepsKeepChain == ReadTypeOK /\ [ReadNext]_readVars => ChainKept
  <1> SUFFICES ASSUME ReadTypeOK, [ReadNext]_readVars PROVE ChainKept
    OBVIOUS
  <1>1. CASE UNCHANGED chain
    <2>1. \A a \in Address : \A k \in DOMAIN chain[a] : k >= k
      BY DEF ReadTypeOK
    <2> QED BY <1>1, <2>1 DEF ChainKept
  <1>2. ASSUME NEW n \in DOMAIN History, NEW a \in Address, Mine(n, a)
        PROVE  ChainKept
    BY <1>2, BlockKeepsChain DEF Mine
  <1>3. ASSUME NEW a \in Address, Pay(a)
        PROVE  ChainKept
    BY <1>3, BlockKeepsChain DEF Pay
  <1>4. CASE ProgramStep
    BY <1>1, <1>4 DEF ProgramStep, CallResolve, Request, RequestFails, Respond, network
  <1>5. ASSUME NEW n \in DOMAIN History, NEW a \in Address, Announce(n, a)
        PROVE  ChainKept
    BY <1>1, <1>5 DEF Announce
  <1>6. CASE UNCHANGED readVars
    BY <1>1, <1>6 DEF readVars, network
  <1> QED BY <1>2, <1>3, <1>4, <1>5, <1>6 DEF ReadNext, NetworkStep

-----------------------------------------------------------------------------
(***************************************************************************)
(* Types.  Between rounds no answer is left over, so that what was fetched *)
(* is always part of what was requested.                                   *)
(***************************************************************************)
RoundsSeparate ==
    fsm # "WaitingForResponses" => fetched = {} /\ responses = <<>>

ReadTypeInv == ReadTypeOK /\ RoundsSeparate

LEMMA FunctionIsSequence ==
    ASSUME NEW S, NEW length \in Nat, NEW f \in [1..length -> S]
    PROVE  f \in Seq(S)
  OBVIOUS

LEMMA AnswersJoined ==
    ASSUME NEW r \in Seq(Response), NEW s \in Seq(Response), NEW t \in Seq(Response)
    PROVE  /\ r \o s \o t \in Seq(Response)
           /\ Range(r \o s \o t) = Range(r) \cup Range(s) \cup Range(t)
  <1>1. /\ r \o s \in Seq(Response)
        /\ Range(r \o s) = Range(r) \cup Range(s)
    BY RangeConcatenation
  <1>2. ASSUME NEW u \in Seq(Response)
        PROVE  u \o t \in Seq(Response) /\ Range(u \o t) = Range(u) \cup Range(t)
    BY RangeConcatenation
  <1> QED BY <1>1, <1>2

(* What a transaction on the server looks like. *)
LEMMA TransactionType ==
    ASSUME NEW n \in DOMAIN History \cup {Payment}, NEW a \in Address,
           NEW confirmed \in BOOLEAN, NEW block_time \in Time
    PROVE  AsResponse(TransactionFor(n, a, confirmed, block_time)) \in Response
  <1>1. DocHash(Versions[1]) \in Sha256Hash
    <2>1. Versions[1] \in Json
      BY HistoryAssumption, InitialAssumption, DocumentAssumption
    <2> QED BY <2>1, HashTypes
  <1>2. n # Payment => UpdateHash(History[n]) \in Sha256Hash
    <2>1. n # Payment => History[n] \in Update
      BY HistoryAssumption
    <2> QED BY <2>1, HashTypes
  <1>3. /\ PaymentTxid \in Txid
        /\ n # Payment => TxidOf[n][a] \in Txid
    BY TxidAssumption
  <1> QED
    BY <1>1, <1>2, <1>3
       DEF AsResponse, TransactionFor, Response, Transaction, BeaconType

(* It is one of its address. *)
LEMMA TransactionAt ==
    ASSUME NEW n \in DOMAIN History \cup {Payment}, NEW a \in Address,
           NEW confirmed, NEW block_time
    PROVE  AsResponse(TransactionFor(n, a, confirmed, block_time)).tx.txid
               \in TxidsAt({a})
  BY DEF AsResponse, TransactionFor, TxidsAt

LEMMA MempoolResponsesType ==
    ASSUME ReadTypeOK, NEW a \in Address, NEW unmined \in MempoolResponses(a)
    PROVE  /\ unmined \in Seq(Response)
           /\ \A k \in DOMAIN unmined : ~unmined[k].tx.confirmed
           /\ \A k \in DOMAIN unmined : unmined[k].tx.txid \in TxidsAt({a})
  <1> DEFINE waiting == {n \in DOMAIN History : <<n, a>> \in mempool}
  <1>1. Cardinality(waiting) \in Nat
    <2>1. waiting \in SUBSET (DOMAIN History)
      OBVIOUS
    <2> HIDE DEF waiting
    <2> QED BY <2>1, UpdatesAreFinite
  <1>2. PICK order \in [1..Cardinality(waiting) -> waiting] :
            unmined = [k \in DOMAIN order |->
                           AsResponse(TransactionFor(order[k], a, FALSE, height))]
    BY DEF MempoolResponses
  <1>3. height \in Time
    BY DEF ReadTypeOK
  <1>4. \A k \in 1..Cardinality(waiting) : unmined[k] \in Response
    BY <1>2, <1>3, TransactionType
  <1>5. \A k \in 1..Cardinality(waiting) : ~unmined[k].tx.confirmed
    BY <1>2 DEF AsResponse, TransactionFor
  <1>6. /\ DOMAIN unmined = 1..Cardinality(waiting)
        /\ \A k \in DOMAIN unmined : unmined[k].tx.txid \in TxidsAt({a})
    BY <1>2, TransactionAt
  <1>7. unmined \in [1..Cardinality(waiting) -> Response]
    BY <1>2, <1>4
  <1> HIDE DEF waiting
  <1>8. unmined \in Seq(Response)
    BY <1>1, <1>7, FunctionIsSequence
  <1> QED BY <1>5, <1>6, <1>8

LEMMA MinedResponsesType ==
    ASSUME ReadTypeOK, NEW a \in Address
    PROVE  /\ MinedResponses(a) \in Seq(Response)
           /\ DOMAIN MinedResponses(a) = OnPage(a)
           /\ \A k \in OnPage(a) :
                  MinedResponses(a)[k] =
                      AsResponse(TransactionFor(chain[a][k].update, a, TRUE,
                                                chain[a][k].block_time))
           /\ \A k \in OnPage(a) : MinedResponses(a)[k].tx.txid \in TxidsAt({a})
  <1>1. /\ chain[a] \in Seq(MinedTransaction)
        /\ DOMAIN chain[a] = 1..Len(chain[a])
        /\ Len(chain[a]) \in Nat
    BY DEF ReadTypeOK
  <1>2. PICK length \in Nat : OnPage(a) = 1..length
    <2>1. CASE PageSize <= Len(chain[a])
      <3>1. OnPage(a) = 1..PageSize
        BY <1>1, <2>1, PageAssumption DEF OnPage
      <3> QED BY <3>1, PageAssumption
    <2>2. CASE ~(PageSize <= Len(chain[a]))
      <3>1. OnPage(a) = 1..Len(chain[a])
        BY <1>1, <2>2, PageAssumption DEF OnPage
      <3> QED BY <1>1, <3>1
    <2> QED BY <2>1, <2>2
  <1>3. ASSUME NEW k \in OnPage(a)
        PROVE  AsResponse(TransactionFor(chain[a][k].update, a, TRUE,
                                         chain[a][k].block_time)) \in Response
    <2>1. chain[a][k] \in MinedTransaction
      BY <1>1 DEF OnPage
    <2>2. /\ chain[a][k].update \in DOMAIN History \cup {Payment}
          /\ chain[a][k].block_time \in Time
      BY <2>1 DEF MinedTransaction, ReadTypeOK
    <2> QED BY <2>2, TransactionType
  <1>4. MinedResponses(a) \in [1..length -> Response]
    BY <1>2, <1>3 DEF MinedResponses
  <1>5. MinedResponses(a) \in Seq(Response)
    BY <1>4, FunctionIsSequence
  <1>6. ASSUME NEW k \in OnPage(a)
        PROVE  MinedResponses(a)[k].tx.txid \in TxidsAt({a})
    <2>1. chain[a][k] \in MinedTransaction
      BY <1>1 DEF OnPage
    <2>2. chain[a][k].update \in DOMAIN History \cup {Payment}
      BY <2>1 DEF MinedTransaction
    <2> QED BY <2>2, TransactionAt DEF MinedResponses
  <1> QED BY <1>5, <1>6 DEF MinedResponses

(* A call of resolve() ends with new requests, or none are awaited. *)
LEMMA ResolveStartsRound ==
    ASSUME Resolve
    PROVE  fsm # "WaitingForResponses"
  BY DEF Resolve, ResolveInit, SignalsPanic, NoSignals, AfterTargetTime,
         SignalRejected, CollectUpdates, HandleUpdate, ConfirmDuplicate,
         RejectSource, RejectUpdate, ReachTargetVersion, ApplyNext,
         ExtendDocument, LatePublished, Applying, Selected, FinishBatch,
         Collecting, Readable, Scanning

LEMMA ReadInitType == ReadInit => ReadTypeInv
  <1> SUFFICES ASSUME ReadInit PROVE ReadTypeInv
    OBVIOUS
  <1>1. 1 \in DOMAIN Versions
    BY HistoryAssumption
  <1>2. 0..0 \subseteq Time
    BY ChainAssumption
  <1> QED
    BY <1>1, <1>2 DEF ReadInit, Init, ReadTypeInv, ReadTypeOK, RoundsSeparate

LEMMA ReadNextType == ReadTypeInv /\ [ReadNext]_readVars => ReadTypeInv'
  <1> SUFFICES ASSUME ReadTypeInv, [ReadNext]_readVars PROVE ReadTypeInv'
    OBVIOUS
  <1> USE DEF ReadTypeInv
  <1>1. ASSUME UNCHANGED <<chain, height>>
        PROVE  MinedTransaction' = MinedTransaction
    BY <1>1 DEF MinedTransaction
  <1>2. CASE UNCHANGED readVars
    BY <1>1, <1>2 DEF readVars, vars, network, program, ReadTypeOK,
                      RoundsSeparate, traffic
  <1>3. CASE CallResolve
    <2>1. fetched = {} /\ responses = <<>>
      BY <1>3, ResolveStartsRound DEF CallResolve, RoundsSeparate
    <2>2. start_version' \in DOMAIN Versions
      BY <1>3, ChainVersionType DEF CallResolve, ReadTypeOK
    <2> QED
      BY <1>1, <1>3, <2>1, <2>2
         DEF CallResolve, network, program, ReadTypeOK, RoundsSeparate
  <1>4. ASSUME NEW a \in Address, Request(a)
        PROVE  ReadTypeInv'
    <2>1. PICK unmined \in MempoolResponses(a) :
              responses' = responses \o unmined \o MinedResponses(a)
      BY <1>4 DEF Request
    <2>2. /\ responses \in Seq(Response)
          /\ unmined \in Seq(Response)
          /\ MinedResponses(a) \in Seq(Response)
      BY MempoolResponsesType, MinedResponsesType DEF ReadTypeOK
    <2>3. responses' \in Seq(Response)
      BY <2>1, <2>2, AnswersJoined
    <2>4. ASSUME NEW response \in Range(responses')
          PROVE  response.tx.txid \in TxidsAt(fetched \cup {a})
      <3>1. \/ response \in Range(responses)
            \/ response \in Range(unmined)
            \/ response \in Range(MinedResponses(a))
        BY <2>1, <2>2, <2>4, AnswersJoined
      <3>2. response.tx.txid \in TxidsAt(fetched) \cup TxidsAt({a})
        BY <3>1, MempoolResponsesType, MinedResponsesType DEF ReadTypeOK, Range
      <3> QED BY <3>2 DEF TxidsAt
    <2>5. \A k \in DOMAIN responses' : responses'[k].tx.txid \in TxidsAt(fetched')
      BY <1>4, <2>4 DEF Request, Range
    <2>6. TxidsAt(fetched)' = TxidsAt(fetched')
      BY DEF TxidsAt
    <2> QED
      BY <1>1, <1>4, <2>3, <2>5, <2>6
         DEF Request, vars, traffic, network, ReadTypeOK, RoundsSeparate
  <1>5. CASE RequestFails
    BY <1>1, <1>5 DEF RequestFails, vars, traffic, network, ReadTypeOK,
                      RoundsSeparate
  <1>6. CASE Respond
    BY <1>1, <1>6 DEF Respond, ProcessResponses, network, ReadTypeOK,
                      RoundsSeparate
  <1>7. ASSUME NEW n \in DOMAIN History, NEW a \in Address, Announce(n, a)
        PROVE  ReadTypeInv'
    BY <1>1, <1>7 DEF Announce, vars, traffic, program, ReadTypeOK,
                      RoundsSeparate
  <1>8. ASSUME NEW n \in DOMAIN History \cup {Payment}, NEW a \in Address,
               AddBlock(n, a), mempool' \subseteq mempool
        PROVE  ReadTypeInv'
    <2>1. /\ chain' \in [Address -> Seq(MinedTransaction')]
          /\ \A b \in Address : Len(chain'[b]) <= height'
      BY <1>8, BlockKeepsChain
    <2>2. height' \in Nat /\ 0..height' \subseteq Time
      BY <1>8 DEF AddBlock, ReadTypeOK
    <2> QED
      BY <1>8, <2>1, <2>2 DEF AddBlock, vars, traffic, program, ReadTypeOK,
                              RoundsSeparate
  <1>9. ASSUME NEW n \in DOMAIN History, NEW a \in Address, Mine(n, a)
        PROVE  ReadTypeInv'
    BY <1>8, <1>9 DEF Mine
  <1>10. ASSUME NEW a \in Address, Pay(a)
         PROVE  ReadTypeInv'
    BY <1>8, <1>10 DEF Pay
  <1> QED
    BY <1>2, <1>3, <1>4, <1>5, <1>6, <1>7, <1>9, <1>10
       DEF ReadNext, ProgramStep, NetworkStep

LEMMA ReadTypeInvariant == ReadSpec => []ReadTypeInv
  BY ReadInitType, ReadNextType, PTL DEF ReadSpec

(* The program's variables, the server's answers and the chain keep to     *)
(* their types (src/examples/read_did.rs:26).                              *)
THEOREM ReadTypeCorrect == ReadSpec => []ReadTypeOK
  BY ReadTypeInvariant, PTL DEF ReadTypeInv

-----------------------------------------------------------------------------
(***************************************************************************)
(* The program drives the resolver: each of its steps, and each step of    *)
(* the network, is a step of the resolver or leaves it alone.              *)
(***************************************************************************)
LEMMA ReadStepIsStep ==
    ASSUME ReadTypeInv, [ReadNext]_readVars
    PROVE  [Step]_vars
  BY DEF ReadNext, ProgramStep, NetworkStep, CallResolve, Request, RequestFails,
         Respond, Announce, Mine, Pay, AddBlock, readVars, ReadTypeInv,
         ReadTypeOK, Step

LEMMA ReadSpecIsStepSpec == ReadSpec => StepSpec
  <1>1. ReadInit => Init
    BY DEF ReadInit
  <1> QED
    BY <1>1, ReadStepIsStep, ReadTypeInvariant, PTL DEF ReadSpec, StepSpec

(* What is proved of the resolver holds of the program that drives it      *)
(* (src/examples/read_did.rs:20-41), whatever the chain and the sidecar    *)
(* data look like: no broken chain, no change but by a controller, no fork *)
(* (but for one that repeats a document), no index out of bounds.          *)
THEOREM ResolverDriven ==
    ReadSpec => [](/\ ChainOfCustody
                   /\ OnlyControllersChange
                   /\ NoForkAccepted
                   /\ OnlyVersionOnePanics
                   /\ NeverPastTarget
                   /\ BeaconsQueried)
  BY ReadSpecIsStepSpec, CustodyInvariant, ControllersInvariant, ForkInvariant,
     PanicInvariant, TargetInvariant, QueryInvariant, PTL
     DEF CustodyInv, ForkInv, PanicInv, QueryInv

(* The program implements the log too: what its requests are answered is   *)
(* among the answers the refinement allows for.                            *)
THEOREM ProgramImplementsLog == ReadSpec => ImplementsLog
  BY ReadSpecIsStepSpec, LogImplemented, PTL

-----------------------------------------------------------------------------
(***************************************************************************)
(* The controller is honest: what is mined are the first updates of the    *)
(* history, each at beacons of the document it replaces.                   *)
(***************************************************************************)
PrefixInv ==
    /\ MinedUpdates = 1..(ChainVersion - 1)
    /\ \A at \in mempool : at[1] <= ChainVersion /\ at[2] \in AnnounceAt[at[1]]
    /\ \A n \in DOMAIN History, a \in Address :
           IsMined(n, a) => a \in AnnounceAt[n]

LEMMA PrefixCount == ASSUME NEW m \in Nat PROVE Cardinality(1..m) = m
  BY FS_Interval

(* A block makes its own announcement mined and no other. *)
LEMMA MinedByBlock ==
    ASSUME ReadTypeOK, NEW n \in DOMAIN History \cup {Payment},
           NEW a \in Address, AddBlock(n, a),
           NEW i \in DOMAIN History, NEW b \in Address
    PROVE  IsMined(i, b)' <=> IsMined(i, b) \/ (i = n /\ b = a)
  <1>1. ASSUME IsMined(i, b)
        PROVE  IsMined(i, b)'
    <2>1. ChainKept
      BY BlockKeepsChain
    <2> QED BY <1>1, <2>1 DEF IsMined, ChainKept
  <1>2. ASSUME i = n, b = a
        PROVE  IsMined(i, b)'
    BY <1>2, BlockKeepsChain DEF IsMined
  <1>3. ASSUME IsMined(i, b)', ~(i = n /\ b = a)
        PROVE  IsMined(i, b)
    <2>1. PICK s \in DOMAIN chain'[b] : chain'[b][s].update = i
      BY <1>3 DEF IsMined
    <2>2. \/ b = a /\ chain'[b][s] = [update |-> n, block_time |-> height']
          \/ \E k \in DOMAIN chain[b] : chain'[b][s] = chain[b][k]
      BY BlockKeepsChain
    <2>3. PICK k \in DOMAIN chain[b] : chain'[b][s] = chain[b][k]
      BY <1>3, <2>1, <2>2
    <2> QED BY <2>1, <2>3 DEF IsMined
  <1> QED BY <1>1, <1>2, <1>3

LEMMA PrefixInit == ReadInit => PrefixInv
  <1> SUFFICES ASSUME ReadInit PROVE PrefixInv
    OBVIOUS
  <1>1. \A n \in DOMAIN History, a \in Address : ~IsMined(n, a)
    BY DEF ReadInit, IsMined
  <1>2. MinedUpdates = 1..0
    BY <1>1 DEF MinedUpdates
  <1>3. ChainVersion = 1
    <2>1. ChainVersion = 1 + Cardinality(MinedUpdates)
      BY DEF ChainVersion, MinedUpdates
    <2>2. Cardinality(1..0) = 0
      BY PrefixCount
    <2> QED BY <1>2, <2>1, <2>2
  <1> QED BY <1>1, <1>2, <1>3 DEF ReadInit, PrefixInv

(* The next update is mined, or one that was mined before. *)
LEMMA PrefixByBlock ==
    ASSUME ReadTypeOK, PrefixInv, NEW n \in DOMAIN History \cup {Payment},
           NEW a \in Address, AddBlock(n, a), mempool' \subseteq mempool,
           n # Payment => n <= ChainVersion /\ a \in AnnounceAt[n]
    PROVE  PrefixInv' /\ ChainVersion <= ChainVersion'
  <1> DEFINE m == ChainVersion - 1
  <1>1. /\ ChainVersion \in Nat /\ m \in Nat /\ m + 1 = ChainVersion
        /\ DOMAIN History = 1..Len(History) /\ Len(History) \in Nat
    <2>1. ChainVersion \in 1..Len(Versions)
      BY ChainVersionType, HistoryAssumption
    <2> QED BY <2>1, HistoryAssumption
  <1>2. MinedUpdates' = MinedUpdates \cup ({n} \ {Payment})
    <2>1. MinedUpdates' \subseteq MinedUpdates \cup ({n} \ {Payment})
      BY <1>1, MinedByBlock DEF MinedUpdates, Payment
    <2>2. MinedUpdates \subseteq MinedUpdates'
      BY MinedByBlock DEF MinedUpdates
    <2>3. {n} \ {Payment} \subseteq MinedUpdates'
      BY MinedByBlock DEF MinedUpdates
    <2> QED BY <2>1, <2>2, <2>3
  <1>3. PICK last \in Nat : MinedUpdates' = 1..last /\ last >= m
    <2>1. CASE n # Payment /\ n = m + 1
      <3>1. MinedUpdates' = 1..(m + 1)
        BY <1>1, <1>2, <2>1 DEF PrefixInv
      <3> QED BY <1>1, <3>1
    <2>2. CASE n = Payment \/ n <= m
      <3>1. MinedUpdates' = 1..m
        BY <1>1, <1>2, <2>2 DEF PrefixInv
      <3> QED BY <1>1, <3>1
    <2>3. n = Payment \/ (n \in Nat /\ n <= m + 1)
      BY <1>1
    <2> QED BY <1>1, <2>1, <2>2, <2>3
  <1>4. ChainVersion' = last + 1
    <2>1. ChainVersion' = 1 + Cardinality(MinedUpdates')
      BY DEF ChainVersion, MinedUpdates
    <2> QED BY <1>3, <2>1, PrefixCount
  <1>5. MinedUpdates' = 1..(ChainVersion' - 1) /\ ChainVersion <= ChainVersion'
    BY <1>1, <1>3, <1>4
  <1>6. \A at \in mempool' : at[1] <= ChainVersion' /\ at[2] \in AnnounceAt[at[1]]
    <2> SUFFICES ASSUME NEW at \in mempool
                 PROVE  at[1] <= ChainVersion' /\ at[2] \in AnnounceAt[at[1]]
      OBVIOUS
    <2>1. at[1] <= ChainVersion /\ at[2] \in AnnounceAt[at[1]]
      BY DEF PrefixInv
    <2>2. at[1] \in Nat
      BY <1>1 DEF ReadTypeOK
    <2> QED BY <1>1, <1>4, <1>5, <2>1, <2>2
  <1>7. \A i \in DOMAIN History, b \in Address :
            IsMined(i, b)' => b \in AnnounceAt[i]
    BY <1>1, MinedByBlock DEF PrefixInv, Payment
  <1> QED BY <1>5, <1>6, <1>7 DEF PrefixInv

LEMMA PrefixStep ==
    ASSUME ReadTypeOK, PrefixInv, [ReadNext]_readVars
    PROVE  PrefixInv' /\ ChainVersion <= ChainVersion'
  <1>1. ChainVersion \in Nat
    BY ChainVersionType, HistoryAssumption
  <1>2. ASSUME UNCHANGED chain
        PROVE  /\ UNCHANGED ChainVersion
               /\ ChainVersion <= ChainVersion'
               /\ mempool' \subseteq mempool => PrefixInv'
    BY <1>1, <1>2 DEF ChainVersion, MinedUpdates, IsMined, PrefixInv
  <1>3. CASE ProgramStep \/ UNCHANGED readVars
    BY <1>2, <1>3 DEF ProgramStep, CallResolve, Request, RequestFails, Respond,
                      readVars, network
  <1>4. ASSUME NEW n \in DOMAIN History, NEW a \in Address, Announce(n, a)
        PROVE  PrefixInv' /\ ChainVersion <= ChainVersion'
    <2>1. UNCHANGED <<chain, ChainVersion, MinedUpdates>>
      BY <1>2, <1>4 DEF Announce, MinedUpdates, IsMined
    <2>2. \A at \in mempool' : at[1] <= ChainVersion /\ at[2] \in AnnounceAt[at[1]]
      BY <1>4 DEF Announce, PrefixInv
    <2>3. \A i \in DOMAIN History, b \in Address :
              IsMined(i, b)' => b \in AnnounceAt[i]
      BY <2>1 DEF IsMined, PrefixInv
    <2> QED BY <1>2, <2>1, <2>2, <2>3 DEF PrefixInv
  <1>5. ASSUME NEW n \in DOMAIN History, NEW a \in Address, Mine(n, a)
        PROVE  PrefixInv' /\ ChainVersion <= ChainVersion'
    <2>1. n <= ChainVersion /\ a \in AnnounceAt[n]
      BY <1>5 DEF Mine, PrefixInv
    <2> QED BY <1>5, <2>1, PrefixByBlock DEF Mine
  <1>6. ASSUME NEW a \in Address, Pay(a)
        PROVE  PrefixInv' /\ ChainVersion <= ChainVersion'
    BY <1>6, PrefixByBlock DEF Pay
  <1> QED BY <1>3, <1>4, <1>5, <1>6 DEF ReadNext, NetworkStep

-----------------------------------------------------------------------------
(***************************************************************************)
(* The answers are honest: a confirmed signal announces an update that is  *)
(* mined, and the hash in it leaves no choice of the update.               *)
(***************************************************************************)
Announces(response, n, mined) ==
    /\ IsSignal(response.tx)
    /\ response.tx.confirmed
    /\ response.tx.signal_bytes = UpdateHash(History[n])
    /\ \E k \in DOMAIN mined :
           mined[k].update = n /\ mined[k].block_time = response.tx.block_time

Honest(response, blockchain) ==
    IsSignal(response.tx) /\ response.tx.confirmed =>
        \E n \in DOMAIN History, a \in Address :
            Announces(response, n, blockchain[a])

HonestyInv ==
    /\ \A response \in Range(responses) : Honest(response, chain)
    /\ \A response \in Range(transactions) : Honest(response, chain)
    /\ fsm = "Updates" => \A i \in Signals : transactions[i].tx.confirmed

LEMMA AnnouncesStays ==
    ASSUME ChainKept, NEW response, NEW n, NEW a \in Address,
           Announces(response, n, chain[a])
    PROVE  Announces(response, n, chain'[a])
  <1>1. PICK k \in DOMAIN chain[a] :
            /\ chain[a][k].update = n
            /\ chain[a][k].block_time = response.tx.block_time
    BY DEF Announces
  <1>2. PICK s \in DOMAIN chain'[a] : chain'[a][s] = chain[a][k]
    BY DEF ChainKept
  <1> QED BY <1>1, <1>2 DEF Announces

LEMMA HonestStays ==
    ASSUME ChainKept, NEW response, Honest(response, chain)
    PROVE  Honest(response, chain')
  BY AnnouncesStays DEF Honest

(* A page announces what stands on it. *)
LEMMA PageAnnounces ==
    ASSUME ReadTypeOK, NEW a \in Address, NEW k \in OnPage(a),
           chain[a][k].update # Payment
    PROVE  Announces(MinedResponses(a)[k], chain[a][k].update, chain[a])
  <1>1. MinedResponses(a)[k] =
            AsResponse(TransactionFor(chain[a][k].update, a, TRUE,
                                      chain[a][k].block_time))
    BY MinedResponsesType
  <1> QED
    BY <1>1 DEF Announces, AsResponse, TransactionFor, IsSignal, OnPage

LEMMA PageIsHonest ==
    ASSUME ReadTypeOK, NEW a \in Address, NEW k \in OnPage(a)
    PROVE  Honest(MinedResponses(a)[k], chain)
  <1>1. CASE chain[a][k].update = Payment
    <2>1. MinedResponses(a)[k] =
              AsResponse(TransactionFor(Payment, a, TRUE, chain[a][k].block_time))
      BY <1>1, MinedResponsesType
    <2> QED BY <2>1 DEF Honest, AsResponse, TransactionFor, IsSignal
  <1>2. CASE chain[a][k].update # Payment
    <2>1. chain[a][k] \in MinedTransaction
      BY DEF ReadTypeOK, OnPage
    <2>2. chain[a][k].update \in DOMAIN History
      BY <1>2, <2>1 DEF MinedTransaction
    <2> QED BY <1>2, <2>2, PageAnnounces DEF Honest
  <1> QED BY <1>1, <1>2

(* Whatever update a signal of the loop has is the one that was announced. *)
LEMMA MatchedUpdate ==
    ASSUME TypeOK, fsm = "Updates", NEW i \in Signals,
           NEW n \in DOMAIN History, NEW mined,
           Announces(transactions[i], n, mined)
    PROVE  UpdateAt(i) = History[n] /\ VersionAt(i) = n + 1
  <1>1. UpdateHash(UpdateAt(i)) = UpdateHash(History[n])
    BY DEF TypeOK, SignalError, Announced, Announces
  <1>2. UpdateAt(i) = History[n]
    BY <1>1, CollectedUpdate, HistoryAssumption, HashesInjective
  <1> QED BY <1>2, HistoryAssumption DEF VersionAt

LEMMA CollectedIsMined ==
    ASSUME TypeOK, ReadTypeOK, PrefixInv, HonestyInv, fsm = "Updates",
           NEW i \in Signals
    PROVE  \E n \in DOMAIN History :
               UpdateAt(i) = History[n] /\ VersionAt(i) = n + 1 /\ n < ChainVersion
  <1>1. transactions[i].tx.confirmed /\ IsSignal(transactions[i].tx)
            /\ i \in DOMAIN transactions
    BY DEF HonestyInv, Signals
  <1>2. PICK n \in DOMAIN History, a \in Address :
            Announces(transactions[i], n, chain[a])
    BY <1>1 DEF HonestyInv, Honest, Range
  <1>3. n \in MinedUpdates
    BY <1>2 DEF MinedUpdates, IsMined, Announces
  <1>4. n < ChainVersion
    <2>1. ChainVersion \in Nat /\ n \in Nat
      BY ChainVersionType, HistoryAssumption
    <2> QED BY <1>3, <2>1 DEF PrefixInv
  <1> QED BY <1>2, <1>4, MatchedUpdate

(* resolve() keeps what it was given. *)
LEMMA ResolveKeepsAnswers ==
    ASSUME Resolve
    PROVE  UNCHANGED <<transactions, signals_metadata, target_condition>>
  BY DEF Resolve, ResolveInit, SignalsPanic, NoSignals, AfterTargetTime,
         SignalRejected, CollectUpdates, HandleUpdate, ConfirmDuplicate,
         RejectSource, RejectUpdate, ReachTargetVersion, ApplyNext,
         LatePublished, FinishBatch, options, traffic

(* The loop is entered only with signals that are confirmed. *)
LEMMA LoopEntered ==
    ASSUME Resolve, fsm' = "Updates"
    PROVE  fsm = "Updates" \/ CollectUpdates
  BY DEF Resolve, ResolveInit, SignalsPanic, NoSignals, AfterTargetTime,
         SignalRejected, HandleUpdate, ConfirmDuplicate, RejectSource,
         RejectUpdate, ReachTargetVersion, ApplyNext, ExtendDocument, Applying,
         Selected, LatePublished, FinishBatch, NextSignalsRequests, Finish, Fail,
         Panic

LEMMA HonestyStep ==
    ASSUME ReadTypeInv, HonestyInv, [ReadNext]_readVars
    PROVE  HonestyInv'
  <1>1. ChainKept /\ ReadTypeOK
    BY StepsKeepChain DEF ReadTypeInv
  <1>2. /\ \A response \in Range(responses) : Honest(response, chain')
        /\ \A response \in Range(transactions) : Honest(response, chain')
    BY <1>1, HonestStays DEF HonestyInv
  <1>3. CASE UNCHANGED <<transactions, fsm, responses>>
    BY <1>2, <1>3 DEF HonestyInv, Signals
  <1>4. CASE CallResolve
    <2>1. UNCHANGED <<transactions, responses>>
      BY <1>4, ResolveKeepsAnswers DEF CallResolve, program
    <2>2. ASSUME fsm' = "Updates"
          PROVE  \A i \in Signals : transactions[i].tx.confirmed
      <3>1. CASE fsm = "Updates"
        BY <3>1 DEF HonestyInv
      <3>2. CASE CollectUpdates
        BY <3>2 DEF CollectUpdates, Collecting, Readable, Unreadable, Signals
      <3> QED BY <1>4, <2>2, <3>1, <3>2, LoopEntered DEF CallResolve
    <2> QED BY <1>2, <2>1, <2>2 DEF HonestyInv, Signals
  <1>5. ASSUME NEW a \in Address, Request(a)
        PROVE  HonestyInv'
    <2>1. PICK unmined \in MempoolResponses(a) :
              responses' = responses \o unmined \o MinedResponses(a)
      BY <1>5 DEF Request
    <2>2. /\ responses \in Seq(Response)
          /\ unmined \in Seq(Response)
          /\ \A k \in DOMAIN unmined : ~unmined[k].tx.confirmed
          /\ MinedResponses(a) \in Seq(Response)
          /\ DOMAIN MinedResponses(a) = OnPage(a)
      BY <1>1, MempoolResponsesType, MinedResponsesType DEF ReadTypeOK
    <2>3. UNCHANGED <<chain, transactions, fsm>>
      BY <1>5 DEF Request, vars, traffic, network
    <2>4. \A response \in Range(unmined) : Honest(response, chain)
      BY <2>2 DEF Honest, Range
    <2>5. \A response \in Range(MinedResponses(a)) : Honest(response, chain)
      BY <1>1, <2>2, PageIsHonest DEF Range
    <2>6. Range(responses') =
              Range(responses) \cup Range(unmined) \cup Range(MinedResponses(a))
      BY <2>1, <2>2, AnswersJoined
    <2>7. \A response \in Range(responses') : Honest(response, chain)
      BY <2>4, <2>5, <2>6 DEF HonestyInv
    <2> QED BY <2>3, <2>7 DEF HonestyInv, Signals
  <1>6. CASE Respond
    <2>1. Range(responses') = {} /\ fsm' # "Updates"
              /\ transactions' = responses /\ UNCHANGED chain
      BY <1>6 DEF Respond, ProcessResponses, network, Range
    <2> QED BY <2>1 DEF HonestyInv
  <1>7. CASE RequestFails \/ NetworkStep \/ UNCHANGED readVars
    BY <1>3, <1>7 DEF RequestFails, NetworkStep, Announce, Mine, Pay, AddBlock,
                      readVars, vars, traffic, program
  <1> QED BY <1>4, <1>5, <1>6, <1>7 DEF ReadNext, ProgramStep

-----------------------------------------------------------------------------
(***************************************************************************)
(* The document in hand is one of the history, and none that the chain has *)
(* not reached.                                                            *)
(***************************************************************************)
CurrentInv ==
    fsm # "Err" =>
        /\ current_version_id <= ChainVersion
        /\ contemporary_doc = Versions[current_version_id]

SafeInv ==
    /\ ReadTypeInv
    /\ TypeOK
    /\ PrefixInv
    /\ HonestyInv
    /\ CurrentInv

LEMMA CurrentStep ==
    ASSUME SafeInv, [ReadNext]_readVars
    PROVE  CurrentInv'
  <1>1. /\ [Step]_vars
        /\ ChainVersion <= ChainVersion'
        /\ ChainVersion \in Nat /\ ChainVersion' \in Nat
        /\ current_version_id \in Nat
    <2>1. ChainVersion' \in DOMAIN Versions
      <3>1. MinedUpdates' \in SUBSET (DOMAIN History)
        BY DEF MinedUpdates
      <3>2. Cardinality(MinedUpdates') \in 0..Len(History)
        BY <3>1, UpdatesAreFinite
      <3>3. ChainVersion' = 1 + Cardinality(MinedUpdates')
        BY DEF ChainVersion, MinedUpdates
      <3> QED BY <3>2, <3>3, HistoryAssumption
    <2> QED
      BY <2>1, ReadStepIsStep, PrefixStep, ChainVersionType, HistoryAssumption
         DEF SafeInv, ReadTypeInv, TypeOK
  <1>2. CASE /\ UNCHANGED <<applied, current_version_id>>
             /\ fsm' # "Err" => fsm # "Err" /\ UNCHANGED contemporary_doc
    BY <1>1, <1>2 DEF SafeInv, CurrentInv
  <1>3. ASSUME NEW i \in pending, ExtendDocument(i)
        PROVE  CurrentInv'
    <2>1. fsm = "Updates" /\ i \in Signals
      BY <1>3 DEF ExtendDocument, Applying, Selected, SafeInv, TypeOK
    <2>2. PICK n \in DOMAIN History :
              UpdateAt(i) = History[n] /\ VersionAt(i) = n + 1 /\ n < ChainVersion
      BY <2>1, CollectedIsMined DEF SafeInv, ReadTypeInv
    <2>3. n \in Nat
      BY HistoryAssumption
    <2>4. n = current_version_id /\ current_version_id' = n + 1
      BY <1>1, <1>3, <2>2, <2>3 DEF ExtendDocument, Applying, IsNext
    <2>5. contemporary_doc = Versions[n]
      BY <2>1, <2>4 DEF SafeInv, CurrentInv
    <2>6. contemporary_doc' = Versions[n + 1]
      BY <1>3, <2>2, <2>5, HistoryAssumption DEF ExtendDocument
    <2> QED BY <1>1, <2>2, <2>3, <2>4, <2>6 DEF CurrentInv
  <1> QED BY <1>1, <1>2, <1>3, StepKinds DEF SafeInv

LEMMA SafeInvariant == ReadSpec => []SafeInv
  <1>1. ReadInit => PrefixInv /\ HonestyInv /\ CurrentInv
    <2> SUFFICES ASSUME ReadInit PROVE PrefixInv /\ HonestyInv /\ CurrentInv
      OBVIOUS
    <2>1. ChainVersion \in Nat /\ 1 <= ChainVersion
      BY ChainVersionType, HistoryAssumption
    <2>2. contemporary_doc = Versions[1] /\ current_version_id = 1
      BY HistoryAssumption DEF ReadInit, Init, InitialVersionId
    <2> QED
      BY <2>1, <2>2, PrefixInit DEF ReadInit, Init, HonestyInv, CurrentInv, Range
  <1>2. SafeInv /\ [ReadNext]_readVars /\ TypeOK' => SafeInv'
    BY ReadNextType, PrefixStep, HonestyStep, CurrentStep
       DEF SafeInv, ReadTypeInv
  <1>3. ReadInit => SafeInv
    BY <1>1, ReadInitType, InitType DEF SafeInv, ReadInit
  <1>4. ReadSpec => []TypeOK
    BY ReadSpecIsStepSpec, TypeInvariant, PTL
  <1> QED
    BY <1>2, <1>3, <1>4, PTL DEF ReadSpec

-----------------------------------------------------------------------------
(***************************************************************************)
(* Nothing is missed.  While the program looks for updates, each one that  *)
(* was mined before it began has an address at which it still is to be     *)
(* found, was found in this round, or has been applied.                    *)
(***************************************************************************)
Looking == {"WaitingForResponses", "FindNextSignals", "Updates"}

Reported(n, mined, answers) ==
    \E response \in Range(answers) : Announces(response, n, mined)

Awaited(n, a) ==
    \E i \in pending : Announces(transactions[i], n, chain[a])

Covers(n, a) ==
    /\ IsMined(n, a)
    /\ fsm = "WaitingForResponses" /\ a \in fetched =>
           Reported(n, chain[a], responses)
    /\ fsm = "FindNextSignals" /\ a \in requests =>
           Reported(n, chain[a], transactions)
    /\ fsm = "Updates" /\ a \in requests => n < current_version_id \/ Awaited(n, a)
    /\ a \in request_cache \ requests => n < current_version_id

CoverInv ==
    /\ fsm = "Init" => request_cache = {}
    /\ fsm \in Looking /\ PagesHold =>
           \A n \in 1..(start_version - 1) : \E a \in Address : Covers(n, a)
    /\ fsm = "Resolved" /\ WithinBound /\ PagesHold =>
           VersionSought <= current_version_id

(* Announcements only move away from the first page, and stay late.        *)
LEMMA PagesStay ==
    ASSUME ReadTypeOK, ReadTypeOK', ChainKept
    PROVE  /\ PagesHold' => PagesHold
           /\ UNCHANGED target_condition /\ WithinBound' => WithinBound
  <1>1. ASSUME NEW at \in MinedAnnouncements
        PROVE  \E s \in DOMAIN chain'[at[1]] :
                   /\ s >= at[2]
                   /\ chain'[at[1]][s] = chain[at[1]][at[2]]
                   /\ <<at[1], s>> \in MinedAnnouncements'
    <2>1. /\ at[1] \in Address
          /\ at[2] \in DOMAIN chain[at[1]]
          /\ chain[at[1]][at[2]].update # Payment
      BY DEF MinedAnnouncements
    <2>2. PICK s \in DOMAIN chain'[at[1]] :
              s >= at[2] /\ chain'[at[1]][s] = chain[at[1]][at[2]]
      BY <2>1 DEF ChainKept
    <2>3. s \in 1..height'
      <3>1. /\ chain'[at[1]] \in Seq(MinedTransaction')
            /\ Len(chain'[at[1]]) <= height'
            /\ height' \in Nat
        BY <2>1 DEF ReadTypeOK
      <3> QED BY <2>2, <3>1
    <2> QED BY <2>1, <2>2, <2>3 DEF MinedAnnouncements
  <1>2. ASSUME PagesHold', NEW at \in MinedAnnouncements
        PROVE  at[2] \in OnPage(at[1])
    <2>1. PICK s \in DOMAIN chain'[at[1]] :
              s >= at[2] /\ <<at[1], s>> \in MinedAnnouncements'
      BY <1>1
    <2>2. s <= PageSize
      BY <1>2, <2>1 DEF PagesHold, OnPage
    <2>3. at[2] \in DOMAIN chain[at[1]] /\ at[2] \in Nat /\ s \in Nat
      BY <2>1 DEF MinedAnnouncements, ReadTypeOK
    <2>4. at[2] <= PageSize
      BY <2>1, <2>2, <2>3, PageAssumption
    <2> QED BY <2>3, <2>4 DEF OnPage
  <1>3. ASSUME UNCHANGED target_condition, WithinBound',
               target_condition.kind = "Time", NEW at \in MinedAnnouncements
        PROVE  chain[at[1]][at[2]].block_time <= target_condition.time
    <2>1. PICK s \in DOMAIN chain'[at[1]] :
              /\ chain'[at[1]][s] = chain[at[1]][at[2]]
              /\ <<at[1], s>> \in MinedAnnouncements'
      BY <1>1
    <2> QED BY <1>3, <2>1 DEF WithinBound
  <1> QED BY <1>2, <1>3 DEF PagesHold, WithinBound

(* What was mined when the resolution began is covered by whatever address *)
(* it was mined at, since none was asked.                                  *)
LEMMA CoverBegins ==
    ASSUME SafeInv, CoverInv, fsm = "Init", CallResolve, fsm' \in Looking,
           NEW n \in 1..(start_version' - 1)
    PROVE  \E a \in Address : Covers(n, a)'
  <1>1. ResolveInit /\ fsm' = "WaitingForResponses" /\ UNCHANGED chain
            /\ start_version' = ChainVersion /\ UNCHANGED fetched
    BY DEF CallResolve, Resolve, ResolveInit, SignalsPanic, NoSignals,
           AfterTargetTime, SignalRejected, CollectUpdates, HandleUpdate,
           ConfirmDuplicate, RejectSource, RejectUpdate, ReachTargetVersion,
           ApplyNext, ExtendDocument, LatePublished, Applying, Selected,
           FinishBatch, Collecting, Readable, Scanning, NextSignalsRequests,
           Finish, Panic, Looking, network, program
  <1>2. n \in MinedUpdates
    BY <1>1 DEF SafeInv, PrefixInv
  <1>3. PICK a \in Address : IsMined(n, a)
    BY <1>2 DEF MinedUpdates
  <1>4. fetched = {}
    BY DEF SafeInv, ReadTypeInv, RoundsSeparate
  <1>5. request_cache' = requests'
    BY <1>1 DEF ResolveInit, NextSignalsRequests, Finish, Panic, CoverInv
  <1> QED BY <1>1, <1>3, <1>4, <1>5 DEF Covers, IsMined

(* The chain grows, the program does not move. *)
LEMMA CoverWaits ==
    ASSUME ChainKept, UNCHANGED <<vars, program>>,
           NEW n, NEW a \in Address, Covers(n, a)
    PROVE  Covers(n, a)'
  <1>1. /\ UNCHANGED <<fsm, fetched, responses, requests, request_cache,
                       transactions, pending, current_version_id>>
    BY DEF vars, machine, traffic, program
  <1>2. IsMined(n, a)'
    BY DEF Covers, IsMined, ChainKept
  <1>3. /\ Reported(n, chain[a], responses) => Reported(n, chain'[a], responses)
        /\ Reported(n, chain[a], transactions) => Reported(n, chain'[a], transactions)
    BY AnnouncesStays DEF Reported
  <1>4. Awaited(n, a) => Awaited(n, a)'
    <2>1. \A i \in pending : Announces(transactions[i], n, chain[a]) =>
                                 Announces(transactions[i], n, chain'[a])
      BY AnnouncesStays
    <2> QED BY <1>1, <2>1 DEF Awaited
  <1> QED BY <1>1, <1>2, <1>3, <1>4 DEF Covers

(* The page holds what was mined at the address. *)
LEMMA CoverRequested ==
    ASSUME ReadTypeInv, PagesHold, NEW b \in Address, Request(b),
           NEW n \in DOMAIN History, NEW a \in Address, Covers(n, a)
    PROVE  Covers(n, a)'
  <1>1. PICK unmined \in MempoolResponses(b) :
            responses' = responses \o unmined \o MinedResponses(b)
    BY DEF Request
  <1>2. Range(responses') =
            Range(responses) \cup Range(unmined) \cup Range(MinedResponses(b))
    <2>1. /\ responses \in Seq(Response)
          /\ unmined \in Seq(Response)
          /\ MinedResponses(b) \in Seq(Response)
      BY MempoolResponsesType, MinedResponsesType DEF ReadTypeInv, ReadTypeOK
    <2> QED BY <1>1, <2>1, AnswersJoined
  <1>3. /\ UNCHANGED <<chain, fsm, requests, request_cache, transactions, pending,
                       current_version_id>>
        /\ fsm = "WaitingForResponses"
        /\ fetched' = fetched \cup {b}
    BY DEF Request, vars, machine, traffic, network
  <1>4. IsMined(n, a) /\ IsMined(n, a)'
    BY <1>3 DEF Covers, IsMined
  <1>5. ASSUME a = b
        PROVE  Reported(n, chain[a], MinedResponses(b))
    <2>1. PICK k \in DOMAIN chain[a] : chain[a][k].update = n
      BY <1>4 DEF IsMined
    <2>2. n # Payment
      BY HistoryAssumption DEF Payment
    <2>3. k \in OnPage(a)
      <3>1. k \in 1..height
        BY <2>1 DEF ReadTypeInv, ReadTypeOK
      <3>2. <<a, k>> \in MinedAnnouncements
        BY <2>1, <2>2, <3>1 DEF MinedAnnouncements
      <3> QED BY <3>2 DEF PagesHold
    <2>4. Announces(MinedResponses(a)[k], n, chain[a])
      BY <2>1, <2>2, <2>3, PageAnnounces DEF ReadTypeInv
    <2>5. MinedResponses(a)[k] \in Range(MinedResponses(a))
      BY <2>3, MinedResponsesType DEF Range, ReadTypeInv
    <2> QED BY <1>5, <2>4, <2>5 DEF Reported
  <1>6. a \in fetched' => Reported(n, chain[a], responses')
    BY <1>2, <1>3, <1>5 DEF Covers, Reported
  <1> QED BY <1>3, <1>4, <1>6 DEF Covers

LEMMA CoverAnswered ==
    ASSUME ReadTypeInv, Respond, NEW n, NEW a \in Address, Covers(n, a)
    PROVE  Covers(n, a)'
  <1>1. /\ fsm = "WaitingForResponses" /\ fsm' = "FindNextSignals"
        /\ fetched = requests /\ transactions' = responses
        /\ UNCHANGED <<chain, requests, request_cache, current_version_id>>
    BY DEF Respond, ProcessResponses, network, machine
  <1>2. IsMined(n, a)'
    BY <1>1 DEF Covers, IsMined
  <1> QED BY <1>1, <1>2 DEF Covers

(* An update that leaves the loop's hands was applied, now or before. *)
LEMMA CoverHandled ==
    ASSUME SafeInv, fsm = "Updates", NEW i \in pending,
           ConfirmDuplicate(i) \/ ApplyNext(i), fsm' = "Updates", UNCHANGED network,
           NEW n \in DOMAIN History, NEW a \in Address, Covers(n, a)
    PROVE  Covers(n, a)'
  <1>1. /\ UNCHANGED <<chain, requests, request_cache, transactions>>
        /\ pending' = pending \ {i}
        /\ current_version_id' >= current_version_id
        /\ VersionAt(i) <= current_version_id'
    <2>1. current_version_id \in Nat
      BY DEF SafeInv, TypeOK
    <2>2. CASE ConfirmDuplicate(i)
      BY <2>1, <2>2 DEF ConfirmDuplicate, IsDuplicate, traffic, network
    <2>3. CASE ApplyNext(i)
      BY <2>1, <2>3 DEF ApplyNext, ExtendDocument, Applying, IsNext, traffic, network
    <2> QED BY <2>2, <2>3
  <1>2. /\ n \in Nat /\ current_version_id \in Nat /\ current_version_id' \in Nat
        /\ i \in Signals
    <2>1. current_version_id' \in Nat
      <3>1. current_version_id' \in {current_version_id, current_version_id + 1}
        BY DEF ConfirmDuplicate, ApplyNext, ExtendDocument
      <3> QED BY <3>1 DEF SafeInv, TypeOK
    <2> QED BY <2>1, HistoryAssumption DEF SafeInv, TypeOK
  <1>3. IsMined(n, a)'
    BY <1>1 DEF Covers, IsMined
  <1>4. n < current_version_id => n < current_version_id'
    BY <1>1, <1>2
  <1>5. ASSUME a \in requests
        PROVE  n < current_version_id' \/ Awaited(n, a)'
    <2>1. CASE n < current_version_id
      BY <1>4, <2>1
    <2>2. ASSUME NEW j \in pending, Announces(transactions[j], n, chain[a])
          PROVE  n < current_version_id' \/ Awaited(n, a)'
      <3>1. CASE j = i
        <4>1. VersionAt(i) = n + 1
          BY <1>2, <2>2, <3>1, MatchedUpdate DEF SafeInv
        <4> QED BY <1>1, <1>2, <4>1
      <3>2. CASE j # i
        BY <1>1, <2>2, <3>2 DEF Awaited
      <3> QED BY <3>1, <3>2
    <2> QED BY <1>5, <2>1, <2>2 DEF Covers, Awaited
  <1> QED BY <1>1, <1>3, <1>4, <1>5 DEF Covers

LEMMA CoverCollected ==
    ASSUME SafeInv, CollectUpdates, UNCHANGED network,
           NEW n, NEW a \in Address, Covers(n, a)
    PROVE  Covers(n, a)'
  <1>1. /\ UNCHANGED <<chain, requests, request_cache, transactions,
                       current_version_id>>
        /\ fsm = "FindNextSignals" /\ fsm' = "Updates" /\ pending' = Signals
    BY DEF CollectUpdates, Collecting, Readable, Scanning, machine, traffic, network
  <1>2. IsMined(n, a)'
    BY <1>1 DEF Covers, IsMined
  <1>3. ASSUME a \in requests
        PROVE  Awaited(n, a)'
    <2>1. PICK i \in DOMAIN transactions : Announces(transactions[i], n, chain[a])
      BY <1>1, <1>3 DEF Covers, Reported, Range
    <2>2. i \in Signals
      BY <2>1 DEF Announces, Signals
    <2> QED BY <1>1, <2>1, <2>2 DEF Awaited
  <1> QED BY <1>1, <1>2, <1>3 DEF Covers

(* The next round asks where nobody has asked. *)
LEMMA CoverNextRound ==
    ASSUME SafeInv, FinishBatch, fsm' = "WaitingForResponses",
           UNCHANGED <<network, program>>,
           NEW n, NEW a \in Address, Covers(n, a)
    PROVE  Covers(n, a)'
  <1>1. /\ UNCHANGED <<chain, fetched, current_version_id>>
        /\ fsm = "Updates" /\ pending = {} /\ fetched = {}
        /\ requests' = FreshAddresses
        /\ request_cache' = request_cache \cup FreshAddresses
    BY DEF FinishBatch, NextSignalsRequests, Panic, machine, network, program,
           SafeInv, ReadTypeInv, RoundsSeparate
  <1>2. IsMined(n, a)'
    BY <1>1 DEF Covers, IsMined
  <1>3. ~Awaited(n, a)
    BY <1>1 DEF Awaited
  <1> QED BY <1>1, <1>2, <1>3 DEF Covers, FreshAddresses

(* The next update of a document whose beacons were all asked is in hand. *)
LEMMA NextIsFound ==
    ASSUME SafeInv, CoverInv, PagesHold, fsm \in {"FindNextSignals", "Updates"},
           BeaconAddresses(contemporary_doc) \subseteq request_cache,
           ~(start_version <= current_version_id)
    PROVE  \E i \in Signals : fsm = "Updates" => i \in pending
  <1> DEFINE n == current_version_id
  <1>1. /\ start_version \in 1..(Len(History) + 1) /\ n \in Nat \ {0}
        /\ Len(History) \in Nat
    BY HistoryAssumption DEF SafeInv, ReadTypeInv, ReadTypeOK, TypeOK
  <1>2. n \in 1..(start_version - 1) /\ n \in DOMAIN History
    BY <1>1, HistoryAssumption
  <1>3. PICK a \in Address : Covers(n, a)
    BY <1>2 DEF CoverInv, Looking
  <1>4. a \in BeaconAddresses(contemporary_doc)
    <2>1. contemporary_doc = Versions[n]
      BY DEF SafeInv, CurrentInv
    <2>2. a \in AnnounceAt[n]
      BY <1>2, <1>3 DEF Covers, SafeInv, PrefixInv
    <2> QED BY <1>2, <2>1, <2>2, HistoryAssumption
  <1>5. a \in requests
    BY <1>1, <1>3, <1>4 DEF Covers
  <1>6. CASE fsm = "FindNextSignals"
    <2>1. PICK i \in DOMAIN transactions : Announces(transactions[i], n, chain[a])
      BY <1>3, <1>5, <1>6 DEF Covers, Reported, Range
    <2> QED BY <1>6, <2>1 DEF Announces, Signals
  <1>7. CASE fsm = "Updates"
    <2>1. Awaited(n, a)
      BY <1>1, <1>3, <1>5, <1>7 DEF Covers
    <2> QED BY <2>1 DEF Awaited, SafeInv, TypeOK
  <1> QED BY <1>6, <1>7

(* A late signal is a late announcement. *)
LEMMA StoppedOutOfBound ==
    ASSUME SafeInv, AfterTargetTime
    PROVE  ~WithinBound
  <1>1. PICK i \in Signals : AfterTarget(transactions[i].tx.block_time)
    BY DEF AfterTargetTime, StopsAtTime
  <1>2. /\ i \in DOMAIN transactions
        /\ IsSignal(transactions[i].tx) /\ transactions[i].tx.confirmed
    BY DEF AfterTargetTime, Readable, Unreadable, Signals
  <1>3. PICK n \in DOMAIN History, a \in Address :
            Announces(transactions[i], n, chain[a])
    BY <1>2 DEF SafeInv, HonestyInv, Honest, Range
  <1>4. PICK k \in DOMAIN chain[a] :
            /\ chain[a][k].update = n
            /\ chain[a][k].block_time = transactions[i].tx.block_time
    BY <1>3 DEF Announces
  <1>5. <<a, k>> \in MinedAnnouncements
    <2>1. n # Payment
      BY HistoryAssumption DEF Payment
    <2>2. k \in 1..height
      BY <1>4 DEF SafeInv, ReadTypeInv, ReadTypeOK
    <2> QED BY <1>4, <2>1, <2>2 DEF MinedAnnouncements
  <1>6. chain[a][k].block_time \in Int
    <2>1. chain[a][k] \in MinedTransaction
      BY <1>4 DEF SafeInv, ReadTypeInv, ReadTypeOK
    <2> QED BY <2>1 DEF MinedTransaction
  <1>7. target_condition.kind = "Time" /\ target_condition.time \in Int
    BY <1>1, TimeAssumption DEF AfterTarget, SafeInv, TypeOK, TargetConditions
  <1> QED BY <1>1, <1>4, <1>5, <1>6, <1>7 DEF WithinBound, AfterTarget

(* The ways in which a resolution ends *)
LEMMA ResolveEnds ==
    ASSUME Resolve, fsm' = "Resolved"
    PROVE  \/ TargetReached(current_version_id')
           \/ /\ NoSignals \/ AfterTargetTime
              /\ fsm = "FindNextSignals" /\ UNCHANGED current_version_id
           \/ /\ FinishBatch /\ FreshAddresses = {} /\ pending = {}
              /\ fsm = "Updates" /\ UNCHANGED current_version_id
  <1>1. CASE ResolveInit
    BY <1>1 DEF ResolveInit, NextSignalsRequests, Panic, machine
  <1>2. CASE NoSignals \/ AfterTargetTime
    BY <1>2 DEF NoSignals, AfterTargetTime, Readable, Scanning, machine
  <1>3. CASE FinishBatch
    BY <1>3 DEF FinishBatch, NextSignalsRequests, Panic, machine
  <1>4. CASE SignalsPanic \/ SignalRejected \/ CollectUpdates
    BY <1>4 DEF SignalsPanic, SignalRejected, CollectUpdates, Fail, Panic
  <1>5. ASSUME NEW i \in pending, HandleUpdate(i)
        PROVE  TargetReached(current_version_id')
    BY <1>5 DEF HandleUpdate, ConfirmDuplicate, RejectSource, RejectUpdate,
                ReachTargetVersion, ApplyNext, ExtendDocument, Applying, Selected,
                LatePublished, Fail, Panic
  <1> QED BY <1>1, <1>2, <1>3, <1>4, <1>5 DEF Resolve

LEMMA CoverEnds ==
    ASSUME SafeInv, SafeInv', QueryInv, CoverInv, CallResolve,
           fsm' = "Resolved", WithinBound', PagesHold'
    PROVE  VersionSought' <= current_version_id'
  <1>1. /\ Resolve
        /\ UNCHANGED <<target_condition, chain, height>>
        /\ fsm # "Init" => UNCHANGED start_version
    BY ResolveKeepsAnswers DEF CallResolve, network
  <1>2. /\ start_version' \in Nat
        /\ current_version_id' \in Nat
        /\ target_condition.kind = "VersionId" => target_condition.version_id \in Nat
    BY HistoryAssumption
       DEF SafeInv, ReadTypeInv, ReadTypeOK, TypeOK, TargetConditions
  <1>3. WithinBound /\ PagesHold
    BY <1>1 DEF WithinBound, PagesHold, MinedAnnouncements, OnPage
  <1>4. VersionSought' <= start_version'
    BY <1>1, <1>2 DEF VersionSought
  <1>5. CASE TargetReached(current_version_id')
    BY <1>1, <1>2, <1>5 DEF TargetReached, VersionSought
  <1>6. CASE /\ NoSignals \/ AfterTargetTime
             /\ fsm = "FindNextSignals" /\ UNCHANGED current_version_id
    <2>1. NoSignals
      BY <1>3, <1>6, StoppedOutOfBound
    <2>2. Signals = {}
      BY <2>1 DEF NoSignals
    <2>3. start_version <= current_version_id
      BY <1>3, <1>6, <2>2, NextIsFound DEF QueryInv, QueriesCover
    <2>4. VersionSought' \in Nat
      BY <1>1, <1>2 DEF VersionSought
    <2> QED BY <1>1, <1>2, <1>4, <1>6, <2>3, <2>4
  <1>7. CASE /\ FinishBatch /\ FreshAddresses = {} /\ pending = {}
             /\ fsm = "Updates" /\ UNCHANGED current_version_id
    <2>1. BeaconAddresses(contemporary_doc) \subseteq request_cache
      BY <1>7 DEF FreshAddresses
    <2>2. start_version <= current_version_id
      BY <1>3, <1>7, <2>1, NextIsFound
    <2>3. VersionSought' \in Nat
      BY <1>1, <1>2 DEF VersionSought
    <2> QED BY <1>1, <1>2, <1>4, <1>7, <2>2, <2>3
  <1> QED BY <1>1, <1>5, <1>6, <1>7, ResolveEnds

(* From one state to the next while the program looks for updates. *)
LEMMA CoverGoesOn ==
    ASSUME SafeInv, PagesHold, [ReadNext]_readVars, fsm \in Looking, fsm' \in Looking,
           NEW n \in DOMAIN History, NEW a \in Address, Covers(n, a)
    PROVE  Covers(n, a)'
  <1>1. ReadTypeInv /\ TypeOK /\ ChainKept
    BY StepsKeepChain DEF SafeInv, ReadTypeInv
  <1>2. CASE RequestFails \/ NetworkStep \/ UNCHANGED readVars
    <2>1. CASE NetworkStep \/ UNCHANGED readVars
      <3>1. UNCHANGED <<vars, program>>
        BY <2>1 DEF NetworkStep, Announce, Mine, Pay, AddBlock, readVars
      <3> QED BY <1>1, <3>1, CoverWaits
    <2>2. CASE RequestFails
      BY <2>2 DEF RequestFails, vars, machine, traffic, network, Covers, IsMined,
                  Awaited
    <2> QED BY <1>2, <2>1, <2>2
  <1>3. ASSUME NEW b \in Address, Request(b)
        PROVE  Covers(n, a)'
    BY <1>1, <1>3, CoverRequested
  <1>4. CASE Respond
    BY <1>1, <1>4, CoverAnswered
  <1>5. CASE CallResolve
    <2>1. Resolve /\ UNCHANGED <<network, program>>
      BY <1>5 DEF CallResolve
    <2>2. CASE CollectUpdates
      BY <2>1, <2>2, CoverCollected
    <2>3. CASE FinishBatch
      <3>1. fsm' = "WaitingForResponses"
        BY <2>3 DEF FinishBatch, NextSignalsRequests, Panic, Looking
      <3> QED BY <2>1, <2>3, <3>1, CoverNextRound
    <2>4. ASSUME NEW i \in pending, HandleUpdate(i)
          PROVE  Covers(n, a)'
      <3>1. /\ fsm = "Updates" /\ fsm' = "Updates"
            /\ ConfirmDuplicate(i) \/ ApplyNext(i)
        BY <2>4 DEF HandleUpdate, ConfirmDuplicate, RejectSource, RejectUpdate,
                    ReachTargetVersion, ApplyNext, ExtendDocument, Applying,
                    Selected, LatePublished, Fail, Panic, Finish, Looking
      <3> QED BY <2>1, <3>1, CoverHandled
    <2>5. ASSUME \/ ResolveInit \/ SignalsPanic \/ NoSignals \/ AfterTargetTime
                 \/ SignalRejected
          PROVE  FALSE
      BY <2>5 DEF ResolveInit, SignalsPanic, NoSignals, AfterTargetTime,
                  SignalRejected, Fail, Panic, Finish, Looking
    <2> QED BY <2>1, <2>2, <2>3, <2>4, <2>5 DEF Resolve
  <1> QED BY <1>2, <1>3, <1>4, <1>5 DEF ReadNext, ProgramStep

(* Where resolve() does something, and that it leaves Init for good. *)
LEMMA ResolveFrom ==
    ASSUME Resolve
    PROVE  fsm \in {"Init", "FindNextSignals", "Updates"} /\ fsm' # "Init"
  <1>1. CASE ResolveInit \/ FinishBatch
    BY <1>1 DEF ResolveInit, FinishBatch, NextSignalsRequests, Finish, Panic
  <1>2. CASE \/ SignalsPanic \/ NoSignals \/ AfterTargetTime \/ SignalRejected
             \/ CollectUpdates
    BY <1>2 DEF SignalsPanic, NoSignals, AfterTargetTime, SignalRejected,
                CollectUpdates, Collecting, Readable, Scanning, Finish, Fail, Panic
  <1>3. ASSUME NEW i \in pending, HandleUpdate(i)
        PROVE  fsm = "Updates" /\ fsm' # "Init"
    BY <1>3 DEF HandleUpdate, ConfirmDuplicate, RejectSource, RejectUpdate,
                ReachTargetVersion, ApplyNext, ExtendDocument, Applying,
                Selected, LatePublished, Fail, Panic, Finish
  <1> QED BY <1>1, <1>2, <1>3 DEF Resolve

LEMMA CoverStep ==
    ASSUME SafeInv, SafeInv', QueryInv, CoverInv, [ReadNext]_readVars
    PROVE  CoverInv'
  <1>1. /\ ChainKept
        /\ PagesHold' => PagesHold
        /\ UNCHANGED target_condition /\ WithinBound' => WithinBound
    BY StepsKeepChain, PagesStay DEF SafeInv, ReadTypeInv
  <1>2. \/ CallResolve
        \/ Respond
        \/ UNCHANGED <<vars, start_version>>
    BY DEF ReadNext, ProgramStep, NetworkStep, Request, RequestFails, Announce,
           Mine, Pay, AddBlock, readVars
  <1>3. /\ UNCHANGED <<vars, start_version>> =>
               UNCHANGED <<fsm, request_cache, target_condition, start_version,
                           current_version_id>>
        /\ Respond => /\ fsm = "WaitingForResponses" /\ fsm' = "FindNextSignals"
                      /\ UNCHANGED start_version
        /\ CallResolve => /\ fsm \in {"Init", "FindNextSignals", "Updates"}
                          /\ fsm' # "Init"
                          /\ fsm # "Init" => UNCHANGED start_version
    BY ResolveFrom
       DEF vars, machine, options, traffic, Respond, ProcessResponses, CallResolve
  <1>4. fsm' = "Init" => request_cache' = {}
    BY <1>2, <1>3 DEF CoverInv
  <1>5. ASSUME fsm' \in Looking, PagesHold', NEW n \in 1..(start_version' - 1)
        PROVE  \E a \in Address : Covers(n, a)'
    <2>1. CASE fsm = "Init"
      <3>1. CallResolve
        BY <1>2, <1>3, <1>5, <2>1 DEF Looking
      <3> QED BY <1>5, <2>1, <3>1, CoverBegins
    <2>2. CASE fsm # "Init"
      <3>1. fsm \in Looking /\ UNCHANGED start_version
        BY <1>2, <1>3, <1>5, <2>2 DEF Looking
      <3>2. PICK a \in Address : Covers(n, a)
        BY <1>1, <1>5, <3>1 DEF CoverInv
      <3>3. n \in DOMAIN History
        BY <1>5, HistoryAssumption DEF SafeInv, ReadTypeInv, ReadTypeOK
      <3> QED BY <1>1, <1>5, <3>1, <3>2, <3>3, CoverGoesOn
    <2> QED BY <2>1, <2>2
  <1>6. ASSUME fsm' = "Resolved", WithinBound', PagesHold'
        PROVE  VersionSought' <= current_version_id'
    <2>1. CASE CallResolve
      BY <1>6, <2>1, CoverEnds
    <2>2. CASE Respond
      BY <1>3, <1>6, <2>2
    <2>3. CASE UNCHANGED <<vars, start_version>>
      BY <1>1, <1>3, <1>6, <2>3 DEF CoverInv, VersionSought
    <2> QED BY <1>2, <2>1, <2>2, <2>3
  <1> QED BY <1>4, <1>5, <1>6 DEF CoverInv

LEMMA CoverInvariant == ReadSpec => []CoverInv
  <1>1. ReadInit => CoverInv
    BY DEF ReadInit, Init, CoverInv, Looking
  <1>2. ReadSpec => []QueryInv
    BY ReadSpecIsStepSpec, QueryInvariant, PTL
  <1>3. SafeInv /\ SafeInv' /\ QueryInv /\ CoverInv /\ [ReadNext]_readVars => CoverInv'
    BY CoverStep
  <1> QED BY <1>1, <1>2, <1>3, SafeInvariant, PTL DEF ReadSpec

(* The document the program prints is one the controller made, and, if the *)
(* chain has not outrun the bound and no announcement was pushed off its   *)
(* page, the one that was current when the program began or a later one    *)
(* (src/resolver.rs:193, 251 and src/examples/read_did.rs:26).             *)
THEOREM CurrentVersionReturned == ReadSpec => []ReturnsCurrentVersion
  <1>1. SafeInv /\ CoverInv => ReturnsCurrentVersion
    BY DEF SafeInv, CurrentInv, CoverInv, ReturnsCurrentVersion
  <1> QED BY <1>1, SafeInvariant, CoverInvariant, PTL
=============================================================================
