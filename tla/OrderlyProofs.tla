---------------------------- MODULE OrderlyProofs ----------------------------
(***************************************************************************)
(* An orderly history is never refused as late: neither for a gap, since   *)
(* answers hold what comes before, nor for a duplicate, since the hash of  *)
(* the one update that is repeated has not been shifted.                   *)
(***************************************************************************)
EXTENDS ReadDidProofs

-----------------------------------------------------------------------------
(***************************************************************************)
(* No announcement is mined twice at one address.                          *)
(***************************************************************************)
ChainOnce ==
    /\ \A a \in Address : \A j, k \in DOMAIN chain[a] :
           chain[a][j].update = chain[a][k].update /\ chain[a][j].update # Payment
               => j = k
    /\ \A n \in DOMAIN History, a \in Address :
           <<n, a>> \in mempool => ~IsMined(n, a)

(* All transactions of an address move by the same number of positions. *)
ChainShifts ==
    \A a \in Address : \E shift \in {0, 1} :
        /\ Len(chain'[a]) = Len(chain[a]) + shift
        /\ \A k \in DOMAIN chain[a] : chain'[a][k + shift] = chain[a][k]

LEMMA ChainLengths ==
    ASSUME ReadTypeOK, NEW a \in Address
    PROVE  /\ chain[a] \in Seq(MinedTransaction)
           /\ DOMAIN chain[a] = 1..Len(chain[a])
           /\ Len(chain[a]) \in Nat
  BY DEF ReadTypeOK

LEMMA BlockShifts ==
    ASSUME ReadTypeOK, NEW n \in DOMAIN History \cup {Payment},
           NEW a \in Address, AddBlock(n, a)
    PROVE  /\ chain' = [chain EXCEPT ![a] = chain'[a]]
           /\ Len(chain'[a]) = Len(chain[a]) + 1
           /\ DOMAIN chain'[a] = 1..(Len(chain[a]) + 1)
           /\ chain'[a][1].update = n
           /\ \A k \in DOMAIN chain[a] : chain'[a][k + 1] = chain[a][k]
  <1> DEFINE block == [update |-> n, block_time |-> height']
  <1>1. chain[a] \in Seq(MinedTransaction) /\ DOMAIN chain = Address
    BY DEF ReadTypeOK
  <1>2. chain'[a] = <<block>> \o chain[a]
            /\ chain' = [chain EXCEPT ![a] = chain'[a]]
    BY <1>1 DEF AddBlock
  <1>3. <<block>> \o chain[a] \in Seq(MinedTransaction \cup {block})
    BY <1>1
  <1>4. /\ Len(chain'[a]) = Len(chain[a]) + 1
        /\ DOMAIN chain'[a] = 1..(Len(chain[a]) + 1)
        /\ chain'[a][1] = block
        /\ \A k \in DOMAIN chain[a] : chain'[a][k + 1] = chain[a][k]
    BY <1>1, <1>2, <1>3
  <1> QED BY <1>2, <1>4

LEMMA StepsShiftChain ==
    ASSUME ReadTypeOK, [ReadNext]_readVars
    PROVE  ChainShifts
  <1>1. ASSUME UNCHANGED chain
        PROVE  ChainShifts
    <2> SUFFICES ASSUME NEW a \in Address
                 PROVE  /\ Len(chain'[a]) = Len(chain[a]) + 0
                        /\ \A k \in DOMAIN chain[a] : chain'[a][k + 0] = chain[a][k]
      BY DEF ChainShifts
    <2> QED BY <1>1, ChainLengths
  <1>2. ASSUME NEW n \in DOMAIN History \cup {Payment}, NEW b \in Address,
               AddBlock(n, b)
        PROVE  ChainShifts
    <2> SUFFICES ASSUME NEW a \in Address
                 PROVE  \E shift \in {0, 1} :
                            /\ Len(chain'[a]) = Len(chain[a]) + shift
                            /\ \A k \in DOMAIN chain[a] :
                                   chain'[a][k + shift] = chain[a][k]
      BY DEF ChainShifts
    <2>1. CASE a = b
      BY <1>2, <2>1, BlockShifts
    <2>2. CASE a # b
      <3>1. chain'[a] = chain[a]
        BY <1>2, <2>2 DEF AddBlock, ReadTypeOK
      <3>2. /\ Len(chain'[a]) = Len(chain[a]) + 0
            /\ \A k \in DOMAIN chain[a] : chain'[a][k + 0] = chain[a][k]
        BY <3>1, ChainLengths
      <3> QED BY <3>2
    <2> QED BY <2>1, <2>2
  <1>3. \/ UNCHANGED chain
        \/ \E n \in DOMAIN History \cup {Payment}, b \in Address : AddBlock(n, b)
    BY DEF ReadNext, ProgramStep, NetworkStep, CallResolve, Request, RequestFails,
           Respond, Announce, Mine, Pay, readVars, network
  <1> QED BY <1>1, <1>2, <1>3

LEMMA ChainOnceStep ==
    ASSUME ReadTypeOK, ChainOnce, [ReadNext]_readVars
    PROVE  ChainOnce'
  <1>1. ASSUME UNCHANGED chain, mempool' \subseteq mempool
        PROVE  ChainOnce'
    BY <1>1 DEF ChainOnce, IsMined
  <1>2. ASSUME NEW n \in DOMAIN History \cup {Payment}, NEW a \in Address,
               AddBlock(n, a), mempool' \subseteq mempool,
               n # Payment => /\ <<n, a>> \in mempool
                              /\ <<n, a>> \notin mempool'
        PROVE  ChainOnce'
    <2>1. ASSUME NEW b \in Address, NEW j \in DOMAIN chain'[b],
                 NEW k \in DOMAIN chain'[b],
                 chain'[b][j].update = chain'[b][k].update,
                 chain'[b][j].update # Payment
          PROVE  j = k
      <3>1. CASE b # a
        <4>1. chain'[b] = chain[b]
          BY <1>2, <3>1 DEF AddBlock, ReadTypeOK
        <4> QED BY <2>1, <4>1 DEF ChainOnce
      <3>2. CASE b = a
        <4>1. /\ DOMAIN chain'[a] = 1..(Len(chain[a]) + 1)
              /\ DOMAIN chain[a] = 1..Len(chain[a])
              /\ Len(chain[a]) \in Nat
              /\ chain'[a][1].update = n
              /\ \A i \in DOMAIN chain[a] : chain'[a][i + 1] = chain[a][i]
          BY <1>2, BlockShifts, ChainLengths
        <4>2. ASSUME NEW i \in DOMAIN chain'[a], i # 1
              PROVE  i - 1 \in DOMAIN chain[a] /\ chain'[a][i] = chain[a][i - 1]
          <5>1. i - 1 \in DOMAIN chain[a] /\ (i - 1) + 1 = i
            BY <4>1, <4>2
          <5> QED BY <4>1, <5>1
        <4>3. ASSUME NEW i \in DOMAIN chain'[a], i # 1
              PROVE  n = Payment \/ chain'[a][i].update # n
          <5>1. CASE n \in DOMAIN History
            <6>1. ~IsMined(n, a)
              BY <1>2, <5>1, HistoryAssumption DEF ChainOnce, Payment
            <6> QED BY <4>2, <4>3, <6>1 DEF IsMined
          <5> QED BY <5>1
        <4>4. CASE j = 1 \/ k = 1
          BY <2>1, <3>2, <4>1, <4>3, <4>4
        <4>5. CASE j # 1 /\ k # 1
          <5>1. j - 1 = k - 1
            BY <2>1, <3>2, <4>2, <4>5 DEF ChainOnce
          <5> QED BY <2>1, <3>2, <4>1, <5>1
        <4> QED BY <4>4, <4>5
      <3> QED BY <3>1, <3>2
    <2>2. ASSUME NEW i \in DOMAIN History, NEW b \in Address, <<i, b>> \in mempool'
          PROVE  ~IsMined(i, b)'
      <3>1. i # Payment
        BY HistoryAssumption DEF Payment
      <3>2. ~IsMined(i, b)
        BY <1>2, <2>2 DEF ChainOnce
      <3>3. ~(i = n /\ b = a)
        BY <1>2, <2>2, <3>1
      <3> QED BY <1>2, <3>2, <3>3, MinedByBlock
    <2> QED BY <2>1, <2>2 DEF ChainOnce
  <1>3. CASE ProgramStep \/ UNCHANGED readVars
    BY <1>1, <1>3 DEF ProgramStep, CallResolve, Request, RequestFails, Respond,
                      readVars, network
  <1>4. ASSUME NEW n \in DOMAIN History, NEW a \in Address, Announce(n, a)
        PROVE  ChainOnce'
    BY <1>4 DEF Announce, ChainOnce, IsMined
  <1>5. ASSUME NEW n \in DOMAIN History, NEW a \in Address, Mine(n, a)
        PROVE  ChainOnce'
    BY <1>2, <1>5 DEF Mine
  <1>6. ASSUME NEW a \in Address, Pay(a)
        PROVE  ChainOnce'
    BY <1>2, <1>6 DEF Pay
  <1> QED BY <1>3, <1>4, <1>5, <1>6 DEF ReadNext, NetworkStep

(* Order and repetition can only be lost. *)
LEMMA OrderStays ==
    ASSUME ReadTypeOK, ReadTypeOK', ChainShifts, ChainKept
    PROVE  /\ Orderly' => Orderly
           /\ OneRepeated' => OneRepeated
           /\ Repeated \subseteq Repeated'
  <1>1. ASSUME NEW n, NEW a \in Address, IsMined(n, a)
        PROVE  IsMined(n, a)'
    BY <1>1 DEF IsMined, ChainKept
  <1>2. Repeated \subseteq Repeated'
    BY <1>1 DEF Repeated
  <1>3. ASSUME Orderly', NEW a \in Address, NEW i \in 1..height,
               i \in DOMAIN chain[a], chain[a][i].update # Payment,
               NEW earlier \in 1..(chain[a][i].update - 1)
        PROVE  \/ \E k \in DOMAIN chain[a] :
                      k > i /\ chain[a][k].update = earlier
               \/ \A v \in 1..earlier : a \notin BeaconAddresses(Versions[v])
    <2>1. PICK shift \in {0, 1} :
              /\ Len(chain'[a]) = Len(chain[a]) + shift
              /\ \A k \in DOMAIN chain[a] : chain'[a][k + shift] = chain[a][k]
      BY DEF ChainShifts
    <2>2. /\ DOMAIN chain[a] = 1..Len(chain[a]) /\ Len(chain[a]) \in Nat
          /\ DOMAIN chain'[a] = 1..Len(chain'[a]) /\ Len(chain'[a]) \in Nat
          /\ Len(chain'[a]) <= height' /\ height' \in Nat
      BY DEF ReadTypeOK
    <2>3. /\ i + shift \in DOMAIN chain'[a] /\ i + shift \in 1..height'
          /\ chain'[a][i + shift] = chain[a][i]
      BY <1>3, <2>1, <2>2
    <2>4. <<a, i + shift>> \in MinedAnnouncements'
      BY <1>3, <2>3 DEF MinedAnnouncements
    <2>5. \/ \E k \in DOMAIN chain'[a] :
                 k > i + shift /\ chain'[a][k].update = earlier
          \/ \A v \in 1..earlier : a \notin BeaconAddresses(Versions[v])
      BY <1>3, <2>3, <2>4 DEF Orderly
    <2>6. ASSUME NEW k \in DOMAIN chain'[a], k > i + shift,
                 chain'[a][k].update = earlier
          PROVE  \E l \in DOMAIN chain[a] : l > i /\ chain[a][l].update = earlier
      <3>1. k - shift \in DOMAIN chain[a] /\ k - shift > i /\ (k - shift) + shift = k
        BY <2>1, <2>2, <2>6
      <3>2. chain[a][k - shift] = chain'[a][k]
        BY <2>1, <3>1
      <3> QED BY <2>6, <3>1, <3>2
    <2> QED BY <2>5, <2>6
  <1>4. Orderly' => Orderly
    BY <1>3 DEF Orderly, MinedAnnouncements
  <1> QED BY <1>2, <1>4 DEF OneRepeated

-----------------------------------------------------------------------------
(***************************************************************************)
(* The answers of a round tell of each announcement at the addresses asked *)
(* once.                                                                   *)
(***************************************************************************)
Tells(response, n, a) ==
    /\ IsSignal(response.tx)
    /\ response.tx.confirmed
    /\ response.tx.txid = TxidOf[n][a]
    /\ response.tx.signal_bytes = UpdateHash(History[n])

Told(answers, asked) ==
    \A k \in DOMAIN answers :
        IsSignal(answers[k].tx) /\ answers[k].tx.confirmed =>
            \E n \in DOMAIN History, a \in asked :
                Tells(answers[k], n, a) /\ IsMined(n, a)

Once(answers) ==
    \A j, k \in DOMAIN answers, n \in DOMAIN History, a \in Address :
        Tells(answers[j], n, a) /\ Tells(answers[k], n, a) => j = k

AnswersInv ==
    /\ Told(responses, fetched) /\ Once(responses)
    /\ fsm \in {"FindNextSignals", "Updates"} =>
           Told(transactions, requests) /\ Once(transactions)

(* A transaction announces one update at one address. *)
LEMMA TellsOne ==
    ASSUME NEW response, NEW m \in DOMAIN History, NEW n \in DOMAIN History,
           NEW a \in Address, NEW b \in Address,
           Tells(response, m, a), Tells(response, n, b)
    PROVE  m = n /\ a = b
  <1>1. TxidOf[m][a] = TxidOf[n][b]
    BY DEF Tells
  <1> QED BY <1>1, TxidAssumption

LEMMA PageTells ==
    ASSUME ReadTypeOK, NEW b \in Address, NEW p \in OnPage(b),
           NEW n \in DOMAIN History, NEW a \in Address
    PROVE  Tells(MinedResponses(b)[p], n, a) <=> chain[b][p].update = n /\ a = b
  <1> DEFINE m == chain[b][p].update
  <1>1. /\ MinedResponses(b)[p] =
               AsResponse(TransactionFor(m, b, TRUE, chain[b][p].block_time))
        /\ n # Payment
    <2>1. n # Payment
      BY HistoryAssumption DEF Payment
    <2> QED BY <2>1, MinedResponsesType
  <1>2. m \in DOMAIN History \cup {Payment}
    <2>1. chain[b][p] \in MinedTransaction
      BY DEF ReadTypeOK, OnPage
    <2> QED BY <2>1 DEF MinedTransaction
  <1>3. CASE m = Payment
    BY <1>1, <1>3 DEF Tells, AsResponse, TransactionFor, IsSignal
  <1>4. CASE m # Payment
    <2>1. /\ MinedResponses(b)[p].tx.txid = TxidOf[m][b]
          /\ MinedResponses(b)[p].tx.last_output = "signal"
          /\ MinedResponses(b)[p].tx.confirmed
          /\ MinedResponses(b)[p].tx.signal_bytes = UpdateHash(History[m])
      BY <1>1, <1>4 DEF AsResponse, TransactionFor
    <2>2. TxidOf[m][b] = TxidOf[n][a] => m = n /\ a = b
      BY <1>2, <1>4, TxidAssumption
    <2> QED BY <2>1, <2>2 DEF Tells, IsSignal
  <1> QED BY <1>3, <1>4

LEMMA JoinedAt ==
    ASSUME NEW s \in Seq(Response), NEW t \in Seq(Response)
    PROVE  /\ s \o t \in Seq(Response)
           /\ Len(s \o t) = Len(s) + Len(t)
           /\ \A k \in 1..Len(s) : (s \o t)[k] = s[k]
           /\ \A k \in 1..Len(t) : (s \o t)[Len(s) + k] = t[k]
  <1>1. Len(s) \in Nat /\ Len(t) \in Nat
    OBVIOUS
  <1>2. ASSUME NEW k \in 1..Len(t)
        PROVE  (s \o t)[Len(s) + k] = t[k]
    <2>1. /\ Len(s) + k \in 1..(Len(s) + Len(t))
          /\ ~(Len(s) + k <= Len(s))
          /\ (Len(s) + k) - Len(s) = k
      BY <1>1
    <2> QED BY <2>1, ConcatProperties
  <1>3. ASSUME NEW k \in 1..Len(s)
        PROVE  (s \o t)[k] = s[k]
    <2>1. k \in 1..(Len(s) + Len(t)) /\ k <= Len(s)
      BY <1>1
    <2> QED BY <2>1, ConcatProperties
  <1> QED BY <1>2, <1>3, ConcatProperties

(* Where the answers of a request stand. *)
LEMMA RequestAnswers ==
    ASSUME ReadTypeOK, NEW b \in Address, Request(b)
    PROVE  \E offset \in Nat :
               /\ \A k \in DOMAIN responses :
                      /\ k \in DOMAIN responses' /\ k <= offset
                      /\ responses'[k] = responses[k]
               /\ \A p \in OnPage(b) :
                      /\ offset + p \in DOMAIN responses'
                      /\ responses'[offset + p] = MinedResponses(b)[p]
               /\ \A k \in DOMAIN responses' :
                      \/ k \in DOMAIN responses
                      \/ ~responses'[k].tx.confirmed
                      \/ \E p \in OnPage(b) : k = offset + p
  <1>1. PICK unmined \in MempoolResponses(b) :
            responses' = responses \o unmined \o MinedResponses(b)
    BY DEF Request
  <1>2. /\ responses \in Seq(Response)
        /\ unmined \in Seq(Response)
        /\ \A k \in DOMAIN unmined : ~unmined[k].tx.confirmed
        /\ MinedResponses(b) \in Seq(Response)
        /\ DOMAIN MinedResponses(b) = OnPage(b)
    BY MempoolResponsesType, MinedResponsesType DEF ReadTypeOK
  <1> DEFINE r == Len(responses)
             u == Len(unmined)
             p == Len(MinedResponses(b))
             first == responses \o unmined
  <1>3. /\ r \in Nat /\ DOMAIN responses = 1..r
        /\ u \in Nat /\ DOMAIN unmined = 1..u
        /\ p \in Nat /\ OnPage(b) = 1..p
    BY <1>2
  <1>4. /\ first \in Seq(Response)
        /\ Len(first) = r + u
        /\ \A k \in 1..r : first[k] = responses[k]
        /\ \A k \in 1..u : first[r + k] = unmined[k]
    BY <1>2, JoinedAt
  <1>5. /\ responses' \in Seq(Response)
        /\ Len(responses') = r + u + p
        /\ \A k \in 1..(r + u) : responses'[k] = first[k]
        /\ \A k \in 1..p : responses'[r + u + k] = MinedResponses(b)[k]
    <2>1. responses' = first \o MinedResponses(b)
      BY <1>1
    <2> HIDE DEF first, r, u
    <2>2. /\ responses' \in Seq(Response)
          /\ Len(responses') = Len(first) + p
          /\ \A k \in 1..Len(first) : responses'[k] = first[k]
          /\ \A k \in 1..p : responses'[Len(first) + k] = MinedResponses(b)[k]
      BY <1>2, <1>4, <2>1, JoinedAt
    <2> HIDE DEF p
    <2> QED BY <1>4, <2>2
  <1> HIDE DEF r, u, p, first
  <1>6. DOMAIN responses' = 1..(r + u + p)
    BY <1>3, <1>5
  <1>7. \A k \in DOMAIN responses :
            k \in DOMAIN responses' /\ k <= r + u /\ responses'[k] = responses[k]
    BY <1>3, <1>4, <1>5, <1>6
  <1>8. \A k \in OnPage(b) : /\ (r + u) + k \in DOMAIN responses'
                            /\ responses'[(r + u) + k] = MinedResponses(b)[k]
    BY <1>3, <1>5, <1>6
  <1>9. ASSUME NEW k \in DOMAIN responses'
        PROVE  \/ k \in DOMAIN responses
               \/ ~responses'[k].tx.confirmed
               \/ \E q \in OnPage(b) : k = (r + u) + q
    <2>1. CASE k <= r
      BY <1>3, <1>6, <2>1
    <2>2. CASE r < k /\ k <= r + u
      <3>1. k - r \in 1..u /\ r + (k - r) = k /\ k \in 1..(r + u)
        BY <1>3, <1>6, <2>2
      <3>2. responses'[k] = unmined[k - r]
        BY <1>4, <1>5, <3>1
      <3> QED BY <1>2, <1>3, <3>1, <3>2
    <2>3. CASE r + u < k
      <3>1. k - (r + u) \in 1..p /\ k = (r + u) + (k - (r + u))
        BY <1>3, <1>6, <2>3
      <3> QED BY <1>3, <3>1
    <2> QED BY <1>3, <1>6, <2>1, <2>2, <2>3
  <1>10. r + u \in Nat
    BY <1>3
  <1> QED BY <1>7, <1>8, <1>9, <1>10

-----------------------------------------------------------------------------
(***************************************************************************)
(* The steps of the program, as far as it goes on looking for updates.     *)
(***************************************************************************)
Idle == UNCHANGED <<vars, fetched, responses>>

LEMMA ReadSteps ==
    ASSUME [ReadNext]_readVars
    PROVE  \/ Idle
           \/ UNCHANGED network /\ \E b \in Address : Request(b)
           \/ UNCHANGED network /\ Respond
           \/ UNCHANGED <<network, program>> /\ Resolve
  BY DEF ReadNext, ProgramStep, NetworkStep, CallResolve, Request, RequestFails,
         Respond, Announce, Mine, Pay, AddBlock, readVars, program, Idle

LEMMA LookingResolve ==
    ASSUME Resolve, fsm' \in Looking
    PROVE  \/ /\ ResolveInit
              /\ fsm = "Init" /\ fsm' = "WaitingForResponses"
           \/ /\ CollectUpdates
              /\ fsm = "FindNextSignals" /\ fsm' = "Updates"
           \/ /\ FinishBatch
              /\ fsm = "Updates" /\ fsm' = "WaitingForResponses"
           \/ /\ \E i \in pending : ConfirmDuplicate(i) \/ ApplyNext(i)
              /\ fsm = "Updates" /\ fsm' = "Updates"
  <1>1. ASSUME NEW i \in pending, HandleUpdate(i)
        PROVE  /\ ConfirmDuplicate(i) \/ ApplyNext(i)
               /\ fsm = "Updates" /\ fsm' = "Updates"
    BY <1>1 DEF HandleUpdate, ConfirmDuplicate, RejectSource, RejectUpdate,
                ReachTargetVersion, ApplyNext, ExtendDocument, Applying, Selected,
                LatePublished, Fail, Panic, Finish, Looking
  <1>2. CASE \/ SignalsPanic \/ NoSignals \/ AfterTargetTime \/ SignalRejected
    BY <1>2 DEF SignalsPanic, NoSignals, AfterTargetTime, SignalRejected, Fail,
                Panic, Finish, Looking
  <1>3. CASE ResolveInit \/ FinishBatch \/ CollectUpdates
    BY <1>3 DEF ResolveInit, FinishBatch, CollectUpdates, Collecting, Readable,
                Scanning, NextSignalsRequests, Panic, Finish, Looking
  <1> QED BY <1>1, <1>2, <1>3 DEF Resolve

(* Only a new round changes what is asked for. *)
LEMMA RequestsKept ==
    ASSUME CollectUpdates \/ \E i \in pending : ConfirmDuplicate(i) \/ ApplyNext(i)
    PROVE  UNCHANGED <<request_cache, requests, transactions>>
  BY DEF CollectUpdates, ConfirmDuplicate, ApplyNext, traffic

LEMMA MinedStays ==
    ASSUME ChainKept, NEW n, NEW a \in Address, IsMined(n, a)
    PROVE  IsMined(n, a)'
  BY DEF IsMined, ChainKept

LEMMA ToldStays ==
    ASSUME ChainKept, NEW answers, NEW asked \in SUBSET Address,
           Told(answers, asked)
    PROVE  \A k \in DOMAIN answers :
               IsSignal(answers[k].tx) /\ answers[k].tx.confirmed =>
                   \E n \in DOMAIN History, a \in asked :
                       Tells(answers[k], n, a) /\ IsMined(n, a)'
  BY MinedStays DEF Told

LEMMA AnswersRequested ==
    ASSUME ReadTypeOK, ChainOnce, AnswersInv, requests \subseteq Address,
           NEW b \in Address, Request(b)
    PROVE  Told(responses, fetched)' /\ Once(responses)'
  <1>1. /\ UNCHANGED chain /\ fetched' = fetched \cup {b}
        /\ b \notin fetched /\ fetched \subseteq Address
    BY DEF Request, network, ReadTypeOK
  <1>2. PICK offset \in Nat :
            /\ \A k \in DOMAIN responses :
                   /\ k \in DOMAIN responses' /\ k <= offset
                   /\ responses'[k] = responses[k]
            /\ \A p \in OnPage(b) :
                   /\ offset + p \in DOMAIN responses'
                   /\ responses'[offset + p] = MinedResponses(b)[p]
            /\ \A k \in DOMAIN responses' :
                   \/ k \in DOMAIN responses
                   \/ ~responses'[k].tx.confirmed
                   \/ \E p \in OnPage(b) : k = offset + p
    BY RequestAnswers
  <1>3. ASSUME NEW k \in DOMAIN responses', NEW n \in DOMAIN History,
               NEW a \in Address, Tells(responses'[k], n, a)
        PROVE  \/ k \in DOMAIN responses /\ a \in fetched
               \/ \E p \in OnPage(b) :
                      k = offset + p /\ a = b /\ chain[b][p].update = n
    <2>1. CASE k \in DOMAIN responses
      <3>1. /\ responses'[k] = responses[k]
            /\ IsSignal(responses[k].tx) /\ responses[k].tx.confirmed
        BY <1>2, <1>3, <2>1 DEF Tells
      <3>2. PICK m \in DOMAIN History, c \in fetched : Tells(responses[k], m, c)
        BY <2>1, <3>1 DEF AnswersInv, Told
      <3>3. a = c
        BY <1>1, <1>3, <3>1, <3>2, TellsOne
      <3> QED BY <2>1, <3>2, <3>3
    <2>2. ASSUME NEW p \in OnPage(b), k = offset + p
          PROVE  a = b /\ chain[b][p].update = n
      <3>1. Tells(MinedResponses(b)[p], n, a)
        BY <1>2, <1>3, <2>2
      <3> QED BY <3>1, PageTells
    <2> QED BY <1>2, <1>3, <2>1, <2>2 DEF Tells
  <1>4. Told(responses, fetched)'
    <2> SUFFICES ASSUME NEW k \in DOMAIN responses',
                        IsSignal(responses'[k].tx), responses'[k].tx.confirmed
                 PROVE  \E n \in DOMAIN History, a \in fetched' :
                            Tells(responses'[k], n, a) /\ IsMined(n, a)'
      BY DEF Told, Tells, IsSignal
    <2>1. CASE k \in DOMAIN responses
      <3>1. responses'[k] = responses[k]
        BY <1>2, <2>1
      <3>2. PICK n \in DOMAIN History, a \in fetched :
                Tells(responses[k], n, a) /\ IsMined(n, a)
        BY <2>1, <3>1 DEF AnswersInv, Told
      <3>3. IsMined(n, a)'
        BY <1>1, <3>2 DEF IsMined
      <3> QED BY <1>1, <3>1, <3>2, <3>3
    <2>2. ASSUME NEW p \in OnPage(b), k = offset + p
          PROVE  \E n \in DOMAIN History :
                     Tells(responses'[k], n, b) /\ IsMined(n, b)'
      <3>1. p \in DOMAIN chain[b] /\ chain[b][p] \in MinedTransaction
        BY DEF ReadTypeOK, OnPage
      <3>2. PICK n \in DOMAIN History \cup {Payment} : chain[b][p].update = n
        BY <3>1 DEF MinedTransaction
      <3>3. /\ responses'[k] = MinedResponses(b)[p]
            /\ MinedResponses(b)[p] =
                   AsResponse(TransactionFor(n, b, TRUE, chain[b][p].block_time))
        BY <1>2, <2>2, <3>2, MinedResponsesType
      <3>4. n \in DOMAIN History
        BY <3>2, <3>3 DEF AsResponse, TransactionFor, IsSignal
      <3>5. Tells(responses'[k], n, b)
        <4>1. Tells(MinedResponses(b)[p], n, b)
          BY <3>2, <3>4, PageTells
        <4>2. responses'[k] = MinedResponses(b)[p]
          BY <3>3
        <4> QED BY <4>1, <4>2
      <3>6. IsMined(n, b)'
        BY <1>1, <3>1, <3>2 DEF IsMined
      <3> QED BY <3>4, <3>5, <3>6
    <2> QED BY <1>1, <1>2, <2>1, <2>2
  <1>5. Once(responses)'
    <2> SUFFICES ASSUME NEW j \in DOMAIN responses', NEW k \in DOMAIN responses',
                        NEW n \in DOMAIN History, NEW a \in Address,
                        Tells(responses'[j], n, a), Tells(responses'[k], n, a)
                 PROVE  j = k
      BY DEF Once, Tells, IsSignal
    <2>1. CASE a = b
      <3>1. PICK p \in OnPage(b) : j = offset + p /\ chain[b][p].update = n
        BY <1>1, <1>3, <2>1
      <3>2. PICK q \in OnPage(b) : k = offset + q /\ chain[b][q].update = n
        BY <1>1, <1>3, <2>1
      <3>3. n # Payment
        BY HistoryAssumption DEF Payment
      <3>4. p = q
        BY <3>1, <3>2, <3>3 DEF ChainOnce, OnPage
      <3> QED BY <3>1, <3>2, <3>4
    <2>2. CASE a # b
      <3>1. j \in DOMAIN responses /\ k \in DOMAIN responses
        BY <1>3, <2>2
      <3>2. Tells(responses[j], n, a) /\ Tells(responses[k], n, a)
        BY <1>2, <3>1
      <3> QED BY <3>1, <3>2 DEF AnswersInv, Once
    <2> QED BY <2>1, <2>2
  <1> QED BY <1>4, <1>5

LEMMA AnswersStep ==
    ASSUME SafeInv, ChainOnce, AnswersInv, [ReadNext]_readVars
    PROVE  AnswersInv'
  <1>1. /\ ReadTypeOK /\ ChainKept
        /\ requests \subseteq Address /\ fetched \subseteq Address
    BY StepsKeepChain DEF SafeInv, ReadTypeInv, ReadTypeOK, TypeOK
  <1>2. CASE Idle
    <2>1. UNCHANGED <<responses, transactions, fetched, requests, fsm>>
      BY <1>2 DEF Idle, vars, traffic
    <2>2. Told(responses, fetched)'
      BY <1>1, <2>1, ToldStays DEF AnswersInv, Told, Tells, IsSignal
    <2>3. ASSUME fsm \in {"FindNextSignals", "Updates"}
          PROVE  Told(transactions, requests)'
      BY <1>1, <2>1, <2>3, ToldStays DEF AnswersInv, Told, Tells, IsSignal
    <2> QED BY <2>1, <2>2, <2>3 DEF AnswersInv, Once, Tells, IsSignal
  <1>3. ASSUME NEW b \in Address, Request(b)
        PROVE  AnswersInv'
    <2>1. fsm' = "WaitingForResponses"
      BY <1>3 DEF Request, vars
    <2> QED BY <1>1, <1>3, <2>1, AnswersRequested DEF AnswersInv
  <1>4. CASE UNCHANGED network /\ Respond
    <2>1. /\ transactions' = responses /\ requests' = fetched
          /\ responses' = <<>> /\ UNCHANGED chain
      BY <1>4 DEF Respond, ProcessResponses, network
    <2> QED BY <2>1 DEF AnswersInv, Told, Once, Tells, IsSignal, IsMined
  <1>5. CASE UNCHANGED <<network, program>> /\ Resolve
    <2>1. UNCHANGED <<chain, fetched, responses, transactions>>
      BY <1>5, ResolveKeepsAnswers DEF network, program
    <2>2. ASSUME fsm' \in {"FindNextSignals", "Updates"}
          PROVE  fsm \in {"FindNextSignals", "Updates"} /\ UNCHANGED requests
      BY <1>5, <2>2, LookingResolve, RequestsKept DEF Looking
    <2>3. Told(responses, fetched)' /\ Once(responses)'
      BY <2>1 DEF AnswersInv, Told, Once, Tells, IsSignal, IsMined
    <2>4. ASSUME fsm' \in {"FindNextSignals", "Updates"}
          PROVE  Told(transactions, requests)' /\ Once(transactions)'
      BY <2>1, <2>2, <2>4 DEF AnswersInv, Told, Once, Tells, IsSignal, IsMined
    <2> QED BY <2>3, <2>4 DEF AnswersInv
  <1> QED BY <1>2, <1>3, <1>4, <1>5, ReadSteps

-----------------------------------------------------------------------------
(***************************************************************************)
(* The addresses that were asked are beacons of documents held so far.     *)
(***************************************************************************)
CacheInv ==
    \A a \in request_cache : \E v \in 1..current_version_id :
        a \in BeaconAddresses(Versions[v])

LEMMA CacheSteps ==
    ASSUME TypeOK, Resolve
    PROVE  \/ /\ UNCHANGED request_cache
              /\ current_version_id' \in {current_version_id, current_version_id + 1}
           \/ /\ UNCHANGED current_version_id
              /\ request_cache' = request_cache \cup FreshAddresses
              /\ fsm \in {"Init", "Updates"}
  <1>1. CASE ResolveInit \/ FinishBatch
    BY <1>1 DEF ResolveInit, FinishBatch, NextSignalsRequests, machine
  <1>2. CASE \/ SignalsPanic \/ NoSignals \/ AfterTargetTime \/ SignalRejected
             \/ CollectUpdates
    BY <1>2 DEF SignalsPanic, NoSignals, AfterTargetTime, SignalRejected,
                CollectUpdates, machine, traffic
  <1>3. ASSUME NEW i \in pending, HandleUpdate(i)
        PROVE  /\ UNCHANGED request_cache
               /\ current_version_id' \in {current_version_id, current_version_id + 1}
    BY <1>3 DEF HandleUpdate, ConfirmDuplicate, RejectSource, RejectUpdate,
                ReachTargetVersion, ApplyNext, ExtendDocument, LatePublished,
                machine, traffic
  <1> QED BY <1>1, <1>2, <1>3 DEF Resolve

LEMMA CacheStep ==
    ASSUME SafeInv, CacheInv, [ReadNext]_readVars
    PROVE  CacheInv'
  <1>1. current_version_id \in Nat /\ current_version_id >= 1 /\ TypeOK
    BY DEF SafeInv, TypeOK
  <1>2. CASE UNCHANGED <<request_cache, current_version_id>>
    BY <1>2 DEF CacheInv
  <1>3. CASE UNCHANGED <<network, program>> /\ Resolve
    <2>1. CASE /\ UNCHANGED request_cache
               /\ current_version_id' \in {current_version_id, current_version_id + 1}
      <3>1. \A v \in 1..current_version_id : v \in 1..current_version_id'
        BY <1>1, <2>1
      <3> QED BY <2>1, <3>1 DEF CacheInv
    <2>2. CASE /\ UNCHANGED current_version_id
               /\ request_cache' = request_cache \cup FreshAddresses
               /\ fsm \in {"Init", "Updates"}
      <3>1. contemporary_doc = Versions[current_version_id]
        BY <2>2 DEF SafeInv, CurrentInv
      <3>2. current_version_id \in 1..current_version_id
        BY <1>1
      <3>3. \A a \in FreshAddresses :
                a \in BeaconAddresses(Versions[current_version_id])
        BY <3>1 DEF FreshAddresses
      <3> QED BY <2>2, <3>2, <3>3 DEF CacheInv
    <2> QED BY <1>1, <1>3, <2>1, <2>2, CacheSteps
  <1>4. CASE Idle \/ (UNCHANGED network /\ Respond)
    BY <1>2, <1>4 DEF Idle, vars, traffic, machine, Respond, ProcessResponses
  <1>5. ASSUME NEW b \in Address, Request(b)
        PROVE  CacheInv'
    BY <1>2, <1>5 DEF Request, vars, traffic, machine
  <1> QED BY <1>3, <1>4, <1>5, ReadSteps

-----------------------------------------------------------------------------
(***************************************************************************)
(* Each applied update was seen at an address that will not show it again, *)
(* so that a duplicate comes from another one.                             *)
(***************************************************************************)
Spent(n, a) ==
    /\ IsMined(n, a)
    /\ fsm # "Updates" => a \notin requests
    /\ fsm = "Updates" => \A j \in pending : ~Tells(transactions[j], n, a)

SpentInv ==
    /\ fsm = "Init" => current_version_id = 1
    /\ fsm \in Looking =>
           \A n \in 1..(current_version_id - 1) :
               \E a \in request_cache : Spent(n, a)

LEMMA LookingIsSafe == fsm \in Looking => fsm # "Err"
  BY DEF Looking

(* The version in hand is one of the history. *)
LEMMA SafeVersion ==
    ASSUME SafeInv, fsm # "Err"
    PROVE  current_version_id \in DOMAIN Versions
  <1>1. current_version_id \in Nat /\ current_version_id >= 1
    BY DEF SafeInv, TypeOK
  <1>2. current_version_id <= ChainVersion
    BY DEF SafeInv, CurrentInv
  <1> QED BY <1>1, <1>2, ChainVersionType, HistoryAssumption

LEMMA MatchedTold ==
    ASSUME TypeOK, fsm = "Updates", NEW i \in Signals,
           NEW n \in DOMAIN History, NEW a \in Address,
           Tells(transactions[i], n, a)
    PROVE  UpdateAt(i) = History[n] /\ VersionAt(i) = n + 1
  <1>1. UpdateHash(UpdateAt(i)) = UpdateHash(History[n])
    BY DEF TypeOK, SignalError, Announced, Tells
  <1>2. UpdateAt(i) = History[n]
    BY <1>1, CollectedUpdate, HistoryAssumption, HashesInjective
  <1> QED BY <1>2, HistoryAssumption DEF VersionAt

LEMMA PendingTold ==
    ASSUME SafeInv, AnswersInv, fsm = "Updates", NEW i \in pending
    PROVE  /\ i \in Signals /\ i \in DOMAIN transactions
           /\ \E n \in DOMAIN History, a \in requests :
                  /\ Tells(transactions[i], n, a) /\ IsMined(n, a)
                  /\ UpdateAt(i) = History[n] /\ VersionAt(i) = n + 1
  <1>1. /\ i \in Signals /\ i \in DOMAIN transactions
        /\ IsSignal(transactions[i].tx) /\ transactions[i].tx.confirmed
        /\ requests \subseteq Address
    BY DEF SafeInv, HonestyInv, TypeOK, Signals
  <1>2. PICK n \in DOMAIN History, a \in requests :
            Tells(transactions[i], n, a) /\ IsMined(n, a)
    BY <1>1 DEF AnswersInv, Told
  <1>3. UpdateAt(i) = History[n] /\ VersionAt(i) = n + 1
    BY <1>1, <1>2, MatchedTold DEF SafeInv
  <1> QED BY <1>1, <1>2, <1>3

LEMMA SpentGoesOn ==
    ASSUME SafeInv, AnswersInv, [ReadNext]_readVars, fsm \in Looking, fsm' \in Looking,
           NEW n \in DOMAIN History, NEW a \in request_cache, Spent(n, a)
    PROVE  a \in request_cache' /\ Spent(n, a)'
  <1>1. ChainKept /\ request_cache \subseteq Address /\ requests \subseteq Address
    BY StepsKeepChain DEF SafeInv, ReadTypeInv, TypeOK
  <1>2. IsMined(n, a)'
    BY <1>1, MinedStays DEF Spent
  <1>3. CASE Idle
    <2>1. UNCHANGED <<fsm, request_cache, requests, pending, transactions>>
      BY <1>3 DEF Idle, vars, traffic
    <2> QED BY <1>2, <2>1 DEF Spent, Tells, IsSignal
  <1>4. ASSUME NEW b \in Address, Request(b)
        PROVE  a \in request_cache' /\ Spent(n, a)'
    <2>1. UNCHANGED <<fsm, request_cache, requests, pending, transactions>>
      BY <1>4 DEF Request, vars, traffic
    <2> QED BY <1>2, <2>1 DEF Spent, Tells, IsSignal
  <1>5. CASE UNCHANGED network /\ Respond
    <2>1. /\ fsm = "WaitingForResponses" /\ fsm' = "FindNextSignals"
          /\ UNCHANGED <<request_cache, requests>>
      BY <1>5 DEF Respond, ProcessResponses
    <2> QED BY <1>2, <2>1 DEF Spent
  <1>6. CASE CollectUpdates /\ fsm = "FindNextSignals" /\ fsm' = "Updates"
    <2>1. pending' = Signals /\ UNCHANGED <<request_cache, requests, transactions>>
      BY <1>6, RequestsKept DEF CollectUpdates
    <2>2. ASSUME NEW j \in Signals, Tells(transactions[j], n, a)
          PROVE  FALSE
      <3>1. PICK m \in DOMAIN History, c \in requests : Tells(transactions[j], m, c)
        BY <1>6, <2>2 DEF AnswersInv, Told, Tells, Signals
      <3>2. a = c
        BY <1>1, <2>2, <3>1, TellsOne
      <3> QED BY <1>6, <3>1, <3>2 DEF Spent
    <2> QED BY <1>2, <1>6, <2>1, <2>2 DEF Spent, Tells, IsSignal
  <1>7. CASE FinishBatch /\ fsm = "Updates" /\ fsm' = "WaitingForResponses"
    <2>1. /\ requests' = FreshAddresses
          /\ request_cache' = request_cache \cup FreshAddresses
      BY <1>7 DEF FinishBatch, NextSignalsRequests, Panic
    <2> QED BY <1>2, <1>7, <2>1 DEF Spent, FreshAddresses
  <1>8. CASE /\ \E i \in pending : ConfirmDuplicate(i) \/ ApplyNext(i)
             /\ fsm = "Updates" /\ fsm' = "Updates"
    <2>1. /\ UNCHANGED <<request_cache, requests, transactions>>
          /\ pending' \subseteq pending
      BY <1>8, RequestsKept DEF ConfirmDuplicate, ApplyNext, ExtendDocument
    <2> QED BY <1>2, <1>8, <2>1 DEF Spent, Tells, IsSignal
  <1>9. CASE Resolve
    BY <1>6, <1>7, <1>8, <1>9, LookingResolve DEF Looking
  <1> QED BY <1>3, <1>4, <1>5, <1>9, ReadSteps

LEMMA SpentNew ==
    ASSUME SafeInv, AnswersInv, UNCHANGED network, fsm = "Updates", fsm' = "Updates",
           NEW i \in pending, ApplyNext(i), NEW n \in Nat, n = current_version_id
    PROVE  \E a \in request_cache' : Spent(n, a)'
  <1>1. PICK m \in DOMAIN History, a \in requests :
            /\ Tells(transactions[i], m, a) /\ IsMined(m, a)
            /\ UpdateAt(i) = History[m] /\ VersionAt(i) = m + 1
    BY PendingTold
  <1>2. /\ UNCHANGED <<request_cache, requests, transactions, chain>>
        /\ pending' = pending \ {i}
        /\ requests \subseteq request_cache /\ request_cache \subseteq Address
        /\ pending \subseteq DOMAIN transactions
    BY RequestsKept DEF ApplyNext, ExtendDocument, network, SafeInv, TypeOK, Signals
  <1>3. n = m
    BY <1>1, HistoryAssumption DEF ApplyNext, ExtendDocument, Applying, IsNext
  <1>4. ASSUME NEW j \in pending', Tells(transactions[j], n, a)
        PROVE  FALSE
    BY <1>1, <1>2, <1>3, <1>4 DEF AnswersInv, Once
  <1> QED BY <1>1, <1>2, <1>3, <1>4 DEF Spent, IsMined, Tells, IsSignal

LEMMA SpentStep ==
    ASSUME SafeInv, AnswersInv, SpentInv, [ReadNext]_readVars
    PROVE  SpentInv'
  <1>1. current_version_id \in Nat /\ TypeOK
    BY DEF SafeInv, TypeOK
  <1>2. CASE UNCHANGED <<network, program>> /\ Resolve
    <2>1. fsm' # "Init"
      BY <1>2, ResolveFrom
    <2> SUFFICES ASSUME fsm' \in Looking, NEW n \in 1..(current_version_id' - 1)
                 PROVE  \E a \in request_cache' : Spent(n, a)'
      BY <2>1 DEF SpentInv
    <2>2. CASE ResolveInit /\ fsm = "Init"
      BY <2>2 DEF ResolveInit, machine, SpentInv
    <2>3. ASSUME fsm \in Looking, n \in 1..(current_version_id - 1)
          PROVE  \E a \in request_cache' : Spent(n, a)'
      <3>1. PICK a \in request_cache : Spent(n, a)
        BY <2>3 DEF SpentInv
      <3>2. n \in DOMAIN History
        <4>1. current_version_id \in DOMAIN Versions
          BY SafeVersion, <2>3, LookingIsSafe
        <4> QED BY <2>3, <4>1, HistoryAssumption
      <3> QED BY <2>3, <3>1, <3>2, SpentGoesOn
    <2>4. CASE CollectUpdates \/ FinishBatch
      BY <1>2, <2>3, <2>4, LookingResolve
         DEF CollectUpdates, FinishBatch, machine, Looking
    <2>5. ASSUME NEW i \in pending, ConfirmDuplicate(i) \/ ApplyNext(i),
                 fsm = "Updates", fsm' = "Updates"
          PROVE  \E a \in request_cache' : Spent(n, a)'
      <3>1. CASE n < current_version_id
        BY <1>1, <2>3, <2>5, <3>1 DEF Looking
      <3>2. CASE ~(n < current_version_id)
        <4>1. ApplyNext(i) /\ n = current_version_id
          BY <1>1, <2>5, <3>2 DEF ConfirmDuplicate, ApplyNext, ExtendDocument
        <4> QED BY <1>1, <1>2, <2>5, <4>1, SpentNew
      <3> QED BY <3>1, <3>2
    <2> QED BY <1>2, <2>2, <2>4, <2>5, LookingResolve
  <1>3. CASE Idle \/ (UNCHANGED network /\ Respond) \/ \E b \in Address : Request(b)
    <2>1. /\ UNCHANGED current_version_id
          /\ fsm' = "Init" => fsm = "Init"
          /\ fsm' \in Looking => fsm \in Looking
      BY <1>3 DEF Idle, Respond, ProcessResponses, Request, vars, machine, Looking
    <2>2. ASSUME fsm' \in Looking, NEW n \in 1..(current_version_id - 1)
          PROVE  \E a \in request_cache' : Spent(n, a)'
      <3>1. PICK a \in request_cache : Spent(n, a)
        BY <2>1, <2>2 DEF SpentInv
      <3>2. n \in DOMAIN History
        <4>1. current_version_id \in DOMAIN Versions
          BY <2>1, <2>2, SafeVersion, LookingIsSafe
        <4> QED BY <2>2, <4>1, HistoryAssumption
      <3> QED BY <2>1, <2>2, <3>1, <3>2, SpentGoesOn
    <2> QED BY <2>1, <2>2 DEF SpentInv
  <1> QED BY <1>2, <1>3, ReadSteps

-----------------------------------------------------------------------------
(***************************************************************************)
(* The hash history is shifted by duplicates only, and the first of them   *)
(* is an update whose hash stands below the shift.                         *)
(***************************************************************************)
Straight ==
    /\ Len(update_hash_history) = current_version_id - 1
    /\ \A n \in DOMAIN update_hash_history :
           update_hash_history[n] = UnsecuredHash(History[n])

Shifted(n) ==
    /\ n < current_version_id
    /\ n \in DOMAIN update_hash_history
    /\ update_hash_history[n] = UnsecuredHash(History[n])

HistoryShape ==
    fsm \in Looking \cup {"Init"} =>
        Straight \/ \E n \in Repeated : Shifted(n)

LEMMA DuplicateIsRepeated ==
    ASSUME SafeInv, AnswersInv, SpentInv, NEW i \in pending, ConfirmDuplicate(i)
    PROVE  \E n \in Repeated :
               /\ n < current_version_id
               /\ UpdateAt(i) = History[n] /\ VersionAt(i) = n + 1
  <1>1. /\ fsm = "Updates" /\ VersionAt(i) <= current_version_id
        /\ current_version_id \in Nat
        /\ requests \subseteq Address /\ request_cache \subseteq Address
    BY DEF ConfirmDuplicate, Selected, IsDuplicate, SafeInv, TypeOK
  <1>2. PICK n \in DOMAIN History, b \in requests :
            /\ Tells(transactions[i], n, b) /\ IsMined(n, b)
            /\ UpdateAt(i) = History[n] /\ VersionAt(i) = n + 1
    BY <1>1, PendingTold
  <1>3. n \in 1..(current_version_id - 1)
    BY <1>1, <1>2, HistoryAssumption
  <1>4. PICK a \in request_cache : Spent(n, a)
    BY <1>1, <1>3 DEF SpentInv, Looking
  <1>5. IsMined(n, a) /\ a # b
    BY <1>1, <1>2, <1>4 DEF Spent
  <1>6. n \in Repeated
    BY <1>1, <1>2, <1>5 DEF Repeated
  <1> QED BY <1>1, <1>2, <1>3, <1>6

LEMMA ShapePushed ==
    ASSUME SafeInv, NEW hash
    PROVE  LET pushed == Append(update_hash_history, hash)
               next   == Len(update_hash_history) + 1
           IN  /\ DOMAIN update_hash_history = 1..Len(update_hash_history)
               /\ Len(update_hash_history) \in Nat
               /\ Len(pushed) = next
               /\ DOMAIN pushed = 1..next
               /\ pushed[next] = hash
               /\ \A n \in DOMAIN update_hash_history :
                      n \in DOMAIN pushed /\ pushed[n] = update_hash_history[n]
  <1>1. update_hash_history \in Seq(Sha256Hash)
    BY DEF SafeInv, TypeOK
  <1>2. update_hash_history \in Seq(Sha256Hash \cup {hash})
    BY <1>1
  <1> QED BY <1>1, <1>2

(* A duplicate is found where it is looked for. *)
LEMMA DuplicateMatches ==
    ASSUME SafeInv, AnswersInv, SpentInv, HistoryShape, OneRepeated,
           NEW i \in pending, ConfirmDuplicate(i)
    PROVE  /\ HistoryIndex(UpdateAt(i)) \in DOMAIN PushedHistory
           /\ MatchesHistory(UpdateAt(i), PushedHistory)
  <1>1. PICK n \in Repeated :
            n < current_version_id /\ UpdateAt(i) = History[n] /\ VersionAt(i) = n + 1
    BY DuplicateIsRepeated
  <1>2. n \in DOMAIN History /\ n \in Nat /\ n >= 1 /\ current_version_id \in Nat
    BY HistoryAssumption DEF Repeated, SafeInv, TypeOK
  <1>3. HistoryIndex(UpdateAt(i)) = n
    BY <1>1, <1>2 DEF HistoryIndex, VersionAt
  <1>4. /\ n \in DOMAIN update_hash_history
        /\ update_hash_history[n] = UnsecuredHash(History[n])
    <2>1. CASE Straight
      <3>1. n \in DOMAIN update_hash_history
        BY <1>1, <1>2, <2>1, ShapePushed DEF Straight
      <3> QED BY <2>1, <3>1 DEF Straight
    <2>2. ASSUME NEW m \in Repeated, Shifted(m)
          PROVE  /\ n \in DOMAIN update_hash_history
                 /\ update_hash_history[n] = UnsecuredHash(History[n])
      BY <2>2 DEF OneRepeated, Shifted
    <2>3. fsm \in Looking
      BY DEF ConfirmDuplicate, Selected, Looking
    <2> QED BY <2>1, <2>2, <2>3 DEF HistoryShape
  <1>5. /\ n \in DOMAIN PushedHistory
        /\ PushedHistory[n] = UnsecuredHash(History[n])
    BY <1>4, ShapePushed DEF PushedHistory
  <1> QED BY <1>1, <1>3, <1>5 DEF MatchesHistory

LEMMA ShapeStep ==
    ASSUME SafeInv, SafeInv', AnswersInv, SpentInv, HistoryShape,
           [ReadNext]_readVars
    PROVE  HistoryShape'
  <1>1. Repeated \subseteq Repeated'
    BY StepsShiftChain, StepsKeepChain, OrderStays DEF SafeInv, ReadTypeInv
  <1>2. ASSUME UNCHANGED <<update_hash_history, current_version_id>>,
               fsm' \in Looking \cup {"Init"} => fsm \in Looking \cup {"Init"}
        PROVE  HistoryShape'
    BY <1>1, <1>2 DEF HistoryShape, Straight, Shifted
  <1>3. CASE Idle \/ (UNCHANGED network /\ Respond) \/ \E b \in Address : Request(b)
    BY <1>2, <1>3 DEF Idle, Respond, ProcessResponses, Request, vars, machine, Looking
  <1>4. current_version_id \in Nat /\ current_version_id >= 1
    BY DEF SafeInv, TypeOK
  <1>5. ASSUME NEW i \in pending, ConfirmDuplicate(i)
        PROVE  \E n \in Repeated' : Shifted(n)'
    <2>1. PICK n \in Repeated : n < current_version_id
      BY <1>5, DuplicateIsRepeated
    <2>2. n \in DOMAIN History /\ n \in Nat /\ n >= 1
      BY HistoryAssumption DEF Repeated
    <2>3. /\ UNCHANGED current_version_id
          /\ update_hash_history' = Append(update_hash_history, contemporary_hash)
      BY <1>5 DEF ConfirmDuplicate, PushedHistory
    <2>4. CASE Straight
      <3>1. Shifted(n)
        BY <1>4, <2>1, <2>2, <2>4, ShapePushed DEF Shifted, Straight
      <3> QED BY <1>1, <2>3, <3>1, ShapePushed DEF Shifted
    <2>5. ASSUME NEW m \in Repeated, Shifted(m)
          PROVE  \E k \in Repeated' : Shifted(k)'
      BY <1>1, <2>3, <2>5, ShapePushed DEF Shifted
    <2>6. fsm \in Looking
      BY <1>5 DEF ConfirmDuplicate, Selected, Looking
    <2> QED BY <2>4, <2>5, <2>6 DEF HistoryShape
  <1>6. ASSUME NEW i \in pending, ApplyNext(i)
        PROVE  Straight' \/ \E n \in Repeated' : Shifted(n)'
    <2>1. /\ current_version_id' = current_version_id + 1
          /\ update_hash_history' =
                 Append(update_hash_history, UnsecuredHash(UpdateAt(i)))
          /\ fsm = "Updates" /\ VersionAt(i) = current_version_id + 1
      BY <1>6 DEF ApplyNext, ExtendDocument, Applying, Selected, IsNext
    <2>2. PICK n \in DOMAIN History : UpdateAt(i) = History[n] /\ VersionAt(i) = n + 1
      BY <2>1, CollectedIsMined DEF SafeInv, ReadTypeInv, TypeOK
    <2>3. n = current_version_id
      BY <1>4, <2>1, <2>2, HistoryAssumption
    <2>4. CASE Straight
      <3>1. Len(update_hash_history) + 1 = n
        BY <1>4, <2>3, <2>4 DEF Straight
      <3>2. Len(update_hash_history') = current_version_id' - 1
        BY <1>4, <2>1, <2>3, <3>1, ShapePushed
      <3>3. ASSUME NEW k \in DOMAIN update_hash_history'
            PROVE  update_hash_history'[k] = UnsecuredHash(History[k])
        <4>1. CASE k = n
          BY <2>1, <2>2, <3>1, <4>1, ShapePushed
        <4>2. CASE k # n
          <5>1. k \in DOMAIN update_hash_history
            BY <2>1, <3>1, <4>2, ShapePushed
          <5> QED BY <2>1, <2>4, <5>1, ShapePushed DEF Straight
        <4> QED BY <4>1, <4>2
      <3> QED BY <3>2, <3>3 DEF Straight
    <2>5. ASSUME NEW m \in Repeated, Shifted(m)
          PROVE  \E k \in Repeated' : Shifted(k)'
      <3>1. m < current_version_id'
        BY <1>4, <2>1, <2>5, HistoryAssumption DEF Repeated, Shifted
      <3> QED BY <1>1, <2>1, <2>5, <3>1, ShapePushed DEF Shifted
    <2>6. fsm \in Looking
      BY <2>1 DEF Looking
    <2> QED BY <2>4, <2>5, <2>6 DEF HistoryShape
  <1>7. CASE UNCHANGED <<network, program>> /\ Resolve
    <2> SUFFICES ASSUME fsm' \in Looking PROVE HistoryShape'
      BY <1>7, ResolveFrom DEF HistoryShape
    <2>1. CASE ResolveInit \/ CollectUpdates \/ FinishBatch
      BY <1>2, <1>7, <2>1, LookingResolve
         DEF ResolveInit, CollectUpdates, FinishBatch, machine, Looking
    <2> QED BY <1>5, <1>6, <1>7, <2>1, LookingResolve DEF HistoryShape
  <1> QED BY <1>3, <1>7, ReadSteps

-----------------------------------------------------------------------------
(***************************************************************************)
(* In an orderly history an answer holds, with an announcement, those of   *)
(* all earlier updates that the document in hand does not include.         *)
(***************************************************************************)
Gapless(answers, positions) ==
    \A i \in positions, n \in DOMAIN History, a \in Address :
        Tells(answers[i], n, a) =>
            \A m \in current_version_id..(n - 1) :
                \E j \in positions : Tells(answers[j], m, a)

GapInv ==
    Orderly /\ PagesHold =>
        /\ fsm = "WaitingForResponses" => Gapless(responses, DOMAIN responses)
        /\ fsm = "FindNextSignals" => Gapless(transactions, DOMAIN transactions)
        /\ fsm = "Updates" => Gapless(transactions, pending)

(* What a beacon holds below an announcement, for one who came to it. *)
LEMMA EarlierOnPage ==
    ASSUME SafeInv, CacheInv, Orderly, PagesHold, NEW b \in requests,
           NEW p \in OnPage(b), NEW n \in DOMAIN History, chain[b][p].update = n,
           NEW m \in current_version_id..(n - 1)
    PROVE  \E k \in OnPage(b) : chain[b][k].update = m
  <1>1. /\ b \in Address /\ b \in request_cache
        /\ current_version_id \in Nat /\ current_version_id >= 1
        /\ n \in Nat /\ n >= 1
    BY HistoryAssumption DEF SafeInv, TypeOK
  <1>2. m \in 1..(n - 1) /\ m # Payment /\ n # Payment
    BY <1>1 DEF Payment
  <1>3. ASSUME NEW k \in DOMAIN chain[b], chain[b][k].update # Payment
        PROVE  <<b, k>> \in MinedAnnouncements
    <2>1. k \in 1..height
      BY <1>1, <1>3 DEF SafeInv, ReadTypeInv, ReadTypeOK
    <2> QED BY <1>1, <1>3, <2>1 DEF MinedAnnouncements
  <1>4. <<b, p>> \in MinedAnnouncements
    BY <1>2, <1>3 DEF OnPage
  <1>5. \/ \E k \in DOMAIN chain[b] : k > p /\ chain[b][k].update = m
        \/ \A v \in 1..m : b \notin BeaconAddresses(Versions[v])
    BY <1>2, <1>4 DEF Orderly
  <1>6. PICK v \in 1..current_version_id : b \in BeaconAddresses(Versions[v])
    BY <1>1 DEF CacheInv
  <1>7. v \in 1..m
    BY <1>1, <1>2, <1>6
  <1>8. PICK k \in DOMAIN chain[b] : chain[b][k].update = m
    BY <1>5, <1>6, <1>7
  <1>9. k \in OnPage(b)
    <2>1. <<b, k>> \in MinedAnnouncements
      BY <1>2, <1>3, <1>8
    <2> QED BY <2>1 DEF PagesHold
  <1> QED BY <1>8, <1>9

LEMMA GapRequested ==
    ASSUME SafeInv, AnswersInv, CacheInv, Orderly, PagesHold,
           Gapless(responses, DOMAIN responses), NEW b \in Address, Request(b)
    PROVE  Gapless(responses, DOMAIN responses)'
  <1>1. /\ b \in requests /\ UNCHANGED current_version_id
        /\ ReadTypeOK /\ current_version_id \in Nat /\ current_version_id >= 1
    BY DEF Request, vars, machine, SafeInv, ReadTypeInv, TypeOK
  <1>2. PICK offset \in Nat :
            /\ \A k \in DOMAIN responses :
                   /\ k \in DOMAIN responses' /\ k <= offset
                   /\ responses'[k] = responses[k]
            /\ \A p \in OnPage(b) :
                   /\ offset + p \in DOMAIN responses'
                   /\ responses'[offset + p] = MinedResponses(b)[p]
            /\ \A k \in DOMAIN responses' :
                   \/ k \in DOMAIN responses
                   \/ ~responses'[k].tx.confirmed
                   \/ \E p \in OnPage(b) : k = offset + p
    BY <1>1, RequestAnswers
  <1> SUFFICES ASSUME NEW i \in DOMAIN responses', NEW n \in DOMAIN History,
                      NEW a \in Address, Tells(responses'[i], n, a),
                      NEW m \in current_version_id..(n - 1)
               PROVE  \E j \in DOMAIN responses' : Tells(responses'[j], m, a)
    BY <1>1 DEF Gapless, Tells, IsSignal
  <1>3. CASE i \in DOMAIN responses
    <2>1. Tells(responses[i], n, a)
      BY <1>2, <1>3
    <2>2. PICK j \in DOMAIN responses : Tells(responses[j], m, a)
      BY <1>3, <2>1 DEF Gapless
    <2> QED BY <1>2, <2>2
  <1>4. ASSUME NEW p \in OnPage(b), i = offset + p
        PROVE  \E j \in DOMAIN responses' : Tells(responses'[j], m, a)
    <2>1. Tells(MinedResponses(b)[p], n, a)
      BY <1>2, <1>4
    <2>2. chain[b][p].update = n /\ a = b
      BY <1>1, <2>1, PageTells
    <2>3. PICK k \in OnPage(b) : chain[b][k].update = m
      BY <1>1, <2>2, EarlierOnPage
    <2>4. m \in DOMAIN History
      BY <1>1, HistoryAssumption
    <2>5. Tells(MinedResponses(b)[k], m, a)
      BY <1>1, <2>2, <2>3, <2>4, PageTells
    <2>6. offset + k \in DOMAIN responses' /\ responses'[offset + k] = MinedResponses(b)[k]
      BY <1>2
    <2> QED BY <2>5, <2>6
  <1> QED BY <1>2, <1>3, <1>4 DEF Tells

(* An update that leaves the loop's hands is no gap for those that stay. *)
LEMMA GapHandled ==
    ASSUME SafeInv, AnswersInv, Gapless(transactions, pending), fsm = "Updates",
           NEW i \in pending, ConfirmDuplicate(i) \/ ApplyNext(i)
    PROVE  Gapless(transactions, pending)'
  <1>1. /\ UNCHANGED transactions /\ pending' = pending \ {i}
        /\ current_version_id \in Nat /\ current_version_id' \in Nat
        /\ current_version_id <= current_version_id'
        /\ VersionAt(i) <= current_version_id'
    <2>1. current_version_id \in Nat
      BY DEF SafeInv, TypeOK
    <2>2. CASE ConfirmDuplicate(i)
      BY <2>1, <2>2 DEF ConfirmDuplicate, IsDuplicate, traffic
    <2>3. CASE ApplyNext(i)
      BY <2>1, <2>3 DEF ApplyNext, ExtendDocument, Applying, IsNext, traffic
    <2> QED BY <2>2, <2>3
  <1> SUFFICES ASSUME NEW k \in pending', NEW n \in DOMAIN History,
                      NEW a \in Address, Tells(transactions[k], n, a),
                      NEW m \in current_version_id'..(n - 1)
               PROVE  \E j \in pending' : Tells(transactions[j], m, a)
    BY <1>1 DEF Gapless, Tells, IsSignal
  <1>2. n \in Nat /\ m \in current_version_id..(n - 1) /\ m \in DOMAIN History
    BY <1>1, HistoryAssumption DEF SafeInv, TypeOK
  <1>3. PICK j \in pending : Tells(transactions[j], m, a)
    BY <1>1, <1>2 DEF Gapless
  <1>4. j # i
    <2>1. j \in Signals /\ TypeOK
      BY DEF SafeInv, TypeOK
    <2>2. VersionAt(j) = m + 1
      BY <1>2, <1>3, <2>1, MatchedTold
    <2> QED BY <1>1, <1>2, <2>2
  <1> QED BY <1>1, <1>3, <1>4

LEMMA GapStep ==
    ASSUME SafeInv, SafeInv', AnswersInv, CacheInv, GapInv, [ReadNext]_readVars
    PROVE  GapInv'
  <1>1. /\ Orderly' => Orderly
        /\ PagesHold' => PagesHold
    BY StepsShiftChain, StepsKeepChain, OrderStays, PagesStay
       DEF SafeInv, ReadTypeInv
  <1> SUFFICES ASSUME Orderly, PagesHold, Orderly', PagesHold' PROVE GapInv'
    BY <1>1 DEF GapInv
  <1>2. CASE Idle
    <2>1. UNCHANGED <<fsm, responses, transactions, pending, current_version_id>>
      BY <1>2 DEF Idle, vars, traffic, machine
    <2> QED BY <2>1 DEF GapInv, Gapless, Tells, IsSignal
  <1>3. ASSUME NEW b \in Address, Request(b)
        PROVE  GapInv'
    <2>1. fsm = "WaitingForResponses" /\ fsm' = "WaitingForResponses"
      BY <1>3 DEF Request, vars
    <2> QED BY <1>3, <2>1, GapRequested DEF GapInv
  <1>4. CASE UNCHANGED network /\ Respond
    <2>1. /\ fsm = "WaitingForResponses" /\ fsm' = "FindNextSignals"
          /\ transactions' = responses /\ UNCHANGED current_version_id
      BY <1>4 DEF Respond, ProcessResponses, machine
    <2> QED BY <2>1 DEF GapInv, Gapless, Tells, IsSignal
  <1>5. CASE UNCHANGED <<network, program>> /\ Resolve
    <2> SUFFICES ASSUME fsm' \in Looking PROVE GapInv'
      BY DEF GapInv, Looking
    <2>1. CASE fsm' = "WaitingForResponses"
      <3>1. fsm # "WaitingForResponses" /\ UNCHANGED responses
        BY <1>5, ResolveStartsRound DEF program
      <3>2. responses' = <<>>
        BY <3>1 DEF SafeInv, ReadTypeInv, RoundsSeparate
      <3> QED BY <2>1, <3>2 DEF GapInv, Gapless
    <2>2. CASE CollectUpdates /\ fsm = "FindNextSignals" /\ fsm' = "Updates"
      <3>1. /\ pending' = Signals /\ UNCHANGED <<transactions, current_version_id>>
            /\ Gapless(transactions, DOMAIN transactions)
        BY <2>2 DEF CollectUpdates, machine, traffic, GapInv
      <3>2. ASSUME NEW j \in DOMAIN transactions, NEW m, NEW a,
                   Tells(transactions[j], m, a)
            PROVE  j \in Signals
        BY <3>2 DEF Tells, Signals
      <3>3. Gapless(transactions, pending)'
        BY <3>1, <3>2 DEF Gapless, Tells, IsSignal, Signals
      <3> QED BY <2>2, <3>3 DEF GapInv
    <2>3. ASSUME NEW i \in pending, ConfirmDuplicate(i) \/ ApplyNext(i),
                 fsm = "Updates", fsm' = "Updates"
          PROVE  GapInv'
      BY <2>3, GapHandled DEF GapInv
    <2> QED BY <1>5, <2>1, <2>2, <2>3, LookingResolve
  <1> QED BY <1>2, <1>3, <1>4, <1>5, ReadSteps

-----------------------------------------------------------------------------
(***************************************************************************)
(* Where the loop reports an update as late, the history is not orderly.   *)
(***************************************************************************)
LEMMA SourceAccepted ==
    ASSUME SafeInv, HashFresh, NEW i \in pending
    PROVE  ~RejectSource(i)
  <1> SUFFICES ASSUME RejectSource(i) PROVE FALSE
    OBVIOUS
  <1>1. /\ fsm = "Updates" /\ VersionAt(i) = current_version_id + 1
        /\ ~SourceMatches(UpdateAt(i)) /\ i \in Signals
        /\ current_version_id \in Nat
    BY DEF RejectSource, Selected, IsNext, SafeInv, TypeOK
  <1>2. PICK n \in DOMAIN History : UpdateAt(i) = History[n] /\ VersionAt(i) = n + 1
    BY <1>1, CollectedIsMined DEF SafeInv, ReadTypeInv
  <1>3. n = current_version_id
    BY <1>1, <1>2, HistoryAssumption
  <1>4. contemporary_hash = DocHash(Versions[n])
    BY <1>1, <1>3 DEF HashFresh, SafeInv, CurrentInv
  <1> QED BY <1>1, <1>2, <1>4, HistoryAssumption DEF SourceMatches

LEMMA NoGapReported ==
    ASSUME SafeInv, AnswersInv, GapInv, Orderly, PagesHold, NEW i \in pending
    PROVE  ~LatePublished(i)
  <1> SUFFICES ASSUME LatePublished(i) PROVE FALSE
    OBVIOUS
  <1>1. /\ fsm = "Updates" /\ VersionAt(i) > current_version_id + 1
        /\ \A j \in pending : VersionAt(i) <= VersionAt(j)
        /\ current_version_id \in Nat /\ current_version_id >= 1
        /\ TypeOK /\ pending \subseteq Signals /\ requests \subseteq Address
    BY DEF LatePublished, Selected, SafeInv, TypeOK
  <1>2. PICK n \in DOMAIN History, a \in requests :
            Tells(transactions[i], n, a) /\ VersionAt(i) = n + 1
    BY <1>1, PendingTold
  <1>3. current_version_id \in current_version_id..(n - 1)
            /\ current_version_id \in DOMAIN History
    BY <1>1, <1>2, HistoryAssumption
  <1>4. PICK j \in pending : Tells(transactions[j], current_version_id, a)
    BY <1>1, <1>2, <1>3 DEF GapInv, Gapless
  <1>5. VersionAt(j) = current_version_id + 1
    BY <1>1, <1>3, <1>4, MatchedTold
  <1>6. VersionAt(i) \in Nat /\ VersionAt(i) <= VersionAt(j)
    BY <1>1, <1>2, HistoryAssumption
  <1> QED BY <1>1, <1>5, <1>6

LEMMA NeverLateStep ==
    ASSUME SafeInv, SafeInv', HashFresh, AnswersInv, SpentInv, HistoryShape,
           GapInv, OrderlyHistoryAccepted, [ReadNext]_readVars
    PROVE  OrderlyHistoryAccepted'
  <1>1. /\ Orderly' => Orderly
        /\ OneRepeated' => OneRepeated
        /\ PagesHold' => PagesHold
    BY StepsShiftChain, StepsKeepChain, OrderStays, PagesStay
       DEF SafeInv, ReadTypeInv
  <1> SUFFICES ASSUME Orderly, OneRepeated, PagesHold
               PROVE  error' # "LatePublishingError"
    BY <1>1 DEF OrderlyHistoryAccepted
  <1>2. error # "LatePublishingError"
    BY DEF OrderlyHistoryAccepted
  <1>3. CASE Idle \/ (UNCHANGED network /\ Respond) \/ \E b \in Address : Request(b)
    BY <1>2, <1>3 DEF Idle, Respond, ProcessResponses, Request, vars
  <1>4. ASSUME NEW i \in pending, HandleUpdate(i)
        PROVE  error' # "LatePublishingError"
    <2>1. CASE ConfirmDuplicate(i)
      BY <1>2, <2>1, DuplicateMatches DEF ConfirmDuplicate, Panic
    <2>2. CASE RejectUpdate(i)
      BY <2>2 DEF RejectUpdate, Fail, ApplyUpdateError, ProofError, PatchError
    <2>3. CASE ReachTargetVersion(i) \/ ApplyNext(i)
      BY <1>2, <2>3 DEF ReachTargetVersion, ApplyNext, Finish
    <2> QED
      BY <1>4, <2>1, <2>2, <2>3, SourceAccepted, NoGapReported DEF HandleUpdate
  <1>5. CASE \/ ResolveInit \/ SignalsPanic \/ NoSignals \/ AfterTargetTime
             \/ SignalRejected \/ CollectUpdates \/ FinishBatch
    BY <1>2, <1>5 DEF ResolveInit, SignalsPanic, NoSignals, AfterTargetTime,
                      SignalRejected, CollectUpdates, FinishBatch,
                      NextSignalsRequests, SignalError, Finish, Fail, Panic
  <1> QED BY <1>3, <1>4, <1>5, ReadSteps DEF Resolve

OrderInv ==
    /\ ChainOnce
    /\ AnswersInv
    /\ CacheInv
    /\ SpentInv
    /\ HistoryShape
    /\ GapInv
    /\ OrderlyHistoryAccepted

LEMMA OrderInit == ReadInit => OrderInv
  <1> SUFFICES ASSUME ReadInit PROVE OrderInv
    OBVIOUS
  <1>1. ChainOnce
    BY DEF ReadInit, ChainOnce
  <1>2. AnswersInv /\ CacheInv /\ SpentInv /\ GapInv
    BY DEF ReadInit, Init, InitialVersionId, AnswersInv, Told, Once, CacheInv,
           SpentInv, GapInv, Looking
  <1>3. HistoryShape
    BY DEF ReadInit, Init, InitialVersionId, HistoryShape, Straight
  <1>4. OrderlyHistoryAccepted
    BY DEF ReadInit, Init, OrderlyHistoryAccepted
  <1> QED BY <1>1, <1>2, <1>3, <1>4 DEF OrderInv

LEMMA OrderStep ==
    ASSUME SafeInv, SafeInv', HashFresh, OrderInv, [ReadNext]_readVars
    PROVE  OrderInv'
  <1> USE DEF OrderInv
  <1>1. ChainOnce'
    BY ChainOnceStep DEF SafeInv, ReadTypeInv
  <1> QED
    BY <1>1, AnswersStep, CacheStep, SpentStep, ShapeStep, GapStep, NeverLateStep

LEMMA OrderInvariant == ReadSpec => []OrderInv
  <1>1. ReadSpec => []HashFresh
    BY ReadSpecIsStepSpec, CustodyInvariant, PTL DEF CustodyInv
  <1>2. SafeInv /\ SafeInv' /\ HashFresh /\ OrderInv /\ [ReadNext]_readVars => OrderInv'
    BY OrderStep
  <1> QED BY <1>1, <1>2, OrderInit, SafeInvariant, PTL DEF ReadSpec

(* No honest controller is accused of publishing late if beacons hold what *)
(* a reader who comes to them needs, one update at most was announced at   *)
(* several beacons and all is on the first page (src/resolver.rs:141, 150  *)
(* and 182, src/update.rs:76), whatever the chain does while the program   *)
(* asks one address after the other (src/examples/read_did.rs:26).         *)
THEOREM OrderlyAccepted == ReadSpec => []OrderlyHistoryAccepted
  BY OrderInvariant, PTL DEF OrderInv
=============================================================================
