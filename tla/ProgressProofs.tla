--------------------------- MODULE ProgressProofs ---------------------------
(***************************************************************************)
(* Why a resolution cannot go on for ever: every step of the resolver, and *)
(* of the program that drives it, takes it down in an order in which there *)
(* is no endless descent.                                                  *)
(***************************************************************************)
EXTENDS ReadDidProofs, WellFoundedInduction

-----------------------------------------------------------------------------
(***************************************************************************)
(* The resolver.                                                           *)
(***************************************************************************)

(* The phases of a round, as Phase counts them. *)
LEMMA PhaseOf ==
    /\ fsm = "Init" => Phase = 4
    /\ fsm = "WaitingForResponses" => Phase = 3
    /\ fsm = "FindNextSignals" => Phase = 2
    /\ fsm = "Updates" => Phase = 1
    /\ fsm \in Done => Phase = 0
  BY DEF Phase, Done

LEMMA PhaseType == TypeOK => Phase \in Nat
  BY PhaseOf DEF TypeOK, States, Done

(* New requests are for addresses that were left. *)
LEMMA RequestsAdvance ==
    ASSUME TypeOK, fsm # "Err", NEW whenEmpty, NextSignalsRequests(whenEmpty)
    PROVE  \/ Unasked' = Unasked /\ fsm' = "Panicked"
           \/ Unasked' = Unasked /\ fsm' = whenEmpty
           \/ StrictlyWithin(Unasked', Unasked)
  <1>1. FreshAddresses \subseteq Address /\ FreshAddresses \cap request_cache = {}
    <2>1. BeaconAddresses(contemporary_doc) \subseteq Address
      BY DocumentAssumption
         DEF TypeOK, BeaconAddresses, DocumentFields, Beacon
    <2> QED BY <2>1 DEF FreshAddresses
  <1>2. CASE FreshAddresses = {}
    BY <1>2 DEF NextSignalsRequests, Panic, Unasked
  <1>3. CASE FreshAddresses # {} /\ request_cache' = request_cache \cup FreshAddresses
    BY <1>1, <1>3 DEF Unasked, StrictlyWithin
  <1>4. CASE fsm' = "Panicked" /\ UNCHANGED request_cache
    BY <1>4 DEF Unasked
  <1> QED BY <1>2, <1>3, <1>4 DEF NextSignalsRequests, Panic

(* The loop loses an update with each iteration. *)
LEMMA HandledAdvance ==
    ASSUME TypeOK, NEW i \in pending, HandleUpdate(i)
    PROVE  Advance
  <1>1. fsm = "Updates" /\ UNCHANGED request_cache
    BY DEF HandleUpdate, ConfirmDuplicate, RejectSource, RejectUpdate,
           ReachTargetVersion, ApplyNext, ExtendDocument, Applying, Selected,
           LatePublished, traffic
  <1>2. \/ fsm' \in Done
        \/ fsm' = "Updates" /\ pending' = pending \ {i}
    BY <1>1 DEF HandleUpdate, ConfirmDuplicate, RejectSource, RejectUpdate,
                ReachTargetVersion, ApplyNext, ExtendDocument, LatePublished,
                Finish, Fail, Panic, Done
  <1>3. Unasked' = Unasked
    BY <1>1 DEF Unasked
  <1>4. CASE fsm' \in Done
    <2>1. Phase = 1 /\ Phase' = 0
      BY <1>1, <1>4 DEF Phase, Done
    <2> QED BY <1>3, <2>1 DEF Advance
  <1>5. CASE fsm' = "Updates" /\ pending' = pending \ {i}
    <2>1. Phase' = Phase
      BY <1>1, <1>5 DEF Phase, Done
    <2>2. StrictlyWithin(pending', pending)
      BY <1>5 DEF StrictlyWithin
    <2> QED BY <1>3, <2>1, <2>2 DEF Advance
  <1> QED BY <1>2, <1>4, <1>5

LEMMA StepAdvances ==
    ASSUME TypeOK, Step
    PROVE  Advance
  <1>1. CASE ResolveInit
    <2>1. /\ fsm = "Init"
          /\ \/ fsm' = "Resolved" /\ UNCHANGED request_cache
             \/ NextSignalsRequests("WaitingForResponses")
      BY <1>1 DEF ResolveInit, Finish
    <2>2. \/ /\ Unasked' = Unasked
             /\ fsm' \in {"Resolved", "Panicked", "WaitingForResponses"}
          \/ StrictlyWithin(Unasked', Unasked)
      BY <2>1, RequestsAdvance DEF Unasked
    <2>3. fsm' \in {"Resolved", "Panicked", "WaitingForResponses"} => Phase' < Phase
      BY <2>1 DEF Phase, Done
    <2> QED BY <2>2, <2>3 DEF Advance
  <1>2. CASE FinishBatch
    <2>1. /\ fsm = "Updates"
          /\ NextSignalsRequests("Resolved")
      BY <1>2 DEF FinishBatch
    <2>2. \/ Unasked' = Unasked /\ fsm' \in {"Resolved", "Panicked"}
          \/ StrictlyWithin(Unasked', Unasked)
      BY <2>1, RequestsAdvance
    <2>3. fsm' \in {"Resolved", "Panicked"} => Phase' < Phase
      BY <2>1 DEF Phase, Done
    <2> QED BY <2>2, <2>3 DEF Advance
  <1>3. CASE \E answers \in Seq(Response) : ProcessResponses(answers)
    BY <1>3 DEF ProcessResponses, Advance, Unasked, Phase, Done
  <1>4. CASE SignalsPanic \/ NoSignals \/ AfterTargetTime \/ SignalRejected
    <2>1. /\ fsm = "FindNextSignals" /\ fsm' \in Done
          /\ UNCHANGED request_cache
      BY <1>4 DEF SignalsPanic, NoSignals, AfterTargetTime, SignalRejected,
                  Collecting, Readable, Scanning, Finish, Fail, Panic, Done, traffic
    <2> QED BY <2>1 DEF Advance, Unasked, Phase, Done
  <1>5. CASE CollectUpdates
    <2>1. /\ fsm = "FindNextSignals" /\ fsm' = "Updates"
          /\ UNCHANGED request_cache
      BY <1>5 DEF CollectUpdates, Collecting, Readable, Scanning, traffic
    <2> QED BY <2>1 DEF Advance, Unasked, Phase, Done
  <1> QED BY <1>1, <1>2, <1>3, <1>4, <1>5, HandledAdvance DEF Step, Resolve

LEMMA AdvanceInvariant == StepSpec => AlwaysAdvances
  <1>1. TypeOK /\ [Step]_vars => [Advance]_vars
    BY StepAdvances
  <1> QED BY <1>1, TypeInvariant, PTL DEF StepSpec, AlwaysAdvances

(* For all documents, options and answers, each step of the resolver       *)
(* leaves less to do, and none follows its end: the cache of addresses is  *)
(* what keeps it from going round (src/resolver.rs:258).                   *)
THEOREM MachineAdvances == Spec => AlwaysAdvances
  BY AdvanceInvariant, SpecIsStepSpec, PTL

-----------------------------------------------------------------------------
(***************************************************************************)
(* The program.                                                            *)
(***************************************************************************)

(* The network takes no part in what is left to do. *)
LEMMA ReadStepAdvances ==
    ASSUME ReadTypeInv, TypeOK, ReadNext
    PROVE  \/ UNCHANGED <<vars, program>>
           \/ Advance
           \/ UNCHANGED vars /\ Running /\ ~Running'
           \/ /\ UNCHANGED <<vars, driver>>
              /\ StrictlyWithin(Unanswered', Unanswered)
  <1>1. CASE CallResolve
    BY <1>1, StepAdvances DEF CallResolve, Step
  <1>2. CASE Respond
    <2>1. responses \in Seq(Response)
      BY DEF ReadTypeInv, ReadTypeOK
    <2>2. Step
      BY <1>2, <2>1 DEF Respond, Step
    <2> QED BY <2>2, StepAdvances
  <1>3. ASSUME NEW a \in Address, Request(a)
        PROVE  /\ UNCHANGED <<vars, driver>>
               /\ StrictlyWithin(Unanswered', Unanswered)
    <2>1. /\ UNCHANGED <<vars, driver>>
          /\ a \in requests \ fetched /\ fetched' = fetched \cup {a}
      BY <1>3 DEF Request
    <2>2. requests' = requests
      BY <2>1 DEF vars, traffic
    <2> QED BY <2>1, <2>2 DEF Unanswered, StrictlyWithin
  <1>4. CASE RequestFails
    BY <1>4 DEF RequestFails, Running
  <1>5. CASE NetworkStep
    BY <1>5 DEF NetworkStep, Announce, Mine, Pay, AddBlock
  <1> QED BY <1>1, <1>2, <1>3, <1>4, <1>5 DEF ReadNext, ProgramStep

(* For all histories and chains, each step of the program leaves less to   *)
(* do, and the growth of the chain gives it nothing new                    *)
(* (src/examples/read_did.rs:26-33).                                       *)
THEOREM ProgramGoesForward == ReadSpec => ProgramAdvances
  <1>1. ReadTypeInv /\ TypeOK /\ [ReadNext]_readVars =>
            [\/ UNCHANGED <<vars, program>>
             \/ Advance
             \/ UNCHANGED vars /\ Running /\ ~Running'
             \/ /\ UNCHANGED <<vars, driver>>
                /\ StrictlyWithin(Unanswered', Unanswered)]_readVars
    BY ReadStepAdvances
  <1> QED BY <1>1, ReadTypeInvariant, ReadSpecIsStepSpec, TypeInvariant, PTL
          DEF ReadSpec, ProgramAdvances

-----------------------------------------------------------------------------
(***************************************************************************)
(* The descent.  Sets of addresses and of positions are finite, so neither *)
(* they nor lexical combinations of them go down for ever.                 *)
(***************************************************************************)
NatOrder == OpToRel(<, Nat)

AddressesOrder == StrictSubsetOrdering(Address)

PositionsOrder == StrictSubsetOrdering(Nat)

RoundsLeft == Nat \X FiniteSubsetsOf(Nat)

RoundOrder == LexPairOrdering(NatOrder, PositionsOrder, Nat, FiniteSubsetsOf(Nat))

LeftSet == (SUBSET Address) \X RoundsLeft

LeftOrder == LexPairOrdering(AddressesOrder, RoundOrder, SUBSET Address, RoundsLeft)

(* What is left to the resolver *)
Left == <<Unasked, <<Phase, pending>>>>

Descend == <<Left', Left>> \in LeftOrder

AnswersLeft == Nat \X SUBSET Address

AnswersOrder == LexPairOrdering(NatOrder, AddressesOrder, Nat, SUBSET Address)

ProgramLeftSet == LeftSet \X AnswersLeft

ProgramOrder == LexPairOrdering(LeftOrder, AnswersOrder, LeftSet, AnswersLeft)

(* ... and to the program *)
ProgramLeft == <<Left, <<IF Running THEN 1 ELSE 0, Unanswered>>>>

(* A step of the network is no step of the program. *)
ProgramDescend ==
    \/ UNCHANGED <<vars, program>>
    \/ <<ProgramLeft', ProgramLeft>> \in ProgramOrder

LEMMA OrdersWellFounded ==
    /\ IsWellFoundedOn(LeftOrder, LeftSet)
    /\ IsWellFoundedOn(ProgramOrder, ProgramLeftSet)
  <1>1. IsWellFoundedOn(NatOrder, Nat)
    BY NatLessThanWellFounded DEF NatOrder
  <1>2. IsWellFoundedOn(AddressesOrder, SUBSET Address)
    <2>1. FiniteSubsetsOf(Address) = SUBSET Address
      BY AddressAssumption, FS_FiniteSubsetsOfFinite
    <2> QED BY <2>1, FS_StrictSubsetOrderingWellFounded DEF AddressesOrder
  <1>3. IsWellFoundedOn(PositionsOrder, FiniteSubsetsOf(Nat))
    BY FS_StrictSubsetOrderingWellFounded DEF PositionsOrder
  <1>4. IsWellFoundedOn(RoundOrder, RoundsLeft)
    BY <1>1, <1>3, WFLexPairOrdering DEF RoundOrder, RoundsLeft
  <1>5. IsWellFoundedOn(LeftOrder, LeftSet)
    BY <1>2, <1>4, WFLexPairOrdering DEF LeftOrder, LeftSet
  <1>6. IsWellFoundedOn(AnswersOrder, AnswersLeft)
    BY <1>1, <1>2, WFLexPairOrdering DEF AnswersOrder, AnswersLeft
  <1>7. IsWellFoundedOn(ProgramOrder, ProgramLeftSet)
    BY <1>5, <1>6, WFLexPairOrdering DEF ProgramOrder, ProgramLeftSet
  <1> QED BY <1>5, <1>7

LEMMA LeftType == TypeOK => Left \in LeftSet
  <1> SUFFICES ASSUME TypeOK PROVE Left \in LeftSet
    OBVIOUS
  <1>1. Unasked \in SUBSET Address /\ Phase \in Nat
    BY PhaseType DEF Unasked
  <1>2. pending \in FiniteSubsetsOf(Nat)
    <2>1. pending \subseteq 1..Len(transactions) /\ Len(transactions) \in Nat
      BY DEF TypeOK, Signals
    <2>2. IsFiniteSet(1..Len(transactions))
      BY <2>1, FS_Interval
    <2>3. IsFiniteSet(pending)
      BY <2>1, <2>2, FS_Subset
    <2> QED BY <2>1, <2>3 DEF FiniteSubsetsOf
  <1> QED BY <1>1, <1>2 DEF Left, LeftSet, RoundsLeft

LEMMA AdvanceDescends ==
    ASSUME TypeOK, TypeOK', Advance
    PROVE  Descend
  <1>0. (TypeOK => Left \in LeftSet)'
    BY LeftType, PTL
  <1>1. /\ Left \in LeftSet /\ Left' \in LeftSet
        /\ Unasked \in SUBSET Address /\ Unasked' \in SUBSET Address
        /\ Phase \in Nat /\ Phase' \in Nat
        /\ pending \in SUBSET Nat /\ pending' \in SUBSET Nat
        /\ <<Phase, pending>> \in RoundsLeft /\ <<Phase', pending'>> \in RoundsLeft
    BY <1>0, LeftType DEF Left, LeftSet, RoundsLeft, FiniteSubsetsOf
  <1>2. StrictlyWithin(Unasked', Unasked) => <<Unasked', Unasked>> \in AddressesOrder
    BY <1>1 DEF StrictlyWithin, AddressesOrder, StrictSubsetOrdering
  <1>3. Phase' < Phase => <<Phase', Phase>> \in NatOrder
    BY <1>1 DEF NatOrder, OpToRel
  <1>4. StrictlyWithin(pending', pending) => <<pending', pending>> \in PositionsOrder
    BY <1>1 DEF StrictlyWithin, PositionsOrder, StrictSubsetOrdering
  <1>5. \/ Phase' < Phase
        \/ Phase' = Phase /\ StrictlyWithin(pending', pending)
        => <<<<Phase', pending'>>, <<Phase, pending>>>> \in RoundOrder
    BY <1>1, <1>3, <1>4 DEF RoundOrder, LexPairOrdering, RoundsLeft
  <1> QED BY <1>1, <1>2, <1>5 DEF Advance, Descend, LeftOrder, LexPairOrdering, Left,
                LeftSet

(* Every step of a resolution goes down an order with no endless descent,  *)
(* whatever it is answered: a resolution has finitely many steps           *)
(* (src/resolver.rs:91 and 258).                                           *)
THEOREM MachineDescends ==
    /\ IsWellFoundedOn(LeftOrder, LeftSet)
    /\ Spec => [][Descend]_vars
  <1>1. TypeOK /\ TypeOK' /\ [Step]_vars => [Descend]_vars
    BY StepAdvances, AdvanceDescends
  <1>2. StepSpec => [][Descend]_vars
    BY <1>1, TypeInvariant, PTL DEF StepSpec
  <1>3. Spec => [][Descend]_vars
    BY <1>2, SpecIsStepSpec, PTL
  <1> QED BY <1>3, OrdersWellFounded

LEMMA ProgramLeftType ==
    ReadTypeInv /\ TypeOK => ProgramLeft \in ProgramLeftSet
  <1> SUFFICES ASSUME ReadTypeInv, TypeOK PROVE ProgramLeft \in ProgramLeftSet
    OBVIOUS
  <1>1. Unanswered \in SUBSET Address
    BY DEF Unanswered, TypeOK
  <1>2. (IF Running THEN 1 ELSE 0) \in Nat
    OBVIOUS
  <1> QED BY <1>1, <1>2, LeftType DEF ProgramLeft, ProgramLeftSet, AnswersLeft

LEMMA ProgramDescent ==
    ASSUME ReadTypeInv, ReadTypeInv', TypeOK, TypeOK', ReadNext,
           ~UNCHANGED <<vars, program>>
    PROVE  <<ProgramLeft', ProgramLeft>> \in ProgramOrder
  <1> DEFINE answers == <<IF Running THEN 1 ELSE 0, Unanswered>>
  <1>0. (ReadTypeInv /\ TypeOK => ProgramLeft \in ProgramLeftSet)'
    BY ProgramLeftType, PTL
  <1>1. /\ <<ProgramLeft', ProgramLeft>> \in ProgramLeftSet \X ProgramLeftSet
        /\ answers \in AnswersLeft /\ answers' \in AnswersLeft
    BY <1>0, ProgramLeftType DEF ProgramLeft, ProgramLeftSet
  <1>2. CASE Advance
    BY <1>1, <1>2, AdvanceDescends
       DEF Descend, ProgramLeft, ProgramLeftSet, ProgramOrder, LexPairOrdering
  <1>3. ASSUME UNCHANGED vars, <<answers', answers>> \in AnswersOrder
        PROVE  <<ProgramLeft', ProgramLeft>> \in ProgramOrder
    <2>1. Left' = Left
      BY <1>3 DEF vars, traffic, Left, Unasked, Phase
    <2> QED BY <1>1, <1>3, <2>1
            DEF ProgramLeft, ProgramLeftSet, ProgramOrder, LexPairOrdering
  <1>4. CASE UNCHANGED vars /\ Running /\ ~Running'
    <2>1. <<0, 1>> \in NatOrder
      BY DEF NatOrder, OpToRel
    <2>2. <<answers', answers>> \in AnswersOrder
      BY <1>1, <1>4, <2>1 DEF AnswersOrder, LexPairOrdering, AnswersLeft
    <2> QED BY <1>3, <1>4, <2>2
  <1>5. CASE /\ UNCHANGED <<vars, driver>>
             /\ StrictlyWithin(Unanswered', Unanswered)
    <2>1. <<Unanswered', Unanswered>> \in AddressesOrder
      BY <1>1, <1>5
         DEF AnswersLeft, StrictlyWithin, AddressesOrder, StrictSubsetOrdering
    <2>2. Running' = Running
      BY <1>5 DEF Running
    <2>3. <<answers', answers>> \in AnswersOrder
      BY <1>1, <2>1, <2>2 DEF AnswersOrder, LexPairOrdering, AnswersLeft
    <2> QED BY <1>3, <1>5, <2>3
  <1> QED BY <1>2, <1>4, <1>5, ReadStepAdvances

(* Every step of the program goes down an order with no endless descent,   *)
(* and no step of the network goes up: however fast the chain grows, the   *)
(* program takes finitely many steps (src/examples/read_did.rs:20-41).     *)
THEOREM ProgramDescends ==
    /\ IsWellFoundedOn(ProgramOrder, ProgramLeftSet)
    /\ ReadSpec => [][ProgramDescend]_readVars
  <1>1. /\ ReadTypeInv /\ ReadTypeInv' /\ TypeOK /\ TypeOK'
        /\ [ReadNext]_readVars
        => [ProgramDescend]_readVars
    BY ProgramDescent DEF ProgramDescend
  <1>2. ReadSpec => [][ProgramDescend]_readVars
    BY <1>1, ReadTypeInvariant, ReadSpecIsStepSpec, TypeInvariant, PTL DEF ReadSpec
  <1> QED BY <1>2, OrdersWellFounded

=============================================================================
