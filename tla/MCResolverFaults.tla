-------------------------- MODULE MCResolverFaults --------------------------
(***************************************************************************)
(* Every answer of at most two transactions, good or faulty in any of the  *)
(* ways the code tells apart, in every round.                              *)
(***************************************************************************)
EXTENDS MCDocuments

MCTime == 1..2
MCClock == {2}
MCResolutionOptions == {NoOptions}
MCInitialDocument == {"d1", "mapped"}

MaxBatch == 2

(* An aggregating beacon's answer takes the path of a todo!(). *)
MCResponses ==
    {Answer(txid, 1) : txid \in MCTxid}
        \cup {[beacon_type |-> "Map", tx |-> Mined("u2", 1)]}

MCBatches == UNION {[1..n -> MCResponses] : n \in 0..MaxBatch}
=============================================================================
