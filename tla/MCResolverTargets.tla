------------------------- MODULE MCResolverTargets -------------------------
(***************************************************************************)
(* Every combination of version_id and version_time, against answers of    *)
(* at most two announcements before and after the bound.                   *)
(***************************************************************************)
EXTENDS MCDocuments, ResolverLog

MCTime == 1..4
MCClock == {2, 4}
MCInitialDocument == {"d1"}

MCResolutionOptions ==
    {[version_id |-> v, version_time |-> t, signals_metadata |-> MCMetadata] :
        v \in {1, 2, 3, 5, None}, t \in {2, None}}

MaxBatch == 2

MCResponses ==
    {Answer(txid, t) : txid \in {"u2", "u3"}, t \in {1, 3}}
        \cup {Answer("u2again", 1), Answer("u4", 1), Answer("u4", 3)}

MCBatches == UNION {[1..n -> MCResponses] : n \in 0..MaxBatch}
=============================================================================
