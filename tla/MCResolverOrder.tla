-------------------------- MODULE MCResolverOrder --------------------------
(***************************************************************************)
(* Longer answers in every order: an honest history, its repetitions at    *)
(* several beacons, the first two versions of a fork of it, and a fork     *)
(* that is, but for its proof, a document of the history.                  *)
(***************************************************************************)
EXTENDS MCDocuments, ResolverLog

MCTime == {1}
MCClock == {1}
MCInitialDocument == {"d1"}
MCResolutionOptions == {NoOptions}

MaxBatch == 4

LOCAL BatchesOf(txids) ==
    UNION {[1..n -> {Answer(txid, 1) : txid \in txids}] : n \in 0..MaxBatch}

MCBatches ==
    BatchesOf({"u2", "u2again", "u3", "u2fork", "u3fork"})
        \cup BatchesOf({"u2", "u3", "u3twin"})
=============================================================================
