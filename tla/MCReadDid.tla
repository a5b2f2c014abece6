----------------------------- MODULE MCReadDid -----------------------------
(***************************************************************************)
(* A history of three updates, the key rotated by the first, the beacons   *)
(* moved by the first two and back by the third, and each update announced *)
(* at any beacon of its document, at one or at all of them.                *)
(***************************************************************************)
EXTENDS ReadDid, MCDocuments

MCVersions == <<"d1", "d2", "d3", "d1">>
MCHistory == <<Announcements["u2"], Announcements["u3"], Announcements["u4"]>>
MCInitialDocument == {"d1"}
MCTime == 0..9

(* Later than all blocks, or in the middle of them. *)
MCClock == {2, 9}

MCPaymentTxid == <<0, "A">>
MCReadTxid == (DOMAIN MCHistory) \X MCAddress \cup {MCPaymentTxid}
MCTxidOf == [n \in DOMAIN MCHistory |-> [a \in MCAddress |-> <<n, a>>]]
MCReadMetadata ==
    [txid \in MCReadTxid |->
        IF txid = MCPaymentTxid THEN NoMetadata ELSE MCHistory[txid[1]]]

(* One announcement of the second update is missing, one has another. *)
LOCAL Incomplete ==
    [MCReadMetadata EXCEPT ![<<2, "A">>] = NoMetadata, ![<<2, "B">>] = MCHistory[1]]

LOCAL Asking(version_id, metadata) ==
    [version_id |-> version_id, version_time |-> None,
     signals_metadata |-> metadata]

(* The time bound is the clock where no version is asked for. *)
MCResolutionOptions ==
    {Asking(3, MCReadMetadata), Asking(None, MCReadMetadata), Asking(None, Incomplete)}

(* Any beacon of the document an update replaces. *)
MCAnyBeacon == <<{"A"}, {"A", "B"}, {"B", "C"}>>

(* Two transactions fill a page: one payment can push an announcement off. *)
MCPageSize == 2
MCMaxPayments == [a \in MCAddress |-> IF a = "A" THEN 1 ELSE 0]

(* The answers are those of the server: see Respond. *)
MCNoBatches == {}
=============================================================================
