---------------------------- MODULE ResolverLog ----------------------------
(***************************************************************************)
(* The resolver of src/resolver.rs implements the abstract log of DidLog,  *)
(* and what its documentation says of it beyond that.                      *)
(***************************************************************************)
EXTENDS Resolver

CONSTANT NoDocument     \* what the caller of a failed resolution has

(* Some update is signed, in the document it replaces, for this step. *)
LegalStep(doc, version, next) ==
    \E update \in Update :
        /\ update.body.source_hash = DocHash(doc)
        /\ update.body.target_version_id = version + 1
        /\ Verified(doc, update)
        /\ next = PatchedDoc(doc, update)

Supersedes == {step \in Document \X Nat \X Document :
                  LegalStep(step[1], step[2], step[3])}

(* A failed resolve() drops the resolver with its half-applied document. *)
Refused == fsm \in {"Err", "Panicked"}

Log == INSTANCE DidLog WITH
    document <- IF Refused THEN NoDocument ELSE contemporary_doc,
    version <- current_version_id,
    status <- IF Refused THEN "Refused"
              ELSE IF fsm = "Resolved" THEN "Resolved" ELSE "Resolving"

(* Every behaviour of the resolver is one of the abstract log: documents   *)
(* change only along verified consecutive updates, whatever the batches    *)
(* hold, and nothing follows a result or a refusal.                        *)
ImplementsLog == Log!LogSpec

-----------------------------------------------------------------------------
(* src/document.rs:161 calls version_time "a bound for when to stop        *)
(* resolving": no update announced after the bound would be applied.       *)
AppliedWithinBound ==
    target_condition.kind = "Time" =>
        \A n \in DOMAIN applied :
            applied[n].block_time <= target_condition.time

(* src/error.rs:35 reads LatePublishingError as "Update payload was        *)
(* published late": some update of the batch would then not be a copy of   *)
(* one that was applied in its turn.                                       *)
LateMeansLate ==
    error = "LatePublishingError" =>
        \E i \in Signals :
            \A n \in DOMAIN applied :
                applied[n].update.body # UpdateAt(i).body
=============================================================================
