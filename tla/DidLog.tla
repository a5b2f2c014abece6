------------------------------- MODULE DidLog -------------------------------
(***************************************************************************)
(* What a resolution promises its caller, with no word of batches, hashes  *)
(* or histories: it walks from the initial document of a DID along         *)
(* versions each of which legitimately supersedes the one before, one at a *)
(* time, and either returns the document it has reached or refuses and     *)
(* returns nothing (Result<ResolverState, Error> of src/resolver.rs:88).   *)
(***************************************************************************)
EXTENDS Naturals

CONSTANTS
    Document,
    InitialDocument,
    NoDocument,     \* the caller gets nothing
    Supersedes      \* <<doc, version, next>>: next may follow doc as version + 1

VARIABLES document, version, status

logVars == <<document, version, status>>

LogInit ==
    /\ document \in InitialDocument
    /\ version = 1
    /\ status = "Resolving"

(* The next version may at the same time be the one that was asked for. *)
Supersede ==
    /\ status = "Resolving"
    /\ <<document, version, document'>> \in Supersedes
    /\ version' = version + 1
    /\ status' \in {"Resolving", "Resolved"}

Return ==
    /\ status = "Resolving"
    /\ status' = "Resolved"
    /\ UNCHANGED <<document, version>>

Refuse ==
    /\ status = "Resolving"
    /\ status' = "Refused"
    /\ document' = NoDocument
    /\ UNCHANGED version

LogNext == Supersede \/ Return \/ Refuse

LogSpec == LogInit /\ [][LogNext]_logVars
=============================================================================
