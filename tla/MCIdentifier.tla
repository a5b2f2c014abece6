---------------------------- MODULE MCIdentifier ----------------------------
(***************************************************************************)
(* Every first byte and every network, with genesis bytes of the lengths   *)
(* of a key, of a hash and of neither.                                     *)
(***************************************************************************)
EXTENDS DidValue

MCGenesis == {"key1", "key2", "hash1", "hash2", "short"}
MCGenesisLength ==
    [g \in MCGenesis |-> IF g \in {"key1", "key2"} THEN 33
                         ELSE IF g = "short" THEN 3 ELSE 32]
=============================================================================
