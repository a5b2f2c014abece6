---------------------------- MODULE MCDocuments ----------------------------
(***************************************************************************)
(* The documents, updates and transactions on which the resolver is model  *)
(* checked: one DID, a history d1 -> d2 -> d3 that rotates the key and     *)
(* moves the beacons, and the ways in which an announcement can be wrong.  *)
(***************************************************************************)
EXTENDS Resolver

MCDid == {"did", "other did"}
MCMethod == {"initial", "rotated"}
MCKey == {"k1", "k2"}
MCAddress == {"A", "B", "C"}
MCContext == {"ctx1", "ctx2"}
MCMaxVersionId == 5

(* Where documents stand; "broken" is JSON that is no conformant document. *)
LOCAL DocJson == {"d1", "d2", "d3", "fork", "mapped", "broken"}

LOCAL Singleton(address) == [ty |-> "Singleton", descriptor |-> address]

LOCAL DocWith(initial, rotated, service) ==
    [id |-> "did",
     verification_method |-> [m \in MCMethod |->
         IF m = "initial" THEN initial ELSE rotated],
     service |-> service]

MCFields ==
    [doc \in DocJson \ {"broken"} |->
        CASE doc = "d1" -> DocWith("k1", NoKey, {Singleton("A")})
          [] doc = "d2" -> DocWith(NoKey, "k2", {Singleton("A"), Singleton("B")})
          [] doc = "d3" -> DocWith(NoKey, "k2", {Singleton("B"), Singleton("C")})
          [] doc = "fork" -> DocWith("k1", NoKey, {Singleton("B")})
          [] doc = "mapped" -> DocWith("k1", NoKey,
                 {Singleton("A"), [ty |-> "Map", descriptor |-> "C"]})]

(* A patch is named for what it makes of any document. *)
MCPatch == DocJson \cup {PatchFails}

-----------------------------------------------------------------------------
LOCAL Body(from, to, version) ==
    [source_hash |-> DocHash(from), target_hash |-> DocHash(to),
     target_version_id |-> version, patch |-> to, context |-> <<"ctx1", "ctx2">>]

LOCAL InnerBy(method) ==
    [capability |-> "did", verification_method |-> method,
     proof_purpose |-> "capabilityInvocation", context |-> <<"ctx1", "ctx2">>]

LOCAL Signed(body, inner, key) ==
    [body |-> body,
     proof |-> [inner |-> inner,
                proof_value |-> [key |-> key, body |-> body, inner |-> inner]]]

LOCAL ByInitial(body) == Signed(body, InnerBy("initial"), "k1")
LOCAL ByRotated(body) == Signed(body, InnerBy("rotated"), "k2")

LOCAL ToD2 == Body("d1", "d2", 2)

(* The update each transaction's sidecar data holds, by transaction. *)
Announcements ==
    [u2        |-> ByInitial(ToD2),
     \* the same update under a proof with fewer contexts
     u2again   |-> Signed(ToD2, [InnerBy("initial") EXCEPT !.context = <<"ctx1">>],
                          "k1"),
     u2fork    |-> ByInitial(Body("d1", "fork", 2)),
     u2mapped  |-> ByInitial(Body("d1", "mapped", 2)),
     u3        |-> ByRotated(Body("d2", "d3", 3)),
     \* version 3 of the other branch, and version 4 back to the first document
     u3fork    |-> ByInitial(Body("fork", "d3", 3)),
     u4        |-> ByRotated(Body("d3", "d1", 4)),
     \* another version 3, which the second document is but for its proof
     u3twin    |-> ByRotated(Body("d1", "fork", 3)),
     u1        |-> ByInitial(Body("d1", "d1", 1)),
     source    |-> ByInitial(Body("d3", "d2", 2)),
     notadid   |-> Signed(ToD2, [InnerBy("initial") EXCEPT !.capability = NotADid],
                          "k1"),
     otherdid  |-> Signed(ToD2, [InnerBy("initial") EXCEPT !.capability = "other did"],
                          "k1"),
     nomethod  |-> Signed(ToD2, InnerBy("rotated"), "k2"),
     purpose   |-> Signed(ToD2, [InnerBy("initial") EXCEPT
                                    !.proof_purpose = "authentication"], "k1"),
     undecoded |-> [body |-> ToD2, proof |-> [inner |-> InnerBy("initial"),
                                              proof_value |-> Undecodable]],
     contexts  |-> Signed(ToD2, [InnerBy("initial") EXCEPT !.context = <<"ctx2">>],
                          "k1"),
     otherkey  |-> Signed(ToD2, InnerBy("initial"), "k2"),
     nocontext |-> ByInitial([ToD2 EXCEPT !.context = NoContext]),
     nopatch   |-> ByInitial([ToD2 EXCEPT !.patch = PatchFails]),
     unparsed  |-> ByInitial(Body("d1", "broken", 2)),
     target    |-> ByInitial([ToD2 EXCEPT !.target_hash = DocHash("d3")])]

MCUpdate == {Announcements[name] : name \in DOMAIN Announcements}

(* The JSON of an update goes by its name. *)
MCUpdateJson ==
    [update \in MCUpdate |->
        CHOOSE name \in DOMAIN Announcements : Announcements[name] = update]

MCUnsecuredJson ==
    [body \in {update.body : update \in MCUpdate} |->
        IF body = Announcements["u3twin"].body THEN "d2"
        ELSE "unsecured " \o
             (CHOOSE name \in DOMAIN Announcements : Announcements[name].body = body)]

MCJson ==
    DocJson \cup {MCUpdateJson[update] : update \in MCUpdate}
            \cup {MCUnsecuredJson[update.body] : update \in MCUpdate}

MCPatched == [patch \in MCPatch |-> [json \in MCJson |-> patch]]

(* Transactions beyond the announcements, for what is not about updates. *)
MCTxid == DOMAIN Announcements \cup
    {"nometadata", "noupdate", "unannounced", "payment", "nooutputs", "mempool"}

MCMetadata ==
    [txid \in MCTxid |->
        IF txid \in DOMAIN Announcements THEN Announcements[txid]
        ELSE IF txid = "nometadata" THEN NoMetadata
        ELSE IF txid = "noupdate" THEN NoUpdate
        ELSE Announcements["u2"]]

(* A transaction that announces its update, mined at the given time. *)
Mined(txid, block_time) ==
    [txid |-> txid,
     last_output |-> IF txid = "payment" THEN "other"
                     ELSE IF txid = "nooutputs" THEN "missing" ELSE "signal",
     signal_bytes |-> UpdateHash(IF txid \in DOMAIN Announcements
                                 THEN Announcements[txid]
                                 ELSE IF txid = "unannounced"
                                      THEN Announcements["u3"]
                                      ELSE Announcements["u2"]),
     confirmed |-> txid # "mempool",
     block_time |-> block_time]

Answer(txid, block_time) ==
    [beacon_type |-> "Singleton", tx |-> Mined(txid, block_time)]

NoOptions ==
    [version_id |-> None, version_time |-> None, signals_metadata |-> MCMetadata]
=============================================================================
