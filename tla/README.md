# A verification of did-btc1

TLA+ modules, TLC configurations and TLAPS proofs for the `did-btc1` crate
(`src/src/*.rs`, `src/examples/read_did.rs`). Comments in the modules name
source lines relative to the repository, for example `src/resolver.rs:141`.

## 1. The system

The crate resolves `did:btc1` identifiers. A DID names either a public key,
from which its initial document is generated, or the hash of an initial
document that comes with the request ("sidecar" data). The document lists
*beacons*, Bitcoin addresses. A controller who changes the document signs an
update and announces its hash in a transaction at a beacon of the document it
replaces. Resolution starts from the initial document, asks for the
transactions of its beacons, applies the updates they announce, asks for the
beacons that the updates brought in, and so on.

| Component | State | Operations | Correct when |
|---|---|---|---|
| Resolver (`resolver.rs`) | document, version, hash history, request cache, sidecar data, target, FSM | `new`, `resolve`, `process_responses` | only a verified, gapless chain is applied; no fork passes; it ends; it has asked every beacon |
| Updates (`update.rs`, `document.rs` `apply_update`, `cryptosuite.rs`, `zcap.rs`) | none beyond the document they rewrite | `apply_update`, `confirm_duplicate`, `verify_proof`, `dereference_root_capability` | a wrong update is refused at the right check and never built upon |
| Initial documents (`document.rs`, `beacon.rs`) | the documents passed in and out | `from_external_intermediate`, `from_did`, sidecar validation, `generate_beacons` | what was created can be read; nothing else passes for it |
| Identifier (`identifier.rs`, `zcap.rs`) | `Did`: text and components side by side | parse, encode, conversions, dereferencing a root capability | text and components determine each other |
| Keys (`key.rs`) | none | `from_multikey`, `to_multikey`, `public_key_unchecked` | the key of a document is the key of its DID |
| Document fields (`document.rs` `DocumentFields::try_from`, `json_tools.rs`, `beacon.rs`, `verification.rs`) | none | the structural checks, member by member | a document made by the crate passes them, on the network it was made for |
| Driver (`examples/read_did.rs`) | responses of the round | request loop | it ends; it returns a current document |
| Errors (`error.rs`), files | none | formatting, reading, writing | - |
| `crates/smt-sim` | none kept | a benchmark | - |

How they interact: `Document::read` builds the initial document from the DID
and passes it to `Resolver::new`. `resolve` consumes the resolver and returns
requests, a document or an error; the owner sends the requests and hands the
transactions to `process_responses`, which consumes the waiting resolver and
gives the next one back. There are no threads, callbacks or shared state
inside the crate. What is hard comes from outside and from data: the chain
grows between two requests of one round; a batch arrives as a `HashMap` in any
order with repetitions, forks, gaps, mempool transactions and faulty updates;
`sort_unstable_by_key` leaves equal versions in any order; a failing update
leaves a half-applied document; caches and copies (`request_cache`,
`contemporary_hash`, `update_hash_history`) may be stale or shifted. The
hazards are listed line by line in `PROJECT.json`.

## 2. The modules

| Module | Models | State and actions |
|---|---|---|
| `DidDocument` | documents, updates, proofs, hashes; `apply_update` as its first error (`ApplyUpdateError`) and the document it leaves behind (`DocAfterUpdate`) | operators only |
| `Resolver` | `resolver.rs` | the fields of `Resolver` under their names, the FSM, the loop of step 10 unrolled into one action per update (`pending`, `contemporary_hash`), and a history variable `applied` |
| `DidLog` | the abstract promise: walk along versions that legitimately supersede one another, then return or refuse | `Supersede`, `Return`, `Refuse` |
| `ResolverLog` | the refinement mapping, and the documentation's claims | - |
| `ResolverProofs`, `IdentifierLemmas`, `IdentifierProofs`, `InitialDocProofs`, `ReadDidProofs`, `OrderlyProofs`, `HonestProofs`, `ProgressProofs` | theorems | - |
| `ReadDid` | `examples/read_did.rs` with the chain, an honest controller, and others who pay to the addresses of beacons | `CallResolve`, `Request`, `RequestFails`, `Respond`; `Announce`, `Mine`, `Pay` |
| `Identifier`, `DidValue` | `identifier.rs`: the codec; the `Did` value and the ways to come by one, `zcap.rs` included | `FromStr`, `FromComponents`, `DereferenceRootCapability` |
| `Multikey` | `key.rs` | operators only |
| `DocumentFields` | JSON documents as functions from paths to what stands there, and `FieldsError`, the first error of `try_from` | operators only |
| `InitialDoc` | creation and reading of initial documents | `ParseIntermediate`, `FromExternalIntermediate`, `FromDid` |
| `MC*` | instances for TLC | - |

`Resolver` extends `DidDocument`; `ReadDid` runs the actions of `Resolver` as
they are and supplies the batches; `ResolverLog` instantiates `DidLog`;
`DidValue` extends `Identifier`; `InitialDoc` extends `DocumentFields`, which
extends `Multikey`, which extends `Identifier`. Operators commented "Slip"
are mutated forms of the definition that follows them. They are used by no
specification and only tell what each property is able to notice.

Abstractions, all of data:

- SHA-256 is collision free: a hash is the JSON value it was made of. It does not
  tell documents from updates, as `CanonicalHash::hash` does not: both parsers
  ignore members they do not know, so one JSON value may be a document and, for
  some update, what remains of it without its proof (`UnsecuredJson`). A
  signature records its key, body and proof options.
- A JSON document in `Resolver` is a model value with its parsed fields and the
  result of every patch. In `InitialDoc` it is a function from paths to leaves,
  with missing members, values of a wrong type and arrays up to `Items`. A
  string is what the code looks for in it: a DID, the placeholder, a Multikey,
  the type or the address of a beacon, or none of these; it mentions one of them
  at most, and a fragment after a DID is left out. `authentication` and the
  three members read in the same way are one member, `relationship`.
- A key is a point; `from_slice` may take several byte strings for one point,
  and `serialize` makes one of them.
- `json_patch`, `secp256k1`, `bech32_rust`, `bitcoin` addresses and the Esplora
  server are external. `json_patch::patch` rolls back a patch that does not
  apply, but a patched document that then fails to parse or to hash stays.
- A transaction is what `find_next_signals` reads of it. Panics (`todo!()`,
  `unwrap`, indexing) are a control state `Panicked` with the reason.
- `HashMap` and unstable sort orders are nondeterministic choices.
- Left out: the text of an identifier beyond prefix, validity and decoded
  bytes (letter case, checksum variant), the percent-encoding of a DID in a
  capability, URLs. Updates and proofs appear parsed:
  what their parsers reject is one kind of bad update.

## 3. What TLC checks

| Run | Question | Bounds |
|---|---|---|
| `faults` | faulty batches: types, chain of custody, who signed, panics | 28 kinds of transaction, up to 2 per round, 2 initial documents |
| `targets` | version and time targets, progress, termination | versions 1, 2, 3, 5 or none, times 2 or none, clocks 2 and 4, 7 announcements, up to 2 per round |
| `order` | forks and repetitions in every order, refinement of `DidLog` | up to 4 transactions per round out of 5, or out of two updates and a third that is a document but for its proof |
| `read_did` | the example's loop on a growing chain: does it end, is the version current, is an orderly history accepted and read to its end, what can an honest controller be refused for | 3 updates, 3 addresses, each update at one or all of its beacons, pages of 2, one payment at A, version 3 asked for or none, complete sidecar data or two entries of it missing or wrong, the clock at 2 or after everything |
| `identifier` | all 256 first bytes, every network, every way to come by a `Did` | 5 genesis strings: key, hash or wrong length |
| `initial_doc` | create and read | 130 drafts (every mix of mentions, beacons on all networks, keys and texts that are none, one member missing or wrong), 6 networks, sidecar documents altered in four places, without beacons or renamed; key-based DIDs on 8 networks and one that is no point |

Two transactions per round suffice for `faults` because a fault shows against
at most one earlier update of the same batch, and earlier rounds supply the
rest; three versions make a duplicate of a non-initial version, a gap and a
fork possible, and the beacons of d1, d2 and d3 force up to three rounds.
`order` needs four to place two duplicates around an update. It also holds the
one exception `NoForkAccepted` makes: in the batch u2, u2, u3, u3twin the second
u2 pushes the hash of d2 to the index of version 3, and u3twin, whose JSON is
that of d2 but for its proof, is confirmed as a duplicate of u3 although it says
something else. It changes nothing in the document, since a duplicate is not
applied.

The server's pages hold 25 transactions. Pages of two and one payment
(`PageSize`, `MaxPayments`) are the smallest numbers with which an announcement
can be pushed off the page while another stays on it, and without which
`PagesHold` would always be true. Where it is false `ReturnsCurrentVersion`
still says that the document is one the controller made. Three updates are what
it takes to rotate a key, to move all beacons and to move one back, so that a
later update is found at an address that was asked before.
`OrderlyHistoryAccepted` says for which histories no honest controller is
accused of publishing late: at each beacon an announcement stands above those of
all earlier updates since the beacon came in (`Orderly`), at most one update was
announced at several beacons (`OneRepeated`), and all is on the first page. Each
condition is needed: the runs contain histories that break it and are refused
(`read_timely` shows one; without `OneRepeated` the shift of `late_publishing`
below reaches the program, without `PagesHold` an old update is out of sight).
`HonestUpdatesPass` lists what is left to refuse an honest history for; the
sidecar data that lack one announcement and have another's update at a second
one (`Incomplete`) make both of its sidecar errors occur. `HonestHistoryRead`
puts the conditions together: where they hold (`Readily`), the one thing that
keeps a resolution from returning a current version is an answer with an
announcement from the mempool. The run holds such resolutions up to the last
version, repeated announcements included.
`Time` ends at 9 and never stops the chain: at most six transactions are mined.

`AlwaysAdvances` and `ProgramAdvances` are action properties about termination:
each step takes down a measure (below), so that no fairness is needed for what
they say. `OnlyKnownBeacons` holds throughout the run, whose documents have
singleton beacons; the part of `HonestUpdatesPass` about other types rests on the
theorem.

`Terminates` assumes weak fairness of the machine's steps: the owner is a plain
loop (`examples/read_did.rs:20-41`) that calls again as long as it is given
requests, and gets its answers. `Ends` does without the latter. The agent is made
without a timeout (`examples/read_did.rs:15`), so a request that the server
leaves unanswered blocks `run` or `read_json` for ever: `ReadSpec` assumes weak
fairness of what the program does by itself, `CallResolve` and `Respond`, and none
of `Request` and `RequestFails`. The property says that the program ends, or that
from some moment on it waits for one and the same round of requests (`Awaiting`).
`CHECK_DEADLOCK FALSE` is set since a resolution, a program and a creation
really end.

### Disagreements with the documentation

Runs that TLC ends with a counterexample, each for one sentence of a comment or
a test (quoted in `PROJECT.json`):

- `time_bound`: `version_time` is compared with the first signal of a batch
  only, so later updates of the batch are applied.
- `late_publishing`: each duplicate pushes the document's hash into
  `update_hash_history`, so later updates move away from the index where
  `confirm_duplicate` looks for them; seeing two updates twice each is
  reported as late publishing. (Forks are still refused: `NoForkAccepted`.)
- `read_timely`: with two beacons an honest history can be read with a gap, and
  is reported as published late. In the counterexample beacon A is asked before
  the second update is mined there, beacon B, which the first update brought in,
  after the third is: the batch of the second round skips a version. Nothing is
  announced twice and no page overflows.
- `time_missed`: the first signal of an answer is its newest. One announcement
  mined after the bound, which is the clock if no `version_time` is given, hides
  every older update of the answer, and an old version is returned as current.
- `components`: no validation in `DidComponents::new`, so a custom network the
  text has no room for becomes another network.
- `read_id`: sidecar validation accepts a document with another DID's id.

## 4. What is proved

`ResolverProofs` proves, for all values of the constants that satisfy the
named `ASSUME`s of `DidDocument` and `Resolver` (documents parse to fields of
the right types, a patch yields JSON or fails, options and batches are of their
types, the markers differ from values, and there are finitely many addresses, an
address being a text of bounded length, which only `ProgressProofs` uses):

- `TypeCorrect`, `ChainOfCustodyHolds`, `ControllersOnly`, `NoForkHolds`,
  `PanicHolds`, `TargetHolds`, `QueriesHold`: `Spec => []P` for the invariants of the runs;
- `LogRefined`: `Spec => Log!LogSpec`, step by step.

The argument. `TypeOK` is inductive: its clauses on the loop (collected
signals have valid updates) and on `fsm # "Err"` make the steps well defined.
`ChainOfCustody` needs in addition that inside the loop `contemporary_hash` is
the hash of the document in hand (`HashFresh`), which is what the comparison
of the source hash relies on; together they form `CustodyInv`. That every applied
update is signed with a key of the document it replaced
(`OnlyControllersChange`) follows from it: when an update is applied the document
in hand is the one its predecessor led to, and `Verified` says that the signature
was made with a key this document lists over this body (`VerifiedIsSigned`); the
applied updates and their predecessors do not change afterwards. `NoForkAccepted`
speaks of positions in a history that duplicates may have shifted. The
strengthening has two parts: `HistoryOrigin` says that whatever hash is
found in the history belongs to an applied update or to a version of the document
with fewer updates behind it than hashes in front of it, and
`HistoryCovers` that the history is at least as long as the number of applied
updates. The first makes a match mean "same content as the one applied", since a
body contains its version, or "an earlier document" (`ConfirmedIsApplied`);
the second leaves only version 1 without an index (`PanicHolds`). That hashes tell
JSON values apart, and JSON values what is read out of them, is `JsonAssumption`;
that no document is an update without its proof is not assumed. The refinement uses `CustodyInv`: an `ExtendDocument` step is
`Supersede`, ends of the machine are `Return` or `Refuse`, all else stutters.

`IdentifierProofs` proves `TextAgrees` and `OneText`: for every set of genesis
bytes and every length of them, text and components of a `Did` determine each
other. `Origin` is the invariant: a `Did` comes from a text that parsed or from
components. What is left are lemmas about the first byte (`IdentifierLemmas`): a version other than
1 is refused, so the upper nibble of an accepted byte is 0 (`HighNibbleZero`),
and `NetworkOf` and `NetworkNumber` are inverse on the numbers of one nibble
(`NetworkReadBack`, `NibbleWrittenBack`). Custom numbers above 15 have no
room and those below 6 stand for a named network: the exceptions
`TextAndComponentsAgree` makes, and the `components` run shows what becomes of
them.

`InitialDocProofs` proves `CreatedCanBeRead`, `AcceptedIsCreated`,
`OwnNetworkNeverPanics` and `GeneratedConforms` for every set of drafts,
networks and key-based DIDs and every length of arrays from three up. Assumed
is what TLC evaluates in the run: a draft is a tree of members, its hash is 32
bytes and it does not contain the DID made of its own hash (`DraftAssumption`,
which no one can violate on purpose short of inverting SHA-256), key-based DIDs
hold keys (`KeyAssumption`), and three beacons have room (`RoomAssumption`). The
invariant `DocInv` records where the values come from: a draft was parsed
without an error, a created document is `IntoInitial` of its draft, a verdict is
`ReadVerdict` of what was read. Then `FromInitial` undoes `IntoInitial` place
by place, since the text put in was nowhere before. That a parse succeeds is
shown from the first error being `"None"` exactly if every check is `"None"`
(the first failing index is a minimum, by well-foundedness of `<`): every
string that was replaced passes where the string before did.

`ReadDidProofs` proves `ReadTypeOK` and `ReturnsCurrentVersion` for every history,
every choice of beacons, every chain that fits into `Time`, any number of
payments and any page size, and shows that the program's runs are behaviours of
the resolver under arbitrary answers (`StepSpec` in `ResolverProofs`, of which
`Spec` is a special case), so that the safety properties above hold there too
(`ResolverDriven`), and the refinement of `DidLog` with them
(`ProgramImplementsLog`). Assumed are an honest controller (`HistoryAssumption`: each
update is valid for the version before it and announced at that version's
beacons), distinct transactions (`TxidAssumption`) and a nonempty page
(`PageAssumption`). The invariants, in the order in which they rest on one
another:

- `ReadTypeInv`: types, the answers of a round are to its own requests, and none is
  left over between rounds;
- `PrefixInv`: the updates mined are the first ones of the history;
- `HonestyInv`: a confirmed signal in an answer announces a mined update, with
  the block time it has on the chain; in the loop its hash fixes the update;
- `CurrentInv`: the document in hand is the version of the history that the
  version number says, and the chain has reached it;
- `CoverInv`: while the program looks for updates, every one mined before it
  began has an address at which it is mined and, if that address was asked in
  this round, is among the answers or still pending in the loop, and if it was
  asked in an earlier one, has been applied. This is what makes the cache of
  addresses sound: without it an old answer could hide an update. At the
  end, the update after the version in hand would have an address among the
  beacons just queried, and nothing pending: so there is none.

Since new blocks only move announcements away from the first page, `PagesHold`
and `WithinBound` need to be assumed of the last state alone (`PagesStay`).

`OrderlyProofs` proves `OrderlyHistoryAccepted` with no further assumption. The
loop calls an update late in three places. A source hash that differs is
excluded by `CurrentInv` and `HashFresh`. For a gap: a page is taken in one
request, so an orderly beacon's answer holds, with an announcement, those of all
earlier updates the document in hand lacks (`GapInv`), for which one has to know
that the addresses asked are beacons of versions held so far (`CacheInv`). For a
duplicate whose hash is not where `confirm_duplicate` looks: answers tell of each
announcement once (`ChainOnce`, `AnswersInv`), and an applied update was seen at
an address that will not show it again (`SpentInv`), so a duplicate was announced
at two addresses. The hash history is straight until the first duplicate, and
that update's hash stands below the shift (`HistoryShape`): with one such update
every duplicate is found. That the conditions are assumed of the last state alone
is sound because order, once lost, is not regained (`OrderStays`).

`HonestProofs` proves `HonestUpdatesPass` and `HonestHistoryRead`, again with no
further assumption. A collected update is a mined one (`HonestyInv`), one that is
next is `History[current_version_id]` (`NextIsVerified`), and it is verified in the
document in hand, which is that version (`CurrentInv`), so `RejectUpdate` is
impossible; a duplicate is looked up at an index that exists because no update of
the history makes version 1 (`NoVersionOne`). For the sidecar errors one has to go
back to the answer: the signal that yields no update is the announcement of a
mined update, so the sidecar data have a gap on the chain (`RejectedIsIncomplete`).
For the beacon types the documents asked are versions the chain had reached
(`KnownBeaconsAsked`), and a signal's own beacon type is that of the request
(`ServedInv`). Both conditions are about the last state; they are sound because
the sidecar data do not change while the chain only grows (`SidecarStays`,
`KnownBeaconsStay`). `HistoryRead` then combines `HonestPass`, `OrderlyAccepted`,
`CurrentVersionReturned` and the fact that a failure always has a reason
(`FailureSays`).

`ProgressProofs` proves as much of termination as is a matter of safety.
`AlwaysAdvances`: with each step the addresses never asked for become fewer, or
stay and the round is nearer its end, or both stay and the loop has fewer updates
pending. `ProgramAdvances`: of the program, the same, or a request of the round
is answered, or it fails for good; steps of the network change nothing of it. The
only steps that add calls to a round or updates to the loop are those that use up
addresses or calls (`StepAdvances`), and a request for no fresh address ends the
resolution. `MachineDescends` and `ProgramDescends` make a lexical order of it,
prove that it is well-founded (subsets of a finite set, natural numbers, and
finite sets of positions) and that what is left is always in its domain: no
behaviour has infinitely many steps of the resolver, or of the program, whatever
it is answered and however the chain grows.

Only model-checked, and out of reach of the provers: that such a behaviour does
not halt on the way (`Terminates`, `Ends`). This needs that a step is enabled
until the end, which is a statement with `ENABLED`, and the rule that weak
fairness then makes it happen. Also only model-checked are all findings of
section 3, which are counterexamples.

## 5. Not modelled

- `Document::update` and `deactivate`: both are `todo!()`.
- `CryptoSuite::create_proof`: no caller, and it panics on its placeholder key.
- `derive_root_capability`: no caller.
- A copy of the parsed fields that differs from the document: `apply_update` parses
  them anew after each patch, and the model takes them to be a function of the JSON.
- Who could see a half-applied document: `resolve` drops it with the error.
- `from_file`, `to_file`: one read or write each, no state.
- `error.rs`: the formatting of errors as problem details.
- `SecretKey::generate`: a random number.
- `crates/smt-sim`: a benchmark the library does not use.
- Parsing of `update.rs` and `zcap/proof.rs` member by member: an update that does
  not parse never reaches the resolver, since options hold parsed updates.

## 6. Plan

Done, in this order: `DidDocument`, `Resolver`, `DidLog`/`ResolverLog`,
`ResolverProofs`, `ReadDid`, `Identifier`/`DidValue`, `InitialDoc`,
`IdentifierProofs`, pages and payments in `ReadDid`, `Multikey`,
`DocumentFields`, dereferencing in `DidValue`, `InitialDocProofs`, `ReadDidProofs`,
`OrderlyProofs`, `HonestProofs`, `ProgressProofs`.

All invariants and action properties the passing runs check are proved; the two
liveness properties are proved up to fairness. What is left follows the code:
`Document::update` and `deactivate` once they are written, the beacon types that
are still `todo!()`, and further pages of an address.
