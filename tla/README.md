# A TLA+ verification of 6529Stream

6529Stream is an NFT protocol: Solidity contracts under `smart-contracts/`, release, evidence and
deployment tooling under `tools/`, deployment scripts under `script/`, a TypeScript client under
`packages/`. This directory models the contracts that decide who owns what and who is owed what, and
the programs that decide what is deployed, recorded and released; it checks them with TLC on small
instances, and proves with TLAPS, for every size, every safety property the passing runs check.

## 1. Inventory

A contract call is a transaction: it runs alone and either commits or leaves no trace. What is hard
is therefore not threads but (a) the order in which independent parties' transactions arrive, (b) the
windows in which a transaction hands control to another contract and other code runs in the middle of
it, (c) answers that arrive late, twice or never (the randomness oracle), (d) deadlines compared with
a clock that moves between a check and a use, and (e) counters and totals that must stay equal to the
things they count through long sequences of legal calls. The deployment executor is an ordinary process
and can also die between any two effects.

The Python tools are command-line programs that meet in one working tree. Each reads files, computes, and
prints a verdict or writes files; what is hard is that (f) people, compilers and other tools change the
files between two of their readings, also within one run, (g) one tool's output holds digests of files that
others produced, so their order matters and a stale file can look current, (h) what a release rests on is the
conjunction of many checkers, each of which reads only some of the fields.

| Component | State | Operations | Talks to | What makes it correct |
|---|---|---|---|---|
| `StreamEnglishAuctionHouse` | auctions, refund credits, totals, used nonces, pause, signer epoch | create, bid, redirect, settle, claim, cancel, withdraw, pause, rotate signer | mint manager, Core (token custody), split wallets, bidders | pays each wei out once, keeps tokens until delivery, exits survive a pause |
| `StreamEntropyCoordinator` | per-collection policy, subjects, requests, fee credits, pending count | configure, register, request, fulfil, mark stale / failed, notify, claim credit | Core, provider adapter | one draw per subject, never rerolled; late answers and timeouts agree |
| `StreamEntropyProviderVRF` | result per oracle request | request, oracle callback, retry delivery | Chainlink VRF, coordinator | an answer is stored before it is delivered and delivered at most once |
| `StreamCore` | collections, token identities, live supply, the pending prepared mint, satellite pointers, gas parameters | create / pause / close / freeze collection, mint, prepare, complete, abort, burn, replace or freeze a pointer | mint manager, entropy coordinator, receivers, governance executor | ids and serials stay dense, supply never exceeds the cap, a prepared mint is resolved exactly once |
| `StreamMintManager`, `StreamMintLedger`, gate validator, operation identity | phases, executors, policy hashes and their grace, used authorizations and nullifiers, counters | configure phase, change executor, pause, execute mint, register policy, consume | Core, sale adapters | each authorization mints once, counters respect caps, an old policy dies with its grace |
| Sale adapters (`StreamFixedPriceSaleAdapter`, `StreamERC20FixedPriceSaleAdapter`) | used intents, totals | buy | mint manager, settlement | payment and mint are one transaction |
| `StreamSplitWallet`, `StreamSplitFactory` | shares, released totals per asset | initialise, release, sync | payers, payees | never releases more than it received; rounding dust stays inside |
| `StreamPrimarySaleSettlement`, `StreamRevenueResolver`, `StreamRoyaltyResolver`, asset policy, payment intents, curators pool | profiles, assignments, credits | settle, assign, resolve | wallets, adapters | money goes to the profile bound to the sale |
| `StreamGovernanceExecutor` with scheduling, policy, action policy, evidence, bootstrap | scheduled actions, live terminal freezes, guardians, proposers, pending count | schedule, execute, cancel, veto, expire, rotate | every governed contract | nothing runs before its delay, after its expiry, after a veto, or twice |
| `StreamRoleRegistry`, `StreamModuleRegistry`, `StreamSystemManifest`, `StreamRecordFamilyRegistry`, parameter hosts | registries with revisions and terminal freezes | governed updates | executor, Core | revisions only grow; frozen stays frozen |
| `StreamArtworkFinalityRegistry`, metadata router / renderer, dependency registry, preservation, artist registries | declared finality, content records | declare, recover, render | Core, entropy | finality is irreversible |
| Legacy contracts (`StreamDrops`, `StreamMinter`, `AuctionContract`, randomizers) | superseded by the above | | | |
| Deployment executor (`tools/deployment/execute_canonical_deployment_plan.py`) | lock, journals, receipts | run a plan, retry it | node RPC, forge, files | no deployment is sent twice; receipts tell the truth |
| Candidate audit and plan materializer (`check_canonical_deployment_candidate.py`, `materialize_canonical_deployment_plan.py`) | candidate, its evidence, release build, plan file | audit, materialise, revalidate | executor, forge output | a plan follows one complete candidate and one build; what was deployed is what was planned |
| Deployment records (broadcast manifest input, manifest, address books, on-chain verification, artifact export, the TypeScript client generated from it) | broadcast, manifest, book, report, exported compilation, generated client | generate, `--check`, verify, publish, render | Foundry output, chain | accepted records describe one deployment and what is on chain; a client's files are of one compilation |
| Evidence artifact checkers (21 kinds of Markdown evidence) | a document and the files it names | fill in, review, edit, check | release gate | "reviewed" means complete, pinned files are the ones reviewed |
| Evidence records (7 kinds of JSON record) and their listing | a record, its files, editions of the release manifest | fill in, edit, list, check | manifest generators | the manifest lists nothing unfinished for production |
| Release tail (risk register, notes, manifest, bytecode proof, lockfile, checksums, tool call policy) and signed-tag gate | the generated files, the commit, the tag, the signature evidence | generate, `--check`, commit, sign, verify | git, each other through files | what the checks accept is current and is what was signed |
| Release gate (`check_release_mode.py`, the status manifest, envelopes, reports, Slither baseline) | rows, envelopes, artifacts, policy inputs, the date | submit, generate, check, release | evidence checkers, CI | a release rests on reviewed, unaltered, unexpired evidence |
| Other Python tooling (`tools/protocol`, documentation), deployment scripts | none of their own | check, generate | files | verdicts of one reading of the tree |

The hazards these parts are exposed to are listed, each at its line, in `PROJECT.json`.

## 2. Plan

| # | Step | State |
|---|---|---|
| 1 | `AuctionHouse`: custody of tokens and ether | modelled, checked, seven theorems |
| 2 | `EntropyCoordinator`, `EntropyProviderVRF`, `RandomDraw`, composed in `Entropy` | modelled, checked, six theorems, refinement proved |
| 3 | `StreamCore`: the mint life cycle with its callback windows, the prepared mint, governed settings | modelled, checked, nine theorems |
| 4 | `DeploymentExecutor`: the journalled deployment run and its retries | modelled for external chains, checked, four theorems |
| 5 | `DeploymentPlan`: from a candidate to deployed code | modelled, checked, two theorems |
| 6 | `DeploymentRecords`, which extends `CompilationExport`: from a broadcast to records and verification, and from a compilation to its export and the client | modelled except for CREATE2 and data records, checked, three theorems |
| 7 | `EvidenceArtifacts`, `EvidenceRecords`: what accepted evidence guarantees | modelled, checked, four theorems on artifacts and two on records |
| 8 | `ReleaseBundle`: the release tail and the signed tag | modelled, checked, three theorems |
| 9 | `ReleaseGate`: rows, envelopes, reports, waivers, the gate | modelled, checked, four theorems |
| 10 | `MintLedger`, `MintManager`: policy grace, replay protection, counters | open |
| 11 | `SplitWallet` with an abstract specification of proportional release | open |
| 12 | `GovernanceExecutor`: life of a scheduled action, veto, index of live terminal freezes | open |
| 13 | Compositions: auction house on Core, mint manager on Core and ledger | open |
| 14 | Registries, finality, sale adapters, the executor's ephemeral mode | open |

Theorems still wanted come with steps 10 to 13: the caps of the mint ledger, proportional release as a refinement
of an abstract wallet, and a composition of the auction house with Core in which custody is Core's ownership instead of an assumption.

## 3. Conventions

* A module `X` has the state, the actions and the properties; `MCX` only gives values to constants;
  `X_proofs` has the theorems. Three proof modules serve two modules each: `Evidence_proofs` (artifacts and
  records), `Release_proofs` (`ReleaseBundle` and `ReleaseGate`) and `Deployment_proofs` (`DeploymentExecutor`, and
  `DeploymentRecords` with the `CompilationExport` it extends); so that the two can be extended together the second of each pair has names like `GateInit`,
  `RecordsNext`, `DeploymentSpec`. `FiniteSums` defines the sums the books are stated with and `FiniteSums_proofs`
  what is true of them. Definitions keep the names of the functions they translate.
* A Solidity call that reverts is the absence of a step, so guards are the code's conditions. Where a
  function hands control to another contract it is cut in two: the state in between names the callee
  (`call` in the auction house, `frame` in Core) and every action the reentrancy guards allow may happen
  there. Invariants therefore also speak of what a callee can observe.
* A Python tool is cut where it reads the tree again. A checker that reads it once is a predicate of the state,
  and a property "whenever the checkers accept, ..." is an invariant over every tree people can edit their way to.
  The digest of a file is its content, so two contents never collide; a field is abstracted to its class (a
  placeholder, a final value, a confirmation, a value that is compared with another file).
* Every constant called `Max...` is a bound. Some stand for a real maximum of the code, shrunk so that
  its overflow guard is exercised (`MaxTimestamp` for `uint64`, `MaxUint`, `MaxRevision`,
  `MaxCollectionId` for Core's counters); the others only keep TLC's search finite. The proofs hold for
  every value of both.
* A definition named `X_Something` under a `Mutant` comment is a plausible mistake in `X`. Replacing `X`
  by it makes TLC find the property that `PROJECT.json` pairs with it violated, which shows that the
  property depends on the code it is about.
* Several properties are conjunctions of named parts (`MoneyConserved`, `BooksExact`, `AcceptedRecordsAreSound`,
  `BundleIsCurrent`, `GeneratedFilesTellTheGate`). The type invariants are not repeated in the runs of the four
  modules for which they are theorems.

## 4. Auction house

`AuctionHouse` follows `StreamEnglishAuctionHouse.sol` function by function: `createAuction`, `bid`,
`setDeliveryRecipient`, the three outcomes of `settle` (with a bid, without one towards a plain account,
without one towards a contract), `claimNoBidNFT`, `cancel`, `withdrawRefund`, `setPaused`,
`setPlatformSigner`, `cancelAuthorization`. A settlement with a bid has two windows, the payment to the split
wallet and the token's delivery. Signed terms are members of `Authorizations`, each with the platform key
that signed it; recovering a signer is comparing that key. The mint inside `createAuction` is external and
atomic. Anybody can force ether into the house (`ForceEther`) and push it a token it did not ask for.
`netPaid` is a history variable: what each account has put in minus what it got back.

**Checked** (`auction`): two auctions, three authorizations of which two share a nonce and one needs a rotated
key, one plain account and one contract, bids up to 3 wei with increments of 50 %, 0.01 % (which rounds to zero and
is rounded up) and 100 %, the clock at 0, 1 and 2 with auctions that end at 1 or 2. This allows a bid before the end,
one inside the extension window and a settlement after it; an extension past `MaxTimestamp` is refused as one past
`uint64` would be. Two accounts allow outbidding, self-dealing and a recipient that refuses.
The books: `Solvent` and `MoneyConserved`, which is `OwedMatchesClaims` (totals are the sums they are named for),
`BidderConservation` (what an account paid in and has not had back is its refund credit plus the bids it leads or won
with) and `ProceedsPaidOnce`. The tokens: `Custody`. The protocol: `AuthorizationSingleUse`.

**Liveness** (same run): `RefundsArePaid`, `SettlementCompletes`. Fairness is what
a chain gives: time advances, a transaction that has begun ends, and a party that is owed something keeps
submitting its exit, towards an account without code. That last restriction is the code's own limit: a winner
who directs the token to a contract that refuses it withholds the artist's proceeds, and the property
says so by excluding it. The fairness contradicts no safety property: it only removes infinite idling.

**Proved.** `TypeCorrect` already says that no subtraction goes below zero. `MoneyIsConserved` is the full set of books, and
the invariant behind it is `MoneyInv`: each total is the sum over *all* tokens (or accounts, or wallets) of a table with a zero where
an auction does not count. The properties sum over sets of auctions that change from step to step; over a fixed set a step
changes one entry, and a sum changes by the difference. `RecordsInv` is what the tables rest on: a bid names its bidder, a listed
auction its wallet, an unlisted token has no record. `FiniteSums_proofs` shows that `SumOver`, which TLC evaluates by picking
elements in some order, does not depend on that order, grows by what is added and is never negative, by induction over finite sets: a set that
breaks the claim would have a smallest subset that does. `AlwaysSolvent` and `ClaimsAlwaysCovered` (`ClaimsCovered`: no open bid or
credit exceeds its total, so no checked subtraction can block an exit) follow. `TokensInCustody` needs that a token in flight is
exactly the one named by `call`. `AuthorizationsSingleUse`: a listed auction is an accepted artist's, and the nonces of an
artist are never given back. `UnsoldOutcomes` (a cancelled auction never had a bid; a pending claim belongs to the artist of an
ended auction without bids) is proved and not in a run. The assumptions are those of the module: finitely many accounts, tokens and
split wallets, and typed authorizations.

## 5. Entropy

`EntropyCoordinator` and `EntropyProviderVRF` are two contracts that know each other only by their calls;
`Entropy` owns the variables of both, the blocks, Core's view of a token (minted, burned, frozen:
over-approximated, any order Core could produce and more) and the oracle. A request is sent by the coordinator
to an adapter, which gets an id from the oracle; the oracle may answer at any later time, repeatedly or
never; the adapter stores the first answer and tries to deliver it, and the delivery may fail. Meanwhile the
authority may declare the request stale after its timeout, a proven failure may void it, the provider may be revoked,
a token may be burned. Calls between the contracts are atomic because both sides hold a reentrancy guard.
Providers outside `VRFProviders` are adapters about which nothing is known: they call back with anything, and
answer `providerResultStatus` with any key, any `received` and any status, a different answer each time. The coordinator
believes them (`StreamEntropyCoordinator.sol:496-498`, `507-512`), so such an adapter can keep its own requests open forever by
claiming to hold an answer, or by answering for another key. Anybody can force ether into the coordinator (`ForceEther`, counted in `forced`). A provider whose configuration hash drifted cannot be requested; that is a request that does not happen.

`RandomDraw` is the promise: a subject is registered, then committed to everything its seed depends on, then
answered, and ends once, `final` or `void`; an answer that exists is neither dropped nor drawn again. `DrawnOnce` is the refinement,
checked by TLC and proved as `ImplementsRandomDraw`.

**Checked** (`entropy`): a token and a scope, both kinds of adapter, one of which charges a wei, two oracle ids, two salts
so that a changed policy would show, blocks 0 to 2 so that a request expires after one block, a wei forced into the coordinator. Only the
authority calls in this instance (no other requesters, `PublicChoices = {FALSE}`): the guards on the caller are the only
place where it matters who asks, and the proofs have any callers. `DrawnOnce` is the refinement,
`OneRequestPerSubject`, `AdapterAgrees`, and `BooksExact` = `PendingCountExact` (the counter is the number of open requests),
`RefreshedOnce` and `FeeCreditsBacked` (the balance is what payers can claim plus what was forced in, which no one can claim). No symmetry is used because the run also checks liveness.

**Liveness** (same run): `RequestsEnd`, of requests to VRF adapters, from fairness of blocks, of the permissionless retries, and of the
authority for expired requests to such adapters (`AsksVRF`). The oracle is not assumed to answer. Of requests to other adapters it says nothing, since
an adapter that lies keeps them open, as above. A request that would only expire after `MaxBlock`,
where the clock stops, is left aside, and so is one whose revoked provider holds the answer: that answer
can neither be delivered nor timed out until the authority takes the revocation back.

**Proved.** The inductive invariant is in parts: `PolicyInv` (a locked policy stays complete), `SubjectInv` and
`RequestInv` (a subject's status matches its only request), `AdapterInv` (the adapter's record matches the
coordinator's), `SeedInv` (a seed is the one derived from the stored answer). The refinement needs all of
them: a fulfilment maps to the abstract draw only if the request it names is the subject's own and its
inputs are those committed. `CountExact` uses finite-set cardinality.
`BooksAreExact` adds the two other books. `RefreshedOnce` needs to follow one request at a time: the event of an ended token
request is either sent or owed, and only a notification moves it from one to the other. `FeeCreditsBacked` is a sum over
the callers, who are assumed to be finitely many, kept by the lemmas of `FiniteSums_proofs`.

## 6. Stream Core

`StreamCore` has collections, direct and prepared mints, aborts, burns, transfers, collection settings and
freezing, satellite pointers and gas parameters. A completing mint leaves through two windows, first the entropy
coordinator (identity allocated, no owner yet), then the receiver (owner set, completion not closed).
A governed function asks the executor whether it is running an action of the right class for exactly this
transition. Which transitions governance approves is its own choice, so the approved value is arbitrary
and only the class is kept; likewise the module registry may find any contract of the right kind
eligible, and a contract may lose its code at any time. Block numbers recorded "at" an event are booleans. Who may
transfer a token is ERC-721's business; here anybody may move any token, which only adds behaviours.

**Checked** (`core`): one collection, up to three tokens, two managers, two coordinators, contracts that die, a
receiver with code, one governed gas parameter and one operation of the executor at a time. `DenseAllocation`, `SupplyExact`, `SupplyCapped`,
`AdmissionStillValid`, `CoordinatorBound`, `RecoveryOpen`, `FrozenIsFinal`. How several collections share the
id counter is left to the theorem `AllocationDense`.
Three tokens and two revisions let an abort follow an allocation that followed a burn, and let every counter reach
its shrunk maximum. Managers, and coordinators, are interchangeable, which makes the symmetry sound for these safety
properties. Deadlock is not an error here: a system whose collections are frozen and whose counters are exhausted
may stop. `RecoveryOpen`: while a prepared mint is pending, the manager pointer is neither frozen nor at its last revision,
the module registry lives and another live manager exists, aborting or replacing the manager is allowed: the conditions of one of the two
calls hold, and nothing but assignments follows them.

**Proved.** `Inductive` is one invariant for all of them, in parts (`PendingInv`, `FrameInv`, `IdentityInv`, `SerialInv`,
`MintedInv`, `CountInv`). Density needs, besides itself, that the pending prepared
token is the last one allocated, globally and in its collection (otherwise the abort's decrements would open
a hole), and that at most one mint is between allocation and completion. Supply needs the exact census of
token states per collection. `AdmissionHolds` is why completing a prepared mint without a second look at
status, freeze and cap is right: every governed function that could invalidate them is refused meanwhile.
`RecoveryStaysOpen` takes the live manager that did not prepare the token: if it is installed it may abort, and if not it may be
installed, because the pointer of the manager is the one a pending mint leaves open.
`FreezeIsFinal` and `LivesMoveForward` are action properties proved from the same invariant.
`LivesMoveForward` is not in a run.

## 7. Deployment executor

`DeploymentExecutor` models runs of `tools/deployment/execute_canonical_deployment_plan.py` against an external
chain. A run is a program counter over the points between two effects on the outside (an RPC read, a file
replaced, forge started); its files are a journal per session, a lock directory per clone and a receipt per output
path. At each point the run can raise (`Fail`: the handler rewrites the journal), be interrupted (`Interrupt`: only the
`finally` block runs) or die (`Crash`: nothing runs, and a forge it had started may still send). A dead run's lock is
removed by an operator. The chain is the sender's transactions by nonce, mined one per block, with reorganisations,
evictions and other wallets of the same account; block identities are never reused. What `verify_chain_deployment`
compares (addresses, bytecode, receipts, block hashes) is abstracted to "this run's transaction for this deployment,
successful, at this nonce, in this block". Journals are also written through an in-memory copy; a write that fails
leaves the same states as one that succeeds and is followed by a failure, or as an interrupt.

**Checked** (`deployment`): two runs of a v1 plan with two deployments, in one clone and writing to one path, three transactions, three
blocks: `SentOnce`, `ReceiptTruthful`, `ReceiptJournaled`, `LocksReleased`. The account's other wallets (a run in
another clone is one of them, since locks are local to a clone) take nonces at any moment. With two runs every pair of roles (dead and
retrying, holder and refused, winner and loser of a nonce or of a path) occurs; a third adds nothing to an invariant that relates at most two.
What a v2 plan adds, addresses derived from a fixed nonce, is the subject of `deployment_plan` and is covered by the proofs here.
A run may stop anywhere, so deadlock is not checked. `LocksReleased` assumes that a process that is not
killed goes on, except while it waits for forge, which the code does without a timeout; everything else it waits for
(RPC, confirmations) has one.

Two behaviours the model makes visible. A run that fails after announcing its first deployment in the journal but before
starting forge closes with `failed_preflight` and a non-null active deployment, so retries are refused although nothing
was sent: the safe direction. And the lock is taken outside every `try`: an error while `owner.json` is written, or an
interrupt before the second `try`, leaves it in place (part of `Crash` in the model); the next run's message
names the possibility.

**Proved.** `NoDoubleSend`: `SentOnce` is preserved by a broadcast only if nobody else has sent, and that is what the
write-ahead journal is for: `AheadInv` (the journal is committed before forge is started, and stays so through every way
out), `ExclusiveInv` (of the runs of one plan in one clone only one journal is ever committed, and no other run is past
the journal check), `LockInv` (a run in the locked part owns its clone's lock, whoever else died) and
`SentInv` (what a run has sent lies behind its index). `LockInv` is needed at one point: a run may commit only because no
rival is in preflight at the same time.
`ReceiptsAreTrue` and `JournalsAgreeWithReceipts` rest on `RecInv`: `ProgressInv` (at each point of a run its index and its journal's
count agree, and in the final sweep every deployment it has passed stands on the tip it holds), `GenuineInv` (what a receipt says stands on
its tip, and its run's journal is fully verified and past the steps that reset it) and `AnnouncedInv` (a run that has published, or announces success,
owns the receipt at its path). A reorganisation takes back what was verified; that is harmless because a receipt speaks of the chain that ends in its tip.
An output path lies inside one clone; without that assumption two clones could replace each other's receipts.

## 8. From a candidate to deployed code

`DeploymentPlan` has three programs. The *audit* and the *materializer* are one state machine over the points at which
they read the tree: `ReadCandidate` (the candidate, and for v2 its audit), `validate_complete_v2_candidate` (the second
snapshot), `BindBuild` (the receipt of the release build and the artifacts), `write_output`. The *executor* materialises the
plan again before it starts (`Main`, `Stage`), after the simulation (`Simulate`, `assert_authority_unchanged`) and after each
deployment, and works from staged copies (`PrepareNext`, `RunForge`, `Verify`). Between any two of them people edit sources, configuration, profile
and risk register, rebuild, retain evidence of another candidate, overwrite the plan file or the staged copies, or send transactions
from the same account. Initcode is a compiled artifact with its links and arguments, runtime code is the artifact
with its links and immutables, an address is the nonce it was created at.

**Checked** (`deployment_plan`): a library and two contracts, of which the second links the library and is given the first as an argument. `MCDrafts` has one candidate
for each mistake the code looks for (21), two edits anywhere, at most four transactions. One mistake per candidate is enough because
each check is a separate refusal; two edits let a value be changed and put back, or two files move together.
`PlansStandOnTheirAuthority`: whatever was edited while it was made, a v2 plan that is handed out or executed comes from one
complete, reviewed, observed candidate bound to evidence of itself, and all its code from the build that candidate names.
`DeployedAsPlanned`: an execution that ended left the plan's code at the plan's addresses, linked to libraries of the same run.

**Proved.** `PlansStand` and `ExecutionsDeployThePlan`, for any libraries, contracts and candidates, from `PInv`. `MatInv` says what the
steps of a materialization have established so far of the candidate it holds *in memory*, which is why edits of the tree between two readings do not
matter; `MadeIsSound` that the plan built from it is `Sound` (its rows are what was audited, built from the release build and linked to
libraries before them). `ExecInv` counts: the first `count` rows of the plan have `Landed` at consecutive nonces of the chain, which only
grows, and a v2 run past the simulation has its planned addresses. The induction over rows is the step from `count` to
`count + 1`. Assumed: libraries and instances are sequences without repetition, there is at least one
instance, links go to libraries and bindings to instances.

Remarks. A complete v2 candidate must have every row `on_chain.status = "observed"`, while the executor requires the same CREATE addresses to be
still free, so what was observed cannot be that deployment. The constructor arguments of a v2 row are bound by their hash and its references by their bindings; that the two agree
is not compared by the code and not claimed here. A v1 plan leaves link addresses free.

## 9. Records of a deployment

`DeploymentRecords` follows a deployment through `generate_broadcast_manifest_input.py`, `generate_deployment_manifest.py`,
`generate_address_books.py` and `verify_current_stack_deployment.py`. Each generator is an operator of
the files it reads, used twice: to write its output and, with `--check`, to compare it. Two of them hash a file after they have parsed it; a file
exchanged in between leaves an output that their check, which does both again, refuses, so this is one reading here. The verifier has
no check mode and is cut where it reads again: `VerifyBroadcast` compares the broadcast with the chain
(`verify_current_stack_deployment.py:408`), `WriteReport` takes the digest of whatever the file is by then (`:410`), and in between anything may happen,
the verifier's death included. `Deploy` is the external Foundry run: creations and one call in
an order, of which one may fail on chain and one may be listed with the hash of its simulation. Transactions are numbered; the hash of a
simulation and the address of a contract made inside a call are the negatives of these numbers, so they never meet a real one.

`CompilationExport` has the two programs that carry the compilation to the client. The exporter (`generate_current_stack_artifacts.py`) reads the
artifacts, later the build-infos and the sources, and publishes file after file over what is there, the manifest last; it may be killed after
any of them and leave a mixture with the previous export (a truncated file is like one whose digest is wrong). The client's generator
(`packages/stream-client/scripts/generate.mjs`) reads the manifest, then the compiler input and the artifacts one by one, comparing digests, and writes three
files one by one; it may be killed too, and the exporter may run meanwhile. `client_checked` is its `--check`. `Compile` is forge: it may recompile only some
contracts, also while the exporter reads, and keeps old build-infos beside new ones.

**Checked** (`deployment_records`): two contracts, a library one of them links, a contract made by a call; two deployments,
two editions of the sources, one wrong edit of the template, the broadcast or a record. Two deployments make every file
of the first stale with respect to the second; one wrong edit is what the check of the next file must notice.
`AcceptedBookFollowsTheBroadcast`: when the three checks pass, the address book gives the addresses of the broadcast, the
constructor arguments name siblings of the same deployment, and the hashes are the release baseline's. `VerifiedMeansOnChain`: a record
of the bytecode report is a contract on chain it was compiled as, linked to a library that is reported too; and where the report has a record of everything the
broadcast created and the accepted book is of an edition it was made with, the book's addresses hold the book's code. It speaks of the records and not of
the digest in the report, because that may name a broadcast nobody verified (section 13). `ExportIsOneCompilation`: whatever mixture a killed or running
exporter leaves, each file of the client holds ABIs of one compilation and its provenance names the compiler input they come from; an export all of
whose digests are right is one compilation; a client that passes its check is one compilation in all its files.
The constraint `OneHalf` keeps the run small: the export and the records share only `source` and `out`, which neither of them changes, so each half is
explored while the other is as it was in the beginning, and no property of one half reads the other's files.

**Proved.** `BooksFollowTheBroadcast` holds whatever is on disk: it follows from what the checks compare. The other two speak of the past and need
`DeploymentInv`. Of the ledger: it only grows (`CodeStays`); of the verifier: the records it holds in memory, and those of a report once written, are true
(`ReportTruthful`), whatever the broadcast has become since. The step that matters is `VerifiedIsTrue`: code that compares equal was compiled as that contract in that edition
(`ComparedCode`), with its link filled in by a library that has a record of its own. `ExportsAreOneCompilation` rests on `ExportInv`: what the exporter has yet to write
is of one compilation (`ExporterInv`), and so is what any manifest lists; what the client's generator has read so far agrees with the manifest it
holds, and therefore with one compilation, though the directory may not (`RenderInv`, `ClientInv`). Without the comparison of *every* digest the step for `render`
fails, as the mutant of this property shows. Assumed: contracts, library and inner contract have different names, and every order lists each of them.

Remarks. The verifier reads by block number and not by hash, so a reorganisation between its reads is outside the model. The initcode of a
contract created by a call is supplied by the caller, and the report does not prove it. A deployment that did succeed is refused
when a call comes first and its own hash is that of the simulation: the safe direction.

## 10. Evidence artifacts and evidence records

`EvidenceArtifacts` has the 21 Markdown checkers, each with its definitions (`..._fields`, `..._review_state`, `..._artifact`) built from
shared pieces, because the checkers repeat the same control with variations and the variations are what can go wrong. The state is one document and the
files it names. An operator fills it in (`FillIn`), then the document or a file is edited; a checker is a predicate.

**Checked** (`evidence_artifacts`): every kind, every context of the drills (paths, failure modes, endings, epochs), two edits, eleven contents of a
retained file (absent, a link, another chain, another address, one contract missing, two at one address, unsound, another release, a
secret). Two edits are enough to make a document pass by one mistake and hide another, and to replace two files alike. `ReviewedIsComplete`: "reviewed" means the
same for every kind: nothing open, nothing denied, no template notice. `PinnedFilesHold`: under an unchanged document a pinned file cannot be exchanged
between two accepting checks. `OneDeployment`: manifest, book, explorer export and bytecode proof give each contract one address on one
chain. `DrillsEndSafely`: a drill that claims completion tells a recovery that the contracts allow.

**Proved.** All four, for any contents, contexts and number of edits. Three follow from the checkers alone: `EveryCheckerAsks`
is what all 21 have in common, with a case per checker: one that left it out would break the proof there. `EInv` (documents keep the form of their kind) is what these lemmas read the
document with. `PinsHold` is an action property: digests are of contents, and the document is unchanged.

`EvidenceRecords` has the seven JSON records and the release manifest that lists them. `Catalogue` runs the descriptor generators and
the release manifest generator in the Makefile's order; `history` is the editions of the manifest ever written.
Because a record may quote the digest of the manifest that lists it, editions are numbered by what they list. A template's text
is not edited before it is filled in.

**Checked** (`evidence_records`): all seven kinds, fork and mainnet records besides the local template, two edits, files exchanged
at any time. `ProductionListingIsFinished`: every edition ever written lists for production only finished records, for
the kinds the generator validates: it copies deployment ceremonies and randomizer operations without validation, and an admin
template may name mainnet, so these are left out. `AcceptedRecordsAreSound` is four claims: `ReviewedIsFilledIn` (except for what `Unread` lists: five free
texts the signing checker never reads, `custody_reference`, `signer_service`, `signer_epoch_source`, `owner`, `approval_reference`, the signature of a
drop that is not yet signed, custody drills, which block production and not review, and the references of a descriptor), `AdaptersAgree`
(manifest and book name the same randomizer adapters although nothing compares them), `SignatureIsOfThePayload`, and `CurrentManifestIsNotPinned`
(no record can give the digest of the manifest that lists it; a reviewed admin record, as `test_admin_ceremony_evidence.py:74` builds
one, is therefore never accepted next to a current manifest).

**Proved.** Both, from `RecordsInv`, which has two parts beside the types. Every record listed by an edition was accepted by its checker when the
edition was written (`LaterEditions`, for the kinds the generator validates), and the digest of a manifest in a record is always that of an
earlier edition (`PinBefore`: nobody can write down the digest of what is not there yet), so no manifest lists a record with its own digest.
The two sections of a checker that compare adapters with manifest and with book are joined in `AdaptersAgree` through the file both quote. Assumed: every
role has a content that exists, a manifest starts as edition 1, and contents are files `Facts` knows.

## 11. Release tail and signed tag

`ReleaseBundle` has the generators in the order of `TailOrder` (risk register, notes, manifest, bytecode proof, lockfile,
checksums), the tool call policy, their check modes (`bundle_check`), and the gate for signed tags. A generator reads its inputs in one step, builds,
and writes. `Path.write_text` is two steps, because a run killed in between leaves an empty file; the checksums and the
policy replace theirs atomically, one after the other. The checksum generator alone is cut while it reads: it lists its inputs, snapshots the
release artifacts, then the tools, and compares the inventory's reference again. The policy of a tool is the closure of its
imports with the calls and values it uses; the grammar of Python it analyses is abstracted to
the verdicts on a tool's text (`Facts`). Developers edit reviewed inputs at any moment; they commit, check out and sign between passes, and only trees whose
bundle check passes are committed, as CI demands (`ci.yml:433-439`).

**Checked** (`release_bundle`): nine patches (one file, or several together) of every kind of source, one of them at any moment of any run; one generator run out
of order or killed, before anything is signed (afterwards it leaves a dirty tree or the committed one); one commit. One edit is enough for the reads of one run to straddle it; more only repeat it,
because every property speaks of undisturbed or accepted trees. `BundleIsCurrent`: the bundle covers what its policy describes and what the checks accept is what
the generators would write. `TwoPassesSettle`: after two undisturbed passes another changes nothing. `AcceptedBundleWasSigned`: a
tag accepted in a clean tree carries the bundle that was signed. A system may stop between passes, so deadlock is not checked.

**Proved.** `BundleIsOneRelease`, `TwoPassesSettleTheTail`, `AcceptedTagsSignTheirBundle`, from `BInv`. A tree between two writes of a generator is
inconsistent, so the invariant speaks of `Finished`, the tree once the pending writes are made. `PassInv` is a table, `Settling(n, .)`: what
is current after the n-th step of two undisturbed passes, where the readiness the notes read is settled by the first pass and the notes by the second.
`HistoryInv` keeps for commits what `TreeInv` says of the tree (its checksum text covers the policy of the very tools it covers), and `ReleaseInv` ties a clean signature to the bundle of its commit. Assumed: tools are neither
inputs nor outputs, and every content a patch can write has known facts.

Remarks. A run killed while it writes the manifest or the proof leaves the tail refusing its own inputs until one generator is run out of order or the tree
is checked out. Coverage is listed from the live tree and read into the snapshot afterwards; a file that appears in between is noticed by the next check and not by that run.

## 12. Release gate

`ReleaseGate` starts from rows without evidence. `Retain` puts artifacts in place, `Submit` writes envelopes and rows with the generator's own calls, at most one
row deviating from the usual one; then rows, envelopes, templates, artifacts, policy inputs, sources and the Slither baseline are edited and
generators run. An artifact may be a link to another file of the tree or out of it (`Outside`; a link leads to a file, not to a link). The checkers
of envelopes and of marketplace rows refuse a path with a link in it (`release_evidence_paths.py:57-62`), `check_public_beta_evidence.py` follows
links that stay in the repository, and the generator follows the link it is given and records the path it leads to
(`generate_non_local_release_evidence.py:57-67`). Every checker is a predicate of the tree: `check_public_beta_evidence`, `check_non_local_release_evidence`,
`check_marketplace_indexer_evidence`, `slither_baseline_check`, `validate_release_mode`. The verdicts of the risk register and of the
governed-parameter inventory are inputs.

At this commit no release can pass: `check_record_family_authorization.py:3083-3103` and the genesis profile's
candidate blocker always stand. The properties therefore speak of `OnlyStandingStops`, "nothing else is in the way".

**Checked** (`release_gate`): four rows that stand for the classes the code tells apart (an audit that cannot be waived, a rehearsal whose command
must be the artifact's, the two marketplace rows), two edits, days 0 and 1, waivers that start or end on either. `MarketRowsTraceToTheirArtifact`: a
completed marketplace row leads through a reviewed envelope to the very bytes that were reviewed (only these rows hash the artifact again).
`GeneratedFilesTellTheGate` is two claims: `ReportsTellTheGate`, current reports list whatever blocks; and
`CurrentEnvelopeCompletesItsRow`, an envelope the generator's `--check` calls current, generated as reviewed for its own row, completes that row for the checkers that resolve
and read it on their own: its metadata suffice, a required command is quoted as the artifact at the recorded path has it, and a marketplace row refuses it
only for an artifact that is not accepted, whatever link the call named and whatever was edited since. `ReleasedSourcesAreTriaged`: today's first-party findings are documented in the mirror reviewers read.
`TimeOnlyMovesWaivers`: a day that passes opens or closes the gate only through a waiver's window. A row marked `not_applicable` blocks at the
gate although `check_public_beta_evidence` lets its phase be called ready.

**Proved.** All four, for any rows, submissions, artifacts, findings and number of days, from `GateInv` (dates are numbers; rows and the
baseline keep their form, their risk being none or one of the windows). Most of the argument is about one tree: what the checker of
envelopes asks, what the reports list and what the gate adds up are compared row by row. `DaysMoveWaiversOnly` compares the
verdicts of two days: all but the waivers' blockers are unchanged, and a waiver changes sides only on the day after its last or on its first.
Assumed: rows and phases have different names, each row has a usual submission and an artifact delivered for it.

## 13. Disagreements between the code and its documents

Two runs are expected to fail and show a disagreement each.

* `gate_review` (`CompleteRowsAreReviewed`): outside the marketplace rows a row is complete on an envelope that still waits for review, or on a
  template whose reviewer was filled in; `docs/public-beta-evidence.md:65-66` and `test_public_beta_evidence.py:226` say it
  cannot be.
* `broadcast_receipts` (`ListedDeploymentsSucceeded`): a creation whose own receipt failed is listed on the strength of a call's
  receipt; the docstring of `select_deployment_receipt` (`generate_broadcast_manifest_input.py:293-297`) says the fallback is taken only when the receipt proves the deployment.

Five more are kept as configurations that can be run by hand; each violates its one property.

* `StreamCoreRewind.cfg` (`MCStreamCore`, `HighWaterNeverRewinds`): `docs/mint-policy-and-accounting.md:590-591` says an abort must not rewind or reuse
  the id and the serial; the contract (`StreamCore.sol:599`), the interface's comment (`IStreamCoreMint.sol:60`) and a unit test rewind both, and
  the density theorem relies on it.
* `StreamCorePendingRead.cfg` (`MCStreamCore`, `PendingReadableInCallback`): the document (1002-1005, 4124) says that in the receiver
  callback `pendingPreparedMintTokenId()` still returns the token; the contract clears it before any callee runs (`StreamCore.sol:572`).
* `PermanenceHashes.cfg` (`MCEvidenceRecords`, `ReviewedPackageIsHashed`): `docs/permanence-packages.md:93-95` says a reviewed
  package retains non-placeholder output hashes; the checker lets `not_available_self_referential` pass
  (`check_one_of_one_permanence_package.py:716`, `:353`).
* `ReleaseTail.cfg` (`MCReleaseBundle`, `TailConverges`): `docs/reference/tooling/release-artifacts.md:56-61` describes one pass in order; the notes read the
  readiness of the previous manifest (`generate_release_notes.py:186-191`), so after it changes only a second pass settles.
* `DeploymentRecordsReread.cfg` (`MCDeploymentRecords`, `ReportNamesWhatItVerified`): a report carries `broadcast_sha256`, the digest of "the" broadcast
  it verified; the file is read at `verify_current_stack_deployment.py:408` and again, for the digest, at `:410`, so a broadcast replaced during the
  verification gives a report that names one that was never verified. No document speaks of it; only the field's name does.

## 14. What stays with TLC, and what is not modelled

**Proved and model-checked.** Every invariant and every action property of a passing run is a theorem, for all values of the
constants, and the run shows it on a small instance. The passing runs show besides that what the theorems speak of happens: each
action is taken, and each property has a mutant of the code that breaks it there.

**Model-checked only.** The liveness properties `RefundsArePaid`, `SettlementCompletes`, `RequestsEnd` and `LocksReleased` need fairness and ENABLED,
which the proof system does not treat. The findings of section 13 are counterexamples, found by TLC.

**What the proofs assume.** Only the named assumptions of the modules, which TLC evaluates on every run: finite sets where sums are taken, the types of constants,
names that differ, and that the values an instance offers are ones the code could read. Bounds (`Max...`) are
arbitrary numbers in them. The proofs say nothing of what the models abstract from.

**Abstracted throughout.** Signatures, hashes, ABI encoding, event payloads, rendering, JSON schemas and the wording of documents are
equality of model values. That two bidders' amounts follow the minimum increment and that a late bid extends the auction are modelled in the
guard of `bid` and not stated as properties of their own; nor is that an unsold token is eventually claimed, which depends only on the artist.

**Not modelled.** The contracts whose hazards are worth a model are steps 10 to 14 of the plan:

* the mint ledger: an operation bound to the previous policy is honoured during a grace period, and two policy changes in quick
  succession must not revive an older one (`StreamMintLedger.sol:317`); one call may consume the same counter twice, and the cap has to bound the
  sum (`:494`);
* the split wallet: the payee receives control during a release, and ether sent back or a nested release changes the receipts compared around
  the transfer (`StreamSplitWallet.sol:224`);
* the governance executor: veto, cancellation, execution and expiry race on one action at the ends of its windows
  (`StreamGovernanceExecutor.sol:644`), and its context is published while its targets run (`:1411`).

Until then Core takes the manager as an arbitrary caller and lets governance approve any transition, and the auction house sees a wallet as an
account that accepts ether: over-approximations, so what is shown of them does not depend on these contracts.
The protocol's conformance checkers, the governed-parameter inventory, the record-family authorization
checker, the preflight and rehearsal gates and the documentation tooling are predicates of one reading of the tree that nothing else reads back.
The deployment scripts are straight-line code run once; the TypeScript client is modelled where it is generated (`CompilationExport`), and as a library keeps no state. Components without a
module are listed with the reason in `PROJECT.json`.
