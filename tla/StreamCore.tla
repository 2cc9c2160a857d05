------------------------------ MODULE StreamCore ------------------------------
(***************************************************************************)
(* StreamCore: the ERC-721 contract.  It allocates token ids and           *)
(* collection serials, mints for the installed mint manager (at once, or   *)
(* in a prepare step and a completion), burns, and holds the governed      *)
(* collection settings, satellite pointers and gas parameters.             *)
(*                                                                         *)
(* One action is one external function.  A completing mint hands control   *)
(* to the entropy coordinator and then to an ERC-721 receiver; `frame'     *)
(* names the callee while it runs, every other action may be tried in that *)
(* window, and HookReturns and ReceiverReturns resume the mint.  A         *)
(* transaction that reverts leaves no trace, so a revert is the absence of *)
(* a step.                                                                 *)
(*                                                                         *)
(* A governed function needs the executor to be running an action of the   *)
(* right class that names exactly this transition (scope, old value, new   *)
(* value).  Which transitions governance approves is its own choice, so    *)
(* the approved value is an arbitrary parameter and only the class is kept.*)
(***************************************************************************)
EXTENDS Integers, FiniteSets

CONSTANTS
    Holders,         \* accounts that can own tokens
    Receivers,       \* the holders with code: they are called on a safe mint
    Modules,         \* pointer type -> the contracts that implement its interface
    GenesisRegistry, \* the module registry the constructor is given
    NoAddress,       \* address(0)
    OperationIds,    \* nonzero operation ids
    NoOperation,     \* bytes32(0)
    TokenData,       \* byte strings within the length limit, with a matching hash
    NoData,          \* the deleted byte string
    GasParameters,   \* the governed gas parameters
    GenesisGas,      \* their genesis value
    ActionIds,       \* governance action ids
    NoAction,        \* bytes32(0)
    Supplies,        \* the maximum supplies governance uses
    MaxUint,         \* type(uint256).max, shrunk, for token ids and serials
    MaxCollectionId, \* type(uint256).max, shrunk, for collection ids
    MaxRevision,     \* type(uint64).max, shrunk
    MaxGas           \* bound: the largest gas value

PointerTypes == DOMAIN Modules
MINT_MANAGER == "MINT_MANAGER"
ENTROPY_COORDINATOR == "ENTROPY_COORDINATOR"
MODULE_REGISTRY == "MODULE_REGISTRY"
Contracts == UNION {Modules[p] : p \in PointerTypes}
Managers == Modules[MINT_MANAGER]

TokenIds == 1 .. MaxUint
CollectionIds == 1 .. MaxCollectionId
SupplyModes == {"FIXED", "CAPPED_OPEN", "UNCAPPED_OPEN"}
Statuses == {"ACTIVE", "PAUSED", "CLOSED"}
ActionClasses ==
    {"IMMEDIATE_TIGHTENING", "DELAYED_LOOSENING", "TERMINAL_FREEZE", "POINTER_REPLACEMENT"}

ASSUME HolderAssumption == NoAddress \notin Holders \cup Contracts /\ Receivers \subseteq Holders
ASSUME ModuleAssumption ==
    /\ {MINT_MANAGER, ENTROPY_COORDINATOR, MODULE_REGISTRY} \subseteq PointerTypes
    /\ GenesisRegistry \in Modules[MODULE_REGISTRY]
ASSUME ValueAssumption ==
    NoOperation \notin OperationIds /\ NoData \notin TokenData /\ NoAction \notin ActionIds
ASSUME NumberAssumption ==
    /\ MaxUint \in Nat /\ MaxCollectionId \in Nat /\ MaxRevision \in Nat \ {0}
    /\ GenesisGas \in Nat \ {0} /\ MaxGas \in Nat /\ GenesisGas <= MaxGas
    /\ Supplies \subseteq Nat \ {0}

VARIABLES
    lastCollectionId, collections,
    lastTokenId, identities, tokenData, coordinatorAtMint,
    owner,       \* ERC721._owners
    liveSupply,
    pending,     \* the prepared mint: token, operation, collection, preparing manager
    completion,  \* _completionTokenId
    frame,       \* the completing mint's locals and the callee that has control
    pointers,
    live,        \* contracts whose code is still the code that was pinned
    gas

collectionVars == <<lastCollectionId, collections>>
identityVars == <<lastTokenId, identities, tokenData, coordinatorAtMint>>
ownerVars == <<owner, liveSupply>>
mintVars == <<pending, completion, frame>>
governedVars == <<pointers, gas>>
vars == <<collectionVars, identityVars, ownerVars, mintVars, governedVars, live>>

CollectionType ==
    [maxSupply : Supplies \cup {0}, mintedEver : Nat, burned : Nat, nextSerial : Nat,
     burnsBlocked : BOOLEAN, frozen : BOOLEAN, supplyMode : SupplyModes, status : Statuses]
NoCollection ==
    [maxSupply |-> 0, mintedEver |-> 0, burned |-> 0, nextSerial |-> 0,
     burnsBlocked |-> FALSE, frozen |-> FALSE, supplyMode |-> "FIXED", status |-> "ACTIVE"]

IdentityType == [collectionId : CollectionIds \cup {0}, collectionSerial : Nat]
NoIdentity == [collectionId |-> 0, collectionSerial |-> 0]

PendingType ==
    [tokenId : TokenIds \cup {0}, operationId : OperationIds \cup {NoOperation},
     collectionId : CollectionIds \cup {0}, preparingManager : Managers \cup {NoAddress}]
NoPending ==
    [tokenId |-> 0, operationId |-> NoOperation, collectionId |-> 0,
     preparingManager |-> NoAddress]

FrameType ==
    [callee : {"none", "coordinator", "receiver"}, collectionId : CollectionIds \cup {0},
     recipient : Holders \cup {NoAddress}, prepared : BOOLEAN]
NoFrame ==
    [callee |-> "none", collectionId |-> 0, recipient |-> NoAddress, prepared |-> FALSE]

PointerType ==
    [target : Contracts \cup {NoAddress}, frozen : BOOLEAN, revision : 0 .. MaxRevision]
UnsetPointer == [target |-> NoAddress, frozen |-> FALSE, revision |-> 0]

GasType == [value : 1 .. MaxGas, revision : 1 .. MaxRevision,
            lastAction : ActionIds \cup {NoAction}]

Init ==
    /\ lastCollectionId = 0 /\ collections = [c \in CollectionIds |-> NoCollection]
    /\ lastTokenId = 0 /\ identities = [t \in TokenIds |-> NoIdentity]
    /\ tokenData = [t \in TokenIds |-> NoData]
    /\ coordinatorAtMint = [t \in TokenIds |-> NoAddress]
    /\ owner = [t \in TokenIds |-> NoAddress] /\ liveSupply = 0
    /\ pending = NoPending /\ completion = 0 /\ frame = NoFrame
    /\ pointers = [p \in PointerTypes |->
                     IF p = MODULE_REGISTRY
                     THEN [target |-> GenesisRegistry, frozen |-> FALSE, revision |-> 1]
                     ELSE UnsetPointer]
    /\ live = Contracts
    /\ gas = [p \in GasParameters |->
                [value |-> GenesisGas, revision |-> 1, lastAction |-> NoAction]]

-------------------------------------------------------------------------------
(* Reads *)

collectionExists(c) == c # 0 /\ c <= lastCollectionId
pointerCodeIsLive(p) == pointers[p].target \in live

tokenLifecycle(t) ==
    CASE identities[t].collectionId = 0 -> "UNKNOWN"
      [] identities[t].collectionId # 0 /\ owner[t] # NoAddress -> "MINTED"
      [] identities[t].collectionId # 0 /\ owner[t] = NoAddress
         /\ t \in {pending.tokenId, completion} -> "PREPARED_INCOMPLETE"
      [] OTHER -> "BURNED"

pendingPreparedMintTokenId == pending.tokenId

requireNoMintExecution == pending.tokenId = 0 /\ completion = 0

requireMintManager(m) == m = pointers[MINT_MANAGER].target /\ pointerCodeIsLive(MINT_MANAGER)

-------------------------------------------------------------------------------
(* Collections, under governance *)

createCollection(supplyMode, maxSupply, initialStatus, class) ==
    /\ class = "DELAYED_LOOSENING"
    /\ requireNoMintExecution
    /\ initialStatus # "CLOSED"
    /\ (supplyMode = "UNCAPPED_OPEN") <=> (maxSupply = 0)
    /\ lastCollectionId < MaxCollectionId
    /\ lastCollectionId' = lastCollectionId + 1
    /\ collections' = [collections EXCEPT ![lastCollectionId + 1] =
                         [NoCollection EXCEPT !.maxSupply = maxSupply, !.nextSerial = 1,
                                              !.supplyMode = supplyMode,
                                              !.status = initialStatus]]
    /\ UNCHANGED <<identityVars, ownerVars, mintVars, governedVars, live>>

StatusClass(newStatus) ==
    CASE newStatus = "CLOSED" -> "TERMINAL_FREEZE"
      [] newStatus = "PAUSED" -> "IMMEDIATE_TIGHTENING"
      [] newStatus = "ACTIVE" -> "DELAYED_LOOSENING"

setCollectionStatus_WhilePending(c, newStatus, class) ==
    /\ class = StatusClass(newStatus)
    /\ completion = 0  \* mutant: a prepared mint does not block it
    /\ collectionExists(c)
    /\ ~collections[c].frozen
    /\ newStatus # collections[c].status /\ collections[c].status # "CLOSED"
    /\ collections' = [collections EXCEPT ![c].status = newStatus]
    /\ UNCHANGED <<lastCollectionId, identityVars, ownerVars, mintVars, governedVars, live>>

setCollectionStatus(c, newStatus, class) ==
    /\ class = StatusClass(newStatus)
    /\ requireNoMintExecution
    /\ collectionExists(c)
    /\ ~collections[c].frozen
    /\ newStatus # collections[c].status /\ collections[c].status # "CLOSED"
    /\ collections' = [collections EXCEPT ![c].status = newStatus]
    /\ UNCHANGED <<lastCollectionId, identityVars, ownerVars, mintVars, governedVars, live>>

SupplyFloor_Live(c) == collections[c].mintedEver - collections[c].burned
SupplyFloor(c) == collections[c].mintedEver

setCollectionMaxSupply(c, newMaxSupply, class) ==
    LET oldMaxSupply == collections[c].maxSupply
    IN /\ class = IF newMaxSupply < oldMaxSupply THEN "IMMEDIATE_TIGHTENING"
                                                 ELSE "DELAYED_LOOSENING"
       /\ requireNoMintExecution
       /\ collectionExists(c)
       /\ ~collections[c].frozen
       /\ collections[c].supplyMode = "CAPPED_OPEN" /\ collections[c].status # "CLOSED"
       /\ newMaxSupply # oldMaxSupply /\ newMaxSupply >= SupplyFloor(c) /\ newMaxSupply # 0
       /\ collections' = [collections EXCEPT ![c].maxSupply = newMaxSupply]
       /\ UNCHANGED <<lastCollectionId, identityVars, ownerVars, mintVars, governedVars, live>>

blockCollectionBurns(c, class) ==
    /\ class = "TERMINAL_FREEZE"
    /\ requireNoMintExecution
    /\ collectionExists(c)
    /\ collections[c].status = "CLOSED"
    /\ ~collections[c].burnsBlocked /\ ~collections[c].frozen
    /\ collections' = [collections EXCEPT ![c].burnsBlocked = TRUE]
    /\ UNCHANGED <<lastCollectionId, identityVars, ownerVars, mintVars, governedVars, live>>

freezeCollection(c, class) ==
    /\ class = "TERMINAL_FREEZE"
    /\ requireNoMintExecution
    /\ collectionExists(c)
    /\ collections[c].status = "CLOSED"
    /\ collections[c].burnsBlocked /\ ~collections[c].frozen
    /\ collections' = [collections EXCEPT ![c].frozen = TRUE]
    /\ UNCHANGED <<lastCollectionId, identityVars, ownerVars, mintVars, governedVars, live>>

-------------------------------------------------------------------------------
(* Minting *)

Allocatable(c) ==
    /\ collections[c].status = "ACTIVE" /\ ~collections[c].frozen
    /\ \/ collections[c].supplyMode = "UNCAPPED_OPEN"
       \/ collections[c].mintedEver < collections[c].maxSupply

\* The id and the serial are both the next ones, and both counters move on.
allocateTokenIdentity(c, data) ==
    /\ collectionExists(c)
    /\ Allocatable(c)
    /\ lastTokenId < MaxUint /\ collections[c].nextSerial < MaxUint
    /\ lastTokenId' = lastTokenId + 1
    /\ collections' = [collections EXCEPT ![c].nextSerial = @ + 1]
    /\ identities' = [identities EXCEPT ![lastTokenId + 1] =
                        [collectionId |-> c, collectionSerial |-> collections[c].nextSerial]]
    /\ tokenData' = [tokenData EXCEPT ![lastTokenId + 1] = data]
    /\ UNCHANGED lastCollectionId

\* The first half of _completeMint, up to the call of onTokenMinted.
enterCoordinator(t, c, recipient, prepared) ==
    /\ pointerCodeIsLive(ENTROPY_COORDINATOR)
    /\ coordinatorAtMint' = [coordinatorAtMint EXCEPT
                               ![t] = pointers[ENTROPY_COORDINATOR].target]
    /\ completion' = t
    /\ frame' = [callee |-> "coordinator", collectionId |-> c, recipient |-> recipient,
                 prepared |-> prepared]

mintFromManager(m, c, recipient, data) ==
    /\ requireMintManager(m)
    /\ requireNoMintExecution
    /\ allocateTokenIdentity(c, data)
    /\ enterCoordinator(lastTokenId + 1, c, recipient, FALSE)
    /\ UNCHANGED <<pending, ownerVars, governedVars, live>>

prepareMintFromManager(m, c, data, operationId) ==
    /\ requireMintManager(m)
    /\ requireNoMintExecution
    /\ allocateTokenIdentity(c, data)
    /\ pending' = [tokenId |-> lastTokenId + 1, operationId |-> operationId,
                   collectionId |-> c, preparingManager |-> m]
    /\ UNCHANGED <<coordinatorAtMint, completion, frame, ownerVars, governedVars, live>>

\* Who may complete: the manager that prepared, with the same token and operation.
Completes(m, t, operationId) ==
    t = pending.tokenId /\ operationId = pending.operationId /\ m = pending.preparingManager

completePreparedMintFromManager(m, t, recipient, operationId) ==
    /\ requireMintManager(m)
    /\ completion = 0
    /\ pending.tokenId # 0
    /\ Completes(m, t, operationId)
    /\ pending' = NoPending
    /\ enterCoordinator(t, pending.collectionId, recipient, TRUE)
    /\ UNCHANGED <<collectionVars, lastTokenId, identities, tokenData, ownerVars,
                   governedVars, live>>

HookReturns_CountsLate ==
    /\ frame.callee = "coordinator"
    /\ owner[completion] = NoAddress
    /\ collections' = [collections EXCEPT ![frame.collectionId].mintedEver = @ + 1]
    /\ liveSupply' = IF frame.recipient \in Receivers THEN liveSupply ELSE liveSupply + 1
    /\ owner' = [owner EXCEPT ![completion] = frame.recipient]
    /\ IF frame.recipient \in Receivers
       THEN frame' = [frame EXCEPT !.callee = "receiver"] /\ UNCHANGED completion
       ELSE frame' = NoFrame /\ completion' = 0
    /\ UNCHANGED <<lastCollectionId, identityVars, pending, governedVars, live>>

\* The second half of _completeMint: the counters, then _safeMint, which calls a
\* recipient that has code and otherwise ends the mint.
HookReturns ==
    /\ frame.callee = "coordinator"
    /\ owner[completion] = NoAddress
    /\ collections' = [collections EXCEPT ![frame.collectionId].mintedEver = @ + 1]
    /\ liveSupply' = liveSupply + 1
    /\ owner' = [owner EXCEPT ![completion] = frame.recipient]
    /\ IF frame.recipient \in Receivers
       THEN frame' = [frame EXCEPT !.callee = "receiver"] /\ UNCHANGED completion
       ELSE frame' = NoFrame /\ completion' = 0
    /\ UNCHANGED <<lastCollectionId, identityVars, pending, governedVars, live>>

ReceiverReturns ==
    /\ frame.callee = "receiver"
    /\ frame' = NoFrame /\ completion' = 0
    /\ UNCHANGED <<collectionVars, identityVars, ownerVars, pending, governedVars, live>>

Rewind_IdOnly(c) == collections
Rewind(c) == [collections EXCEPT ![c].nextSerial = @ - 1]

AbortAllowed(m, t, operationId) ==
    /\ requireMintManager(m)
    /\ completion = 0
    /\ pending.tokenId # 0
    /\ t = pending.tokenId /\ operationId = pending.operationId
    /\ m # pending.preparingManager

abortPreparedMintFromManager(m, t, operationId) ==
    /\ AbortAllowed(m, t, operationId)
    /\ pending' = NoPending
    /\ identities' = [identities EXCEPT ![t] = NoIdentity]
    /\ tokenData' = [tokenData EXCEPT ![t] = NoData]
    /\ coordinatorAtMint' = [coordinatorAtMint EXCEPT ![t] = NoAddress]
    /\ lastTokenId' = lastTokenId - 1
    /\ collections' = Rewind(pending.collectionId)
    /\ UNCHANGED <<lastCollectionId, completion, frame, ownerVars, governedVars, live>>

BurnAllowed_UntilClosed(t) ==
    completion = 0 /\ owner[t] # NoAddress

BurnAllowed(t) ==
    LET c == identities[t].collectionId
    IN completion = 0 /\ owner[t] # NoAddress
       /\ ~collections[c].burnsBlocked /\ ~collections[c].frozen

\* Called by the owner or by an account it approved.
burn(t) ==
    LET c == identities[t].collectionId
    IN /\ BurnAllowed(t)
       /\ owner' = [owner EXCEPT ![t] = NoAddress]
       /\ collections' = [collections EXCEPT ![c].burned = @ + 1]
       /\ liveSupply' = liveSupply - 1
       /\ UNCHANGED <<lastCollectionId, identityVars, mintVars, governedVars, live>>

\* ERC-721 transfers are never locked, not even inside a callback.
transferFrom(t, to) ==
    /\ owner[t] # NoAddress /\ owner[t] # to
    /\ owner' = [owner EXCEPT ![t] = to]
    /\ UNCHANGED <<collectionVars, identityVars, liveSupply, mintVars, governedVars, live>>

-------------------------------------------------------------------------------
(* Satellite pointers and gas parameters, under governance *)

\* What the contract behind a pointer must be: it has the pointer's interface, its
\* code is live, and the live module registry vouches for it.
EligibleTarget(p, target) ==
    /\ target \in Modules[p] \cap live
    /\ pointerCodeIsLive(MODULE_REGISTRY)

PointerOpen_InCallback(p) == pending.tokenId # 0 => p = MINT_MANAGER
PointerOpen_NeverPending(p) == requireNoMintExecution
PointerOpen(p) == completion = 0 /\ (pending.tokenId # 0 => p = MINT_MANAGER)

ReplacementAllowed(p, newTarget, class) ==
    /\ class = "POINTER_REPLACEMENT"
    /\ PointerOpen(p)
    /\ ~pointers[p].frozen
    /\ EligibleTarget(p, newTarget)
    /\ pointers[p].revision < MaxRevision
    /\ newTarget # pointers[p].target

updateSatellitePointer(p, newTarget, class) ==
    /\ ReplacementAllowed(p, newTarget, class)
    /\ pointers' = [pointers EXCEPT ![p] =
                      [target |-> newTarget, frozen |-> FALSE,
                       revision |-> pointers[p].revision + 1]]
    /\ UNCHANGED <<collectionVars, identityVars, ownerVars, mintVars, gas, live>>

freezeSatellitePointer(p, class) ==
    /\ class = "TERMINAL_FREEZE"
    /\ requireNoMintExecution
    /\ pointers[p].target # NoAddress
    /\ ~pointers[p].frozen
    /\ pointers[p].revision < MaxRevision
    /\ pointers' = [pointers EXCEPT ![p] =
                      [target |-> pointers[p].target, frozen |-> TRUE,
                       revision |-> pointers[p].revision + 1]]
    /\ UNCHANGED <<collectionVars, identityVars, ownerVars, mintVars, gas, live>>

Raises(old, new) == new > old /\ new - old <= old

setGovernedGasValue(p, newValue, actionId) ==
    /\ gas[p].revision < MaxRevision
    /\ gas[p].lastAction # actionId
    /\ gas' = [gas EXCEPT ![p] = [value |-> newValue, revision |-> gas[p].revision + 1,
                                  lastAction |-> actionId]]

raiseGasParameter(p, newValue, actionId, class) ==
    /\ class = "DELAYED_LOOSENING"
    /\ requireNoMintExecution
    /\ Raises(gas[p].value, newValue)
    /\ setGovernedGasValue(p, newValue, actionId)
    /\ UNCHANGED <<collectionVars, identityVars, ownerVars, mintVars, pointers, live>>

\* A contract's code is destroyed or replaced: it no longer has the pinned hash.
CodeDies(a) ==
    /\ a \in live
    /\ live' = live \ {a}
    /\ UNCHANGED <<collectionVars, identityVars, ownerVars, mintVars, governedVars>>

-------------------------------------------------------------------------------
\* What the executor does with Core in one governance action of a class.
Governed(class) ==
    \/ \E s \in SupplyModes, n \in Supplies \cup {0}, i \in Statuses :
         createCollection(s, n, i, class)
    \/ \E c \in CollectionIds, s \in Statuses : setCollectionStatus(c, s, class)
    \/ \E c \in CollectionIds, n \in Supplies : setCollectionMaxSupply(c, n, class)
    \/ \E c \in CollectionIds : blockCollectionBurns(c, class)
    \/ \E c \in CollectionIds : freezeCollection(c, class)
    \/ \E p \in PointerTypes, a \in Contracts : updateSatellitePointer(p, a, class)
    \/ \E p \in PointerTypes : freezeSatellitePointer(p, class)
    \/ \E p \in GasParameters, n \in 1 .. MaxGas, id \in ActionIds :
         raiseGasParameter(p, n, id, class)

Minting(m) ==
    \/ \E c \in CollectionIds, h \in Holders, d \in TokenData : mintFromManager(m, c, h, d)
    \/ \E c \in CollectionIds, d \in TokenData, o \in OperationIds :
         prepareMintFromManager(m, c, d, o)
    \/ \E t \in TokenIds, h \in Holders, o \in OperationIds :
         completePreparedMintFromManager(m, t, h, o)
    \/ \E t \in TokenIds, o \in OperationIds : abortPreparedMintFromManager(m, t, o)

Next ==
    \/ \E class \in ActionClasses : Governed(class)
    \/ \E m \in Managers : Minting(m)
    \/ HookReturns
    \/ ReceiverReturns
    \/ \E t \in TokenIds : burn(t)
    \/ \E t \in TokenIds, h \in Holders : transferFrom(t, h)
    \/ \E a \in Contracts : CodeDies(a)

Spec == Init /\ [][Next]_vars

-------------------------------------------------------------------------------
(* Properties *)

TokensOf(c) == {t \in TokenIds : identities[t].collectionId = c}
Owned == {t \in TokenIds : owner[t] # NoAddress}
BurnedOf(c) == {t \in TokensOf(c) : tokenLifecycle(t) = "BURNED"}

\* A token of c has its identity and is not an ERC-721 token yet.
InFlight(c) ==
    \/ pending.tokenId # 0 /\ pending.collectionId = c
    \/ frame.callee = "coordinator" /\ frame.collectionId = c

\* Every variable has its type; liveSupply, whose decrement is unchecked, stays a natural.
TypeOK ==
    /\ lastCollectionId \in 0 .. MaxCollectionId
    /\ collections \in [CollectionIds -> CollectionType]
    /\ lastTokenId \in 0 .. MaxUint
    /\ identities \in [TokenIds -> IdentityType]
    /\ tokenData \in [TokenIds -> TokenData \cup {NoData}]
    /\ coordinatorAtMint \in [TokenIds -> Contracts \cup {NoAddress}]
    /\ owner \in [TokenIds -> Holders \cup {NoAddress}]
    /\ liveSupply \in Nat
    /\ pending \in PendingType
    /\ completion \in TokenIds \cup {0}
    /\ frame \in FrameType
    /\ pointers \in [PointerTypes -> PointerType]
    /\ live \subseteq Contracts
    /\ gas \in [GasParameters -> GasType]

\* Allocation stays dense through mints, preparations and aborts: the tokens with an
\* identity are exactly 1 .. lastTokenId, and a collection's serials are exactly
\* 1 .. nextSerial - 1, each carried by one token, in the order of the ids
\* (_allocateTokenIdentity and the rewind of abortPreparedMintFromManager).
DenseAllocation ==
    /\ \A t \in TokenIds : identities[t].collectionId # 0 <=> t <= lastTokenId
    /\ \A c \in CollectionIds : collectionExists(c) =>
         /\ {identities[t].collectionSerial : t \in TokensOf(c)}
              = 1 .. (collections[c].nextSerial - 1)
         /\ \A t, u \in TokensOf(c) :
              t < u => identities[t].collectionSerial < identities[u].collectionSerial

\* The counters count what they are named for, in the callback windows too: minted
\* ever is the serials handed out less the one in flight, burned is the tokens whose
\* life cycle reads BURNED, and totalSupply is the tokens that have an owner
\* (the unchecked arithmetic of _completeMint, burn and abort).
SupplyExact ==
    /\ \A c \in CollectionIds : collectionExists(c) =>
         /\ collections[c].nextSerial - 1 =
              collections[c].mintedEver + IF InFlight(c) THEN 1 ELSE 0
         /\ collections[c].burned = Cardinality(BurnedOf(c))
    /\ liveSupply = Cardinality(Owned)

\* A capped collection never hands out more serials than its cap, whatever the order of
\* burns, cap changes, preparations and aborts (createCollection,
\* setCollectionMaxSupply, _allocateTokenIdentity).
SupplyCapped ==
    \A c \in CollectionIds : collectionExists(c) /\ collections[c].supplyMode # "UNCAPPED_OPEN" =>
        collections[c].nextSerial - 1 <= collections[c].maxSupply

\* What was checked when an identity was allocated still holds until its token exists:
\* completion, which checks nothing about the collection, never mints into one that has
\* been paused, closed, frozen or filled since prepareMintFromManager looked at it.
AdmissionStillValid ==
    \A c \in CollectionIds : InFlight(c) => collectionExists(c) /\ Allocatable(c)

\* In both callback windows the coordinator that registered the token is still the
\* installed one: no callee can swap the pointer under a completing mint
\* (_completeMint, updateSatellitePointer).
CoordinatorBound ==
    completion # 0 =>
        coordinatorAtMint[completion] = pointers[ENTROPY_COORDINATOR].target

\* A stranded prepared mint can always be cleared: while the MINT_MANAGER pointer is not
\* frozen, the module registry is live and a manager other than the preparing one is
\* live, either the installed manager can abort or the pointer can be replaced by one
\* that can (updateSatellitePointer's exception, abortPreparedMintFromManager).  Both
\* calls are conditions followed by assignments: one whose conditions hold succeeds.
Recovery ==
    \/ \E m \in Managers, t \in TokenIds, o \in OperationIds : AbortAllowed(m, t, o)
    \/ \E a \in Contracts :
         /\ a # pending.preparingManager
         /\ ReplacementAllowed(MINT_MANAGER, a, "POINTER_REPLACEMENT")

Recoverable ==
    /\ pending.tokenId # 0
    /\ ~pointers[MINT_MANAGER].frozen /\ pointers[MINT_MANAGER].revision < MaxRevision
    /\ pointerCodeIsLive(MODULE_REGISTRY)
    /\ \E m \in Managers \cap live : m # pending.preparingManager

RecoveryOpen == Recoverable => Recovery

\* A token's life: unknown, prepared, minted, burned, with the one way back from
\* prepared to unknown.  Once it has been minted its identity, data and coordinator
\* never change again, burned or not (tokenLifecycle, burn, abortPreparedMintFromManager).
Happened(t) == tokenLifecycle(t) \in {"MINTED", "BURNED"}

LifecycleMonotone ==
    [][\A t \in TokenIds :
        /\ \/ tokenLifecycle(t)' = tokenLifecycle(t)
           \/ <<tokenLifecycle(t), tokenLifecycle(t)'>> \in
                {<<"UNKNOWN", "PREPARED_INCOMPLETE">>, <<"PREPARED_INCOMPLETE", "UNKNOWN">>,
                 <<"PREPARED_INCOMPLETE", "MINTED">>, <<"MINTED", "BURNED">>}
        /\ Happened(t) =>
             /\ identities'[t] = identities[t]
             /\ tokenData'[t] = tokenData[t] /\ tokenData[t] # NoData
             /\ coordinatorAtMint'[t] = coordinatorAtMint[t]]_vars

\* A frozen collection is final: its settings and counters, the tokens it has and which
\* of them are alive never change again; only transfers remain (freezeCollection, burn).
FrozenIsFinal ==
    [][\A c \in CollectionIds : collections[c].frozen =>
        /\ collections'[c] = collections[c]
        /\ TokensOf(c)' = TokensOf(c)
        /\ (TokensOf(c) \cap Owned)' = TokensOf(c) \cap Owned]_vars

-------------------------------------------------------------------------------
(* Statements of the design documents that the contract does not keep *)

\* docs/mint-policy-and-accounting.md: an abort "must not rewind or reuse the global
\* token ID or collection serial".
HighWaterNeverRewinds ==
    [][/\ lastTokenId' >= lastTokenId
       /\ \A c \in CollectionIds :
            collections'[c].nextSerial >= collections[c].nextSerial]_vars

\* docs/mint-policy-and-accounting.md: during the receiver callback of a prepared mint
\* "pendingPreparedMintTokenId() still returns that token ID as the completion lock".
PendingReadableInCallback ==
    frame.callee = "receiver" /\ frame.prepared =>
        pendingPreparedMintTokenId = completion
===============================================================================
