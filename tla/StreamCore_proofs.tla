--------------------------- MODULE StreamCore_proofs ---------------------------
(***************************************************************************)
(* Proofs about StreamCore for every number of collections, tokens,        *)
(* managers and holders.                                                   *)
(*                                                                         *)
(* The allocation and supply invariants are not inductive on their own:    *)
(* an abort rewinds both counters, which is right only because the pending *)
(* token is the last one allocated, carries the last serial of its         *)
(* collection and has never had an owner; a completion counts a token that *)
(* was admitted earlier, which is right only because nothing governed can  *)
(* change while a mint is in flight.  PendingInv and FrameInv say so.      *)
(*                                                                         *)
(* The proof works on effects: for each action a lemma states, field by    *)
(* field, what it does to the collections (the Effect operators), and the  *)
(* preservation of each part of the invariant uses only that.              *)
(***************************************************************************)
EXTENDS StreamCore, FiniteSetTheorems, TLAPS

PendingInv ==
    pending.tokenId # 0 =>
        /\ completion = 0
        /\ pending.tokenId = lastTokenId
        /\ pending.collectionId \in CollectionIds
        /\ identities[lastTokenId].collectionId = pending.collectionId
        /\ identities[lastTokenId].collectionSerial
             = collections[pending.collectionId].nextSerial - 1
        /\ owner[lastTokenId] = NoAddress

FrameInv ==
    /\ completion # 0 <=> frame.callee # "none"
    /\ completion # 0 =>
         /\ completion = lastTokenId
         /\ frame.collectionId \in CollectionIds
         /\ identities[lastTokenId].collectionId = frame.collectionId
    /\ frame.callee = "coordinator" =>
         owner[lastTokenId] = NoAddress /\ frame.recipient \in Holders
    /\ frame.callee = "receiver" => owner[lastTokenId] # NoAddress

IdentityInv ==
    /\ \A t \in TokenIds : identities[t].collectionId # 0 <=> t <= lastTokenId
    /\ \A t \in TokenIds : identities[t].collectionId <= lastCollectionId
    /\ \A t \in TokenIds : owner[t] # NoAddress => t <= lastTokenId

SerialInv ==
    /\ \A c \in CollectionIds : c <= lastCollectionId => collections[c].nextSerial >= 1
    /\ \A t \in TokenIds : \A c \in CollectionIds : identities[t].collectionId = c =>
         /\ 1 <= identities[t].collectionSerial
         /\ identities[t].collectionSerial <= collections[c].nextSerial - 1
    /\ \A t, u \in TokenIds :
         t < u /\ identities[t].collectionId # 0
               /\ identities[t].collectionId = identities[u].collectionId =>
            identities[t].collectionSerial < identities[u].collectionSerial
    /\ \A c \in CollectionIds : c <= lastCollectionId =>
         \A s \in 1 .. (collections[c].nextSerial - 1) :
            \E t \in TokenIds : /\ identities[t].collectionId = c
                                /\ identities[t].collectionSerial = s

MintedInv ==
    \A c \in CollectionIds : c <= lastCollectionId =>
        collections[c].nextSerial - 1 =
            collections[c].mintedEver + IF InFlight(c) THEN 1 ELSE 0

CountInv ==
    /\ \A c \in CollectionIds : c <= lastCollectionId =>
         collections[c].burned = Cardinality(BurnedOf(c))
    /\ liveSupply = Cardinality(Owned)

IInv ==
    /\ TypeOK /\ PendingInv /\ FrameInv /\ IdentityInv /\ SerialInv
    /\ MintedInv /\ CountInv /\ SupplyCapped /\ AdmissionStillValid

-------------------------------------------------------------------------------
(* The state outside the collections and the mint in flight *)

\* What a step that only touches settings, pointers, gas or code leaves alone.
CountersKept ==
    \A c \in CollectionIds :
        /\ collections'[c].nextSerial = collections[c].nextSerial
        /\ collections'[c].mintedEver = collections[c].mintedEver
        /\ collections'[c].burned = collections[c].burned

SettingsKept ==
    \A c \in CollectionIds :
        /\ collections'[c].supplyMode = collections[c].supplyMode
        /\ collections'[c].status = collections[c].status
        /\ collections'[c].maxSupply = collections[c].maxSupply
        /\ collections'[c].burnsBlocked = collections[c].burnsBlocked
        /\ collections'[c].frozen = collections[c].frozen

\* A governed change of one collection's settings.
ConfigEffect ==
    /\ collections' \in [CollectionIds -> CollectionType]
    /\ CountersKept
    /\ \A c \in CollectionIds :
         /\ collections'[c].supplyMode = collections[c].supplyMode
         /\ \/ collections'[c].maxSupply = collections[c].maxSupply
            \/ collections'[c].maxSupply >= collections[c].mintedEver
    /\ pending.tokenId = 0 /\ completion = 0
    /\ UNCHANGED <<lastCollectionId, identityVars, ownerVars, mintVars, governedVars, live>>

Config ==
    \/ \E c \in CollectionIds, s \in Statuses, class \in ActionClasses :
         setCollectionStatus(c, s, class)
    \/ \E c \in CollectionIds, n \in Supplies, class \in ActionClasses :
         setCollectionMaxSupply(c, n, class)
    \/ \E c \in CollectionIds, class \in ActionClasses : blockCollectionBurns(c, class)
    \/ \E c \in CollectionIds, class \in ActionClasses : freezeCollection(c, class)

\* setCollectionStatus, setCollectionMaxSupply, blockCollectionBurns and
\* freezeCollection change settings only, with no mint in flight.
LEMMA ConfigIs ==
    ASSUME TypeOK, Config
    PROVE  ConfigEffect
<1>1. ASSUME NEW c \in CollectionIds, NEW s \in Statuses, NEW class \in ActionClasses,
             setCollectionStatus(c, s, class)
      PROVE  ConfigEffect
  <2>1. collections' \in [CollectionIds -> CollectionType]
    BY <1>1 DEF TypeOK, setCollectionStatus, CollectionType
  <2> QED BY <1>1, <2>1 DEF TypeOK, setCollectionStatus, CollectionType, ConfigEffect,
                           CountersKept, requireNoMintExecution
<1>2. ASSUME NEW c \in CollectionIds, NEW n \in Supplies, NEW class \in ActionClasses,
             setCollectionMaxSupply(c, n, class)
      PROVE  ConfigEffect
  <2>1. collections' \in [CollectionIds -> CollectionType]
    BY <1>2 DEF TypeOK, setCollectionMaxSupply, CollectionType
  <2> QED BY <1>2, <2>1 DEF TypeOK, setCollectionMaxSupply, CollectionType, ConfigEffect,
                           CountersKept, requireNoMintExecution, SupplyFloor
<1>3. ASSUME NEW c \in CollectionIds, NEW class \in ActionClasses,
             blockCollectionBurns(c, class)
      PROVE  ConfigEffect
  <2>1. collections' \in [CollectionIds -> CollectionType]
    BY <1>3 DEF TypeOK, blockCollectionBurns, CollectionType
  <2> QED BY <1>3, <2>1 DEF TypeOK, blockCollectionBurns, CollectionType, ConfigEffect,
                           CountersKept, requireNoMintExecution
<1>4. ASSUME NEW c \in CollectionIds, NEW class \in ActionClasses,
             freezeCollection(c, class)
      PROVE  ConfigEffect
  <2>1. collections' \in [CollectionIds -> CollectionType]
    BY <1>4 DEF TypeOK, freezeCollection, CollectionType
  <2> QED BY <1>4, <2>1 DEF TypeOK, freezeCollection, CollectionType, ConfigEffect,
                           CountersKept, requireNoMintExecution
<1> QED BY <1>1, <1>2, <1>3, <1>4 DEF Config

\* createCollection starts one more collection, with no mint in flight.
CreateEffect ==
    LET n == lastCollectionId + 1
    IN /\ lastCollectionId' = n /\ n \in CollectionIds
       /\ collections' \in [CollectionIds -> CollectionType]
       /\ collections'[n].nextSerial = 1
       /\ collections'[n].mintedEver = 0 /\ collections'[n].burned = 0
       /\ \A c \in CollectionIds : c # n => collections'[c] = collections[c]
       /\ pending.tokenId = 0 /\ completion = 0
       /\ UNCHANGED <<identityVars, ownerVars, mintVars, governedVars, live>>

\* createCollection has that effect.
LEMMA CreateIs ==
    ASSUME TypeOK, NEW s \in SupplyModes, NEW n \in Supplies \cup {0}, NEW i \in Statuses,
           NEW class, createCollection(s, n, i, class)
    PROVE  CreateEffect
<1>1. lastCollectionId + 1 \in CollectionIds
  BY NumberAssumption DEF TypeOK, createCollection, CollectionIds
<1>2. collections' \in [CollectionIds -> CollectionType]
  BY <1>1 DEF TypeOK, createCollection, CollectionType, NoCollection
<1> QED BY <1>1, <1>2 DEF TypeOK, createCollection, CreateEffect, NoCollection,
                         requireNoMintExecution

\* An allocation takes the next id and the next serial of c.
AllocateEffect(c, data) ==
    LET n == lastTokenId + 1
    IN /\ lastTokenId' = n /\ n \in TokenIds
       /\ c \in CollectionIds /\ c <= lastCollectionId /\ Allocatable(c)
       /\ collections' \in [CollectionIds -> CollectionType]
       /\ SettingsKept
       /\ \A k \in CollectionIds :
            /\ collections'[k].nextSerial =
                 IF k = c THEN collections[k].nextSerial + 1 ELSE collections[k].nextSerial
            /\ collections'[k].mintedEver = collections[k].mintedEver
            /\ collections'[k].burned = collections[k].burned
       /\ identities' \in [TokenIds -> IdentityType]
       /\ identities'[n].collectionId = c
       /\ identities'[n].collectionSerial = collections[c].nextSerial
       /\ \A t \in TokenIds : t # n => identities'[t] = identities[t]
       /\ tokenData' \in [TokenIds -> TokenData \cup {NoData}]
       /\ tokenData'[n] = data
       /\ \A t \in TokenIds : t # n => tokenData'[t] = tokenData[t]
       /\ UNCHANGED <<lastCollectionId, ownerVars, governedVars, live>>

\* _allocateTokenIdentity has that effect when nothing else of the step interferes.
LEMMA AllocateIs ==
    ASSUME TypeOK, NEW c \in CollectionIds, NEW data \in TokenData,
           allocateTokenIdentity(c, data),
           UNCHANGED <<ownerVars, governedVars, live>>
    PROVE  AllocateEffect(c, data)
<1>1. lastTokenId + 1 \in TokenIds
  BY NumberAssumption DEF TypeOK, allocateTokenIdentity, TokenIds
<1>2. collections' \in [CollectionIds -> CollectionType]
  BY DEF TypeOK, allocateTokenIdentity, CollectionType
<1>3. identities' \in [TokenIds -> IdentityType]
  BY <1>1 DEF TypeOK, allocateTokenIdentity, CollectionType, IdentityType
<1>4. tokenData' \in [TokenIds -> TokenData \cup {NoData}]
  BY <1>1 DEF TypeOK, allocateTokenIdentity
<1>5. SettingsKept
  BY DEF TypeOK, allocateTokenIdentity, SettingsKept, CollectionType
<1>6. \A k \in CollectionIds :
        /\ collections'[k].nextSerial =
             IF k = c THEN collections[k].nextSerial + 1 ELSE collections[k].nextSerial
        /\ collections'[k].mintedEver = collections[k].mintedEver
        /\ collections'[k].burned = collections[k].burned
  BY DEF TypeOK, allocateTokenIdentity, CollectionType
<1>7. /\ identities'[lastTokenId + 1] =
           [collectionId |-> c, collectionSerial |-> collections[c].nextSerial]
      /\ \A t \in TokenIds : t # lastTokenId + 1 => identities'[t] = identities[t]
  BY <1>1 DEF TypeOK, allocateTokenIdentity
<1>8. /\ tokenData'[lastTokenId + 1] = data
      /\ \A t \in TokenIds : t # lastTokenId + 1 => tokenData'[t] = tokenData[t]
  BY <1>1 DEF TypeOK, allocateTokenIdentity
<1> QED BY <1>1, <1>2, <1>3, <1>4, <1>5, <1>6, <1>7, <1>8
        DEF allocateTokenIdentity, AllocateEffect, collectionExists


\* The coordinator returns: one more token of the frame's collection exists.
CountEffect ==
    /\ frame.callee = "coordinator"
    /\ collections' \in [CollectionIds -> CollectionType]
    /\ SettingsKept
    /\ \A k \in CollectionIds :
         /\ collections'[k].nextSerial = collections[k].nextSerial
         /\ collections'[k].mintedEver =
              IF k = frame.collectionId THEN collections[k].mintedEver + 1
                                        ELSE collections[k].mintedEver
         /\ collections'[k].burned = collections[k].burned
    /\ liveSupply' = liveSupply + 1
    /\ owner' \in [TokenIds -> Holders \cup {NoAddress}]
    /\ owner'[lastTokenId] = frame.recipient
    /\ \A t \in TokenIds : t # lastTokenId => owner'[t] = owner[t]
    /\ \/ frame' = [frame EXCEPT !.callee = "receiver"] /\ completion' = completion
       \/ frame' = NoFrame /\ completion' = 0
    /\ UNCHANGED <<lastCollectionId, identityVars, pending, governedVars, live>>

\* The part of _completeMint that follows the coordinator's return has that effect.
LEMMA HookIs ==
    ASSUME TypeOK, FrameInv, HookReturns
    PROVE  CountEffect
<1>1. completion = lastTokenId /\ lastTokenId \in TokenIds
      /\ frame.collectionId \in CollectionIds /\ frame.recipient \in Holders
  BY DEF TypeOK, FrameInv, HookReturns, TokenIds
<1>2. collections' \in [CollectionIds -> CollectionType]
  <2> DEFINE old == collections[frame.collectionId]
             new == [old EXCEPT !.mintedEver = old.mintedEver + 1]
  <2>1. collections \in [CollectionIds -> CollectionType] /\ old \in CollectionType
    BY <1>1 DEF TypeOK
  <2>2. new \in CollectionType
    BY <2>1 DEF CollectionType
  <2>3. collections' = [collections EXCEPT ![frame.collectionId] = new]
    BY DEF HookReturns
  <2> HIDE DEF new
  <2>4. QED
    BY <1>1, <2>1, <2>2, <2>3
<1>3. SettingsKept
  BY <1>1 DEF TypeOK, HookReturns, CollectionType, SettingsKept
<1>4. \A k \in CollectionIds :
         /\ collections'[k].nextSerial = collections[k].nextSerial
         /\ collections'[k].mintedEver =
              IF k = frame.collectionId THEN collections[k].mintedEver + 1
                                        ELSE collections[k].mintedEver
         /\ collections'[k].burned = collections[k].burned
  BY <1>1 DEF TypeOK, HookReturns, CollectionType
<1>5. /\ owner' \in [TokenIds -> Holders \cup {NoAddress}]
      /\ owner'[lastTokenId] = frame.recipient
      /\ \A t \in TokenIds : t # lastTokenId => owner'[t] = owner[t]
  BY <1>1 DEF TypeOK, HookReturns
<1> QED BY <1>2, <1>3, <1>4, <1>5 DEF HookReturns, CountEffect

\* An abort forgets the last token and takes both counters back.
AbortEffect ==
    /\ pending.tokenId # 0 /\ pending' = NoPending
    /\ collections' \in [CollectionIds -> CollectionType]
    /\ SettingsKept
    /\ \A k \in CollectionIds :
         /\ collections'[k].nextSerial =
              IF k = pending.collectionId THEN collections[k].nextSerial - 1
                                          ELSE collections[k].nextSerial
         /\ collections'[k].mintedEver = collections[k].mintedEver
         /\ collections'[k].burned = collections[k].burned
    /\ lastTokenId' = lastTokenId - 1
    /\ identities' \in [TokenIds -> IdentityType]
    /\ identities'[lastTokenId] = NoIdentity
    /\ \A t \in TokenIds : t # lastTokenId => identities'[t] = identities[t]
    /\ tokenData' \in [TokenIds -> TokenData \cup {NoData}]
    /\ \A t \in TokenIds : t # lastTokenId => tokenData'[t] = tokenData[t]
    /\ coordinatorAtMint' \in [TokenIds -> Contracts \cup {NoAddress}]
    /\ \A t \in TokenIds : t # lastTokenId => coordinatorAtMint'[t] = coordinatorAtMint[t]
    /\ UNCHANGED <<lastCollectionId, completion, frame, ownerVars, governedVars, live>>

\* abortPreparedMintFromManager has that effect, on the token allocated last.
LEMMA AbortIs ==
    ASSUME TypeOK, PendingInv, SerialInv, NEW m \in Managers, NEW t \in TokenIds,
           NEW o \in OperationIds, abortPreparedMintFromManager(m, t, o)
    PROVE  AbortEffect
<1>1. t = lastTokenId /\ pending.collectionId \in CollectionIds
  BY DEF PendingInv, abortPreparedMintFromManager, AbortAllowed
<1>2. collections[pending.collectionId].nextSerial - 1 \in Nat
  BY <1>1 DEF TypeOK, PendingInv, SerialInv, abortPreparedMintFromManager, AbortAllowed, IdentityType
<1>3. collections' \in [CollectionIds -> CollectionType]
  BY <1>1, <1>2 DEF TypeOK, abortPreparedMintFromManager, AbortAllowed, Rewind, CollectionType
<1>4. SettingsKept
  BY <1>1 DEF TypeOK, abortPreparedMintFromManager, AbortAllowed, Rewind, CollectionType, SettingsKept
<1>5. \A k \in CollectionIds :
         /\ collections'[k].nextSerial =
              IF k = pending.collectionId THEN collections[k].nextSerial - 1
                                          ELSE collections[k].nextSerial
         /\ collections'[k].mintedEver = collections[k].mintedEver
         /\ collections'[k].burned = collections[k].burned
  BY <1>1 DEF TypeOK, abortPreparedMintFromManager, AbortAllowed, Rewind, CollectionType
<1>6. /\ identities' \in [TokenIds -> IdentityType]
      /\ identities'[lastTokenId] = NoIdentity
      /\ \A u \in TokenIds : u # lastTokenId => identities'[u] = identities[u]
  BY <1>1 DEF TypeOK, abortPreparedMintFromManager, AbortAllowed, IdentityType, NoIdentity
<1>7. /\ tokenData' \in [TokenIds -> TokenData \cup {NoData}]
      /\ \A u \in TokenIds : u # lastTokenId => tokenData'[u] = tokenData[u]
  BY <1>1 DEF TypeOK, abortPreparedMintFromManager, AbortAllowed
<1>8. /\ coordinatorAtMint' \in [TokenIds -> Contracts \cup {NoAddress}]
      /\ \A u \in TokenIds : u # lastTokenId => coordinatorAtMint'[u] = coordinatorAtMint[u]
  BY <1>1 DEF TypeOK, abortPreparedMintFromManager, AbortAllowed
<1> QED BY <1>3, <1>4, <1>5, <1>6, <1>7, <1>8 DEF abortPreparedMintFromManager, AbortAllowed, AbortEffect

\* A burn takes one owned token of c away.
BurnEffect(t) ==
    LET c == identities[t].collectionId
    IN /\ c \in CollectionIds /\ c <= lastCollectionId
       /\ completion = 0 /\ owner[t] # NoAddress
       /\ ~collections[c].burnsBlocked /\ ~collections[c].frozen
       /\ collections' \in [CollectionIds -> CollectionType]
       /\ SettingsKept
       /\ \A k \in CollectionIds :
            /\ collections'[k].nextSerial = collections[k].nextSerial
            /\ collections'[k].mintedEver = collections[k].mintedEver
            /\ collections'[k].burned =
                 IF k = c THEN collections[k].burned + 1 ELSE collections[k].burned
       /\ liveSupply' = liveSupply - 1
       /\ owner' \in [TokenIds -> Holders \cup {NoAddress}]
       /\ owner'[t] = NoAddress
       /\ \A u \in TokenIds : u # t => owner'[u] = owner[u]
       /\ UNCHANGED <<lastCollectionId, identityVars, mintVars, governedVars, live>>

\* burn has that effect.
LEMMA BurnIs ==
    ASSUME TypeOK, IdentityInv, NEW t \in TokenIds, burn(t)
    PROVE  BurnEffect(t)
<1> DEFINE c == identities[t].collectionId
<1>1. c \in CollectionIds /\ c <= lastCollectionId
  BY DEF TypeOK, IdentityInv, IdentityType, burn, BurnAllowed
<1>2. collections' = [collections EXCEPT ![c].burned = @ + 1]
  BY DEF burn
<1> HIDE DEF c
<1>3. collections' \in [CollectionIds -> CollectionType]
  BY <1>1, <1>2 DEF TypeOK, CollectionType
<1>4. SettingsKept
  BY <1>1, <1>2 DEF TypeOK, CollectionType, SettingsKept
<1>5. \A k \in CollectionIds :
         /\ collections'[k].nextSerial = collections[k].nextSerial
         /\ collections'[k].mintedEver = collections[k].mintedEver
         /\ collections'[k].burned =
              IF k = c THEN collections[k].burned + 1 ELSE collections[k].burned
  BY <1>1, <1>2 DEF TypeOK, CollectionType
<1>6. /\ owner' \in [TokenIds -> Holders \cup {NoAddress}]
      /\ owner'[t] = NoAddress
      /\ \A u \in TokenIds : u # t => owner'[u] = owner[u]
  BY DEF TypeOK, burn
<1> QED BY <1>1, <1>3, <1>4, <1>5, <1>6 DEF burn, BurnAllowed, BurnEffect, c

-------------------------------------------------------------------------------
(* Types *)

\* A cap is a natural number, whichever caps the instance offers.
LEMMA SupplyNat ==
    \A r \in CollectionType : r.maxSupply \in Nat
<1>1. \A x \in Supplies \cup {0} : x \in Nat
  BY NumberAssumption
<1> QED BY <1>1 DEF CollectionType

\* The cleared preparation is a preparation record,
LEMMA PendingTyped == NoPending \in PendingType
BY DEF NoPending, PendingType

\* and the cleared frame is a frame.
LEMMA FrameTyped == NoFrame \in FrameType
BY DEF NoFrame, FrameType

\* The installed coordinator is a contract.
LEMMA CoordinatorTyped ==
    ASSUME TypeOK, NEW t \in TokenIds,
           coordinatorAtMint' = [coordinatorAtMint EXCEPT
                                   ![t] = pointers[ENTROPY_COORDINATOR].target]
    PROVE  coordinatorAtMint' \in [TokenIds -> Contracts \cup {NoAddress}]
<1>1. pointers[ENTROPY_COORDINATOR].target \in Contracts \cup {NoAddress}
  BY ModuleAssumption DEF TypeOK, PointerType
<1> QED BY <1>1 DEF TypeOK

-------------------------------------------------------------------------------
(* The steps, grouped by what they touch *)

Creates == \E s \in SupplyModes, n \in Supplies \cup {0}, i \in Statuses,
              class \in ActionClasses : createCollection(s, n, i, class)

\* Pointers, gas parameters and other contracts' code.
Outside ==
    \/ \E p \in PointerTypes, a \in Contracts, class \in ActionClasses :
         updateSatellitePointer(p, a, class)
    \/ \E p \in PointerTypes, class \in ActionClasses : freezeSatellitePointer(p, class)
    \/ \E p \in GasParameters, n \in 1 .. MaxGas, id \in ActionIds, class \in ActionClasses :
         raiseGasParameter(p, n, id, class)
    \/ \E a \in Contracts : CodeDies(a)

\* Every step of Core is of one of these kinds.
LEMMA NextKinds ==
    ASSUME Next
    PROVE  \/ Config \/ Creates \/ Outside
           \/ \E m \in Managers : Minting(m)
           \/ HookReturns \/ ReceiverReturns
           \/ \E t \in TokenIds : burn(t)
           \/ \E t \in TokenIds, h \in Holders : transferFrom(t, h)
<1>1. ASSUME NEW class \in ActionClasses, Governed(class)
      PROVE  Config \/ Creates \/ Outside
  <2>1. CASE \E s \in SupplyModes, n \in Supplies \cup {0}, i \in Statuses :
               createCollection(s, n, i, class)
    BY <2>1 DEF Creates
  <2>2. CASE \/ \E c \in CollectionIds, s \in Statuses : setCollectionStatus(c, s, class)
             \/ \E c \in CollectionIds, n \in Supplies : setCollectionMaxSupply(c, n, class)
             \/ \E c \in CollectionIds : blockCollectionBurns(c, class)
             \/ \E c \in CollectionIds : freezeCollection(c, class)
    BY <2>2 DEF Config
  <2>3. CASE \/ \E p \in PointerTypes, a \in Contracts : updateSatellitePointer(p, a, class)
             \/ \E p \in PointerTypes : freezeSatellitePointer(p, class)
             \/ \E p \in GasParameters, n \in 1 .. MaxGas, id \in ActionIds :
                  raiseGasParameter(p, n, id, class)
    BY <2>3 DEF Outside
  <2> QED BY <1>1, <2>1, <2>2, <2>3 DEF Governed
<1>2. ASSUME NEW a \in Contracts, CodeDies(a)
      PROVE  Outside
  BY <1>2 DEF Outside
<1> QED BY <1>1, <1>2 DEF Next

\* Pointers, gas values and code keep their types; nothing else moves.
OutsideEffect ==
    /\ pointers' \in [PointerTypes -> PointerType]
    /\ gas' \in [GasParameters -> GasType]
    /\ live' \subseteq Contracts
    /\ UNCHANGED <<collectionVars, identityVars, ownerVars, mintVars>>

\* Pointer and gas governance, and the death of a contract, have that effect.
LEMMA OutsideIs ==
    ASSUME TypeOK, Outside
    PROVE  OutsideEffect
<1>1. ASSUME NEW p \in PointerTypes, NEW a \in Contracts, NEW class \in ActionClasses,
             updateSatellitePointer(p, a, class)
      PROVE  OutsideEffect
  <2>1. pointers[p].revision + 1 \in 0 .. MaxRevision
    BY <1>1, NumberAssumption DEF TypeOK, updateSatellitePointer, ReplacementAllowed, PointerType
  <2>2. [target |-> a, frozen |-> FALSE, revision |-> pointers[p].revision + 1] \in PointerType
    BY <2>1 DEF PointerType
  <2> QED BY <1>1, <2>2 DEF TypeOK, updateSatellitePointer, ReplacementAllowed, OutsideEffect
<1>2. ASSUME NEW p \in PointerTypes, NEW class \in ActionClasses,
             freezeSatellitePointer(p, class)
      PROVE  OutsideEffect
  <2>1. pointers[p].revision + 1 \in 0 .. MaxRevision
    BY <1>2, NumberAssumption DEF TypeOK, freezeSatellitePointer, PointerType
  <2>2. [target |-> pointers[p].target, frozen |-> TRUE,
         revision |-> pointers[p].revision + 1] \in PointerType
    BY <2>1 DEF PointerType, TypeOK
  <2> QED BY <1>2, <2>2 DEF TypeOK, freezeSatellitePointer, OutsideEffect
<1>3. ASSUME NEW p \in GasParameters, NEW n \in 1 .. MaxGas, NEW id \in ActionIds,
             NEW class \in ActionClasses, raiseGasParameter(p, n, id, class)
      PROVE  OutsideEffect
  <2>1. gas[p].revision + 1 \in 1 .. MaxRevision
    BY <1>3, NumberAssumption DEF TypeOK, raiseGasParameter, setGovernedGasValue, GasType
  <2>2. [value |-> n, revision |-> gas[p].revision + 1, lastAction |-> id] \in GasType
    BY <2>1 DEF GasType
  <2> QED BY <1>3, <2>2 DEF TypeOK, raiseGasParameter, setGovernedGasValue, OutsideEffect
<1>4. ASSUME NEW a \in Contracts, CodeDies(a)
      PROVE  OutsideEffect
  BY <1>4 DEF TypeOK, CodeDies, OutsideEffect, governedVars
<1> QED BY <1>1, <1>2, <1>3, <1>4 DEF Outside

\* The burned tokens of a collection, before and after a step, read off the records.
LEMMA BurnedIs ==
    ASSUME NEW c \in CollectionIds
    PROVE  /\ BurnedOf(c) = {t \in TokenIds : /\ identities[t].collectionId = c
                                              /\ owner[t] = NoAddress
                                              /\ t # pending.tokenId /\ t # completion}
           /\ BurnedOf(c)' = {t \in TokenIds : /\ identities'[t].collectionId = c
                                               /\ owner'[t] = NoAddress
                                               /\ t # pending'.tokenId /\ t # completion'}
<1>1. c # 0 BY DEF CollectionIds
<1> QED BY <1>1 DEF BurnedOf, TokensOf, tokenLifecycle

\* The sets the supply counters count are finite.
LEMMA CountedFinite ==
    /\ IsFiniteSet(Owned) /\ IsFiniteSet(Owned')
    /\ \A c \in CollectionIds : IsFiniteSet(BurnedOf(c)) /\ IsFiniteSet(BurnedOf(c)')
<1>1. IsFiniteSet(TokenIds)
  BY FS_Interval, NumberAssumption DEF TokenIds
<1>2. /\ Owned \subseteq TokenIds /\ Owned' \subseteq TokenIds
      /\ \A c \in CollectionIds : BurnedOf(c) \subseteq TokenIds /\ BurnedOf(c)' \subseteq TokenIds
  BY BurnedIs DEF Owned
<1> QED BY <1>1, <1>2, FS_Subset

\* Where no mint is in flight, and where one is.
LEMMA NoneInFlight ==
    ASSUME FrameInv, pending.tokenId = 0, completion = 0
    PROVE  \A c \in CollectionIds : ~InFlight(c)
BY DEF FrameInv, InFlight

-------------------------------------------------------------------------------
(* Preservation, step by step *)

\* A governed change of settings keeps the invariant: it waits until no mint is in flight.
LEMMA ConfigKeeps ==
    ASSUME IInv, ConfigEffect
    PROVE  IInv'
<1> USE DEF IInv
<1>1. TypeOK'
  BY DEF TypeOK, ConfigEffect, identityVars, ownerVars, mintVars, governedVars
<1>2. PendingInv' /\ FrameInv'
  BY DEF PendingInv, FrameInv, ConfigEffect, CountersKept, identityVars, ownerVars, mintVars
<1>3. IdentityInv'
  BY DEF IdentityInv, ConfigEffect, identityVars, ownerVars
<1>4. SerialInv'
  BY DEF SerialInv, ConfigEffect, CountersKept, identityVars
<1>5. \A c \in CollectionIds : ~InFlight(c) /\ ~InFlight(c)'
  BY NoneInFlight DEF InFlight, ConfigEffect, mintVars
<1>6. MintedInv'
  BY <1>5 DEF MintedInv, ConfigEffect, CountersKept
<1>7. CountInv'
  <2>1. Owned' = Owned /\ \A c \in CollectionIds : BurnedOf(c)' = BurnedOf(c)
    BY BurnedIs DEF Owned, ConfigEffect, identityVars, ownerVars, mintVars
  <2> QED BY <2>1 DEF CountInv, ConfigEffect, CountersKept, ownerVars
<1>8. SupplyCapped'
  BY <1>5 DEF SupplyCapped, MintedInv, ConfigEffect, CountersKept, collectionExists, TypeOK,
              CollectionType, CollectionIds
<1>9. AdmissionStillValid'
  BY <1>5 DEF AdmissionStillValid
<1> QED BY <1>1, <1>2, <1>3, <1>4, <1>6, <1>7, <1>8, <1>9

\* Pointers, gas values and dying contracts are read by no part of the invariant.
LEMMA OutsideKeeps ==
    ASSUME IInv, OutsideEffect
    PROVE  IInv'
<1> USE DEF IInv
<1>0. UNCHANGED <<lastCollectionId, collections, lastTokenId, identities, tokenData,
                  coordinatorAtMint, owner, liveSupply, pending, completion, frame>>
  BY DEF OutsideEffect, collectionVars, identityVars, ownerVars, mintVars
<1>1. TypeOK'
  BY <1>0 DEF TypeOK, OutsideEffect
<1>2. PendingInv' /\ FrameInv'
  BY <1>0 DEF PendingInv, FrameInv
<1>3. IdentityInv' /\ SerialInv'
  BY <1>0 DEF IdentityInv, SerialInv
<1>5. \A c \in CollectionIds : InFlight(c)' = InFlight(c)
  BY <1>0 DEF InFlight
<1>6. MintedInv'
  BY <1>0, <1>5 DEF MintedInv
<1>7. CountInv'
  <2>1. Owned' = Owned /\ \A c \in CollectionIds : BurnedOf(c)' = BurnedOf(c)
    BY <1>0, BurnedIs DEF Owned
  <2> QED BY <1>0, <2>1 DEF CountInv
<1>8. SupplyCapped' /\ AdmissionStillValid'
  BY <1>0, <1>5 DEF SupplyCapped, AdmissionStillValid, collectionExists, Allocatable
<1> QED BY <1>1, <1>2, <1>3, <1>6, <1>7, <1>8

\* A new collection has no token, no serial and no mint in flight.
LEMMA CreateKeeps ==
    ASSUME IInv, CreateEffect
    PROVE  IInv'
<1> USE DEF IInv
<1> DEFINE n == lastCollectionId + 1
<1>0. /\ lastCollectionId' = n /\ n \in CollectionIds /\ lastCollectionId \in Nat
      /\ UNCHANGED <<lastTokenId, identities, tokenData, coordinatorAtMint, owner, liveSupply,
                     pending, completion, frame, pointers, gas, live>>
      /\ pending.tokenId = 0 /\ completion = 0
      /\ \A c \in CollectionIds : c # n => collections'[c] = collections[c]
      /\ collections'[n].nextSerial = 1
      /\ collections'[n].mintedEver = 0 /\ collections'[n].burned = 0
      /\ collections' \in [CollectionIds -> CollectionType]
  BY DEF TypeOK, CreateEffect, identityVars, ownerVars, mintVars, governedVars
<1>x. \A c \in CollectionIds : c <= n => c = n \/ c <= lastCollectionId
  BY <1>0 DEF CollectionIds
<1>y. \A t \in TokenIds : identities[t].collectionId # n
  BY <1>0 DEF IdentityInv, TypeOK, IdentityType, CollectionIds
<1> HIDE DEF n
<1>1. TypeOK'
  BY <1>0 DEF TypeOK, CollectionIds
<1>2. PendingInv' /\ FrameInv'
  BY <1>0 DEF PendingInv, FrameInv
<1>3. IdentityInv'
  BY <1>0 DEF IdentityInv, TypeOK, IdentityType, CollectionIds, n
<1>4. SerialInv'
  <2>1. \A c \in CollectionIds : c <= lastCollectionId' => collections'[c].nextSerial >= 1
    BY <1>0, <1>x DEF SerialInv
  <2>2. \A t \in TokenIds : \A c \in CollectionIds : identities'[t].collectionId = c =>
         /\ 1 <= identities'[t].collectionSerial
         /\ identities'[t].collectionSerial <= collections'[c].nextSerial - 1
    BY <1>0, <1>y DEF SerialInv
  <2>3. ASSUME NEW c \in CollectionIds, c <= lastCollectionId',
               NEW s \in 1 .. (collections'[c].nextSerial - 1)
        PROVE  \E t \in TokenIds : /\ identities'[t].collectionId = c
                                   /\ identities'[t].collectionSerial = s
    <3>1. c # n
      BY <1>0, <2>3
    <3> QED BY <1>0, <1>x, <2>3, <3>1 DEF SerialInv
  <2> QED BY <1>0, <2>1, <2>2, <2>3 DEF SerialInv
<1>5. \A c \in CollectionIds : ~InFlight(c) /\ ~InFlight(c)'
  BY <1>0, NoneInFlight DEF InFlight
<1>6. MintedInv'
  BY <1>0, <1>x, <1>5 DEF MintedInv
<1>7. CountInv'
  <2>1. Owned' = Owned /\ \A c \in CollectionIds : BurnedOf(c)' = BurnedOf(c)
    BY <1>0, BurnedIs DEF Owned
  <2>2. BurnedOf(n) = {}
    BY <1>0, <1>y, BurnedIs
  <2> QED BY <1>0, <1>x, <2>1, <2>2, FS_EmptySet DEF CountInv
<1>8. SupplyCapped'
  <2>1. \A c \in CollectionIds : collections'[c].maxSupply \in Nat
    BY <1>0, SupplyNat
  <2> QED BY <1>0, <1>x, <2>1 DEF SupplyCapped, collectionExists
<1>9. AdmissionStillValid'
  BY <1>5 DEF AdmissionStillValid
<1> QED BY <1>1, <1>2, <1>3, <1>4, <1>6, <1>7, <1>8, <1>9

\* An allocation keeps everything that does not depend on how the new token is held in
\* flight: as the prepared mint or as the completing one.
LEMMA AllocateKeeps ==
    ASSUME IInv, NEW c, NEW data, AllocateEffect(c, data),
           pending.tokenId = 0, completion = 0,
           lastTokenId' \in {pending'.tokenId, completion'},
           {pending'.tokenId, completion'} \subseteq {0, lastTokenId'},
           \A k \in CollectionIds : InFlight(k)' <=> k = c
    PROVE  /\ IdentityInv' /\ SerialInv' /\ MintedInv' /\ CountInv'
           /\ SupplyCapped' /\ AdmissionStillValid'
<1> USE DEF IInv
<1> DEFINE n == lastTokenId + 1
<1>0. /\ lastTokenId' = n /\ n \in TokenIds /\ lastTokenId \in Nat
      /\ c \in CollectionIds /\ c <= lastCollectionId
      /\ lastCollectionId' = lastCollectionId
      /\ owner' = owner /\ liveSupply' = liveSupply
      /\ identities'[n].collectionId = c
      /\ identities'[n].collectionSerial = collections[c].nextSerial
      /\ \A t \in TokenIds : t # n => identities'[t] = identities[t]
      /\ \A k \in CollectionIds :
            /\ collections'[k].nextSerial =
                 IF k = c THEN collections[k].nextSerial + 1 ELSE collections[k].nextSerial
            /\ collections'[k].mintedEver = collections[k].mintedEver
            /\ collections'[k].burned = collections[k].burned
            /\ collections[k].nextSerial \in Nat /\ collections[k].mintedEver \in Nat
  BY DEF AllocateEffect, TypeOK, CollectionType, ownerVars
<1>a. /\ identities[n].collectionId = 0 /\ owner[n] = NoAddress
      /\ \A t \in TokenIds : identities[t].collectionId # 0 => t < n
      /\ \A t \in TokenIds : identities[t].collectionSerial \in Nat
  <2>1. \A t \in TokenIds : t \in Nat /\ (t <= lastTokenId <=> t < n)
    BY <1>0 DEF TokenIds
  <2>2. \A t \in TokenIds : identities[t].collectionId # 0 => t < n
    BY <2>1 DEF IdentityInv
  <2>3. ~(n <= lastTokenId)
    BY <1>0
  <2>4. identities[n].collectionId = 0 /\ owner[n] = NoAddress
    BY <1>0, <2>3 DEF IdentityInv
  <2>5. \A t \in TokenIds : identities[t].collectionSerial \in Nat
    BY DEF TypeOK, IdentityType
  <2> QED BY <2>2, <2>4, <2>5
<1>b. \A k \in CollectionIds : k # 0
  BY DEF CollectionIds
<1>c. Allocatable(c) /\ SettingsKept
  BY DEF AllocateEffect
<1>d. \A t \in TokenIds : t <= n <=> t = n \/ t <= lastTokenId
  BY <1>0 DEF TokenIds, n
<1> HIDE DEF n
<1>1. IdentityInv'
  BY <1>0, <1>a, <1>b, <1>d DEF IdentityInv
<1>2. SerialInv'
  <2>1. \A k \in CollectionIds : k <= lastCollectionId' => collections'[k].nextSerial >= 1
    BY <1>0 DEF SerialInv
  <2>2. ASSUME NEW t \in TokenIds, NEW k \in CollectionIds, identities'[t].collectionId = k
        PROVE  /\ 1 <= identities'[t].collectionSerial
               /\ identities'[t].collectionSerial <= collections'[k].nextSerial - 1
    <3>1. CASE t = n
      BY <1>0, <2>2, <3>1 DEF SerialInv
    <3>2. CASE t # n
      BY <1>0, <1>a, <2>2, <3>2 DEF SerialInv
    <3> QED BY <3>1, <3>2
  <2>3. ASSUME NEW t \in TokenIds, NEW u \in TokenIds, t < u,
               identities'[t].collectionId # 0,
               identities'[t].collectionId = identities'[u].collectionId
        PROVE  identities'[t].collectionSerial < identities'[u].collectionSerial
    <3>1. CASE u = n
      <4>1. t # n /\ identities[t].collectionId = c
        BY <1>0, <2>3, <3>1 DEF TokenIds
      <4> QED BY <1>0, <1>a, <2>3, <3>1, <4>1 DEF SerialInv
    <3>2. CASE u # n
      <4>1. t # n
        <5>1. SUFFICES ASSUME t = n PROVE FALSE
          OBVIOUS
        <5>2. identities[u].collectionId # 0
          BY <1>0, <1>b, <2>3, <3>2, <5>1
        <5> QED BY <1>a, <2>3, <5>1, <5>2 DEF TokenIds
      <4> QED BY <1>0, <2>3, <3>2, <4>1 DEF SerialInv
    <3> QED BY <3>1, <3>2
  <2>4. ASSUME NEW k \in CollectionIds, k <= lastCollectionId',
               NEW s \in 1 .. (collections'[k].nextSerial - 1)
        PROVE  \E t \in TokenIds : /\ identities'[t].collectionId = k
                                   /\ identities'[t].collectionSerial = s
    <3>1. CASE k = c /\ s = collections[c].nextSerial
      BY <1>0, <3>1
    <3>2. CASE ~(k = c /\ s = collections[c].nextSerial)
      <4>1. s \in 1 .. (collections[k].nextSerial - 1)
        BY <1>0, <2>4, <3>2
      <4>2. PICK t \in TokenIds : /\ identities[t].collectionId = k
                                  /\ identities[t].collectionSerial = s
        BY <1>0, <2>4, <4>1 DEF SerialInv
      <4>3. t # n
        BY <1>a, <1>b, <4>2
      <4> QED BY <1>0, <4>2, <4>3
    <3> QED BY <3>1, <3>2
  <2> QED BY <2>1, <2>2, <2>3, <2>4 DEF SerialInv
<1>3. \A k \in CollectionIds : ~InFlight(k)
  BY NoneInFlight
<1>4. MintedInv'
  BY <1>0, <1>3 DEF MintedInv
<1>5. CountInv'
  <2>1. Owned' = Owned
    BY <1>0 DEF Owned
  <2>2. \A k \in CollectionIds : BurnedOf(k)' = BurnedOf(k)
    <3>1. SUFFICES ASSUME NEW k \in CollectionIds, NEW t \in TokenIds
                   PROVE  t \in BurnedOf(k)' <=> t \in BurnedOf(k)
      BY BurnedIs
    <3>2. t # 0
      BY DEF TokenIds
    <3>3. CASE t = n
      <4>1. t \notin BurnedOf(k)'
        BY <1>0, <3>3, BurnedIs
      <4> QED BY <1>a, <1>b, <3>3, <4>1, BurnedIs
    <3>4. CASE t # n
      BY <1>0, <3>2, <3>4, BurnedIs
    <3> QED BY <3>3, <3>4
  <2> QED BY <1>0, <2>1, <2>2 DEF CountInv
<1>6. SupplyCapped'
  <2>1. SUFFICES ASSUME NEW k \in CollectionIds, k <= lastCollectionId,
                        collections[k].supplyMode # "UNCAPPED_OPEN"
                 PROVE  collections'[k].nextSerial - 1 <= collections'[k].maxSupply
    BY <1>0, <1>c DEF SupplyCapped, collectionExists, SettingsKept
  <2>2. collections'[k].maxSupply = collections[k].maxSupply /\ collections[k].maxSupply \in Nat
    BY <1>c, SupplyNat DEF SettingsKept, TypeOK
  <2>3. CASE k = c
    <3>1. collections[k].mintedEver < collections[k].maxSupply
      BY <1>c, <2>1, <2>3 DEF Allocatable
    <3>2. collections[k].nextSerial - 1 = collections[k].mintedEver
      BY <1>0, <1>3, <2>1 DEF MintedInv
    <3> QED BY <1>0, <2>2, <2>3, <3>1, <3>2
  <2>4. CASE k # c
    BY <1>0, <1>b, <2>1, <2>2, <2>4 DEF SupplyCapped, collectionExists
  <2> QED BY <2>3, <2>4
<1>7. AdmissionStillValid'
  BY <1>0, <1>b, <1>c DEF AdmissionStillValid, collectionExists, Allocatable, SettingsKept
<1> QED BY <1>1, <1>2, <1>4, <1>5, <1>6, <1>7

\* mintFromManager allocates and opens the completion frame in one step.
LEMMA MintKeeps ==
    ASSUME IInv, NEW m \in Managers, NEW c \in CollectionIds, NEW h \in Holders,
           NEW d \in TokenData, mintFromManager(m, c, h, d)
    PROVE  IInv'
<1> USE DEF IInv
<1>1. AllocateEffect(c, d)
  BY AllocateIs DEF mintFromManager
<1>2. /\ pending.tokenId = 0 /\ completion = 0 /\ pending' = pending
      /\ completion' = lastTokenId + 1
      /\ frame' = [callee |-> "coordinator", collectionId |-> c, recipient |-> h,
                   prepared |-> FALSE]
      /\ coordinatorAtMint' = [coordinatorAtMint EXCEPT
                                 ![lastTokenId + 1] = pointers[ENTROPY_COORDINATOR].target]
  BY DEF mintFromManager, requireNoMintExecution, enterCoordinator
<1>3. /\ lastTokenId' = lastTokenId + 1 /\ lastTokenId + 1 \in TokenIds
      /\ identities'[lastTokenId + 1].collectionId = c
      /\ owner' = owner /\ liveSupply' = liveSupply /\ lastCollectionId' = lastCollectionId
      /\ pointers' = pointers /\ gas' = gas /\ live' = live
  BY <1>1 DEF AllocateEffect, ownerVars, governedVars
<1>4. \A k \in CollectionIds : InFlight(k)' <=> k = c
  BY <1>2 DEF InFlight
<1>5. coordinatorAtMint' \in [TokenIds -> Contracts \cup {NoAddress}]
  BY <1>2, <1>3, CoordinatorTyped
<1>6. frame' \in FrameType
  BY <1>2 DEF FrameType
<1>7. TypeOK'
  BY <1>1, <1>2, <1>3, <1>5, <1>6 DEF TypeOK, AllocateEffect, TokenIds
<1>8. owner[lastTokenId + 1] = NoAddress
  BY <1>3 DEF IdentityInv, TypeOK
<1>9. PendingInv' /\ FrameInv'
  BY <1>2, <1>3, <1>8 DEF PendingInv, FrameInv, TokenIds
<1> QED BY <1>1, <1>2, <1>3, <1>4, <1>7, <1>9, AllocateKeeps

\* prepareMintFromManager allocates and leaves the token pending.
LEMMA PrepareKeeps ==
    ASSUME IInv, NEW m \in Managers, NEW c \in CollectionIds, NEW d \in TokenData,
           NEW o \in OperationIds, prepareMintFromManager(m, c, d, o)
    PROVE  IInv'
<1> USE DEF IInv
<1>1. AllocateEffect(c, d)
  BY AllocateIs DEF prepareMintFromManager
<1>2. /\ pending.tokenId = 0 /\ completion = 0 /\ completion' = 0 /\ frame' = frame
      /\ pending' = [tokenId |-> lastTokenId + 1, operationId |-> o,
                     collectionId |-> c, preparingManager |-> m]
      /\ coordinatorAtMint' = coordinatorAtMint
  BY DEF prepareMintFromManager, requireNoMintExecution
<1>3. /\ lastTokenId' = lastTokenId + 1 /\ lastTokenId + 1 \in TokenIds
      /\ identities'[lastTokenId + 1].collectionId = c
      /\ identities'[lastTokenId + 1].collectionSerial = collections[c].nextSerial
      /\ collections'[c].nextSerial = collections[c].nextSerial + 1
      /\ collections[c].nextSerial \in Nat
      /\ owner' = owner /\ liveSupply' = liveSupply /\ lastCollectionId' = lastCollectionId
      /\ pointers' = pointers /\ gas' = gas /\ live' = live
  BY <1>1 DEF AllocateEffect, ownerVars, governedVars, TypeOK, CollectionType
<1>4. \A k \in CollectionIds : InFlight(k)' <=> k = c
  <2>1. frame.callee # "coordinator" /\ lastTokenId + 1 # 0
    BY <1>2, <1>3 DEF FrameInv, TokenIds
  <2> QED BY <1>2, <2>1 DEF InFlight
<1>5. pending' \in PendingType
  BY <1>2, <1>3 DEF PendingType
<1>6. TypeOK'
  BY <1>1, <1>2, <1>3, <1>5 DEF TypeOK, AllocateEffect, TokenIds
<1>7. owner[lastTokenId + 1] = NoAddress
  BY <1>3 DEF IdentityInv, TypeOK
<1>8. PendingInv' /\ FrameInv'
  BY <1>2, <1>3, <1>7 DEF PendingInv, FrameInv, TokenIds
<1> QED BY <1>1, <1>2, <1>3, <1>4, <1>6, <1>8, AllocateKeeps

\* completePreparedMintFromManager turns the pending token into the completing one.
LEMMA CompleteKeeps ==
    ASSUME IInv, NEW m \in Managers, NEW t \in TokenIds, NEW h \in Holders,
           NEW o \in OperationIds, completePreparedMintFromManager(m, t, h, o)
    PROVE  IInv'
<1> USE DEF IInv
<1>1. /\ pending.tokenId # 0 /\ completion = 0 /\ t = pending.tokenId
      /\ pending' = NoPending /\ pending'.tokenId = 0 /\ completion' = t
      /\ frame' = [callee |-> "coordinator", collectionId |-> pending.collectionId,
                   recipient |-> h, prepared |-> TRUE]
      /\ coordinatorAtMint' = [coordinatorAtMint EXCEPT
                                 ![t] = pointers[ENTROPY_COORDINATOR].target]
      /\ UNCHANGED <<lastCollectionId, collections, lastTokenId, identities, tokenData, owner,
                     liveSupply, pointers, gas, live>>
  BY DEF completePreparedMintFromManager, Completes, enterCoordinator, NoPending,
         collectionVars, ownerVars, governedVars
<1>2. /\ t = lastTokenId /\ pending.collectionId \in CollectionIds
      /\ identities[lastTokenId].collectionId = pending.collectionId
      /\ owner[lastTokenId] = NoAddress /\ frame.callee = "none"
  BY <1>1 DEF PendingInv, FrameInv
<1>3. \A k \in CollectionIds : InFlight(k)' <=> InFlight(k)
  BY <1>1, <1>2 DEF InFlight
<1>4. coordinatorAtMint' \in [TokenIds -> Contracts \cup {NoAddress}]
  BY <1>1, CoordinatorTyped
<1>5. frame' \in FrameType
  BY <1>1, <1>2 DEF FrameType
<1>6. TypeOK'
  BY <1>1, <1>4, <1>5, PendingTyped DEF TypeOK
<1>7. PendingInv' /\ FrameInv'
  BY <1>1, <1>2 DEF PendingInv, FrameInv, TokenIds
<1>8. IdentityInv' /\ SerialInv'
  BY <1>1 DEF IdentityInv, SerialInv
<1>9. MintedInv'
  BY <1>1, <1>3 DEF MintedInv
<1>10. CountInv'
  <2>1. Owned' = Owned
    BY <1>1 DEF Owned
  <2>2. \A k \in CollectionIds : BurnedOf(k)' = BurnedOf(k)
    BY <1>1, BurnedIs DEF TokenIds
  <2> QED BY <1>1, <2>1, <2>2 DEF CountInv
<1>11. SupplyCapped' /\ AdmissionStillValid'
  BY <1>1, <1>3 DEF SupplyCapped, AdmissionStillValid, collectionExists, Allocatable
<1> QED BY <1>6, <1>7, <1>8, <1>9, <1>10, <1>11

\* Counting the completing token and giving it an owner keeps counters and sets together.
LEMMA HookKeeps ==
    ASSUME IInv, CountEffect
    PROVE  IInv'
<1> USE DEF IInv
<1>1. /\ completion # 0 /\ completion = lastTokenId /\ lastTokenId \in TokenIds
      /\ frame.callee = "coordinator" /\ frame.collectionId \in CollectionIds
      /\ identities[lastTokenId].collectionId = frame.collectionId
      /\ owner[lastTokenId] = NoAddress /\ frame.recipient \in Holders
      /\ frame.recipient # NoAddress /\ pending.tokenId = 0
  BY HolderAssumption DEF CountEffect, FrameInv, PendingInv, TypeOK
<1>2. /\ owner'[lastTokenId] = frame.recipient
      /\ \A t \in TokenIds : t # lastTokenId => owner'[t] = owner[t]
      /\ UNCHANGED <<lastCollectionId, lastTokenId, identities, tokenData, coordinatorAtMint,
                     pending, pointers, gas, live>>
      /\ liveSupply' = liveSupply + 1
  BY DEF CountEffect, identityVars, governedVars
<1>3. \/ frame'.callee = "receiver" /\ completion' = completion /\ frame' \in FrameType
         /\ frame'.collectionId = frame.collectionId
      \/ frame'.callee = "none" /\ completion' = 0 /\ frame' \in FrameType
  BY FrameTyped DEF CountEffect, TypeOK, FrameType, NoFrame
<1>4. \A k \in CollectionIds : ~InFlight(k)' /\ (InFlight(k) <=> k = frame.collectionId)
  BY <1>1, <1>2, <1>3 DEF InFlight
<1>5. TypeOK'
  BY <1>1, <1>2, <1>3 DEF TypeOK, CountEffect
<1>6. PendingInv' /\ FrameInv'
  BY <1>1, <1>2, <1>3 DEF PendingInv, FrameInv
<1>7. IdentityInv'
  <2>1. lastTokenId <= lastTokenId
    BY DEF TypeOK
  <2>2. \A t \in TokenIds : owner'[t] # NoAddress => t <= lastTokenId
    BY <1>2, <2>1 DEF IdentityInv
  <2> QED BY <1>2, <2>2 DEF IdentityInv
<1>8. SerialInv'
  BY <1>2 DEF SerialInv, CountEffect
<1>9. MintedInv'
  BY <1>2, <1>4 DEF MintedInv, CountEffect, TypeOK, CollectionType
<1>10. CountInv'
  <2>1. Owned' = Owned \cup {lastTokenId} /\ lastTokenId \notin Owned
    BY <1>1, <1>2 DEF Owned
  <2>2. \A k \in CollectionIds : BurnedOf(k)' = BurnedOf(k)
    <3>1. SUFFICES ASSUME NEW k \in CollectionIds, NEW t \in TokenIds
                   PROVE  t \in BurnedOf(k)' <=> t \in BurnedOf(k)
      BY BurnedIs
    <3>2. CASE t = lastTokenId
      BY <1>1, <1>2, <3>2, BurnedIs
    <3>3. CASE t # lastTokenId
      BY <1>1, <1>2, <1>3, <3>3, BurnedIs DEF TokenIds
    <3> QED BY <3>2, <3>3
  <2>3. Cardinality(Owned') = Cardinality(Owned) + 1
    BY <2>1, CountedFinite, FS_AddElement
  <2> QED BY <1>2, <2>2, <2>3 DEF CountInv, CountEffect
<1>11. SupplyCapped'
  BY <1>2 DEF SupplyCapped, CountEffect, SettingsKept, collectionExists
<1>12. AdmissionStillValid'
  BY <1>4 DEF AdmissionStillValid
<1> QED BY <1>5, <1>6, <1>7, <1>8, <1>9, <1>10, <1>11, <1>12

\* Closing the frame forgets a token that is counted and owned already.
LEMMA ReceiverKeeps ==
    ASSUME IInv, ReceiverReturns
    PROVE  IInv'
<1> USE DEF IInv
<1>1. /\ frame.callee = "receiver" /\ frame' = NoFrame /\ frame'.callee = "none"
      /\ completion' = 0
      /\ UNCHANGED <<lastCollectionId, collections, lastTokenId, identities, tokenData,
                     coordinatorAtMint, owner, liveSupply, pending, pointers, gas, live>>
  BY DEF ReceiverReturns, NoFrame, collectionVars, identityVars, ownerVars, governedVars
<1>2. /\ completion = lastTokenId /\ owner[lastTokenId] # NoAddress /\ pending.tokenId = 0
  BY <1>1 DEF FrameInv, PendingInv
<1>3. \A k \in CollectionIds : InFlight(k)' <=> InFlight(k)
  BY <1>1, <1>2 DEF InFlight
<1>4. TypeOK'
  BY <1>1, FrameTyped DEF TypeOK
<1>5. PendingInv' /\ FrameInv'
  BY <1>1, <1>2 DEF PendingInv, FrameInv
<1>6. IdentityInv' /\ SerialInv'
  BY <1>1 DEF IdentityInv, SerialInv
<1>7. MintedInv'
  BY <1>1, <1>3 DEF MintedInv
<1>8. CountInv'
  <2>1. Owned' = Owned
    BY <1>1 DEF Owned
  <2>2. \A k \in CollectionIds : BurnedOf(k)' = BurnedOf(k)
    BY <1>1, <1>2, BurnedIs DEF TokenIds
  <2> QED BY <1>1, <2>1, <2>2 DEF CountInv
<1>9. SupplyCapped' /\ AdmissionStillValid'
  BY <1>1, <1>3 DEF SupplyCapped, AdmissionStillValid, collectionExists, Allocatable
<1> QED BY <1>4, <1>5, <1>6, <1>7, <1>8, <1>9

\* A transfer, in a callback window too, changes who owns a token and not whether it is owned.
LEMMA TransferKeeps ==
    ASSUME IInv, NEW t \in TokenIds, NEW h \in Holders, transferFrom(t, h)
    PROVE  IInv'
<1> USE DEF IInv
<1>1. /\ owner[t] # NoAddress /\ owner' = [owner EXCEPT ![t] = h] /\ h # NoAddress
      /\ UNCHANGED <<lastCollectionId, collections, lastTokenId, identities, tokenData,
                     coordinatorAtMint, liveSupply, pending, completion, frame,
                     pointers, gas, live>>
  BY HolderAssumption DEF transferFrom, collectionVars, identityVars, mintVars, governedVars
<1>2. \A u \in TokenIds : owner'[u] = NoAddress <=> owner[u] = NoAddress
  BY <1>1 DEF TypeOK
<1>3. \A k \in CollectionIds : InFlight(k)' <=> InFlight(k)
  BY <1>1 DEF InFlight
<1>4. TypeOK'
  BY <1>1 DEF TypeOK
<1>5. PendingInv' /\ FrameInv'
  <2>1. pending.tokenId # 0 \/ completion # 0 => lastTokenId \in TokenIds
    BY DEF PendingInv, FrameInv, TypeOK, PendingType
  <2>2. PendingInv'
    BY <1>1, <1>2, <2>1 DEF PendingInv
  <2>3. FrameInv'
    BY <1>1, <1>2, <2>1 DEF FrameInv
  <2> QED BY <2>2, <2>3
<1>6. IdentityInv' /\ SerialInv'
  BY <1>1, <1>2 DEF IdentityInv, SerialInv
<1>7. MintedInv'
  BY <1>1, <1>3 DEF MintedInv
<1>8. CountInv'
  <2>1. Owned' = Owned /\ \A k \in CollectionIds : BurnedOf(k)' = BurnedOf(k)
    BY <1>1, <1>2, BurnedIs DEF Owned
  <2> QED BY <1>1, <2>1 DEF CountInv
<1>9. SupplyCapped' /\ AdmissionStillValid'
  BY <1>1, <1>3 DEF SupplyCapped, AdmissionStillValid, collectionExists, Allocatable
<1> QED BY <1>4, <1>5, <1>6, <1>7, <1>8, <1>9

\* An abort rewinds the id and the serial that the pending token took, and no other.
LEMMA AbortKeeps ==
    ASSUME IInv, AbortEffect
    PROVE  IInv'
<1> USE DEF IInv
<1> DEFINE n == lastTokenId
<1> DEFINE c == pending.collectionId
<1>1. /\ n \in TokenIds /\ n = pending.tokenId /\ completion = 0 /\ c \in CollectionIds
      /\ identities[n].collectionId = c
      /\ identities[n].collectionSerial = collections[c].nextSerial - 1
      /\ owner[n] = NoAddress /\ frame.callee = "none"
  BY DEF AbortEffect, PendingInv, FrameInv, TypeOK, PendingType
<1>2. /\ lastTokenId' = n - 1 /\ pending'.tokenId = 0 /\ pending' \in PendingType
      /\ UNCHANGED <<lastCollectionId, completion, frame, owner, liveSupply, pointers, gas, live>>
      /\ identities'[n].collectionId = 0
      /\ \A t \in TokenIds : t # n => identities'[t] = identities[t]
      /\ \A k \in CollectionIds :
            /\ collections'[k].nextSerial =
                 IF k = c THEN collections[k].nextSerial - 1 ELSE collections[k].nextSerial
            /\ collections'[k].mintedEver = collections[k].mintedEver
            /\ collections'[k].burned = collections[k].burned
            /\ collections[k].nextSerial \in Nat /\ collections[k].mintedEver \in Nat
  BY PendingTyped DEF AbortEffect, TypeOK, CollectionType, NoPending, NoIdentity, ownerVars,
                      governedVars
<1>3. /\ \A k \in CollectionIds : k # 0
      /\ n - 1 \in 0 .. MaxUint
      /\ \A t \in TokenIds : t \in Nat /\ (t <= n - 1 <=> t <= n /\ t # n)
      /\ \A t \in TokenIds : identities[t].collectionSerial \in Nat
  BY <1>1, NumberAssumption DEF CollectionIds, TokenIds, TypeOK, IdentityType
<1>4. c <= lastCollectionId /\ \A t \in TokenIds : owner[t] # NoAddress => t # n
  BY <1>1 DEF IdentityInv
<1>5. \A k \in CollectionIds : ~InFlight(k)' /\ (InFlight(k) <=> k = c)
  BY <1>1, <1>2, <1>3 DEF InFlight, TokenIds
<1> HIDE DEF n, c
<1>6. TypeOK'
  BY <1>2, <1>3 DEF TypeOK, AbortEffect
<1>7. PendingInv' /\ FrameInv'
  BY <1>1, <1>2 DEF PendingInv, FrameInv
<1>8. IdentityInv'
  <2>1. \A t \in TokenIds : identities'[t].collectionId # 0 <=> t <= n - 1
    BY <1>2, <1>3 DEF IdentityInv, n
  <2>2. \A t \in TokenIds : identities'[t].collectionId <= lastCollectionId
    BY <1>2 DEF IdentityInv, TypeOK
  <2>3. \A t \in TokenIds : owner[t] # NoAddress => t <= n - 1
    BY <1>3, <1>4 DEF IdentityInv, n
  <2> QED BY <1>2, <2>1, <2>2, <2>3 DEF IdentityInv
<1>9. SerialInv'
  <2>1. collections[c].nextSerial - 1 >= 1
    BY <1>1, <1>3 DEF SerialInv
  <2>2. \A k \in CollectionIds : k <= lastCollectionId' => collections'[k].nextSerial >= 1
    BY <1>2, <2>1 DEF SerialInv
  <2>3. ASSUME NEW t \in TokenIds, NEW k \in CollectionIds, identities'[t].collectionId = k
        PROVE  /\ 1 <= identities'[t].collectionSerial
               /\ identities'[t].collectionSerial <= collections'[k].nextSerial - 1
    <3>1. t # n /\ identities[t].collectionId = k
      BY <1>2, <1>3, <2>3
    <3>2. CASE k = c
      <4>1. t < n
        BY <1>3, <3>1 DEF IdentityInv, n, TypeOK
      <4>2. identities[t].collectionSerial < collections[c].nextSerial - 1
        BY <1>1, <1>3, <3>1, <3>2, <4>1 DEF SerialInv
      <4>3. 1 <= identities[t].collectionSerial
        BY <3>1 DEF SerialInv
      <4> QED BY <1>1, <1>2, <1>3, <3>1, <3>2, <4>2, <4>3
    <3>3. CASE k # c
      BY <1>2, <3>1, <3>3 DEF SerialInv
    <3> QED BY <3>2, <3>3
  <2>4. ASSUME NEW t \in TokenIds, NEW u \in TokenIds, t < u,
               identities'[t].collectionId # 0,
               identities'[t].collectionId = identities'[u].collectionId
        PROVE  identities'[t].collectionSerial < identities'[u].collectionSerial
    BY <1>2, <2>4 DEF SerialInv
  <2>5. ASSUME NEW k \in CollectionIds, k <= lastCollectionId',
               NEW s \in 1 .. (collections'[k].nextSerial - 1)
        PROVE  \E t \in TokenIds : /\ identities'[t].collectionId = k
                                   /\ identities'[t].collectionSerial = s
    <3>1. s \in 1 .. (collections[k].nextSerial - 1)
      BY <1>2, <2>5
    <3>2. PICK t \in TokenIds : /\ identities[t].collectionId = k
                                /\ identities[t].collectionSerial = s
      BY <1>2, <2>5, <3>1 DEF SerialInv
    <3>3. t # n
      <4>1. k = c => s # collections[c].nextSerial - 1
        BY <1>2, <2>5
      <4> QED BY <1>1, <3>2, <4>1
    <3> QED BY <1>2, <3>2, <3>3
  <2> QED BY <2>2, <2>3, <2>4, <2>5 DEF SerialInv
<1>10. MintedInv'
  BY <1>2, <1>5 DEF MintedInv
<1>11. CountInv'
  <2>1. Owned' = Owned
    BY <1>2 DEF Owned
  <2>2. \A k \in CollectionIds : BurnedOf(k)' = BurnedOf(k)
    <3>1. SUFFICES ASSUME NEW k \in CollectionIds, NEW t \in TokenIds
                   PROVE  t \in BurnedOf(k)' <=> t \in BurnedOf(k)
      BY BurnedIs
    <3>2. CASE t = n
      BY <1>1, <1>2, <1>3, <3>2, BurnedIs
    <3>3. CASE t # n
      BY <1>1, <1>2, <3>3, BurnedIs DEF TokenIds
    <3> QED BY <3>2, <3>3
  <2> QED BY <1>2, <2>1, <2>2 DEF CountInv
<1>12. SupplyCapped'
  <2>1. \A k \in CollectionIds : collections[k].maxSupply \in Nat
    BY SupplyNat DEF TypeOK
  <2> QED BY <1>2, <2>1 DEF SupplyCapped, AbortEffect, SettingsKept, collectionExists
<1>13. AdmissionStillValid'
  BY <1>5 DEF AdmissionStillValid
<1> QED BY <1>6, <1>7, <1>8, <1>9, <1>10, <1>11, <1>12, <1>13

\* A burn moves one token from the owned to the burned, and the counters with it.
LEMMA BurnKeeps ==
    ASSUME IInv, NEW t \in TokenIds, BurnEffect(t)
    PROVE  IInv'
<1> USE DEF IInv
<1>0. PICK c \in CollectionIds : c = identities[t].collectionId
  BY DEF BurnEffect
<1>1. /\ c \in CollectionIds /\ c <= lastCollectionId
      /\ completion = 0 /\ owner[t] # NoAddress
      /\ owner'[t] = NoAddress
      /\ \A u \in TokenIds : u # t => owner'[u] = owner[u]
      /\ liveSupply' = liveSupply - 1
      /\ \A k \in CollectionIds :
            /\ collections'[k].nextSerial = collections[k].nextSerial
            /\ collections'[k].mintedEver = collections[k].mintedEver
            /\ collections'[k].burned =
                 IF k = c THEN collections[k].burned + 1 ELSE collections[k].burned
            /\ collections[k].burned \in Nat
      /\ UNCHANGED <<lastCollectionId, lastTokenId, identities, tokenData, coordinatorAtMint,
                     pending, completion, frame, pointers, gas, live>>
  BY <1>0 DEF BurnEffect, identityVars, mintVars, governedVars, TypeOK, CollectionType
<1>2. identities[t].collectionId = c
  BY <1>0
<1>3. t # pending.tokenId
  <2>1. t # 0
    BY DEF TokenIds
  <2> QED BY <1>1, <2>1 DEF PendingInv
<1>4. \A k \in CollectionIds : InFlight(k)' <=> InFlight(k)
  BY <1>1 DEF InFlight
<1>5. Owned' = Owned \ {t} /\ t \in Owned
  BY <1>1 DEF Owned
<1>6. Cardinality(Owned') = Cardinality(Owned) - 1 /\ liveSupply - 1 \in Nat
  <2>1. Cardinality(Owned') = Cardinality(Owned) - 1
    BY <1>5, CountedFinite, FS_RemoveElement
  <2>2. Cardinality(Owned') \in Nat
    BY CountedFinite, FS_CardinalityType
  <2> QED BY <2>1, <2>2 DEF CountInv
<1>7. TypeOK'
  BY <1>1, <1>6 DEF TypeOK, BurnEffect
<1>8. PendingInv' /\ FrameInv'
  BY <1>1, <1>3 DEF PendingInv, FrameInv, TypeOK, PendingType
<1>9. IdentityInv' /\ SerialInv'
  BY <1>1 DEF IdentityInv, SerialInv
<1>10. MintedInv'
  BY <1>1, <1>4 DEF MintedInv
<1>11. CountInv'
  <2>1. BurnedOf(c)' = BurnedOf(c) \cup {t} /\ t \notin BurnedOf(c)
    <3>1. t \in BurnedOf(c)' /\ t \notin BurnedOf(c)
      BY <1>1, <1>2, <1>3, BurnedIs DEF TokenIds
    <3>2. \A u \in TokenIds : u # t => (u \in BurnedOf(c)' <=> u \in BurnedOf(c))
      BY <1>1, BurnedIs
    <3>3. BurnedOf(c) \subseteq TokenIds /\ BurnedOf(c)' \subseteq TokenIds
      BY <1>1, BurnedIs
    <3> QED BY <3>1, <3>2, <3>3
  <2>2. Cardinality(BurnedOf(c)') = Cardinality(BurnedOf(c)) + 1
    BY <1>1, <2>1, CountedFinite, FS_AddElement
  <2>3. ASSUME NEW k \in CollectionIds, k # c
        PROVE  BurnedOf(k)' = BurnedOf(k)
    <3>1. t \notin BurnedOf(k) /\ t \notin BurnedOf(k)'
      BY <1>1, <1>2, <2>3, BurnedIs
    <3>2. \A u \in TokenIds : u # t => (u \in BurnedOf(k)' <=> u \in BurnedOf(k))
      BY <1>1, BurnedIs
    <3>3. BurnedOf(k) \subseteq TokenIds /\ BurnedOf(k)' \subseteq TokenIds
      BY BurnedIs
    <3> QED BY <3>1, <3>2, <3>3
  <2> QED BY <1>1, <1>6, <2>2, <2>3 DEF CountInv
<1>12. SupplyCapped' /\ AdmissionStillValid'
  <2>1. SettingsKept
    BY DEF BurnEffect
  <2>2. \A k \in CollectionIds : Allocatable(k)' <=> Allocatable(k)
    BY <1>1, <2>1 DEF Allocatable, SettingsKept
  <2> QED BY <1>1, <1>4, <2>1, <2>2
          DEF SupplyCapped, AdmissionStillValid, collectionExists, SettingsKept
<1> QED BY <1>7, <1>8, <1>9, <1>10, <1>11, <1>12

-------------------------------------------------------------------------------
(* The invariant and what follows from it *)

\* The invariant holds of a freshly deployed Core.
LEMMA InitInv ==
    ASSUME Init
    PROVE  IInv
<1>0. /\ lastCollectionId = 0 /\ lastTokenId = 0 /\ liveSupply = 0 /\ completion = 0
      /\ pending.tokenId = 0 /\ frame.callee = "none" /\ live = Contracts
      /\ \A t \in TokenIds : identities[t].collectionId = 0 /\ owner[t] = NoAddress
  BY DEF Init, NoPending, NoFrame, NoIdentity
<1>1. TypeOK
  <2>1. NoCollection \in CollectionType
    BY NumberAssumption DEF NoCollection, CollectionType, SupplyModes, Statuses
  <2>2. NoIdentity \in IdentityType
    BY DEF NoIdentity, IdentityType
  <2>3. /\ UnsetPointer \in PointerType
        /\ [target |-> GenesisRegistry, frozen |-> FALSE, revision |-> 1] \in PointerType
    BY NumberAssumption, ModuleAssumption DEF UnsetPointer, PointerType, Contracts
  <2>4. [value |-> GenesisGas, revision |-> 1, lastAction |-> NoAction] \in GasType
    BY NumberAssumption DEF GasType
  <2> QED BY <2>1, <2>2, <2>3, <2>4, PendingTyped, FrameTyped, NumberAssumption DEF Init, TypeOK
<1>2. PendingInv /\ FrameInv
  BY <1>0 DEF PendingInv, FrameInv
<1>3. IdentityInv
  BY <1>0 DEF IdentityInv, TokenIds
<1>4. \A c \in CollectionIds : ~(c <= lastCollectionId) /\ c # 0 /\ ~InFlight(c)
  BY <1>0 DEF CollectionIds, InFlight
<1>5. SerialInv
  BY <1>0, <1>4 DEF SerialInv
<1>6. MintedInv /\ SupplyCapped /\ AdmissionStillValid
  BY <1>4 DEF MintedInv, SupplyCapped, AdmissionStillValid, collectionExists
<1>7. CountInv
  <2>1. Owned = {}
    BY <1>0 DEF Owned
  <2> QED BY <1>0, <1>4, <2>1, FS_EmptySet DEF CountInv
<1> QED BY <1>1, <1>2, <1>3, <1>5, <1>6, <1>7 DEF IInv

\* Every step keeps the invariant,
LEMMA NextInv ==
    ASSUME IInv, Next
    PROVE  IInv'
<1>0. TypeOK /\ PendingInv /\ FrameInv /\ IdentityInv /\ SerialInv
  BY DEF IInv
<1>1. CASE Config
  BY <1>0, <1>1, ConfigIs, ConfigKeeps
<1>2. CASE Creates
  BY <1>0, <1>2, CreateIs, CreateKeeps DEF Creates
<1>3. CASE Outside
  BY <1>0, <1>3, OutsideIs, OutsideKeeps
<1>4. ASSUME NEW m \in Managers, Minting(m)
      PROVE  IInv'
  <2>1. ASSUME NEW t \in TokenIds, NEW o \in OperationIds,
               abortPreparedMintFromManager(m, t, o)
        PROVE  IInv'
    BY <1>0, <2>1, AbortIs, AbortKeeps
  <2> QED BY <1>4, <2>1, MintKeeps, PrepareKeeps, CompleteKeeps DEF Minting
<1>5. CASE HookReturns
  BY <1>0, <1>5, HookIs, HookKeeps
<1>6. CASE ReceiverReturns
  BY <1>6, ReceiverKeeps
<1>7. ASSUME NEW t \in TokenIds, burn(t)
      PROVE  IInv'
  BY <1>0, <1>7, BurnIs, BurnKeeps
<1>8. ASSUME NEW t \in TokenIds, NEW h \in Holders, transferFrom(t, h)
      PROVE  IInv'
  BY <1>8, TransferKeeps
<1> QED BY <1>1, <1>2, <1>3, <1>4, <1>5, <1>6, <1>7, <1>8, NextKinds

\* and so does a step of somebody else.
LEMMA StutterInv ==
    ASSUME IInv, UNCHANGED vars
    PROVE  IInv'
<1>1. OutsideEffect
  BY DEF IInv, TypeOK, vars, OutsideEffect, governedVars
<1> QED BY <1>1, OutsideKeeps

\* The inductive invariant: the pending and the completing token are the one allocated last, and
\* every counter of Core counts its set, along every execution.
THEOREM Inductive == Spec => []IInv
<1>1. IInv /\ [Next]_vars => IInv'
  BY NextInv, StutterInv
<1> QED BY <1>1, InitInv, PTL DEF Spec

\* Every variable keeps its type, the unchecked decrements of liveSupply, lastTokenId and
\* nextSerial (burn, abortPreparedMintFromManager) included.
THEOREM TypeCorrect == Spec => []TypeOK
<1>1. IInv => TypeOK
  BY DEF IInv
<1> QED BY <1>1, Inductive, PTL

\* Token ids and serials stay dense for any number of collections and tokens, whatever
\* is minted, prepared, aborted and burned (_allocateTokenIdentity, the abort's rewind).
THEOREM AllocationDense == Spec => []DenseAllocation
<1>1. ASSUME IInv PROVE DenseAllocation
  <2>1. \A t \in TokenIds : identities[t].collectionId # 0 <=> t <= lastTokenId
    BY <1>1 DEF IInv, IdentityInv
  <2>2. ASSUME NEW c \in CollectionIds, collectionExists(c)
        PROVE  /\ {identities[t].collectionSerial : t \in TokensOf(c)}
                    = 1 .. (collections[c].nextSerial - 1)
               /\ \A t, u \in TokensOf(c) :
                    t < u => identities[t].collectionSerial < identities[u].collectionSerial
    <3>1. c # 0 /\ c <= lastCollectionId
      BY <2>2 DEF collectionExists
    <3>2. \A t \in TokensOf(c) :
            identities[t].collectionSerial \in 1 .. (collections[c].nextSerial - 1)
      <4>1. \A t \in TokenIds : identities[t].collectionSerial \in Nat
        BY <1>1 DEF IInv, TypeOK, IdentityType
      <4>2. collections[c].nextSerial \in Nat
        BY <1>1 DEF IInv, TypeOK, CollectionType
      <4> QED BY <1>1, <4>1, <4>2 DEF IInv, SerialInv, TokensOf
    <3>3. \A s \in 1 .. (collections[c].nextSerial - 1) :
            \E t \in TokensOf(c) : identities[t].collectionSerial = s
      BY <1>1, <3>1 DEF IInv, SerialInv, TokensOf
    <3>4. \A t, u \in TokensOf(c) :
            t < u => identities[t].collectionSerial < identities[u].collectionSerial
      BY <1>1, <3>1 DEF IInv, SerialInv, TokensOf
    <3> QED BY <3>2, <3>3, <3>4
  <2> QED BY <2>1, <2>2 DEF DenseAllocation
<1> QED BY <1>1, Inductive, PTL

\* Minted-ever, burned and live supply count exactly the tokens they are named for, in
\* every callback window (_completeMint, burn, abortPreparedMintFromManager).
THEOREM SupplyCounted == Spec => []SupplyExact
<1>1. ASSUME IInv PROVE SupplyExact
  BY <1>1 DEF IInv, MintedInv, CountInv, SupplyExact, collectionExists
<1> QED BY <1>1, Inductive, PTL

\* No capped collection ever hands out more serials than its cap
\* (_allocateTokenIdentity, setCollectionMaxSupply).
THEOREM CapRespected == Spec => []SupplyCapped
<1>1. IInv => SupplyCapped
  BY DEF IInv
<1> QED BY <1>1, Inductive, PTL

\* A mint in flight is always still admissible: completion may rely on what prepare
\* checked (completePreparedMintFromManager, _requireNoMintExecution).
THEOREM AdmissionHolds == Spec => []AdmissionStillValid
<1>1. IInv => AdmissionStillValid
  BY DEF IInv
<1> QED BY <1>1, Inductive, PTL

-------------------------------------------------------------------------------
(* The way out of a stranded prepared mint *)

\* A prepared mint has an operation that its abort can name.
OperationInv == pending.tokenId # 0 => pending.operationId \in OperationIds

LEMMA OperationStep ==
    ASSUME IInv, OperationInv, Next
    PROVE  OperationInv'
<1>0. TypeOK
  BY DEF IInv
<1>1. CASE Config \/ Creates
  <2>1. CASE Config
    BY <1>0, <2>1, ConfigIs DEF ConfigEffect, mintVars, OperationInv
  <2>2. CASE Creates
    BY <1>0, <2>2, CreateIs DEF Creates, CreateEffect, mintVars, OperationInv
  <2> QED BY <1>1, <2>1, <2>2
<1>2. CASE Outside
  BY <1>0, <1>2, OutsideIs DEF OutsideEffect, mintVars, OperationInv
<1>3. ASSUME NEW m \in Managers, Minting(m)
      PROVE  OperationInv'
  <2>1. ASSUME NEW c \in CollectionIds, NEW h \in Holders, NEW d \in TokenData,
               mintFromManager(m, c, h, d)
        PROVE  OperationInv'
    BY <2>1 DEF mintFromManager, OperationInv
  <2>2. ASSUME NEW c \in CollectionIds, NEW d \in TokenData, NEW o \in OperationIds,
               prepareMintFromManager(m, c, d, o)
        PROVE  OperationInv'
    BY <2>2 DEF prepareMintFromManager, OperationInv
  <2>3. ASSUME NEW t \in TokenIds, NEW h \in Holders, NEW o \in OperationIds,
               completePreparedMintFromManager(m, t, h, o)
        PROVE  OperationInv'
    BY <2>3 DEF completePreparedMintFromManager, NoPending, OperationInv
  <2>4. ASSUME NEW t \in TokenIds, NEW o \in OperationIds,
               abortPreparedMintFromManager(m, t, o)
        PROVE  OperationInv'
    BY <2>4 DEF abortPreparedMintFromManager, NoPending, OperationInv
  <2> QED BY <1>3, <2>1, <2>2, <2>3, <2>4 DEF Minting
<1>4. CASE HookReturns
  BY <1>4 DEF HookReturns, OperationInv
<1>5. CASE ReceiverReturns
  BY <1>5 DEF ReceiverReturns, OperationInv
<1>6. ASSUME NEW t \in TokenIds, burn(t)
      PROVE  OperationInv'
  BY <1>6 DEF burn, mintVars, OperationInv
<1>7. ASSUME NEW t \in TokenIds, NEW h \in Holders, transferFrom(t, h)
      PROVE  OperationInv'
  BY <1>7 DEF transferFrom, mintVars, OperationInv
<1> QED BY <1>1, <1>2, <1>3, <1>4, <1>5, <1>6, <1>7, NextKinds

\* A live manager that did not prepare the stranded token either is the installed one, which
\* may abort, or may be installed: no combination of pointers, dead code and callbacks closes
\* both ways out (updateSatellitePointer, abortPreparedMintFromManager).
THEOREM RecoveryStaysOpen == Spec => []RecoveryOpen
<1>1. Init => OperationInv
  BY DEF Init, NoPending, OperationInv
<1>2. IInv /\ OperationInv /\ [Next]_vars => OperationInv'
  BY OperationStep DEF vars, mintVars, OperationInv
<1>3. ASSUME IInv, OperationInv
      PROVE  RecoveryOpen
  <2> SUFFICES ASSUME Recoverable
               PROVE  Recovery
    BY DEF RecoveryOpen
  <2>1. /\ pending.tokenId \in TokenIds /\ pending.operationId \in OperationIds
        /\ completion = 0
    BY <1>3 DEF IInv, TypeOK, PendingType, PendingInv, OperationInv, Recoverable
  <2>2. PICK m \in Managers \cap live : m # pending.preparingManager
    BY DEF Recoverable
  <2>3. CASE m = pointers[MINT_MANAGER].target
    <3>1. AbortAllowed(m, pending.tokenId, pending.operationId)
      BY <2>1, <2>2, <2>3
         DEF AbortAllowed, requireMintManager, pointerCodeIsLive, Recoverable
    <3> QED BY <2>1, <2>2, <3>1 DEF Recovery
  <2>4. CASE m # pointers[MINT_MANAGER].target
    <3>1. ReplacementAllowed(MINT_MANAGER, m, "POINTER_REPLACEMENT")
      BY <2>1, <2>2, <2>4
         DEF ReplacementAllowed, PointerOpen, EligibleTarget, Managers, Recoverable
    <3>2. m \in Contracts
      BY <1>3, <2>2 DEF IInv, TypeOK
    <3> QED BY <2>2, <3>1, <3>2 DEF Recovery
  <2> QED BY <2>3, <2>4
<1> QED BY <1>1, <1>2, <1>3, Inductive, PTL DEF Spec

-------------------------------------------------------------------------------
(* The coordinator of a completing mint, and what a freeze makes final *)

FrozenExists == \A c \in CollectionIds : collections[c].frozen => c <= lastCollectionId
DataInv == \A t \in TokenIds : t <= lastTokenId => tokenData[t] # NoData

\* One step of the three invariants that rest on IInv and not the other way round.
LEMMA CoordinatorStep ==
    ASSUME IInv, CoordinatorBound, Next
    PROVE  CoordinatorBound'
<1>0. TypeOK /\ PendingInv /\ FrameInv /\ IdentityInv /\ SerialInv /\ TypeOK'
  BY NextInv DEF IInv
<1>1. CASE Config \/ Creates
  <2>1. completion' = 0
    <3>1. CASE Config
      BY <1>0, <3>1, ConfigIs DEF ConfigEffect, mintVars
    <3>2. CASE Creates
      BY <1>0, <3>2, CreateIs DEF Creates, CreateEffect, mintVars
    <3> QED BY <1>1, <3>1, <3>2
  <2> QED BY <2>1 DEF CoordinatorBound
<1>2. CASE Outside
  <2>1. ASSUME NEW p \in PointerTypes, NEW a \in Contracts, NEW class \in ActionClasses,
               updateSatellitePointer(p, a, class)
        PROVE  CoordinatorBound'
    BY <2>1 DEF updateSatellitePointer, ReplacementAllowed, PointerOpen, CoordinatorBound, mintVars
  <2>2. ASSUME NEW p \in PointerTypes, NEW class \in ActionClasses,
               freezeSatellitePointer(p, class)
        PROVE  CoordinatorBound'
    BY <2>2 DEF freezeSatellitePointer, requireNoMintExecution, CoordinatorBound, mintVars
  <2>3. ASSUME NEW p \in GasParameters, NEW n \in 1 .. MaxGas, NEW id \in ActionIds,
               NEW class \in ActionClasses, raiseGasParameter(p, n, id, class)
        PROVE  CoordinatorBound'
    BY <2>3 DEF raiseGasParameter, requireNoMintExecution, CoordinatorBound, mintVars
  <2>4. ASSUME NEW a \in Contracts, CodeDies(a)
        PROVE  CoordinatorBound'
    BY <2>4 DEF CodeDies, CoordinatorBound, mintVars, identityVars, governedVars
  <2> QED BY <1>2, <2>1, <2>2, <2>3, <2>4 DEF Outside
<1>3. ASSUME NEW m \in Managers, Minting(m)
      PROVE  CoordinatorBound'
  <2>1. ASSUME NEW t \in TokenIds, t \in DOMAIN coordinatorAtMint, NEW c, NEW h, NEW b,
               enterCoordinator(t, c, h, b), pointers' = pointers
        PROVE  CoordinatorBound'
    BY <2>1 DEF enterCoordinator, CoordinatorBound
  <2>2. \A t \in TokenIds : t \in DOMAIN coordinatorAtMint
    BY <1>0 DEF TypeOK
  <2>3. ASSUME NEW c \in CollectionIds, NEW h \in Holders, NEW d \in TokenData,
               mintFromManager(m, c, h, d)
        PROVE  CoordinatorBound'
    <3>1. lastTokenId + 1 \in TokenIds
      BY <1>0, <2>3, NumberAssumption
         DEF mintFromManager, allocateTokenIdentity, TokenIds, TypeOK
    <3> QED BY <2>1, <2>2, <2>3, <3>1 DEF mintFromManager, governedVars
  <2>4. ASSUME NEW c \in CollectionIds, NEW d \in TokenData, NEW o \in OperationIds,
               prepareMintFromManager(m, c, d, o)
        PROVE  CoordinatorBound'
    BY <2>4 DEF prepareMintFromManager, requireNoMintExecution, CoordinatorBound
  <2>5. ASSUME NEW t \in TokenIds, NEW h \in Holders, NEW o \in OperationIds,
               completePreparedMintFromManager(m, t, h, o)
        PROVE  CoordinatorBound'
    BY <2>1, <2>2, <2>5 DEF completePreparedMintFromManager, governedVars
  <2>6. ASSUME NEW t \in TokenIds, NEW o \in OperationIds,
               abortPreparedMintFromManager(m, t, o)
        PROVE  CoordinatorBound'
    BY <2>6 DEF abortPreparedMintFromManager, AbortAllowed, CoordinatorBound
  <2> QED BY <1>3, <2>3, <2>4, <2>5, <2>6 DEF Minting
<1>4. CASE HookReturns
  BY <1>4 DEF HookReturns, CoordinatorBound, identityVars, governedVars
<1>5. CASE ReceiverReturns
  BY <1>5 DEF ReceiverReturns, CoordinatorBound
<1>6. ASSUME NEW t \in TokenIds, burn(t)
      PROVE  CoordinatorBound'
  BY <1>6 DEF burn, CoordinatorBound, identityVars, mintVars, governedVars
<1>7. ASSUME NEW t \in TokenIds, NEW h \in Holders, transferFrom(t, h)
      PROVE  CoordinatorBound'
  BY <1>7 DEF transferFrom, CoordinatorBound, identityVars, mintVars, governedVars
<1> QED BY <1>1, <1>2, <1>3, <1>4, <1>5, <1>6, <1>7, NextKinds

\* No callee can swap the coordinator under a completing mint (_completeMint,
\* updateSatellitePointer).
THEOREM CoordinatorAlwaysBound == Spec => []CoordinatorBound
<1>1. Init => CoordinatorBound
  BY DEF Init, CoordinatorBound
<1>2. IInv /\ CoordinatorBound /\ [Next]_vars => CoordinatorBound'
  <2>1. CoordinatorBound /\ UNCHANGED vars => CoordinatorBound'
    BY DEF CoordinatorBound, vars, identityVars, mintVars, governedVars
  <2> QED BY <2>1, CoordinatorStep
<1> QED BY <1>1, <1>2, Inductive, PTL DEF Spec

\* What a step does to a collection c that was frozen before it.
Untouched(c) ==
    /\ collections'[c] = collections[c]
    /\ TokensOf(c)' = TokensOf(c)
    /\ (TokensOf(c) \cap Owned)' = TokensOf(c) \cap Owned

\* A collection is untouched when its record, its tokens and which of them are owned stay.
LEMMA UntouchedWhen ==
    ASSUME NEW c, collections'[c] = collections[c],
           \A t \in TokenIds :
              /\ identities'[t].collectionId = c <=> identities[t].collectionId = c
              /\ identities[t].collectionId = c =>
                   (owner'[t] # NoAddress <=> owner[t] # NoAddress)
    PROVE  Untouched(c)
BY DEF Untouched, TokensOf, Owned

\* A frozen collection is neither written by a governed change nor minted into, aborted
\* from or burned from.
LEMMA FrozenStep ==
    ASSUME IInv, FrozenExists, Next, NEW c \in CollectionIds, collections[c].frozen
    PROVE  Untouched(c)
<1>0. TypeOK /\ PendingInv /\ FrameInv /\ IdentityInv /\ SerialInv /\ c # 0
  BY DEF IInv, CollectionIds
<1>a. ~Allocatable(c) /\ ~InFlight(c)
  BY DEF IInv, AdmissionStillValid, Allocatable
<1>1. CASE Config
  <2>1. /\ identities' = identities /\ owner' = owner
    BY <1>0, <1>1, ConfigIs DEF ConfigEffect, identityVars, ownerVars
  <2>2. collections'[c] = collections[c]
    <3>1. ASSUME NEW k \in CollectionIds, NEW s \in Statuses, NEW class \in ActionClasses,
                 setCollectionStatus(k, s, class)
          PROVE  collections'[c] = collections[c]
      BY <1>0, <3>1 DEF setCollectionStatus, TypeOK
    <3>2. ASSUME NEW k \in CollectionIds, NEW n \in Supplies, NEW class \in ActionClasses,
                 setCollectionMaxSupply(k, n, class)
          PROVE  collections'[c] = collections[c]
      BY <1>0, <3>2 DEF setCollectionMaxSupply, TypeOK
    <3>3. ASSUME NEW k \in CollectionIds, NEW class \in ActionClasses,
                 blockCollectionBurns(k, class)
          PROVE  collections'[c] = collections[c]
      BY <1>0, <3>3 DEF blockCollectionBurns, TypeOK
    <3>4. ASSUME NEW k \in CollectionIds, NEW class \in ActionClasses,
                 freezeCollection(k, class)
          PROVE  collections'[c] = collections[c]
      BY <1>0, <3>4 DEF freezeCollection, TypeOK
    <3> QED BY <1>1, <3>1, <3>2, <3>3, <3>4 DEF Config
  <2> QED BY <2>1, <2>2, UntouchedWhen
<1>2. CASE Creates
  <2>1. CreateEffect
    BY <1>0, <1>2, CreateIs DEF Creates
  <2>2. c # lastCollectionId + 1
    BY <1>0 DEF FrozenExists, TypeOK
  <2>3. /\ identities' = identities /\ owner' = owner /\ collections'[c] = collections[c]
    BY <2>1, <2>2 DEF CreateEffect, identityVars, ownerVars
  <2> QED BY <2>3, UntouchedWhen
<1>3. CASE Outside
  <2>1. /\ identities' = identities /\ owner' = owner /\ collections' = collections
    BY <1>0, <1>3, OutsideIs DEF OutsideEffect, identityVars, ownerVars, collectionVars
  <2> QED BY <2>1, UntouchedWhen
<1>4. ASSUME NEW m \in Managers, Minting(m)
      PROVE  Untouched(c)
  <2>1. ASSUME NEW k \in CollectionIds, NEW d \in TokenData, allocateTokenIdentity(k, d),
               owner' = owner
        PROVE  Untouched(c)
    <3>1. k # c
      BY <1>a, <2>1 DEF allocateTokenIdentity
    <3>2. lastTokenId + 1 \in TokenIds /\ identities[lastTokenId + 1].collectionId = 0
      BY <1>0, <2>1, NumberAssumption
         DEF allocateTokenIdentity, TokenIds, TypeOK, IdentityInv
    <3>3. collections'[c] = collections[c]
      BY <1>0, <2>1, <3>1 DEF allocateTokenIdentity, TypeOK
    <3>4. \A t \in TokenIds :
            identities'[t].collectionId = c <=> identities[t].collectionId = c
      BY <1>0, <2>1, <3>1, <3>2 DEF allocateTokenIdentity, TypeOK
    <3> QED BY <2>1, <3>3, <3>4, UntouchedWhen
  <2>2. ASSUME NEW k \in CollectionIds, NEW h \in Holders, NEW d \in TokenData,
               mintFromManager(m, k, h, d)
        PROVE  Untouched(c)
    BY <2>1, <2>2 DEF mintFromManager, ownerVars
  <2>3. ASSUME NEW k \in CollectionIds, NEW d \in TokenData, NEW o \in OperationIds,
               prepareMintFromManager(m, k, d, o)
        PROVE  Untouched(c)
    BY <2>1, <2>3 DEF prepareMintFromManager, ownerVars
  <2>4. ASSUME NEW t \in TokenIds, NEW h \in Holders, NEW o \in OperationIds,
               completePreparedMintFromManager(m, t, h, o)
        PROVE  Untouched(c)
    BY <2>4, UntouchedWhen DEF completePreparedMintFromManager, collectionVars, ownerVars
  <2>5. ASSUME NEW t \in TokenIds, NEW o \in OperationIds,
               abortPreparedMintFromManager(m, t, o)
        PROVE  Untouched(c)
    <3>1. pending.collectionId # c /\ t = lastTokenId
      BY <1>0, <1>a, <2>5 DEF abortPreparedMintFromManager, AbortAllowed, InFlight, PendingInv
    <3>2. identities[t].collectionId = pending.collectionId
      BY <1>0, <2>5, <3>1 DEF abortPreparedMintFromManager, AbortAllowed, PendingInv
    <3>3. collections'[c] = collections[c]
      BY <1>0, <2>5, <3>1 DEF abortPreparedMintFromManager, AbortAllowed, Rewind, TypeOK
    <3>4. /\ owner' = owner /\ identities' = [identities EXCEPT ![t] = NoIdentity]
      BY <2>5 DEF abortPreparedMintFromManager, AbortAllowed, ownerVars
    <3>5. \A u \in TokenIds :
            identities'[u].collectionId = c <=> identities[u].collectionId = c
      BY <1>0, <3>1, <3>2, <3>4 DEF TypeOK, NoIdentity
    <3> QED BY <3>3, <3>4, <3>5, UntouchedWhen
  <2> QED BY <1>4, <2>2, <2>3, <2>4, <2>5 DEF Minting
<1>5. CASE HookReturns
  <2>1. frame.collectionId # c
    BY <1>a, <1>5 DEF HookReturns, InFlight
  <2>2. /\ completion = lastTokenId /\ identities[lastTokenId].collectionId = frame.collectionId
    BY <1>0, <1>5 DEF HookReturns, FrameInv
  <2>3. collections'[c] = collections[c]
    BY <1>0, <1>5, <2>1 DEF HookReturns, TypeOK
  <2>4. \A t \in TokenIds : identities[t].collectionId = c => owner'[t] = owner[t]
    BY <1>0, <1>5, <2>1, <2>2 DEF HookReturns, TypeOK
  <2>5. identities' = identities
    BY <1>5 DEF HookReturns, identityVars
  <2> QED BY <2>3, <2>4, <2>5, UntouchedWhen
<1>6. CASE ReceiverReturns
  BY <1>6, UntouchedWhen DEF ReceiverReturns, collectionVars, identityVars, ownerVars
<1>7. ASSUME NEW t \in TokenIds, burn(t)
      PROVE  Untouched(c)
  <2>1. identities[t].collectionId # c
    BY <1>7 DEF burn, BurnAllowed
  <2>2. collections'[c] = collections[c] /\ identities' = identities
    BY <1>0, <1>7, <2>1 DEF burn, TypeOK, identityVars
  <2>3. \A u \in TokenIds : identities[u].collectionId = c => owner'[u] = owner[u]
    BY <1>0, <1>7, <2>1 DEF burn, TypeOK
  <2> QED BY <2>2, <2>3, UntouchedWhen
<1>8. ASSUME NEW t \in TokenIds, NEW h \in Holders, transferFrom(t, h)
      PROVE  Untouched(c)
  <2>1. \A u \in TokenIds : owner'[u] # NoAddress <=> owner[u] # NoAddress
    BY <1>0, <1>8, HolderAssumption DEF transferFrom, TypeOK
  <2>2. collections' = collections /\ identities' = identities
    BY <1>8 DEF transferFrom, collectionVars, identityVars
  <2> QED BY <2>1, <2>2, UntouchedWhen
<1> QED BY <1>1, <1>2, <1>3, <1>4, <1>5, <1>6, <1>7, <1>8, NextKinds

\* Only collections that exist are ever frozen.
LEMMA FrozenExistsStep ==
    ASSUME IInv, FrozenExists, Next
    PROVE  FrozenExists'
<1>0. TypeOK /\ PendingInv /\ FrameInv /\ IdentityInv /\ SerialInv
  BY DEF IInv
<1>a. ASSUME SettingsKept, lastCollectionId' = lastCollectionId
      PROVE  FrozenExists'
  BY <1>a DEF FrozenExists, SettingsKept
<1>b. ASSUME collections' = collections, lastCollectionId' = lastCollectionId
      PROVE  FrozenExists'
  BY <1>b DEF FrozenExists
<1>1. CASE Config
  <2>1. lastCollectionId' = lastCollectionId
    BY <1>0, <1>1, ConfigIs DEF ConfigEffect
  <2>2. \A c \in CollectionIds : collections'[c].frozen =>
           collections[c].frozen \/ c <= lastCollectionId
    <3>1. ASSUME NEW k \in CollectionIds, NEW s \in Statuses, NEW class \in ActionClasses,
                 setCollectionStatus(k, s, class)
          PROVE  \A c \in CollectionIds : collections'[c].frozen = collections[c].frozen
      BY <1>0, <3>1 DEF setCollectionStatus, TypeOK, CollectionType
    <3>2. ASSUME NEW k \in CollectionIds, NEW n \in Supplies, NEW class \in ActionClasses,
                 setCollectionMaxSupply(k, n, class)
          PROVE  \A c \in CollectionIds : collections'[c].frozen = collections[c].frozen
      BY <1>0, <3>2 DEF setCollectionMaxSupply, TypeOK, CollectionType
    <3>3. ASSUME NEW k \in CollectionIds, NEW class \in ActionClasses,
                 blockCollectionBurns(k, class)
          PROVE  \A c \in CollectionIds : collections'[c].frozen = collections[c].frozen
      BY <1>0, <3>3 DEF blockCollectionBurns, TypeOK, CollectionType
    <3>4. ASSUME NEW k \in CollectionIds, NEW class \in ActionClasses,
                 freezeCollection(k, class)
          PROVE  \A c \in CollectionIds :
                   collections'[c].frozen => collections[c].frozen \/ c <= lastCollectionId
      BY <1>0, <3>4 DEF freezeCollection, TypeOK, CollectionType, collectionExists
    <3> QED BY <1>1, <3>1, <3>2, <3>3, <3>4 DEF Config
  <2> QED BY <2>1, <2>2 DEF FrozenExists
<1>2. CASE Creates
  <2>1. CreateEffect
    BY <1>0, <1>2, CreateIs DEF Creates
  <2>2. \A c \in CollectionIds : c <= lastCollectionId => c <= lastCollectionId + 1
    BY <1>0 DEF TypeOK, CollectionIds
  <2>3. lastCollectionId + 1 <= lastCollectionId + 1
    BY <1>0 DEF TypeOK
  <2> QED BY <2>1, <2>2, <2>3 DEF FrozenExists, CreateEffect
<1>3. CASE Outside
  BY <1>0, <1>3, <1>b, OutsideIs DEF OutsideEffect, collectionVars
<1>4. ASSUME NEW m \in Managers, Minting(m)
      PROVE  FrozenExists'
  <2>2. ASSUME NEW k \in CollectionIds, NEW h \in Holders, NEW d \in TokenData,
               mintFromManager(m, k, h, d)
        PROVE  FrozenExists'
    BY <1>0, <1>a, <2>2, AllocateIs DEF mintFromManager, AllocateEffect
  <2>3. ASSUME NEW k \in CollectionIds, NEW d \in TokenData, NEW o \in OperationIds,
               prepareMintFromManager(m, k, d, o)
        PROVE  FrozenExists'
    BY <1>0, <1>a, <2>3, AllocateIs DEF prepareMintFromManager, AllocateEffect
  <2>4. ASSUME NEW t \in TokenIds, NEW h \in Holders, NEW o \in OperationIds,
               completePreparedMintFromManager(m, t, h, o)
        PROVE  FrozenExists'
    BY <1>b, <2>4 DEF completePreparedMintFromManager, collectionVars
  <2>5. ASSUME NEW t \in TokenIds, NEW o \in OperationIds,
               abortPreparedMintFromManager(m, t, o)
        PROVE  FrozenExists'
    BY <1>0, <1>a, <2>5, AbortIs DEF AbortEffect
  <2> QED BY <1>4, <2>2, <2>3, <2>4, <2>5 DEF Minting
<1>5. CASE HookReturns
  BY <1>0, <1>a, <1>5, HookIs DEF CountEffect
<1>6. CASE ReceiverReturns
  BY <1>b, <1>6 DEF ReceiverReturns, collectionVars
<1>7. ASSUME NEW t \in TokenIds, burn(t)
      PROVE  FrozenExists'
  BY <1>0, <1>a, <1>7, BurnIs DEF BurnEffect
<1>8. ASSUME NEW t \in TokenIds, NEW h \in Holders, transferFrom(t, h)
      PROVE  FrozenExists'
  BY <1>b, <1>8 DEF transferFrom, collectionVars
<1> QED BY <1>1, <1>2, <1>3, <1>4, <1>5, <1>6, <1>7, <1>8, NextKinds

\* Freezing a collection is final: no later call of anyone changes its settings, its
\* counters, its tokens or which of them are alive (freezeCollection, burn, minting).
THEOREM FreezeIsFinal == Spec => FrozenIsFinal
<1>1. Init => FrozenExists
  BY DEF Init, FrozenExists, NoCollection
<1>2. IInv /\ FrozenExists /\ [Next]_vars => FrozenExists'
  <2>1. FrozenExists /\ UNCHANGED vars => FrozenExists'
    BY DEF FrozenExists, vars, collectionVars
  <2> QED BY <2>1, FrozenExistsStep
<1>3. IInv /\ FrozenExists /\ [Next]_vars =>
        [\A c \in CollectionIds : collections[c].frozen =>
            /\ collections'[c] = collections[c]
            /\ TokensOf(c)' = TokensOf(c)
            /\ (TokensOf(c) \cap Owned)' = TokensOf(c) \cap Owned]_vars
  BY FrozenStep DEF Untouched
<1> QED BY <1>1, <1>2, <1>3, Inductive, PTL DEF Spec, FrozenIsFinal

-------------------------------------------------------------------------------
(* The life cycle of a token *)

\* tokenLifecycle read off the records, before and after a step.
LEMMA LifecycleIs ==
    ASSUME NEW t \in TokenIds
    PROVE  /\ tokenLifecycle(t) =
                IF identities[t].collectionId = 0 THEN "UNKNOWN"
                ELSE IF owner[t] # NoAddress THEN "MINTED"
                ELSE IF t = pending.tokenId \/ t = completion THEN "PREPARED_INCOMPLETE"
                ELSE "BURNED"
           /\ tokenLifecycle(t)' =
                IF identities'[t].collectionId = 0 THEN "UNKNOWN"
                ELSE IF owner'[t] # NoAddress THEN "MINTED"
                ELSE IF t = pending'.tokenId \/ t = completion' THEN "PREPARED_INCOMPLETE"
                ELSE "BURNED"
BY DEF tokenLifecycle

\* What LifecycleMonotone asks of one token in one step.
LifeStep(t) ==
    /\ \/ tokenLifecycle(t)' = tokenLifecycle(t)
       \/ <<tokenLifecycle(t), tokenLifecycle(t)'>> \in
            {<<"UNKNOWN", "PREPARED_INCOMPLETE">>, <<"PREPARED_INCOMPLETE", "UNKNOWN">>,
             <<"PREPARED_INCOMPLETE", "MINTED">>, <<"MINTED", "BURNED">>}
    /\ Happened(t) =>
         /\ identities'[t] = identities[t]
         /\ tokenData'[t] = tokenData[t] /\ tokenData[t] # NoData
         /\ coordinatorAtMint'[t] = coordinatorAtMint[t]

\* A token that is unknown or prepared moves as the step says.
LEMMA LifeMoves ==
    ASSUME NEW t \in TokenIds,
           \/ /\ tokenLifecycle(t) = "UNKNOWN"
              /\ tokenLifecycle(t)' = "PREPARED_INCOMPLETE"
           \/ /\ tokenLifecycle(t) = "PREPARED_INCOMPLETE"
              /\ tokenLifecycle(t)' \in {"UNKNOWN", "PREPARED_INCOMPLETE", "MINTED"}
    PROVE  LifeStep(t)
BY DEF LifeStep, Happened

\* A token whose records a step keeps.
LEMMA LifeStays ==
    ASSUME IdentityInv, DataInv, NEW t \in TokenIds,
           identities'[t] = identities[t], tokenData'[t] = tokenData[t],
           coordinatorAtMint'[t] = coordinatorAtMint[t],
           \/ tokenLifecycle(t)' = tokenLifecycle(t)
           \/ tokenLifecycle(t) = "MINTED" /\ tokenLifecycle(t)' = "BURNED"
    PROVE  LifeStep(t)
<1>1. Happened(t) => tokenData[t] # NoData
  BY LifecycleIs DEF Happened, IdentityInv, DataInv
<1> QED BY <1>1 DEF LifeStep

\* Every step moves every token along its life cycle or leaves it where it is.
LEMMA LifecycleStep ==
    ASSUME IInv, DataInv, Next, NEW t \in TokenIds
    PROVE  LifeStep(t)
<1>0. /\ TypeOK /\ PendingInv /\ FrameInv /\ IdentityInv /\ SerialInv
      /\ t # 0 /\ \A c \in CollectionIds : c # 0
  BY DEF IInv, TokenIds, CollectionIds
<1>a. ASSUME identities' = identities, tokenData' = tokenData,
             coordinatorAtMint' = coordinatorAtMint, owner' = owner,
             pending' = pending, completion' = completion
      PROVE  LifeStep(t)
  <2>1. tokenLifecycle(t)' = tokenLifecycle(t)
    BY <1>a, LifecycleIs
  <2> QED BY <1>0, <1>a, <2>1, LifeStays
<1>1. CASE Config
  BY <1>0, <1>1, <1>a, ConfigIs DEF ConfigEffect, identityVars, ownerVars, mintVars
<1>2. CASE Creates
  BY <1>0, <1>2, <1>a, CreateIs DEF Creates, CreateEffect, identityVars, ownerVars, mintVars
<1>3. CASE Outside
  BY <1>0, <1>3, <1>a, OutsideIs DEF OutsideEffect, identityVars, ownerVars, mintVars
<1>4. ASSUME NEW m \in Managers, Minting(m)
      PROVE  LifeStep(t)
  <2>1. ASSUME NEW c, NEW d, AllocateEffect(c, d), pending.tokenId = 0, completion = 0,
               lastTokenId' \in {pending'.tokenId, completion'},
               {pending'.tokenId, completion'} \subseteq {0, lastTokenId'},
               t # lastTokenId' => coordinatorAtMint'[t] = coordinatorAtMint[t]
        PROVE  LifeStep(t)
    <3>1. /\ lastTokenId' = lastTokenId + 1 /\ owner' = owner /\ c \in CollectionIds
      BY <2>1 DEF AllocateEffect, ownerVars
    <3>2. CASE t = lastTokenId'
      <4>1. identities[t].collectionId = 0 /\ owner[t] = NoAddress
        BY <1>0, <3>1, <3>2 DEF IdentityInv, TypeOK
      <4>2. identities'[t].collectionId = c
        BY <2>1, <3>1, <3>2 DEF AllocateEffect
      <4>3. /\ tokenLifecycle(t) = "UNKNOWN"
            /\ tokenLifecycle(t)' = "PREPARED_INCOMPLETE"
        BY <1>0, <2>1, <3>1, <3>2, <4>1, <4>2, LifecycleIs
      <4> QED BY <4>3, LifeMoves
    <3>3. CASE t # lastTokenId'
      <4>1. identities'[t] = identities[t] /\ tokenData'[t] = tokenData[t]
        BY <2>1, <3>1, <3>3 DEF AllocateEffect
      <4>2. tokenLifecycle(t)' = tokenLifecycle(t)
        BY <1>0, <2>1, <3>1, <3>3, <4>1, LifecycleIs
      <4> QED BY <1>0, <2>1, <3>3, <4>1, <4>2, LifeStays
    <3> QED BY <3>2, <3>3
  <2>2. ASSUME NEW c \in CollectionIds, NEW h \in Holders, NEW d \in TokenData,
               mintFromManager(m, c, h, d)
        PROVE  LifeStep(t)
    <3>1. AllocateEffect(c, d)
      BY <1>0, <2>2, AllocateIs DEF mintFromManager
    <3>2. /\ pending.tokenId = 0 /\ completion = 0 /\ pending' = pending
          /\ completion' = lastTokenId + 1 /\ lastTokenId' = lastTokenId + 1
          /\ t # lastTokenId + 1 => coordinatorAtMint'[t] = coordinatorAtMint[t]
      BY <1>0, <2>2 DEF mintFromManager, requireNoMintExecution, enterCoordinator,
                        allocateTokenIdentity, TypeOK
    <3> QED BY <2>1, <3>1, <3>2
  <2>3. ASSUME NEW c \in CollectionIds, NEW d \in TokenData, NEW o \in OperationIds,
               prepareMintFromManager(m, c, d, o)
        PROVE  LifeStep(t)
    <3>1. AllocateEffect(c, d)
      BY <1>0, <2>3, AllocateIs DEF prepareMintFromManager
    <3>2. /\ pending.tokenId = 0 /\ completion = 0 /\ completion' = completion
          /\ pending'.tokenId = lastTokenId + 1 /\ lastTokenId' = lastTokenId + 1
          /\ coordinatorAtMint' = coordinatorAtMint
      BY <2>3 DEF prepareMintFromManager, requireNoMintExecution, allocateTokenIdentity
    <3> QED BY <2>1, <3>1, <3>2
  <2>4. ASSUME NEW u \in TokenIds, NEW h \in Holders, NEW o \in OperationIds,
               completePreparedMintFromManager(m, u, h, o)
        PROVE  LifeStep(t)
    <3>1. /\ pending.tokenId = u /\ completion = 0 /\ pending'.tokenId = 0 /\ completion' = u
          /\ UNCHANGED <<identities, tokenData, owner>>
          /\ t # u => coordinatorAtMint'[t] = coordinatorAtMint[t]
      BY <1>0, <2>4 DEF completePreparedMintFromManager, Completes, enterCoordinator,
                        NoPending, ownerVars, TypeOK
    <3>2. tokenLifecycle(t)' = tokenLifecycle(t)
      BY <1>0, <3>1, LifecycleIs
    <3>3. CASE t = u
      <4>1. tokenLifecycle(t) = "PREPARED_INCOMPLETE"
        BY <1>0, <3>1, <3>3, LifecycleIs DEF PendingInv
      <4> QED BY <3>2, <4>1, LifeMoves
    <3>4. CASE t # u
      BY <1>0, <3>1, <3>2, <3>4, LifeStays
    <3> QED BY <3>3, <3>4
  <2>5. ASSUME NEW u \in TokenIds, NEW o \in OperationIds,
               abortPreparedMintFromManager(m, u, o)
        PROVE  LifeStep(t)
    <3>1. AbortEffect
      BY <1>0, <2>5, AbortIs
    <3>2. /\ pending.tokenId = lastTokenId /\ completion = 0 /\ pending'.tokenId = 0
          /\ completion' = 0 /\ owner' = owner /\ owner[lastTokenId] = NoAddress
          /\ identities[lastTokenId].collectionId \in CollectionIds
      BY <1>0, <3>1 DEF AbortEffect, PendingInv, NoPending, ownerVars
    <3>3. CASE t = lastTokenId
      <4>1. identities'[t].collectionId = 0
        BY <3>1, <3>3 DEF AbortEffect, NoIdentity
      <4>2. /\ tokenLifecycle(t) = "PREPARED_INCOMPLETE" /\ tokenLifecycle(t)' = "UNKNOWN"
        BY <1>0, <3>2, <3>3, <4>1, LifecycleIs
      <4> QED BY <4>2, LifeMoves
    <3>4. CASE t # lastTokenId
      <4>1. /\ identities'[t] = identities[t] /\ tokenData'[t] = tokenData[t]
            /\ coordinatorAtMint'[t] = coordinatorAtMint[t]
        BY <3>1, <3>4 DEF AbortEffect
      <4>2. tokenLifecycle(t)' = tokenLifecycle(t)
        BY <1>0, <3>2, <3>4, <4>1, LifecycleIs
      <4> QED BY <1>0, <4>1, <4>2, LifeStays
    <3> QED BY <3>3, <3>4
  <2> QED BY <1>4, <2>2, <2>3, <2>4, <2>5 DEF Minting
<1>5. CASE HookReturns
  <2>1. CountEffect
    BY <1>0, <1>5, HookIs
  <2>2. /\ completion = lastTokenId /\ frame.recipient # NoAddress
        /\ owner[lastTokenId] = NoAddress /\ identities[lastTokenId].collectionId # 0
        /\ completion' \in {completion, 0} /\ pending' = pending
        /\ UNCHANGED <<identities, tokenData, coordinatorAtMint>>
    BY <1>0, <2>1, HolderAssumption DEF CountEffect, FrameInv, identityVars
  <2>3. CASE t = lastTokenId
    <3>1. owner'[t] # NoAddress
      BY <2>1, <2>2, <2>3 DEF CountEffect
    <3>2. tokenLifecycle(t) = "PREPARED_INCOMPLETE" /\ tokenLifecycle(t)' = "MINTED"
      BY <2>2, <2>3, <3>1, LifecycleIs
    <3> QED BY <3>2, LifeMoves
  <2>4. CASE t # lastTokenId
    <3>1. owner'[t] = owner[t]
      BY <2>1, <2>4 DEF CountEffect
    <3>2. tokenLifecycle(t)' = tokenLifecycle(t)
      BY <1>0, <2>2, <2>4, <3>1, LifecycleIs
    <3> QED BY <1>0, <2>2, <3>2, LifeStays
  <2> QED BY <2>3, <2>4
<1>6. CASE ReceiverReturns
  <2>1. /\ UNCHANGED <<identities, tokenData, coordinatorAtMint, owner, pending>>
        /\ completion' = 0 /\ (t = completion => owner[t] # NoAddress)
    BY <1>0, <1>6 DEF ReceiverReturns, identityVars, ownerVars, FrameInv
  <2>2. tokenLifecycle(t)' = tokenLifecycle(t)
    BY <1>0, <2>1, LifecycleIs
  <2> QED BY <1>0, <2>1, <2>2, LifeStays
<1>7. ASSUME NEW u \in TokenIds, burn(u)
      PROVE  LifeStep(t)
  <2>1. BurnEffect(u)
    BY <1>0, <1>7, BurnIs
  <2>2. /\ UNCHANGED <<identities, tokenData, coordinatorAtMint, pending, completion>>
        /\ owner[u] # NoAddress /\ owner'[u] = NoAddress /\ completion = 0
        /\ (t # u => owner'[t] = owner[t]) /\ identities[u].collectionId # 0
    BY <1>0, <2>1 DEF BurnEffect, identityVars, mintVars
  <2>3. u # pending.tokenId
    BY <1>0, <2>2 DEF PendingInv, TokenIds
  <2>4. CASE t = u
    <3>1. tokenLifecycle(t) = "MINTED" /\ tokenLifecycle(t)' = "BURNED"
      BY <1>0, <2>2, <2>3, <2>4, LifecycleIs
    <3> QED BY <1>0, <2>2, <3>1, LifeStays
  <2>5. CASE t # u
    <3>1. tokenLifecycle(t)' = tokenLifecycle(t)
      BY <2>2, <2>5, LifecycleIs
    <3> QED BY <1>0, <2>2, <3>1, LifeStays
  <2> QED BY <2>4, <2>5
<1>8. ASSUME NEW u \in TokenIds, NEW h \in Holders, transferFrom(u, h)
      PROVE  LifeStep(t)
  <2>1. /\ UNCHANGED <<identities, tokenData, coordinatorAtMint, pending, completion>>
        /\ owner'[t] # NoAddress <=> owner[t] # NoAddress
    BY <1>0, <1>8, HolderAssumption DEF transferFrom, identityVars, mintVars, TypeOK
  <2>2. tokenLifecycle(t)' = tokenLifecycle(t)
    BY <2>1, LifecycleIs
  <2> QED BY <1>0, <2>1, <2>2, LifeStays
<1> QED BY <1>1, <1>2, <1>3, <1>4, <1>5, <1>6, <1>7, <1>8, NextKinds

\* Every allocated token keeps the data it was minted with; the step is by kinds again.
LEMMA DataStep ==
    ASSUME IInv, DataInv, Next
    PROVE  DataInv'
<1>0. TypeOK /\ PendingInv /\ FrameInv /\ IdentityInv /\ SerialInv
  BY DEF IInv
<1>a. ASSUME tokenData' = tokenData, lastTokenId' = lastTokenId
      PROVE  DataInv'
  BY <1>a DEF DataInv
<1>b. ASSUME NEW c \in CollectionIds, NEW d \in TokenData, AllocateEffect(c, d)
      PROVE  DataInv'
  <2>1. \A t \in TokenIds : t <= lastTokenId + 1 => t = lastTokenId + 1 \/ t <= lastTokenId
    BY <1>0 DEF TypeOK, TokenIds
  <2> QED BY <1>b, <2>1, ValueAssumption DEF AllocateEffect, DataInv
<1>1. CASE Config
  BY <1>0, <1>1, <1>a, ConfigIs DEF ConfigEffect, identityVars
<1>2. CASE Creates
  BY <1>0, <1>2, <1>a, CreateIs DEF Creates, CreateEffect, identityVars
<1>3. CASE Outside
  BY <1>0, <1>3, <1>a, OutsideIs DEF OutsideEffect, identityVars
<1>4. ASSUME NEW m \in Managers, Minting(m)
      PROVE  DataInv'
  <2>2. ASSUME NEW c \in CollectionIds, NEW h \in Holders, NEW d \in TokenData,
               mintFromManager(m, c, h, d)
        PROVE  DataInv'
    BY <1>0, <1>b, <2>2, AllocateIs DEF mintFromManager
  <2>3. ASSUME NEW c \in CollectionIds, NEW d \in TokenData, NEW o \in OperationIds,
               prepareMintFromManager(m, c, d, o)
        PROVE  DataInv'
    BY <1>0, <1>b, <2>3, AllocateIs DEF prepareMintFromManager
  <2>4. ASSUME NEW t \in TokenIds, NEW h \in Holders, NEW o \in OperationIds,
               completePreparedMintFromManager(m, t, h, o)
        PROVE  DataInv'
    BY <1>a, <2>4 DEF completePreparedMintFromManager
  <2>5. ASSUME NEW t \in TokenIds, NEW o \in OperationIds,
               abortPreparedMintFromManager(m, t, o)
        PROVE  DataInv'
    <3>1. AbortEffect
      BY <1>0, <2>5, AbortIs
    <3>2. \A u \in TokenIds : u <= lastTokenId - 1 => u # lastTokenId /\ u <= lastTokenId
      BY <1>0 DEF TypeOK, TokenIds
    <3> QED BY <3>1, <3>2 DEF AbortEffect, DataInv
  <2> QED BY <1>4, <2>2, <2>3, <2>4, <2>5 DEF Minting
<1>5. CASE HookReturns
  BY <1>a, <1>5 DEF HookReturns, identityVars
<1>6. CASE ReceiverReturns
  BY <1>a, <1>6 DEF ReceiverReturns, identityVars
<1>7. ASSUME NEW t \in TokenIds, burn(t)
      PROVE  DataInv'
  BY <1>a, <1>7 DEF burn, identityVars
<1>8. ASSUME NEW t \in TokenIds, NEW h \in Holders, transferFrom(t, h)
      PROVE  DataInv'
  BY <1>a, <1>8 DEF transferFrom, identityVars
<1> QED BY <1>1, <1>2, <1>3, <1>4, <1>5, <1>6, <1>7, <1>8, NextKinds

\* A token's life only moves forward, except that an abort returns a prepared token to
\* unknown; a token that was ever minted keeps its identity, data and coordinator
\* (tokenLifecycle, abortPreparedMintFromManager, burn).
THEOREM LivesMoveForward == Spec => LifecycleMonotone
<1>1. Init => DataInv
  BY DEF Init, DataInv, TokenIds
<1>2. IInv /\ DataInv /\ [Next]_vars => DataInv'
  <2>1. DataInv /\ UNCHANGED vars => DataInv'
    BY DEF DataInv, vars, identityVars
  <2> QED BY <2>1, DataStep
<1>3. IInv /\ DataInv /\ [Next]_vars => [\A t \in TokenIds : LifeStep(t)]_vars
  BY LifecycleStep
<1>4. LifecycleMonotone <=> [][\A t \in TokenIds : LifeStep(t)]_vars
  BY DEF LifecycleMonotone, LifeStep
<1> QED BY <1>1, <1>2, <1>3, <1>4, Inductive, PTL DEF Spec

================================================================================
